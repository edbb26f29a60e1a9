SPECIFICATION Spec
CONSTANTS
    chart = chart
    other = other
    Testers = {t1}
    TrustDomains <- MCTrustDomains
    ChartDomain <- MCChartDomain
    MaxPods = 2
    World <- MCQuiet
PROPERTY WorkflowPasses
