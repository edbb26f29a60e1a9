SPECIFICATION FairSpec
CONSTANTS
    chart = chart
    other = other
    Testers = {t1, t2}
    TrustDomains <- MCTrustDomains
    ChartDomain <- MCChartDomain
    MaxPods = 2
    World <- MCWorld
INVARIANTS TypeOK PassIsFresh
PROPERTIES TrustDomainStable TestsEnd
