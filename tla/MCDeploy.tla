------------------------------- MODULE MCDeploy -------------------------------
(* Deploy for TLC: two testers that share the pod name, two trust domains of   *)
(* which the chart expects one, and up to two pods.                          *)
EXTENDS Deploy

CONSTANTS chart, other

MCTrustDomains == {chart, other}
MCChartDomain == chart
MCWorld == {"faults", "slow", "shells", "byhand"}
MCQuiet == {}
=============================================================================
