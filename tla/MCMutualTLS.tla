----------------------------- MODULE MCMutualTLS -----------------------------
(***************************************************************************)
(* MutualTLS for TLC: two clients that trust one server. The server admits *)
(* both (who is who?), or c1 only (who gets in?). SVIDs live for one tick, *)
(* so that two ticks take a kept connection past its certificates.         *)
(***************************************************************************)
EXTENDS MutualTLS, TLC

CONSTANTS c1, c2, s1, A

MCTdOf    == [p \in Procs |-> A]
MCBundles == [p \in Procs |-> {A}]
AllowBoth == [p \in Procs |-> IF p \in Clients THEN Servers ELSE {c1, c2}]
AllowOne  == [p \in Procs |-> IF p \in Clients THEN Servers ELSE {c1}]

Symmetry == Permutations(Conns)
=============================================================================
