---------------------------- MODULE MCSpireTestEnv ----------------------------
(* SpireTestEnv for TLC: two tests that run processes and may be given the     *)
(* same port, or one that runs processes next to one that runs containers.     *)
EXTENDS SpireTestEnv

CONSTANTS a, b

MCKinds == {[t \in Tests |-> "processes"],
            [t \in Tests |-> IF t = a THEN "containers" ELSE "processes"]}
=============================================================================
