--------------------------- MODULE SourceContract ---------------------------
(***************************************************************************)
(* What the rest of e5s relies on when it holds a SPIRE identity source:   *)
(* creation answers once, with a live source or with an error; a live      *)
(* source is closed in one indivisible step with one verdict; every caller *)
(* of Close is told that verdict, and only after the source is closed; a   *)
(* reader gets the handle while the source is live and nil afterwards.     *)
(*                                                                         *)
(* IdentitySource implements this contract with a goroutine, a channel, a  *)
(* timer, a sync.Once and a sync.RWMutex.                                  *)
(***************************************************************************)

CONSTANTS Closers,   \* goroutines that call Close
          Readers    \* goroutines that call X509Source

VARIABLES phase,     \* "none" until creation answers
          verdict,   \* the result of the one close, "unset" before it
          told,      \* what each caller of Close was told, "none" before that
          seen       \* what each reader last got, "none" before its first read

vars == <<phase, verdict, told, seen>>

Init == /\ phase = "none"
        /\ verdict = "unset"
        /\ told = [c \in Closers |-> "none"]
        /\ seen = [r \in Readers |-> "none"]

\* Creation answers with a live source, or with an error and no source.
Create == /\ phase = "none"
          /\ phase' \in {"live", "failed"}
          /\ UNCHANGED <<verdict, told, seen>>

\* The source is released and withdrawn from readers; Close may report an error.
Release == /\ phase = "live"
           /\ phase' = "closed"
           /\ verdict' \in {"nil", "err"}
           /\ UNCHANGED <<told, seen>>

\* A caller of Close returns.
Tell(c) == /\ phase = "closed"
           /\ told[c] = "none"
           /\ told' = [told EXCEPT ![c] = verdict]
           /\ UNCHANGED <<phase, verdict, seen>>

\* A call of X509Source takes effect.
See(r) == /\ phase \in {"live", "closed"}
          /\ seen' = [seen EXCEPT ![r] = IF phase = "live" THEN "handle" ELSE "nil"]
          /\ UNCHANGED <<phase, verdict, told>>

Next == \/ Create
        \/ Release
        \/ \E c \in Closers : Tell(c)
        \/ \E r \in Readers : See(r)

Spec == Init /\ [][Next]_vars
=============================================================================
