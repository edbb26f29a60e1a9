------------------------- MODULE MCServerLifecycle -------------------------
(***************************************************************************)
(* ServerLifecycle for TLC: two connections and two users of the shutdown  *)
(* function, so that one waits for the other and one connection drains     *)
(* while the other does not.                                               *)
(***************************************************************************)
EXTENDS ServerLifecycle
=============================================================================
