------------------------- MODULE AuthenticatedCalls -------------------------
(***************************************************************************)
(* What mutual TLS between e5s clients and servers promises: a channel is  *)
(* made only between two workloads that trust each other and only while    *)
(* the server holds its identity; a call runs on a channel only, and its   *)
(* handler is told the identity of the client at the other end.            *)
(*                                                                         *)
(* MutualTLS implements this with identity sources that rotate, expire and *)
(* close, handshakes in steps, and connections kept for later requests.    *)
(***************************************************************************)

CONSTANTS Clients, Servers, Conns,
          Trusts(_, _)    \* Trusts(p, q): p accepts q as its peer

NoChannel == <<>>
NoOne == "none"

VARIABLES holds,     \* the servers that hold an identity
          channel,   \* the two ends of each authenticated connection
          caller     \* whom the handler on a connection takes its peer to be

vars == <<holds, channel, caller>>

Init == /\ holds = {}
        /\ channel = [k \in Conns |-> NoChannel]
        /\ caller = [k \in Conns |-> NoOne]

\* A server obtains or releases its identity.
Obtain(s) == /\ holds' = holds \union {s}
             /\ UNCHANGED <<channel, caller>>

Release(s) == /\ holds' = holds \ {s}
              /\ UNCHANGED <<channel, caller>>

\* A client and a server that trust each other make a channel.
Authenticate(k, c, s) ==
  /\ channel[k] = NoChannel
  /\ s \in holds /\ Trusts(c, s) /\ Trusts(s, c)
  /\ channel' = [channel EXCEPT ![k] = <<c, s>>]
  /\ UNCHANGED <<holds, caller>>

\* A handler starts and ends.
Begin(k) == /\ channel[k] # NoChannel /\ caller[k] = NoOne
            /\ caller' = [caller EXCEPT ![k] = channel[k][1]]
            /\ UNCHANGED <<holds, channel>>

\* The channel may end with the call.
End(k) == /\ caller[k] # NoOne
          /\ caller' = [caller EXCEPT ![k] = NoOne]
          /\ channel' \in {channel, [channel EXCEPT ![k] = NoChannel]}
          /\ UNCHANGED holds

\* Channels on which no handler runs may be lost at any time.
Lose == /\ channel' \in [Conns -> {NoChannel} \union (Clients \X Servers)]
        /\ \A k \in Conns : channel'[k] \in {channel[k], NoChannel}
        /\ \A k \in Conns : caller[k] # NoOne => channel'[k] = channel[k]
        /\ UNCHANGED <<holds, caller>>

Next == \/ \E s \in Servers : Obtain(s) \/ Release(s)
        \/ \E k \in Conns, c \in Clients, s \in Servers : Authenticate(k, c, s)
        \/ \E k \in Conns : Begin(k) \/ End(k)
        \/ Lose

Spec == Init /\ [][Next]_vars
=============================================================================
