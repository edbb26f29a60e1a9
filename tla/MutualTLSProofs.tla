--------------------------- MODULE MutualTLSProofs ---------------------------
(***************************************************************************)
(* MutualTLS proved for any processes, connections, trust and lifetimes:   *)
(* its invariants, and that it implements AuthenticatedCalls.              *)
(***************************************************************************)
EXTENDS MutualTLS, Sequences, TLAPS

\* An open source belongs to a process that has not ended; one whose watchers
\* run holds an SVID that is valid; only a caller's context ends them early.
SourceInv ==
  \A p \in Procs :
    /\ src[p] = "open" <=> life[p] \in {"building", "up", "draining"}
    /\ src[p] = "none" => life[p] = "new"
    /\ src[p] = "open" /\ p \notin OwnContext => watching[p]
    /\ src[p] = "open" /\ watching[p] => now <= expiry[p]

\* What the two ends of a connection have verified at each stage.
ConnOK(r) ==
  /\ r.st \in {"sent"} \union Authentic => Trusts(r.c, r.s)
  /\ r.st \in Authentic => Trusts(r.s, r.c) /\ (r.pooled \/ r.at <= r.cexp)
  /\ r.st = "serving" => r.peer = r.c
  /\ r.st # "free" => (r.late /\ ~r.pooled =>
       r.st \in {"hello", "answered"} /\ life[r.c] = "shut")

ConnInv == \A k \in Conns : ConnOK(conn[k])

IInv == TypeOK /\ SourceInv /\ ConnInv

\* A connection's record is free or typed, and tells which by its state.
LEMMA ConnTyped ==
  ASSUME TypeOK, NEW k \in Conns
  PROVE  /\ conn[k] = Free \/ conn[k] \in Connection
         /\ conn[k].st # "free" => conn[k] \in Connection
         /\ conn[k] = Free => conn[k].st = "free"
  BY DEF TypeOK, Free

\* Times stay within their bound.
LEMMA TimeTyped ==
  ASSUME now \in 0..MaxTime PROVE now \in Time /\ now + Life \in Time /\ 0 \in Time
  BY TimeAssumption DEF Time

\* A step that changes one connection only preserves the invariant if its new
\* record is free or typed and in order.
LEMMA SetPreserves ==
  ASSUME IInv, NEW k \in Conns, NEW r, Set(k, r),
         r = Free \/ (r \in Connection /\ ConnOK(r))
  PROVE  IInv'
<1>1. TypeOK'
  BY DEF IInv, Set, TypeOK, procVars
<1>2. SourceInv'
  BY DEF IInv, Set, SourceInv, procVars
<1>3. ConnInv'
  <2>1. ASSUME NEW j \in Conns PROVE ConnOK(conn[j])'
    <3>1. conn'[j] = conn[j] \/ conn'[j] = r
      BY DEF IInv, Set, TypeOK
    <3>2. ConnOK(conn[j]) /\ ConnOK(Free)
      BY DEF IInv, ConnInv, ConnOK, Free, Authentic
    <3>3. life' = life
      BY DEF Set, procVars
    <3> QED
      BY <3>1, <3>2, <3>3 DEF ConnOK
  <2> QED
    BY <2>1 DEF ConnInv
<1> QED
  BY <1>1, <1>2, <1>3 DEF IInv

\* Every step on one connection leaves a free record or one that is in order.
LEMMA ConnSteps ==
  ASSUME IInv, NEW k \in Conns,
         \/ \E c \in Clients, s \in Servers : Dial(k, c, s)
         \/ Reuse(k) \/ Answer(k) \/ Send(k) \/ Accept(k) \/ Refuse(k)
         \/ HandshakeTimeout(k) \/ Handle(k) \/ Respond(k) \/ Drop(k)
  PROVE  IInv'
<1> USE DEF Connection, Handshaking, Authentic
<1>0. /\ conn[k].st # "free" => conn[k] \in Connection
      /\ ConnOK(conn[k])
      /\ now \in Time /\ 0 \in Time /\ now \in Nat
  BY ConnTyped, TimeTyped DEF IInv, ConnInv, TypeOK
<1>1. ASSUME NEW c \in Clients, NEW s \in Servers, Dial(k, c, s) PROVE IInv'
  BY <1>0, <1>1, SetPreserves DEF Dial, ConnOK
<1>2. CASE Reuse(k)
  <2>1. conn[k] \in Connection
    BY <1>0, <1>2 DEF Reuse
  <2> QED
    BY <1>0, <1>2, <2>1, SetPreserves DEF Reuse, ConnOK
<1>3. CASE Answer(k)
  <2>1. conn[k] \in Connection /\ expiry[conn[k].s] \in Time
    BY <1>0, <1>3 DEF Answer, IInv, TypeOK, Procs
  <2> QED
    BY <1>0, <1>3, <2>1, SetPreserves DEF Answer, ConnOK
<1>4. CASE Send(k)
  <2>1. conn[k] \in Connection /\ expiry[conn[k].c] \in Time
    BY <1>0, <1>4 DEF Send, IInv, TypeOK, Procs
  <2>2. life[conn[k].c] # "shut"
    BY <2>1, <1>4 DEF Send, MaySend, IInv, SourceInv, Procs
  <2> QED
    BY <1>0, <1>4, <2>1, <2>2, SetPreserves DEF Send, MaySend, ConnOK
<1>5. CASE Accept(k)
  <2>1. conn[k] \in Connection
    BY <1>0, <1>5 DEF Accept
  <2> QED
    BY <1>0, <1>5, <2>1, SetPreserves DEF Accept, MayAccept, ConnOK
<1>6. CASE Refuse(k) \/ HandshakeTimeout(k) \/ Drop(k)
  BY <1>6, SetPreserves DEF Refuse, HandshakeTimeout, Drop
<1>7. CASE Handle(k)
  <2>1. conn[k] \in Connection
    BY <1>0, <1>7 DEF Handle
  <2> QED
    BY <1>0, <1>7, <2>1, SetPreserves DEF Handle, PeerFromRequest, ConnOK
<1>8. CASE Respond(k)
  <2>1. conn[k] \in Connection
    BY <1>0, <1>8 DEF Respond
  <2>2. CASE life[conn[k].s] = "up"
    BY <1>0, <1>8, <2>1, <2>2, SetPreserves DEF Respond, ConnOK
  <2>3. CASE life[conn[k].s] # "up"
    BY <1>8, <2>3, SetPreserves DEF Respond
  <2> QED
    BY <2>2, <2>3
<1> QED
  BY <1>1, <1>2, <1>3, <1>4, <1>5, <1>6, <1>7, <1>8

\* Types, what a source's state means, and what a connection has been through.
THEOREM InvCorrect == Spec => []IInv
<1>1. Init => IInv
  BY TimeAssumption, TimeTyped
     DEF Init, IInv, TypeOK, SourceInv, ConnInv, ConnOK, Time, Free, Authentic
<1>2. IInv /\ [Next]_vars => IInv'
  <2> SUFFICES ASSUME IInv, [Next]_vars PROVE IInv'
    OBVIOUS
  <2> USE DEF IInv
  <2>0. now \in Time /\ now + Life \in Time /\ now \in Nat /\ Life \in Nat
    BY TimeTyped, TimeAssumption DEF TypeOK
  <2>1. ASSUME NEW p \in Procs, Connect(p) PROVE IInv'
    <3>1. TypeOK'
      BY <2>0, <2>1 DEF Connect, TypeOK
    <3>2. SourceInv'
      BY <2>0, <2>1 DEF Connect, TypeOK, SourceInv
    <3>3. ConnInv'
      BY <2>1, ConnTyped DEF Connect, TypeOK, ConnInv, ConnOK, Connection, Procs
    <3> QED
      BY <3>1, <3>2, <3>3
  <2>2. ASSUME NEW p \in Procs, Build(p) PROVE IInv'
    <3>1. TypeOK'
      BY <2>2 DEF Build, TypeOK
    <3>2. SourceInv'
      BY <2>2 DEF Build, TypeOK, SourceInv
    <3>3. ConnInv'
      BY <2>2, ConnTyped DEF Build, TypeOK, ConnInv, ConnOK, Connection, Procs
    <3> QED
      BY <3>1, <3>2, <3>3
  <2>3. ASSUME NEW p \in Procs, NEW end \in {"failed", "shut"},
               life[p] \in {"building", "up", "draining"}, CloseSource(p, end),
               UNCHANGED conn
        PROVE  IInv'
    <3>1. TypeOK'
      BY <2>3 DEF CloseSource, TypeOK
    <3>2. SourceInv'
      BY <2>3 DEF CloseSource, TypeOK, SourceInv
    <3>3. ConnInv'
      BY <2>3, ConnTyped DEF CloseSource, TypeOK, ConnInv, ConnOK, Connection, Procs
    <3> QED
      BY <3>1, <3>2, <3>3
  <2>4. ASSUME NEW s \in Servers, Drain(s) PROVE IInv'
    <3>1. TypeOK'
      BY <2>4 DEF Drain, TypeOK, Procs
    <3>2. SourceInv'
      BY <2>4 DEF Drain, TypeOK, SourceInv, Procs
    <3>3. ConnInv'
      BY <2>4, ConnTyped, ProcsAssumption
         DEF Drain, TypeOK, ConnInv, ConnOK, Connection, Procs, Free, Authentic
    <3> QED
      BY <3>1, <3>2, <3>3
  <2>5. ASSUME NEW p \in Procs, CancelContext(p) PROVE IInv'
    <3>1. TypeOK'
      BY <2>5 DEF CancelContext, TypeOK
    <3>2. SourceInv'
      BY <2>5 DEF CancelContext, TypeOK, SourceInv
    <3>3. ConnInv'
      BY <2>5 DEF CancelContext, ConnInv, ConnOK
    <3> QED
      BY <3>1, <3>2, <3>3
  <2>6. ASSUME NEW p \in Procs, Rotate(p) PROVE IInv'
    <3>1. TypeOK'
      BY <2>0, <2>6 DEF Rotate, TypeOK
    <3>2. SourceInv'
      BY <2>0, <2>6 DEF Rotate, TypeOK, SourceInv
    <3>3. ConnInv'
      BY <2>6 DEF Rotate, ConnInv, ConnOK
    <3> QED
      BY <3>1, <3>2, <3>3
  <2>7. ASSUME Tick PROVE IInv'
    <3>1. TypeOK'
      BY <2>0, <2>7, TimeAssumption DEF Tick, TypeOK, procVars
    <3>2. SourceInv'
      BY <2>0, <2>7, TimeAssumption DEF Tick, TypeOK, SourceInv, procVars, Time
    <3>3. ConnInv'
      BY <2>7 DEF Tick, ConnInv, ConnOK, procVars
    <3> QED
      BY <3>1, <3>2, <3>3
  <2>8. CASE UNCHANGED vars
    BY <2>8 DEF vars, TypeOK, SourceInv, ConnInv, ConnOK
  <2> QED
    BY <2>1, <2>2, <2>3, <2>4, <2>5, <2>6, <2>7, <2>8, ConnSteps
       DEF Next, BuildFails, ShutdownClient, ShutdownServer, Procs
<1> QED
  BY <1>1, <1>2, PTL DEF Spec

\* Every variable keeps its type.
THEOREM TypeCorrect == Spec => []TypeOK
<1>1. IInv => TypeOK
  BY DEF IInv
<1> QED
  BY <1>1, InvCorrect, PTL

\* A handler is told the client whose certificate was verified, and both ends
\* trust each other.
THEOREM PeerVerified == Spec => []HandlerKnowsPeer
<1>1. IInv => HandlerKnowsPeer
  BY DEF IInv, ConnInv, ConnOK, HandlerKnowsPeer, Authentic
<1> QED
  BY <1>1, InvCorrect, PTL

\* A client that was shut down authenticates no new connection.
THEOREM ShutMeansShut == Spec => []LateRequestsArePooled
<1>1. IInv => LateRequestsArePooled
  BY DEF IInv, ConnInv, ConnOK, LateRequestsArePooled, Authentic
<1> QED
  BY <1>1, InvCorrect, PTL

\* No error return and no shutdown leaves a source open.
THEOREM NothingLeaks == Spec => []EndedIsClosed
<1>1. IInv => EndedIsClosed
  BY DEF IInv, SourceInv, EndedIsClosed, TypeOK
<1> QED
  BY <1>1, InvCorrect, PTL

\* A source without a caller's context never holds an expired SVID.
THEOREM StaysFresh == Spec => []BackgroundStaysFresh
<1>1. IInv => BackgroundStaysFresh
  BY DEF IInv, SourceInv, BackgroundStaysFresh
<1> QED
  BY <1>1, InvCorrect, PTL

-----------------------------------------------------------------------------
(* Refinement *)

\* A step that changes one connection, seen from above.
LEMMA SetAbove ==
  ASSUME IInv, NEW k \in Conns, NEW r, Set(k, r)
  PROVE  /\ {s \in Servers : src[s] = "open"}' = {s \in Servers : src[s] = "open"}
         /\ [j \in Conns |-> ChannelOf(conn[j])]'
              = [[j \in Conns |-> ChannelOf(conn[j])] EXCEPT ![k] = ChannelOf(r)]
         /\ [j \in Conns |-> CallerOf(conn[j])]'
              = [[j \in Conns |-> CallerOf(conn[j])] EXCEPT ![k] = CallerOf(r)]
  BY DEF IInv, TypeOK, Set, procVars, ChannelOf, CallerOf

\* A handler's peer is a client, never "none".
LEMMA Ends ==
  ASSUME IInv, NEW k \in Conns, conn[k].st \in Authentic
  PROVE  /\ conn[k] \in Connection
         /\ ChannelOf(conn[k]) = <<conn[k].c, conn[k].s>>
         /\ conn[k].c \in Clients /\ conn[k].s \in Servers /\ conn[k].c # "none"
         /\ conn[k].st = "serving" => CallerOf(conn[k]) = conn[k].c
         /\ conn[k].st # "serving" => CallerOf(conn[k]) = "none"
<1>1. conn[k] \in Connection
  BY ConnTyped DEF IInv, Authentic
<1>2. conn[k].st = "serving" => conn[k].peer = conn[k].c
  BY DEF IInv, ConnInv, ConnOK
<1> QED
  BY <1>1, <1>2, ProcsAssumption DEF Connection, ChannelOf, CallerOf, Procs

\* A channel on which no handler runs is lost.
LEMMA LoseAbove ==
  ASSUME IInv, NEW K \in SUBSET Conns, UNCHANGED src,
         conn' = [k \in Conns |-> IF k \in K THEN Free ELSE conn[k]],
         \A k \in K : conn[k].st # "serving"
  PROVE  Calls!Lose
<1> DEFINE channel == [k \in Conns |-> ChannelOf(conn[k])]
           caller  == [k \in Conns |-> CallerOf(conn[k])]
<1>1. \A k \in Conns : channel'[k] = IF k \in K THEN <<>> ELSE channel[k]
  BY DEF ChannelOf, Free, Authentic
<1>2. caller' = caller
  <2>1. \A k \in Conns : CallerOf(conn'[k]) = CallerOf(conn[k])
    BY DEF CallerOf, Free
  <2> QED
    BY <2>1
<1>3. \A k \in K : caller[k] = "none"
  BY DEF CallerOf
<1>4. \A k \in Conns : channel[k] \in {<<>>} \union (Clients \X Servers)
  BY Ends DEF ChannelOf
<1>5. channel' \in [Conns -> {<<>>} \union (Clients \X Servers)]
  BY <1>1, <1>4
<1> QED
  BY <1>1, <1>2, <1>3, <1>5 DEF Calls!Lose, Calls!NoChannel, Calls!NoOne

\* A channel is not the absence of one.
LEMMA PairNotEmpty == ASSUME NEW a, NEW b PROVE <<a, b>> # <<>>
  BY Len(<<a, b>>) = 2, Len(<<>>) = 0

\* Steps on one connection, seen from above.
LEMMA ConnStepsAbove ==
  ASSUME IInv, NEW k \in Conns,
         \/ \E c \in Clients, s \in Servers : Dial(k, c, s)
         \/ Reuse(k) \/ Answer(k) \/ Send(k) \/ Accept(k) \/ Refuse(k)
         \/ HandshakeTimeout(k) \/ Handle(k) \/ Respond(k) \/ Drop(k)
  PROVE  [Calls!Next]_(Calls!vars)
<1> DEFINE channel == [j \in Conns |-> ChannelOf(conn[j])]
           caller  == [j \in Conns |-> CallerOf(conn[j])]
<1>1. ASSUME NEW r, Set(k, r),
             ChannelOf(r) = ChannelOf(conn[k]), CallerOf(r) = CallerOf(conn[k])
      PROVE  UNCHANGED Calls!vars
  <2>1. channel' = channel /\ caller' = caller
    BY <1>1, SetAbove, ZenonT(30)
  <2> QED
    BY <1>1, <2>1, SetAbove DEF Calls!vars
<1>2. CASE \E c \in Clients, s \in Servers : Dial(k, c, s)
  <2>1. PICK c \in Clients, s \in Servers : Dial(k, c, s)
    BY <1>2
  <2> QED
    BY <1>1, <2>1 DEF Dial, ChannelOf, CallerOf, Free, Authentic
<1>3. CASE Reuse(k)
  <2>1. conn[k] \in Connection /\ conn[k].st = "idle"
    BY <1>3, Ends DEF Reuse, Authentic
  <2> QED
    BY <1>1, <1>3, <2>1 DEF Reuse, ChannelOf, CallerOf, Connection, Authentic
<1>4. CASE Answer(k)
  <2>1. conn[k] \in Connection /\ conn[k].st = "hello"
    BY <1>4, ConnTyped DEF Answer, IInv
  <2> QED
    BY <1>1, <1>4, <2>1 DEF Answer, ChannelOf, CallerOf, Connection, Authentic
<1>5. CASE Send(k)
  <2>1. conn[k] \in Connection /\ conn[k].st = "answered"
    BY <1>5, ConnTyped DEF Send, IInv
  <2> QED
    BY <1>1, <1>5, <2>1 DEF Send, ChannelOf, CallerOf, Connection, Authentic
<1>6. CASE Accept(k)
  <2>1. /\ conn[k] \in Connection /\ conn[k].st = "sent"
        /\ Trusts(conn[k].c, conn[k].s) /\ Trusts(conn[k].s, conn[k].c)
        /\ src[conn[k].s] = "open"
    BY <1>6, ConnTyped DEF Accept, MayAccept, IInv, ConnInv, ConnOK
  <2> DEFINE r == [conn[k] EXCEPT !.st = "pending", !.at = now]
  <2>2. Set(k, r) /\ ChannelOf(r) = <<conn[k].c, conn[k].s>>
        /\ CallerOf(r) = "none" /\ CallerOf(conn[k]) = "none" /\ ChannelOf(conn[k]) = <<>>
    BY <1>6, <2>1 DEF Accept, ChannelOf, CallerOf, Connection, Authentic
  <2> HIDE DEF r
  <2>3. channel' = [channel EXCEPT ![k] = <<conn[k].c, conn[k].s>>] /\ caller' = caller
    <3>1. /\ channel' = [channel EXCEPT ![k] = ChannelOf(r)]
          /\ caller' = [caller EXCEPT ![k] = CallerOf(r)]
      BY <2>2, SetAbove
    <3> QED
      BY <2>2, <3>1
  <2>4. conn[k].c \in Clients /\ conn[k].s \in Servers
    BY <2>1 DEF Connection
  <2>5. Calls!Authenticate(k, conn[k].c, conn[k].s)
    BY <2>1, <2>2, <2>3, <2>4, SetAbove DEF Calls!Authenticate, Calls!NoChannel
  <2> QED
    BY <2>4, <2>5 DEF Calls!Next
<1>7. CASE Refuse(k) \/ HandshakeTimeout(k)
  <2>1. conn[k].st \in Handshaking
    BY <1>7 DEF Refuse, HandshakeTimeout, Handshaking
  <2> QED
    BY <1>1, <1>7, <2>1
       DEF Refuse, HandshakeTimeout, ChannelOf, CallerOf, Free, Authentic, Handshaking
<1>8. CASE Handle(k)
  <2>1. /\ conn[k] \in Connection /\ conn[k].st = "pending" /\ conn[k].c # "none"
        /\ ChannelOf(conn[k]) = <<conn[k].c, conn[k].s>> /\ CallerOf(conn[k]) = "none"
    BY <1>8, Ends DEF Handle, Authentic
  <2> DEFINE r == [conn[k] EXCEPT !.st = "serving", !.peer = conn[k].c]
  <2>2. Set(k, r) /\ ChannelOf(r) = ChannelOf(conn[k]) /\ CallerOf(r) = conn[k].c
    BY <1>8, <2>1 DEF Handle, PeerFromRequest, ChannelOf, CallerOf, Connection, Authentic
  <2> HIDE DEF r
  <2>3. channel' = channel /\ caller' = [caller EXCEPT ![k] = conn[k].c]
    <3>1. /\ channel' = [channel EXCEPT ![k] = ChannelOf(r)]
          /\ caller' = [caller EXCEPT ![k] = CallerOf(r)]
      BY <2>2, SetAbove
    <3> QED
      BY <2>2, <3>1
  <2>4. Calls!Begin(k)
    <3>1. channel[k] = <<conn[k].c, conn[k].s>> /\ channel[k][1] = conn[k].c
      BY <2>1
    <3>2. channel[k] # <<>> /\ caller[k] = "none"
      BY <2>1, <3>1, PairNotEmpty
    <3>3. {s \in Servers : src'[s] = "open"} = {s \in Servers : src[s] = "open"}
      BY <2>2, SetAbove
    <3>4. caller' = [caller EXCEPT ![k] = channel[k][1]]
      BY <2>3, <3>1
    <3> HIDE DEF channel, caller
    <3> QED
      BY <2>3, <3>2, <3>3, <3>4 DEF Calls!Begin, Calls!NoChannel, Calls!NoOne, channel, caller
  <2> QED
    BY <2>4 DEF Calls!Next
<1>9. CASE Respond(k)
  <2>1. /\ conn[k] \in Connection /\ conn[k].st = "serving" /\ conn[k].c # "none"
        /\ CallerOf(conn[k]) = conn[k].c
    BY <1>9, Ends DEF Respond, Authentic
  <2> DEFINE r == IF life[conn[k].s] = "up"
                  THEN [conn[k] EXCEPT !.st = "idle", !.peer = "none"] ELSE Free
  <2>2. Set(k, r) /\ CallerOf(r) = "none"
        /\ ChannelOf(r) \in {ChannelOf(conn[k]), <<>>}
    BY <1>9, <2>1 DEF Respond, ChannelOf, CallerOf, Connection, Authentic, Free
  <2> HIDE DEF r
  <2>3. channel' \in {channel, [channel EXCEPT ![k] = <<>>]}
        /\ caller' = [caller EXCEPT ![k] = "none"]
    <3>1. /\ channel' = [channel EXCEPT ![k] = ChannelOf(r)]
          /\ caller' = [caller EXCEPT ![k] = CallerOf(r)]
      BY <2>2, SetAbove
    <3> QED
      BY <2>2, <3>1
  <2>4. Calls!End(k)
    BY <2>1, <2>2, <2>3, SetAbove DEF Calls!End, Calls!NoChannel, Calls!NoOne
  <2> QED
    BY <2>4 DEF Calls!Next
<1>10. CASE Drop(k)
  <2>1. conn' = [j \in Conns |-> IF j \in {k} THEN Free ELSE conn[j]]
    BY <1>10 DEF Drop, Set, IInv, TypeOK
  <2>2. Calls!Lose
    BY <1>10, <2>1, LoseAbove DEF Drop, Set, procVars
  <2> QED
    BY <2>2 DEF Calls!Next
<1> QED
  BY <1>2, <1>3, <1>4, <1>5, <1>6, <1>7, <1>8, <1>9, <1>10

\* MutualTLS implements AuthenticatedCalls.
THEOREM Refinement == Spec => ImplementsCalls
<1>1. Init => Calls!Init
  BY DEF Init, Calls!Init, Calls!NoChannel, Calls!NoOne, ChannelOf, CallerOf, Free,
         Authentic, Procs
<1>2. IInv /\ [Next]_vars => [Calls!Next]_(Calls!vars)
  <2> SUFFICES ASSUME IInv, [Next]_vars PROVE [Calls!Next]_(Calls!vars)
    OBVIOUS
  <2>1. ASSUME UNCHANGED <<src, conn>> PROVE UNCHANGED Calls!vars
    BY <2>1 DEF Calls!vars, ChannelOf, CallerOf
  <2>2. ASSUME NEW p \in Procs, NEW to \in {"open", "closed"},
               src' = [src EXCEPT ![p] = to], UNCHANGED conn
        PROVE  [Calls!Next]_(Calls!vars)
    <3>1. CASE p \in Clients
      <4>1. {s \in Servers : src'[s] = "open"} = {s \in Servers : src[s] = "open"}
        BY <2>2, <3>1, ProcsAssumption DEF IInv, TypeOK, Procs
      <4> QED
        BY <2>2, <4>1 DEF Calls!vars, ChannelOf, CallerOf
    <3>2. CASE p \in Servers /\ to = "open"
      <4>1. {s \in Servers : src'[s] = "open"} = {s \in Servers : src[s] = "open"} \union {p}
        BY <2>2, <3>2 DEF IInv, TypeOK, Procs
      <4>2. Calls!Obtain(p)
        BY <2>2, <4>1 DEF Calls!Obtain, ChannelOf, CallerOf
      <4> QED
        BY <3>2, <4>2 DEF Calls!Next
    <3>3. CASE p \in Servers /\ to = "closed"
      <4>1. {s \in Servers : src'[s] = "open"} = {s \in Servers : src[s] = "open"} \ {p}
        BY <2>2, <3>3 DEF IInv, TypeOK, Procs
      <4>2. Calls!Release(p)
        BY <2>2, <4>1 DEF Calls!Release, ChannelOf, CallerOf
      <4> QED
        BY <3>3, <4>2 DEF Calls!Next
    <3> QED
      BY <2>2, <3>1, <3>2, <3>3 DEF Procs
  <2>3. ASSUME NEW p \in Procs,
               Connect(p) \/ Build(p) \/ BuildFails(p) \/ CancelContext(p) \/ Rotate(p)
        PROVE  [Calls!Next]_(Calls!vars)
    BY <2>1, <2>2, <2>3
       DEF Connect, Build, BuildFails, CloseSource, CancelContext, Rotate
  <2>4. ASSUME NEW c \in Clients, ShutdownClient(c) PROVE [Calls!Next]_(Calls!vars)
    BY <2>2, <2>4 DEF ShutdownClient, CloseSource, Procs
  <2>5. ASSUME NEW s \in Servers, ShutdownServer(s) PROVE [Calls!Next]_(Calls!vars)
    BY <2>2, <2>5 DEF ShutdownServer, CloseSource, Procs
  <2>6. ASSUME NEW s \in Servers, Drain(s) PROVE [Calls!Next]_(Calls!vars)
    <3> DEFINE K == {k \in Conns : conn[k].st = "idle" /\ conn[k].s = s}
    <3>1. /\ conn' = [k \in Conns |-> IF k \in K THEN Free ELSE conn[k]]
          /\ \A k \in K : conn[k].st # "serving"
          /\ UNCHANGED src
      BY <2>6 DEF Drain
    <3>2. Calls!Lose
      BY <3>1, LoseAbove
    <3> QED
      BY <3>2 DEF Calls!Next
  <2>7. CASE Tick \/ UNCHANGED vars
    BY <2>1, <2>7 DEF Tick, procVars, vars
  <2> QED
    BY <2>3, <2>4, <2>5, <2>6, <2>7, ConnStepsAbove DEF Next
<1> QED
  BY <1>1, <1>2, InvCorrect, PTL DEF Spec, ImplementsCalls, Calls!Spec

-----------------------------------------------------------------------------
(***************************************************************************)
(* Progress. WF_vars(A) obliges A when ENABLED <<A>>_vars holds, which the *)
(* provers do not compute. GuardsEnable states it for each fair action: an *)
(* action whose guard holds can be taken. TLC checks GuardsEnable as an    *)
(* invariant of this module with the constants of any cfg.                 *)
(***************************************************************************)

ServerEnabled(k) ==
  /\ conn[k].st \in Handshaking => ENABLED <<HandshakeTimeout(k)>>_vars
  /\ conn[k].st = "pending" => ENABLED <<Handle(k)>>_vars
  /\ conn[k].st = "serving" => ENABLED <<Respond(k)>>_vars

GuardsEnable == \A k \in Conns : ServerEnabled(k)

\* Which steps move a connection, and where it can go.
LEMMA Moves ==
  ASSUME IInv, [Next]_vars, NEW k \in Conns
  PROVE  /\ conn[k].st \in Handshaking => conn'[k].st \in Handshaking \union {"pending", "free"}
         /\ conn[k].st = "pending" => conn'[k].st \in {"pending", "serving", "free"}
         /\ conn[k].st = "serving" => conn'[k].st \in {"serving", "idle", "free"}
<1>1. conn \in [Conns -> {Free} \union Connection] /\ Free.st = "free"
  BY DEF IInv, TypeOK, Free
<1>2. ASSUME NEW p \in Procs, Connect(p) \/ Build(p) \/ BuildFails(p) \/ CancelContext(p) \/ Rotate(p)
      PROVE  conn' = conn
  BY <1>2 DEF Connect, Build, BuildFails, CancelContext, Rotate
<1>3. ASSUME NEW p \in Procs, ShutdownClient(p) \/ ShutdownServer(p) PROVE conn' = conn
  BY <1>3 DEF ShutdownClient, ShutdownServer
<1>4. ASSUME NEW s \in Servers, Drain(s)
      PROVE  conn'[k] = conn[k] \/ (conn[k].st = "idle" /\ conn'[k] = Free)
  BY <1>4 DEF Drain
<1>5. ASSUME NEW j \in Conns, j # k,
             \/ \E c \in Clients, s \in Servers : Dial(j, c, s)
             \/ Reuse(j) \/ Answer(j) \/ Send(j) \/ Accept(j) \/ Refuse(j)
             \/ HandshakeTimeout(j) \/ Handle(j) \/ Respond(j) \/ Drop(j)
      PROVE  conn'[k] = conn[k]
  BY <1>1, <1>5 DEF Dial, Reuse, Answer, Send, Accept, Refuse, HandshakeTimeout, Handle, Respond,
     Drop, Set
<1>6. ASSUME \E c \in Clients, s \in Servers : Dial(k, c, s)
      PROVE  conn[k].st = "free"
  BY <1>1, <1>6 DEF Dial
<1>7. ASSUME Reuse(k) PROVE conn[k].st = "idle"
  BY <1>7 DEF Reuse
<1>8. ASSUME Answer(k) PROVE conn[k].st = "hello" /\ conn'[k].st = "answered"
  BY <1>1, <1>8, ConnTyped DEF Answer, Set, IInv, Connection
<1>9. ASSUME Send(k) PROVE conn[k].st = "answered" /\ conn'[k].st = "sent"
  BY <1>1, <1>9, ConnTyped DEF Send, Set, IInv, Connection
<1>10. ASSUME Accept(k) PROVE conn[k].st = "sent" /\ conn'[k].st = "pending"
  BY <1>1, <1>10, ConnTyped DEF Accept, Set, IInv, Connection
<1>11. ASSUME Handle(k) PROVE conn[k].st = "pending" /\ conn'[k].st = "serving"
  BY <1>1, <1>11, ConnTyped DEF Handle, Set, IInv, Connection
<1>12. ASSUME Respond(k) PROVE conn[k].st = "serving" /\ conn'[k].st \in {"idle", "free"}
  BY <1>1, <1>12, ConnTyped DEF Respond, Set, IInv, Connection
<1>13. ASSUME Refuse(k) \/ HandshakeTimeout(k)
       PROVE  conn[k].st \in Handshaking /\ conn'[k].st = "free"
  BY <1>1, <1>13 DEF Refuse, HandshakeTimeout, Set, Handshaking
<1>14. ASSUME Drop(k) PROVE conn[k].st # "serving" /\ conn'[k].st = "free"
  BY <1>1, <1>14 DEF Drop, Set
<1>15. ASSUME Tick \/ UNCHANGED vars PROVE conn' = conn
  BY <1>15 DEF Tick, vars
<1> QED
  BY <1>1, <1>2, <1>3, <1>4, <1>5, <1>6, <1>7, <1>8, <1>9, <1>10, <1>11, <1>12, <1>13, <1>14, <1>15
     DEF Next, Procs, Handshaking

\* What the server owes each connection, out of the conjunction.
LEMMA Owed == FairSpec => \A k \in Conns : ServerRuns(k)
  BY PTL DEF FairSpec

\* No connection stays in a handshake or a request for ever, whatever clients do:
\* the read header timeout ends the one, the handler's return the other.
THEOREM ConnectionSettled == FairSpec /\ []GuardsEnable => ConnectionsSettle
<1> SUFFICES ASSUME NEW k \in Conns
             PROVE  FairSpec /\ []GuardsEnable =>
                      (conn[k].st \notin {"free", "idle"} ~> conn[k].st \in {"free", "idle"})
  BY DEF ConnectionsSettle
<1> DEFINE Shaking  == conn[k].st \in Handshaking
           Pending  == conn[k].st = "pending"
           Serving  == conn[k].st = "serving"
           Settled  == conn[k].st \in {"free", "idle"}
<1> USE DEF Handshaking
<1>1. IInv => Shaking \/ Pending \/ Serving \/ Settled
  BY ConnTyped DEF IInv, Connection, Authentic
<1>2. IInv /\ Shaking /\ [Next]_vars => Shaking' \/ Pending' \/ Settled'
  BY Moves
<1>3. IInv /\ <<HandshakeTimeout(k)>>_vars => Settled'
  BY DEF IInv, TypeOK, HandshakeTimeout, Set, Free
<1>4. IInv /\ Pending /\ [Next]_vars => Pending' \/ Serving' \/ Settled'
  BY Moves
<1>5. IInv /\ Pending /\ <<Handle(k)>>_vars => Serving'
  BY ConnTyped DEF IInv, TypeOK, Handle, Set, Connection
<1>6. IInv /\ Serving /\ [Next]_vars => Serving' \/ Settled'
  BY Moves
<1>7. IInv /\ Serving /\ <<Respond(k)>>_vars => Settled'
  BY ConnTyped DEF IInv, TypeOK, Respond, Set, Connection, Free
<1>8. FairSpec => ServerRuns(k)
  BY Owed
<1>9. GuardsEnable => ServerEnabled(k)
  BY DEF GuardsEnable
<1>10. (conn[k].st \in Handshaking <=> Shaking) /\ (conn[k].st = "pending" <=> Pending)
       /\ (conn[k].st = "serving" <=> Serving)
  OBVIOUS
<1>11. conn[k].st \notin {"free", "idle"} <=> ~Settled
  OBVIOUS
<1> HIDE DEF Shaking, Pending, Serving, Settled, Handshaking
<1>12. FairSpec /\ []GuardsEnable => (~Settled ~> Settled)
  BY <1>1, <1>2, <1>3, <1>4, <1>5, <1>6, <1>7, <1>8, <1>9, <1>10, InvCorrect, PTL
     DEF FairSpec, Spec, ServerRuns, ServerEnabled
<1> QED
  BY <1>11, <1>12, PTL DEF Settled
=============================================================================
