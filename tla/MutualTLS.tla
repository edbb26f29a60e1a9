------------------------------ MODULE MutualTLS ------------------------------
(***************************************************************************)
(* Clients and servers of e5s talking over mutual TLS (e5s.go, spiffehttp, *)
(* spire/source.go): each has an identity source that rotates while its    *)
(* context lives and that its shutdown closes; a handshake reads the two   *)
(* sources in steps; a client's transport keeps connections for later      *)
(* requests; the server's wrapper puts the peer into each request's        *)
(* context. A process is named by its SPIFFE ID. What one source or one    *)
(* server does in detail is in IdentitySource and ServerLifecycle.         *)
(***************************************************************************)
EXTENDS Naturals

CONSTANTS Clients, Servers,  \* processes
          Conns,             \* connections open at a time
          TdOf,              \* the trust domain of each process
          Bundles,           \* the trust domains whose bundle a process holds
          Allows,            \* the peers that the authorizer of a process admits
          OwnContext,        \* processes started with a context of the caller's
          Life,              \* lifetime of an SVID, in ticks
          MaxTime            \* bound on the clock

Procs == Clients \union Servers

ASSUME ProcsAssumption == /\ Clients \intersect Servers = {}
                          /\ "none" \notin Procs
                          /\ OwnContext \subseteq Procs
ASSUME TimeAssumption == Life \in Nat /\ MaxTime \in Nat

VARIABLES now,       \* the clock
          life,      \* "new", "building", "up", "draining", "shut" or "failed"
          src,       \* the identity source: "none", "open" or "closed"
          watching,  \* whether the context of the source's watchers lives
          expiry,    \* NotAfter of the SVID that the source holds
          conn       \* the connections

vars == <<now, life, src, watching, expiry, conn>>
procVars == <<life, src, watching, expiry>>

Time == 0 .. (MaxTime + Life)
Free == [st |-> "free"]

Handshaking == {"hello", "answered", "sent"}
Authentic   == {"pending", "serving", "idle"}

Connection == [st : Handshaking \union Authentic,
               c : Clients, s : Servers,
               sexp : Time, cexp : Time,    \* NotAfter of the certificates shown
               peer : Clients \union {"none"},  \* the request's PeerFromContext
               pooled : BOOLEAN,    \* the request came on a kept connection
               late : BOOLEAN,      \* it was made after the client's shutdown
               at : Time]           \* when the server got it

\* The SDK finds the peer's bundle and the authorizer admits the peer.
Trusts(p, q) == TdOf[q] \in Bundles[p] /\ q \in Allows[p]

Init == /\ now = 0
        /\ life = [p \in Procs |-> "new"]
        /\ src = [p \in Procs |-> "none"]
        /\ watching = [p \in Procs |-> FALSE]
        /\ expiry = [p \in Procs |-> 0]
        /\ conn = [k \in Conns |-> Free]

-----------------------------------------------------------------------------
(* A process comes and goes *)

\* newSPIRESource succeeds: the first SVID has arrived.
Connect(p) == /\ life[p] = "new"
              /\ life' = [life EXCEPT ![p] = "building"]
              /\ src' = [src EXCEPT ![p] = "open"]
              /\ watching' = [watching EXCEPT ![p] = TRUE]
              /\ expiry' = [expiry EXCEPT ![p] = now + Life]
              /\ UNCHANGED <<now, conn>>

\* The TLS configuration is built, the server started or the client returned.
Build(p) == /\ life[p] = "building"
            /\ life' = [life EXCEPT ![p] = "up"]
            /\ UNCHANGED <<now, src, watching, expiry, conn>>

\* identityShutdown: Close cancels the context and closes the source.
CloseSource(p, end) == /\ life' = [life EXCEPT ![p] = end]
                       /\ src' = [src EXCEPT ![p] = "closed"]
                       /\ watching' = [watching EXCEPT ![p] = FALSE]
                       /\ UNCHANGED <<now, expiry>>

\* Mutant: the error return forgets the source.
BuildFailsLeaks(p) == /\ life[p] = "building"
                      /\ life' = [life EXCEPT ![p] = "failed"]
                      /\ UNCHANGED <<now, src, watching, expiry, conn>>

\* The TLS configuration is refused, or the server does not start.
BuildFails(p) == /\ life[p] = "building"
                 /\ CloseSource(p, "failed")
                 /\ UNCHANGED conn

\* The client's shutdown function; its transport is not told.
ShutdownClient(c) == /\ life[c] = "up"
                     /\ CloseSource(c, "shut")
                     /\ UNCHANGED conn

\* The server's shutdown: srv.Shutdown ends the accept loop and closes idle
\* connections at once; after 5 s at most the source is closed.
Drain(s) == /\ life[s] = "up"
            /\ life' = [life EXCEPT ![s] = "draining"]
            /\ conn' = [k \in Conns |-> IF conn[k].st = "idle" /\ conn[k].s = s
                                        THEN Free ELSE conn[k]]
            /\ UNCHANGED <<now, src, watching, expiry>>

ShutdownServer(s) == /\ life[s] = "draining"
                     /\ CloseSource(s, "shut")
                     /\ UNCHANGED conn

\* Mutant: the watchers run under a context with the initial fetch timeout.
CancelContextAny(p) == /\ watching[p]
                       /\ watching' = [watching EXCEPT ![p] = FALSE]
                       /\ UNCHANGED <<now, life, src, expiry, conn>>

\* The caller's context ends: buildCtx is derived from it, rotation stops, the
\* source stays open. Client and Start use a background context.
CancelContext(p) == /\ p \in OwnContext /\ watching[p]
                    /\ watching' = [watching EXCEPT ![p] = FALSE]
                    /\ UNCHANGED <<now, life, src, expiry, conn>>

\* The agent replaces the SVID of a watched source (environment) ...
Rotate(p) == /\ watching[p] /\ src[p] = "open"
             /\ expiry' = [expiry EXCEPT ![p] = now + Life]
             /\ UNCHANGED <<now, life, src, watching, conn>>

\* ... before it expires.
Tick == /\ now < MaxTime
        /\ \A p \in Procs : watching[p] /\ src[p] = "open" => now < expiry[p]
        /\ now' = now + 1
        /\ UNCHANGED <<procVars, conn>>

-----------------------------------------------------------------------------
(* Requests and handshakes *)

Set(k, r) == conn' = [conn EXCEPT ![k] = r] /\ UNCHANGED <<now, procVars>>

\* RoundTrip prefers a kept connection to the same server.
Reuse(k) == /\ conn[k].st = "idle"
            /\ Set(k, [conn[k] EXCEPT !.st = "pending", !.pooled = TRUE, !.at = now,
                                      !.late = (life[conn[k].c] = "shut")])

\* ... and otherwise dials; nothing stops a client that was shut down.
Dial(k, c, s) ==
  /\ conn[k] = Free
  /\ life[c] \in {"up", "shut"} /\ life[s] = "up"
  /\ ~\E j \in Conns : conn[j].st = "idle" /\ conn[j].c = c /\ conn[j].s = s
  /\ Set(k, [st |-> "hello", c |-> c, s |-> s, sexp |-> 0, cexp |-> 0,
             peer |-> "none", pooled |-> FALSE, late |-> (life[c] = "shut"),
             at |-> 0])

\* Each step of a handshake happens only if the sources and certificates allow.
MayAnswer(k) == src[conn[k].s] = "open"
MaySend(k)   == /\ src[conn[k].c] = "open"
                /\ now <= conn[k].sexp /\ Trusts(conn[k].c, conn[k].s)
MayAccept(k) == /\ src[conn[k].s] = "open"
                /\ now <= conn[k].cexp /\ Trusts(conn[k].s, conn[k].c)

\* The server shows the SVID it holds now.
Answer(k) == /\ conn[k].st = "hello" /\ MayAnswer(k)
             /\ Set(k, [conn[k] EXCEPT !.st = "answered", !.sexp = expiry[conn[k].s]])

\* Mutant: the client's certificate and roots were captured when it was built.
SendStatic(k) == /\ conn[k].st = "answered"
                 /\ now <= conn[k].sexp /\ Trusts(conn[k].c, conn[k].s)
                 /\ Set(k, [conn[k] EXCEPT !.st = "sent", !.cexp = expiry[conn[k].c]])

\* The client verifies the server, shows its own SVID and sends the request: in
\* TLS 1.3 it does not wait to be accepted.
Send(k) == /\ conn[k].st = "answered" /\ MaySend(k)
           /\ Set(k, [conn[k] EXCEPT !.st = "sent", !.cexp = expiry[conn[k].c]])

\* Mutant: the server asks for no client certificate (TLSServerConfig).
AcceptAnyone(k) == /\ conn[k].st = "sent" /\ src[conn[k].s] = "open"
                   /\ Set(k, [conn[k] EXCEPT !.st = "pending", !.at = now])

\* The server verifies the client.
Accept(k) == /\ conn[k].st = "sent" /\ MayAccept(k)
             /\ Set(k, [conn[k] EXCEPT !.st = "pending", !.at = now])

\* A side that may not go on ends the connection; the request fails.
Refuse(k) == /\ \/ conn[k].st = "hello" /\ ~MayAnswer(k)
                \/ conn[k].st = "answered" /\ ~MaySend(k)
                \/ conn[k].st = "sent" /\ ~MayAccept(k)
             /\ Set(k, Free)

\* Mutant: the server has no ReadHeaderTimeout.
HandshakeTimeoutNever(k) == FALSE /\ Set(k, Free)

\* ReadHeaderTimeout bounds the handshake of a client that has gone silent.
HandshakeTimeout(k) == conn[k].st \in Handshaking /\ Set(k, Free)

\* Mutant: one variable, shared by all requests, holds the peer.
HandleShared(k) ==
  /\ conn[k].st = "pending"
  /\ conn' = [j \in Conns |->
                IF j = k THEN [conn[k] EXCEPT !.st = "serving", !.peer = conn[k].c]
                ELSE IF conn[j].st = "serving" THEN [conn[j] EXCEPT !.peer = conn[k].c]
                ELSE conn[j]]
  /\ UNCHANGED <<now, procVars>>

\* Mutant: the ID of the local certificate.
PeerFromRequestLocal(k) == conn[k].s

\* The ID in the certificate that the other end showed. The false returns (no TLS
\* state, no certificate, no SPIFFE ID) cannot happen behind ListenAndServeTLS and
\* an authorizer that required and parsed the certificate.
PeerFromRequest(k) == conn[k].c

\* The wrapper puts the connection's peer into the context of the request.
Handle(k) == /\ conn[k].st = "pending"
             /\ Set(k, [conn[k] EXCEPT !.st = "serving", !.peer = PeerFromRequest(k)])

\* The handler returns; the connection is kept unless the server is stopping.
Respond(k) == /\ conn[k].st = "serving"
              /\ Set(k, IF life[conn[k].s] = "up"
                        THEN [conn[k] EXCEPT !.st = "idle", !.peer = "none"] ELSE Free)

\* A connection breaks, at either end or between. A handler runs on.
Drop(k) == conn[k].st \notin {"free", "serving"} /\ Set(k, Free)

Next ==
  \/ \E p \in Procs : \/ Connect(p) \/ Build(p) \/ BuildFails(p)
                      \/ CancelContext(p) \/ Rotate(p)
  \/ \E c \in Clients : ShutdownClient(c)
  \/ \E s \in Servers : Drain(s) \/ ShutdownServer(s)
  \/ \E k \in Conns, c \in Clients, s \in Servers : Dial(k, c, s)
  \/ \E k \in Conns : \/ Reuse(k) \/ Answer(k) \/ Send(k) \/ Accept(k) \/ Refuse(k)
                      \/ HandshakeTimeout(k) \/ Handle(k) \/ Respond(k) \/ Drop(k)
  \/ Tick

Spec == Init /\ [][Next]_vars

\* The server's timer and its goroutines run on, and handlers return; nothing
\* is assumed of clients, which may hang at any point.
ServerRuns(k) == /\ WF_vars(HandshakeTimeout(k))
                 /\ WF_vars(Handle(k))
                 /\ WF_vars(Respond(k))

FairSpec == Spec /\ \A k \in Conns : ServerRuns(k)

-----------------------------------------------------------------------------
(* Properties *)

TypeOK == /\ now \in 0..MaxTime
          /\ life \in [Procs -> {"new", "building", "up", "draining", "shut", "failed"}]
          /\ src \in [Procs -> {"none", "open", "closed"}]
          /\ watching \in [Procs -> BOOLEAN]
          /\ expiry \in [Procs -> Time]
          /\ conn \in [Conns -> {Free} \union Connection]

\* PeerInfo in a handler names the client whose certificate the server verified
\* on this very connection (e5s.go:204-210, 533-535), both sides trust each
\* other, and the certificate had not expired when the connection was made.
HandlerKnowsPeer ==
  \A k \in Conns : conn[k].st = "serving" =>
    /\ conn[k].peer = conn[k].c
    /\ Trusts(conn[k].s, conn[k].c) /\ Trusts(conn[k].c, conn[k].s)
    /\ ~conn[k].pooled => conn[k].at <= conn[k].cexp

\* After a client's shutdown only connections made before it still carry
\* requests: every handshake reads the source (e5s.go:643-648).
LateRequestsArePooled ==
  \A k \in Conns : conn[k].st \in Authentic /\ conn[k].late => conn[k].pooled

\* An error return, and a shutdown, leaves no open source (e5s.go:725-730).
EndedIsClosed == \A p \in Procs : life[p] \in {"failed", "shut"} => src[p] = "closed"

\* Without a context of the caller's, an open source never holds an expired SVID
\* as long as the agent rotates it in time: the fetch timeout does not end the
\* watchers (source.go:124-126, 149-151).
BackgroundStaysFresh ==
  \A p \in Procs \ OwnContext : src[p] = "open" => now <= expiry[p]

\* No connection stays in a handshake or a request for ever.
ConnectionsSettle ==
  \A k \in Conns : conn[k].st \notin {"free", "idle"} ~> conn[k].st \in {"free", "idle"}

\* MutualTLS implements what AuthenticatedCalls promises.
ChannelOf(r) == IF r.st \in Authentic THEN <<r.c, r.s>> ELSE <<>>
CallerOf(r)  == IF r.st = "serving" THEN r.peer ELSE "none"

Calls == INSTANCE AuthenticatedCalls WITH
  holds   <- {s \in Servers : src[s] = "open"},
  channel <- [k \in Conns |-> ChannelOf(conn[k])],
  caller  <- [k \in Conns |-> CallerOf(conn[k])]

ImplementsCalls == Calls!Spec

\* "New requests after shutdown will fail with certificate errors" (e5s.go:648)
ShutdownStopsRequests == \A k \in Conns : conn[k].st = "serving" => ~conn[k].late
=============================================================================
