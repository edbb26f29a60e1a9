-------------------------- MODULE ServerLifecycle --------------------------
(***************************************************************************)
(* e5s.go: an mTLS server from StartWithContext, Serve or                  *)
(* StartSingleThread to its shutdown. The calling goroutine loads the      *)
(* configuration, creates the identity source, builds the TLS              *)
(* configuration, starts the HTTP server and watches it for 100 ms; users  *)
(* of the returned function (Serve itself, after a signal) shut it down.   *)
(*                                                                         *)
(* The source is used through SourceContract. net/http.Server is external: *)
(* its listener, connections and Shutdown are modelled as e5s uses them.   *)
(***************************************************************************)

CONSTANTS Conns,   \* connections that clients may open
          Users    \* goroutines given the shutdown function by Start

\* Serve calls the shutdown function itself.
Callers == Users \union {"serve"}

VARIABLES
  mode,        \* the entry point: "start", "serve" or "single"
  main,        \* where its goroutine is
  phase, verdict, told, seen,   \* the identity source (SourceContract)
  server,      \* ListenAndServeTLS: "off", "listen", "bound", "serving", "report", "ended"
  exit,        \* why it returned: "none", "closed", "bind", "accept"
  inShutdown,  \* srv.Shutdown was called
  errCh,       \* the channel of capacity 1: "empty", "err"
  settled,     \* the 100 ms timer has delivered
  conn,        \* "none", "handshake", "ready", "active", "idle" or "closed"
  signalled,   \* SIGINT or SIGTERM has arrived
  once,        \* shutdownOnce: "new", "running", "done"
  spc,         \* where each caller is in shutdownFunc
  deadline,    \* the 5 s context of the shutdown has expired
  lnErr,       \* the error of closing the listener
  err1,        \* the result of srv.Shutdown
  stopErr,     \* shutdownErr, the cached result
  answer       \* what shutdownFunc returned to each caller

sourceVars == <<phase, verdict, told, seen>>
serverVars == <<server, exit, errCh>>
stopVars   == <<once, spc, lnErr, err1, stopErr, answer>>
timerVars  == <<settled, deadline, signalled>>
vars == <<mode, main, sourceVars, serverVars, inShutdown, conn, stopVars, timerVars>>

\* Its one closer is the shutdown function newSPIRESource returns; its one
\* reader is newSPIRESource, which takes the handle for the TLS configuration.
Source == INSTANCE SourceContract WITH Closers <- {"shutdown"}, Readers <- {"build"}

Init == /\ mode \in {"start", "serve", "single"}
        /\ main = "config"
        /\ Source!Init
        /\ server = "off"
        /\ exit = "none"
        /\ inShutdown = FALSE
        /\ errCh = "empty"
        /\ settled = FALSE
        /\ conn = [k \in Conns |-> "none"]
        /\ signalled = FALSE
        /\ once = "new"
        /\ spc = [s \in Callers |-> "idle"]
        /\ deadline = FALSE
        /\ lnErr = "nil"
        /\ err1 = "nil"
        /\ stopErr = "nil"
        /\ answer = [s \in Callers |-> "none"]

-----------------------------------------------------------------------------
(* buildServerWithContext *)

Goto(from, to) == main = from /\ main' = to

LoadConfig == /\ \E to \in {"connect", "failed"} : Goto("config", to)
              /\ UNCHANGED <<mode, sourceVars, serverVars, inShutdown, conn,
                             stopVars, timerVars>>

Connect == /\ Source!Create
           /\ Goto("connect", IF phase' = "live" THEN "handle" ELSE "failed")
           /\ UNCHANGED <<mode, serverVars, inShutdown, conn, stopVars, timerVars>>

TakeHandle == /\ Source!See("build")
              /\ Goto("handle", "tls")
              /\ UNCHANGED <<mode, serverVars, inShutdown, conn, stopVars, timerVars>>

\* Mutant: the error path forgets identityShutdown().
BuildTLSLeaks == /\ \E to \in {"launch", "failed"} : Goto("tls", to)
                 /\ UNCHANGED <<mode, sourceVars, serverVars, inShutdown, conn,
                                stopVars, timerVars>>

\* NewServerTLSConfig may refuse; then the source is given back first.
BuildTLS == /\ \E to \in {"launch", "undo"} : Goto("tls", to)
            /\ UNCHANGED <<mode, sourceVars, serverVars, inShutdown, conn,
                           stopVars, timerVars>>

\* identityShutdown() on an error path, then the error return.
UndoSource == /\ Source!Release
              /\ Goto("undo", "undone")
              /\ UNCHANGED <<mode, serverVars, inShutdown, conn, stopVars, timerVars>>

FinishUndo == /\ Source!Tell("shutdown")
              /\ Goto("undone", IF exit = "closed" THEN "returned" ELSE "failed")
              /\ UNCHANGED <<mode, serverVars, inShutdown, conn, stopVars, timerVars>>

-----------------------------------------------------------------------------
(* StartWithContext, Serve, StartSingleThread *)

\* StartSingleThread serves in its own goroutine, Start in a new one.
Launch == /\ Goto("launch", IF mode = "single" THEN "inline" ELSE "settle")
          /\ server' = "listen"
          /\ UNCHANGED <<mode, sourceVars, exit, errCh, inShutdown, conn,
                         stopVars, timerVars>>

SettleTimer == /\ main = "settle" /\ ~settled
               /\ settled' = TRUE
               /\ UNCHANGED <<mode, main, sourceVars, serverVars, inShutdown, conn,
                              stopVars, deadline, signalled>>

\* case err := <-errCh
StartupError == /\ errCh = "err"
                /\ errCh' = "empty"
                /\ Goto("settle", "undo")
                /\ UNCHANGED <<mode, sourceVars, server, exit, inShutdown, conn,
                               stopVars, timerVars>>

\* Mutant: Start waits for an error only.
SettleNever == /\ errCh = "err"
               /\ Goto("settle", "up")
               /\ UNCHANGED <<mode, sourceVars, serverVars, inShutdown, conn,
                              stopVars, timerVars>>

\* case <-time.After(100 * time.Millisecond), even when an error is waiting
Settle == /\ settled
          /\ Goto("settle", "up")
          /\ UNCHANGED <<mode, sourceVars, serverVars, inShutdown, conn,
                         stopVars, timerVars>>

Signal == /\ mode = "serve" /\ main = "up" /\ ~signalled
          /\ signalled' = TRUE
          /\ UNCHANGED <<mode, main, sourceVars, serverVars, inShutdown, conn,
                         stopVars, settled, deadline>>

\* Serve returns nil after its deferred shutdown, which prints its error.
ServeReturns == /\ spc["serve"] = "done"
                /\ Goto("up", "returned")
                /\ UNCHANGED <<mode, sourceVars, serverVars, inShutdown, conn,
                               stopVars, timerVars>>

\* ListenAndServeTLS returned to StartSingleThread; its deferred cleanup runs.
InlineReturns == /\ server \in {"report", "ended"}
                 /\ Goto("inline", "undo")
                 /\ UNCHANGED <<mode, sourceVars, serverVars, inShutdown, conn,
                                stopVars, timerVars>>

MainStep == \/ LoadConfig \/ Connect \/ TakeHandle \/ BuildTLS
            \/ UndoSource \/ FinishUndo \/ Launch \/ StartupError \/ Settle
            \/ ServeReturns \/ InlineReturns

-----------------------------------------------------------------------------
(* ListenAndServeTLS and its connections *)

Listen == /\ server = "listen"
          /\ IF inShutdown
             THEN server' = "ended" /\ exit' = "closed"
             ELSE \/ server' = "bound" /\ UNCHANGED exit
                  \/ server' = "report" /\ exit' = "bind"
          /\ UNCHANGED <<mode, main, sourceVars, errCh, inShutdown, conn,
                         stopVars, timerVars>>

\* Serve tracks the listener, unless Shutdown came between.
Track == /\ server = "bound"
         /\ IF inShutdown
            THEN server' = "ended" /\ exit' = "closed"
            ELSE server' = "serving" /\ UNCHANGED exit
         /\ UNCHANGED <<mode, main, sourceVars, errCh, inShutdown, conn,
                        stopVars, timerVars>>

\* A closed listener ends the accept loop.
ServeStops == /\ server = "serving" /\ inShutdown
              /\ server' = "ended"
              /\ exit' = "closed"
              /\ UNCHANGED <<mode, main, sourceVars, errCh, inShutdown, conn,
                             stopVars, timerVars>>

AcceptFails == /\ server = "serving" /\ ~inShutdown
               /\ server' = "report"
               /\ exit' = "accept"
               /\ UNCHANGED <<mode, main, sourceVars, errCh, inShutdown, conn,
                              stopVars, timerVars>>

\* Mutant: an unbuffered errCh, which needs Start in its select.
ReportUnbuffered == /\ server = "report" /\ mode # "single"
                    /\ main = "settle"
                    /\ errCh' = "err"
                    /\ server' = "ended"
                    /\ UNCHANGED <<mode, main, sourceVars, exit, inShutdown, conn,
                                   stopVars, timerVars>>

\* Mutant: the channel carries why the server ended instead of an error.
ReportExit == /\ server = "report" /\ mode # "single"
              /\ errCh = "empty"
              /\ errCh' = exit
              /\ server' = "ended"
              /\ UNCHANGED <<mode, main, sourceVars, exit, inShutdown, conn,
                             stopVars, timerVars>>

\* errCh <- err: room for one, so the goroutine ends even if nobody receives.
Report == /\ server = "report" /\ mode # "single"
          /\ errCh = "empty"
          /\ errCh' = "err"
          /\ server' = "ended"
          /\ UNCHANGED <<mode, main, sourceVars, exit, inShutdown, conn,
                         stopVars, timerVars>>

ServerStep == Listen \/ Track \/ ServeStops \/ Report

ConnStep(k, from, to) ==
  /\ conn[k] \in from
  /\ conn' = [conn EXCEPT ![k] = to]
  /\ UNCHANGED <<mode, main, sourceVars, serverVars, inShutdown, stopVars, timerVars>>

Accept(k) == server = "serving" /\ ~inShutdown /\ ConnStep(k, {"none"}, "handshake")

\* The handshake needs an SVID and bundle of the open source and a peer that
\* the authorizer accepts.
Handshake(k) == phase = "live" /\ ConnStep(k, {"handshake"}, "ready")

Request(k) == ConnStep(k, {"ready", "idle"}, "active")

\* The handler returns; a server that shuts down keeps no connection alive.
Respond(k) == ConnStep(k, {"active"}, IF inShutdown THEN "closed" ELSE "idle")

\* A refused handshake, a client that hangs up, or a broken network.
Drop(k) == ConnStep(k, {"handshake", "ready", "active", "idle"}, "closed")

-----------------------------------------------------------------------------
(* shutdownFunc *)

Move(s, from, to) == spc[s] = from /\ spc' = [spc EXCEPT ![s] = to]

CallShutdown(s) == /\ main = "up"
                   /\ IF s = "serve" THEN mode = "serve" /\ signalled
                                     ELSE mode = "start"
                   /\ Move(s, "idle", "once")
                   /\ UNCHANGED <<mode, main, sourceVars, serverVars, inShutdown, conn,
                                  once, lnErr, err1, stopErr, answer, timerVars>>

RunOnce(s) == /\ once = "new"
              /\ once' = "running"
              /\ Move(s, "once", "shutdown")
              /\ UNCHANGED <<mode, main, sourceVars, serverVars, inShutdown, conn,
                             lnErr, err1, stopErr, answer, timerVars>>

\* Mutant: a flag instead of a sync.Once: later callers do not wait.
SkipFlag(s) == /\ once # "new"
               /\ Move(s, "once", "return")
               /\ UNCHANGED <<mode, main, sourceVars, serverVars, inShutdown, conn,
                              once, lnErr, err1, stopErr, answer, timerVars>>

SkipOnce(s) == /\ once = "done"
               /\ Move(s, "once", "return")
               /\ UNCHANGED <<mode, main, sourceVars, serverVars, inShutdown, conn,
                              once, lnErr, err1, stopErr, answer, timerVars>>

\* Mutant: the source is closed without srv.Shutdown first.
SkipShutdown(s) == /\ Move(s, "shutdown", "release")
                   /\ UNCHANGED <<mode, main, sourceVars, serverVars, inShutdown, conn,
                                  once, lnErr, err1, stopErr, answer, timerVars>>

\* srv.Shutdown closes the tracked listener, which may report an error.
BeginShutdown(s) == /\ inShutdown' = TRUE
                    /\ lnErr' \in IF server = "serving" THEN {"nil", "listener"}
                                                        ELSE {"nil"}
                    /\ Move(s, "shutdown", "drain")
                    /\ UNCHANGED <<mode, main, sourceVars, serverVars, conn,
                                   once, err1, stopErr, answer, timerVars>>

\* Each poll closes idle connections, and new ones that stayed silent for 5 s;
\* Shutdown is done once none is left and the accept loop has ended.
Fresh == {k \in Conns : conn[k] \in {"handshake", "ready"}}
Gone(k) == conn[k] \in {"none", "closed"}

Poll(s) == /\ server # "serving"
           /\ \E silent \in SUBSET Fresh :
                conn' = [k \in Conns |-> IF conn[k] = "idle" \/ k \in silent
                                         THEN "closed" ELSE conn[k]]
           /\ IF \A k \in Conns : Gone(k)'
              THEN Move(s, "drain", "release") /\ err1' = lnErr
              ELSE Move(s, "drain", "wait") /\ UNCHANGED err1
           /\ UNCHANGED <<mode, main, sourceVars, serverVars, inShutdown,
                          once, lnErr, stopErr, answer, timerVars>>

\* Between polls it waits for a tick or for the end of its context.
Tick(s) == /\ Move(s, "wait", "drain")
           /\ UNCHANGED <<mode, main, sourceVars, serverVars, inShutdown, conn,
                          once, lnErr, err1, stopErr, answer, timerVars>>

\* Mutant: a context that is cancelled but has no timeout.
DeadlineNever == /\ FALSE
                 /\ deadline' = TRUE
                 /\ UNCHANGED <<mode, main, sourceVars, serverVars, inShutdown, conn,
                                stopVars, settled, signalled>>

DeadlineTimer == /\ inShutdown /\ ~deadline
                 /\ deadline' = TRUE
                 /\ UNCHANGED <<mode, main, sourceVars, serverVars, inShutdown, conn,
                                stopVars, settled, signalled>>

\* Mutant: Shutdown is given context.Background().
GiveUpNever(s) == /\ FALSE
                  /\ Move(s, "wait", "release")
                  /\ UNCHANGED vars

GiveUp(s) == /\ deadline
             /\ err1' = "deadline"
             /\ Move(s, "wait", "release")
             /\ UNCHANGED <<mode, main, sourceVars, serverVars, inShutdown, conn,
                            once, lnErr, stopErr, answer, timerVars>>

\* identityShutdown()
ReleaseSource(s) == /\ Source!Release
                    /\ Move(s, "release", "tell")
                    /\ UNCHANGED <<mode, main, serverVars, inShutdown, conn,
                                   once, lnErr, err1, stopErr, answer, timerVars>>

\* Mutant: the last error wins, so a nil close hides an expired shutdown.
lastErr(e1, e2) == e2

firstErr(e1, e2) == IF e1 # "nil" THEN e1 ELSE e2

CacheResult(s) == /\ Source!Tell("shutdown")
                  /\ stopErr' = firstErr(err1, verdict)
                  /\ Move(s, "tell", "finish")
                  /\ UNCHANGED <<mode, main, serverVars, inShutdown, conn,
                                 once, lnErr, err1, answer, timerVars>>

FinishOnce(s) == /\ once' = "done"
                 /\ Move(s, "finish", "return")
                 /\ UNCHANGED <<mode, main, sourceVars, serverVars, inShutdown, conn,
                                lnErr, err1, stopErr, answer, timerVars>>

ReturnShutdown(s) == /\ answer' = [answer EXCEPT ![s] = stopErr]
                     /\ Move(s, "return", "done")
                     /\ UNCHANGED <<mode, main, sourceVars, serverVars, inShutdown, conn,
                                    once, lnErr, err1, stopErr, timerVars>>

CallerStep(s) == \/ RunOnce(s) \/ SkipOnce(s) \/ BeginShutdown(s) \/ Poll(s)
                 \/ Tick(s) \/ GiveUp(s) \/ ReleaseSource(s) \/ CacheResult(s)
                 \/ FinishOnce(s) \/ ReturnShutdown(s)

-----------------------------------------------------------------------------

Next == \/ MainStep \/ SettleTimer \/ Signal \/ DeadlineTimer
        \/ ServerStep \/ AcceptFails
        \/ \E k \in Conns : Accept(k) \/ Handshake(k) \/ Request(k) \/ Respond(k) \/ Drop(k)
        \/ \E s \in Callers : CallShutdown(s) \/ CallerStep(s)

\* What a caller of the shutdown function is owed. Select chooses at random among
\* its ready cases, so an expired context is not passed over for ever.
CallerRuns(s) == WF_vars(CallerStep(s)) /\ SF_vars(GiveUp(s))

\* Runnable goroutines run and timers expire. Clients, handlers, signals, users
\* and accept errors owe nothing; NewIdentitySource returns (CreationReturns).
Fairness == /\ WF_vars(MainStep)
            /\ WF_vars(SettleTimer)
            /\ WF_vars(DeadlineTimer)
            /\ WF_vars(ServerStep)
            /\ WF_vars(CallShutdown("serve"))
            /\ \A s \in Callers : CallerRuns(s)

Spec     == Init /\ [][Next]_vars
FairSpec == Spec /\ Fairness

-----------------------------------------------------------------------------
(* Properties *)

Errors == {"nil", "listener", "deadline", "err"}

TypeOK ==
  /\ mode \in {"start", "serve", "single"}
  /\ main \in {"config", "connect", "handle", "tls", "launch", "settle", "up",
               "inline", "undo", "undone", "failed", "returned"}
  /\ phase \in {"none", "live", "failed", "closed"}
  /\ verdict \in {"unset", "nil", "err"}
  /\ told \in [{"shutdown"} -> {"none", "nil", "err"}]
  /\ seen \in [{"build"} -> {"none", "handle", "nil"}]
  /\ server \in {"off", "listen", "bound", "serving", "report", "ended"}
  /\ exit \in {"none", "closed", "bind", "accept"}
  /\ inShutdown \in BOOLEAN
  /\ errCh \in {"empty", "err"}
  /\ settled \in BOOLEAN /\ deadline \in BOOLEAN /\ signalled \in BOOLEAN
  /\ conn \in [Conns -> {"none", "handshake", "ready", "active", "idle", "closed"}]
  /\ once \in {"new", "running", "done"}
  /\ spc \in [Callers -> {"idle", "once", "shutdown", "drain", "wait", "release",
                          "tell", "finish", "return", "done"}]
  /\ lnErr \in {"nil", "listener"}
  /\ err1 \in {"nil", "listener", "deadline"}
  /\ stopErr \in Errors
  /\ answer \in [Callers -> Errors \union {"none"}]

\* The server accepts connections only while the source behind its TLS
\* configuration is open (spiffehttp/server.go:55-56): shutdownFunc and the
\* error paths close the source after the accept loop has ended.
NeverServeWithoutSource == server = "serving" => phase = "live"

\* An error return of Start or StartSingleThread leaves no open source and no
\* goroutine in ListenAndServeTLS (e5s.go:197-202, 357-362).
FailedStartIsClean ==
  main = "failed" => phase # "live" /\ server \in {"off", "report", "ended"}

\* Every returned call of shutdownFunc was given the one cached result, after
\* the source was closed and the accept loop had ended (e5s.go:367-384).
ShutdownAgreement ==
  \A s \in Callers : spc[s] = "done" =>
    /\ answer[s] = stopErr
    /\ phase = "closed"
    /\ server # "serving"

\* A nil result means that nothing was cut short: every connection is gone and
\* the source closed without error; a deadline that cut one off is reported. This
\* is the promise of Serve, "waits up to 5 seconds for in-flight requests to
\* complete" (e5s.go:407), and what the code does (e5s.go:374-379). Start's doc says
\* of the same function that it "does NOT wait for in-flight requests" (e5s.go:284).
NilMeansGraceful ==
  \A s \in Callers : spc[s] = "done" /\ answer[s] = "nil" =>
    /\ \A k \in Conns : Gone(k)
    /\ verdict = "nil"

\* Start answers, whatever ListenAndServeTLS does (e5s.go:356-365).
StartReturns == mode # "single" ~> main \in {"up", "failed", "returned"}

\* The goroutine of ListenAndServeTLS ends once the server stopped or failed,
\* even if nobody receives its error any more (e5s.go:346, 349-354).
ServerThreadEnds == mode # "single" /\ exit # "none" ~> server = "ended"

\* Every call of the shutdown function returns, even if a handler never does:
\* the 5 s context bounds the wait (e5s.go:374-377).
ShutdownReturns == \A s \in Callers : spc[s] = "once" ~> spc[s] = "done"

\* Serve returns after a signal.
ServeReturnsOnSignal == signalled ~> main = "returned"

\* "error: if config loading, SPIRE connection, or server startup fails"
\* (e5s.go:278): a server that could not bind is not reported as started.
StartupFailureReported == main = "up" => exit # "bind"
=============================================================================
