----------------------- MODULE ServerLifecycleProofs -----------------------
(***************************************************************************)
(* ServerLifecycle proved for any sets of connections and of users of the  *)
(* shutdown function: the safety invariants that its runs check.           *)
(***************************************************************************)
EXTENDS ServerLifecycle, TLAPS

\* The stages of shutdownFunc inside shutdownOnce.Do; in the last ones
\* srv.Shutdown has returned.
Drained == {"release", "tell", "finish"}
Running == {"shutdown", "drain", "wait"} \union Drained

\* How far the starting goroutine is says what it holds.
MainInv ==
  /\ main \in {"config", "connect"} => phase = "none"
  /\ main \in {"handle", "tls", "launch", "settle", "inline", "undo"} => phase = "live"
  /\ main = "undone" => phase = "closed"
  /\ main = "failed" => phase # "live"
  /\ main \in {"config", "connect", "handle", "tls", "launch"} => server = "off"
  /\ main \in {"undo", "undone", "failed"} => server \in {"off", "report", "ended"}
  /\ main = "returned" => once = "done"
  /\ main = "inline" => mode = "single"
  /\ signalled => mode = "serve" /\ main \in {"up", "returned"}
  /\ main \notin {"up", "returned"} =>
       /\ once = "new"
       /\ ~inShutdown
       /\ \A s \in Callers : spc[s] = "idle"

\* The source has a verdict exactly when it is closed, told to one caller.
SourceInv ==
  /\ phase = "closed" <=> verdict # "unset"
  /\ phase \in {"none", "live"} => told["shutdown"] = "none"
  /\ main = "undone" => told["shutdown"] = "none"
  /\ \A s \in Callers : spc[s] = "tell" => told["shutdown"] = "none"

\* The server goroutine ends without an error only after srv.Shutdown, and
\* sends an error only as its last act.
ServerInv ==
  /\ exit = "closed" => inShutdown /\ server = "ended"
  /\ exit # "none" => server \in {"report", "ended"}
  /\ errCh = "err" => server = "ended"

\* shutdownOnce: one caller at most is inside, and none has returned before it.
OnceInv ==
  /\ once = "new" => \A s \in Callers : spc[s] \in {"idle", "once"}
  /\ once = "done" => \A s \in Callers : spc[s] \notin Running
  /\ \A s \in Callers : spc[s] \in {"return", "done"} => once = "done"
  /\ \A s, t \in Callers : spc[s] \in Running /\ spc[t] \in Running => s = t

\* What has been stopped and released at each stage of the shutdown.
StageInv ==
  /\ once = "new" /\ main = "up" => phase = "live"
  /\ once = "new" => ~inShutdown
  /\ once = "running" => \E s \in Callers : spc[s] \in Running
  /\ once = "done" => phase = "closed" /\ inShutdown /\ server # "serving"
  /\ \A s \in Callers :
       /\ spc[s] \in {"shutdown", "drain", "wait", "release"} => phase = "live"
       /\ spc[s] \in {"tell", "finish"} => phase = "closed"
       /\ spc[s] \in {"drain", "wait"} \union Drained => inShutdown
       /\ spc[s] \in {"wait"} \union Drained => server # "serving"

\* srv.Shutdown returned nil only after the last connection was gone; the
\* cached result keeps the first error of the two.
ResultInv ==
  /\ \A s \in Callers :
       /\ spc[s] \in Drained /\ err1 = "nil" => \A k \in Conns : Gone(k)
       /\ spc[s] = "finish" => stopErr = firstErr(err1, verdict)
       /\ spc[s] = "done" => answer[s] = stopErr
  /\ once = "done" /\ stopErr = "nil" => verdict = "nil" /\ \A k \in Conns : Gone(k)

IInv == /\ MainInv /\ SourceInv /\ ServerInv /\ OnceInv /\ StageInv /\ ResultInv

-----------------------------------------------------------------------------

\* Every step keeps the type of every variable; a closed source has a verdict.
LEMMA TypeStep == ASSUME TypeOK, SourceInv, IInv, [Next]_vars PROVE TypeOK'
<1> USE DEF TypeOK, IInv, SourceInv, Errors, sourceVars, serverVars, stopVars, timerVars,
           Goto, Move, Source!vars
<1>1. CASE LoadConfig
  BY <1>1 DEF LoadConfig
<1>2. CASE Connect
  BY <1>2 DEF Connect, Source!Create
<1>3. CASE TakeHandle
  BY <1>3 DEF TakeHandle, Source!See
<1>4. CASE BuildTLS
  BY <1>4 DEF BuildTLS
<1>5. CASE UndoSource
  BY <1>5 DEF UndoSource, Source!Release
<1>6. CASE FinishUndo
  BY <1>6 DEF FinishUndo, Source!Tell
<1>7. CASE Launch
  BY <1>7 DEF Launch
<1>8. CASE StartupError
  BY <1>8 DEF StartupError
<1>9. CASE Settle
  BY <1>9 DEF Settle
<1>10. CASE ServeReturns
  BY <1>10 DEF ServeReturns, Callers
<1>11. CASE InlineReturns
  BY <1>11 DEF InlineReturns
<1>12. CASE SettleTimer
  BY <1>12 DEF SettleTimer
<1>13. CASE Signal
  BY <1>13 DEF Signal
<1>14. CASE DeadlineTimer
  BY <1>14 DEF DeadlineTimer
<1>15. CASE Listen
  BY <1>15 DEF Listen
<1>16. CASE Track
  BY <1>16 DEF Track
<1>17. CASE ServeStops
  BY <1>17 DEF ServeStops
<1>18. CASE AcceptFails
  BY <1>18 DEF AcceptFails
<1>19. CASE Report
  BY <1>19 DEF Report
<1>20. ASSUME NEW k \in Conns, Accept(k) PROVE TypeOK'
  BY <1>20 DEF Accept, ConnStep
<1>21. ASSUME NEW k \in Conns, Handshake(k) PROVE TypeOK'
  BY <1>21 DEF Handshake, ConnStep
<1>22. ASSUME NEW k \in Conns, Request(k) PROVE TypeOK'
  BY <1>22 DEF Request, ConnStep
<1>23. ASSUME NEW k \in Conns, Respond(k) PROVE TypeOK'
  BY <1>23 DEF Respond, ConnStep
<1>24. ASSUME NEW k \in Conns, Drop(k) PROVE TypeOK'
  BY <1>24 DEF Drop, ConnStep
<1>25. ASSUME NEW s \in Callers, CallShutdown(s) PROVE TypeOK'
  BY <1>25 DEF CallShutdown
<1>26. ASSUME NEW s \in Callers, RunOnce(s) PROVE TypeOK'
  BY <1>26 DEF RunOnce
<1>27. ASSUME NEW s \in Callers, SkipOnce(s) PROVE TypeOK'
  BY <1>27 DEF SkipOnce
<1>28. ASSUME NEW s \in Callers, BeginShutdown(s) PROVE TypeOK'
  BY <1>28 DEF BeginShutdown
<1>29. ASSUME NEW s \in Callers, Poll(s) PROVE TypeOK'
  BY <1>29 DEF Poll, Fresh, Gone
<1>30. ASSUME NEW s \in Callers, Tick(s) PROVE TypeOK'
  BY <1>30 DEF Tick
<1>31. ASSUME NEW s \in Callers, GiveUp(s) PROVE TypeOK'
  BY <1>31 DEF GiveUp
<1>32. ASSUME NEW s \in Callers, ReleaseSource(s) PROVE TypeOK'
  BY <1>32 DEF ReleaseSource, Source!Release
<1>33. ASSUME NEW s \in Callers, CacheResult(s) PROVE TypeOK'
  BY <1>33 DEF CacheResult, Source!Tell, firstErr
<1>34. ASSUME NEW s \in Callers, FinishOnce(s) PROVE TypeOK'
  BY <1>34 DEF FinishOnce
<1>35. ASSUME NEW s \in Callers, ReturnShutdown(s) PROVE TypeOK'
  BY <1>35 DEF ReturnShutdown
<1>36. CASE UNCHANGED vars
  BY <1>36 DEF vars
<1> QED
  BY <1>1, <1>2, <1>3, <1>4, <1>5, <1>6, <1>7, <1>8, <1>9, <1>10, <1>11,
     <1>12, <1>13, <1>14, <1>15, <1>16, <1>17, <1>18, <1>19, <1>20,
     <1>21, <1>22, <1>23, <1>24, <1>25, <1>26, <1>27, <1>28, <1>29,
     <1>30, <1>31, <1>32, <1>33, <1>34, <1>35, <1>36 DEF Next, MainStep,
     ServerStep, CallerStep

\* Every step keeps the inductive invariant.
LEMMA InvStep == ASSUME TypeOK, TypeOK', IInv, [Next]_vars PROVE IInv'
<1> USE DEF TypeOK, IInv, MainInv, SourceInv, ServerInv, OnceInv, StageInv, ResultInv,
           Drained, Running, Errors, sourceVars, serverVars, stopVars, timerVars,
           Goto, Move, Gone
<1>1. CASE LoadConfig
  BY <1>1 DEF LoadConfig
<1>2. CASE Connect
  BY <1>2 DEF Connect, Source!Create
<1>3. CASE TakeHandle
  BY <1>3 DEF TakeHandle, Source!See
<1>4. CASE BuildTLS
  BY <1>4 DEF BuildTLS
<1>5. CASE UndoSource
  BY <1>5 DEF UndoSource, Source!Release
<1>6. CASE FinishUndo
  BY <1>6 DEF FinishUndo, Source!Tell
<1>7. CASE Launch
  BY <1>7 DEF Launch
<1>8. CASE StartupError
  BY <1>8 DEF StartupError
<1>9. CASE Settle
  BY <1>9 DEF Settle
<1>10. CASE ServeReturns
  BY <1>10 DEF ServeReturns, Callers
<1>11. CASE InlineReturns
  BY <1>11 DEF InlineReturns
<1>12. CASE SettleTimer
  BY <1>12 DEF SettleTimer
<1>13. CASE Signal
  BY <1>13 DEF Signal
<1>14. CASE DeadlineTimer
  BY <1>14 DEF DeadlineTimer
<1>15. CASE Listen
  BY <1>15 DEF Listen
<1>16. CASE Track
  BY <1>16 DEF Track
<1>17. CASE ServeStops
  BY <1>17 DEF ServeStops
<1>18. CASE AcceptFails
  BY <1>18 DEF AcceptFails
<1>19. CASE Report
  BY <1>19 DEF Report
<1>20. ASSUME NEW k \in Conns, Accept(k) PROVE IInv'
  BY <1>20 DEF Accept, ConnStep
<1>21. ASSUME NEW k \in Conns, Handshake(k) PROVE IInv'
  BY <1>21 DEF Handshake, ConnStep
<1>22. ASSUME NEW k \in Conns, Request(k) PROVE IInv'
  BY <1>22 DEF Request, ConnStep
<1>23. ASSUME NEW k \in Conns, Respond(k) PROVE IInv'
  BY <1>23 DEF Respond, ConnStep
<1>24. ASSUME NEW k \in Conns, Drop(k) PROVE IInv'
  BY <1>24 DEF Drop, ConnStep
<1>25. ASSUME NEW s \in Callers, CallShutdown(s) PROVE IInv'
  BY <1>25 DEF CallShutdown
<1>26. ASSUME NEW s \in Callers, RunOnce(s) PROVE IInv'
  BY <1>26 DEF RunOnce
<1>27. ASSUME NEW s \in Callers, SkipOnce(s) PROVE IInv'
  BY <1>27 DEF SkipOnce
<1>28. ASSUME NEW s \in Callers, BeginShutdown(s) PROVE IInv'
  BY <1>28 DEF BeginShutdown
<1>29. ASSUME NEW s \in Callers, Poll(s) PROVE IInv'
  BY <1>29 DEF Poll, Fresh, Gone
<1>30. ASSUME NEW s \in Callers, Tick(s) PROVE IInv'
  BY <1>30 DEF Tick
<1>31. ASSUME NEW s \in Callers, GiveUp(s) PROVE IInv'
  <2>1. MainInv'
    BY <1>31 DEF GiveUp
  <2>2. SourceInv'
    BY <1>31 DEF GiveUp
  <2>3. ServerInv'
    BY <1>31 DEF GiveUp
  <2>4. OnceInv'
    BY <1>31 DEF GiveUp
  <2>5. StageInv'
    BY <1>31 DEF GiveUp
  <2>6. ResultInv'
    BY <1>31 DEF GiveUp
  <2> QED
    BY <2>1, <2>2, <2>3, <2>4, <2>5, <2>6
<1>32. ASSUME NEW s \in Callers, ReleaseSource(s) PROVE IInv'
  BY <1>32 DEF ReleaseSource, Source!Release
<1>33. ASSUME NEW s \in Callers, CacheResult(s) PROVE IInv'
  BY <1>33 DEF CacheResult, Source!Tell, firstErr
<1>34. ASSUME NEW s \in Callers, FinishOnce(s) PROVE IInv'
  <2>1. MainInv'
    BY <1>34 DEF FinishOnce
  <2>2. SourceInv'
    BY <1>34 DEF FinishOnce
  <2>3. ServerInv'
    BY <1>34 DEF FinishOnce
  <2>4. OnceInv'
    BY <1>34 DEF FinishOnce
  <2>5. StageInv'
    BY <1>34 DEF FinishOnce
  <2>6. ResultInv'
    BY <1>34 DEF FinishOnce, firstErr
  <2> QED
    BY <2>1, <2>2, <2>3, <2>4, <2>5, <2>6
<1>35. ASSUME NEW s \in Callers, ReturnShutdown(s) PROVE IInv'
  BY <1>35 DEF ReturnShutdown
<1>36. CASE UNCHANGED vars
  BY <1>36 DEF vars
<1> QED
  BY <1>1, <1>2, <1>3, <1>4, <1>5, <1>6, <1>7, <1>8, <1>9, <1>10, <1>11,
     <1>12, <1>13, <1>14, <1>15, <1>16, <1>17, <1>18, <1>19, <1>20,
     <1>21, <1>22, <1>23, <1>24, <1>25, <1>26, <1>27, <1>28, <1>29,
     <1>30, <1>31, <1>32, <1>33, <1>34, <1>35, <1>36 DEF Next, MainStep,
     ServerStep, CallerStep

-----------------------------------------------------------------------------

\* Types and the inductive invariant hold in every reachable state.
THEOREM InvCorrect == Spec => [](TypeOK /\ IInv)
<1>1. Init => TypeOK /\ IInv
  <2>1. Init => TypeOK
    BY ZenonT(30) DEF Init, Source!Init, TypeOK, Errors
  <2>2. Init => IInv
    BY DEF Init, Source!Init, IInv, MainInv, SourceInv, ServerInv, OnceInv, StageInv,
           ResultInv, Running, Drained
  <2> QED
    BY <2>1, <2>2
<1>2. TypeOK /\ IInv /\ [Next]_vars => (TypeOK /\ IInv)'
  BY TypeStep, InvStep DEF IInv
<1> QED
  BY <1>1, <1>2, PTL DEF Spec

\* Every variable of the server keeps its type.
THEOREM TypeCorrect == Spec => []TypeOK
  BY InvCorrect, PTL

\* However shutdown, startup failure and accept errors interleave, connections
\* are accepted only while the identity source is open.
THEOREM SourceOutlivesServing == Spec => []NeverServeWithoutSource
<1>1. TypeOK /\ IInv => NeverServeWithoutSource
  BY DEF TypeOK, IInv, MainInv, StageInv, Running, Drained, NeverServeWithoutSource
<1> QED
  BY <1>1, InvCorrect, PTL

\* An error return of Start or StartSingleThread has given the source back.
THEOREM FailedStartCleaned == Spec => []FailedStartIsClean
<1>1. TypeOK /\ IInv => FailedStartIsClean
  BY DEF IInv, MainInv, FailedStartIsClean
<1> QED
  BY <1>1, InvCorrect, PTL

\* All callers of the shutdown function get the same result, after the source
\* was closed and the accept loop had ended.
THEOREM ShutdownAgreed == Spec => []ShutdownAgreement
<1>1. TypeOK /\ IInv => ShutdownAgreement
  BY DEF IInv, OnceInv, StageInv, ResultInv, ShutdownAgreement
<1> QED
  BY <1>1, InvCorrect, PTL

\* A nil result of shutdown means no connection was cut short and the source
\* closed without error.
THEOREM NilGraceful == Spec => []NilMeansGraceful
<1>1. TypeOK /\ IInv => NilMeansGraceful
  BY DEF IInv, OnceInv, ResultInv, NilMeansGraceful
<1> QED
  BY <1>1, InvCorrect, PTL

\* The cached result is final (e5s.go:367-384): once a shutdown has finished, no
\* later call, accept error or late timer changes the result, the source stays
\* closed, and no connection is accepted again.
THEOREM ShutdownIsFinal ==
  Spec => [][once = "done" => stopErr' = stopErr /\ phase' = phase /\ server' # "serving"]_vars
<1>1. TypeOK /\ IInv /\ (TypeOK /\ IInv)' /\ [Next]_vars =>
        (once = "done" => stopErr' = stopErr /\ phase' = phase /\ server' # "serving")
  <2> SUFFICES ASSUME TypeOK, IInv, IInv', [Next]_vars, once = "done"
               PROVE  stopErr' = stopErr /\ phase' = phase /\ server' # "serving"
    OBVIOUS
  <2>1. main \in {"up", "returned"} /\ \A s \in Callers : spc[s] \notin Running
    BY DEF IInv, MainInv, OnceInv, TypeOK
  <2>2. stopErr' = stopErr /\ phase' = phase /\ once' = "done"
    <3> USE DEF sourceVars, serverVars, stopVars, timerVars, Goto, Move, Running, Drained
    <3>1. CASE MainStep
      <4>1. ServeReturns
        BY <2>1, <3>1 DEF MainStep, LoadConfig, Connect, TakeHandle, BuildTLS, UndoSource,
           FinishUndo, Launch, StartupError, Settle, InlineReturns
      <4> QED
        BY <4>1 DEF ServeReturns
    <3>2. CASE SettleTimer \/ Signal \/ DeadlineTimer \/ ServerStep \/ AcceptFails
      BY <3>2 DEF SettleTimer, Signal, DeadlineTimer, ServerStep, Listen, Track, ServeStops,
         Report, AcceptFails
    <3>3. ASSUME NEW k \in Conns,
                 Accept(k) \/ Handshake(k) \/ Request(k) \/ Respond(k) \/ Drop(k)
          PROVE  stopErr' = stopErr /\ phase' = phase /\ once' = "done"
      BY <3>3 DEF Accept, Handshake, Request, Respond, Drop, ConnStep
    <3>4. ASSUME NEW s \in Callers, CallShutdown(s) \/ CallerStep(s)
          PROVE  stopErr' = stopErr /\ phase' = phase /\ once' = "done"
      <4>1. spc[s] \notin {"shutdown", "drain", "wait", "release", "tell", "finish"}
        BY <2>1
      <4>2. CallShutdown(s) \/ SkipOnce(s) \/ ReturnShutdown(s)
        BY <3>4, <4>1 DEF CallerStep, RunOnce, BeginShutdown, Poll, Tick, GiveUp,
           ReleaseSource, CacheResult, FinishOnce
      <4> QED
        BY <4>2 DEF CallShutdown, SkipOnce, ReturnShutdown
    <3>5. CASE UNCHANGED vars
      BY <3>5 DEF vars
    <3> QED
      BY <3>1, <3>2, <3>3, <3>4, <3>5 DEF Next
  <2> QED
    BY <2>2 DEF IInv, StageInv
<1> QED
  BY <1>1, InvCorrect, PTL DEF Spec

-----------------------------------------------------------------------------
(***************************************************************************)
(* Progress. WF_vars(A) obliges A when ENABLED <<A>>_vars holds, which the *)
(* provers do not compute. GuardsEnable states it for each fair action: an *)
(* action whose guard holds can be taken. Each line reads the definition   *)
(* of its action and says nothing of which states are reached; that the    *)
(* guards do hold in time is what is proved. TLC checks GuardsEnable as an *)
(* invariant of this module with the constants of any cfg.                 *)
(***************************************************************************)

MainGuard == \/ main \in {"config", "tls", "launch"}
             \/ main = "connect" /\ phase = "none"
             \/ main = "handle" /\ phase = "live"
             \/ main = "undo" /\ phase = "live"
             \/ main = "undone" /\ phase = "closed" /\ told["shutdown"] = "none"
             \/ main = "settle" /\ settled
             \/ main = "up" /\ spc["serve"] = "done"

ServerGuard == \/ server = "serving" /\ inShutdown
               \/ server = "report" /\ mode # "single" /\ errCh = "empty"

CallerGuard(s) == \/ spc[s] = "once" /\ once \in {"new", "done"}
                  \/ spc[s] = "drain" /\ server # "serving"
                  \/ spc[s] = "release" /\ phase = "live"
                  \/ spc[s] = "tell" /\ phase = "closed" /\ told["shutdown"] = "none"
                  \/ spc[s] \in {"shutdown", "wait", "finish", "return"}

CallerEnabled(s) == /\ CallerGuard(s) => ENABLED <<CallerStep(s)>>_vars
                    /\ spc[s] = "wait" /\ deadline => ENABLED <<GiveUp(s)>>_vars

GuardsEnable ==
  /\ MainGuard => ENABLED <<MainStep>>_vars
  /\ main = "settle" /\ ~settled => ENABLED <<SettleTimer>>_vars
  /\ inShutdown /\ ~deadline => ENABLED <<DeadlineTimer>>_vars
  /\ ServerGuard => ENABLED <<ServerStep>>_vars
  /\ main = "up" /\ mode = "serve" /\ signalled /\ spc["serve"] = "idle" =>
       ENABLED <<CallShutdown("serve")>>_vars
  /\ \A s \in Callers : CallerEnabled(s)

\* What a caller is owed, out of the conjunctions.
LEMMA Owed == /\ FairSpec => \A s \in Callers : CallerRuns(s)
              /\ GuardsEnable => \A s \in Callers : CallerEnabled(s)
  BY PTL DEF FairSpec, Fairness, GuardsEnable

\* Which steps move the program counters and flags that progress is about.
LEMMA Moves ==
  ASSUME TypeOK, [Next]_vars
  PROVE  /\ mode' = mode
         /\ main' = main \/ MainStep
         /\ server' = server \/ Launch \/ ServerStep \/ AcceptFails
         /\ inShutdown => inShutdown'
         /\ settled => settled'
         /\ deadline => deadline'
         /\ signalled => signalled'
         /\ once = "done" => once' = "done"
         /\ \A s \in Callers : spc'[s] = spc[s] \/ CallShutdown(s) \/ CallerStep(s)
<1> USE DEF TypeOK, Next, MainStep, LoadConfig, Connect, TakeHandle, BuildTLS, UndoSource,
     FinishUndo, Launch, StartupError, Settle, ServeReturns, InlineReturns, SettleTimer,
     Signal, DeadlineTimer, ServerStep, Listen, Track, ServeStops, Report, AcceptFails,
     ConnStep, Accept, Handshake, Request, Respond, Drop, CallShutdown, CallerStep, RunOnce,
     SkipOnce, BeginShutdown, Poll, Tick, GiveUp, ReleaseSource, CacheResult, FinishOnce,
     ReturnShutdown, Goto, Move, Gone, Fresh, sourceVars, serverVars, stopVars, timerVars, vars
<1>1. mode' = mode
  OBVIOUS
<1>2. main' = main \/ MainStep
  OBVIOUS
<1>3. server' = server \/ Launch \/ ServerStep \/ AcceptFails
  OBVIOUS
<1>4. (inShutdown => inShutdown') /\ (settled => settled')
  OBVIOUS
<1>5. (deadline => deadline') /\ (signalled => signalled')
  OBVIOUS
<1>6. once = "done" => once' = "done"
  OBVIOUS
<1>7. ASSUME NEW s \in Callers PROVE spc'[s] = spc[s] \/ CallShutdown(s) \/ CallerStep(s)
  OBVIOUS
<1> HIDE DEF MainStep, Launch, ServerStep, AcceptFails, CallShutdown, CallerStep
<1> QED
  BY <1>1, <1>2, <1>3, <1>4, <1>5, <1>6, <1>7

\* Start answers, whatever ListenAndServeTLS does and whenever it reports
\* (e5s.go:356-365): the 100 ms timer bounds the wait.
THEOREM StartAnswers == FairSpec /\ []GuardsEnable => StartReturns
<1> DEFINE Config   == main = "config"
           Connects == main = "connect"
           Handle   == main = "handle"
           Tls      == main = "tls"
           Launches == main = "launch"
           Waits    == main = "settle"
           Undo     == main = "undo"
           Undone   == main = "undone"
           Answered == main \in {"up", "failed", "returned"}
           Starts   == mode # "single"
           Step     == <<MainStep>>_vars
<1> USE DEF MainStep, LoadConfig, Connect, TakeHandle, BuildTLS, UndoSource, FinishUndo, Launch,
     StartupError, Settle, ServeReturns, InlineReturns, Goto
<1>1. TypeOK /\ IInv /\ Starts =>
        Config \/ Connects \/ Handle \/ Tls \/ Launches \/ Waits \/ Undo \/ Undone \/ Answered
  BY DEF TypeOK, IInv, MainInv
<1>2. TypeOK /\ Starts /\ [Next]_vars => Starts'
  BY Moves
<1>3. TypeOK /\ Config /\ [Next]_vars => Config' \/ Connects' \/ Answered'
  BY Moves
<1>4. Config /\ Step => Connects' \/ Answered'
  OBVIOUS
<1>5. TypeOK /\ Connects /\ [Next]_vars => Connects' \/ Handle' \/ Answered'
  BY Moves
<1>6. Connects /\ Step => Handle' \/ Answered'
  OBVIOUS
<1>7. TypeOK /\ Handle /\ [Next]_vars => Handle' \/ Tls'
  BY Moves
<1>8. Handle /\ Step => Tls'
  OBVIOUS
<1>9. TypeOK /\ Tls /\ [Next]_vars => Tls' \/ Launches' \/ Undo'
  BY Moves
<1>10. Tls /\ Step => Launches' \/ Undo'
  OBVIOUS
<1>11. TypeOK /\ Launches /\ Starts /\ [Next]_vars => Launches' \/ Waits'
  BY Moves
<1>12. Launches /\ Starts /\ Step => Waits'
  OBVIOUS
<1>13. TypeOK /\ Waits /\ [Next]_vars => Waits' \/ Undo' \/ Answered'
  BY Moves
<1>14. Waits /\ Step => Undo' \/ Answered'
  OBVIOUS
<1>15. <<SettleTimer>>_vars => settled'
  BY DEF SettleTimer
<1>16. TypeOK /\ settled /\ [Next]_vars => settled'
  BY Moves
<1>17. TypeOK /\ Undo /\ [Next]_vars => Undo' \/ Undone'
  BY Moves
<1>18. Undo /\ Step => Undone'
  OBVIOUS
<1>19. TypeOK /\ Undone /\ [Next]_vars => Undone' \/ Answered'
  BY Moves
<1>20. Undone /\ Step => Answered'
  OBVIOUS
<1>21. IInv /\ (Config \/ Connects \/ Handle \/ Tls \/ Launches \/ (Waits /\ settled) \/ Undo
               \/ Undone) => MainGuard
  BY DEF IInv, MainInv, SourceInv, MainGuard
<1>22. Waits <=> main = "settle"
  OBVIOUS
<1> HIDE DEF Config, Connects, Handle, Tls, Launches, Waits, Undo, Undone, Answered, Starts,
      MainStep, LoadConfig, Connect, TakeHandle, BuildTLS, UndoSource, FinishUndo, Launch,
      StartupError, Settle, ServeReturns, InlineReturns, Goto, MainGuard, IInv, TypeOK
<1>23. FairSpec /\ []GuardsEnable => (Starts ~> Answered)
  BY <1>1, <1>2, <1>3, <1>4, <1>5, <1>6, <1>7, <1>8, <1>9, <1>10, <1>11, <1>12, <1>13, <1>14,
     <1>15, <1>16, <1>17, <1>18, <1>19, <1>20, <1>21, <1>22, InvCorrect, PTL
     DEF FairSpec, Spec, Fairness, GuardsEnable
<1> QED
  BY <1>23 DEF StartReturns, Starts, Answered

\* The goroutine of ListenAndServeTLS ends once the server has stopped or
\* failed: the channel has room for its error, received or not (e5s.go:346-354).
THEOREM ServerThreadLeaves == FairSpec /\ []GuardsEnable => ServerThreadEnds
<1> DEFINE Reports == server = "report"
           Ended   == server = "ended"
           Stopped == exit # "none"
           Starts  == mode # "single"
<1> USE DEF ServerStep, Listen, Track, ServeStops, Report, AcceptFails, Launch, Goto
<1>1. IInv /\ Stopped => Reports \/ Ended
  BY DEF IInv, ServerInv
<1>2. TypeOK /\ Starts /\ [Next]_vars => Starts'
  BY Moves
<1>3. TypeOK /\ IInv /\ Reports /\ [Next]_vars => Reports' \/ Ended'
  BY Moves DEF IInv, MainInv
<1>4. Reports /\ <<ServerStep>>_vars => Ended'
  OBVIOUS
<1>5. TypeOK /\ IInv /\ Starts /\ Reports => ServerGuard
  BY DEF TypeOK, IInv, ServerInv, ServerGuard
<1> HIDE DEF Reports, Ended, Stopped, Starts, ServerStep, Listen, Track, ServeStops, Report,
      AcceptFails, Launch, Goto, ServerGuard, IInv, TypeOK
<1>6. FairSpec /\ []GuardsEnable => (Starts /\ Stopped ~> Ended)
  BY <1>1, <1>2, <1>3, <1>4, <1>5, InvCorrect, PTL DEF FairSpec, Spec, Fairness, GuardsEnable
<1> QED
  BY <1>6 DEF ServerThreadEnds, Starts, Stopped, Ended

-----------------------------------------------------------------------------

\* Where a caller that has called goes next, whoever takes the step.
LEMMA CallerMoves ==
  ASSUME TypeOK, [Next]_vars, NEW s \in Callers
  PROVE  /\ spc[s] = "once"     => spc'[s] \in {"once", "shutdown", "return"}
         /\ spc[s] = "shutdown" => spc'[s] \in {"shutdown", "drain"}
         /\ spc[s] = "drain"    => spc'[s] \in {"drain", "wait", "release"}
         /\ spc[s] = "wait"     => spc'[s] \in {"wait", "drain", "release"}
         /\ spc[s] = "release"  => spc'[s] \in {"release", "tell"}
         /\ spc[s] = "tell"     => spc'[s] \in {"tell", "finish"}
         /\ spc[s] = "finish"   => \/ spc'[s] = "finish"
                                   \/ spc'[s] = "return" /\ once' = "done"
         /\ spc[s] = "return"   => spc'[s] \in {"return", "done"}
<1>1. CASE spc'[s] = spc[s]
  BY <1>1
<1>2. CASE CallShutdown(s) \/ RunOnce(s) \/ SkipOnce(s)
  BY <1>2 DEF CallShutdown, RunOnce, SkipOnce, Move, TypeOK
<1>3. CASE BeginShutdown(s) \/ Tick(s) \/ GiveUp(s)
  BY <1>3 DEF BeginShutdown, Tick, GiveUp, Move, TypeOK
<1>4. CASE Poll(s)
  BY <1>4 DEF Poll, Move, TypeOK
<1>5. CASE ReleaseSource(s) \/ CacheResult(s) \/ FinishOnce(s) \/ ReturnShutdown(s)
  BY <1>5 DEF ReleaseSource, CacheResult, FinishOnce, ReturnShutdown, Move, TypeOK
<1> QED
  BY Moves, <1>1, <1>2, <1>3, <1>4, <1>5 DEF CallerStep

\* Whoever is inside shutdownOnce.Do comes out of it: the accept loop ends, and
\* the expired context ends the wait for connections (e5s.go:374-377).
LEMMA RunnerEnds ==
  ASSUME NEW s \in Callers
  PROVE  FairSpec /\ []GuardsEnable => [](spc[s] \in Running => <>(once = "done"))
<1> DEFINE Begin    == spc[s] = "shutdown"
           Drains   == spc[s] = "drain"
           Waits    == spc[s] = "wait"
           Releases == spc[s] = "release"
           Tells    == spc[s] = "tell"
           Finishes == spc[s] = "finish"
           Done     == once = "done"
           Serving  == server = "serving"
           Step     == <<CallerStep(s)>>_vars
           Expires  == <<GiveUp(s)>>_vars
<1> USE DEF CallerStep, CallShutdown, RunOnce, SkipOnce, BeginShutdown, Poll, Tick, GiveUp,
      ReleaseSource, CacheResult, FinishOnce, ReturnShutdown, Move, Gone, Fresh, TypeOK
<1>1. spc[s] \in Running => Begin \/ Drains \/ Waits \/ Releases \/ Tells \/ Finishes
  BY DEF Running, Drained
<1>2. TypeOK /\ Begin /\ [Next]_vars => Begin' \/ Drains'
  BY CallerMoves
<1>3. TypeOK /\ Begin /\ Step => Drains'
  OBVIOUS
<1>4. TypeOK /\ Drains /\ [Next]_vars => Drains' \/ Waits' \/ Releases'
  BY CallerMoves
<1>5. TypeOK /\ Drains /\ Step => Waits' \/ Releases'
  OBVIOUS
<1>6. TypeOK /\ Waits /\ [Next]_vars => Waits' \/ Drains' \/ Releases'
  BY CallerMoves
<1>7. TypeOK /\ Waits /\ Expires => Releases'
  OBVIOUS
<1>8. Waits <=> spc[s] = "wait"
  OBVIOUS
<1>9. Expires => Waits
  OBVIOUS
<1>10. IInv /\ (Drains \/ Waits) => inShutdown
  BY DEF IInv, StageInv, Running, Drained
<1>11. TypeOK /\ inShutdown /\ [Next]_vars => inShutdown'
  BY Moves
<1>12. <<DeadlineTimer>>_vars => deadline'
  BY DEF DeadlineTimer
<1>13. TypeOK /\ deadline /\ [Next]_vars => deadline'
  BY Moves
<1>14. TypeOK /\ IInv /\ inShutdown /\ ~Serving /\ [Next]_vars => (~Serving)'
  BY Moves DEF IInv, MainInv, ServerStep, Listen, Track, ServeStops, Report, AcceptFails,
     Launch, Goto
<1>15. Serving /\ <<ServerStep>>_vars => (~Serving)'
  BY DEF ServerStep, Listen, Track, ServeStops, Report
<1>16. inShutdown /\ Serving => ServerGuard
  BY DEF ServerGuard
<1>17. TypeOK /\ Releases /\ [Next]_vars => Releases' \/ Tells'
  BY CallerMoves
<1>18. TypeOK /\ Releases /\ Step => Tells'
  OBVIOUS
<1>19. TypeOK /\ Tells /\ [Next]_vars => Tells' \/ Finishes'
  BY CallerMoves
<1>20. TypeOK /\ Tells /\ Step => Finishes'
  OBVIOUS
<1>21. TypeOK /\ Finishes /\ [Next]_vars => Finishes' \/ Done'
  BY CallerMoves
<1>22. TypeOK /\ Finishes /\ Step => Done'
  OBVIOUS
<1>23. IInv /\ (Begin \/ (Drains /\ ~Serving) \/ Releases \/ Tells \/ Finishes) => CallerGuard(s)
  BY DEF IInv, SourceInv, StageInv, CallerGuard
<1>24. FairSpec => CallerRuns(s)
  BY Owed
<1>25. GuardsEnable => CallerEnabled(s)
  BY Owed
<1> HIDE DEF Begin, Drains, Waits, Releases, Tells, Finishes, Done, Serving, CallerStep,
      CallShutdown, RunOnce, SkipOnce, BeginShutdown, Poll, Tick, GiveUp, ReleaseSource,
      CacheResult, FinishOnce, ReturnShutdown, Move, Gone, Fresh, TypeOK, IInv, ServerGuard,
      CallerGuard
<1>26. FairSpec /\ []GuardsEnable => [](inShutdown => <>[](deadline /\ ~Serving))
  BY <1>11, <1>12, <1>13, <1>14, <1>15, <1>16, InvCorrect, PTL
     DEF FairSpec, Spec, Fairness, GuardsEnable
<1>27. FairSpec /\ []GuardsEnable => [](Drains \/ Waits => <>Releases)
  BY <1>4, <1>5, <1>6, <1>7, <1>8, <1>9, <1>10, <1>23, <1>24, <1>25, <1>26, InvCorrect, PTL
     DEF FairSpec, Spec, CallerRuns, CallerEnabled
<1>28. FairSpec /\ []GuardsEnable => [](Begin => <>Drains)
  BY <1>2, <1>3, <1>23, <1>24, <1>25, InvCorrect, PTL DEF FairSpec, Spec, CallerRuns, CallerEnabled
<1>29. FairSpec /\ []GuardsEnable => [](Releases \/ Tells \/ Finishes => <>Done)
  BY <1>17, <1>18, <1>19, <1>20, <1>21, <1>22, <1>23, <1>24, <1>25, InvCorrect, PTL
     DEF FairSpec, Spec, CallerRuns, CallerEnabled
<1>30. FairSpec /\ []GuardsEnable => [](spc[s] \in Running => <>Done)
  BY <1>1, <1>27, <1>28, <1>29, PTL
<1> QED
  BY <1>30 DEF Done

\* So shutdownOnce, once taken, is done, whoever has taken it.
LEMMA OnceEnds == FairSpec /\ []GuardsEnable => [](once = "running" => <>(once = "done"))
<1>1. FairSpec /\ []GuardsEnable =>
        \A s \in Callers : [](spc[s] \in Running => <>(once = "done"))
  BY RunnerEnds
<1>2. (\A s \in Callers : [](spc[s] \in Running => <>(once = "done"))) =>
        [](\A s \in Callers : spc[s] \in Running => <>(once = "done"))
  OBVIOUS
<1>3. (\A s \in Callers : spc[s] \in Running => <>(once = "done")) =>
        ((\E s \in Callers : spc[s] \in Running) => <>(once = "done"))
  OBVIOUS
<1>4. IInv /\ once = "running" => \E s \in Callers : spc[s] \in Running
  BY DEF IInv, StageInv
<1> QED
  BY <1>1, <1>2, <1>3, <1>4, InvCorrect, PTL DEF FairSpec

\* A call of the shutdown function returns: its caller runs the shutdown, or
\* waits for the one that does.
LEMMA CallEnds ==
  ASSUME NEW s \in Callers
  PROVE  FairSpec /\ []GuardsEnable => (spc[s] # "idle" ~> spc[s] = "done")
<1> DEFINE Calling  == spc[s] # "idle"
           Waits    == spc[s] = "once"
           Inside   == spc[s] \in Running
           Leaves   == spc[s] = "return"
           Returned == spc[s] = "done"
           New      == once = "new"
           Taken    == once = "running"
           Over     == once = "done"
           Step     == <<CallerStep(s)>>_vars
<1> USE DEF CallerStep, CallShutdown, RunOnce, SkipOnce, BeginShutdown, Poll, Tick, GiveUp,
      ReleaseSource, CacheResult, FinishOnce, ReturnShutdown, Move, Gone, Fresh, TypeOK
<1>1. TypeOK => New \/ Taken \/ Over
  OBVIOUS
<1>2. TypeOK /\ Waits /\ [Next]_vars => Waits' \/ Inside' \/ Leaves'
  BY CallerMoves DEF Running
<1>3. TypeOK /\ Waits /\ New /\ Step => Taken'
  OBVIOUS
<1>4. TypeOK /\ IInv /\ Inside => Taken /\ ~Over
  BY DEF IInv, OnceInv, Running, Drained
<1>5. TypeOK /\ Inside /\ [Next]_vars => Inside' \/ Leaves'
  BY CallerMoves DEF Running, Drained
<1>6. FairSpec /\ []GuardsEnable => [](Taken => <>Over)
  BY OnceEnds
<1>7. TypeOK /\ Over /\ [Next]_vars => Over'
  BY Moves
<1>8. IInv /\ Leaves => Over
  BY DEF IInv, OnceInv
<1>9. TypeOK /\ Waits /\ Over /\ Step => Leaves'
  OBVIOUS
<1>10. TypeOK /\ Leaves /\ [Next]_vars => Leaves' \/ Returned'
  BY CallerMoves
<1>11. TypeOK /\ Leaves /\ Step => Returned'
  OBVIOUS
<1>12. (Waits /\ New) \/ (Waits /\ Over) \/ Leaves => CallerGuard(s)
  BY DEF CallerGuard
<1>13. FairSpec => CallerRuns(s)
  BY Owed
<1>14. GuardsEnable => CallerEnabled(s)
  BY Owed
<1>15. TypeOK => (Calling => Waits \/ Inside \/ Leaves \/ Returned)
  BY DEF Running, Drained
<1> HIDE DEF Calling, Waits, Inside, Leaves, Returned, New, Taken, Over, CallerStep, CallShutdown,
      RunOnce, SkipOnce, BeginShutdown, Poll, Tick, GiveUp, ReleaseSource, CacheResult,
      FinishOnce, ReturnShutdown, Move, Gone, Fresh, TypeOK, IInv, CallerGuard
<1>16. FairSpec /\ []GuardsEnable => (Calling ~> Returned)
  BY <1>1, <1>2, <1>3, <1>4, <1>5, <1>6, <1>7, <1>8, <1>9, <1>10, <1>11, <1>12, <1>13, <1>14,
     <1>15, InvCorrect, PTL DEF FairSpec, Spec, CallerRuns, CallerEnabled
<1> QED
  BY <1>16 DEF Calling, Returned

\* Every call of the shutdown function returns, for any number of callers at
\* once and even if a handler never does (e5s.go:367-384).
THEOREM ShutdownAnswers == FairSpec /\ []GuardsEnable => ShutdownReturns
<1> SUFFICES ASSUME NEW s \in Callers
             PROVE  FairSpec /\ []GuardsEnable => (spc[s] = "once" ~> spc[s] = "done")
  BY DEF ShutdownReturns
<1>1. FairSpec /\ []GuardsEnable => (spc[s] # "idle" ~> spc[s] = "done")
  BY CallEnds
<1>2. spc[s] = "once" => spc[s] # "idle"
  OBVIOUS
<1> QED
  BY <1>1, <1>2, PTL

\* Serve returns after SIGINT or SIGTERM, having shut down the server and its
\* source (e5s.go:428-439).
THEOREM ServeEnds == FairSpec /\ []GuardsEnable => ServeReturnsOnSignal
<1> PICK s \in Callers : s = "serve"
  BY DEF Callers
<1> DEFINE Up       == main = "up"
           Returned == main = "returned"
           Idle     == spc[s] = "idle"
           Over     == spc[s] = "done"
<1>1. IInv /\ signalled => mode = "serve" /\ (Up \/ Returned)
  BY DEF IInv, MainInv
<1>2. TypeOK /\ signalled /\ [Next]_vars => signalled'
  BY Moves
<1>3. TypeOK /\ <<CallShutdown("serve")>>_vars => (~Idle)'
  BY DEF TypeOK, CallShutdown, Move
<1>4. FairSpec /\ []GuardsEnable => (spc[s] # "idle" ~> spc[s] = "done")
  BY CallEnds
<1>5. TypeOK /\ Over /\ [Next]_vars => Over'
  BY Moves DEF TypeOK, CallShutdown, CallerStep, RunOnce, SkipOnce, BeginShutdown, Poll, Tick,
     GiveUp, ReleaseSource, CacheResult, FinishOnce, ReturnShutdown, Move, Gone, Fresh
<1>6. Up /\ <<MainStep>>_vars => Returned'
  BY DEF MainStep, LoadConfig, Connect, TakeHandle, BuildTLS, UndoSource, FinishUndo, Launch,
     StartupError, Settle, ServeReturns, InlineReturns, Goto
<1>7. Up /\ Over => MainGuard
  BY DEF MainGuard
<1>8. (spc[s] # "idle" <=> ~Idle) /\ (spc[s] = "done" <=> Over)
  OBVIOUS
<1>9. IInv /\ signalled /\ Up /\ Idle =>
        main = "up" /\ mode = "serve" /\ signalled /\ spc["serve"] = "idle"
  BY <1>1
<1> HIDE DEF Up, Idle, Over, Returned
<1>10. FairSpec /\ []GuardsEnable => (signalled ~> Returned)
  BY <1>1, <1>2, <1>3, <1>4, <1>5, <1>6, <1>7, <1>8, <1>9, InvCorrect, PTL
     DEF FairSpec, Spec, Fairness, GuardsEnable
<1> QED
  BY <1>10 DEF ServeReturnsOnSignal, Returned
=============================================================================
