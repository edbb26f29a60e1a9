------------------------ MODULE IdentitySourceProofs ------------------------
(***************************************************************************)
(* IdentitySource proved for any sets of closers and readers: the safety   *)
(* invariants, and that it implements SourceContract.                      *)
(***************************************************************************)
EXTENDS IdentitySource, TLAPS

\* The stages of Close inside closeOnce.Do, before and after the SDK's Close.
Opening == {"lock", "drain", "locked", "stopped"}
Running == Opening \union {"released", "cleared", "unlocked"}

\* Creation: the source and its users exist only after the result was received.
BirthInv ==
  /\ creator = "start" => builder = "off"
  /\ builder = "sent" <=> ch # "empty"
  /\ creator = "select" /\ (builder = "built" \/ ch = "ok") => sdk = "open"
  /\ creator = "ok" => builder = "sent"
  /\ creator # "ok" => /\ ~source
                       /\ once = "new"
                       /\ \A c \in Closers : cpc[c] = "idle"
                       /\ \A r \in Readers : rpc[r] = "idle"

\* closeOnce: one closer at most is inside, and its state says where.
OnceInv ==
  /\ once = "new" => \A c \in Closers : cpc[c] \in {"idle", "once"}
  /\ once = "done" => \A c \in Closers : cpc[c] \notin Running
  /\ \A c \in Closers : cpc[c] \in {"return", "done"} => once = "done"
  /\ \A c, d \in Closers : cpc[c] \in Running /\ cpc[d] \in Running => c = d

\* What has been released at each stage of the close.
StageInv ==
  /\ once = "new" /\ creator = "ok" => source /\ sdk = "open"
  /\ once = "done" => ~source /\ sdk = "closed" /\ cancelled
  /\ once = "running" => \E c \in Closers : cpc[c] \in Running
  /\ \A c \in Closers :
       /\ cpc[c] \in Opening => source /\ sdk = "open"
       /\ cpc[c] \in {"stopped", "released", "cleared", "unlocked"} => cancelled
       /\ cpc[c] = "released" => source /\ sdk = "closed"
       /\ cpc[c] \in {"cleared", "unlocked"} => ~source /\ sdk = "closed"

\* The writer and the readers of s.mu exclude each other.
LockInv ==
  \A c \in Closers : cpc[c] \in Holding => \A r \in Readers : ~RLocked(r)

\* A closer has been told something exactly when it returned.
ToldInv ==
  \A c \in Closers : IF cpc[c] = "done" THEN told[c] = closeErr ELSE told[c] = "none"

IInv == /\ TypeOK /\ BirthInv /\ OnceInv /\ StageInv
        /\ LockInv /\ ToldInv /\ HandoutIsOpen /\ ErrorAborts

-----------------------------------------------------------------------------

\* Every variable keeps its type.
THEOREM TypeCorrect == Spec => []TypeOK
<1>1. Init => TypeOK
  BY ZenonT(30) DEF Init, TypeOK
<1>2. TypeOK /\ [Next]_vars => TypeOK'
  <2> SUFFICES ASSUME TypeOK, [Next]_vars PROVE TypeOK'
    OBVIOUS
  <2> USE DEF TypeOK, newVars, closeVars, readVars, Move
  <2>1. CASE NilContext
    BY <2>1 DEF NilContext
  <2>2. CASE StartBuild
    BY <2>2 DEF StartBuild
  <2>3. CASE BuildOk
    BY <2>3 DEF BuildOk
  <2>4. CASE BuildErr
    BY <2>4 DEF BuildErr
  <2>5. CASE Send
    BY <2>5 DEF Send
  <2>6. CASE TimerFires
    BY <2>6 DEF TimerFires
  <2>7. CASE CancelParent
    BY <2>7 DEF CancelParent
  <2>8. CASE ReceiveSource
    BY <2>8 DEF ReceiveSource
  <2>9. CASE ReceiveError
    BY <2>9 DEF ReceiveError
  <2>10. CASE Timeout
    BY <2>10 DEF Timeout
  <2>11. ASSUME NEW c \in Closers, CallClose(c) PROVE TypeOK'
    BY <2>11 DEF CallClose
  <2>12. ASSUME NEW c \in Closers, RunOnce(c) PROVE TypeOK'
    BY <2>12 DEF RunOnce
  <2>13. ASSUME NEW c \in Closers, SkipOnce(c) PROVE TypeOK'
    BY <2>13 DEF SkipOnce
  <2>14. ASSUME NEW c \in Closers, AskLock(c) PROVE TypeOK'
    BY <2>14 DEF AskLock
  <2>15. ASSUME NEW c \in Closers, GetLock(c) PROVE TypeOK'
    BY <2>15 DEF GetLock
  <2>16. ASSUME NEW c \in Closers, StopWatchers(c) PROVE TypeOK'
    BY <2>16 DEF StopWatchers
  <2>17. ASSUME NEW c \in Closers, CloseSDK(c) PROVE TypeOK'
    BY <2>17 DEF CloseSDK
  <2>18. ASSUME NEW c \in Closers, ClearSource(c) PROVE TypeOK'
    <3>1. cpc' = [cpc EXCEPT ![c] = "cleared"]
      BY <2>18 DEF ClearSource
    <3>2. UNCHANGED <<ctx, cancelled, creator, builder, ch, expired, sdk, once,
                      closeErr, told, rpc, seen>>
      BY <2>18 DEF ClearSource
    <3>3. source' \in BOOLEAN
      BY <2>18, Zenon DEF ClearSource
    <3> QED
      BY <3>1, <3>2, <3>3
  <2>19. ASSUME NEW c \in Closers, Unlock(c) PROVE TypeOK'
    BY <2>19 DEF Unlock
  <2>20. ASSUME NEW c \in Closers, FinishOnce(c) PROVE TypeOK'
    BY <2>20 DEF FinishOnce
  <2>21. ASSUME NEW c \in Closers, ReturnClose(c) PROVE TypeOK'
    BY <2>21 DEF ReturnClose
  <2>22. ASSUME NEW r \in Readers, RLock(r) PROVE TypeOK'
    BY <2>22 DEF RLock
  <2>23. ASSUME NEW r \in Readers, ReadSource(r) PROVE TypeOK'
    BY <2>23 DEF ReadSource
  <2>24. ASSUME NEW r \in Readers, RUnlock(r) PROVE TypeOK'
    BY <2>24 DEF RUnlock
  <2>25. CASE UNCHANGED vars
    BY <2>25 DEF vars
  <2> QED
        BY <2>1, <2>2, <2>3, <2>4, <2>5, <2>6, <2>7, <2>8, <2>9, <2>10, <2>11,
        <2>12, <2>13, <2>14, <2>15, <2>16, <2>17, <2>18, <2>19, <2>20,
        <2>21, <2>22, <2>23, <2>24, <2>25 DEF Next, CreatorStep, CloserStep,
        ReaderStep
<1> QED
  BY <1>1, <1>2, PTL DEF Spec

\* Every step keeps the inductive invariant.
LEMMA InvStep == ASSUME TypeOK, TypeOK', IInv, [Next]_vars PROVE IInv'
<1> USE DEF IInv, TypeOK, BirthInv, OnceInv, StageInv, LockInv, ToldInv,
           HandoutIsOpen, ErrorAborts, newVars, closeVars, readVars,
           Move, Wanting, Holding, WriterWaits, RLocked, Opening, Running
<1>1. CASE NilContext
  BY <1>1 DEF NilContext
<1>2. CASE StartBuild
  BY <1>2 DEF StartBuild
<1>3. CASE BuildOk
  BY <1>3 DEF BuildOk
<1>4. CASE BuildErr
  BY <1>4 DEF BuildErr
<1>5. CASE Send
  BY <1>5 DEF Send
<1>6. CASE TimerFires
  BY <1>6 DEF TimerFires
<1>7. CASE CancelParent
  BY <1>7 DEF CancelParent
<1>8. CASE ReceiveSource
  BY <1>8 DEF ReceiveSource
<1>9. CASE ReceiveError
  BY <1>9 DEF ReceiveError
<1>10. CASE Timeout
  BY <1>10 DEF Timeout
<1>11. ASSUME NEW c \in Closers, CallClose(c) PROVE IInv'
  BY <1>11 DEF CallClose
<1>12. ASSUME NEW c \in Closers, RunOnce(c) PROVE IInv'
  BY <1>12 DEF RunOnce
<1>13. ASSUME NEW c \in Closers, SkipOnce(c) PROVE IInv'
  BY <1>13 DEF SkipOnce
<1>14. ASSUME NEW c \in Closers, AskLock(c) PROVE IInv'
  BY <1>14 DEF AskLock
<1>15. ASSUME NEW c \in Closers, GetLock(c) PROVE IInv'
  BY <1>15 DEF GetLock
<1>16. ASSUME NEW c \in Closers, StopWatchers(c) PROVE IInv'
  BY <1>16 DEF StopWatchers
<1>17. ASSUME NEW c \in Closers, CloseSDK(c) PROVE IInv'
  BY <1>17 DEF CloseSDK
<1>18. ASSUME NEW c \in Closers, ClearSource(c) PROVE IInv'
  BY <1>18 DEF ClearSource
<1>19. ASSUME NEW c \in Closers, Unlock(c) PROVE IInv'
  BY <1>19 DEF Unlock
<1>20. ASSUME NEW c \in Closers, FinishOnce(c) PROVE IInv'
  BY <1>20 DEF FinishOnce
<1>21. ASSUME NEW c \in Closers, ReturnClose(c) PROVE IInv'
  BY <1>21 DEF ReturnClose
<1>22. ASSUME NEW r \in Readers, RLock(r) PROVE IInv'
  BY <1>22 DEF RLock
<1>23. ASSUME NEW r \in Readers, ReadSource(r) PROVE IInv'
  BY <1>23 DEF ReadSource
<1>24. ASSUME NEW r \in Readers, RUnlock(r) PROVE IInv'
  BY <1>24 DEF RUnlock
<1>25. CASE UNCHANGED vars
  BY <1>25 DEF vars
<1> QED
  BY <1>1, <1>2, <1>3, <1>4, <1>5, <1>6, <1>7, <1>8, <1>9, <1>10, <1>11,
     <1>12, <1>13, <1>14, <1>15, <1>16, <1>17, <1>18, <1>19, <1>20,
     <1>21, <1>22, <1>23, <1>24, <1>25 DEF Next, CreatorStep,
     CloserStep, ReaderStep

\* The inductive invariant holds in every reachable state.
THEOREM InvCorrect == Spec => []IInv
<1>1. Init => IInv
  BY ZenonT(30) DEF Init, IInv, TypeOK, BirthInv, OnceInv, StageInv, LockInv, ToldInv,
         HandoutIsOpen, ErrorAborts, Wanting, Holding, Opening, Running, RLocked
<1>2. TypeOK /\ TypeOK' /\ IInv /\ [Next]_vars => IInv'
  BY InvStep
<1> QED
  BY <1>1, <1>2, TypeCorrect, PTL DEF Spec

\* Every returned Close was told the SDK's one error, after the source was
\* released (source.go:173-193), for any number of concurrent callers.
THEOREM CloseAgreed == Spec => []CloseAgreement
<1>1. IInv => CloseAgreement
  BY DEF IInv, OnceInv, StageInv, ToldInv, CloseAgreement
<1> QED
  BY <1>1, InvCorrect, PTL

\* X509Source hands out only handles of an open SDK source (source.go:166-170).
THEOREM HandoutSafe == Spec => []HandoutIsOpen
<1>1. IInv => HandoutIsOpen
  BY DEF IInv
<1> QED
  BY <1>1, InvCorrect, PTL

\* An error return of NewIdentitySource has cancelled the build (source.go:146, 155).
THEOREM ErrorAborted == Spec => []ErrorAborts
<1>1. IInv => ErrorAborts
  BY DEF IInv
<1> QED
  BY <1>1, InvCorrect, PTL

-----------------------------------------------------------------------------

\* The source that is open, and who is to close it.
OpenInv ==
  /\ builder \in {"off", "building", "refused"} \/ ch = "err" => sdk = "none"
  /\ creator = "failed" /\ ~expired => builder \in {"off", "sent"} /\ sdk = "none"
  /\ creator = "ok" /\ sdk = "open" => source

\* Every step keeps it.
LEMMA OpenStep == ASSUME IInv, OpenInv, [Next]_vars PROVE OpenInv'
<1> USE DEF IInv, TypeOK, BirthInv, StageInv, OpenInv, newVars, closeVars, Move
<1>1. CASE NilContext \/ StartBuild \/ BuildOk \/ BuildErr
  BY <1>1 DEF NilContext, StartBuild, BuildOk, BuildErr
<1>2. CASE Send \/ TimerFires \/ CancelParent \/ CreatorStep
  BY <1>2 DEF Send, TimerFires, CancelParent, CreatorStep, ReceiveSource, ReceiveError, Timeout
<1>3. ASSUME NEW c \in Closers, CallClose(c) \/ CloserStep(c) PROVE OpenInv'
  <2>1. CASE CloseSDK(c)
    <3>1. cpc[c] = "stopped" /\ source /\ sdk = "open" /\ sdk' = "closed"
      BY <2>1 DEF CloseSDK, Opening
    <3>2. UNCHANGED <<builder, ch, creator, expired>> /\ creator = "ok"
      BY <2>1, <3>1 DEF CloseSDK
    <3>3. builder = "sent" /\ ch # "err"
      BY <3>1, <3>2
    <3> QED
      BY <3>1, <3>2, <3>3
  <2>2. CASE ClearSource(c)
    <3>1. sdk = "closed" /\ sdk' = sdk
      BY <2>2 DEF ClearSource
    <3>2. UNCHANGED <<builder, ch, creator, expired>>
      BY <2>2 DEF ClearSource
    <3> QED
      BY <3>1, <3>2
  <2>3. CASE CallClose(c) \/ RunOnce(c) \/ SkipOnce(c) \/ AskLock(c) \/ GetLock(c) \/
             StopWatchers(c) \/ Unlock(c) \/ FinishOnce(c) \/ ReturnClose(c)
    <3>1. UNCHANGED <<builder, ch, creator, expired, sdk, source>>
      BY <2>3 DEF CallClose, RunOnce, SkipOnce, AskLock, GetLock, StopWatchers, Unlock,
         FinishOnce, ReturnClose
    <3> QED
      BY <3>1
  <2> QED
    BY <1>3, <2>1, <2>2, <2>3 DEF CloserStep
<1>4. ASSUME NEW r \in Readers, RLock(r) \/ ReaderStep(r) PROVE OpenInv'
  BY <1>4 DEF RLock, ReaderStep, ReadSource, RUnlock
<1>5. CASE UNCHANGED vars
  BY <1>5 DEF vars
<1> QED
  BY <1>1, <1>2, <1>3, <1>4, <1>5 DEF Next

\* NoOrphan fails in one way only (source.go:154): an open SDK source belongs to a
\* usable IdentitySource or to a creation under way, unless the creation failed
\* after its timer had expired. No error of the SDK and no nil context leaves one.
OwnedOrLate ==
  sdk = "open" => source \/ creator = "select" \/ (creator = "failed" /\ expired)

\* Every open SDK source is owned, or came too late.
THEOREM OnlyLateSourcesOrphaned == Spec => []OwnedOrLate
<1>1. Init => OpenInv
  BY DEF Init, OpenInv
<1>2. IInv /\ OpenInv /\ [Next]_vars => OpenInv'
  BY OpenStep
<1>3. IInv /\ OpenInv => OwnedOrLate
  BY DEF IInv, TypeOK, BirthInv, OpenInv, OwnedOrLate
<1> QED
  BY <1>1, <1>2, <1>3, InvCorrect, PTL DEF Spec

\* What Close cached stays (source.go:173-176): once a close has finished, no
\* further call of Close or X509Source changes the error or reopens the source.
THEOREM CloseIsFinal ==
  Spec => [][once = "done" => closeErr' = closeErr /\ sdk' = sdk /\ ~source']_vars
<1>1. IInv /\ [Next]_vars => (once = "done" => closeErr' = closeErr /\ sdk' = sdk /\ ~source')
  <2> SUFFICES ASSUME IInv, [Next]_vars, once = "done"
               PROVE  closeErr' = closeErr /\ sdk' = sdk /\ ~source'
    OBVIOUS
  <2>1. creator = "ok" /\ builder = "sent" /\ ~source
    BY DEF IInv, BirthInv, StageInv
  <2> USE DEF newVars, closeVars, Move
  <2>2. CASE NilContext \/ StartBuild \/ BuildOk \/ BuildErr \/ Send \/ TimerFires \/
             CancelParent \/ CreatorStep
    BY <2>1, <2>2 DEF NilContext, StartBuild, BuildOk, BuildErr, Send, TimerFires, CancelParent,
       CreatorStep, ReceiveSource, ReceiveError, Timeout
  <2>3. ASSUME NEW c \in Closers, CallClose(c) \/ CloserStep(c)
        PROVE  closeErr' = closeErr /\ sdk' = sdk /\ ~source'
    <3>1. cpc[c] \notin Running
      BY DEF IInv, OnceInv
    <3>2. ~CloseSDK(c) /\ ~ClearSource(c)
      BY <3>1 DEF CloseSDK, ClearSource, Running, Opening
    <3> QED
      <4>1. CASE CallClose(c)
        BY <2>1, <4>1 DEF CallClose
      <4>2. CASE RunOnce(c) \/ SkipOnce(c)
        BY <2>1, <4>2 DEF RunOnce, SkipOnce
      <4>3. CASE AskLock(c) \/ GetLock(c) \/ StopWatchers(c)
        BY <2>1, <4>3 DEF AskLock, GetLock, StopWatchers
      <4>4. CASE Unlock(c) \/ FinishOnce(c) \/ ReturnClose(c)
        BY <2>1, <4>4 DEF Unlock, FinishOnce, ReturnClose
      <4> QED
        BY <2>3, <3>2, <4>1, <4>2, <4>3, <4>4 DEF CloserStep
  <2>4. ASSUME NEW r \in Readers, RLock(r) \/ ReaderStep(r)
        PROVE  closeErr' = closeErr /\ sdk' = sdk /\ ~source'
    BY <2>1, <2>4 DEF RLock, ReaderStep, ReadSource, RUnlock
  <2>5. CASE UNCHANGED vars
    BY <2>1, <2>5 DEF vars
  <2> QED
    BY <2>2, <2>3, <2>4, <2>5 DEF Next
<1> QED
  BY <1>1, InvCorrect, PTL DEF Spec

-----------------------------------------------------------------------------

\* A step of the code is a step of the contract or leaves it unchanged.
LEMMA ContractStep ==
  ASSUME TypeOK, IInv, [Next]_vars PROVE [Contract!Next]_(Contract!vars)
<1> USE DEF TypeOK, IInv, BirthInv, Opening, Running, newVars, closeVars, readVars,
           Move, Contract!vars
<1>1. CASE NilContext
  BY <1>1 DEF NilContext, Contract!Next, Contract!Create
<1>2. CASE StartBuild
  BY <1>2 DEF StartBuild
<1>3. CASE BuildOk
  BY <1>3 DEF BuildOk
<1>4. CASE BuildErr
  BY <1>4 DEF BuildErr
<1>5. CASE Send
  BY <1>5 DEF Send
<1>6. CASE TimerFires
  BY <1>6 DEF TimerFires
<1>7. CASE CancelParent
  BY <1>7 DEF CancelParent
<1>8. CASE ReceiveSource
  BY <1>8 DEF ReceiveSource, Contract!Next, Contract!Create
<1>9. CASE ReceiveError
  BY <1>9 DEF ReceiveError, Contract!Next, Contract!Create
<1>10. CASE Timeout
  BY <1>10 DEF Timeout, Contract!Next, Contract!Create
<1>11. ASSUME NEW c \in Closers, CallClose(c) PROVE [Contract!Next]_(Contract!vars)
  BY <1>11 DEF CallClose
<1>12. ASSUME NEW c \in Closers, RunOnce(c) PROVE [Contract!Next]_(Contract!vars)
  BY <1>12 DEF RunOnce
<1>13. ASSUME NEW c \in Closers, SkipOnce(c) PROVE [Contract!Next]_(Contract!vars)
  BY <1>13 DEF SkipOnce
<1>14. ASSUME NEW c \in Closers, AskLock(c) PROVE [Contract!Next]_(Contract!vars)
  BY <1>14 DEF AskLock
<1>15. ASSUME NEW c \in Closers, GetLock(c) PROVE [Contract!Next]_(Contract!vars)
  BY <1>15 DEF GetLock
<1>16. ASSUME NEW c \in Closers, StopWatchers(c) PROVE [Contract!Next]_(Contract!vars)
  BY <1>16 DEF StopWatchers
<1>17. ASSUME NEW c \in Closers, CloseSDK(c) PROVE [Contract!Next]_(Contract!vars)
  BY <1>17 DEF CloseSDK, StageInv
<1>18. ASSUME NEW c \in Closers, ClearSource(c) PROVE [Contract!Next]_(Contract!vars)
  BY <1>18 DEF ClearSource, StageInv, Contract!Next, Contract!Release
<1>19. ASSUME NEW c \in Closers, Unlock(c) PROVE [Contract!Next]_(Contract!vars)
  BY <1>19 DEF Unlock
<1>20. ASSUME NEW c \in Closers, FinishOnce(c) PROVE [Contract!Next]_(Contract!vars)
  BY <1>20 DEF FinishOnce
<1>21. ASSUME NEW c \in Closers, ReturnClose(c) PROVE [Contract!Next]_(Contract!vars)
  BY <1>21 DEF ReturnClose, OnceInv, StageInv, ToldInv, Contract!Next, Contract!Tell
<1>22. ASSUME NEW r \in Readers, RLock(r) PROVE [Contract!Next]_(Contract!vars)
  BY <1>22 DEF RLock
<1>23. ASSUME NEW r \in Readers, ReadSource(r) PROVE [Contract!Next]_(Contract!vars)
  BY <1>23 DEF ReadSource, Contract!Next, Contract!See
<1>24. ASSUME NEW r \in Readers, RUnlock(r) PROVE [Contract!Next]_(Contract!vars)
  BY <1>24 DEF RUnlock
<1>25. CASE UNCHANGED vars
  BY <1>25 DEF vars
<1> QED
  BY <1>1, <1>2, <1>3, <1>4, <1>5, <1>6, <1>7, <1>8, <1>9, <1>10, <1>11,
     <1>12, <1>13, <1>14, <1>15, <1>16, <1>17, <1>18, <1>19, <1>20,
     <1>21, <1>22, <1>23, <1>24, <1>25 DEF Next, CreatorStep,
     CloserStep, ReaderStep

\* IdentitySource implements SourceContract: one atomic close, one verdict told to
\* every caller after it, a live handle before it and nil after it.
THEOREM Refinement == Spec => ImplementsContract
<1>1. Init => Contract!Init
  BY DEF Init, Contract!Init
<1>2. TypeOK /\ IInv /\ [Next]_vars => [Contract!Next]_(Contract!vars)
  BY ContractStep
<1> QED
  BY <1>1, <1>2, TypeCorrect, InvCorrect, PTL DEF Spec, ImplementsContract, Contract!Spec
-----------------------------------------------------------------------------
(***************************************************************************)
(* Progress. WF_vars(A) obliges A when ENABLED <<A>>_vars holds, which the *)
(* provers do not compute. GuardsEnable states it for each fair action: an *)
(* action whose guard holds can be taken. Each line reads the definition   *)
(* of its action and says nothing of which states are reached; that the    *)
(* guards do hold in time is what is proved. TLC checks GuardsEnable as an *)
(* invariant of this module with the constants of any cfg.                 *)
(***************************************************************************)

CloserGuard(c) == \/ cpc[c] = "once" /\ once # "running"
                  \/ cpc[c] = "drain" /\ \A r \in Readers : ~RLocked(r)
                  \/ cpc[c] \in {"lock", "locked", "stopped", "released",
                                 "cleared", "unlocked", "return"}

CloserEnabled(c) == CloserGuard(c) => ENABLED <<CloserStep(c)>>_vars
ReaderEnabled(r) == RLocked(r) => ENABLED <<ReaderStep(r)>>_vars

GuardsEnable ==
  /\ creator = "start" => ENABLED <<NilContext \/ StartBuild>>_vars
  /\ creator = "select" /\ ~expired => ENABLED <<TimerFires>>_vars
  /\ creator = "select" /\ expired => ENABLED <<CreatorStep>>_vars
  /\ builder = "building" /\ BuildCtxDone =>
       ENABLED <<BuildCtxDone /\ (BuildOk \/ BuildErr)>>_vars
  /\ builder \in {"built", "refused"} /\ ch = "empty" => ENABLED <<Send>>_vars
  /\ \A c \in Closers : CloserEnabled(c)
  /\ \A r \in Readers : ReaderEnabled(r)

\* What a process is owed, out of the conjunctions.
LEMMA Owed ==
  /\ FairSpec => \A c \in Closers : CloserRuns(c)
  /\ FairSpec => \A r \in Readers : ReaderRuns(r)
  /\ GuardsEnable => \A c \in Closers : CloserEnabled(c)
  /\ GuardsEnable => \A r \in Readers : ReaderEnabled(r)
  BY PTL DEF FairSpec, Fairness, GuardsEnable

\* Which steps move the program counters and flags that progress is about.
LEMMA Moves ==
  ASSUME TypeOK, [Next]_vars
  PROVE  /\ creator' = creator \/ NilContext \/ StartBuild \/ CreatorStep
         /\ builder' = builder \/ StartBuild \/ BuildOk \/ BuildErr \/ Send
         /\ expired => expired'
         /\ cancelled => cancelled'
         /\ once = "done" => once' = "done"
         /\ \A c \in Closers : cpc'[c] = cpc[c] \/ CallClose(c) \/ CloserStep(c)
         /\ \A r \in Readers : rpc'[r] = rpc[r] \/ RLock(r) \/ ReaderStep(r)
         /\ WriterWaits => \A r \in Readers : ~RLocked(r) => ~RLocked(r)'
<1> USE DEF TypeOK, Next, NilContext, StartBuild, BuildOk, BuildErr, Send, TimerFires,
     CancelParent, CreatorStep, ReceiveSource, ReceiveError, Timeout, CallClose, CloserStep,
     RunOnce, SkipOnce, AskLock, GetLock, StopWatchers, CloseSDK, ClearSource, Unlock,
     FinishOnce, ReturnClose, RLock, ReaderStep, ReadSource, RUnlock, Move, RLocked,
     newVars, closeVars, readVars, vars
<1>1. creator' = creator \/ NilContext \/ StartBuild \/ CreatorStep
  OBVIOUS
<1>2. builder' = builder \/ StartBuild \/ BuildOk \/ BuildErr \/ Send
  OBVIOUS
<1>3. (expired => expired') /\ (cancelled => cancelled')
  OBVIOUS
<1>4. once = "done" => once' = "done"
  OBVIOUS
<1>5. ASSUME NEW c \in Closers PROVE cpc'[c] = cpc[c] \/ CallClose(c) \/ CloserStep(c)
  OBVIOUS
<1>6. ASSUME NEW r \in Readers PROVE rpc'[r] = rpc[r] \/ RLock(r) \/ ReaderStep(r)
  OBVIOUS
<1>7. ASSUME WriterWaits, NEW r \in Readers, ~RLocked(r) PROVE ~RLocked(r)'
  BY <1>7
<1> HIDE DEF NilContext, StartBuild, CreatorStep, BuildOk, BuildErr, Send, CallClose,
     CloserStep, RLock, ReaderStep, RLocked
<1> QED
  BY <1>1, <1>2, <1>3, <1>4, <1>5, <1>6, <1>7

\* NewIdentitySource answers even if the agent never does (source.go:102-103).
THEOREM CreationAnswers == FairSpec /\ []GuardsEnable => CreationReturns
<1> USE DEF NilContext, StartBuild, CreatorStep, ReceiveSource, ReceiveError, Timeout
<1>1. TypeOK /\ creator = "start" /\ [Next]_vars =>
        (creator = "start")' \/ (creator = "select")' \/ (creator \in {"ok", "failed"})'
  BY Moves
<1>2. creator = "start" /\ <<NilContext \/ StartBuild>>_vars =>
        (creator = "select")' \/ (creator \in {"ok", "failed"})'
  OBVIOUS
<1>3. TypeOK /\ creator = "select" /\ [Next]_vars =>
        (creator = "select")' \/ (creator \in {"ok", "failed"})'
  BY Moves
<1>4. creator = "select" /\ <<TimerFires>>_vars => expired'
  BY DEF TimerFires
<1>5. TypeOK /\ expired /\ [Next]_vars => expired'
  BY Moves
<1>6. creator = "select" /\ <<CreatorStep>>_vars => (creator \in {"ok", "failed"})'
  OBVIOUS
<1> HIDE DEF NilContext, StartBuild, CreatorStep
<1> QED
  BY <1>1, <1>2, <1>3, <1>4, <1>5, <1>6, TypeCorrect, PTL
     DEF FairSpec, Spec, Fairness, GuardsEnable, CreationReturns

\* After an error return the builder's goroutine ends: its context is cancelled,
\* and the channel has room for its result, which nobody receives (source.go:133).
THEOREM BuilderEnds == FairSpec /\ []GuardsEnable => BuilderExits
<1> DEFINE Building == creator = "failed" /\ builder = "building"
           Holds    == creator = "failed" /\ builder \in {"built", "refused"}
           Gone     == builder \in {"off", "sent"}
<1> USE DEF NilContext, StartBuild, CreatorStep, ReceiveSource, ReceiveError, Timeout,
            BuildOk, BuildErr, Send
<1>1. IInv /\ creator = "failed" => Building \/ Holds \/ Gone
  BY DEF IInv, TypeOK
<1>2. IInv /\ Building => builder = "building" /\ BuildCtxDone
  BY DEF IInv, ErrorAborts, BuildCtxDone
<1>3. IInv /\ Building /\ [Next]_vars => Building' \/ Holds'
  BY Moves DEF IInv
<1>4. Building /\ <<BuildCtxDone /\ (BuildOk \/ BuildErr)>>_vars => Holds'
  OBVIOUS
<1>5. IInv /\ Holds => builder \in {"built", "refused"} /\ ch = "empty"
  BY DEF IInv, TypeOK, BirthInv
<1>6. IInv /\ Holds /\ [Next]_vars => Holds' \/ Gone'
  BY Moves DEF IInv
<1>7. Holds /\ <<Send>>_vars => Gone'
  OBVIOUS
<1> HIDE DEF Building, Holds, Gone, BuildOk, BuildErr, Send
<1>8. FairSpec /\ []GuardsEnable => (creator = "failed" ~> Gone)
  BY <1>1, <1>2, <1>3, <1>4, <1>5, <1>6, <1>7, InvCorrect, PTL
     DEF FairSpec, Spec, Fairness, GuardsEnable
<1> QED
  BY <1>8 DEF BuilderExits, Gone

-----------------------------------------------------------------------------
(* Close waits for the readers inside its lock. That any finite number of   *)
(* them has left after a while is an induction over their set, beyond the   *)
(* provers: it is a hypothesis here, proved for one reader, which is how    *)
(* e5s.go uses the source (newSPIRESource takes the handle once).           *)

NoReader == \A r \in Readers : ~RLocked(r)
ReadersLeave == WriterWaits ~> NoReader

\* A call of X509Source returns (source.go:166-170).
THEOREM ReadReturns ==
  FairSpec /\ []GuardsEnable => \A r \in Readers : rpc[r] # "idle" ~> rpc[r] = "idle"
<1> SUFFICES ASSUME NEW r \in Readers
             PROVE  FairSpec /\ []GuardsEnable => (rpc[r] # "idle" ~> rpc[r] = "idle")
  OBVIOUS
<1> DEFINE Locked == rpc[r] = "locked"
           Read   == rpc[r] = "read"
           Idle   == rpc[r] = "idle"
<1> USE DEF ReaderStep, ReadSource, RUnlock, RLock
<1>1. IInv /\ rpc[r] # "idle" => Locked \/ Read
  BY DEF IInv, TypeOK
<1>2. IInv /\ Locked /\ [Next]_vars => Locked' \/ Read'
  BY Moves DEF IInv, TypeOK
<1>3. IInv /\ Locked /\ <<ReaderStep(r)>>_vars => Read'
  BY DEF IInv, TypeOK
<1>4. IInv /\ Read /\ [Next]_vars => Read' \/ Idle'
  BY Moves DEF IInv, TypeOK
<1>5. IInv /\ Read /\ <<ReaderStep(r)>>_vars => Idle'
  BY DEF IInv, TypeOK
<1>6. Locked \/ Read => RLocked(r)
  BY DEF RLocked
<1>7. FairSpec => ReaderRuns(r)
  BY Owed
<1>8. GuardsEnable => ReaderEnabled(r)
  BY Owed
<1> HIDE DEF Locked, Read, Idle, ReaderStep
<1>9. FairSpec /\ []GuardsEnable => (rpc[r] # "idle" ~> Idle)
  BY <1>1, <1>2, <1>3, <1>4, <1>5, <1>6, <1>7, <1>8, InvCorrect, PTL
     DEF FairSpec, Spec, ReaderRuns, ReaderEnabled
<1> QED
  BY <1>9 DEF Idle

\* Whoever is inside closeOnce.Do comes out of it.
LEMMA RunnerEnds ==
  ASSUME NEW c \in Closers
  PROVE  FairSpec /\ []GuardsEnable /\ ReadersLeave =>
           [](cpc[c] \in Running => <>(once = "done"))
<1> DEFINE Lock     == cpc[c] = "lock"
           Drain    == cpc[c] = "drain"
           Locked   == cpc[c] = "locked"
           Stopped  == cpc[c] = "stopped"
           Released == cpc[c] = "released"
           Cleared  == cpc[c] = "cleared"
           Unlocked == cpc[c] = "unlocked"
           Done     == once = "done"
           Step     == <<CloserStep(c)>>_vars
<1> USE DEF CloserStep, CallClose, RunOnce, SkipOnce, AskLock, GetLock, StopWatchers, CloseSDK,
     ClearSource, Unlock, FinishOnce, ReturnClose, Move, IInv, TypeOK
<1>1. cpc[c] \in Running =>
        Lock \/ Drain \/ Locked \/ Stopped \/ Released \/ Cleared \/ Unlocked
  BY DEF Running, Opening
<1>2. IInv /\ Lock /\ [Next]_vars => Lock' \/ Drain'
  BY Moves
<1>3. IInv /\ Lock /\ Step => Drain'
  OBVIOUS
<1>4. IInv /\ Drain /\ [Next]_vars => Drain' \/ Locked'
  BY Moves
<1>5. Drain => WriterWaits
  BY DEF WriterWaits, Wanting
<1>6. IInv /\ Drain /\ NoReader /\ [Next]_vars => NoReader'
  BY <1>5, Moves DEF NoReader
<1>7. IInv /\ Drain /\ Step => Locked'
  OBVIOUS
<1>8. IInv /\ Locked /\ [Next]_vars => Locked' \/ Stopped'
  BY Moves
<1>9. IInv /\ Locked /\ Step => Stopped'
  OBVIOUS
<1>10. IInv /\ Stopped /\ [Next]_vars => Stopped' \/ Released'
  BY Moves
<1>11. IInv /\ Stopped /\ Step => Released'
  OBVIOUS
<1>12. IInv /\ Released /\ [Next]_vars => Released' \/ Cleared'
  BY Moves
<1>13. IInv /\ Released /\ Step => Cleared'
  OBVIOUS
<1>14. IInv /\ Cleared /\ [Next]_vars => Cleared' \/ Unlocked'
  BY Moves
<1>15. IInv /\ Cleared /\ Step => Unlocked'
  OBVIOUS
<1>16. IInv /\ Unlocked /\ [Next]_vars => Unlocked' \/ Done'
  BY Moves
<1>17. IInv /\ Unlocked /\ Step => Done'
  OBVIOUS
<1>18. Lock \/ (Drain /\ NoReader) \/ Locked \/ Stopped \/ Released \/ Cleared \/ Unlocked
         => CloserGuard(c)
  BY DEF CloserGuard, NoReader
<1>19. FairSpec => CloserRuns(c)
  BY Owed
<1>20. GuardsEnable => CloserEnabled(c)
  BY Owed
<1> HIDE DEF Lock, Drain, Locked, Stopped, Released, Cleared, Unlocked, Done,
     CloserStep, CallClose, RunOnce, SkipOnce, AskLock, GetLock, StopWatchers, CloseSDK,
     ClearSource, Unlock, FinishOnce, ReturnClose, Move, IInv, TypeOK
<1> QED
  BY <1>1, <1>2, <1>3, <1>4, <1>5, <1>6, <1>7, <1>8, <1>9, <1>10, <1>11, <1>12, <1>13,
     <1>14, <1>15, <1>16, <1>17, <1>18, <1>19, <1>20, InvCorrect, PTL
     DEF FairSpec, Spec, CloserRuns, CloserEnabled, ReadersLeave, Done

\* So closeOnce, once taken, is done, whoever has taken it.
LEMMA OnceEnds == FairSpec /\ []GuardsEnable /\ ReadersLeave =>
                    [](once = "running" => <>(once = "done"))
<1>1. FairSpec /\ []GuardsEnable /\ ReadersLeave =>
        \A c \in Closers : [](cpc[c] \in Running => <>(once = "done"))
  BY RunnerEnds
<1>2. (\A c \in Closers : [](cpc[c] \in Running => <>(once = "done"))) =>
        [](\A c \in Closers : cpc[c] \in Running => <>(once = "done"))
  OBVIOUS
<1>3. (\A c \in Closers : cpc[c] \in Running => <>(once = "done")) =>
        ((\E c \in Closers : cpc[c] \in Running) => <>(once = "done"))
  OBVIOUS
<1>4. IInv /\ once = "running" => \E c \in Closers : cpc[c] \in Running
  BY DEF IInv, StageInv
<1> QED
  BY <1>1, <1>2, <1>3, <1>4, InvCorrect, PTL DEF FairSpec

\* Where a closer that has called goes next, whoever takes the step.
LEMMA CloserMoves ==
  ASSUME TypeOK, [Next]_vars, NEW c \in Closers
  PROVE  /\ cpc[c] = "once" => cpc'[c] \in {"once", "lock", "return"}
         /\ cpc[c] \in Running => cpc'[c] \in Running \union {"return"}
         /\ cpc[c] = "return" => cpc'[c] \in {"return", "done"}
<1> USE DEF Running, Opening
<1>1. CASE cpc'[c] = cpc[c]
  BY <1>1
<1>2. CASE CallClose(c) \/ RunOnce(c) \/ SkipOnce(c)
  BY <1>2 DEF CallClose, RunOnce, SkipOnce, Move, TypeOK
<1>3. CASE AskLock(c) \/ GetLock(c) \/ StopWatchers(c) \/ CloseSDK(c)
  BY <1>3 DEF AskLock, GetLock, StopWatchers, CloseSDK, Move, TypeOK
<1>4. CASE ClearSource(c) \/ Unlock(c) \/ FinishOnce(c) \/ ReturnClose(c)
  BY <1>4 DEF ClearSource, Unlock, FinishOnce, ReturnClose, Move, TypeOK
<1> QED
  BY Moves, <1>1, <1>2, <1>3, <1>4 DEF CloserStep

\* Every call of Close returns, for any number of callers at once
\* (source.go:173-193), if the readers it waits for leave.
THEOREM CloserReturns == FairSpec /\ []GuardsEnable /\ ReadersLeave => CloseReturns
<1> SUFFICES ASSUME NEW c \in Closers
             PROVE  FairSpec /\ []GuardsEnable /\ ReadersLeave =>
                      (cpc[c] = "once" ~> cpc[c] = "done")
  BY DEF CloseReturns
<1> DEFINE Waits    == cpc[c] = "once"
           Inside   == cpc[c] \in Running
           Leaves   == cpc[c] = "return"
           Returned == cpc[c] = "done"
           New      == once = "new"
           Taken    == once = "running"
           Over     == once = "done"
           Step     == <<CloserStep(c)>>_vars
<1> USE DEF CloserStep, CallClose, RunOnce, SkipOnce, AskLock, GetLock, StopWatchers, CloseSDK,
     ClearSource, Unlock, FinishOnce, ReturnClose, Move, IInv, TypeOK
<1>1. IInv => New \/ Taken \/ Over
  OBVIOUS
<1>2. IInv /\ Waits /\ [Next]_vars => Waits' \/ Inside' \/ Leaves'
  BY CloserMoves DEF Running, Opening
<1>3. IInv /\ Waits /\ New /\ Step => Taken'
  OBVIOUS
<1>4. IInv /\ Inside => Taken /\ ~Over
  BY DEF OnceInv, Running, Opening
<1>5. IInv /\ Inside /\ [Next]_vars => Inside' \/ Leaves'
  BY CloserMoves
<1>6. FairSpec /\ []GuardsEnable /\ ReadersLeave => [](Taken => <>Over)
  BY OnceEnds
<1>7. IInv /\ Over /\ [Next]_vars => Over'
  BY Moves
<1>8. IInv /\ Leaves => Over
  BY DEF OnceInv
<1>9. IInv /\ Waits /\ Over /\ Step => Leaves'
  OBVIOUS
<1>10. IInv /\ Leaves /\ [Next]_vars => Leaves' \/ Returned'
  BY CloserMoves
<1>11. IInv /\ Leaves /\ Step => Returned'
  OBVIOUS
<1>12. (Waits /\ New) \/ (Waits /\ Over) \/ Leaves => CloserGuard(c)
  BY DEF CloserGuard
<1>13. FairSpec => CloserRuns(c)
  BY Owed
<1>14. GuardsEnable => CloserEnabled(c)
  BY Owed
<1> HIDE DEF Waits, Inside, Leaves, Returned, New, Taken, Over,
     CloserStep, CallClose, RunOnce, SkipOnce, AskLock, GetLock, StopWatchers, CloseSDK,
     ClearSource, Unlock, FinishOnce, ReturnClose, Move, IInv, TypeOK
<1>15. FairSpec /\ []GuardsEnable /\ ReadersLeave => (Waits ~> Returned)
  BY <1>1, <1>2, <1>3, <1>4, <1>5, <1>6, <1>7, <1>8, <1>9, <1>10, <1>11, <1>12, <1>13,
     <1>14, InvCorrect, PTL DEF FairSpec, Spec, CloserRuns, CloserEnabled
<1> QED
  BY <1>15 DEF Waits, Returned

\* With one reader, as e5s.go has it, nothing is assumed of readers.
THEOREM OneReaderCloses ==
  ASSUME NEW r, Readers = {r}
  PROVE  FairSpec /\ []GuardsEnable => CloseReturns
<1>1. FairSpec /\ []GuardsEnable => (rpc[r] # "idle" ~> rpc[r] = "idle")
  BY ReadReturns
<1>2. rpc[r] = "idle" \/ rpc[r] # "idle"
  OBVIOUS
<1>3. rpc[r] = "idle" => NoReader
  BY DEF RLocked, NoReader
<1>4. FairSpec /\ []GuardsEnable => ReadersLeave
  BY <1>1, <1>2, <1>3, PTL DEF ReadersLeave
<1> QED
  BY <1>4, CloserReturns
=============================================================================
