--------------------------- MODULE IdentitySource ---------------------------
(***************************************************************************)
(* spire/source.go: one IdentitySource from NewIdentitySource to Close.    *)
(*                                                                         *)
(* The creator starts a goroutine that builds the SDK's X509Source and     *)
(* waits for its result or for a timer. Once it has answered with a        *)
(* source, any number of goroutines may call Close (a sync.Once around a   *)
(* section guarded by mu) and X509Source (a read of s.source under mu).    *)
(* The SDK's NewX509Source and X509Source.Close, and Go's context, timer,  *)
(* Once and RWMutex are external: they do what the code here assumes.      *)
(***************************************************************************)

CONSTANTS Closers,   \* goroutines that may call Close
          Readers    \* goroutines that may call X509Source

VARIABLES
  ctx,         \* the caller's context: "nil", "live" or "cancelled"
  cancelled,   \* cancel() of buildCtx was called
  creator,     \* NewIdentitySource: "start", "select", "ok", "failed"
  builder,     \* the goroutine: "off", "building", "built", "refused", "sent"
  ch,          \* the channel of capacity 1: "empty", "ok", "err", "drained"
  expired,     \* time.After(timeout) has delivered
  sdk,         \* the SDK source: "none", "open", "closed"
  source,      \* s.source # nil
  once,        \* closeOnce: "new", "running", "done"
  closeErr,    \* s.closeErr: "nil" or "err"
  cpc,         \* where each closer is in Close
  told,        \* what Close returned to each closer
  rpc,         \* where each reader is in X509Source
  seen         \* what X509Source last read for each reader

newVars   == <<ctx, cancelled, creator, builder, ch, expired>>
closeVars == <<once, closeErr, cpc, told>>
readVars  == <<rpc, seen>>
vars      == <<newVars, sdk, source, closeVars, readVars>>

-----------------------------------------------------------------------------

\* buildCtx derives from ctx: either cancellation ends it.
BuildCtxDone == cancelled \/ ctx = "cancelled"

\* A closer that asked for mu keeps new readers out (RWMutex prefers writers).
Wanting == {"drain", "locked", "stopped", "released", "cleared"}
Holding == Wanting \ {"drain"}
WriterWaits == \E c \in Closers : cpc[c] \in Wanting
RLocked(r)  == rpc[r] \in {"locked", "read"}

Init == /\ ctx \in {"nil", "live", "cancelled"}
        /\ cancelled = FALSE
        /\ creator = "start"
        /\ builder = "off"
        /\ ch = "empty"
        /\ expired = FALSE
        /\ sdk = "none"
        /\ source = FALSE
        /\ once = "new"
        /\ closeErr = "nil"
        /\ cpc = [c \in Closers |-> "idle"]
        /\ told = [c \in Closers |-> "none"]
        /\ rpc = [r \in Readers |-> "idle"]
        /\ seen = [r \in Readers |-> "none"]

-----------------------------------------------------------------------------
(* NewIdentitySource *)

NilContext == /\ creator = "start" /\ ctx = "nil"
              /\ creator' = "failed"
              /\ UNCHANGED <<ctx, cancelled, builder, ch, expired, sdk, source,
                             closeVars, readVars>>

\* Derive buildCtx, make the channel, start the goroutine and the timer.
StartBuild == /\ creator = "start" /\ ctx # "nil"
              /\ creator' = "select"
              /\ builder' = "building"
              /\ UNCHANGED <<ctx, cancelled, ch, expired, sdk, source,
                             closeVars, readVars>>

\* NewX509Source returns an open source, or an error. The first update and a
\* cancellation can arrive together, so success is possible in either case.
BuildOk == /\ builder = "building"
           /\ builder' = "built"
           /\ sdk' = "open"
           /\ UNCHANGED <<ctx, cancelled, creator, ch, expired, source,
                          closeVars, readVars>>

BuildErr == /\ builder = "building"
            /\ builder' = "refused"
            /\ UNCHANGED <<ctx, cancelled, creator, ch, expired, sdk, source,
                           closeVars, readVars>>

\* Mutant: an unbuffered channel, whose send waits for a receiver in the select.
SendUnbuffered == /\ builder \in {"built", "refused"}
                  /\ creator = "select"
                  /\ builder' = "sent"
                  /\ ch' = IF builder = "built" THEN "ok" ELSE "err"
                  /\ UNCHANGED <<ctx, cancelled, creator, expired, sdk, source,
                                 closeVars, readVars>>

\* Mutant: the goroutine forwards its own state instead of a result.
SendRaw == /\ builder \in {"built", "refused"}
           /\ ch = "empty"
           /\ builder' = "sent"
           /\ ch' = builder
           /\ UNCHANGED <<ctx, cancelled, creator, expired, sdk, source,
                          closeVars, readVars>>

\* ch <- result{src, err}: room for one, so the goroutine never waits here.
Send == /\ builder \in {"built", "refused"}
        /\ ch = "empty"
        /\ builder' = "sent"
        /\ ch' = IF builder = "built" THEN "ok" ELSE "err"
        /\ UNCHANGED <<ctx, cancelled, creator, expired, sdk, source,
                       closeVars, readVars>>

\* Mutant: a zero timeout is not replaced by the default and never expires.
TimerNever == /\ FALSE
              /\ expired' = TRUE
              /\ UNCHANGED <<ctx, cancelled, creator, builder, ch, sdk, source,
                             closeVars, readVars>>

TimerFires == /\ creator = "select" /\ ~expired
              /\ expired' = TRUE
              /\ UNCHANGED <<ctx, cancelled, creator, builder, ch, sdk, source,
                             closeVars, readVars>>

\* The caller cancels the context it passed, at any time.
CancelParent == /\ ctx = "live"
                /\ ctx' = "cancelled"
                /\ UNCHANGED <<cancelled, creator, builder, ch, expired, sdk, source,
                               closeVars, readVars>>

ReceiveSource == /\ creator = "select" /\ ch = "ok"
                 /\ ch' = "drained"
                 /\ creator' = "ok"
                 /\ source' = TRUE
                 /\ UNCHANGED <<ctx, cancelled, builder, expired, sdk,
                                closeVars, readVars>>

ReceiveError == /\ creator = "select" /\ ch = "err"
                /\ ch' = "drained"
                /\ cancelled' = TRUE
                /\ creator' = "failed"
                /\ UNCHANGED <<ctx, builder, expired, sdk, source,
                               closeVars, readVars>>

\* Mutant: the timeout branch returns without cancel().
TimeoutNoCancel == /\ creator = "select" /\ expired
                   /\ creator' = "failed"
                   /\ UNCHANGED <<ctx, cancelled, builder, ch, expired, sdk, source,
                                  closeVars, readVars>>

\* The other branch of the select: also possible when a result is waiting.
Timeout == /\ creator = "select" /\ expired
           /\ cancelled' = TRUE
           /\ creator' = "failed"
           /\ UNCHANGED <<ctx, builder, ch, expired, sdk, source,
                          closeVars, readVars>>

-----------------------------------------------------------------------------
(* Close *)

Move(c, from, to) == cpc[c] = from /\ cpc' = [cpc EXCEPT ![c] = to]

CallClose(c) == /\ creator = "ok"
                /\ Move(c, "idle", "once")
                /\ UNCHANGED <<newVars, sdk, source, once, closeErr, told, readVars>>

\* closeOnce.Do: the first caller runs the function, the others wait for it.
RunOnce(c) == /\ once = "new"
              /\ once' = "running"
              /\ Move(c, "once", "lock")
              /\ UNCHANGED <<newVars, sdk, source, closeErr, told, readVars>>

\* Mutant: a flag instead of a sync.Once: late callers do not wait for the first.
SkipFlag(c) == /\ once # "new"
               /\ Move(c, "once", "return")
               /\ UNCHANGED <<newVars, sdk, source, once, closeErr, told, readVars>>

SkipOnce(c) == /\ once = "done"
               /\ Move(c, "once", "return")
               /\ UNCHANGED <<newVars, sdk, source, once, closeErr, told, readVars>>

\* s.mu.Lock() first announces the writer, then waits for the readers inside.
AskLock(c) == /\ Move(c, "lock", "drain")
              /\ UNCHANGED <<newVars, sdk, source, once, closeErr, told, readVars>>

GetLock(c) == /\ \A r \in Readers : ~RLocked(r)
              /\ Move(c, "drain", "locked")
              /\ UNCHANGED <<newVars, sdk, source, once, closeErr, told, readVars>>

StopWatchers(c) == /\ cancelled' = TRUE
                   /\ Move(c, "locked", "stopped")
                   /\ UNCHANGED <<ctx, creator, builder, ch, expired, sdk, source,
                                  once, closeErr, told, readVars>>

CloseSDK(c) == /\ sdk' = IF source THEN "closed" ELSE sdk
               /\ closeErr' \in IF source THEN {"nil", "err"} ELSE {closeErr}
               /\ Move(c, "stopped", "released")
               /\ UNCHANGED <<newVars, source, once, told, readVars>>

\* Mutant: "s.source = nil" is forgotten.
KeepSource(c) == /\ Move(c, "released", "cleared")
                 /\ UNCHANGED <<newVars, sdk, source, once, closeErr, told, readVars>>

ClearSource(c) == /\ source' = FALSE
                  /\ Move(c, "released", "cleared")
                  /\ UNCHANGED <<newVars, sdk, once, closeErr, told, readVars>>

Unlock(c) == /\ Move(c, "cleared", "unlocked")
             /\ UNCHANGED <<newVars, sdk, source, once, closeErr, told, readVars>>

FinishOnce(c) == /\ once' = "done"
                 /\ Move(c, "unlocked", "return")
                 /\ UNCHANGED <<newVars, sdk, source, closeErr, told, readVars>>

ReturnClose(c) == /\ Move(c, "return", "done")
                  /\ told' = [told EXCEPT ![c] = closeErr]
                  /\ UNCHANGED <<newVars, sdk, source, once, closeErr, readVars>>

-----------------------------------------------------------------------------
(* X509Source *)

\* Mutant: X509Source reads s.source without s.mu.
NoRLock(r) == /\ creator = "ok"
              /\ rpc[r] = "idle"
              /\ rpc' = [rpc EXCEPT ![r] = "locked"]
              /\ UNCHANGED <<newVars, sdk, source, closeVars, seen>>

RLock(r) == /\ creator = "ok"
            /\ rpc[r] = "idle"
            /\ ~WriterWaits
            /\ rpc' = [rpc EXCEPT ![r] = "locked"]
            /\ UNCHANGED <<newVars, sdk, source, closeVars, seen>>

ReadSource(r) == /\ rpc[r] = "locked"
                 /\ rpc' = [rpc EXCEPT ![r] = "read"]
                 /\ seen' = [seen EXCEPT ![r] = IF source THEN "handle" ELSE "nil"]
                 /\ UNCHANGED <<newVars, sdk, source, closeVars>>

\* Mutant: "defer s.mu.RUnlock()" is forgotten.
NoRUnlock(r) == /\ FALSE
                /\ rpc[r] = "read"
                /\ UNCHANGED vars

RUnlock(r) == /\ rpc[r] = "read"
              /\ rpc' = [rpc EXCEPT ![r] = "idle"]
              /\ UNCHANGED <<newVars, sdk, source, closeVars, seen>>

-----------------------------------------------------------------------------

CreatorStep == ReceiveSource \/ ReceiveError \/ Timeout

CloserStep(c) == \/ RunOnce(c) \/ SkipOnce(c) \/ AskLock(c) \/ GetLock(c)
                 \/ StopWatchers(c) \/ CloseSDK(c) \/ ClearSource(c)
                 \/ Unlock(c) \/ FinishOnce(c) \/ ReturnClose(c)

ReaderStep(r) == ReadSource(r) \/ RUnlock(r)

Next == \/ NilContext \/ StartBuild \/ BuildOk \/ BuildErr \/ Send
        \/ TimerFires \/ CancelParent \/ CreatorStep
        \/ \E c \in Closers : CallClose(c) \/ CloserStep(c)
        \/ \E r \in Readers : RLock(r) \/ ReaderStep(r)

CloserRuns(c) == WF_vars(CloserStep(c))
ReaderRuns(r) == WF_vars(ReaderStep(r))

\* The Go scheduler runs every runnable goroutine and timers expire. The agent
\* owes no answer: a build must end only after its context was cancelled, and
\* nobody has to call Close, X509Source or the parent's cancel.
Fairness == /\ WF_vars(NilContext \/ StartBuild)
            /\ WF_vars(CreatorStep)
            /\ WF_vars(TimerFires)
            /\ WF_vars(BuildCtxDone /\ (BuildOk \/ BuildErr))
            /\ WF_vars(Send)
            /\ \A c \in Closers : CloserRuns(c)
            /\ \A r \in Readers : ReaderRuns(r)

Spec     == Init /\ [][Next]_vars
FairSpec == Spec /\ Fairness

-----------------------------------------------------------------------------
(* Properties *)

TypeOK ==
  /\ ctx \in {"nil", "live", "cancelled"}
  /\ cancelled \in BOOLEAN
  /\ creator \in {"start", "select", "ok", "failed"}
  /\ builder \in {"off", "building", "built", "refused", "sent"}
  /\ ch \in {"empty", "ok", "err", "drained"}
  /\ expired \in BOOLEAN
  /\ sdk \in {"none", "open", "closed"}
  /\ source \in BOOLEAN
  /\ once \in {"new", "running", "done"}
  /\ closeErr \in {"nil", "err"}
  /\ cpc \in [Closers -> {"idle", "once", "lock", "drain", "locked", "stopped",
                          "released", "cleared", "unlocked", "return", "done"}]
  /\ told \in [Closers -> {"none", "nil", "err"}]
  /\ rpc \in [Readers -> {"idle", "locked", "read"}]
  /\ seen \in [Readers -> {"none", "handle", "nil"}]

\* Close (source.go:173-176): whoever's call has returned, first caller or not,
\* was told the one cached error of the SDK's Close, and by then the SDK source
\* is closed, its context cancelled and the pointer withdrawn.
CloseAgreement ==
  \A c \in Closers : cpc[c] = "done" =>
    /\ told[c] = closeErr
    /\ sdk = "closed"
    /\ cancelled
    /\ ~source

\* X509Source (source.go:160-170): a reader inside its read lock never holds a
\* handle of an SDK source that was already closed.
HandoutIsOpen ==
  \A r \in Readers : rpc[r] = "read" /\ seen[r] = "handle" => sdk = "open"

\* NewIdentitySource: an error return with a build under way leaves the build's
\* context cancelled, and no error return leaves a usable IdentitySource.
ErrorAborts ==
  creator = "failed" => /\ ~source
                        /\ builder # "off" => cancelled

\* NewIdentitySource returns even if the agent never answers (source.go:102-103).
CreationReturns == creator = "start" ~> creator \in {"ok", "failed"}

\* After an error return the builder goroutine ends: the cancelled context
\* unblocks the build and the buffered channel takes its late result.
BuilderExits == creator = "failed" ~> builder \in {"off", "sent"}

\* Every call of Close returns, whatever readers and other closers do.
CloseReturns == \A c \in Closers : cpc[c] = "once" ~> cpc[c] = "done"

\* After an error return no SDK source stays open: "cancel() // Stop trying to
\* build the source" (source.go:155).
NoOrphan == creator = "failed" ~> [](sdk # "open")

\* The detailed source implements the contract.
Contract == INSTANCE SourceContract WITH
  phase   <- CASE creator = "failed" -> "failed"
               [] creator = "ok"     -> IF source THEN "live" ELSE "closed"
               [] OTHER              -> "none",
  verdict <- IF creator = "ok" /\ ~source THEN closeErr ELSE "unset"

ImplementsContract == Contract!Spec
=============================================================================
