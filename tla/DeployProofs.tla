----------------------------- MODULE DeployProofs -----------------------------
(***************************************************************************)
(* Proofs about Deploy, for any testers, any number of pods and any world. *)
(* That a test which passed judged a pod of its own time rests on the one  *)
(* slot of the pod's name: a tester that waits created its pod into an     *)
(* empty slot, so any pod that has the name from then on is younger than   *)
(* its command.                                                            *)
(***************************************************************************)
EXTENDS Deploy, FiniteSetTheorems, TLAPS

\* Pods are numbered in the order of their creation.
Numbered == pod # NoPod => pod.id <= made

\* No pod from before a tester's command is left once the tester waits.
Younger == \A t \in Testers :
    pc[t] \in {"wait", "logs"} /\ pod # NoPod => pod.id > since[t]

IInv == TypeOK /\ Numbered /\ Younger /\ PassIsFresh

-----------------------------------------------------------------------------

\* The initial state satisfies the inductive invariant.
LEMMA InitIInv == Init => IInv
<1> SUFFICES ASSUME Init PROVE IInv
  OBVIOUS
<1>1. TypeOK
  <2>1. made \in 0 .. MaxPods /\ greeted \subseteq 1 .. made
    BY PodsAssumption DEF Init
  <2>2. since \in [Testers -> 0 .. made] /\ read \in [Testers -> 0 .. made]
    BY DEF Init
  <2> QED BY <2>1, <2>2 DEF Init, TypeOK, EmptyWithout, Releases
<1>2. Numbered /\ Younger /\ PassIsFresh
  BY DEF Init, Numbered, Younger, PassIsFresh
<1> QED BY <1>1, <1>2 DEF IInv

\* The pod there is has a number that was given.
LEMMA PodTyped ==
  ASSUME TypeOK, Numbered, pod # NoPod
  PROVE  pod \in Pod /\ pod.id \in 1 .. made
<1>1. pod \in Pod
  BY DEF TypeOK
<1>2. pod.id \in 1 .. MaxPods
  BY <1>1 DEF Pod
<1> QED BY <1>1, <1>2, PodsAssumption DEF Numbered, TypeOK

\* Every command that puts something into a cluster needs one, and the cluster
\* takes everything with it.
LEMMA EmptyStep == ASSUME TypeOK, [Next]_vars PROVE EmptyWithout'
<1> USE DEF EmptyWithout, Releases, clusterVars, podVars, testVars
<1>1. /\ EmptyWithout /\ cluster \in BOOLEAN
      /\ rel \in [Releases -> {"none", "pending", "deployed", "failed"}]
  BY DEF TypeOK
<1>2. ASSUME NEW r \in Releases, Remove(r) \/ HelmEnds(r) PROVE EmptyWithout'
  BY <1>1, <1>2 DEF Remove, HelmEnds
<1>3. CASE Shell
  <2>1. CASE ClusterCreate
    BY <2>1 DEF ClusterCreate
  <2>2. CASE ClusterDelete
    BY <2>2 DEF ClusterDelete, Prompt
  <2>3. CASE SpireInstall \/ AddRepo \/ InstallSpireFails \/ Interrupt
    <3>1. shell' \in {"idle", "adding", "locating"} /\ UNCHANGED <<cluster, rel, config, pod>>
      BY <2>3 DEF SpireInstall, AddRepo, InstallSpireFails, Interrupt
    <3> QED BY <1>1, <3>1
  <2>4. ASSUME SpireUpgrade \/ AppInstall \/ ConfigByHand \/ \E d \in TrustDomains : InstallSpire(d)
        PROVE  EmptyWithout'
    <3>1. cluster /\ cluster' = cluster
      BY <2>4 DEF SpireUpgrade, AppInstall, ConfigByHand, InstallSpire, NameFree
    <3> QED BY <3>1
  <2>5. CASE SpireUninstall \/ AppUninstall \/ \E r \in Releases : HelmEnds(r)
    BY <1>2, <2>5 DEF SpireUninstall, AppUninstall
  <2> QED BY <1>3, <2>1, <2>2, <2>3, <2>4, <2>5 DEF Shell
<1>4. CASE PodStep
  BY <1>1, <1>4 DEF PodStep, PodStarts, PodGreets, PodEnds, PodGoes, PodExits
<1>5. ASSUME NEW t \in Testers, TestStep(t) PROVE EmptyWithout'
  BY <1>1, <1>5 DEF TestStep, CheckServer, DeleteOld, DeletePod, CreatePod, CreateFails,
     SeePod, ReadLogs, CleanPod, CleanMap
<1>6. ASSUME NEW t \in Testers,
             deployTestRun(t) \/ deployTestVerify(t) \/ TimeUp(t) \/ GetFails(t)
      PROVE  EmptyWithout'
  BY <1>1, <1>6 DEF deployTestRun, deployTestVerify, Begin, TimeUp, GetFails
<1>7. CASE UNCHANGED vars
  BY <1>1, <1>7 DEF vars
<1> QED BY <1>3, <1>4, <1>5, <1>6, <1>7 DEF Next

\* Every step keeps the type of every variable.
LEMMA TypeStep == ASSUME TypeOK, Numbered, [Next]_vars PROVE TypeOK'
<1>0. EmptyWithout'
  BY EmptyStep
<1> USE <1>0, PodsAssumption
    DEF TypeOK, Numbered, NoPod, Pod, Releases, clusterVars, podVars, testVars
<1>1. CASE ClusterCreate
  BY <1>1 DEF ClusterCreate
<1>2. CASE ClusterDelete
  BY <1>2 DEF ClusterDelete
<1>3. CASE SpireInstall
  BY <1>3 DEF SpireInstall
<1>4. CASE AddRepo
  BY <1>4 DEF AddRepo
<1>5. CASE InstallSpireFails
  BY <1>5 DEF InstallSpireFails
<1>6. CASE SpireUpgrade
  BY <1>6 DEF SpireUpgrade
<1>7. CASE SpireUninstall
  BY <1>7 DEF SpireUninstall, Remove
<1>8. CASE AppInstall
  BY <1>8 DEF AppInstall
<1>9. CASE AppUninstall
  BY <1>9 DEF AppUninstall, Remove
<1>10. CASE Interrupt
  BY <1>10 DEF Interrupt
<1>11. CASE ConfigByHand
  BY <1>11 DEF ConfigByHand
<1>12. ASSUME NEW d \in TrustDomains, InstallSpire(d) PROVE TypeOK'
  BY <1>12 DEF InstallSpire
<1>13. ASSUME NEW r \in Releases, HelmEnds(r) PROVE TypeOK'
  BY <1>13 DEF HelmEnds
<1>14. CASE PodStarts
  BY <1>14 DEF PodStarts
<1>15. CASE PodGreets
  <2>1. greeted' \subseteq 1 .. made
    BY <1>15, PodTyped DEF PodGreets
  <2> QED BY <1>15, <2>1 DEF PodGreets
<1>16. CASE PodEnds
  BY <1>16 DEF PodEnds
<1>17. CASE PodGoes
  BY <1>17 DEF PodGoes, Ending
<1>18. ASSUME NEW ok \in BOOLEAN, PodExits(ok) PROVE TypeOK'
  BY <1>18 DEF PodExits
<1>19. ASSUME NEW t \in Testers, CheckServer(t) PROVE TypeOK'
  BY <1>19 DEF CheckServer, Goto, Return
<1>20. ASSUME NEW t \in Testers, DeleteOld(t) PROVE TypeOK'
  BY <1>20 DEF DeleteOld, DeletePod, Goto
<1>21. ASSUME NEW t \in Testers, CreatePod(t) PROVE TypeOK'
  BY <1>21 DEF CreatePod, Goto
<1>22. ASSUME NEW t \in Testers, CreateFails(t) PROVE TypeOK'
  BY <1>22 DEF CreateFails, Goto, Return
<1>23. ASSUME NEW t \in Testers, SeePod(t) PROVE TypeOK'
  BY <1>23 DEF SeePod, Goto, Return, Over
<1>24. ASSUME NEW t \in Testers, ReadLogs(t) PROVE TypeOK'
  <2>1. read' \in [Testers -> 0 .. made] /\ since' \in [Testers -> 0 .. made]
    BY <1>24, PodTyped DEF ReadLogs, Return
  <2> QED BY <1>24, <2>1 DEF ReadLogs, Goto, Return
<1>25. ASSUME NEW t \in Testers, CleanPod(t) PROVE TypeOK'
  BY <1>25 DEF CleanPod, DeletePod, Goto
<1>26. ASSUME NEW t \in Testers, CleanMap(t) PROVE TypeOK'
  BY <1>26, ZenonT(30) DEF CleanMap, Goto
<1>27. ASSUME NEW t \in Testers, deployTestRun(t) \/ deployTestVerify(t) PROVE TypeOK'
  <2>1. PICK first \in {"check", "delete"} : Begin(t, first)
    BY <1>27 DEF deployTestRun, deployTestVerify
  <2>2. made \in 0 .. made
    OBVIOUS
  <2>3. since' \in [Testers -> 0 .. made] /\ read' \in [Testers -> 0 .. made]
    BY <2>1, <2>2 DEF Begin
  <2> QED BY <2>1, <2>3 DEF Begin
<1>28. ASSUME NEW t \in Testers, TimeUp(t) \/ GetFails(t) PROVE TypeOK'
  <2>1. Return(t, "wait", "failed") /\ UNCHANGED <<clusterVars, repo, podVars, shell>>
    BY <1>28 DEF TimeUp, GetFails
  <2> QED BY <2>1 DEF Goto, Return
<1>29. CASE UNCHANGED vars
  BY <1>29 DEF vars
<1>30. CASE Shell
  BY <1>1, <1>2, <1>3, <1>4, <1>5, <1>6, <1>7, <1>8, <1>9, <1>10, <1>11, <1>12, <1>13, <1>30 DEF Shell
<1>31. CASE PodStep
  BY <1>14, <1>15, <1>16, <1>17, <1>18, <1>31 DEF PodStep
<1>32. ASSUME NEW t \in Testers, TestStep(t) PROVE TypeOK'
  BY <1>19, <1>20, <1>21, <1>22, <1>23, <1>24, <1>25, <1>26, <1>32 DEF TestStep
<1> QED BY <1>27, <1>28, <1>29, <1>30, <1>31, <1>32 DEF Next

\* Every step keeps the order of the pods, the testers' distance from older
\* ones, and the freshness of a verdict.
LEMMA FreshStep ==
  ASSUME IInv, [Next]_vars PROVE Numbered' /\ Younger' /\ PassIsFresh'
<1> USE PodsAssumption
    DEF IInv, TypeOK, Numbered, Younger, PassIsFresh, NoPod, Pod,
        clusterVars, podVars, testVars
<1>1. CASE ClusterCreate
  BY <1>1 DEF ClusterCreate
<1>2. CASE ClusterDelete
  BY <1>2 DEF ClusterDelete
<1>3. CASE SpireInstall
  BY <1>3 DEF SpireInstall
<1>4. CASE AddRepo
  BY <1>4 DEF AddRepo
<1>5. CASE InstallSpireFails
  BY <1>5 DEF InstallSpireFails
<1>6. CASE SpireUpgrade
  BY <1>6 DEF SpireUpgrade
<1>7. CASE SpireUninstall
  BY <1>7 DEF SpireUninstall, Remove
<1>8. CASE AppInstall
  BY <1>8 DEF AppInstall
<1>9. CASE AppUninstall
  BY <1>9 DEF AppUninstall, Remove
<1>10. CASE Interrupt
  BY <1>10 DEF Interrupt
<1>11. CASE ConfigByHand
  BY <1>11 DEF ConfigByHand
<1>12. ASSUME NEW d \in TrustDomains, InstallSpire(d) PROVE Numbered' /\ Younger' /\ PassIsFresh'
  BY <1>12 DEF InstallSpire
<1>13. ASSUME NEW r \in Releases, HelmEnds(r) PROVE Numbered' /\ Younger' /\ PassIsFresh'
  BY <1>13 DEF HelmEnds
<1>14. CASE PodStarts
  BY <1>14 DEF PodStarts
<1>15. CASE PodGreets
  BY <1>15 DEF PodGreets
<1>16. CASE PodEnds
  BY <1>16 DEF PodEnds
<1>17. CASE PodGoes
  BY <1>17 DEF PodGoes, Ending
<1>18. ASSUME NEW ok \in BOOLEAN, PodExits(ok) PROVE Numbered' /\ Younger' /\ PassIsFresh'
  BY <1>18 DEF PodExits
<1>19. ASSUME NEW t \in Testers, CheckServer(t) PROVE Numbered' /\ Younger' /\ PassIsFresh'
  BY <1>19 DEF CheckServer, Goto, Return
<1>20. ASSUME NEW t \in Testers, DeleteOld(t) PROVE Numbered' /\ Younger' /\ PassIsFresh'
  BY <1>20 DEF DeleteOld, DeletePod, Goto
<1>21. ASSUME NEW t \in Testers, CreatePod(t) PROVE Numbered' /\ Younger' /\ PassIsFresh'
  BY <1>21 DEF CreatePod, Goto
<1>22. ASSUME NEW t \in Testers, CreateFails(t) PROVE Numbered' /\ Younger' /\ PassIsFresh'
  BY <1>22 DEF CreateFails, Goto, Return
<1>23. ASSUME NEW t \in Testers, SeePod(t) PROVE Numbered' /\ Younger' /\ PassIsFresh'
  BY <1>23 DEF SeePod, Goto, Return, Over
<1>24. ASSUME NEW t \in Testers, ReadLogs(t) PROVE Numbered' /\ Younger' /\ PassIsFresh'
  BY <1>24 DEF ReadLogs, Goto, Return
<1>25. ASSUME NEW t \in Testers, CleanPod(t) PROVE Numbered' /\ Younger' /\ PassIsFresh'
  BY <1>25 DEF CleanPod, DeletePod, Goto
<1>26. ASSUME NEW t \in Testers, CleanMap(t) PROVE Numbered' /\ Younger' /\ PassIsFresh'
  BY <1>26 DEF CleanMap, Goto
<1>27. ASSUME NEW t \in Testers, deployTestRun(t) \/ deployTestVerify(t) PROVE Numbered' /\ Younger' /\ PassIsFresh'
  BY <1>27 DEF deployTestRun, deployTestVerify, Begin
<1>28. ASSUME NEW t \in Testers, TimeUp(t) \/ GetFails(t) PROVE Numbered' /\ Younger' /\ PassIsFresh'
  BY <1>28 DEF TimeUp, GetFails, Goto, Return
<1>29. CASE UNCHANGED vars
  BY <1>29 DEF vars
<1>30. CASE Shell
  BY <1>1, <1>2, <1>3, <1>4, <1>5, <1>6, <1>7, <1>8, <1>9, <1>10, <1>11, <1>12, <1>13, <1>30 DEF Shell
<1>31. CASE PodStep
  BY <1>14, <1>15, <1>16, <1>17, <1>18, <1>31 DEF PodStep
<1>32. ASSUME NEW t \in Testers, TestStep(t) PROVE Numbered' /\ Younger' /\ PassIsFresh'
  BY <1>19, <1>20, <1>21, <1>22, <1>23, <1>24, <1>25, <1>26, <1>32 DEF TestStep
<1> QED BY <1>27, <1>28, <1>29, <1>30, <1>31, <1>32 DEF Next

\* The inductive invariant holds in every reachable state.
THEOREM InvCorrect == Spec => []IInv
<1>1. IInv /\ [Next]_vars => IInv'
  BY TypeStep, FreshStep DEF IInv
<1> QED BY InitIInv, <1>1, PTL DEF Spec

\* Every variable of the deployment keeps its type, and without a cluster there is
\* no release, no pod and no ConfigMap.
THEOREM TypeCorrect == Spec => []TypeOK
<1>1. IInv => TypeOK BY DEF IInv
<1> QED BY InvCorrect, <1>1, PTL

\* A test that passes saw the greeting in the log of a pod created since its
\* command began: the dropped error of the deletion cannot make it judge an
\* older pod, however many testers share the name.
THEOREM VerdictFresh == Spec => []PassIsFresh
<1>1. IInv => PassIsFresh BY DEF IInv
<1> QED BY InvCorrect, <1>1, PTL

\* Only an install into a free name changes the trust domain of SPIRE.
THEOREM TrustDomainKept == Spec => TrustDomainStable
<1>1. [Next]_vars => (rel["spire"] # "none" /\ rel'["spire"] # "none" => td' = td)
  <2> SUFFICES ASSUME [Next]_vars, rel["spire"] # "none" PROVE td' = td
    OBVIOUS
  <2> USE DEF clusterVars, podVars, testVars
  <2>1. ASSUME NEW d \in TrustDomains PROVE ~InstallSpire(d)
    BY DEF InstallSpire, NameFree
  <2>2. CASE Shell
    BY <2>1, <2>2 DEF Shell, ClusterCreate, ClusterDelete, SpireInstall, AddRepo,
       InstallSpireFails, SpireUpgrade, SpireUninstall, AppInstall, AppUninstall,
       Interrupt, ConfigByHand, HelmEnds, Remove
  <2>3. CASE PodStep
    BY <2>3 DEF PodStep, PodStarts, PodGreets, PodEnds, PodGoes, PodExits
  <2>4. ASSUME NEW t \in Testers, TestStep(t) PROVE td' = td
    BY <2>4 DEF TestStep, CheckServer, DeleteOld, CreatePod, CreateFails, SeePod,
       ReadLogs, CleanPod, CleanMap
  <2>5. ASSUME NEW t \in Testers,
               deployTestRun(t) \/ deployTestVerify(t) \/ TimeUp(t) \/ GetFails(t)
        PROVE  td' = td
    BY <2>5 DEF deployTestRun, deployTestVerify, Begin, TimeUp, GetFails
  <2>6. CASE UNCHANGED vars BY <2>6 DEF vars
  <2> QED BY <2>2, <2>3, <2>4, <2>5, <2>6 DEF Next
<1> QED BY <1>1, PTL DEF Spec, TrustDomainStable

-----------------------------------------------------------------------------
(* The ConfigMap that no command creates *)

\* What every pod and every test has without it. A pod that waits for its volumes
\* neither runs nor greets, so that no log can satisfy a test.
NoneServed == /\ ~config /\ greeted = {}
              /\ pod # NoPod => pod.phase = "Pending"
              /\ \A t \in Testers : pc[t] # "logs" /\ out[t] # "passed"

\* Every step keeps it, if nobody creates the ConfigMap by hand.
LEMMA NoneServedStep ==
  ASSUME "byhand" \notin World, TypeOK, NoneServed, [Next]_vars PROVE NoneServed'
<1> USE DEF TypeOK, NoneServed, NoPod, clusterVars, podVars, testVars
<1>1. CASE Shell
  <2>1. config' = FALSE /\ pod' \in {pod, NoPod} /\ UNCHANGED <<greeted, pc, out>>
    BY <1>1 DEF Shell, ClusterCreate, ClusterDelete, SpireInstall, AddRepo, InstallSpireFails,
       SpireUpgrade, SpireUninstall, AppInstall, AppUninstall, Interrupt, ConfigByHand, HelmEnds,
       Remove, InstallSpire
  <2> QED
    BY <2>1
<1>2. CASE PodStep
  <2>1. ~PodStarts /\ ~PodGreets /\ ~PodEnds /\ \A ok \in BOOLEAN : ~PodExits(ok)
    BY DEF PodStarts, Startable, PodGreets, PodEnds, PodExits
  <2>2. PodGoes
    BY <1>2, <2>1 DEF PodStep
  <2> QED
    BY <2>2 DEF PodGoes
<1>3. ASSUME NEW t \in Testers, deployTestRun(t) \/ deployTestVerify(t) PROVE NoneServed'
  BY <1>3 DEF deployTestRun, deployTestVerify, Begin
<1>4. ASSUME NEW t \in Testers, TestStep(t) \/ TimeUp(t) \/ GetFails(t) PROVE NoneServed'
  <2>1. ~ReadLogs(t) /\ ~(Over /\ pod.ok)
    BY DEF ReadLogs, Goto, Return, Over
  <2>2. pod' \in {pod, NoPod} \/ pod'.phase = "Pending"
    BY <1>4, <2>1 DEF TestStep, CheckServer, DeleteOld, DeletePod, CreatePod, CreateFails, SeePod,
       CleanPod, CleanMap, TimeUp, GetFails, Pod
  <2>3. config' = FALSE /\ greeted' = greeted
    BY <1>4, <2>1 DEF TestStep, CheckServer, DeleteOld, CreatePod, CreateFails, SeePod,
       CleanPod, CleanMap, TimeUp, GetFails
  <2>4. \A u \in Testers : pc'[u] # "logs"
    BY <1>4, <2>1 DEF TestStep, CheckServer, DeleteOld, CreatePod, CreateFails, SeePod,
       CleanPod, CleanMap, TimeUp, GetFails, Goto, Return
  <2>5. \A u \in Testers : out'[u] # "passed"
    BY <1>4, <2>1 DEF TestStep, CheckServer, DeleteOld, CreatePod, CreateFails, SeePod,
       CleanPod, CleanMap, TimeUp, GetFails, Goto, Return
  <2> QED
    BY <2>2, <2>3, <2>4, <2>5
<1>5. CASE UNCHANGED vars
  BY <1>5 DEF vars
<1> QED
  BY <1>1, <1>2, <1>3, <1>4, <1>5 DEF Next

\* WorkflowPasses fails in every case, not in some (deploy.go:954): whatever is
\* installed, however slow or faulty the cluster is and however often the tests are
\* repeated, no test passes unless somebody creates the ConfigMap by hand.
THEOREM NoTestPasses ==
  ASSUME "byhand" \notin World PROVE Spec => [](\A t \in Testers : out[t] # "passed")
<1>1. Init => NoneServed
  BY DEF Init, NoneServed
<1>2. TypeOK /\ NoneServed /\ [Next]_vars => NoneServed'
  BY NoneServedStep
<1>3. NoneServed => \A t \in Testers : out[t] # "passed"
  BY DEF NoneServed
<1> QED
  BY <1>1, <1>2, <1>3, TypeCorrect, PTL DEF Spec

-----------------------------------------------------------------------------
(* Room for the pods: the bound on pods never keeps a test from creating its  *)
(* own, so what the runs and the theorem below say of tests does not come of  *)
(* the bound.                                                                 *)

Creating == {t \in Testers : pc[t] \in {"check", "delete", "create"}}

\* Each test that has still to create its pod has one of the pods left for it.
Room == IsFiniteSet(Busy) /\ made + Cardinality(Creating) <= MaxPods

\* What any step does to the tests and to the number of pods.
LEMMA TestMoves ==
  ASSUME TypeOK, [Next]_vars
  PROVE  \/ pc' = pc /\ made' = made
         \/ \E t \in Testers :
              \/ deployTestRun(t) \/ deployTestVerify(t)
              \/ TestStep(t) \/ TimeUp(t) \/ GetFails(t)
<1>1. CASE Shell \/ PodStep \/ UNCHANGED vars
  BY <1>1 DEF Shell, ClusterCreate, ClusterDelete, SpireInstall, AddRepo, InstallSpireFails,
     SpireUpgrade, SpireUninstall, AppInstall, AppUninstall, Interrupt, ConfigByHand, HelmEnds,
     Remove, InstallSpire, PodStep, PodStarts, PodGreets, PodEnds, PodGoes, PodExits,
     clusterVars, podVars, testVars, vars
<1> QED
  BY <1>1 DEF Next

\* Where the commands of a test lead.
LEMMA Leads ==
  ASSUME TypeOK, NEW t \in Testers
  PROVE  /\ deployTestRun(t) \/ deployTestVerify(t) =>
              /\ pc[t] = "idle" /\ made' = made
              /\ made + Cardinality(Busy) < MaxPods
              /\ pc' = [pc EXCEPT ![t] = pc'[t]] /\ pc'[t] \in {"check", "delete"}
         /\ TestStep(t) \/ TimeUp(t) \/ GetFails(t) =>
              /\ pc' = [pc EXCEPT ![t] = pc'[t]]
              /\ \/ pc[t] = "check"    /\ pc'[t] \in {"delete", "idle"} /\ made' = made
                 \/ pc[t] = "delete"   /\ pc'[t] = "create" /\ made' = made
                 \/ pc[t] = "create"   /\ pc'[t] = "wait" /\ made' = made + 1
                 \/ pc[t] = "create"   /\ pc'[t] = "idle" /\ made' = made
                 \/ pc[t] = "wait"     /\ pc'[t] \in {"logs", "idle"} /\ made' = made
                 \/ pc[t] = "logs"     /\ pc'[t] \in {"cleanPod", "idle"} /\ made' = made
                 \/ pc[t] = "cleanPod" /\ pc'[t] \in {"cleanMap", "idle"} /\ made' = made
                 \/ pc[t] = "cleanMap" /\ pc'[t] = "idle" /\ made' = made
  BY DEF TypeOK, deployTestRun, deployTestVerify, Begin, TestStep, CheckServer, DeleteOld,
     CreatePod, CreateFails, SeePod, ReadLogs, CleanPod, CleanMap, TimeUp, GetFails, Goto,
     Return, podVars

\* Every step keeps the room for the pods to come.
LEMMA RoomStep == ASSUME TypeOK, Room, [Next]_vars PROVE Room'
<1>0. /\ MaxPods \in Nat /\ made \in Nat /\ Creating \subseteq Busy
      /\ IsFiniteSet(Creating) /\ Cardinality(Creating) \in Nat
      /\ Cardinality(Creating) <= Cardinality(Busy) /\ Cardinality(Busy) \in Nat
  <2>1. Creating \subseteq Busy
    BY DEF Creating, Busy
  <2> QED
    BY <2>1, PodsAssumption, FS_Subset, FS_CardinalityType DEF Room, TypeOK
<1>1. CASE pc' = pc /\ made' = made
  BY <1>1 DEF Room, Busy, Creating
<1>2. ASSUME NEW t \in Testers, deployTestRun(t) \/ deployTestVerify(t) PROVE Room'
  <2>1. /\ pc[t] = "idle" /\ made' = made /\ made + Cardinality(Busy) < MaxPods
        /\ pc' = [pc EXCEPT ![t] = pc'[t]] /\ pc'[t] \in {"check", "delete"}
    BY <1>2, Leads
  <2>2. Busy' = Busy \union {t} /\ Creating' = Creating \union {t} /\ t \notin Creating
    BY <2>1 DEF Busy, Creating, TypeOK
  <2>3. IsFiniteSet(Busy') /\ Cardinality(Creating') = Cardinality(Creating) + 1
    BY <1>0, <2>2, FS_AddElement DEF Room
  <2> QED
    BY <1>0, <2>1, <2>3 DEF Room
<1>3. ASSUME NEW t \in Testers, TestStep(t) \/ TimeUp(t) \/ GetFails(t) PROVE Room'
  <2>1. /\ pc' = [pc EXCEPT ![t] = pc'[t]] /\ pc[t] # "idle"
        /\ pc[t] \notin {"check", "delete", "create"} =>
             pc'[t] \notin {"check", "delete", "create"}
    BY <1>3, Leads
  <2>2. Busy' \subseteq Busy /\ Creating' \subseteq Creating
    BY <2>1 DEF Busy, Creating, TypeOK
  <2>3. IsFiniteSet(Busy')
    BY <2>2, FS_Subset DEF Room
  <2>4. Cardinality(Creating') <= Cardinality(Creating) /\ Cardinality(Creating') \in Nat
    BY <1>0, <2>2, FS_Subset, FS_CardinalityType
  <2>5. CASE made' = made
    BY <1>0, <2>3, <2>4, <2>5 DEF Room
  <2>6. CASE pc[t] = "create" /\ pc'[t] = "wait" /\ made' = made + 1
    <3>1. t \in Creating /\ Creating' = Creating \ {t}
      BY <2>1, <2>6 DEF Creating, TypeOK
    <3>2. Cardinality(Creating') = Cardinality(Creating) - 1
      BY <1>0, <3>1, FS_RemoveElement
    <3> QED
      BY <1>0, <2>3, <2>6, <3>2 DEF Room
  <2> QED
    BY <1>3, <2>5, <2>6, Leads
<1> QED
  BY <1>1, <1>2, <1>3, TestMoves

MayCreate == \A t \in Testers : pc[t] = "create" => made < MaxPods

\* The bound on pods keeps no test from creating its own.
LEMMA RoomCorrect == Spec => []MayCreate
<1>1. Init => Room
  <2> SUFFICES ASSUME Init PROVE Room
    OBVIOUS
  <2>1. Busy = {} /\ Creating = {} /\ made = 0
    BY DEF Init, Busy, Creating
  <2> QED
    BY <2>1, FS_EmptySet, PodsAssumption DEF Room
<1>2. TypeOK /\ Room /\ [Next]_vars => Room'
  BY RoomStep
<1>3. TypeOK /\ Room => MayCreate
  <2> SUFFICES ASSUME TypeOK, Room, NEW t \in Testers, pc[t] = "create" PROVE made < MaxPods
    BY DEF MayCreate
  <2>1. t \in Creating /\ Creating \subseteq Busy
    BY DEF Creating, Busy
  <2>2. IsFiniteSet(Creating) /\ Cardinality(Creating) \in Nat /\ Cardinality(Creating) # 0
    BY <2>1, FS_Subset, FS_CardinalityType, FS_EmptySet DEF Room
  <2> QED
    BY <2>2, PodsAssumption DEF Room, TypeOK
<1> QED
  BY <1>1, <1>2, <1>3, TypeCorrect, PTL DEF Spec

-----------------------------------------------------------------------------
(***************************************************************************)
(* Progress. WF_vars(A) obliges A when ENABLED <<A>>_vars holds, which the *)
(* provers do not compute. GuardsEnable states it for each fair action: an *)
(* action whose guard holds can be taken. TLC checks GuardsEnable as an    *)
(* invariant of this module with the constants of any cfg.                 *)
(***************************************************************************)

\* Every command of a test can be answered, by a cluster that may be slow.
TestGuard(t) == \/ pc[t] \in {"check", "delete", "logs", "cleanPod", "cleanMap"}
                \/ pc[t] = "create" /\ Slow /\ made < MaxPods

TesterEnabled(t) == /\ TestGuard(t) => ENABLED <<TestStep(t)>>_vars
                    /\ pc[t] = "wait" /\ Slow => ENABLED <<TimeUp(t)>>_vars

GuardsEnable == \A t \in Testers : TesterEnabled(t)

\* What a tester is owed, out of the conjunction.
LEMMA Owed == FairSpec => \A t \in Testers : TesterRuns(t)
  BY PTL DEF FairSpec

\* Every test command returns, whatever the cluster, its pod and other testers do
\* (deploy.go:841-899, 975): the timer of the wait ends it.
THEOREM TestsReturn ==
  ASSUME Slow
  PROVE  FairSpec /\ []GuardsEnable => TestsEnd
<1> SUFFICES ASSUME NEW t \in Testers
             PROVE  FairSpec /\ []GuardsEnable => (pc[t] # "idle" ~> pc[t] = "idle")
  BY DEF TestsEnd
<1> DEFINE Check    == pc[t] = "check"
           Delete   == pc[t] = "delete"
           Create   == pc[t] = "create"
           Wait     == pc[t] = "wait"
           Logs     == pc[t] = "logs"
           CleanPd  == pc[t] = "cleanPod"
           CleanMp  == pc[t] = "cleanMap"
           Idle     == pc[t] = "idle"
           Step     == <<TestStep(t)>>_vars
<1>1. TypeOK /\ [Next]_vars => pc'[t] = pc[t] \/ Idle \/ TestStep(t) \/ TimeUp(t) \/ GetFails(t)
  <2>1. ASSUME TypeOK, NEW u \in Testers, u # t,
               \/ deployTestRun(u) \/ deployTestVerify(u)
               \/ TestStep(u) \/ TimeUp(u) \/ GetFails(u)
        PROVE  pc'[t] = pc[t]
    <3>1. pc' = [pc EXCEPT ![u] = pc'[u]]
      BY <2>1, Leads
    <3> QED
      BY <2>1, <3>1 DEF TypeOK
  <2>2. TypeOK /\ (deployTestRun(t) \/ deployTestVerify(t)) => Idle
    BY Leads
  <2> QED
    BY <2>1, <2>2, TestMoves
<1>2. TypeOK => Check \/ Delete \/ Create \/ Wait \/ Logs \/ CleanPd \/ CleanMp \/ Idle
  BY DEF TypeOK
<1>3. /\ TypeOK /\ Check   /\ [Next]_vars => Check' \/ Delete' \/ Idle'
      /\ TypeOK /\ Delete  /\ [Next]_vars => Delete' \/ Create'
      /\ TypeOK /\ Create  /\ [Next]_vars => Create' \/ Wait' \/ Idle'
      /\ TypeOK /\ Wait    /\ [Next]_vars => Wait' \/ Logs' \/ Idle'
      /\ TypeOK /\ Logs    /\ [Next]_vars => Logs' \/ CleanPd' \/ Idle'
      /\ TypeOK /\ CleanPd /\ [Next]_vars => CleanPd' \/ CleanMp' \/ Idle'
      /\ TypeOK /\ CleanMp /\ [Next]_vars => CleanMp' \/ Idle'
  BY <1>1, Leads
<1>4. /\ TypeOK /\ Check   /\ Step => Delete' \/ Idle'
      /\ TypeOK /\ Delete  /\ Step => Create'
      /\ TypeOK /\ Create  /\ Step => Wait' \/ Idle'
      /\ TypeOK /\ Wait    /\ <<TimeUp(t)>>_vars => Logs' \/ Idle'
      /\ TypeOK /\ Logs    /\ Step => CleanPd' \/ Idle'
      /\ TypeOK /\ CleanPd /\ Step => CleanMp' \/ Idle'
      /\ TypeOK /\ CleanMp /\ Step => Idle'
  BY Leads
<1>5. Check \/ Delete \/ (Create /\ MayCreate) \/ Logs \/ CleanPd \/ CleanMp => TestGuard(t)
  BY DEF TestGuard, MayCreate
<1>6. Wait => pc[t] = "wait" /\ Slow
  OBVIOUS
<1>7. FairSpec => TesterRuns(t)
  BY Owed
<1>8. GuardsEnable => TesterEnabled(t)
  BY DEF GuardsEnable
<1>9. pc[t] # "idle" <=> ~Idle
  OBVIOUS
<1> HIDE DEF Check, Delete, Create, Wait, Logs, CleanPd, CleanMp, Idle, TestGuard
<1>10. FairSpec /\ []GuardsEnable => (~Idle ~> Idle)
  BY <1>2, <1>3, <1>4, <1>5, <1>6, <1>7, <1>8, RoomCorrect, TypeCorrect, PTL
     DEF FairSpec, Spec, TesterRuns, TesterEnabled
<1> QED
  BY <1>9, <1>10, PTL DEF Idle
=============================================================================
