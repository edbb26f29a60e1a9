------------------------------- MODULE Deploy -------------------------------
(***************************************************************************)
(* The commands of `e5s deploy` (cmd/e5s/deploy.go) against a Kind         *)
(* cluster: one shell creates and deletes the cluster and installs,        *)
(* upgrades and removes the Helm releases of SPIRE and of the application; *)
(* testers run `deploy test run` and `deploy test verify`, each of which   *)
(* replaces the pod e5s-test-client and judges its log. Helm, Kind and the *)
(* cluster itself are external.                                            *)
(***************************************************************************)
EXTENDS Naturals, FiniteSets

CONSTANTS Testers,       \* shells that run tests
          TrustDomains,  \* values of spire install's --trust-domain
          ChartDomain,   \* the one in the chart's server configuration
          MaxPods,       \* bound on the pods ever created
          World          \* what may happen: a subset of the four words below

\* "faults": calls fail and commands are interrupted; "slow": the cluster may
\* outlast the tests' timers; "shells": commands run in several shells at once;
\* "byhand": somebody creates the test's ConfigMap, which no command does.
ASSUME WorldAssumption == World \subseteq {"faults", "slow", "shells", "byhand"}
ASSUME PodsAssumption == MaxPods \in Nat

VARIABLES cluster,  \* does the cluster exist?
          repo,     \* is the chart repository in Helm's repository file?
          rel,      \* Helm's record of each release
          td,       \* the trust domain SPIRE was installed with
          config,   \* does the ConfigMap e5s-test-client-config exist?
          pod,      \* the pod e5s-test-client
          made,     \* how many such pods were created
          greeted,  \* the pods whose log holds the server's greeting
          shell,    \* the command of the first shell
          pc, out,  \* of each tester: its next step, its last outcome
          since,    \* pods created before its command began
          read      \* the pod whose log it judged

clusterVars == <<cluster, rel, td, config>>
podVars  == <<pod, made, greeted>>
testVars == <<pc, out, since, read>>
vars == <<clusterVars, repo, podVars, shell, testVars>>

Faults == "faults" \in World
Slow   == "slow" \in World

NoPod == [id |-> 0]
Pod   == [id : 1 .. MaxPods, phase : {"Pending", "Running", "Exited", "Ended"},
          ok : BOOLEAN,        \* exit code 0
          ending : BOOLEAN]    \* deleted, in its grace period
Releases == {"spire", "app"}

Init == /\ cluster = FALSE /\ repo = FALSE /\ config = FALSE
        /\ rel = [r \in Releases |-> "none"]
        /\ td = ChartDomain
        /\ pod = NoPod /\ made = 0 /\ greeted = {}
        /\ shell = "idle"
        /\ pc = [t \in Testers |-> "idle"]
        /\ out = [t \in Testers |-> "none"]
        /\ since = [t \in Testers |-> 0]
        /\ read = [t \in Testers |-> 0]

Busy == {t \in Testers : pc[t] # "idle"}

\* The prompt of the first shell: with one shell, a test keeps it waiting.
Prompt == shell = "idle" /\ ("shells" \in World \/ Busy = {})

-----------------------------------------------------------------------------
(* Cluster and releases: one shell *)

ClusterCreate == /\ Prompt /\ ~cluster
                 /\ cluster' = TRUE
                 /\ UNCHANGED <<rel, td, config, repo, podVars, shell, testVars>>

ClusterDelete == /\ Prompt /\ cluster
                 /\ cluster' = FALSE /\ config' = FALSE
                 /\ rel' = [r \in Releases |-> "none"]
                 /\ pod' = NoPod
                 /\ UNCHANGED <<td, repo, made, greeted, shell, testVars>>

SpireInstall == /\ Prompt
                /\ shell' = "adding"
                /\ UNCHANGED <<clusterVars, repo, podVars, testVars>>

\* addHelmRepo needs no cluster, and what it wrote stays when a later step fails.
AddRepo == /\ shell = "adding"
           /\ \/ repo' = TRUE /\ shell' = "locating"
              \/ Faults /\ repo' = repo /\ shell' = "idle"
           /\ UNCHANGED <<clusterVars, podVars, testVars>>

\* A bug for the checks: an install over a release that failed replaces it.
NameFreeReplace(r) == cluster /\ rel[r] \in {"none", "failed"}

\* Helm refuses a release name that any record uses, a failed one too.
NameFree(r) == cluster /\ rel[r] = "none"

InstallSpire(d) == /\ shell = "locating" /\ repo /\ NameFree("spire")
                   /\ rel' = [rel EXCEPT !["spire"] = "pending"]
                   /\ td' = d
                   /\ shell' = "spire"
                   /\ UNCHANGED <<cluster, config, repo, podVars, testVars>>

InstallSpireFails == /\ shell = "locating"
                     /\ Faults \/ ~repo \/ ~NameFree("spire")
                     /\ shell' = "idle"
                     /\ UNCHANGED <<clusterVars, repo, podVars, testVars>>

AppInstall == /\ Prompt /\ NameFree("app")
              /\ rel' = [rel EXCEPT !["app"] = "pending"]
              /\ shell' = "app"
              /\ UNCHANGED <<cluster, td, config, repo, podVars, testVars>>

\* Without values Helm keeps those of the last revision; no repository is added.
SpireUpgrade == /\ Prompt /\ cluster /\ repo
                /\ rel["spire"] \in {"deployed", "failed"}
                /\ rel' = [rel EXCEPT !["spire"] = "pending"]
                /\ shell' = "spire"
                /\ UNCHANGED <<cluster, td, config, repo, podVars, testVars>>

\* Helm ends its wait. The server's pods need the CSI driver of SPIRE.
HelmEnds(r) == /\ shell = r /\ shell' = "idle"
               /\ \E st \in {"deployed", "failed"} :
                    /\ st = "failed" => \/ Faults
                                        \/ r = "app" /\ rel["spire"] # "deployed"
                    /\ rel' = [rel EXCEPT ![r] = st]
               /\ UNCHANGED <<cluster, td, config, repo, podVars, testVars>>

\* The process is killed; a release it was waiting for stays pending.
Interrupt == /\ Faults /\ shell # "idle"
             /\ shell' = "idle"
             /\ UNCHANGED <<clusterVars, repo, podVars, testVars>>

Remove(r) == /\ Prompt /\ cluster /\ rel[r] # "none"
             /\ rel' = [rel EXCEPT ![r] = "none"]
             /\ UNCHANGED <<cluster, td, config, repo, podVars, shell, testVars>>

\* A bug for the checks: uninstalling keeps Helm's record of the release.
AppUninstallKeepsHistory ==
    /\ Prompt /\ cluster /\ rel["app"] # "none"
    /\ rel' = [rel EXCEPT !["app"] = "uninstalled"]
    /\ UNCHANGED <<cluster, td, config, repo, podVars, shell, testVars>>

SpireUninstall == Remove("spire")
AppUninstall   == Remove("app")

ConfigByHand == /\ "byhand" \in World /\ cluster
                /\ config' = TRUE
                /\ UNCHANGED <<cluster, rel, td, repo, podVars, shell, testVars>>

-----------------------------------------------------------------------------
(* Tests: any number at a time, all with the one pod name *)

\* deploy test run looks the release up first, deploy test verify does not.
Begin(t, first) == /\ pc[t] = "idle"
                   /\ "shells" \in World \/ Prompt
                   /\ made + Cardinality(Busy) < MaxPods
                   /\ pc' = [pc EXCEPT ![t] = first]
                   /\ out' = [out EXCEPT ![t] = "none"]
                   /\ since' = [since EXCEPT ![t] = made]
                   /\ read' = [read EXCEPT ![t] = 0]
                   /\ UNCHANGED <<clusterVars, repo, podVars, shell>>

deployTestRun(t)    == Begin(t, "check")
deployTestVerify(t) == Begin(t, "delete")

Goto(t, from, to) == pc[t] = from /\ pc' = [pc EXCEPT ![t] = to]

Return(t, from, res) == /\ Goto(t, from, "idle")
                        /\ out' = [out EXCEPT ![t] = res]
                        /\ since' = [since EXCEPT ![t] = 0]
                        /\ UNCHANGED read

\* Whatever its status, a release that Helm knows is taken for the server.
CheckServer(t) == /\ \/ /\ cluster /\ rel["app"] # "none"
                        /\ Goto(t, "check", "delete")
                        /\ UNCHANGED <<out, since, read>>
                     \/ /\ Faults \/ ~cluster \/ rel["app"] = "none"
                        /\ Return(t, "check", "error")
                  /\ UNCHANGED <<clusterVars, repo, podVars, shell>>

Ending == pod # NoPod /\ pod.ending

\* A deletion whose error is dropped.
DeletePod == \/ pod # NoPod /\ pod' = [pod EXCEPT !.ending = TRUE]
             \/ (Faults \/ pod = NoPod) /\ pod' = pod

\* Without a configuration or a client for the cluster the command returns before
\* it (deploy.go:843-851): that is CreateFails here, after a deletion that failed.
DeleteOld(t) == /\ Goto(t, "delete", "create")
                /\ DeletePod
                /\ UNCHANGED <<clusterVars, repo, made, greeted, shell,
                               out, since, read>>

\* After two seconds of sleep, which a pod's end may outlast.
CreatePod(t) == /\ cluster /\ pod = NoPod /\ made < MaxPods
                /\ Goto(t, "create", "wait")
                /\ made' = made + 1
                /\ pod' = [id |-> made + 1, phase |-> "Pending",
                           ok |-> FALSE, ending |-> FALSE]
                /\ UNCHANGED <<clusterVars, repo, greeted, shell,
                               out, since, read>>

\* A bug for the checks: the error AlreadyExists is dropped, too.
CreateFailsOn(t) == /\ Faults \/ ~cluster \/ pod # NoPod
                    /\ Slow \/ ~Ending
                    /\ Goto(t, "create", IF pod # NoPod THEN "wait" ELSE "idle")
                    /\ UNCHANGED <<clusterVars, repo, podVars, shell,
                                   out, since, read>>

CreateFails(t) == /\ Faults \/ ~cluster \/ pod # NoPod
                  /\ Slow \/ ~Ending
                  /\ Return(t, "create", "error")
                  /\ UNCHANGED <<clusterVars, repo, podVars, shell>>

Over == pod # NoPod /\ pod.phase \in {"Exited", "Ended"}

\* A tick of waitForPodCompletion that ends the wait.
SeePod(t) == /\ \/ /\ Over /\ pod.ok
                   /\ Goto(t, "wait", "logs")
                   /\ UNCHANGED <<out, since, read>>
                \/ /\ pod = NoPod \/ (Over /\ ~pod.ok)
                   /\ Return(t, "wait", "failed")
             /\ UNCHANGED <<clusterVars, repo, podVars, shell>>

\* A tick whose call fails: any error ends the wait.
GetFails(t) == /\ Faults
               /\ Return(t, "wait", "failed")
               /\ UNCHANGED <<clusterVars, repo, podVars, shell>>

Startable == config /\ rel["spire"] # "none"
Stuck == pod # NoPod /\ pod.phase = "Pending" /\ ~Startable /\ ~Ending

\* A bug for the checks: the wait has no timeout.
TimeUpNever(t) == FALSE

\* The 60 seconds are over. A cluster that is not slow settles in less.
TimeUp(t) == /\ Slow \/ Stuck
             /\ Return(t, "wait", "failed")
             /\ UNCHANGED <<clusterVars, repo, podVars, shell>>

\* The log is that of whichever pod has the name by now.
ReadLogs(t) ==
    /\ \/ /\ pod # NoPod /\ pod.id \in greeted
          /\ \E cleanup \in BOOLEAN :   \* the flag --cleanup
               Goto(t, "logs", IF cleanup THEN "cleanPod" ELSE "idle")
          /\ read' = [read EXCEPT ![t] = pod.id]
          /\ out' = [out EXCEPT ![t] = "passed"]
          /\ UNCHANGED since
       \/ /\ Faults \/ pod = NoPod \/ pod.id \notin greeted
          /\ Return(t, "logs", "failed")
    /\ UNCHANGED <<clusterVars, repo, podVars, shell>>

\* cleanupTestResources: both errors are dropped, without a client both are skipped.
CleanPod(t) == /\ \/ Goto(t, "cleanPod", "cleanMap") /\ DeletePod
                  \/ Faults /\ Goto(t, "cleanPod", "idle") /\ pod' = pod
               /\ UNCHANGED <<clusterVars, repo, made, greeted, shell,
                              out, since, read>>

CleanMap(t) == /\ Goto(t, "cleanMap", "idle")
               /\ config' = FALSE \/ (Faults /\ config' = config)
               /\ UNCHANGED <<cluster, rel, td, repo, podVars, shell,
                              out, since, read>>

-----------------------------------------------------------------------------
(* The pod: the kubelet and the example client in it *)

Answers == rel["app"] # "none" /\ rel["spire"] # "none" /\ td = ChartDomain

\* The volumes of createTestClientPod: the CSI socket and the ConfigMap.
PodStarts == /\ pod # NoPod /\ pod.phase = "Pending" /\ Startable
             /\ pod' = [pod EXCEPT !.phase = "Running"]
             /\ UNCHANGED <<clusterVars, repo, made, greeted, shell, testVars>>

PodGreets == /\ pod # NoPod /\ pod.phase = "Running" /\ Answers
             /\ greeted' = greeted \union {pod.id}
             /\ UNCHANGED <<clusterVars, repo, pod, made, shell, testVars>>

PodExits(ok) == /\ pod # NoPod /\ pod.phase = "Running"
                /\ \/ Faults \/ Ending
                   \/ ok /\ pod.id \in greeted
                   \/ ~ok /\ ~Answers
                /\ pod' = [pod EXCEPT !.phase = "Exited", !.ok = ok]
                /\ UNCHANGED <<clusterVars, repo, made, greeted, shell, testVars>>

PodEnds == /\ pod # NoPod /\ pod.phase = "Exited"
           /\ pod' = [pod EXCEPT !.phase = "Ended"]
           /\ UNCHANGED <<clusterVars, repo, made, greeted, shell, testVars>>

PodGoes == /\ Ending
           /\ pod' = NoPod
           /\ UNCHANGED <<clusterVars, repo, made, greeted, shell, testVars>>

-----------------------------------------------------------------------------
Shell == \/ ClusterCreate \/ ClusterDelete
         \/ SpireInstall \/ AddRepo \/ InstallSpireFails \/ SpireUpgrade
         \/ SpireUninstall \/ AppInstall \/ AppUninstall
         \/ Interrupt \/ ConfigByHand
         \/ \E d \in TrustDomains : InstallSpire(d)
         \/ \E r \in Releases : HelmEnds(r)

TestStep(t) == \/ CheckServer(t) \/ DeleteOld(t) \/ CreatePod(t) \/ CreateFails(t)
               \/ SeePod(t) \/ ReadLogs(t) \/ CleanPod(t) \/ CleanMap(t)

PodStep == \/ PodStarts \/ PodGreets \/ PodEnds \/ PodGoes
           \/ \E ok \in BOOLEAN : PodExits(ok)

Next == \/ Shell \/ PodStep
        \/ \E t \in Testers : \/ deployTestRun(t) \/ deployTestVerify(t)
                              \/ TestStep(t) \/ TimeUp(t) \/ GetFails(t)

Spec == Init /\ [][Next]_vars

TesterRuns(t) == WF_vars(TestStep(t)) /\ WF_vars(TimeUp(t))

\* Calls to the cluster return and the timer of the wait fires; a deleted pod
\* goes. Nothing is assumed of the commands that a user may or may not type, and
\* a failing call (GetFails) is not owed to a waiting test.
FairSpec == Spec /\ WF_vars(PodGoes)
                 /\ \A t \in Testers : TesterRuns(t)

-----------------------------------------------------------------------------
(* Properties *)

\* A cluster that does not exist holds no release, pod or ConfigMap, and no Helm
\* command waits for it.
EmptyWithout == ~cluster => /\ rel = [r \in Releases |-> "none"]
                            /\ pod = NoPod /\ ~config /\ shell \notin Releases

\* Every variable keeps its type, and a cluster that does not exist holds nothing:
\* ClusterDelete (deploy.go:186) takes everything with it, and every command that
\* puts something into a cluster needs one.
TypeOK == /\ cluster \in BOOLEAN /\ repo \in BOOLEAN /\ config \in BOOLEAN
          /\ rel \in [Releases -> {"none", "pending", "deployed", "failed"}]
          /\ td \in TrustDomains \union {ChartDomain}
          /\ made \in 0 .. MaxPods
          /\ pod \in {NoPod} \union Pod
          /\ greeted \subseteq 1 .. made
          /\ shell \in {"idle", "adding", "locating"} \union Releases
          /\ pc \in [Testers -> {"idle", "check", "delete", "create", "wait",
                                 "logs", "cleanPod", "cleanMap"}]
          /\ out \in [Testers -> {"none", "error", "failed", "passed"}]
          /\ since \in [Testers -> 0 .. made] /\ read \in [Testers -> 0 .. made]
          /\ EmptyWithout

\* A test that passes (deploy.go:894) has seen the server's greeting in the log
\* of a pod created since it began, never in that of an earlier test whose pod
\* outlived the dropped deletion, however many tests share the name.
PassIsFresh == \A t \in Testers :
    out[t] = "passed" => read[t] > since[t] /\ read[t] \in greeted

\* As long as a SPIRE release exists its trust domain does not change: an
\* upgrade passes no values (deploy.go:372), and a second install is refused. Of
\* the upgrade the usage text says otherwise, "FLAGS (install/upgrade):
\* --trust-domain" (deploy.go:234-237), but deploySpireUpgrade has no such flag
\* (deploy.go:333-337): a trust domain it is given is not set, it is refused.
TrustDomainStable ==
    [][rel["spire"] # "none" /\ rel'["spire"] # "none" => td' = td]_vars

\* Every test command returns, whatever its pod does (deploy.go:975).
TestsEnd == \A t \in Testers : pc[t] # "idle" ~> pc[t] = "idle"

\* The documented workflow (deploy.go:66): create a cluster, install SPIRE and
\* the application, run the test. With all deployed, nothing failing, nothing
\* slow and one shell, the test does not fail. The code violates it: no command
\* creates the ConfigMap that the test's pod mounts.
Deployed == rel = [r \in Releases |-> "deployed"] /\ td = ChartDomain

WorkflowPasses ==
    [][Deployed => \A t \in Testers : out'[t] = "failed" => out[t] = "failed"]_vars
=============================================================================
