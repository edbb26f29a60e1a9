---------------------------- MODULE SpireTestEnv ----------------------------
(***************************************************************************)
(* The SPIRE environments of the integration tests (internal/testhelpers): *)
(* SetupSPIRE (spire.go) runs a server and an agent as processes in a      *)
(* temporary directory, SetupSPIREContainers (containers.go) as containers *)
(* in a network of their own. Tests set up, run and tear down in parallel; *)
(* a failing step ends the test with t.Fatal, which runs the cleanups      *)
(* registered so far, the last one first. SPIRE, Docker and package        *)
(* testing are external.                                                   *)
(***************************************************************************)
EXTENDS Naturals, Sequences

CONSTANTS Tests,  \* the tests, all in one run of go test
          Kinds,  \* which tests may use which helper
          Ports   \* the TCP ports of the machine

ASSUME TestsAssumption == "none" \notin Tests
ASSUME KindsAssumption == Kinds \subseteq [Tests -> {"processes", "containers"}]

VARIABLES kind,      \* the helper that each test uses
          pc,        \* the next step of each test
          up,        \* its resources that exist; processes, if they run
          cleanups,  \* the resources its cleanups remove, next one first
          stuck,     \* resources whose removal failed, with a warning
          ready,     \* did its setup complete?
          port,      \* its server's port, 0 before getFreePort
          bound,     \* the ports it holds: its server's listener
          sock,      \* its socket files: "admin" and "agent"
          token,     \* the test whose server made its join token, or "none"
          home       \* the test whose server attested its agent, or "none"

others == <<kind, up, cleanups, stuck, ready, port, bound, sock, token, home>>
vars   == <<pc, others>>

Processes  == {t \in Tests : kind[t] = "processes"}
Containers == Tests \ Processes
Resources  == {"dir", "network", "server", "agent"}
Setup      == {"dir", "network", "server", "admin", "token", "agent", "wait", "entry"}

Init == /\ kind \in Kinds
        /\ pc = [t \in Tests |-> IF t \in Processes THEN "dir" ELSE "network"]
        /\ up = [t \in Tests |-> {}]
        /\ cleanups = [t \in Tests |-> <<>>]
        /\ stuck = [t \in Tests |-> {}]
        /\ ready = [t \in Tests |-> FALSE]
        /\ port = [t \in Tests |-> 0]
        /\ bound = [t \in Tests |-> {}]
        /\ sock = [t \in Tests |-> {}]
        /\ token = [t \in Tests |-> "none"]
        /\ home = [t \in Tests |-> "none"]

Taken == UNION {bound[t] : t \in Tests}

Goto(t, from, to) == pc[t] = from /\ pc' = [pc EXCEPT ![t] = to]

Add(t, r) == up' = [up EXCEPT ![t] = @ \union {r}]

\* t.Cleanup
OnCleanup(t, rs) == cleanups' = [cleanups EXCEPT ![t] = rs \o @]

\* t.Fatal: the test ends and its cleanups run.
Fatal(t, from) == Goto(t, from, "cleanup")

-----------------------------------------------------------------------------
(* SetupSPIRE *)

Skip(t) == /\ t \in Processes   \* no binaries
           /\ Goto(t, "dir", "done")
           /\ UNCHANGED others

CreateDir(t) == /\ t \in Processes
                /\ Goto(t, "dir", "server")
                /\ Add(t, "dir") /\ OnCleanup(t, <<"dir">>)
                /\ UNCHANGED <<kind, stuck, ready, port, bound, sock, token, home>>

\* A bug for the checks: the server process is started without a cleanup.
StartServerOnly(t) == /\ t \in Processes
                      /\ Goto(t, "server", "admin")
                      /\ \E p \in Ports \ Taken : port' = [port EXCEPT ![t] = p]
                      /\ Add(t, "server")
                      /\ UNCHANGED <<kind, cleanups, stuck, ready, bound, sock, token, home>>

\* getFreePort closes the listener it found the port with: until the server
\* binds, the port is anyone's.
StartServer(t) == /\ t \in Processes
                  /\ Goto(t, "server", "admin")
                  /\ \E p \in Ports \ Taken : port' = [port EXCEPT ![t] = p]
                  /\ Add(t, "server") /\ OnCleanup(t, <<"server">>)
                  /\ UNCHANGED <<kind, stuck, ready, bound, sock, token, home>>

SeeAdminSocket(t) == /\ Goto(t, "admin", "token") /\ "admin" \in sock[t]
                     /\ UNCHANGED others

AdminTimeout(t) == /\ Fatal(t, "admin")
                   /\ UNCHANGED others

\* A bug for the checks: the token comes from the server at the port.
GenerateTokenAtPort(t) ==
    /\ t \in Processes
    /\ Goto(t, "token", "agent")
    /\ \E u \in Tests : port[t] \in bound[u] /\ token' = [token EXCEPT ![t] = u]
    /\ UNCHANGED <<kind, up, cleanups, stuck, ready, port, bound, sock, home>>

\* Through the server's own socket, so that the token is this server's.
GenerateToken(t) == /\ t \in Processes /\ "server" \in up[t]
                    /\ Goto(t, "token", "agent")
                    /\ token' = [token EXCEPT ![t] = t]
                    /\ UNCHANGED <<kind, up, cleanups, stuck, ready, port, bound, sock, home>>

StartAgent(t) == /\ t \in Processes
                 /\ Goto(t, "agent", "wait")
                 /\ Add(t, "agent") /\ OnCleanup(t, <<"agent">>)
                 /\ UNCHANGED <<kind, stuck, ready, port, bound, sock, token, home>>

AgentReady(t) == /\ t \in Processes /\ "agent" \in sock[t]
                 /\ Goto(t, "wait", "entry")
                 /\ UNCHANGED others

\* A bug for the checks: the wait for the agent's socket has no timeout.
AgentTimeoutNever(t) == FALSE

AgentTimeout(t) == /\ t \in Processes
                   /\ Fatal(t, "wait")
                   /\ UNCHANGED others

\* An error is logged only: the test runs with or without the entry.
CreateEntry(t) == /\ t \in Processes
                  /\ Goto(t, "entry", "test")
                  /\ ready' = [ready EXCEPT ![t] = TRUE]
                  /\ UNCHANGED <<kind, up, cleanups, stuck, port, bound, sock, token, home>>

SetupFails(t) == /\ t \in Processes
                 /\ \E s \in {"dir", "server", "token", "agent"} : Fatal(t, s)
                 /\ UNCHANGED others

-----------------------------------------------------------------------------
(* SetupSPIREContainers *)

CreateNetwork(t) == /\ t \in Containers
                    /\ Goto(t, "network", "server")
                    /\ Add(t, "network")
                    /\ UNCHANGED <<kind, cleanups, stuck, ready, port, bound, sock, token, home>>

StartServerContainer(t) == /\ t \in Containers
                           /\ Goto(t, "server", "token")
                           /\ Add(t, "server")
                           /\ UNCHANGED <<kind, cleanups, stuck, ready, port, bound, sock, token, home>>

GenerateJoinToken(t) == /\ t \in Containers /\ "server" \in up[t]
                        /\ Goto(t, "token", "agent")
                        /\ token' = [token EXCEPT ![t] = t]
                        /\ UNCHANGED <<kind, up, cleanups, stuck, ready, port, bound, sock, home>>

\* Its server is found by the alias in the network of the test. The directory for
\* its socket is t.TempDir's, which registers a cleanup of its own.
StartAgentContainer(t) == /\ t \in Containers
                          /\ Goto(t, "agent", "wait")
                          /\ up' = [up EXCEPT ![t] = @ \union {"dir", "agent"}]
                          /\ OnCleanup(t, <<"dir">>)
                          /\ home' = [home EXCEPT ![t] = t]
                          /\ UNCHANGED <<kind, stuck, ready, port, bound, sock, token>>

SocketReady(t) == /\ t \in Containers
                  /\ Goto(t, "wait", "entry")
                  /\ sock' = [sock EXCEPT ![t] = @ \union {"agent"}]
                  /\ UNCHANGED <<kind, up, cleanups, stuck, ready, port, bound, token, home>>

SocketTimeout(t) == /\ t \in Containers
                    /\ Fatal(t, "wait")
                    /\ UNCHANGED others

\* What the one cleanup function of the containers removes, in this order.
Removed == <<"agent", "server", "network">>

\* A bug for the checks: the cleanup is registered a second time.
RegisterCleanupTwice(t) == OnCleanup(t, Removed \o Removed)

\* It is registered when everything is there.
RegisterCleanup(t) == OnCleanup(t, Removed)

\* An error is logged only, as above.
CreateContainerEntry(t) == /\ t \in Containers
                           /\ Goto(t, "entry", "test")
                           /\ ready' = [ready EXCEPT ![t] = TRUE]
                           /\ RegisterCleanup(t)
                           /\ UNCHANGED <<kind, up, stuck, port, bound, sock, token, home>>

\* A container that started and did not become healthy is left, without a handle.
ContainerFails(t) ==
    /\ t \in Containers
    /\ \/ /\ \E s \in {"network", "server", "token", "agent"} : Fatal(t, s)
          /\ UNCHANGED <<up, cleanups>>
       \/ /\ Fatal(t, "server")
          /\ Add(t, "server")
          /\ UNCHANGED cleanups
       \/ /\ Fatal(t, "agent")
          /\ \E rs \in {{"dir"}, {"dir", "agent"}} : up' = [up EXCEPT ![t] = @ \union rs]
          /\ OnCleanup(t, <<"dir">>)
    /\ UNCHANGED <<kind, stuck, ready, port, bound, sock, token, home>>

-----------------------------------------------------------------------------
(* The test and its cleanups *)

\* The body ends. It may have deferred the cleanup function that
\* SetupSPIREContainers returned: the cleanup then runs twice.
TestEnds(t) == /\ Goto(t, "test", "cleanup")
               /\ \/ cleanups' = cleanups
                  \/ t \in Containers /\ OnCleanup(t, Removed)
               /\ UNCHANGED <<kind, up, stuck, ready, port, bound, sock, token, home>>

\* What is gone is not removed again, and a failure is logged: a container or a
\* network that Docker does not remove, a directory that stays. A process that
\* was killed is waited for.
CanFail(t, r) == r = "dir" \/ t \in Containers

MustFail(t, r) == r = "network" /\ up[t] \intersect {"server", "agent"} # {}

RemoveOk(t, r) == /\ ~MustFail(t, r)
                  /\ up' = [up EXCEPT ![t] = @ \ {r}]
                  /\ bound' = [bound EXCEPT ![t] = IF r = "server" THEN {} ELSE @]
                  /\ stuck' = [stuck EXCEPT ![t] = @ \ {r}]

RemoveFails(t, r) == /\ r \in up[t] /\ CanFail(t, r)
                     /\ stuck' = [stuck EXCEPT ![t] = @ \union {r}]
                     /\ UNCHANGED <<up, bound>>

\* A bug for the checks: a removal that fails ends the cleanup.
RunCleanupOrStop(t) ==
    /\ pc[t] = "cleanup" /\ cleanups[t] # <<>>
    /\ LET r == Head(cleanups[t])
       IN \/ RemoveOk(t, r) /\ cleanups' = [cleanups EXCEPT ![t] = Tail(@)]
          \/ RemoveFails(t, r) /\ cleanups' = [cleanups EXCEPT ![t] = <<>>]
    /\ UNCHANGED <<kind, pc, ready, port, sock, token, home>>

RunCleanup(t) ==
    /\ pc[t] = "cleanup" /\ cleanups[t] # <<>>
    /\ LET r == Head(cleanups[t]) IN RemoveOk(t, r) \/ RemoveFails(t, r)
    /\ cleanups' = [cleanups EXCEPT ![t] = Tail(@)]
    /\ UNCHANGED <<kind, pc, ready, port, sock, token, home>>

TestDone(t) == /\ cleanups[t] = <<>>
               /\ Goto(t, "cleanup", "done")
               /\ UNCHANGED others

-----------------------------------------------------------------------------
(* The processes *)

ServerSocket(t) == /\ t \in Processes /\ "server" \in up[t]
                   /\ "admin" \notin sock[t]
                   /\ sock' = [sock EXCEPT ![t] = @ \union {"admin"}]
                   /\ UNCHANGED <<kind, pc, up, cleanups, stuck, ready, port, bound, token, home>>

ServerBinds(t) == /\ t \in Processes /\ "server" \in up[t]
                  /\ port[t] \notin Taken
                  /\ bound' = [bound EXCEPT ![t] = {port[t]}]
                  /\ UNCHANGED <<kind, pc, up, cleanups, stuck, ready, port, sock, token, home>>

\* Because its port is taken, or for any other reason.
ServerExits(t) == /\ t \in Processes /\ "server" \in up[t]
                  /\ up' = [up EXCEPT ![t] = @ \ {"server"}]
                  /\ bound' = [bound EXCEPT ![t] = {}]
                  /\ UNCHANGED <<kind, pc, cleanups, stuck, ready, port, sock, token, home>>

\* The agent opens its socket once the server at its port, whose ever that is,
\* has taken the token; a server takes its own tokens.
AgentAttests(t) == /\ t \in Processes /\ "agent" \in up[t] /\ home[t] = "none"
                   /\ \E u \in Tests : /\ port[t] \in bound[u] /\ token[t] = u
                                      /\ home' = [home EXCEPT ![t] = u]
                   /\ sock' = [sock EXCEPT ![t] = @ \union {"agent"}]
                   /\ UNCHANGED <<kind, pc, up, cleanups, stuck, ready, port, bound, token>>

AgentExits(t) == /\ t \in Processes /\ "agent" \in up[t]
                 /\ up' = [up EXCEPT ![t] = @ \ {"agent"}]
                 /\ UNCHANGED <<kind, pc, cleanups, stuck, ready, port, bound, sock, token, home>>

-----------------------------------------------------------------------------
SetupStep(t) ==
    \/ CreateDir(t) \/ StartServer(t) \/ SeeAdminSocket(t) \/ GenerateToken(t)
    \/ StartAgent(t) \/ AgentReady(t) \/ CreateEntry(t) \/ SetupFails(t)
    \/ CreateNetwork(t) \/ StartServerContainer(t) \/ GenerateJoinToken(t)
    \/ StartAgentContainer(t) \/ CreateContainerEntry(t) \/ ContainerFails(t)

Timer(t) == AdminTimeout(t) \/ AgentTimeout(t) \/ SocketTimeout(t)

Next == \E t \in Tests :
    \/ Skip(t) \/ SetupStep(t) \/ Timer(t) \/ SocketReady(t)
    \/ TestEnds(t) \/ RunCleanup(t) \/ TestDone(t)
    \/ ServerSocket(t) \/ ServerBinds(t) \/ ServerExits(t)
    \/ AgentAttests(t) \/ AgentExits(t)

Spec == Init /\ [][Next]_vars

\* What has no deadline: the commands of spire-server (spire.go:347, 468), and
\* every call to Docker, the commands run in its containers among them
\* (containers.go:96, 136).
Hangs(t) == IF t \in Processes
            THEN pc[t] \in {"token", "entry"}
            ELSE \/ pc[t] \in {"network", "server", "token", "agent", "entry"}
                 \/ pc[t] = "cleanup" /\ cleanups[t] # <<>> /\ Head(cleanups[t]) # "dir"

Local(t) == ~Hangs(t) /\ (SetupStep(t) \/ RunCleanup(t))

TestRuns(t) == WF_vars(Local(t)) /\ WF_vars(Timer(t)) /\ WF_vars(TestEnds(t)) /\ WF_vars(TestDone(t))

\* The test goroutine goes on where it waits for the machine only, a process that
\* was killed ends, bodies of tests end and timers fire. SPIRE and Docker owe
\* nothing: neither that they come up nor that a call returns.
FairSpec == Spec /\ \A t \in Tests : TestRuns(t)

-----------------------------------------------------------------------------
(* Properties *)

\* Every variable keeps its type, and at most seven removals are pending: those of
\* the containers twice, and that of the directory.
TypeOK == /\ kind \in Kinds
          /\ pc \in [Tests -> Setup \union {"test", "cleanup", "done"}]
          /\ up \in [Tests -> SUBSET Resources]
          /\ \A t \in Tests : cleanups[t] \in Seq(Resources) /\ Len(cleanups[t]) <= 7
          /\ stuck \in [Tests -> SUBSET Resources]
          /\ ready \in [Tests -> BOOLEAN]
          /\ port \in [Tests -> Ports \union {0}]
          /\ bound \in [Tests -> SUBSET Ports]
          /\ sock \in [Tests -> SUBSET {"admin", "agent"}]
          /\ token \in [Tests -> Tests \union {"none"}]
          /\ home \in [Tests -> Tests \union {"none"}]

\* What a failed setup of containers had started, as far as it came.
Started(t) == (IF token[t] = t THEN {"network", "server"} ELSE {})
                  \union (IF home[t] = t THEN {"agent"} ELSE {})

\* What a test that is over leaves behind. With processes, wherever the setup
\* failed, and with containers after a complete setup: only what could not be
\* removed (spire.go:106, containers.go:135). With containers after a failed setup:
\* all that it had started, as the cleanup that "automatically" (containers.go:81)
\* removes them is registered last (containers.go:160); only the directory, which
\* has a cleanup of its own, is gone.
LeftBehind == \A t \in Tests : pc[t] = "done" =>
    IF t \in Processes \/ ready[t]
    THEN up[t] \subseteq stuck[t]
    ELSE Started(t) \subseteq up[t] /\ up[t] \intersect {"dir"} \subseteq stuck[t]

\* The directory is not removed under a server or an agent that still writes to
\* it (spire.go:108): the cleanups that end them were registered later.
DirectoryLast == \A t \in Processes :
    pc[t] \in {"cleanup", "done"} /\ "dir" \notin up[t]
        => up[t] \intersect {"server", "agent"} = {}

\* A test's agent was attested by the test's own server, though the port that
\* getFreePort found (spire.go:160) may have gone to another test's server.
OwnServer == \A t \in Tests : "agent" \in sock[t] => home[t] = t

\* Every test comes to its end, though SPIRE may never come up (spire.go:307, 408;
\* containers.go:362), or it waits for ever in a call that has no deadline.
TestsEnd == \A t \in Tests : <>(pc[t] = "done") \/ <>[]Hangs(t)
=============================================================================
