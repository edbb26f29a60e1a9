------------------------- MODULE SpireTestEnvProofs -------------------------
(***************************************************************************)
(* Theorems about SpireTestEnv, for any tests, helpers and ports. The      *)
(* cleanups of a test are always one of a few sequences; the invariant     *)
(* relates the one that is left to the resources that exist.               *)
(***************************************************************************)
EXTENDS SpireTestEnv, SequenceTheorems, TLAPS

D   == <<"dir">>
SD  == <<"server", "dir">>
ASD == <<"agent", "server", "dir">>

ND      == <<"network", "dir">>
SND     == <<"server", "network", "dir">>
ASND    == <<"agent", "server", "network", "dir">>
NASND   == <<"network", "agent", "server", "network", "dir">>
SNASND  == <<"server", "network", "agent", "server", "network", "dir">>
ASNASND == <<"agent", "server", "network", "agent", "server", "network", "dir">>

\* Processes: each step of the setup registers its cleanup before the next
\* step, so what runs is covered, and the directory is covered longest.
ProcessInv(t) ==
  /\ cleanups[t] \in {<<>>, D, SD, ASD}
  /\ pc[t] \in {"dir", "done"} => cleanups[t] = <<>>
  /\ pc[t] = "server" => cleanups[t] = D
  /\ pc[t] \in {"admin", "token", "agent"} => cleanups[t] = SD
  /\ pc[t] \in {"wait", "entry", "test"} => cleanups[t] = ASD
  /\ pc[t] # "network"
  /\ "agent" \in up[t] => Len(cleanups[t]) = 3
  /\ "server" \in up[t] => Len(cleanups[t]) >= 2 /\ port[t] \in Ports
  /\ Len(cleanups[t]) >= 1 => "dir" \in up[t]
  /\ "dir" \in up[t] => Len(cleanups[t]) >= 1 \/ "dir" \in stuck[t]
  /\ "network" \notin up[t]

\* Containers: after a complete setup each one is covered or was given up; before,
\* what was started is there.
ContainerInv(t) ==
  /\ cleanups[t] \in {<<>>, D, ND, SND, ASND, NASND, SNASND, ASNASND}
  /\ pc[t] \notin {"dir", "admin"}
  /\ pc[t] \in {"network", "server", "token", "agent", "done"} => cleanups[t] = <<>>
  /\ pc[t] \in {"wait", "entry"} => cleanups[t] = D /\ home[t] = t
  /\ pc[t] = "test" => cleanups[t] = ASND
  /\ pc[t] \in {"server", "token", "agent", "wait", "entry"} => "network" \in up[t]
  /\ pc[t] \in {"token", "agent", "wait", "entry"} => "server" \in up[t]
  /\ pc[t] \in Setup => ~ready[t]
  /\ ~ready[t] => cleanups[t] \in {<<>>, D} /\ Started(t) \subseteq up[t]
  /\ ready[t] =>
       /\ "agent" \in up[t] \ stuck[t] => Len(cleanups[t]) >= 4
       /\ "server" \in up[t] \ stuck[t] => Len(cleanups[t]) >= 3
       /\ "network" \in up[t] \ stuck[t] => Len(cleanups[t]) >= 2
  /\ "dir" \in up[t] \ stuck[t] => cleanups[t] # <<>>

\* A token is of the test's own server, and so is the server that took it.
OwnInv(t) ==
  /\ token[t] \in {"none", t}
  /\ "agent" \in sock[t] => home[t] = t

TestInv(t) == /\ t \in Processes => ProcessInv(t)
              /\ t \in Containers => ContainerInv(t)
              /\ OwnInv(t)

\* The variables are functions on the tests, with the sets the steps rely on.
ShapeOK == /\ kind \in Kinds
           /\ pc \in [Tests -> Setup \union {"test", "cleanup", "done"}]
           /\ up \in [Tests -> SUBSET Resources]
           /\ DOMAIN cleanups = Tests
           /\ cleanups = [t \in Tests |-> cleanups[t]]
           /\ stuck \in [Tests -> SUBSET Resources]
           /\ ready \in [Tests -> BOOLEAN]
           /\ port \in [Tests -> Ports \union {0}]
           /\ bound \in [Tests -> SUBSET Ports]
           /\ sock \in [Tests -> SUBSET {"admin", "agent"}]
           /\ token \in [Tests -> Tests \union {"none"}]
           /\ home \in [Tests -> Tests \union {"none"}]

IInv == ShapeOK /\ \A t \in Tests : TestInv(t)

Step(t) == \/ Skip(t) \/ SetupStep(t) \/ Timer(t) \/ SocketReady(t)
           \/ TestEnds(t) \/ RunCleanup(t) \/ TestDone(t)
           \/ ServerSocket(t) \/ ServerBinds(t) \/ ServerExits(t)
           \/ AgentAttests(t) \/ AgentExits(t)

-----------------------------------------------------------------------------

\* The cleanups are short sequences of resources, and all of them differ.
LEMMA Lengths ==
  /\ Len(<<>>) = 0 /\ Len(D) = 1 /\ Len(SD) = 2 /\ Len(ASD) = 3
  /\ Len(ND) = 2 /\ Len(SND) = 3 /\ Len(ASND) = 4
  /\ Len(NASND) = 5 /\ Len(SNASND) = 6 /\ Len(ASNASND) = 7
<1>1. Len(<<>>) = 0 /\ Len(D) = 1 /\ Len(SD) = 2 /\ Len(ASD) = 3
  BY DEF D, SD, ASD
<1>2. Len(ND) = 2 /\ Len(SND) = 3 /\ Len(ASND) = 4
  BY DEF ND, SND, ASND
<1>3. Len(NASND) = 5 /\ Len(SNASND) = 6 /\ Len(ASNASND) = 7
  BY DEF NASND, SNASND, ASNASND
<1> QED
  BY <1>1, <1>2, <1>3

\* Only a complete setup of containers has more pending than the directory.
LEMMA Longer ==
  \A v \in {ND, SND, ASND, NASND, SNASND, ASNASND} : v \notin {<<>>, D}
<1>1. \A v \in {ND, SND, ASND, NASND, SNASND, ASNASND} : Len(v) \notin {0, 1}
  <2>1. \A n \in {2, 3, 4, 5, 6, 7} : n \notin {0, 1}
    OBVIOUS
  <2>2. \A v \in {ND, SND, ASND, NASND, SNASND, ASNASND} : Len(v) \in {2, 3, 4, 5, 6, 7}
    BY Lengths, Zenon
  <2> QED
    BY <2>1, <2>2, Zenon
<1>2. \A v \in {<<>>, D} : Len(v) \in {0, 1}
  BY Lengths, Zenon
<1> QED
  BY <1>1, <1>2, Zenon

\* Something is pending, but for the empty sequence.
LEMMA Some ==
  \A v \in {D, ND, SND, ASND, NASND, SNASND, ASNASND} : v # <<>>
<1>1. Len(D) # Len(<<>>)
  BY DEF D
<1> QED
  BY <1>1, Longer, Zenon

\* The sequences are of resources: those of processes ...
LEMMA ProcessSeqs ==
  /\ <<>> \in Seq(Resources) /\ D \in Seq(Resources)
  /\ SD \in Seq(Resources) /\ ASD \in Seq(Resources)
  /\ <<"server">> \in Seq(Resources) /\ <<"agent">> \in Seq(Resources)
  BY DEF D, SD, ASD, Resources

\* ... and those of containers.
LEMMA ContainerSeqs ==
  /\ ND \in Seq(Resources) /\ SND \in Seq(Resources) /\ ASND \in Seq(Resources)
  /\ NASND \in Seq(Resources) /\ SNASND \in Seq(Resources)
  /\ ASNASND \in Seq(Resources) /\ Removed \in Seq(Resources)
<1>1. ND \in Seq(Resources) /\ SND \in Seq(Resources) /\ ASND \in Seq(Resources)
  BY DEF ND, SND, ASND, Resources
<1>2. NASND \in Seq(Resources) /\ SNASND \in Seq(Resources)
  BY DEF NASND, SNASND, Resources
<1>3. ASNASND \in Seq(Resources) /\ Removed \in Seq(Resources)
  BY DEF ASNASND, Removed, Resources
<1> QED
  BY <1>1, <1>2, <1>3

\* A sequence with the elements of two others, one after the other.
LEMMA Joined ==
  ASSUME NEW S, NEW s \in Seq(S), NEW t \in Seq(S), NEW v \in Seq(S),
         Len(v) = Len(s) + Len(t),
         \A i \in 1 .. Len(v) : v[i] = IF i <= Len(s) THEN s[i] ELSE t[i - Len(s)]
  PROVE  s \o t = v
<1>1. /\ s \o t \in Seq(S) /\ Len(s \o t) = Len(v)
      /\ \A i \in 1 .. Len(v) : (s \o t)[i] = v[i]
  BY ConcatProperties
<1> QED
  BY <1>1, SeqEqual

\* What is pending after a cleanup was registered.
LEMMA Registered ==
  /\ <<"dir">> \o <<>> = D /\ <<"server">> \o D = SD /\ <<"agent">> \o SD = ASD
  /\ Removed \o D = ASND /\ Removed \o ASND = ASNASND
<1>1. <<"dir">> \o <<>> = D
  BY ProcessSeqs, ConcatEmptySeq DEF D
<1>2. <<"server">> \o D = SD
  <2>1. Len(SD) = Len(<<"server">>) + Len(D)
    BY DEF SD, D
  <2>2. \A i \in 1 .. Len(SD) : SD[i] = IF i <= Len(<<"server">>) THEN <<"server">>[i]
                                          ELSE D[i - Len(<<"server">>)]
    BY DEF SD, D
  <2> QED
    BY <2>1, <2>2, ProcessSeqs, Joined
<1>3. <<"agent">> \o SD = ASD
  <2>1. Len(ASD) = Len(<<"agent">>) + Len(SD)
    BY DEF SD, ASD
  <2>2. \A i \in 1 .. Len(ASD) : ASD[i] = IF i <= Len(<<"agent">>) THEN <<"agent">>[i]
                                          ELSE SD[i - Len(<<"agent">>)]
    BY DEF SD, ASD
  <2> QED
    BY <2>1, <2>2, ProcessSeqs, Joined
<1>4. Removed \o D = ASND
  <2>1. Len(ASND) = Len(Removed) + Len(D)
    BY DEF Removed, D, ASND, ASNASND
  <2>2. \A i \in 1 .. Len(ASND) : ASND[i] = IF i <= Len(Removed) THEN Removed[i]
                                               ELSE D[i - Len(Removed)]
    BY DEF Removed, D, ASND, ASNASND
  <2> QED
    BY <2>1, <2>2, ProcessSeqs, ContainerSeqs, Joined
<1>5. Removed \o ASND = ASNASND
  <2>1. Len(ASNASND) = Len(Removed) + Len(ASND)
    BY DEF Removed, D, ASND, ASNASND
  <2>2. \A i \in 1 .. Len(ASNASND) : ASNASND[i] = IF i <= Len(Removed) THEN Removed[i]
                                               ELSE ASND[i - Len(Removed)]
    BY DEF Removed, D, ASND, ASNASND
  <2> QED
    BY <2>1, <2>2, ContainerSeqs, Joined
<1> QED
  BY <1>1, <1>2, <1>3, <1>4, <1>5

\* What is pending after a cleanup has run.
LEMMA Ran ==
  /\ Head(D) = "dir" /\ Head(SD) = "server" /\ Head(ASD) = "agent"
  /\ Tail(D) = <<>> /\ Tail(SD) = D /\ Tail(ASD) = SD
  /\ Head(ND) = "network" /\ Head(SND) = "server" /\ Head(ASND) = "agent"
  /\ Tail(ND) = D /\ Tail(SND) = ND /\ Tail(ASND) = SND
  /\ Head(NASND) = "network" /\ Head(SNASND) = "server" /\ Head(ASNASND) = "agent"
  /\ Tail(NASND) = ASND /\ Tail(SNASND) = NASND /\ Tail(ASNASND) = SNASND
<1>1. /\ Head(D) = "dir" /\ Head(SD) = "server" /\ Head(ASD) = "agent"
      /\ Tail(D) = <<>> /\ Tail(SD) = D /\ Tail(ASD) = SD
  BY DEF D, SD, ASD
<1>2. /\ Head(ND) = "network" /\ Head(SND) = "server" /\ Head(ASND) = "agent"
      /\ Tail(ND) = D /\ Tail(SND) = ND /\ Tail(ASND) = SND
  BY DEF D, ND, SND, ASND
<1>3. /\ Head(NASND) = "network" /\ Head(SNASND) = "server" /\ Head(ASNASND) = "agent"
      /\ Tail(NASND) = ASND /\ Tail(SNASND) = NASND /\ Tail(ASNASND) = SNASND
  BY DEF ASND, NASND, SNASND, ASNASND
<1> QED
  BY <1>1, <1>2, <1>3

\* The kinds of helper are two, and never change.
LEMMA Kinded ==
  ASSUME kind \in Kinds, NEW t \in Tests
  PROVE  t \in Processes \/ t \in Containers
  BY DEF Processes, Containers


\* A step of one test keeps the shape of the variables ...
LEMMA ShapeStep ==
  ASSUME ShapeOK, NEW t \in Tests, Step(t), t \in Processes => ProcessInv(t)
  PROVE  ShapeOK'
<1> USE DEF ShapeOK, Goto, Add, OnCleanup, Fatal, others, Setup, Resources
<1>1. CASE Skip(t) \/ SeeAdminSocket(t) \/ AdminTimeout(t) \/ AgentReady(t)
  BY <1>1 DEF Skip, SeeAdminSocket, AdminTimeout, AgentReady
<1>2. CASE AgentTimeout(t) \/ SetupFails(t) \/ SocketTimeout(t) \/ TestDone(t)
  BY <1>2 DEF AgentTimeout, SetupFails, SocketTimeout, TestDone
<1>3. CASE CreateDir(t)
  BY <1>3 DEF CreateDir
<1>4. CASE StartServer(t)
  <2>1. PICK p \in Ports : port' = [port EXCEPT ![t] = p]
    BY <1>4 DEF StartServer
  <2>2. port' \in [Tests -> Ports \union {0}]
    BY <2>1
  <2>3. /\ up' = [up EXCEPT ![t] = @ \union {"server"}]
        /\ pc' = [pc EXCEPT ![t] = "admin"]
        /\ cleanups' = [cleanups EXCEPT ![t] = <<"server">> \o @]
        /\ UNCHANGED <<kind, stuck, ready, bound, sock, token, home>>
    BY <1>4 DEF StartServer
  <2> HIDE DEF Goto, Add, OnCleanup
  <2>4. up' \in [Tests -> SUBSET Resources]
    BY <2>3
  <2>5. DOMAIN cleanups' = Tests /\ cleanups' = [u \in Tests |-> cleanups'[u]]
    BY <2>3
  <2> QED
    BY <2>2, <2>3, <2>4, <2>5
<1>5. CASE GenerateToken(t) \/ StartAgent(t)
  BY <1>5, SMTT(30) DEF GenerateToken, StartAgent
<1>6. CASE CreateEntry(t)
  BY <1>6 DEF CreateEntry
<1>7. CASE CreateNetwork(t) \/ StartServerContainer(t) \/ GenerateJoinToken(t)
  BY <1>7 DEF CreateNetwork, StartServerContainer, GenerateJoinToken
<1>8. CASE StartAgentContainer(t)
  <2>1. /\ up' = [up EXCEPT ![t] = @ \union {"dir", "agent"}]
        /\ pc' = [pc EXCEPT ![t] = "wait"]
        /\ cleanups' = [cleanups EXCEPT ![t] = <<"dir">> \o @]
        /\ home' = [home EXCEPT ![t] = t]
        /\ UNCHANGED <<kind, stuck, ready, port, bound, sock, token>>
    BY <1>8 DEF StartAgentContainer
  <2> HIDE DEF Goto, Add, OnCleanup
  <2>2. up' \in [Tests -> SUBSET Resources]
    BY <2>1
  <2>3. home' \in [Tests -> Tests \union {"none"}]
    BY <2>1
  <2>4. DOMAIN cleanups' = Tests /\ cleanups' = [u \in Tests |-> cleanups'[u]]
    BY <2>1
  <2> QED
    BY <2>1, <2>2, <2>3, <2>4
<1>16. CASE SocketReady(t)
  BY <1>16 DEF SocketReady
<1>9. CASE CreateContainerEntry(t)
  BY <1>9 DEF CreateContainerEntry, RegisterCleanup
<1>10. CASE ContainerFails(t)
  BY <1>10 DEF ContainerFails
<1>11. CASE TestEnds(t)
  BY <1>11 DEF TestEnds
<1>12. CASE RunCleanup(t)
  <2> DEFINE r == Head(cleanups[t])
  <2>1. \/ up' = [up EXCEPT ![t] = @ \ {r}] /\ stuck' = [stuck EXCEPT ![t] = @ \ {r}]
        \/ r \in up[t] /\ up' = up /\ stuck' = [stuck EXCEPT ![t] = @ \union {r}]
    BY <1>12 DEF RunCleanup, RemoveOk, RemoveFails
  <2>2. bound' = bound \/ \E b \in {{}, bound[t]} : bound' = [bound EXCEPT ![t] = b]
    BY <1>12 DEF RunCleanup, RemoveOk, RemoveFails
  <2>3. /\ cleanups' = [cleanups EXCEPT ![t] = Tail(@)]
        /\ UNCHANGED <<kind, pc, ready, port, sock, token, home>>
    BY <1>12 DEF RunCleanup
  <2> HIDE DEF r
  <2>4. up' \in [Tests -> SUBSET Resources]
    BY <2>1
  <2>5. stuck' \in [Tests -> SUBSET Resources]
    BY <2>1
  <2>6. bound' \in [Tests -> SUBSET Ports]
    BY <2>2
  <2> QED
    BY <2>3, <2>4, <2>5, <2>6
<1>13. CASE ServerSocket(t) \/ ServerExits(t)
  BY <1>13 DEF ServerSocket, ServerExits
<1>14. CASE ServerBinds(t)
  <2>1. port[t] \in Ports
    BY <1>14 DEF ServerBinds, ProcessInv
  <2> QED
    BY <1>14, <2>1 DEF ServerBinds
<1>15. CASE AgentAttests(t) \/ AgentExits(t)
  BY <1>15 DEF AgentAttests, AgentExits
<1> QED
  BY <1>1, <1>2, <1>3, <1>4, <1>5, <1>6, <1>7, <1>8, <1>9, <1>10, <1>11, <1>12, <1>13, <1>14, <1>15, <1>16
     DEF Step, SetupStep, Timer

\* ... and touches nothing of another test.
LEMMA Others ==
  ASSUME ShapeOK, NEW t \in Tests, Step(t)
  PROVE  /\ kind' = kind
         /\ \A u \in Tests \ {t} :
              /\ pc'[u] = pc[u] /\ up'[u] = up[u] /\ cleanups'[u] = cleanups[u]
              /\ stuck'[u] = stuck[u] /\ (ready'[u] <=> ready[u])
              /\ port'[u] = port[u] /\ sock'[u] = sock[u] /\ token'[u] = token[u] /\ home'[u] = home[u]
<1> USE DEF ShapeOK, Goto, Add, OnCleanup, Fatal, others
<1>1. CASE Skip(t) \/ SeeAdminSocket(t) \/ AdminTimeout(t) \/ AgentReady(t) \/
           AgentTimeout(t) \/ SetupFails(t) \/ SocketTimeout(t) \/ TestDone(t)
  BY <1>1 DEF Skip, SeeAdminSocket, AdminTimeout, AgentReady, AgentTimeout,
     SetupFails, SocketTimeout, TestDone
<1>2. CASE CreateDir(t) \/ StartServer(t) \/ GenerateToken(t) \/
           StartAgent(t) \/ CreateEntry(t)
  BY <1>2 DEF CreateDir, StartServer, GenerateToken, StartAgent, CreateEntry
<1>3. CASE CreateNetwork(t) \/ StartServerContainer(t) \/
           GenerateJoinToken(t) \/ StartAgentContainer(t)
  BY <1>3 DEF CreateNetwork, StartServerContainer, GenerateJoinToken,
     StartAgentContainer
<1>4. CASE SocketReady(t) \/ CreateContainerEntry(t) \/ ContainerFails(t)
  BY <1>4 DEF SocketReady, CreateContainerEntry, RegisterCleanup, ContainerFails
<1>5. CASE TestEnds(t) \/ RunCleanup(t)
  BY <1>5 DEF TestEnds, RunCleanup, RemoveOk, RemoveFails
<1>6. CASE ServerSocket(t) \/ ServerBinds(t) \/ ServerExits(t) \/
           AgentAttests(t) \/ AgentExits(t)
  BY <1>6 DEF ServerSocket, ServerBinds, ServerExits, AgentAttests, AgentExits
<1> QED
  BY <1>1, <1>2, <1>3, <1>4, <1>5, <1>6
     DEF Step, SetupStep, Timer

\* What one cleanup does: the resource goes, or stays and is reported.
LEMMA OneCleanup ==
  ASSUME ShapeOK, NEW t \in Tests, RunCleanup(t)
  PROVE  /\ pc[t] = "cleanup" /\ pc'[t] = pc[t] /\ cleanups[t] # <<>>
         /\ cleanups'[t] = Tail(cleanups[t])
         /\ (ready'[t] <=> ready[t]) /\ port'[t] = port[t]
         /\ token'[t] = token[t] /\ home'[t] = home[t]
         /\ \/ /\ up'[t] = up[t] \ {Head(cleanups[t])}
               /\ stuck'[t] = stuck[t] \ {Head(cleanups[t])}
            \/ /\ CanFail(t, Head(cleanups[t]))
               /\ up'[t] = up[t] /\ stuck'[t] = stuck[t] \union {Head(cleanups[t])}
  BY DEF ShapeOK, RunCleanup, RemoveOk, RemoveFails

\* A step of a test that uses processes keeps what relates its cleanups.
LEMMA ProcessStep ==
  ASSUME ShapeOK, NEW t \in Tests, t \in Processes, ProcessInv(t), Step(t)
  PROVE  ProcessInv(t)'
<1> USE DEF ProcessInv, Goto, Add, OnCleanup, Fatal, others
<1>1. CASE Skip(t) \/ SeeAdminSocket(t) \/ AdminTimeout(t) \/ AgentReady(t) \/
           AgentTimeout(t) \/ SetupFails(t) \/ TestDone(t) \/ TestEnds(t)
  BY <1>1, Lengths DEF Skip, SeeAdminSocket, AdminTimeout, AgentReady,
     AgentTimeout, SetupFails, TestDone, TestEnds, ShapeOK, Containers
<1>2. CASE RunCleanup(t)
  <2>1. CASE cleanups[t] = D
    <3>1. Head(cleanups[t]) = "dir" /\ cleanups'[t] = <<>>
      BY <1>2, <2>1, OneCleanup, Ran
    <3>2. Len(cleanups[t]) = 1 /\ Len(cleanups'[t]) = 0
      BY <2>1, <3>1, Lengths
    <3> QED
      BY <1>2, <2>1, <3>1, <3>2, OneCleanup DEF CanFail, Containers
  <2>2. CASE cleanups[t] = SD
    <3>1. Head(cleanups[t]) = "server" /\ cleanups'[t] = D
      BY <1>2, <2>2, OneCleanup, Ran
    <3>2. Len(cleanups[t]) = 2 /\ Len(cleanups'[t]) = 1
      BY <2>2, <3>1, Lengths
    <3> QED
      BY <1>2, <2>2, <3>1, <3>2, OneCleanup DEF CanFail, Containers
  <2>3. CASE cleanups[t] = ASD
    <3>1. Head(cleanups[t]) = "agent" /\ cleanups'[t] = SD
      BY <1>2, <2>3, OneCleanup, Ran
    <3>2. Len(cleanups[t]) = 3 /\ Len(cleanups'[t]) = 2
      BY <2>3, <3>1, Lengths
    <3> QED
      BY <1>2, <2>3, <3>1, <3>2, OneCleanup DEF CanFail, Containers
  <2> QED
    BY <1>2, <2>1, <2>2, <2>3, OneCleanup
<1>3. CASE GenerateToken(t) \/ CreateEntry(t)
  BY <1>3, Lengths DEF GenerateToken, CreateEntry, ShapeOK, Containers
<1>4. CASE CreateDir(t)
  <2>1. cleanups'[t] = D
    BY <1>4, Registered DEF CreateDir, ShapeOK
  <2>2. pc'[t] = "server" /\ up'[t] = up[t] \union {"dir"}
        /\ port'[t] = port[t] /\ stuck'[t] = stuck[t] /\ cleanups[t] = <<>>
    BY <1>4 DEF CreateDir, ShapeOK
  <2>3. Len(cleanups[t]) = 0 /\ Len(cleanups'[t]) = 1
    BY <2>1, <2>2, Lengths
  <2> QED
    BY <2>1, <2>2, <2>3
<1>5. CASE StartServer(t)
  <2>1. cleanups'[t] = SD
    BY <1>5, Registered DEF StartServer, ShapeOK
  <2>2. /\ pc'[t] = "admin" /\ up'[t] = up[t] \union {"server"}
        /\ stuck'[t] = stuck[t] /\ cleanups[t] = D
    BY <1>5 DEF StartServer, ShapeOK
  <2>3. port'[t] \in Ports
    BY <1>5 DEF StartServer, ShapeOK
  <2>4. Len(cleanups[t]) = 1 /\ Len(cleanups'[t]) = 2
    BY <2>1, <2>2, <2>3, Lengths
  <2> QED
    BY <2>1, <2>2, <2>3, <2>4
<1>6. CASE StartAgent(t)
  <2>1. cleanups'[t] = ASD
    BY <1>6, Registered DEF StartAgent, ShapeOK
  <2>2. /\ pc'[t] = "wait" /\ up'[t] = up[t] \union {"agent"}
        /\ port'[t] = port[t] /\ stuck'[t] = stuck[t] /\ cleanups[t] = SD
    BY <1>6 DEF StartAgent, ShapeOK
  <2>3. Len(cleanups[t]) = 2 /\ Len(cleanups'[t]) = 3
    BY <2>1, <2>2, Lengths
  <2> QED
    BY <2>1, <2>2, <2>3
<1>7. CASE SocketTimeout(t) \/ CreateNetwork(t) \/ StartServerContainer(t) \/
           GenerateJoinToken(t) \/ StartAgentContainer(t) \/ SocketReady(t) \/
           CreateContainerEntry(t) \/ ContainerFails(t)
  BY <1>7, Lengths DEF SocketTimeout, CreateNetwork, StartServerContainer,
     GenerateJoinToken, StartAgentContainer, SocketReady, CreateContainerEntry,
     ContainerFails, ShapeOK, Containers
<1>8. CASE ServerSocket(t) \/ ServerBinds(t) \/ ServerExits(t) \/
           AgentAttests(t) \/ AgentExits(t)
  BY <1>8, Lengths DEF ServerSocket, ServerBinds, ServerExits, AgentAttests,
     AgentExits, ShapeOK, Containers
<1> QED
  BY <1>1, <1>2, <1>3, <1>4, <1>5, <1>6, <1>7, <1>8
     DEF Step, SetupStep, Timer

\* So does a step of a test that uses containers.
LEMMA ContainerStep ==
  ASSUME ShapeOK, NEW t \in Tests, t \in Containers, ContainerInv(t), Step(t)
  PROVE  ContainerInv(t)'
<1>0. t \notin Processes
  BY DEF Containers
<1> USE <1>0, TestsAssumption DEF ContainerInv, Started, Setup, Goto, Add, OnCleanup, Fatal, others
<1>1. CASE SeeAdminSocket(t) \/ AdminTimeout(t) \/ SocketTimeout(t) \/ TestDone(t)
  BY <1>1, Lengths DEF SeeAdminSocket, AdminTimeout, SocketTimeout, TestDone, ShapeOK
<1>2. CASE TestEnds(t)
  <2>1. /\ cleanups[t] = ASND
        /\ cleanups'[t] = cleanups[t] \/ cleanups'[t] = Removed \o cleanups[t]
    BY <1>2 DEF TestEnds, ShapeOK
  <2>2. /\ pc[t] = "test" /\ pc'[t] = "cleanup" /\ up'[t] = up[t] /\ stuck'[t] = stuck[t]
        /\ home'[t] = home[t] /\ token'[t] = token[t] /\ (ready'[t] <=> ready[t])
    BY <1>2 DEF TestEnds, ShapeOK
  <2>3. ready[t]
    BY <2>1, Longer, Zenon
  <2>4. CASE cleanups'[t] = ASND
    <3>1. Len(cleanups'[t]) = 4 /\ cleanups'[t] # <<>>
      BY <2>4, Lengths, Some, Zenon
    <3> QED
      BY <2>2, <2>3, <2>4, <3>1
  <2>5. CASE cleanups'[t] = ASNASND
    <3>1. Len(cleanups'[t]) = 7 /\ cleanups'[t] # <<>>
      BY <2>5, Lengths, Some, Zenon
    <3> QED
      BY <2>2, <2>3, <2>5, <3>1
  <2> QED
    BY <2>1, <2>4, <2>5, Registered
<1>3. CASE RunCleanup(t)
  <2>1. CASE cleanups[t] = D
    <3>1. Head(cleanups[t]) = "dir" /\ cleanups'[t] = <<>>
      BY <1>3, <2>1, OneCleanup, Ran
    <3>2. Len(cleanups[t]) = 1 /\ Len(cleanups'[t]) = 0
      BY <2>1, <3>1, Lengths
    <3>3. cleanups[t] = D \/ ready[t]
      BY <2>1
    <3> QED
      BY <1>3, <2>1, <3>1, <3>2, <3>3, OneCleanup
  <2>2. CASE cleanups[t] = ND
    <3>1. Head(cleanups[t]) = "network" /\ cleanups'[t] = D
      BY <1>3, <2>2, OneCleanup, Ran
    <3>2. Len(cleanups[t]) = 2 /\ Len(cleanups'[t]) = 1
      BY <2>2, <3>1, Lengths
    <3>3. ready[t] /\ cleanups'[t] # <<>>
      BY <2>2, <3>1, Longer, Some, Zenon
    <3> QED
      BY <1>3, <2>2, <3>1, <3>2, <3>3, OneCleanup
  <2>3. CASE cleanups[t] = SND
    <3>1. Head(cleanups[t]) = "server" /\ cleanups'[t] = ND
      BY <1>3, <2>3, OneCleanup, Ran
    <3>2. Len(cleanups[t]) = 3 /\ Len(cleanups'[t]) = 2
      BY <2>3, <3>1, Lengths
    <3>3. ready[t] /\ cleanups'[t] # <<>>
      BY <2>3, <3>1, Longer, Some, Zenon
    <3> QED
      BY <1>3, <2>3, <3>1, <3>2, <3>3, OneCleanup
  <2>4. CASE cleanups[t] = ASND
    <3>1. Head(cleanups[t]) = "agent" /\ cleanups'[t] = SND
      BY <1>3, <2>4, OneCleanup, Ran
    <3>2. Len(cleanups[t]) = 4 /\ Len(cleanups'[t]) = 3
      BY <2>4, <3>1, Lengths
    <3>3. ready[t] /\ cleanups'[t] # <<>>
      BY <2>4, <3>1, Longer, Some, Zenon
    <3> QED
      BY <1>3, <2>4, <3>1, <3>2, <3>3, OneCleanup
  <2>5. CASE cleanups[t] = NASND
    <3>1. Head(cleanups[t]) = "network" /\ cleanups'[t] = ASND
      BY <1>3, <2>5, OneCleanup, Ran
    <3>2. Len(cleanups[t]) = 5 /\ Len(cleanups'[t]) = 4
      BY <2>5, <3>1, Lengths
    <3>3. ready[t] /\ cleanups'[t] # <<>>
      BY <2>5, <3>1, Longer, Some, Zenon
    <3> QED
      BY <1>3, <2>5, <3>1, <3>2, <3>3, OneCleanup
  <2>6. CASE cleanups[t] = SNASND
    <3>1. Head(cleanups[t]) = "server" /\ cleanups'[t] = NASND
      BY <1>3, <2>6, OneCleanup, Ran
    <3>2. Len(cleanups[t]) = 6 /\ Len(cleanups'[t]) = 5
      BY <2>6, <3>1, Lengths
    <3>3. ready[t] /\ cleanups'[t] # <<>>
      BY <2>6, <3>1, Longer, Some, Zenon
    <3> QED
      BY <1>3, <2>6, <3>1, <3>2, <3>3, OneCleanup
  <2>7. CASE cleanups[t] = ASNASND
    <3>1. Head(cleanups[t]) = "agent" /\ cleanups'[t] = SNASND
      BY <1>3, <2>7, OneCleanup, Ran
    <3>2. Len(cleanups[t]) = 7 /\ Len(cleanups'[t]) = 6
      BY <2>7, <3>1, Lengths
    <3>3. ready[t] /\ cleanups'[t] # <<>>
      BY <2>7, <3>1, Longer, Some, Zenon
    <3> QED
      BY <1>3, <2>7, <3>1, <3>2, <3>3, OneCleanup
  <2> QED
    BY <1>3, <2>1, <2>2, <2>3, <2>4, <2>5, <2>6, <2>7, OneCleanup
<1>4. CASE Skip(t) \/ AgentReady(t) \/ AgentTimeout(t) \/ SetupFails(t) \/
           ServerSocket(t) \/ ServerBinds(t) \/ ServerExits(t) \/
           AgentAttests(t) \/ AgentExits(t) \/ CreateDir(t) \/
           StartServer(t) \/ GenerateToken(t) \/ StartAgent(t) \/ CreateEntry(t)
  BY <1>4 DEF Skip, AgentReady, AgentTimeout, SetupFails, ServerSocket, ServerBinds, ServerExits,
     AgentAttests, AgentExits, CreateDir, StartServer, GenerateToken, StartAgent, CreateEntry
<1>5. CASE CreateNetwork(t) \/ StartServerContainer(t) \/ GenerateJoinToken(t) \/ SocketReady(t)
  BY <1>5, Lengths DEF CreateNetwork, StartServerContainer, GenerateJoinToken, SocketReady, ShapeOK
<1>6. CASE StartAgentContainer(t)
  <2>1. cleanups'[t] = D
    BY <1>6, Registered DEF StartAgentContainer, ShapeOK
  <2>2. /\ pc[t] = "agent" /\ pc'[t] = "wait" /\ up'[t] = up[t] \union {"dir", "agent"}
        /\ stuck'[t] = stuck[t] /\ home'[t] = t /\ token'[t] = token[t] /\ (ready'[t] <=> ready[t])
    BY <1>6 DEF StartAgentContainer, ShapeOK
  <2>3. cleanups'[t] # <<>> /\ ~ready[t]
    BY <2>1, <2>2, Some, Zenon
  <2> QED
    BY <2>1, <2>2, <2>3
<1>7. CASE CreateContainerEntry(t)
  <2>1. cleanups'[t] = ASND
    BY <1>7, Registered DEF CreateContainerEntry, RegisterCleanup, ShapeOK
  <2>2. /\ pc'[t] = "test" /\ up'[t] = up[t] /\ stuck'[t] = stuck[t] /\ home'[t] = home[t]
        /\ ready'[t]
    BY <1>7 DEF CreateContainerEntry, RegisterCleanup, ShapeOK
  <2>3. Len(cleanups'[t]) = 4 /\ cleanups'[t] # <<>>
    BY <2>1, Lengths, Some, Zenon
  <2> QED
    BY <2>1, <2>2, <2>3
<1>8. CASE ContainerFails(t)
  <2>1. /\ pc'[t] = "cleanup" /\ pc[t] \in {"network", "server", "token", "agent"}
        /\ cleanups[t] = <<>> /\ ~ready[t]
        /\ up[t] \subseteq up'[t] /\ stuck'[t] = stuck[t] /\ home'[t] = home[t]
        /\ token'[t] = token[t] /\ (ready'[t] <=> ready[t])
    BY <1>8 DEF ContainerFails, ShapeOK
  <2>2. \/ cleanups'[t] = <<>> /\ (up'[t] = up[t] \/ up'[t] = up[t] \union {"server"})
        \/ cleanups'[t] = D
    BY <1>8, <2>1, Registered DEF ContainerFails, ShapeOK
  <2>3. D # <<>>
    BY Some, Zenon
  <2>4. "dir" \notin up[t] \ stuck[t]
    BY <2>1
  <2>5. "dir" \in up'[t] \ stuck'[t] => cleanups'[t] # <<>>
    BY <2>1, <2>2, <2>3, <2>4
  <2>6. cleanups'[t] \in {<<>>, D} /\ Started(t)' \subseteq up'[t]
    <3>1. Started(t)' = Started(t)
      BY <2>1
    <3>2. Started(t) \subseteq up[t]
      BY <2>1, Zenon
    <3> QED
      BY <2>1, <2>2, <3>1, <3>2, Zenon
  <2> QED
    BY <2>1, <2>5, <2>6
<1> QED
  BY <1>1, <1>2, <1>3, <1>4, <1>5, <1>6, <1>7, <1>8
     DEF Step, SetupStep, Timer

\* A step keeps tokens and agents with their own server: an agent attests to the
\* server that made its token, and to no other.
LEMMA OwnStep ==
  ASSUME ShapeOK, NEW t \in Tests, OwnInv(t), t \in Containers => ContainerInv(t), Step(t)
  PROVE  OwnInv(t)'
<1> USE TestsAssumption DEF ShapeOK, OwnInv, Goto, Add, OnCleanup, Fatal, others
<1>1. CASE Skip(t) \/ SeeAdminSocket(t) \/ AdminTimeout(t) \/ AgentReady(t) \/
           AgentTimeout(t) \/ SetupFails(t) \/ SocketTimeout(t) \/ TestDone(t)
  BY <1>1 DEF Skip, SeeAdminSocket, AdminTimeout, AgentReady, AgentTimeout,
     SetupFails, SocketTimeout, TestDone
<1>2. CASE CreateDir(t) \/ StartServer(t) \/ GenerateToken(t) \/
           StartAgent(t) \/ CreateEntry(t)
  BY <1>2 DEF CreateDir, StartServer, GenerateToken, StartAgent, CreateEntry
<1>3. CASE CreateNetwork(t) \/ StartServerContainer(t) \/ GenerateJoinToken(t)
  BY <1>3 DEF CreateNetwork, StartServerContainer, GenerateJoinToken
<1>4. CASE StartAgentContainer(t) \/ SocketReady(t)
  BY <1>4 DEF StartAgentContainer, SocketReady, ContainerInv
<1>5. CASE CreateContainerEntry(t) \/ ContainerFails(t)
  BY <1>5 DEF CreateContainerEntry, RegisterCleanup, ContainerFails
<1>6. CASE TestEnds(t) \/ RunCleanup(t)
  BY <1>6 DEF TestEnds, RunCleanup, RemoveOk, RemoveFails
<1>7. CASE ServerSocket(t) \/ ServerBinds(t) \/ ServerExits(t) \/
           AgentAttests(t) \/ AgentExits(t)
  BY <1>7 DEF ServerSocket, ServerBinds, ServerExits, AgentAttests, AgentExits
<1> QED
  BY <1>1, <1>2, <1>3, <1>4, <1>5, <1>6, <1>7
     DEF Step, SetupStep, Timer

-----------------------------------------------------------------------------

\* The inductive invariant holds throughout.
THEOREM InvCorrect == Spec => []IInv
<1>1. Init => IInv
  <2> SUFFICES ASSUME Init PROVE IInv
    OBVIOUS
  <2>1. ShapeOK
    BY DEF Init, ShapeOK, Setup, Resources
  <2>2. ASSUME NEW t \in Tests PROVE TestInv(t)
    <3>1. t \in Processes => ProcessInv(t)
      BY DEF Init, ProcessInv
    <3>2. t \in Containers => ContainerInv(t)
      BY TestsAssumption, Lengths DEF Init, ContainerInv, Started, Containers, Setup
    <3> QED
      BY <3>1, <3>2 DEF Init, TestInv, OwnInv
  <2> QED
    BY <2>1, <2>2 DEF IInv
<1>2. IInv /\ [Next]_vars => IInv'
  <2> SUFFICES ASSUME IInv, [Next]_vars PROVE IInv'
    OBVIOUS
  <2>1. CASE UNCHANGED vars
    <3>1. ShapeOK'
      BY <2>1 DEF IInv, ShapeOK, vars, others
    <3>2. ASSUME NEW t \in Tests PROVE TestInv(t)'
      BY <2>1 DEF IInv, vars, others, TestInv, ProcessInv, ContainerInv, Started, OwnInv,
                  Processes, Containers
    <3> QED
      BY <3>1, <3>2 DEF IInv
  <2>2. CASE Next
    <3>1. PICK t \in Tests : Step(t)
      BY <2>2 DEF Next, Step
    <3>2. ShapeOK'
      BY <3>1, ShapeStep DEF IInv, TestInv
    <3>3. Processes' = Processes /\ Containers' = Containers
      BY <3>1, Others DEF IInv, Processes, Containers
    <3>4. TestInv(t)'
      BY <3>1, <3>3, ProcessStep, ContainerStep, OwnStep DEF IInv, TestInv
    <3>5. ASSUME NEW u \in Tests \ {t} PROVE TestInv(u)'
      <4>1. TestInv(u)
        BY DEF IInv
      <4>2. /\ pc'[u] = pc[u] /\ up'[u] = up[u] /\ cleanups'[u] = cleanups[u]
            /\ stuck'[u] = stuck[u] /\ (ready'[u] <=> ready[u])
            /\ port'[u] = port[u] /\ sock'[u] = sock[u] /\ token'[u] = token[u] /\ home'[u] = home[u]
        BY <3>1, Others DEF IInv
      <4>3. u \in Processes => ProcessInv(u)'
        BY <4>1, <4>2 DEF TestInv, ProcessInv
      <4>4. u \in Containers => ContainerInv(u)'
        BY <4>1, <4>2 DEF TestInv, ContainerInv, Started
      <4>5. OwnInv(u)'
        BY <4>1, <4>2 DEF TestInv, OwnInv
      <4> QED
        BY <3>3, <4>3, <4>4, <4>5 DEF TestInv
    <3> QED
      BY <3>2, <3>4, <3>5 DEF IInv
  <2> QED
    BY <2>1, <2>2
<1> QED
  BY <1>1, <1>2, PTL DEF Spec

\* Every variable keeps its type, and at most seven removals are pending.
THEOREM TypeCorrect == Spec => []TypeOK
<1>1. IInv => TypeOK
  <2> SUFFICES ASSUME IInv PROVE TypeOK
    OBVIOUS
  <2>1. ASSUME NEW t \in Tests
        PROVE  cleanups[t] \in {<<>>, D, SD, ASD, ND, SND, ASND, NASND, SNASND, ASNASND}
    BY Kinded DEF IInv, ShapeOK, TestInv, ProcessInv, ContainerInv
  <2>2. ASSUME NEW t \in Tests
        PROVE  cleanups[t] \in Seq(Resources) /\ Len(cleanups[t]) <= 7
    <3>1. cleanups[t] \in Seq(Resources)
      BY <2>1, ProcessSeqs, ContainerSeqs
    <3> DEFINE n == Len(cleanups[t])
    <3>2. n \in {0, 1, 2, 3, 4, 5, 6, 7}
      BY <2>1, Lengths, Zenon
    <3> HIDE DEF n
    <3>3. n <= 7
      BY <3>2
    <3> QED
      BY <3>1, <3>3 DEF n
  <2> QED
    BY <2>2 DEF IInv, ShapeOK, TypeOK
<1> QED
  BY <1>1, InvCorrect, PTL

\* A finished test leaves what could not be removed, and after a failed setup of
\* containers all that this had started.
THEOREM LeftBehindCorrect == Spec => []LeftBehind
<1>1. IInv => LeftBehind
  <2> SUFFICES ASSUME IInv, NEW t \in Tests, pc[t] = "done"
               PROVE  IF t \in Processes \/ ready[t]
                      THEN up[t] \subseteq stuck[t]
                      ELSE Started(t) \subseteq up[t] /\ up[t] \intersect {"dir"} \subseteq stuck[t]
    BY DEF LeftBehind
  <2>1. up[t] \subseteq Resources
    BY DEF IInv, ShapeOK
  <2>2. CASE t \in Processes
    <3>1. ProcessInv(t)
      BY <2>2 DEF IInv, TestInv
    <3>2. cleanups[t] = <<>> /\ Len(cleanups[t]) = 0
      BY <3>1, Lengths DEF ProcessInv
    <3> QED
      BY <2>1, <2>2, <3>1, <3>2 DEF ProcessInv, Resources
  <2>3. CASE t \in Containers
    <3>1. ContainerInv(t) /\ t \notin Processes
      BY <2>3 DEF IInv, TestInv, Containers
    <3>2. cleanups[t] = <<>> /\ Len(cleanups[t]) = 0
      BY <3>1, Lengths DEF ContainerInv
    <3>3. "dir" \notin up[t] \ stuck[t] /\ (~ready[t] => Started(t) \subseteq up[t])
      BY <3>1, <3>2 DEF ContainerInv
    <3>4. ready[t] => up[t] \subseteq stuck[t]
      BY <2>1, <3>1, <3>2, <3>3 DEF ContainerInv, Resources
    <3> QED
      BY <3>1, <3>3, <3>4
  <2> QED
    BY <2>2, <2>3, Kinded DEF IInv, ShapeOK
<1> QED
  BY <1>1, InvCorrect, PTL

\* The directory goes after the processes that write to it.
THEOREM DirectoryGoesLast == Spec => []DirectoryLast
<1>1. IInv => DirectoryLast
  <2> SUFFICES ASSUME IInv, NEW t \in Processes, "dir" \notin up[t]
               PROVE  up[t] \intersect {"server", "agent"} = {}
    BY DEF DirectoryLast
  <2>1. ProcessInv(t)
    BY DEF IInv, TestInv, Processes
  <2> QED
    BY <2>1, Lengths DEF ProcessInv
<1> QED
  BY <1>1, InvCorrect, PTL

\* An agent was attested by the server of its own test.
THEOREM AgentsAtHome == Spec => []OwnServer
<1>1. IInv => OwnServer
  BY DEF IInv, TestInv, OwnInv, OwnServer
<1> QED
  BY <1>1, InvCorrect, PTL

-----------------------------------------------------------------------------
(***************************************************************************)
(* Progress. WF_vars(A) obliges A when ENABLED <<A>>_vars holds, which the *)
(* provers do not compute. GuardsEnable states it for each fair action: an *)
(* action whose guard holds can be taken. TLC checks GuardsEnable as an    *)
(* invariant of this module with the constants of any cfg.                 *)
(***************************************************************************)

\* What a step of the machine can do: set up, or remove.
LocalGuard(t) == /\ ~Hangs(t)
                 /\ \/ pc[t] \in {"dir", "server", "agent"}
                    \/ pc[t] = "cleanup" /\ cleanups[t] # <<>>

TestEnabled(t) ==
  /\ LocalGuard(t) => ENABLED <<Local(t)>>_vars
  /\ pc[t] \in {"admin", "wait"} => ENABLED <<Timer(t)>>_vars
  /\ pc[t] = "test" => ENABLED <<TestEnds(t)>>_vars
  /\ pc[t] = "cleanup" /\ cleanups[t] = <<>> => ENABLED <<TestDone(t)>>_vars

GuardsEnable == \A t \in Tests : TestEnabled(t)

\* What a test is owed, out of the conjunction.
LEMMA Owed == FairSpec => \A t \in Tests : TestRuns(t)
  BY PTL DEF FairSpec

\* Where each step of a test leads.
LEMMA Leads ==
  ASSUME ShapeOK, NEW t \in Tests, Step(t)
  PROVE  \/ pc'[t] = pc[t] /\ cleanups'[t] = cleanups[t]
         \/ pc[t] \in {"dir", "network"} /\ pc'[t] \in {"server", "cleanup", "done"}
         \/ pc[t] = "server" /\ pc'[t] \in {"admin", "token", "cleanup"}
         \/ pc[t] = "admin" /\ pc'[t] \in {"token", "cleanup"}
         \/ pc[t] = "token" /\ pc'[t] \in {"agent", "cleanup"}
         \/ pc[t] = "agent" /\ pc'[t] \in {"wait", "cleanup"}
         \/ pc[t] = "wait" /\ pc'[t] \in {"entry", "cleanup"}
         \/ pc[t] = "entry" /\ pc'[t] = "test"
         \/ pc[t] = "test" /\ pc'[t] = "cleanup"
         \/ /\ pc[t] = "cleanup" /\ pc'[t] = "cleanup"
            /\ cleanups[t] # <<>> /\ cleanups'[t] = Tail(cleanups[t])
         \/ pc[t] = "cleanup" /\ pc'[t] = "done" /\ cleanups[t] = <<>>
<1> USE DEF ShapeOK, Goto, OnCleanup, Fatal, others
<1>1. CASE SetupStep(t) \/ Skip(t)
  BY <1>1 DEF Skip, SetupStep, CreateDir, StartServer, SeeAdminSocket, GenerateToken, StartAgent,
     AgentReady, CreateEntry, SetupFails, CreateNetwork, StartServerContainer, GenerateJoinToken,
     StartAgentContainer, CreateContainerEntry, RegisterCleanup,
     ContainerFails
<1>2. CASE Timer(t) \/ SocketReady(t) \/ TestEnds(t) \/ TestDone(t)
  BY <1>2 DEF Timer, AdminTimeout, AgentTimeout, SocketTimeout, SocketReady, TestEnds, TestDone
<1>3. CASE RunCleanup(t)
  BY <1>3 DEF RunCleanup
<1>4. CASE ServerSocket(t) \/ ServerBinds(t) \/ ServerExits(t) \/ AgentAttests(t) \/ AgentExits(t)
  BY <1>4 DEF ServerSocket, ServerBinds, ServerExits, AgentAttests, AgentExits
<1> QED
  BY <1>1, <1>2, <1>3, <1>4 DEF Step

\* A step of the test's own moves it.
LEMMA Advances ==
  ASSUME ShapeOK, NEW t \in Tests, SetupStep(t) \/ Timer(t) \/ TestEnds(t) \/ TestDone(t)
  PROVE  pc'[t] # pc[t]
<1> USE DEF ShapeOK, Goto, Fatal
<1>1. CASE SetupStep(t)
  BY <1>1 DEF SetupStep, CreateDir, StartServer, SeeAdminSocket, GenerateToken, StartAgent,
     AgentReady, CreateEntry, SetupFails, CreateNetwork, StartServerContainer, GenerateJoinToken,
     StartAgentContainer, CreateContainerEntry, RegisterCleanup,
     ContainerFails
<1>2. CASE Timer(t) \/ TestEnds(t) \/ TestDone(t)
  BY <1>2 DEF Timer, AdminTimeout, AgentTimeout, SocketTimeout, TestEnds, TestDone
<1> QED
  BY <1>1, <1>2

\* The cleanups that are pending, n of them.
Pending(t, n) == pc[t] = "cleanup" /\ Len(cleanups[t]) = n

\* At most seven removals are pending, and each one that runs leaves one less.
LEMMA Pended ==
  ASSUME TypeOK, NEW t \in Tests
  PROVE  /\ pc[t] = "cleanup" => \E n \in 0 .. 7 : Pending(t, n)
         /\ (cleanups[t] = <<>>) <=> (Len(cleanups[t]) = 0)
         /\ cleanups[t] # <<>> => Len(Tail(cleanups[t])) = Len(cleanups[t]) - 1
<1>1. cleanups[t] \in Seq(Resources) /\ Len(cleanups[t]) <= 7
  BY DEF TypeOK
<1>2. Len(cleanups[t]) \in 0 .. 7
  <2> DEFINE n == Len(cleanups[t])
  <2>1. n \in Nat /\ n <= 7
    BY <1>1, LenProperties
  <2> HIDE DEF n
  <2>2. n \in 0 .. 7
    BY <2>1
  <2> QED
    BY <2>2 DEF n
<1>3. (cleanups[t] = <<>>) <=> (Len(cleanups[t]) = 0)
  BY <1>1, EmptySeq
<1>4. cleanups[t] # <<>> => Len(Tail(cleanups[t])) = Len(cleanups[t]) - 1
  BY <1>1, HeadTailProperties
<1>5. pc[t] = "cleanup" => Pending(t, Len(cleanups[t]))
  BY DEF Pending
<1> QED
  BY <1>2, <1>3, <1>4, <1>5

\* Every test comes to its end, whether SPIRE comes up or not (spire.go:307, 408;
\* containers.go:362), unless it waits for ever in a call without a deadline: its
\* waits are timed, a step that fails ends it, and its cleanups are finitely many.
THEOREM TestsFinish == FairSpec /\ []GuardsEnable => TestsEnd
<1> SUFFICES ASSUME NEW t \in Tests
             PROVE  FairSpec /\ []GuardsEnable => <>(pc[t] = "done") \/ <>[]Hangs(t)
  BY DEF TestsEnd
<1> DEFINE First   == pc[t] \in {"dir", "network"}
           Server  == pc[t] = "server"
           Admin   == pc[t] = "admin"
           Token   == pc[t] = "token"
           Agent   == pc[t] = "agent"
           Waiting == pc[t] = "wait"
           Entry   == pc[t] = "entry"
           Testing == pc[t] = "test"
           Cleans  == pc[t] = "cleanup"
           Done    == pc[t] = "done"
           C(n)    == Pending(t, n)
           H       == Hangs(t)
           Goes    == <<Local(t)>>_vars
           Fires   == <<Timer(t)>>_vars
           Ends    == <<TestEnds(t)>>_vars
           IsDone  == <<TestDone(t)>>_vars
           Good    == IInv /\ TypeOK
<1>1. ShapeOK /\ [Next]_vars =>
        \/ pc'[t] = pc[t] /\ cleanups'[t] = cleanups[t]
        \/ Step(t)
  <2>1. ShapeOK /\ UNCHANGED vars => pc'[t] = pc[t] /\ cleanups'[t] = cleanups[t]
    BY DEF vars, others
  <2>2. ASSUME ShapeOK, NEW u \in Tests, u # t, Step(u)
        PROVE  pc'[t] = pc[t] /\ cleanups'[t] = cleanups[t]
    BY <2>2, Others
  <2>3. ShapeOK /\ Next => (pc'[t] = pc[t] /\ cleanups'[t] = cleanups[t]) \/ Step(t)
    BY <2>2 DEF Next, Step
  <2> QED
    BY <2>1, <2>3
<1>2. ShapeOK /\ [Next]_vars /\ pc'[t] = pc[t] /\ cleanups'[t] = cleanups[t] => (H' <=> H)
  <2>1. ShapeOK /\ [Next]_vars => kind' = kind
    BY Others DEF Next, Step, vars, others
  <2> QED
    BY <2>1 DEF Hangs, Processes
<1>3. Good => /\ ShapeOK
              /\ \/ First \/ Server \/ Admin \/ Token \/ Agent \/ Waiting \/ Entry
                 \/ Testing \/ Cleans \/ Done
  BY DEF IInv, ShapeOK, Setup
<1>4. Good => (Cleans <=> C(0) \/ C(1) \/ C(2) \/ C(3) \/ C(4) \/ C(5) \/ C(6) \/ C(7))
  <2>1. Good /\ Cleans => \E n \in 0 .. 7 : C(n)
    BY Pended
  <2>2. 0 .. 7 = {0, 1, 2, 3, 4, 5, 6, 7}
    OBVIOUS
  <2> QED
    BY <2>1, <2>2 DEF Pending
<1>5. /\ Good /\ First   /\ [Next]_vars => (First' /\ (H' <=> H)) \/ Server' \/ Cleans' \/ Done'
      /\ Good /\ Server  /\ [Next]_vars => (Server' /\ (H' <=> H)) \/ Admin' \/ Token' \/ Cleans'
      /\ Good /\ Agent   /\ [Next]_vars => (Agent' /\ (H' <=> H)) \/ Waiting' \/ Cleans'
  BY <1>1, <1>2, Leads DEF IInv
<1>6. /\ Good /\ Admin   /\ [Next]_vars => Admin' \/ Token' \/ Cleans'
      /\ Good /\ Token   /\ [Next]_vars => Token' \/ Agent' \/ Cleans'
      /\ Good /\ Waiting /\ [Next]_vars => Waiting' \/ Entry' \/ Cleans'
      /\ Good /\ Entry   /\ [Next]_vars => Entry' \/ Testing'
      /\ Good /\ Testing /\ [Next]_vars => Testing' \/ Cleans'
  BY <1>1, Leads DEF IInv
<1>7. Token \/ Entry => H
  BY DEF Hangs
<1>8. ASSUME NEW n \in 1 .. 7
      PROVE  Good /\ C(n) /\ [Next]_vars => (C(n)' /\ (H' <=> H)) \/ C(n - 1)'
  <2> SUFFICES ASSUME Good, C(n), [Next]_vars PROVE (C(n)' /\ (H' <=> H)) \/ C(n - 1)'
    OBVIOUS
  <2>1. pc[t] = "cleanup" /\ Len(cleanups[t]) = n /\ cleanups[t] # <<>>
    BY Pended DEF Pending
  <2>2. \/ pc'[t] = pc[t] /\ cleanups'[t] = cleanups[t]
        \/ pc'[t] = "cleanup" /\ cleanups'[t] = Tail(cleanups[t])
    BY <1>1, <2>1, Leads DEF IInv
  <2>3. pc'[t] = pc[t] /\ cleanups'[t] = cleanups[t] => C(n)' /\ (H' <=> H)
    <3>1. pc'[t] = pc[t] /\ cleanups'[t] = cleanups[t] => (H' <=> H)
      BY <1>2 DEF IInv
    <3> QED
      BY <2>1, <3>1 DEF Pending
  <2>4. pc'[t] = "cleanup" /\ cleanups'[t] = Tail(cleanups[t]) => C(n - 1)'
    <3>1. Len(Tail(cleanups[t])) = n - 1
      BY <2>1, Pended
    <3> QED
      BY <3>1 DEF Pending
  <2> QED
    BY <2>2, <2>3, <2>4
<1>9. Good /\ C(0) /\ [Next]_vars => C(0)' \/ Done'
  <2> SUFFICES ASSUME Good, C(0), [Next]_vars PROVE C(0)' \/ Done'
    OBVIOUS
  <2>1. pc[t] = "cleanup" /\ Len(cleanups[t]) = 0 /\ cleanups[t] = <<>>
    BY Pended DEF Pending
  <2>2. pc'[t] = "done" \/ (pc'[t] = pc[t] /\ cleanups'[t] = cleanups[t])
    BY <1>1, <2>1, Leads DEF IInv
  <2> QED
    BY <2>1, <2>2 DEF Pending
<1>10. /\ Good /\ First   /\ Goes => Server' \/ Cleans' \/ Done'
       /\ Good /\ Server  /\ Goes => Admin' \/ Token' \/ Cleans'
       /\ Good /\ Agent   /\ Goes => Waiting' \/ Cleans'
       /\ Good /\ Admin   /\ Fires => Token' \/ Cleans'
       /\ Good /\ Waiting /\ Fires => Entry' \/ Cleans'
       /\ Good /\ Testing /\ Ends => Cleans'
  <2>1. SetupStep(t) \/ Timer(t) \/ TestEnds(t) => Step(t)
    BY DEF Step
  <2>2. Goes /\ pc[t] # "cleanup" => SetupStep(t)
    BY DEF Local, RunCleanup
  <2>3. Good /\ First /\ Goes => Server' \/ Cleans' \/ Done'
    BY <2>1, <2>2, Leads, Advances DEF IInv
  <2>4. /\ Good /\ Server  /\ Goes => Admin' \/ Token' \/ Cleans'
        /\ Good /\ Agent   /\ Goes => Waiting' \/ Cleans'
    BY <2>1, <2>2, Leads, Advances DEF IInv
  <2>5. /\ Good /\ Admin   /\ Fires => Token' \/ Cleans'
        /\ Good /\ Waiting /\ Fires => Entry' \/ Cleans'
        /\ Good /\ Testing /\ Ends => Cleans'
    BY <2>1, Leads, Advances DEF IInv
  <2> QED
    BY <2>3, <2>4, <2>5
<1>11. ASSUME NEW n \in 1 .. 7
       PROVE  Good /\ C(n) /\ Goes => C(n - 1)'
  <2> SUFFICES ASSUME Good, C(n), Goes PROVE C(n - 1)'
    OBVIOUS
  <2>1. pc[t] = "cleanup" /\ Len(cleanups[t]) = n /\ cleanups[t] # <<>>
    BY Pended DEF Pending
  <2>2. ~SetupStep(t)
    <3> SUFFICES ASSUME SetupStep(t) PROVE FALSE
      OBVIOUS
    <3> QED
      BY <2>1, Leads, Advances DEF IInv, Step
  <2>3. pc'[t] = "cleanup" /\ cleanups'[t] = Tail(cleanups[t])
    BY <2>2, OneCleanup DEF IInv, Local
  <2>4. Len(Tail(cleanups[t])) = n - 1
    BY <2>1, Pended
  <2> QED
    BY <2>3, <2>4 DEF Pending
<1>12. Good /\ C(0) /\ IsDone => Done'
  BY DEF TestDone, Goto, IInv, ShapeOK
<1>13. /\ Good /\ (First \/ Server \/ Agent) /\ ~H => LocalGuard(t)
       /\ Admin \/ Waiting => pc[t] \in {"admin", "wait"}
       /\ Testing => pc[t] = "test"
       /\ Good /\ C(0) => pc[t] = "cleanup" /\ cleanups[t] = <<>>
  <2>1. Good /\ pc[t] = "network" => H
    BY Kinded DEF IInv, ShapeOK, TestInv, ProcessInv, Hangs, Containers
  <2>2. Good /\ (First \/ Server \/ Agent) /\ ~H => LocalGuard(t)
    BY <2>1 DEF LocalGuard
  <2> QED
    BY <2>2, Pended DEF Pending
<1>14. ASSUME NEW n \in 1 .. 7
       PROVE  Good /\ C(n) /\ ~H => LocalGuard(t)
  BY Pended DEF Pending, LocalGuard
<1>15. FairSpec => TestRuns(t)
  BY Owed
<1>16. GuardsEnable => TestEnabled(t)
  BY DEF GuardsEnable
<1>17. FairSpec => []Good
  BY InvCorrect, TypeCorrect, PTL DEF FairSpec
<1>18. /\ Good /\ C(7) /\ [Next]_vars => (C(7)' /\ (H' <=> H)) \/ C(6)'
       /\ Good /\ C(6) /\ [Next]_vars => (C(6)' /\ (H' <=> H)) \/ C(5)'
       /\ Good /\ C(5) /\ [Next]_vars => (C(5)' /\ (H' <=> H)) \/ C(4)'
       /\ Good /\ C(4) /\ [Next]_vars => (C(4)' /\ (H' <=> H)) \/ C(3)'
       /\ Good /\ C(3) /\ [Next]_vars => (C(3)' /\ (H' <=> H)) \/ C(2)'
       /\ Good /\ C(2) /\ [Next]_vars => (C(2)' /\ (H' <=> H)) \/ C(1)'
       /\ Good /\ C(1) /\ [Next]_vars => (C(1)' /\ (H' <=> H)) \/ C(0)'
  <2> HIDE DEF C, H
  <2> QED
    BY <1>8
<1>19. /\ Good /\ C(7) /\ Goes => C(6)'
       /\ Good /\ C(6) /\ Goes => C(5)'
       /\ Good /\ C(5) /\ Goes => C(4)'
       /\ Good /\ C(4) /\ Goes => C(3)'
       /\ Good /\ C(3) /\ Goes => C(2)'
       /\ Good /\ C(2) /\ Goes => C(1)'
       /\ Good /\ C(1) /\ Goes => C(0)'
       /\ Good /\ (C(1) \/ C(2) \/ C(3) \/ C(4) \/ C(5) \/ C(6) \/ C(7)) /\ ~H => LocalGuard(t)
  <2> HIDE DEF C, H
  <2> QED
    BY <1>11, <1>14
<1> HIDE DEF Good, H, C, First, Server, Admin, Token, Agent, Waiting, Entry, Testing, Cleans, Done
<1>20. FairSpec /\ []GuardsEnable /\ []<>~H => (C(7) \/ C(6) ~> C(5))
  BY <1>18, <1>19, <1>15, <1>16, <1>17, PTL DEF FairSpec, Spec, TestRuns, TestEnabled
<1>21. FairSpec /\ []GuardsEnable /\ []<>~H => (C(5) \/ C(4) ~> C(3))
  BY <1>18, <1>19, <1>15, <1>16, <1>17, PTL DEF FairSpec, Spec, TestRuns, TestEnabled
<1>22. FairSpec /\ []GuardsEnable /\ []<>~H => (C(3) \/ C(2) ~> C(1))
  BY <1>18, <1>19, <1>15, <1>16, <1>17, PTL DEF FairSpec, Spec, TestRuns, TestEnabled
<1>23. FairSpec /\ []GuardsEnable /\ []<>~H => (C(1) \/ C(0) ~> Done)
  BY <1>9, <1>12, <1>13, <1>18, <1>19, <1>15, <1>16, <1>17, PTL DEF FairSpec, Spec, TestRuns, TestEnabled
<1>24. FairSpec /\ []GuardsEnable /\ []<>~H => (Cleans ~> Done)
  BY <1>4, <1>17, <1>20, <1>21, <1>22, <1>23, PTL
<1>25. FairSpec /\ []GuardsEnable /\ []<>~H => (Testing ~> Cleans)
  BY <1>6, <1>10, <1>13, <1>15, <1>16, <1>17, PTL DEF FairSpec, Spec, TestRuns, TestEnabled
<1>26. FairSpec /\ []<>~H => (Entry ~> Testing) /\ (Token ~> Agent \/ Cleans)
  BY <1>6, <1>7, <1>17, PTL DEF FairSpec, Spec
<1>27. FairSpec /\ []GuardsEnable /\ []<>~H => ((Waiting ~> Entry \/ Cleans) /\ (Admin ~> Token \/ Cleans))
  BY <1>6, <1>10, <1>13, <1>15, <1>16, <1>17, PTL DEF FairSpec, Spec, TestRuns, TestEnabled
<1>28. FairSpec /\ []GuardsEnable /\ []<>~H => (Agent ~> Waiting \/ Cleans)
  BY <1>5, <1>10, <1>13, <1>15, <1>16, <1>17, PTL DEF FairSpec, Spec, TestRuns, TestEnabled
<1>29. FairSpec /\ []GuardsEnable /\ []<>~H => (Server ~> Admin \/ Token \/ Cleans)
  BY <1>5, <1>10, <1>13, <1>15, <1>16, <1>17, PTL DEF FairSpec, Spec, TestRuns, TestEnabled
<1>30. FairSpec /\ []GuardsEnable /\ []<>~H => (First ~> Server \/ Cleans \/ Done)
  BY <1>5, <1>10, <1>13, <1>15, <1>16, <1>17, PTL DEF FairSpec, Spec, TestRuns, TestEnabled
<1>31. FairSpec /\ []GuardsEnable /\ []<>~H => <>Done
  BY <1>3, <1>17, <1>24, <1>25, <1>26, <1>27, <1>28, <1>29, <1>30, PTL
<1>32. FairSpec /\ []GuardsEnable => <>Done \/ <>[]H
  BY <1>31, PTL
<1> QED
  BY <1>32 DEF Done, H
=============================================================================
