---------------------------- MODULE CommandLine -----------------------------
(***************************************************************************)
(* The command line, cmd/e5s: from the words a shell passes to the exit    *)
(* status and the standard output, with the calls to kubectl and helm      *)
(* between them, each of which may fail or hang.  ConfigPolicy is what     *)
(* "validate" and "client request" do with a file.                         *)
(*                                                                         *)
(* The script of cmd/e5s/README.md, "Example 1", is modelled too: discover *)
(* a client's ID, put the output into a file, validate it, deploy a server *)
(* with it.  It checks no exit status, and neither does the model.         *)
(*                                                                         *)
(* "deploy" has a module of its own, Deploy.                               *)
(***************************************************************************)
EXTENDS ConfigPolicy, FiniteSets, Integers, Sequences

CONSTANTS Namespaces, Accounts, \* of Kubernetes, service accounts
          Current,     \* the namespace of kubectl's context
          IdOf,        \* the SPIFFE ID of a trust domain, namespace, account
          PathID,      \* the IDs that words spell: a trust domain and a path
          Manifests,   \* the deployment files there are: what they name first
          Clusters,    \* the accounts of the objects asked for, by namespace
          Commands,    \* the command lines considered
          Texts,       \* what their words and the values of flags say
          PlainURLs,   \* those that are URLs of the scheme http, not https
          Template,    \* the file that the script writes, without the ID
          Self         \* the ID of the workload that reads a file here

Said == IDs \union TDs \union {"", "junk"}

ASSUME IdAssumption == /\ IdOf \in [TDs \X Namespaces \X Accounts -> IDs]
                       /\ \A w \in DOMAIN PathID : PathID[w] \in IDs

ASSUME WorldAssumption == /\ "default" \in Accounts \intersect Namespaces
                          /\ Current \in Namespaces
                          /\ Clusters \subseteq [Namespaces -> SUBSET (Accounts \union {""})]
                          /\ Self \in IDs

Word(w)    == [flag |-> "", val |-> w]
Flag(f, v) == [flag |-> f, val |-> v]
NoArgs     == [cmd |-> "", toks |-> <<>>]

\* The validation in the script.
ValidateFile == [cmd |-> "validate", toks |-> <<Word("e5s.yaml")>>]

\* A token is a flag with its value, or a word (no flag); no flag is given twice.
ASSUME CommandsAssumption ==
  /\ \A c \in Commands :
       /\ c.toks \in Seq([flag : STRING, val : Texts])
       /\ \A i, j \in DOMAIN c.toks :
            c.toks[i].flag = c.toks[j].flag /\ c.toks[i].flag # "" => i = j
  /\ ValidateFile \in Commands
  /\ "" \in Texts \ PlainURLs

\* allowed_client_spiffe_id: "$CLIENT_ID"
WithID(id) == [Template EXCEPT !.allowedID = [pad |-> FALSE, says |-> id]]

ASSUME TemplateAssumption == /\ Template \in Files
                             /\ \A id \in Said : WithID(id) \in Files
                             /\ Empty(Template.allowedTD)

VARIABLES args,      \* the command line that runs
          asked,     \* the command line the script began with, or NoArgs
          at,        \* where the command is
          found,     \* the trust domain it found, or the server it last authenticated
          printed,   \* its output
          code,      \* its exit status
          left,      \* the tools that "version" has yet to ask
          spire,     \* the trust domain of the SPIRE installed now, or ""
          had,       \* those installed since the command began
          objects,   \* the accounts of the objects asked for
          hadObjects \* those they had since the command began

command == <<args, asked, at, found, printed, code, left>>
cluster == <<spire, had, objects, hadObjects>>
allvars == <<vars, command, cluster>>

-----------------------------------------------------------------------------
(* Command lines *)

\* flag.FlagSet.Parse takes flags up to the first word; Value is the flag's.
Leading(toks) == {i \in DOMAIN toks : \A j \in 1..i : toks[j].flag # ""}

Value(toks, flag, default) ==
  IF \E i \in Leading(toks) : toks[i].flag = flag
  THEN toks[CHOOSE i \in Leading(toks) : toks[i].flag = flag].val
  ELSE default

Rest(toks) == SubSeq(toks, Cardinality(Leading(toks)) + 1, Len(toks))

\* FlagSet.Args: what follows, flags and all, is words.
Args(toks) == [i \in DOMAIN Rest(toks) |-> Rest(toks)[i].val]

Misused(toks, flags) == {i \in Leading(toks) : toks[i].flag \notin flags}

\* flag.ExitOnError: the process exits in Parse, with 0 if it was asked for help.
ParseExit(toks, flags) ==
  LET first == CHOOSE i \in Misused(toks, flags) : \A j \in Misused(toks, flags) : i <= j
  IN IF toks[first].flag = "help" THEN "0" ELSE "2"

\* Output that names no ID: a usage message, a report.
Prose == "junk"

Exit(status, out) == /\ at' = "exit" /\ code' = status /\ printed' = out
                     /\ UNCHANGED left
Go(where) == at' = where /\ UNCHANGED <<printed, code, left>>

Stay == UNCHANGED <<args, asked>>

-----------------------------------------------------------------------------
(* discover and spiffe-id *)

\* spiffe://<td>/ns/<ns>/sa/<sa>, whatever the parts are.
NameID(td, ns, sa) == IF <<td, ns, sa>> \in TDs \X Namespaces \X Accounts
                      THEN IdOf[<<td, ns, sa>>] ELSE Prose

\* Kubernetes fills in the account of a pod when it creates it.
PodAccount(sa) == IF sa = "" THEN "default" ELSE sa

\* Mutant: the deployment's account is taken as it stands.
DeployedAccountRaw(sa) == sa

\* The template of a deployment has none, if its author gave none.
DeployedAccount(sa) == IF sa = "" THEN "default" ELSE sa

Namespace(toks) == LET ns == Value(toks, "namespace", "")
                   IN IF ns = "" THEN Current ELSE ns

Discover ==
  /\ at = "start" /\ args.cmd = "discover"
  /\ LET toks == args.toks
         words == Args(toks)
         bad == Misused(toks, {"trust-domain", "namespace"}) # {}
     IN \/ bad /\ Exit(ParseExit(toks, {"trust-domain", "namespace"}), Prose)
        \/ ~bad /\ Len(words) = 0 /\ Exit("1", Prose)
        \/ ~bad /\ Len(words) > 0 /\ words[1] = "trust-domain" /\ Go("helm")
        \/ ~bad /\ Len(words) = 1 /\ words[1] # "trust-domain" /\ Exit("1", Prose)
        \/ ~bad /\ Len(words) > 1 /\ words[1] # "trust-domain" /\ Go("kubectl")
  /\ Stay /\ UNCHANGED <<vars, found, cluster>>

\* isKubectlAvailable, then the trust domain of the flag or the cluster.
ProbedKubectl(ok) ==
  /\ at = "kubectl"
  /\ \/ ~ok /\ Exit("1", "") /\ UNCHANGED found
     \/ /\ ok
        /\ found' = Value(args.toks, "trust-domain", "")
        /\ IF found' = "" THEN Go("helm") ELSE Go("object")
  /\ Stay /\ UNCHANGED <<vars, cluster>>

AnswerKubectl == \E ok \in BOOLEAN : ProbedKubectl(ok)

\* Mutant: the probe waits as long as kubectl does.
ExpireKubectlNever == ProbedKubectl(FALSE) /\ FALSE
ExpireKubectl == ProbedKubectl(FALSE)

ProbedHelm(ok) == /\ at = "helm"
                  /\ IF ok THEN Go("values") ELSE Go("configmap")
                  /\ Stay /\ UNCHANGED <<vars, found, cluster>>

AnswerHelm == \E ok \in BOOLEAN : ProbedHelm(ok)
ExpireHelm == ProbedHelm(FALSE)

\* k8s <namespace> <account>, or what a manifest names.
ConstructedID(td) ==
  LET words == Args(args.toks)
      manifest == Manifests[words[2]]
  IN IF words[1] \in {"k8s", "kubernetes"} THEN NameID(td, words[2], words[3])
     ELSE NameID(td, IF manifest.ns = "" THEN "default" ELSE manifest.ns,
                     IF manifest.sa = "" THEN "default" ELSE manifest.sa)

\* autoDetectTrustDomain has found td: back in the command that called it.
Detected(td) ==
  /\ found' = td
  /\ IF args.cmd = "spiffe-id" THEN Exit("0", ConstructedID(td))
     ELSE IF Args(args.toks)[1] = "trust-domain" THEN Exit("0", td) ELSE Go("object")

\* The values of the release, if it is one of Helm's and names a trust domain.
HelmValues ==
  /\ at = "values"
  /\ \E td \in {spire, ""} : IF td = "" THEN Go("configmap") /\ UNCHANGED found
                             ELSE Detected(td)
  /\ Stay /\ UNCHANGED <<vars, cluster>>

\* The server's ConfigMap, if there is one that says it in this form.
ConfigMap ==
  /\ at = "configmap"
  /\ \E td \in {spire, ""} : IF td = "" THEN Exit("1", "") /\ UNCHANGED found
                             ELSE Detected(td)
  /\ Stay /\ UNCHANGED <<vars, cluster>>

\* discoverFromPod, discoverFromLabel (the first match), discoverFromDeployment;
\* other kinds are refused only here.
GetObject ==
  /\ at = "object"
  /\ LET kind == Args(args.toks)[1]
         ns == Namespace(args.toks)
     IN \/ Exit("1", "")
        \/ /\ kind \in {"pod", "label"} /\ ns \in Namespaces
           /\ \E sa \in objects[ns] : Exit("0", NameID(found, ns, PodAccount(sa)))
        \/ /\ kind = "deployment" /\ ns \in Namespaces
           /\ \E sa \in objects[ns] : Exit("0", NameID(found, ns, DeployedAccount(sa)))
  /\ Stay /\ UNCHANGED <<vars, found, cluster>>

SpiffeID ==
  /\ at = "start" /\ args.cmd = "spiffe-id"
  /\ LET toks == args.toks
         words == Args(toks)
         td == Value(toks, "trust-domain", "")
         complete == \/ words[1] \in {"k8s", "kubernetes"} /\ Len(words) = 3
                     \/ /\ words[1] = "from-deployment" /\ Len(words) = 2
                        /\ words[2] \in DOMAIN Manifests   \* it can be read
         custom == words[1] = "custom" /\ Len(words) > 2
     IN IF Misused(toks, {"trust-domain"}) # {}
        THEN Exit(ParseExit(toks, {"trust-domain"}), Prose)
        ELSE IF Len(words) = 0 THEN Exit("1", Prose)
        ELSE \/ complete /\ td = "" /\ Go("helm")
             \/ complete /\ td # "" /\ Exit("0", ConstructedID(td))
             \/ custom /\ Exit("0", IF Tail(words) \in DOMAIN PathID
                                    THEN PathID[Tail(words)] ELSE Prose)
             \/ ~complete /\ ~custom /\ Exit("1", "")
  /\ Stay /\ UNCHANGED <<vars, found, cluster>>

-----------------------------------------------------------------------------
(* validate and client request, which use ConfigPolicy *)

Validate ==
  /\ at = "start" /\ args.cmd = "validate"
  /\ LET how == Value(args.toks, "mode", "auto")
     IN IF Misused(args.toks, {"mode"}) # {}
        THEN Exit(ParseExit(args.toks, {"mode"}), Prose) /\ UNCHANGED mode
        ELSE \/ Len(Args(args.toks)) = 0 /\ Exit("1", Prose) /\ UNCHANGED mode
             \/ /\ Len(Args(args.toks)) > 0
                /\ IF how \in {"auto", "server", "client"}
                   THEN Go("config") /\ mode' = how
                   ELSE Exit("1", "") /\ UNCHANGED mode
  /\ Stay /\ UNCHANGED <<entry, file, own, stage, policy, timeout, authorizer, found, cluster>>

\* Also the steps of the programs that use a file without the command line.
UseFile == /\ at \in {"off", "config"}
           /\ Next
           /\ UNCHANGED <<command, cluster>>

ReportValidate ==
  /\ at = "config" /\ args.cmd = "validate" /\ stage \in {"server", "client", "invalid"}
  /\ IF stage = "invalid" THEN Exit("1", "") ELSE Exit("0", Prose)
  /\ Stay /\ UNCHANGED <<vars, found, cluster>>

RequestFlags == {"config", "url", "method", "debug", "verbose"}

\* clientCommand has no flags of its own; the rest is the subcommand's.
Client ==
  /\ at = "start" /\ args.cmd = "client"
  /\ LET words == Args(args.toks)
         sub == Tail(Rest(args.toks))
     IN IF Misused(args.toks, {}) # {}
        THEN Exit(ParseExit(args.toks, {}), Prose) /\ UNCHANGED entry
        ELSE IF Len(words) = 0 THEN Exit("1", Prose) /\ UNCHANGED entry
        ELSE IF words[1] # "request" THEN Exit("1", "") /\ UNCHANGED entry
        ELSE IF Misused(sub, RequestFlags) # {}
        THEN Exit(ParseExit(sub, RequestFlags), Prose) /\ UNCHANGED entry
        ELSE IF Value(sub, "config", "") = "" \/ Value(sub, "url", "") = ""
        THEN Exit("1", Prose) /\ UNCHANGED entry
        ELSE Go("config") /\ entry' = "client"
  /\ Stay /\ UNCHANGED <<mode, file, own, stage, policy, timeout, authorizer, found, cluster>>

ClientReady ==
  /\ at = "config" /\ entry = "client"
  /\ \/ stage \in {"refused", "noagent", "badpolicy"} /\ Exit("1", "")
     \/ stage = "up" /\ Go("request")
  /\ Stay /\ UNCHANGED <<vars, found, cluster>>

\* An answer with a good status or a bad one, or a redirect, which is followed.
Answered == Go("request") \/ \E status \in {"0", "1"} : Exit(status, Prose)

\* client.Do: at an https URL whoever the handshake admits answers. The client only
\* has its TLS configuration: at an http URL, given or redirected to, anyone does.
Request ==
  /\ at = "request"
  /\ \/ Exit("1", "") /\ UNCHANGED found
     \/ \E peer \in IDs : Admits(authorizer, peer) /\ found' = peer /\ Answered
     \/ /\ found # "" \/ Value(Tail(Rest(args.toks)), "url", "") \in PlainURLs
        /\ UNCHANGED found /\ Answered
  /\ Stay /\ UNCHANGED <<vars, cluster>>

-----------------------------------------------------------------------------
(* version, help, unknown commands *)

Version ==
  /\ at = "start" /\ args.cmd = "version"
  /\ LET toks == args.toks
         how == Value(toks, "mode", "")
         known == Value(toks, "format", "json") \in {"json", "plain"}
     IN IF Misused(toks, {"format", "mode"}) # {}
        THEN Exit(ParseExit(toks, {"format", "mode"}), Prose)
        ELSE \/ how \in {"dev", "prod"} /\ known  /\ Exit("0", Prose)
             \/ how \in {"dev", "prod"} /\ ~known /\ Exit("1", "")
             \/ how \notin {"", "dev", "prod"} /\ Exit("1", "")
             \/ how = "" /\ at' = "tools" /\ left' = 5 /\ UNCHANGED <<printed, code>>
  /\ Stay /\ UNCHANGED <<vars, found, cluster>>

\* getToolVersion gives up after 2 s; a tool that is missing is no error.
ToolVersion == /\ at = "tools" /\ left > 0
               /\ left' = left - 1
               /\ Stay /\ UNCHANGED <<vars, at, found, printed, code, cluster>>

\* The format is looked at last.
ReportVersions ==
  /\ at = "tools" /\ left = 0
  /\ IF Value(args.toks, "format", "json") \in {"json", "plain"}
     THEN Exit("0", Prose) ELSE Exit("1", "")
  /\ Stay /\ UNCHANGED <<vars, found, cluster>>

\* CommandRegistry.Execute itself: help, no command, one it does not know.
Execute ==
  /\ at = "start"
  /\ \/ args.cmd \in {"help", "-h", "--help"} /\ Exit("0", Prose)
     \/ args.cmd = "" /\ Exit("1", Prose)
     \/ /\ args.cmd \notin {"", "help", "-h", "--help", "version", "spiffe-id",
                            "discover", "validate", "client", "deploy"}
        /\ Exit("1", "")
  /\ Stay /\ UNCHANGED <<vars, found, cluster>>

-----------------------------------------------------------------------------
(* The script, and the cluster *)

\* cat > e5s-server.yaml, then e5s validate.
WriteConfig ==
  /\ at = "exit" /\ asked # NoArgs /\ args = asked
  /\ file' = WithID(printed)
  /\ args' = ValidateFile
  /\ at' = "start" /\ code' = "none" /\ printed' = ""
  /\ UNCHANGED <<entry, mode, own, stage, policy, timeout, authorizer, asked, found, left, cluster>>

\* kubectl apply -f server-deployment.yaml: a server starts with the file.
DeployServer ==
  /\ at = "exit" /\ asked # NoArgs /\ args.cmd = "validate"
  /\ entry' = "start" /\ stage' = "load" /\ policy' = NoPolicy
  /\ at' = "off"
  /\ UNCHANGED <<mode, file, own, timeout, authorizer, args, asked, found, printed, code, left, cluster>>

\* Somebody installs, removes or replaces SPIRE while a command looks for it.
Reinstall == /\ at \in {"kubectl", "helm", "values", "configmap", "object"}
             /\ spire' \in (TDs \union {""}) \ {spire}
             /\ had' = had \union ({spire'} \ {""})
             /\ UNCHANGED <<vars, command, objects, hadObjects>>

\* Somebody replaces the objects, with other accounts, meanwhile.
Redeploy == /\ at \in {"kubectl", "helm", "values", "configmap", "object"}
            /\ args.cmd = "discover"
            /\ objects' \in Clusters \ {objects}
            /\ hadObjects' = [ns \in Namespaces |-> hadObjects[ns] \union objects'[ns]]
            /\ UNCHANGED <<vars, command, spire, had>>

\* The file matters to the commands that read one, the cluster to those that ask.
CliInit ==
  /\ Init /\ mode = "auto"
  /\ IF entry = "validate"
     THEN /\ args \in Commands /\ own = Self /\ at = "start"
          /\ args.cmd \notin {"validate", "client"} => file = Template
          /\ asked \in IF args.cmd = "discover" THEN {args, NoArgs} ELSE {NoArgs}
     ELSE args = NoArgs /\ asked = NoArgs /\ at = "off"
  /\ found = "" /\ printed = "" /\ code = "none" /\ left = 0
  /\ spire \in TDs \union {""}
  /\ had = {spire} \ {""}
  /\ objects \in Clusters /\ hadObjects = objects
  /\ args.cmd \notin {"discover", "spiffe-id"} =>
       spire = "" /\ objects = CHOOSE o \in Clusters : TRUE

CliNext == \/ Execute \/ Discover \/ SpiffeID \/ Validate \/ Client \/ Version
           \/ AnswerKubectl \/ ExpireKubectl \/ AnswerHelm \/ ExpireHelm
           \/ HelmValues \/ ConfigMap \/ GetObject
           \/ UseFile \/ ReportValidate \/ ClientReady \/ Request
           \/ ToolVersion \/ ReportVersions
           \/ WriteConfig \/ DeployServer \/ Reinstall \/ Redeploy

CliSpec == CliInit /\ [][CliNext]_allvars

\* The probes have a deadline of 2 s and are killed at it; what the commands ask
\* of the cluster has none.
FairSpec == /\ CliSpec
            /\ WF_allvars(ExpireKubectl)
            /\ WF_allvars(ExpireHelm)
            /\ WF_allvars(ToolVersion)
            /\ WF_allvars(ReportVersions)

-----------------------------------------------------------------------------
(* Properties *)

CliTypeOK == /\ TypeOK
             /\ args \in Commands \union {NoArgs}
             /\ asked \in Commands \union {NoArgs}
             /\ at \in {"off", "start", "kubectl", "helm", "values", "configmap", "object",
                        "config", "request", "tools", "exit"}
             /\ found \in Texts \union TDs \union IDs
             /\ printed \in Said
             /\ code \in {"none", "0", "1", "2"}
             /\ left \in 0..5
             /\ spire \in TDs \union {""} /\ spire \in had \union {""}
             /\ had \subseteq TDs
             /\ objects \in Clusters
             /\ hadObjects \in [Namespaces -> SUBSET (Accounts \union {""})]
             /\ \A ns \in Namespaces : objects[ns] \subseteq hadObjects[ns]

\* What is given for a flag, wherever it stands, or what stands for nothing given.
Asked(toks, flag, nothing) ==
  LET given == {toks[i].val : i \in {j \in DOMAIN toks : toks[j].flag = flag}} \ {""}
  IN IF given = {} THEN nothing ELSE given

\* No flag follows a word. What becomes of one that does is finding 3.
FlagsFirst(toks) ==
  \A i, j \in DOMAIN toks : i < j /\ toks[j].flag # "" => toks[i].flag # ""

\* An object in the namespace that was asked for has had this ID in Kubernetes,
\* under the trust domain that the user gave, or one that SPIRE has had.
HasID(toks, id) ==
  \E ns \in Asked(toks, "namespace", {Current}) \intersect Namespaces,
     td \in Asked(toks, "trust-domain", had) :
    \E sa \in hadObjects[ns] : id = NameID(td, ns, PodAccount(sa))

\* An exit status of 0 is the truth, of a command line whose flags come first: a
\* discovered ID is the one an object has had since the command began, though its
\* trust domain and its account are read one after the other and both may be
\* replaced meanwhile (discover.go:79-95); a valid file is valid as the kind that
\* was asked for (validate.go:57-66); a request to an https URL was answered by a
\* server that the file's policy admits, or sent on by one (client.go:154).
SuccessIsTrue ==
  at = "exit" /\ code = "0" =>
    /\ /\ args.cmd = "discover" /\ FlagsFirst(args.toks)
       /\ Misused(args.toks, {"trust-domain", "namespace"}) = {}
       => IF Args(args.toks)[1] = "trust-domain" THEN printed \in had
          ELSE HasID(args.toks, printed)
    /\ /\ args.cmd = "validate" /\ FlagsFirst(args.toks)
       /\ Misused(args.toks, {"mode"}) = {}
       => /\ stage \in {"server", "client"}
          /\ Asked(args.toks, "mode", {"auto"}) \subseteq {"auto", stage}
    /\ /\ args.cmd = "client" /\ entry = "client"
       /\ Asked(args.toks, "url", {}) \intersect PlainURLs = {}
       => found \in IDs /\ Admits(policy, found)

\* The script needs no "set -e" (cmd/e5s/README.md:400-441): whatever failed on the way, a
\* server that it brought up admits one client, and that is one that was asked
\* for, if the flags of the discovery come before its words.
ScriptAdmitsTheClient ==
  asked # NoArgs /\ entry = "start" /\ stage = "up" =>
    \E id \in IDs : /\ FlagsFirst(asked.toks) => HasID(asked.toks, id)
                    /\ \A peer \in IDs : Admits(authorizer, peer) <=> peer = id

\* A tool that hangs does not hang the probe for it (discover.go:107,
\* version_cmd.go:184).
ProbesEnd == at \in {"kubectl", "helm", "tools"} ~> at \notin {"kubectl", "helm", "tools"}

\* "e5s discover label app=api-client --namespace production / Output:
\* spiffe://example.org/ns/production/sa/api-client-sa" (discover.go:43-44): the
\* ID that is printed is one of the namespace that was asked for.
NamespaceIsHonoured ==
  at = "exit" /\ code = "0" /\ args.cmd = "discover" =>
    \A i \in DOMAIN args.toks :
      args.toks[i].flag = "namespace" =>
        \E td \in TDs, sa \in Accounts : printed = NameID(td, args.toks[i].val, sa)
=============================================================================
