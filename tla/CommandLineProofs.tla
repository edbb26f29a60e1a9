------------------------- MODULE CommandLineProofs --------------------------
(***************************************************************************)
(* CommandLine proved for any cluster, files and command lines: what an    *)
(* exit status of 0 says, and whom the server of the script admits.        *)
(***************************************************************************)
EXTENDS CommandLine, ConfigPolicyProofs, SequenceTheorems, FiniteSetTheorems

Tokens == Seq([flag : STRING, val : Texts])

\* The value of a flag is a text.
LEMMA ValueTyped ==
  ASSUME NEW toks \in Tokens, NEW flag, NEW default \in Texts
  PROVE  Value(toks, flag, default) \in Texts
<1>1. \A i \in DOMAIN toks : toks[i] \in [flag : STRING, val : Texts]
  BY ElementOfSeq, LenProperties DEF Tokens
<1>2. \A i \in Leading(toks) : toks[i].val \in Texts
  BY <1>1 DEF Leading
<1>3. CASE \E i \in Leading(toks) : toks[i].flag = flag
  BY <1>2, <1>3 DEF Value
<1>4. CASE ~ \E i \in Leading(toks) : toks[i].flag = flag
  BY <1>4 DEF Value
<1> QED
  BY <1>3, <1>4

\* A composed ID is one of the IDs, or no ID.
LEMMA NameTyped ==
  ASSUME NEW td, NEW ns, NEW sa
  PROVE  NameID(td, ns, sa) \in IDs \union {Prose}
  BY IdAssumption DEF NameID

LEMMA ConstructedTyped ==
  ASSUME NEW td PROVE ConstructedID(td) \in IDs \union {Prose}
  BY NameTyped DEF ConstructedID

\* "", "junk" and trust domains are no IDs.
LEMMA NotIDs == "" \notin IDs /\ Prose \notin IDs /\ TDs \intersect IDs = {}
  BY NamesAssumption DEF Prose

LEMMA ExitCodes ==
  ASSUME NEW toks, NEW flags PROVE ParseExit(toks, flags) \in {"0", "2"}
  BY DEF ParseExit

-----------------------------------------------------------------------------
(* The inductive invariant *)

Fresh == entry = "validate" /\ stage = "load" /\ policy = NoPolicy /\ authorizer = NoPolicy

\* A command that reads no file, or has not yet, leaves ConfigPolicy where it began.
FreshInv == /\ at = "start" => Fresh
            /\ at # "off" /\ args.cmd \notin {"validate", "client"} => Fresh
            /\ at = "off" => args.cmd = "validate" \/ (args = NoArgs /\ asked = NoArgs)
            /\ at # "off" /\ args.cmd = "validate" => entry = "validate"
            /\ args.cmd = "client" => entry = "client" \/ Fresh

\* The domains and the IDs that the tool takes the user to ask for.
ParsedDomains(toks) == LET td == Value(toks, "trust-domain", "")
                       IN IF td # "" THEN {td} ELSE had

ParsedID(toks, id) ==
  /\ Namespace(toks) \in Namespaces
  /\ \E td \in ParsedDomains(toks), sa \in hadObjects[Namespace(toks)] :
       id = NameID(td, Namespace(toks), PodAccount(sa))

ParsedURL(toks) == Value(Tail(Rest(toks)), "url", "")

\* SuccessIsTrue, of what the tool takes the user to ask for.
ParsedTrue ==
  at = "exit" /\ code = "0" =>
    /\ args.cmd = "discover" /\ Misused(args.toks, {"trust-domain", "namespace"}) = {} =>
         IF Args(args.toks)[1] = "trust-domain" THEN printed \in had
         ELSE ParsedID(args.toks, printed)
    /\ args.cmd = "validate" /\ Misused(args.toks, {"mode"}) = {} =>
         /\ stage \in {"server", "client"}
         /\ Value(args.toks, "mode", "auto") \in {"auto", stage}
    /\ args.cmd = "client" /\ entry = "client" /\ ParsedURL(args.toks) \notin PlainURLs =>
         found # ""

\* A request has words, and who answered or redirected it was admitted.
FoundInv ==
  args.cmd = "client" =>
    /\ entry = "client" => Rest(args.toks) # <<>>
    /\ at \in {"start", "config"} => found = ""
    /\ found # "" => found \in IDs /\ stage = "up" /\ Admits(policy, found)

\* Which command looks something up, and with what trust domain.
LookupInv ==
  /\ at \in {"kubectl", "object", "helm", "values", "configmap"} =>
       args.cmd \in {"discover", "spiffe-id"}
  /\ at \in {"kubectl", "object"} => args.cmd = "discover" /\ Args(args.toks)[1] # "trust-domain"
  /\ at \in {"helm", "values", "configmap"} /\ args.cmd = "discover"
       /\ Args(args.toks)[1] # "trust-domain" => Value(args.toks, "trust-domain", "") = ""
  /\ at = "object" => found \in ParsedDomains(args.toks)

\* Who uses the file, and as what.
UseInv ==
  /\ at = "config" => \/ /\ args.cmd = "validate" /\ entry = "validate"
                         /\ mode = Value(args.toks, "mode", "auto")
                      \/ args.cmd = "client" /\ entry = "client"
  /\ at = "request" => args.cmd = "client" /\ entry = "client" /\ stage = "up"
  /\ at = "tools" => args.cmd = "version"
  /\ stage = "server" => mode # "client"
  /\ stage = "client" => mode # "server"
  /\ stage = "tryclient" => mode = "auto"

Answer(toks, id) == id \notin IDs \/ ParsedID(toks, id)

\* What goes from the discovery into the file.
ScriptInv ==
  /\ at = "exit" /\ args.cmd = "discover" => Answer(args.toks, printed)
  /\ asked # NoArgs => /\ asked.cmd = "discover"
                       /\ args = asked \/ args.cmd = "validate"
                       /\ args # asked => /\ ~file.allowedID.pad
                                          /\ Empty(file.allowedTD)
                                          /\ Answer(asked.toks, file.allowedID.says)

CliInv == /\ IInv /\ CliTypeOK /\ FreshInv /\ LookupInv /\ UseInv /\ ScriptInv
          /\ FoundInv /\ ParsedTrue

LEMMA Typed ==
  ASSUME CliTypeOK
  PROVE  args.toks \in Tokens
<1>1. CASE args \in Commands
  BY <1>1, CommandsAssumption DEF Tokens
<1>2. CASE args = NoArgs
  BY <1>2, EmptySeq DEF NoArgs, Tokens
<1> QED
  BY <1>1, <1>2 DEF CliTypeOK

LEMMA CliInitInv == CliInit => CliInv
<1> SUFFICES ASSUME CliInit PROVE CliInv
  OBVIOUS
<1>1. IInv
  BY InitInv DEF CliInit
<1>2. CliTypeOK
  <2>1. args \in Commands \union {NoArgs} /\ asked \in Commands \union {NoArgs}
    BY DEF CliInit
  <2>2. at \in {"off", "start"} /\ code = "none" /\ objects \in Clusters
    BY DEF CliInit
  <2>10. hadObjects = objects
    BY DEF CliInit
  <2>11. /\ hadObjects \in [Namespaces -> SUBSET (Accounts \union {""})]
         /\ \A ns \in Namespaces : objects[ns] \subseteq hadObjects[ns]
    BY <2>2, <2>10, WorldAssumption
  <2>3. TypeOK
    BY <1>1 DEF IInv
  <2>4. found = "" /\ printed = ""
    BY DEF CliInit
  <2>5. printed \in Said
    BY <2>4 DEF Said
  <2>6. found \in Texts \union TDs \union IDs
    BY <2>4, CommandsAssumption
  <2>7. left = 0
    BY DEF CliInit
  <2>8. left \in 0..5
    BY <2>7
  <2>9. had \subseteq TDs /\ spire \in TDs \union {""} /\ spire \in had \union {""}
    BY DEF CliInit
  <2> QED
    BY <2>1, <2>2, <2>3, <2>5, <2>6, <2>8, <2>9, <2>11 DEF CliTypeOK
<1>3. FreshInv
  <2>1. CASE entry = "validate"
    <3>1. Fresh /\ at = "start"
      BY <2>1 DEF CliInit, Init, Fresh
    <3> QED
      BY <2>1, <3>1 DEF FreshInv
  <2>2. CASE entry # "validate"
    <3>1. args = NoArgs /\ asked = NoArgs /\ at = "off"
      BY <2>2 DEF CliInit
    <3>2. NoArgs.cmd = ""
      BY DEF NoArgs
    <3> QED
      BY <3>1, <3>2 DEF FreshInv
  <2> QED
    BY <2>1, <2>2
<1>4. LookupInv /\ ParsedTrue
  BY DEF CliInit, LookupInv, ParsedTrue
<1>6. FoundInv
  <2>1. found = "" /\ (entry # "validate" => args = NoArgs) /\ NoArgs.cmd = ""
    BY DEF CliInit, NoArgs
  <2>2. args.cmd = "client" => entry = "validate"
    BY <2>1
  <2> HIDE DEF CliInit
  <2> QED
    BY <2>1, <2>2 DEF FoundInv
<1>5. UseInv /\ ScriptInv
  BY DEF CliInit, Init, UseInv, ScriptInv, NoArgs
<1> QED
  BY <1>1, <1>2, <1>3, <1>4, <1>5, <1>6 DEF CliInv

-----------------------------------------------------------------------------
(* The steps *)

LEMMA KeepsIInv == ASSUME IInv, UNCHANGED vars PROVE IInv'
  BY StepInv

\* A command that exits keeps the invariant, if its answer is a true one.
LEMMA ExitStep ==
  ASSUME CliInv, UNCHANGED <<vars, args, asked, cluster>>,
         NEW s \in {"0", "1", "2"}, NEW o \in Said, Exit(s, o),
         found' \in Texts \union TDs \union IDs, at # "off",
         found' = found \/ args.cmd # "client" \/ FoundInv',
         args.cmd = "discover" => Answer(args.toks, o),
         ParsedTrue'
  PROVE  CliInv'
<1>1. IInv'
  BY KeepsIInv DEF CliInv
<1>2. CliTypeOK'
  BY <1>1 DEF CliInv, CliTypeOK, IInv, Exit, cluster
<1>3. FreshInv'
  BY DEF CliInv, FreshInv, Fresh, Exit, vars
<1>4. LookupInv' /\ UseInv'
  BY DEF CliInv, LookupInv, UseInv, Exit, vars
<1>5. ScriptInv'
  <2>1. at' = "exit" /\ printed' = o /\ args' = args /\ asked' = asked /\ file' = file
    BY DEF Exit, vars
  <2> QED
    BY <2>1 DEF CliInv, ScriptInv, Answer, ParsedID, ParsedDomains, cluster
<1>6. FoundInv'
  BY DEF CliInv, FoundInv, Exit, vars
<1> QED
  BY <1>1, <1>2, <1>3, <1>4, <1>5, <1>6 DEF CliInv

\* A command that goes on keeps it, if it goes where it may.
LEMMA GoStep ==
  ASSUME CliInv, UNCHANGED <<vars, args, asked, cluster>>,
         NEW w \in {"kubectl", "helm", "values", "configmap", "object", "request"}, Go(w),
         found' \in Texts \union TDs \union IDs, at # "off",
         found' = found \/ args.cmd # "client" \/ FoundInv',
         LookupInv', w = "request" => UseInv'
  PROVE  CliInv'
<1>1. IInv'
  BY KeepsIInv DEF CliInv
<1>2. CliTypeOK'
  BY <1>1 DEF CliInv, CliTypeOK, IInv, Go, cluster
<1>3. FreshInv'
  BY DEF CliInv, FreshInv, Fresh, Go, vars
<1>4. UseInv'
  BY DEF CliInv, UseInv, Go, vars
<1>5. ScriptInv'
  BY DEF CliInv, ScriptInv, Go, Answer, ParsedID, ParsedDomains, cluster, vars
<1>6. ParsedTrue'
  BY DEF Go, ParsedTrue
<1>7. FoundInv'
  BY DEF CliInv, FoundInv, Go, vars
<1> QED
  BY <1>1, <1>2, <1>3, <1>4, <1>5, <1>6, <1>7 DEF CliInv

\* Most steps leave the file, the command line and the cluster alone.
Quiet == UNCHANGED <<vars, args, asked, found, cluster>>

LEMMA QuietTyped ==
  ASSUME CliInv, Quiet
  PROVE  /\ UNCHANGED <<vars, args, asked, cluster>>
         /\ found' \in Texts \union TDs \union IDs /\ found' = found
  BY DEF CliInv, CliTypeOK, Quiet

LEMMA ProseSaid == Prose \in Said /\ "" \in Said /\ IDs \subseteq Said /\ TDs \subseteq Said
  BY DEF Prose, Said

LEMMA NoAnswer ==
  ASSUME NEW toks PROVE Answer(toks, "") /\ Answer(toks, Prose) /\ \A td \in TDs : Answer(toks, td)
  BY NotIDs DEF Answer

\* A failure says nothing.
LEMMA FailStep ==
  ASSUME CliInv, Quiet, at # "off", NEW s \in {"1", "2"}, NEW o \in {"", Prose}, Exit(s, o)
  PROVE  CliInv'
<1>1. ParsedTrue'
  BY DEF Exit, ParsedTrue
<1> QED
  BY <1>1, ExitStep, QuietTyped, ProseSaid, NoAnswer

LEMMA DiscoverStep == ASSUME CliInv, Discover PROVE CliInv'
<1> DEFINE toks == args.toks
           words == Args(toks)
           flags == {"trust-domain", "namespace"}
<1>1. Quiet /\ at = "start" /\ args.cmd = "discover"
  BY DEF Discover, Stay, Quiet
<1>2. CASE Misused(toks, flags) # {} /\ Exit(ParseExit(toks, flags), Prose)
  <2>1. ParsedTrue'
    BY <1>1, <1>2 DEF Quiet, ParsedTrue
  <2> QED
    BY <1>1, <1>2, <2>1, ExitStep, QuietTyped, ProseSaid, NoAnswer, ExitCodes
<1>3. CASE Exit("1", Prose)
  BY <1>1, <1>3, FailStep
<1>4. CASE words[1] = "trust-domain" /\ Go("helm")
  <2>1. LookupInv'
    BY <1>1, <1>4 DEF LookupInv, Quiet, Go
  <2> QED
    BY <1>1, <1>4, <2>1, GoStep, QuietTyped
<1>5. CASE words[1] # "trust-domain" /\ Go("kubectl")
  <2>1. LookupInv'
    BY <1>1, <1>5 DEF LookupInv, Quiet, Go
  <2> QED
    BY <1>1, <1>5, <2>1, GoStep, QuietTyped
<1> QED
  BY <1>2, <1>3, <1>4, <1>5 DEF Discover

LEMMA KubectlStep == ASSUME CliInv, NEW ok \in BOOLEAN, ProbedKubectl(ok) PROVE CliInv'
<1>1. /\ UNCHANGED <<vars, args, asked, cluster>> /\ at = "kubectl" /\ args.cmd = "discover"
      /\ Args(args.toks)[1] # "trust-domain"
  BY DEF ProbedKubectl, Stay, CliInv, LookupInv
<1>2. CASE Exit("1", "") /\ UNCHANGED found
  BY <1>1, <1>2, FailStep DEF Quiet
<1>3. CASE /\ found' = Value(args.toks, "trust-domain", "")
           /\ IF found' = "" THEN Go("helm") ELSE Go("object")
  <2>1. found' \in Texts
    BY <1>3, Typed, ValueTyped, CommandsAssumption DEF CliInv
  <2>2. CASE found' = "" /\ Go("helm")
    <3>1. LookupInv'
      BY <1>1, <1>3, <2>2 DEF LookupInv, Go
    <3> QED
      BY <1>1, <2>1, <2>2, <3>1, GoStep
  <2>3. CASE found' # "" /\ Go("object")
    <3>1. LookupInv'
      BY <1>1, <1>3, <2>3 DEF LookupInv, Go, ParsedDomains
    <3> QED
      BY <1>1, <2>1, <2>3, <3>1, GoStep
  <2> QED
    BY <1>3, <2>2, <2>3
<1> QED
  BY <1>2, <1>3 DEF ProbedKubectl

LEMMA HelmStep == ASSUME CliInv, NEW ok \in BOOLEAN, ProbedHelm(ok) PROVE CliInv'
<1>1. Quiet /\ at = "helm"
  BY DEF ProbedHelm, Stay, Quiet
<1>2. CASE Go("values")
  <2>1. LookupInv'
    BY <1>1, <1>2 DEF CliInv, LookupInv, Quiet, Go
  <2> QED
    BY <1>1, <1>2, <2>1, GoStep, QuietTyped
<1>3. CASE Go("configmap")
  <2>1. LookupInv'
    BY <1>1, <1>3 DEF CliInv, LookupInv, Quiet, Go
  <2> QED
    BY <1>1, <1>3, <2>1, GoStep, QuietTyped
<1> QED
  BY <1>2, <1>3 DEF ProbedHelm

\* A trust domain that the cluster has is a true answer, or leads to one.
LEMMA DetectedStep ==
  ASSUME CliInv, at \in {"values", "configmap"}, UNCHANGED <<vars, args, asked, cluster>>,
         NEW td \in TDs, td \in had, Detected(td)
  PROVE  CliInv'
<1>1. found' = td /\ args.cmd \in {"discover", "spiffe-id"}
  BY DEF Detected, CliInv, LookupInv
<1>2. CASE args.cmd = "spiffe-id"
  <2>1. Exit("0", ConstructedID(td)) /\ ConstructedID(td) \in Said
    BY <1>2, ConstructedTyped, ProseSaid DEF Detected
  <2>2. ParsedTrue'
    BY <1>2 DEF ParsedTrue
  <2> QED
    BY <1>1, <1>2, <2>1, <2>2, ExitStep
<1>3. CASE args.cmd = "discover" /\ Args(args.toks)[1] = "trust-domain"
  <2>1. Exit("0", td)
    BY <1>3 DEF Detected
  <2>2. ParsedTrue'
    BY <1>3, <2>1 DEF ParsedTrue, Exit, cluster
  <2> QED
    BY <1>1, <1>3, <2>1, <2>2, ExitStep, ProseSaid, NoAnswer
<1>4. CASE args.cmd = "discover" /\ Args(args.toks)[1] # "trust-domain"
  <2>1. Go("object")
    BY <1>4 DEF Detected
  <2>2. Value(args.toks, "trust-domain", "") = ""
    BY <1>4 DEF CliInv, LookupInv
  <2>3. LookupInv'
    BY <1>1, <1>4, <2>1, <2>2 DEF LookupInv, Go, ParsedDomains, cluster
  <2> QED
    BY <1>1, <2>1, <2>3, GoStep
<1> QED
  BY <1>1, <1>2, <1>3, <1>4

LEMMA SearchStep == ASSUME CliInv, HelmValues \/ ConfigMap PROVE CliInv'
<1>1. /\ UNCHANGED <<vars, args, asked, cluster>> /\ at \in {"values", "configmap"}
  BY DEF HelmValues, ConfigMap, Stay
<1>2. PICK td \in {spire, ""} : \/ td = "" /\ Go("configmap") /\ UNCHANGED found
                                \/ td = "" /\ Exit("1", "") /\ UNCHANGED found
                                \/ td # "" /\ Detected(td)
  BY DEF HelmValues, ConfigMap
<1>3. CASE Go("configmap") /\ UNCHANGED found
  <2>1. Quiet
    BY <1>1, <1>3 DEF Quiet
  <2>2. LookupInv'
    BY <1>1, <1>3, <2>1 DEF CliInv, LookupInv, Quiet, Go
  <2> QED
    BY <1>1, <1>3, <2>1, <2>2, GoStep, QuietTyped
<1>4. CASE Exit("1", "") /\ UNCHANGED found
  BY <1>1, <1>4, FailStep DEF Quiet
<1>5. CASE td # "" /\ Detected(td)
  <2>1. td \in had /\ td \in TDs
    BY <1>2, <1>5 DEF CliInv, CliTypeOK
  <2> QED
    BY <1>1, <1>5, <2>1, DetectedStep
<1> QED
  BY <1>2, <1>3, <1>4, <1>5

\* The deployment's account and the one that Kubernetes gives its pods are one.
LEMMA ObjectStep == ASSUME CliInv, GetObject PROVE CliInv'
<1> DEFINE ns == Namespace(args.toks)
           kind == Args(args.toks)[1]
<1>1. /\ Quiet /\ at = "object" /\ args.cmd = "discover" /\ kind # "trust-domain"
      /\ found \in ParsedDomains(args.toks)
  BY DEF GetObject, Stay, Quiet, CliInv, LookupInv
<1>2. CASE Exit("1", "")
  BY <1>1, <1>2, FailStep
<1>3. ASSUME ns \in Namespaces, NEW sa \in objects[ns],
             Exit("0", NameID(found, ns, PodAccount(sa)))
      PROVE  CliInv'
  <2> DEFINE id == NameID(found, ns, PodAccount(sa))
  <2>1. ParsedID(args.toks, id) /\ id \in Said
    BY <1>1, <1>3, NameTyped, ProseSaid DEF ParsedID, CliInv, CliTypeOK
  <2>2. printed' = id /\ args' = args
    BY <1>1, <1>3 DEF Exit, Quiet
  <2>3. ParsedID(args.toks, printed)'
    BY <1>1, <2>1, <2>2 DEF ParsedID, ParsedDomains, Quiet, cluster
  <2>4. ParsedTrue'
    BY <1>1, <2>2, <2>3 DEF ParsedTrue
  <2> QED
    BY <1>1, <1>3, <2>1, <2>4, ExitStep, QuietTyped DEF Answer
<1>4. \A sa : DeployedAccount(sa) = PodAccount(sa)
  BY DEF DeployedAccount, PodAccount
<1> QED
  BY <1>2, <1>3, <1>4 DEF GetObject

LEMMA SpiffeIDStep == ASSUME CliInv, SpiffeID PROVE CliInv'
<1>1. Quiet /\ at = "start" /\ args.cmd = "spiffe-id"
  BY DEF SpiffeID, Stay, Quiet
<1>2. CASE Go("helm")
  <2>1. LookupInv'
    BY <1>1, <1>2 DEF LookupInv, Quiet, Go
  <2> QED
    BY <1>1, <1>2, <2>1, GoStep, QuietTyped
<1>3. CASE Exit("1", "") \/ Exit("1", Prose)
  BY <1>1, <1>3, FailStep
<1>4. ASSUME NEW s \in {"0", "2"}, NEW o \in IDs \union {Prose}, Exit(s, o) PROVE CliInv'
  <2>1. ParsedTrue'
    BY <1>1 DEF ParsedTrue, Quiet
  <2> QED
    BY <1>1, <1>4, <2>1, ExitStep, QuietTyped, ProseSaid
<1>5. \A w \in DOMAIN PathID : PathID[w] \in IDs
  BY IdAssumption
<1>6. ConstructedID(Value(args.toks, "trust-domain", "")) \in IDs \union {Prose}
  BY ConstructedTyped
<1>7. CASE Exit(ParseExit(args.toks, {"trust-domain"}), Prose)
  BY <1>4, <1>7, ExitCodes
<1>8. CASE Exit("0", ConstructedID(Value(args.toks, "trust-domain", "")))
  BY <1>4, <1>6, <1>8
<1>9. CASE Exit("0", IF Tail(Args(args.toks)) \in DOMAIN PathID
                     THEN PathID[Tail(Args(args.toks))] ELSE Prose)
  BY <1>4, <1>5, <1>9
<1> QED
  BY <1>2, <1>3, <1>7, <1>8, <1>9 DEF SpiffeID

LEMMA VersionStep == ASSUME CliInv, Version PROVE CliInv'
<1> DEFINE flags == {"format", "mode"}
<1>1. Quiet /\ at = "start" /\ args.cmd = "version"
  BY DEF Version, Stay, Quiet
<1>2. CASE Exit("1", "")
  BY <1>1, <1>2, FailStep
<1>3. ASSUME NEW s \in {"0", "2"}, Exit(s, Prose) PROVE CliInv'
  <2>1. ParsedTrue'
    BY <1>1 DEF ParsedTrue, Quiet
  <2> QED
    BY <1>1, <1>3, <2>1, ExitStep, QuietTyped, ProseSaid
<1>4. CASE Exit(ParseExit(args.toks, flags), Prose)
  BY <1>3, <1>4, ExitCodes
<1>5. CASE at' = "tools" /\ left' = 5 /\ UNCHANGED <<printed, code>>
  <2>1. IInv'
    BY <1>1, KeepsIInv DEF CliInv, Quiet
  <2>2. left' \in 0..5
    BY <1>5
  <2>3. CliTypeOK'
    BY <1>1, <1>5, <2>1, <2>2 DEF CliInv, CliTypeOK, IInv, Quiet, cluster
  <2>4. FreshInv' /\ UseInv'
    BY <1>1, <1>5 DEF CliInv, FreshInv, Fresh, UseInv, Quiet, vars
  <2>5. LookupInv' /\ ParsedTrue' /\ ScriptInv'
    BY <1>1, <1>5 DEF CliInv, LookupInv, ParsedTrue, ScriptInv, Answer, ParsedID, ParsedDomains,
                      Quiet, vars, cluster
  <2>6. FoundInv'
    BY <1>1 DEF FoundInv, Quiet
  <2> QED
    BY <2>1, <2>3, <2>4, <2>5, <2>6 DEF CliInv
<1> QED
  BY <1>2, <1>3, <1>4, <1>5 DEF Version

LEMMA ToolStep == ASSUME CliInv, ToolVersion PROVE CliInv'
<1>1. /\ UNCHANGED <<vars, args, asked, at, found, printed, code, cluster>>
      /\ at = "tools" /\ left \in 0..5 /\ left > 0 /\ left' = left - 1
  BY DEF ToolVersion, Stay, CliInv, CliTypeOK
<1>2. IInv'
  BY <1>1, KeepsIInv DEF CliInv
<1>3. left' \in 0..5
  BY <1>1
<1>4. CliTypeOK'
  BY <1>1, <1>2, <1>3 DEF CliInv, CliTypeOK, IInv, cluster
<1>5. FreshInv' /\ UseInv'
  BY <1>1 DEF CliInv, FreshInv, Fresh, UseInv, vars
<1>6. LookupInv' /\ ParsedTrue' /\ ScriptInv'
  BY <1>1 DEF CliInv, LookupInv, ParsedTrue, ScriptInv, Answer, ParsedID, ParsedDomains, vars, cluster
<1>7. FoundInv'
  BY <1>1 DEF CliInv, FoundInv, vars
<1> QED
  BY <1>2, <1>4, <1>5, <1>6, <1>7 DEF CliInv

\* Execute and the end of version: no answer but prose.
LEMMA OtherStep == ASSUME CliInv, Execute \/ ReportVersions PROVE CliInv'
<1>1. /\ Quiet /\ at # "off"
      /\ Exit("1", "") \/ Exit("1", Prose) \/ Exit("0", Prose)
      /\ args.cmd \notin {"discover", "validate", "client"}
  BY DEF Execute, ReportVersions, Stay, Quiet, CliInv, UseInv
<1>2. CASE Exit("0", Prose)
  <2>1. ParsedTrue'
    BY <1>1 DEF ParsedTrue, Quiet
  <2> QED
    BY <1>1, <1>2, <2>1, ExitStep, QuietTyped, ProseSaid
<1> QED
  BY <1>1, <1>2, FailStep

-----------------------------------------------------------------------------
(* The steps that use a file *)

LEMMA ValidateStep == ASSUME CliInv, Validate PROVE CliInv'
<1> DEFINE toks == args.toks
           how == Value(toks, "mode", "auto")
<1>1. /\ UNCHANGED <<entry, file, own, stage, policy, timeout, authorizer, found, cluster>>
      /\ UNCHANGED <<args, asked>> /\ at = "start" /\ args.cmd = "validate" /\ Fresh
  BY DEF Validate, Stay, CliInv, FreshInv
<1>2. CASE UNCHANGED mode /\ (Exit("1", Prose) \/ Exit("1", ""))
  BY <1>1, <1>2, FailStep DEF Quiet, vars
<1>3. CASE /\ UNCHANGED mode /\ Misused(toks, {"mode"}) # {}
           /\ Exit(ParseExit(toks, {"mode"}), Prose)
  <2>1. Quiet
    BY <1>1, <1>3 DEF Quiet, vars
  <2>2. ParsedTrue'
    BY <1>1, <1>3 DEF ParsedTrue
  <2> QED
    BY <1>1, <1>3, <2>1, <2>2, ExitStep, QuietTyped, ProseSaid, ExitCodes
<1>4. CASE how \in {"auto", "server", "client"} /\ Go("config") /\ mode' = how
  <2>1. IInv'
    BY <1>1, <1>4 DEF CliInv, IInv, TypeOK, OriginInv, Built, IsServer, ServerAuthorizer, Default
  <2>2. CliTypeOK'
    BY <1>1, <1>4, <2>1 DEF CliInv, CliTypeOK, IInv, Go, cluster
  <2>3. FreshInv' /\ UseInv'
    BY <1>1, <1>4 DEF CliInv, FreshInv, Fresh, UseInv, Go
  <2>4. LookupInv' /\ ParsedTrue' /\ ScriptInv'
    BY <1>1, <1>4 DEF CliInv, LookupInv, ParsedTrue, ScriptInv, Answer, ParsedID, ParsedDomains,
                      Go, cluster
  <2>5. FoundInv'
    BY <1>1, <1>4 DEF CliInv, FoundInv, Go
  <2> QED
    BY <2>1, <2>2, <2>3, <2>4, <2>5 DEF CliInv
<1> QED
  BY <1>2, <1>3, <1>4 DEF Validate

\* Words are tokens that are left over.
LEMMA NoWords ==
  ASSUME NEW toks, Len(Args(toks)) # 0 PROVE Rest(toks) # <<>>
<1>1. ASSUME Rest(toks) = <<>> PROVE Len(Args(toks)) = 0
  <2>1. DOMAIN Rest(toks) = {}
    BY <1>1
  <2>2. Args(toks) = [i \in {} |-> <<>>]
    BY <2>1 DEF Args
  <2>3. Args(toks) = <<>>
    BY <2>2
  <2> QED
    BY <2>3
<1> QED
  BY <1>1

LEMMA ClientStep == ASSUME CliInv, Client PROVE CliInv'
<1>1. /\ UNCHANGED <<mode, file, own, stage, policy, timeout, authorizer, found, cluster>>
      /\ UNCHANGED <<args, asked>> /\ at = "start" /\ args.cmd = "client" /\ Fresh
  BY DEF Client, Stay, CliInv, FreshInv
<1>2. ASSUME UNCHANGED entry, NEW s \in {"0", "1", "2"}, NEW o \in {"", Prose}, Exit(s, o)
      PROVE  CliInv'
  <2>1. Quiet
    BY <1>1, <1>2 DEF Quiet, vars
  <2>2. ParsedTrue'
    BY <1>1, <1>2 DEF ParsedTrue, Fresh
  <2> QED
    BY <1>1, <1>2, <2>1, <2>2, ExitStep, QuietTyped, ProseSaid
<1>3. CASE Len(Args(args.toks)) # 0 /\ Go("config") /\ entry' = "client"
  <2>1. IInv'
    BY <1>1, <1>3 DEF CliInv, IInv, TypeOK, OriginInv, Fresh, NoPolicy
  <2>2. CliTypeOK'
    BY <1>1, <1>3, <2>1 DEF CliInv, CliTypeOK, IInv, Go, cluster
  <2>3. FreshInv' /\ UseInv'
    BY <1>1, <1>3 DEF CliInv, FreshInv, Fresh, UseInv, Go
  <2>4. LookupInv' /\ ParsedTrue' /\ ScriptInv'
    BY <1>1, <1>3 DEF CliInv, LookupInv, ParsedTrue, ScriptInv, Answer, ParsedID, ParsedDomains,
                      Go, cluster
  <2>5. Rest(args.toks) # <<>>
    BY NoWords, <1>3
  <2>6. FoundInv'
    BY <1>1, <1>3, <2>5 DEF CliInv, FoundInv, Fresh, Go
  <2> QED
    BY <2>1, <2>2, <2>3, <2>4, <2>6 DEF CliInv
<1> QED
  BY <1>2, <1>3, ExitCodes DEF Client

\* Using a file changes neither the file nor who uses it, and as what.
LEMMA NextKeeps == Next => UNCHANGED <<entry, mode, file, own>>
  BY DEF Next, LoadConfig, ValidateConfig, Connect, BuildTLS, TryServer, TryClient

LEMMA UseStep == ASSUME CliInv, UseFile PROVE CliInv'
<1>1. /\ UNCHANGED <<entry, mode, file, own>> /\ UNCHANGED <<command, cluster>>
      /\ at \in {"off", "config"} /\ Next
  BY NextKeeps DEF UseFile
<1>2. IInv'
  BY <1>1, StepInv DEF CliInv
<1>3. CliTypeOK'
  BY <1>1, <1>2 DEF CliInv, CliTypeOK, IInv, command, cluster
<1>4. FreshInv'
  <2>1. NoArgs.cmd = ""
    BY DEF NoArgs
  <2>2. args.cmd = "client" => entry = "client"
    BY <1>1, <2>1 DEF CliInv, FreshInv, UseInv
  <2>3. at = "config" => args.cmd \in {"validate", "client"}
    BY DEF CliInv, UseInv
  <2> QED
    BY <1>1, <2>2, <2>3 DEF CliInv, FreshInv, command
<1>5. /\ stage' = "server" => mode # "client"
      /\ stage' = "client" => mode # "server"
      /\ stage' = "tryclient" => mode = "auto"
  BY <1>1 DEF CliInv, UseInv, IInv, TypeOK, Next, LoadConfig, ValidateConfig, Connect,
              BuildTLS, TryServer, TryClient
<1>6. UseInv'
  BY <1>1, <1>5 DEF CliInv, UseInv, command
<1>7. LookupInv' /\ ParsedTrue' /\ ScriptInv'
  BY <1>1 DEF CliInv, LookupInv, ParsedTrue, ScriptInv, Answer, ParsedID, ParsedDomains,
              command, cluster
<1>8. FoundInv'
  <2>1. found' = found /\ args' = args
    BY <1>1 DEF command
  <2>2. NoArgs.cmd = ""
    BY DEF NoArgs
  <2>3. args.cmd = "client" => at = "config"
    BY <1>1, <2>2 DEF CliInv, FreshInv
  <2>4. args.cmd = "client" => found = "" /\ (entry = "client" => Rest(args.toks) # <<>>)
    BY <2>3 DEF CliInv, FoundInv
  <2> QED
    BY <1>1, <2>1, <2>4 DEF FoundInv
<1> QED
  BY <1>2, <1>3, <1>4, <1>6, <1>7, <1>8 DEF CliInv

LEMMA ReportStep == ASSUME CliInv, ReportValidate PROVE CliInv'
<1>1. /\ Quiet /\ at = "config" /\ args.cmd = "validate"
      /\ mode = Value(args.toks, "mode", "auto")
  BY DEF ReportValidate, Stay, Quiet, CliInv, UseInv
<1>2. CASE Exit("1", "")
  BY <1>1, <1>2, FailStep
<1>3. CASE stage \in {"server", "client"} /\ Exit("0", Prose)
  <2>1. mode \in {"auto", stage}
    BY <1>3 DEF CliInv, UseInv, IInv, TypeOK
  <2>2. ParsedTrue'
    BY <1>1, <1>3, <2>1 DEF ParsedTrue, Quiet, vars
  <2> QED
    BY <1>1, <1>3, <2>2, ExitStep, QuietTyped, ProseSaid
<1> QED
  BY <1>2, <1>3 DEF ReportValidate

LEMMA ReadyStep == ASSUME CliInv, ClientReady PROVE CliInv'
<1>1. Quiet /\ at = "config" /\ entry = "client"
  BY DEF ClientReady, Stay, Quiet
<1>2. CASE Exit("1", "")
  BY <1>1, <1>2, FailStep
<1>3. CASE stage = "up" /\ Go("request")
  <2>1. LookupInv'
    BY <1>3 DEF LookupInv, Go
  <2>2. UseInv'
    BY <1>1, <1>3 DEF CliInv, UseInv, Go, Quiet, vars
  <2> QED
    BY <1>1, <1>3, <2>1, <2>2, GoStep, QuietTyped
<1> QED
  BY <1>2, <1>3 DEF ClientReady

\* Whom the authorizer admits, the validated policy admits.
LEMMA RequestStep == ASSUME CliInv, Request PROVE CliInv'
<1>1. /\ UNCHANGED <<vars, args, asked, cluster>> /\ at = "request"
      /\ args.cmd = "client" /\ entry = "client" /\ stage = "up"
  BY DEF Request, Stay, CliInv, UseInv
<1>2. CASE Exit("1", "") /\ UNCHANGED found
  BY <1>1, <1>2, FailStep DEF Quiet
<1>3. ASSUME Answered, found' \in Texts \union TDs \union IDs, FoundInv',
             found' # "" \/ ParsedURL(args.toks) \in PlainURLs
      PROVE  CliInv'
  <2>1. CASE Go("request")
    <3>1. LookupInv' /\ UseInv'
      BY <1>1, <2>1 DEF CliInv, LookupInv, UseInv, Go, vars
    <3> QED
      BY <1>1, <1>3, <2>1, <3>1, GoStep
  <2>2. ASSUME NEW s \in {"0", "1"}, Exit(s, Prose) PROVE CliInv'
    <3>1. ParsedTrue'
      BY <1>1, <1>3 DEF ParsedTrue
    <3> QED
      BY <1>1, <1>3, <2>2, <3>1, ExitStep, ProseSaid
  <2> QED
    BY <1>3, <2>1, <2>2 DEF Answered
<1>4. ASSUME NEW peer \in IDs, Admits(authorizer, peer), found' = peer, Answered
      PROVE  CliInv'
  <2>1. Admits(policy, peer)
    BY <1>1, <1>4, KeepsPolicy DEF CliInv, PolicyPreserved
  <2>2. peer # ""
    BY NotIDs
  <2>3. at' \notin {"start", "config"}
    BY <1>4 DEF Answered, Go, Exit
  <2>4. Rest(args.toks) # <<>>
    BY <1>1 DEF CliInv, FoundInv
  <2>5. UNCHANGED <<args, stage, policy>>
    BY <1>1 DEF vars
  <2>6. FoundInv'
    BY <1>1, <1>4, <2>1, <2>3, <2>4, <2>5 DEF FoundInv, Admits
  <2> QED
    BY <1>3, <1>4, <2>2, <2>6
<1>5. CASE /\ found # "" \/ ParsedURL(args.toks) \in PlainURLs
           /\ UNCHANGED found /\ Answered
  <2>1. at' \notin {"start", "config"}
    BY <1>5 DEF Answered, Go, Exit
  <2>2. FoundInv'
    BY <1>1, <1>5, <2>1 DEF CliInv, FoundInv, Admits, vars
  <2>3. found' \in Texts \union TDs \union IDs
    BY <1>5 DEF CliInv, CliTypeOK
  <2> QED
    BY <1>3, <1>5, <2>2, <2>3
<1> QED
  BY <1>2, <1>4, <1>5 DEF Request, ParsedURL

-----------------------------------------------------------------------------
(* The script, and the cluster *)

LEMMA WriteStep == ASSUME CliInv, WriteConfig PROVE CliInv'
<1>1. /\ UNCHANGED <<entry, mode, own, stage, policy, timeout, authorizer>>
      /\ UNCHANGED <<asked, found, left, cluster>>
      /\ at = "exit" /\ asked # NoArgs /\ args = asked /\ file' = WithID(printed)
      /\ args' = ValidateFile /\ at' = "start" /\ code' = "none" /\ printed' = ""
  BY DEF WriteConfig
<1>2. args.cmd = "discover" /\ Fresh
  BY <1>1 DEF CliInv, ScriptInv, FreshInv
<1>3. ValidateFile \in Commands /\ ValidateFile.cmd = "validate"
  BY CommandsAssumption DEF ValidateFile
<1>4. WithID(printed) \in Files
  BY TemplateAssumption DEF CliInv, CliTypeOK
<1>5. IInv'
  BY <1>1, <1>2, <1>4 DEF CliInv, IInv, TypeOK, OriginInv, Fresh, NoPolicy
<1>6. CliTypeOK'
  <2>1. "" \in Said
    BY ProseSaid
  <2> QED
    BY <1>1, <1>3, <1>5, <2>1 DEF CliInv, CliTypeOK, IInv, cluster
<1>7. FreshInv' /\ LookupInv' /\ UseInv' /\ ParsedTrue' /\ FoundInv'
  BY <1>1, <1>2, <1>3 DEF CliInv, FreshInv, Fresh, LookupInv, UseInv, ParsedTrue, FoundInv
<1>8. ScriptInv'
  <2>1. "allowedID" \in DOMAIN Template
    BY TemplateAssumption, FilesAssumption
  <2>2. /\ WithID(printed).allowedTD = Template.allowedTD
        /\ WithID(printed).allowedID = [pad |-> FALSE, says |-> printed]
    BY <2>1 DEF WithID
  <2>3. Answer(asked.toks, printed)
    BY <1>1, <1>2 DEF CliInv, ScriptInv
  <2>4. /\ file'.allowedTD = Template.allowedTD
        /\ file'.allowedID = [pad |-> FALSE, says |-> printed]
    BY <1>1, <2>2
  <2>5. ~file'.allowedID.pad /\ file'.allowedID.says = printed
    BY <2>4
  <2>6. Empty(file'.allowedTD)
    BY <2>4, TemplateAssumption
  <2> QED
    BY <1>1, <1>2, <1>3, <2>3, <2>5, <2>6
       DEF CliInv, ScriptInv, Answer, ParsedID, ParsedDomains, cluster
<1> QED
  BY <1>5, <1>6, <1>7, <1>8 DEF CliInv

LEMMA DeployStep == ASSUME CliInv, DeployServer PROVE CliInv'
<1>1. /\ UNCHANGED <<mode, file, own, timeout, authorizer>>
      /\ UNCHANGED <<args, asked, found, printed, code, left, cluster>>
      /\ at = "exit" /\ asked # NoArgs /\ args.cmd = "validate" /\ at' = "off"
      /\ entry' = "start" /\ stage' = "load" /\ policy' = NoPolicy
  BY DEF DeployServer
<1>2. entry = "validate" /\ authorizer = NoPolicy
  BY <1>1 DEF CliInv, FreshInv, IInv, OriginInv
<1>3. IInv'
  BY <1>1, <1>2 DEF CliInv, IInv, TypeOK, OriginInv, NoPolicy, Policies
<1>4. CliTypeOK'
  BY <1>1, <1>3 DEF CliInv, CliTypeOK, IInv, cluster
<1>5. FreshInv' /\ LookupInv' /\ UseInv' /\ ParsedTrue' /\ FoundInv'
  BY <1>1 DEF FreshInv, LookupInv, UseInv, ParsedTrue, FoundInv
<1>6. ScriptInv'
  BY <1>1 DEF CliInv, ScriptInv, Answer, ParsedID, ParsedDomains, cluster
<1> QED
  BY <1>3, <1>4, <1>5, <1>6 DEF CliInv

\* What was true of an object stays true when SPIRE or the object is replaced.
LEMMA ReinstallStep == ASSUME CliInv, Reinstall \/ Redeploy PROVE CliInv'
<1>1. /\ UNCHANGED <<vars, command>> /\ had \subseteq had'
      /\ at \in {"kubectl", "helm", "values", "configmap", "object"}
      /\ args.cmd \in {"discover", "spiffe-id"}
  BY DEF Reinstall, Redeploy, CliInv, LookupInv
<1>9. \A ns \in Namespaces : hadObjects[ns] \subseteq hadObjects'[ns]
  BY DEF Reinstall, Redeploy
<1>2. IInv'
  BY <1>1, KeepsIInv DEF CliInv
<1>3. CliTypeOK'
  <2>1. spire' \in TDs \union {""} /\ spire' \in had' \union {""} /\ had' \subseteq TDs
    BY DEF Reinstall, Redeploy, CliInv, CliTypeOK
  <2>2. /\ objects' \in Clusters
        /\ hadObjects' \in [Namespaces -> SUBSET (Accounts \union {""})]
        /\ \A ns \in Namespaces : objects'[ns] \subseteq hadObjects'[ns]
    <3>1. CASE Reinstall
      BY <3>1 DEF Reinstall, CliInv, CliTypeOK
    <3>2. CASE Redeploy
      <4>1. objects' \in Clusters
        BY <3>2 DEF Redeploy
      <4>2. objects' \in [Namespaces -> SUBSET (Accounts \union {""})]
        BY <4>1, WorldAssumption
      <4>3. hadObjects' = [ns \in Namespaces |-> hadObjects[ns] \union objects'[ns]]
        BY <3>2 DEF Redeploy
      <4>4. hadObjects \in [Namespaces -> SUBSET (Accounts \union {""})]
        BY DEF CliInv, CliTypeOK
      <4>5. \A ns \in Namespaces :
              hadObjects[ns] \union objects'[ns] \in SUBSET (Accounts \union {""})
        BY <4>2, <4>4
      <4> QED
        BY <4>1, <4>3, <4>5
    <3> QED
      BY <3>1, <3>2
  <2> QED
    BY <1>1, <1>2, <2>1, <2>2 DEF CliInv, CliTypeOK, IInv, command
<1>4. \A toks : ParsedDomains(toks) \subseteq ParsedDomains(toks)'
  BY <1>1 DEF ParsedDomains
<1>5. \A toks, id : ParsedID(toks, id) => ParsedID(toks, id)'
  BY <1>1, <1>4, <1>9 DEF ParsedID
<1>6. FreshInv' /\ UseInv' /\ ParsedTrue' /\ FoundInv'
  BY <1>1 DEF CliInv, FreshInv, Fresh, UseInv, ParsedTrue, FoundInv, vars, command
<1>7. LookupInv'
  <2>1. args' = args /\ at' = at /\ found' = found
    BY <1>1 DEF command
  <2>2. at = "object" => found \in ParsedDomains(args.toks)'
    BY <1>1, <2>1 DEF CliInv, LookupInv, ParsedDomains
  <2>3. at = "object" => found' \in ParsedDomains(args.toks)'
    BY <2>1, <2>2
  <2> QED
    BY <2>1, <2>3 DEF CliInv, LookupInv, ParsedDomains
<1>8. ScriptInv'
  BY <1>1, <1>5 DEF CliInv, ScriptInv, Answer, vars, command
<1> QED
  BY <1>2, <1>3, <1>6, <1>7, <1>8 DEF CliInv

LEMMA StutterStep == ASSUME CliInv, UNCHANGED allvars PROVE CliInv'
<1>1. UNCHANGED <<vars, command, cluster>>
  BY DEF allvars
<1>2. IInv'
  BY <1>1, KeepsIInv DEF CliInv
<1>3. CliTypeOK'
  BY <1>1, <1>2 DEF CliInv, CliTypeOK, IInv, command, cluster
<1>4. FreshInv' /\ LookupInv' /\ UseInv' /\ FoundInv'
  BY <1>1 DEF CliInv, FreshInv, Fresh, LookupInv, ParsedDomains, UseInv, FoundInv, vars, command, cluster
<1>5. ScriptInv' /\ ParsedTrue'
  BY <1>1 DEF CliInv, ScriptInv, ParsedTrue, Answer, ParsedID, ParsedDomains, vars, command, cluster
<1> QED
  BY <1>2, <1>3, <1>4, <1>5 DEF CliInv

LEMMA CliStepInv == CliInv /\ [CliNext]_allvars => CliInv'
<1> SUFFICES ASSUME CliInv, [CliNext]_allvars PROVE CliInv'
  OBVIOUS
<1>1. CASE Discover \/ SpiffeID \/ Version \/ ToolVersion \/ Execute \/ ReportVersions
  BY <1>1, DiscoverStep, SpiffeIDStep, VersionStep, ToolStep, OtherStep
<1>2. CASE AnswerKubectl \/ ExpireKubectl \/ AnswerHelm \/ ExpireHelm
  BY <1>2, KubectlStep, HelmStep DEF AnswerKubectl, ExpireKubectl, AnswerHelm, ExpireHelm
<1>3. CASE HelmValues \/ ConfigMap \/ GetObject
  BY <1>3, SearchStep, ObjectStep
<1>4. CASE Validate \/ Client \/ UseFile \/ ReportValidate \/ ClientReady \/ Request
  BY <1>4, ValidateStep, ClientStep, UseStep, ReportStep, ReadyStep, RequestStep
<1>5. CASE WriteConfig \/ DeployServer \/ Reinstall \/ Redeploy
  BY <1>5, WriteStep, DeployStep, ReinstallStep
<1>6. CASE UNCHANGED allvars
  BY <1>6, StutterStep
<1> QED
  BY <1>1, <1>2, <1>3, <1>4, <1>5, <1>6 DEF CliNext

-----------------------------------------------------------------------------
(* The theorems *)

\* The invariant of a file and of the command line hold in every reachable state.
THEOREM CliInvCorrect == CliSpec => []CliInv
  BY CliInitInv, CliStepInv, PTL DEF CliSpec

\* Every variable has its type.
THEOREM CliTyped == CliSpec => []CliTypeOK
  BY CliInvCorrect, PTL DEF CliInv

(* What the tool takes the user to ask for, and what the user gave *)

\* No flag is given twice.
NotTwice(toks) ==
  \A i, j \in DOMAIN toks : toks[i].flag = toks[j].flag /\ toks[i].flag # "" => i = j

\* ... on any of the command lines considered.
LEMMA Given ==
  ASSUME CliTypeOK
  PROVE  NotTwice(args.toks) /\ NotTwice(asked.toks) /\ asked.toks \in Tokens
<1>1. \A c \in Commands : NotTwice(c.toks) /\ c.toks \in Tokens
  BY CommandsAssumption DEF NotTwice, Tokens
<1>2. NotTwice(NoArgs.toks) /\ NoArgs.toks \in Tokens
  BY EmptySeq DEF NotTwice, NoArgs, Tokens
<1> QED
  BY <1>1, <1>2 DEF CliTypeOK

\* What stands up to a token, and what follows a first word, stands in the line.
LEMMA UpTo ==
  ASSUME NEW n \in Nat, NEW i \in 1 .. n, NEW j \in 1 .. i
  PROVE  j \in 1 .. n /\ (j = i \/ j < i)
  OBVIOUS

LEMMA InTail ==
  ASSUME NEW n \in Nat, NEW k \in 0 .. n, NEW m,
         m = IF k + 1 <= n THEN n - (k + 1) + 1 ELSE 0, NEW i \in 1 .. m - 1
  PROVE  i + 1 \in 1 .. n - (k + 1) + 1 /\ (k + 1) + (i + 1) - 1 \in 1 .. n
  OBVIOUS

\* What is left of a sequence, without its first element, is of the sequence.
LEMMA TailOfRest ==
  ASSUME NEW T, NEW s \in Seq(T), NEW k \in 0 .. Len(s), SubSeq(s, k + 1, Len(s)) # <<>>
  PROVE  \A i \in DOMAIN Tail(SubSeq(s, k + 1, Len(s))) :
           \E j \in DOMAIN s : Tail(SubSeq(s, k + 1, Len(s)))[i] = s[j]
<1> DEFINE rest == SubSeq(s, k + 1, Len(s))
<1> SUFFICES ASSUME NEW i \in DOMAIN Tail(rest)
             PROVE  \E j \in DOMAIN s : Tail(rest)[i] = s[j]
  OBVIOUS
<1>1. Len(s) \in Nat /\ DOMAIN s = 1 .. Len(s) /\ \A j \in 1 .. Len(s) : s[j] \in T
  BY LenProperties, ElementOfSeq
<1>2. k \in Nat /\ k <= Len(s) /\ \A j \in k + 1 .. Len(s) : s[j] \in T
  BY <1>1
<1>3. /\ rest \in Seq(T)
      /\ Len(rest) = IF k + 1 <= Len(s) THEN Len(s) - (k + 1) + 1 ELSE 0
      /\ \A j \in 1 .. Len(s) - (k + 1) + 1 : rest[j] = s[(k + 1) + j - 1]
  BY <1>1, <1>2, SubSeqProperties
<1> HIDE DEF rest
<1>4. /\ Tail(rest) \in Seq(T) /\ Len(Tail(rest)) = Len(rest) - 1
      /\ \A j \in 1 .. Len(Tail(rest)) : Tail(rest)[j] = rest[j + 1]
  <2>1. rest # <<>>
    BY DEF rest
  <2> QED
    BY <1>3, <2>1, HeadTailProperties
<1>5. i \in 1 .. Len(Tail(rest)) /\ i \in 1 .. Len(rest) - 1
  BY <1>4, LenProperties
<1>6. i + 1 \in 1 .. Len(s) - (k + 1) + 1 /\ (k + 1) + (i + 1) - 1 \in 1 .. Len(s)
  BY <1>1, <1>3, <1>5, InTail
<1>7. Tail(rest)[i] = s[(k + 1) + (i + 1) - 1]
  BY <1>3, <1>4, <1>5, <1>6
<1> QED
  BY <1>1, <1>6, <1>7

\* A flag that is given before the words is what the tool takes for given.
LEMMA OneFlag ==
  ASSUME NEW toks \in Tokens, FlagsFirst(toks), NotTwice(toks),
         NEW i \in DOMAIN toks, toks[i].flag # "", NEW default
  PROVE  Value(toks, toks[i].flag, default) = toks[i].val
<1> DEFINE flag == toks[i].flag
<1>1. DOMAIN toks = 1 .. Len(toks) /\ Len(toks) \in Nat
  BY LenProperties DEF Tokens
<1>2. i \in Leading(toks)
  <2> SUFFICES ASSUME NEW j \in 1 .. i PROVE toks[j].flag # ""
    BY DEF Leading
  <2>1. j \in DOMAIN toks /\ (j = i \/ j < i)
    BY <1>1, UpTo
  <2> QED
    BY <2>1 DEF FlagsFirst
<1>3. (CHOOSE j \in Leading(toks) : toks[j].flag = flag) = i
  <2>1. \A j \in Leading(toks) : toks[j].flag = flag => j = i
    BY DEF NotTwice, Leading
  <2> QED
    BY <1>2, <2>1
<1> QED
  BY <1>2, <1>3 DEF Value

\* So the tool asks for what the user asked for.
LEMMA AsAsked ==
  ASSUME NEW toks \in Tokens, FlagsFirst(toks), NotTwice(toks), NEW flag, flag # "",
         NEW default, NEW nothing
  PROVE  /\ Value(toks, flag, default) = "" => Asked(toks, flag, nothing) = nothing
         /\ Value(toks, flag, default) # "" =>
              Asked(toks, flag, nothing) \in {{Value(toks, flag, default)}, nothing}
         /\ Value(toks, flag, "") # "" =>
              Asked(toks, flag, nothing) = {Value(toks, flag, "")}
         /\ Value(toks, flag, default) # default /\ Value(toks, flag, default) # "" =>
              Asked(toks, flag, nothing) = {Value(toks, flag, default)}
<1> DEFINE given == {toks[i].val : i \in {j \in DOMAIN toks : toks[j].flag = flag}} \ {""}
<1>1. CASE \E i \in DOMAIN toks : toks[i].flag = flag
  <2>1. PICK i \in DOMAIN toks : toks[i].flag = flag
    BY <1>1
  <2>2. Value(toks, flag, default) = toks[i].val /\ Value(toks, flag, "") = toks[i].val
    BY <2>1, OneFlag
  <2>3. \A j \in DOMAIN toks : toks[j].flag = flag => j = i
    BY <2>1 DEF NotTwice
  <2>4. given = {toks[i].val} \ {""}
    BY <2>1, <2>3
  <2> QED
    BY <2>2, <2>4 DEF Asked
<1>2. CASE ~ \E i \in DOMAIN toks : toks[i].flag = flag
  <2>1. Value(toks, flag, default) = default /\ Value(toks, flag, "") = ""
    BY <1>2 DEF Value, Leading
  <2>2. Asked(toks, flag, nothing) = nothing
    BY <1>2 DEF Asked
  <2> QED
    BY <2>1, <2>2
<1> QED
  BY <1>1, <1>2

\* An ID of what the tool asks for is one of what the user asked for.
LEMMA IDAsAsked ==
  ASSUME NEW toks \in Tokens, FlagsFirst(toks), NotTwice(toks), NEW id, ParsedID(toks, id)
  PROVE  HasID(toks, id)
<1>1. Asked(toks, "namespace", {Current}) = {Namespace(toks)}
  BY AsAsked DEF Namespace
<1>2. Asked(toks, "trust-domain", had) = ParsedDomains(toks)
  BY AsAsked DEF ParsedDomains
<1> QED
  BY <1>1, <1>2 DEF HasID, ParsedID

\* The flags before the words are no more than there are tokens.
LEMMA Counted ==
  ASSUME NEW n \in Nat, NEW S, S \subseteq 1 .. n
  PROVE  Cardinality(S) \in 0 .. n
<1>1. IsFiniteSet(1 .. n) /\ Cardinality(1 .. n) = n
  BY FS_Interval
<1>2. Cardinality(S) \in Nat /\ Cardinality(S) <= n
  BY <1>1, FS_Subset, FS_CardinalityType
<1> QED
  BY <1>2

\* The URL that a request is sent to is given on the command line.
LEMMA URLGiven ==
  ASSUME NEW toks \in Tokens, Rest(toks) # <<>>, ParsedURL(toks) # ""
  PROVE  ParsedURL(toks) \in Asked(toks, "url", {})
<1> DEFINE sub == Tail(Rest(toks))
           k   == Cardinality(Leading(toks))
<1>1. Len(toks) \in Nat /\ DOMAIN toks = 1 .. Len(toks)
  BY LenProperties DEF Tokens
<1>2. Leading(toks) \subseteq 1 .. Len(toks)
  BY <1>1 DEF Leading
<1>3. k \in 0 .. Len(toks)
  BY <1>1, <1>2, Counted
<1>4. \A i \in DOMAIN sub : \E j \in DOMAIN toks : sub[i] = toks[j]
  <2> DEFINE T == [flag : STRING, val : Texts]
  <2>1. toks \in Seq(T) /\ Rest(toks) = SubSeq(toks, k + 1, Len(toks))
    BY DEF Rest, Tokens
  <2>2. SubSeq(toks, k + 1, Len(toks)) # <<>>
    BY <2>1
  <2> HIDE DEF T, k
  <2>3. \A i \in DOMAIN Tail(SubSeq(toks, k + 1, Len(toks))) :
          \E j \in DOMAIN toks : Tail(SubSeq(toks, k + 1, Len(toks)))[i] = toks[j]
    BY <1>3, <2>1, <2>2, TailOfRest
  <2> QED
    BY <2>1, <2>3
<1>5. PICK i \in DOMAIN sub : sub[i].flag = "url" /\ sub[i].val = ParsedURL(toks)
  <2>1. \E i \in Leading(sub) : sub[i].flag = "url"
    BY DEF ParsedURL, Value
  <2>2. ParsedURL(toks) = sub[CHOOSE i \in Leading(sub) : sub[i].flag = "url"].val
    BY <2>1 DEF ParsedURL, Value
  <2> QED
    BY <2>1, <2>2 DEF Leading
<1>6. PICK j \in DOMAIN toks : toks[j].flag = "url" /\ toks[j].val = ParsedURL(toks)
  BY <1>4, <1>5
<1> QED
  BY <1>6 DEF Asked

\* An exit status of 0 is the truth, for any command lines, files and cluster, and
\* whoever replaces SPIRE and the objects in it meanwhile.
THEOREM TrueSuccess == CliSpec => []SuccessIsTrue
<1>1. CliInv => SuccessIsTrue
  <2> SUFFICES ASSUME CliInv, at = "exit", code = "0" PROVE SuccessIsTrue
    BY DEF SuccessIsTrue
  <2> DEFINE toks == args.toks
  <2>1. toks \in Tokens /\ NotTwice(toks) /\ ParsedTrue
    BY Typed, Given DEF CliInv
  <2>2. ASSUME args.cmd = "discover", FlagsFirst(toks),
               Misused(toks, {"trust-domain", "namespace"}) = {}
        PROVE  IF Args(toks)[1] = "trust-domain" THEN printed \in had ELSE HasID(toks, printed)
    BY <2>1, <2>2, IDAsAsked DEF ParsedTrue
  <2>3. ASSUME args.cmd = "validate", FlagsFirst(toks), Misused(toks, {"mode"}) = {}
        PROVE  /\ stage \in {"server", "client"}
               /\ Asked(toks, "mode", {"auto"}) \subseteq {"auto", stage}
    <3>1. stage \in {"server", "client"} /\ Value(toks, "mode", "auto") \in {"auto", stage}
      BY <2>1, <2>3 DEF ParsedTrue
    <3>2. Value(toks, "mode", "auto") # ""
      BY <3>1
    <3>3. Asked(toks, "mode", {"auto"}) \in {{Value(toks, "mode", "auto")}, {"auto"}}
      BY <2>1, <2>3, <3>2, AsAsked
    <3> QED
      BY <3>1, <3>3
  <2>4. ASSUME args.cmd = "client", entry = "client",
               Asked(toks, "url", {}) \intersect PlainURLs = {}
        PROVE  found \in IDs /\ Admits(policy, found)
    <3>1. Rest(toks) # <<>> /\ (found # "" => found \in IDs /\ Admits(policy, found))
      BY <2>4 DEF CliInv, FoundInv
    <3>2. ParsedURL(toks) \notin PlainURLs
      BY <2>1, <2>4, <3>1, URLGiven, CommandsAssumption
    <3> QED
      BY <2>1, <2>4, <3>1, <3>2 DEF ParsedTrue
  <2> QED
    BY <2>2, <2>3, <2>4 DEF SuccessIsTrue
<1> QED
  BY <1>1, CliInvCorrect, PTL

\* What a file does in a program of its own, it does under the command line.
THEOREM FilesTheSame == CliSpec => [](PolicyPreserved /\ OnlyNamedPeers /\ PaddingRefused)
<1>1. CliInv => PolicyPreserved /\ OnlyNamedPeers /\ PaddingRefused
  BY KeepsPolicy, AdmitsNamed, RefusesPadding DEF CliInv
<1> QED
  BY <1>1, CliInvCorrect, PTL

\* A file whose only policy is one unpadded ID text makes a server that admits
\* exactly that ID.
LEMMA ExactlyThatID ==
  ASSUME IInv, entry = "start", stage = "up", ~file.allowedID.pad, Empty(file.allowedTD)
  PROVE  /\ file.allowedID.says \in IDs
         /\ \A peer \in IDs : Admits(authorizer, peer) <=> peer = file.allowedID.says
<1>1. file.allowedID \in Text /\ file.allowedTD \in Text
  BY FileTyped DEF IInv, TypeOK
<1>2. validateAuthz(file.allowedID, file.allowedTD).kind # "error"
  BY DEF IInv, OriginInv
<1>3. ~Empty(file.allowedID)
  BY <1>1, <1>2, EmptyTrimmed DEF validateAuthz, Refusal
<1>4. authorizer = ExactID(file.allowedID) /\ authorizer.kind # "error"
  BY <1>3 DEF IInv, OriginInv, Built, IsServer, ServerAuthorizer
<1>5. FromString(file.allowedID) # "junk"
  BY <1>4 DEF ExactID, Refusal
<1>6. /\ file.allowedID.says \in IDs
      /\ authorizer = [kind |-> "id", is |-> file.allowedID.says]
  BY <1>4, <1>5 DEF ExactID, FromString
<1> QED
  BY <1>6 DEF Admits

\* However the script went, the server it brought up admits one client, and that
\* is one that was asked for, if the flags of its discovery come first.
THEOREM ScriptAdmits == CliSpec => []ScriptAdmitsTheClient
<1>1. CliInv => ScriptAdmitsTheClient
  <2> SUFFICES ASSUME CliInv, asked # NoArgs, entry = "start", stage = "up"
               PROVE  ScriptAdmitsTheClient
    BY DEF ScriptAdmitsTheClient
  <2>1. asked.cmd = "discover" /\ (args = asked \/ args.cmd = "validate")
    BY DEF CliInv, ScriptInv
  <2>2. args # asked
    <3>1. CASE at = "off"
      BY <2>1, <3>1 DEF CliInv, FreshInv
    <3>2. CASE at # "off"
      BY <2>1, <3>2 DEF CliInv, FreshInv, Fresh
    <3> QED
      BY <3>1, <3>2
  <2>3. /\ ~file.allowedID.pad /\ Empty(file.allowedTD)
        /\ Answer(asked.toks, file.allowedID.says)
    BY <2>2 DEF CliInv, ScriptInv
  <2>4. /\ file.allowedID.says \in IDs
        /\ \A peer \in IDs : Admits(authorizer, peer) <=> peer = file.allowedID.says
    BY <2>3, ExactlyThatID DEF CliInv
  <2>5. FlagsFirst(asked.toks) => HasID(asked.toks, file.allowedID.says)
    BY <2>3, <2>4, Given, IDAsAsked DEF Answer, CliInv
  <2> QED
    BY <2>3, <2>4, <2>5 DEF ScriptAdmitsTheClient
<1> QED
  BY <1>1, CliInvCorrect, PTL

-----------------------------------------------------------------------------
(***************************************************************************)
(* Progress. WF_allvars(A) obliges A when ENABLED <<A>>_allvars holds,     *)
(* which the provers do not compute. GuardsEnable states it for each fair  *)
(* action: an action whose guard holds can be taken. TLC checks            *)
(* GuardsEnable as an invariant of this module with the constants of any   *)
(* cfg.                                                                    *)
(***************************************************************************)

GuardsEnable ==
  /\ at = "kubectl" => ENABLED <<ExpireKubectl>>_allvars
  /\ at = "helm" => ENABLED <<ExpireHelm>>_allvars
  /\ at = "tools" /\ left > 0 => ENABLED <<ToolVersion>>_allvars
  /\ at = "tools" /\ left = 0 => ENABLED <<ReportVersions>>_allvars

\* Where the steps of each kind begin.
LEMMA Begins ==
  ASSUME [CliNext]_allvars
  PROVE  \/ at \notin {"kubectl", "helm", "tools"}
         \/ AnswerKubectl \/ AnswerHelm \/ ToolVersion \/ ReportVersions
         \/ UNCHANGED <<at, left>>
<1>1. ASSUME Execute \/ Discover \/ SpiffeID \/ Validate \/ Client \/ Version PROVE at = "start"
  BY <1>1 DEF Execute, Discover, SpiffeID, Validate, Client, Version
<1>2. ASSUME HelmValues \/ ConfigMap \/ GetObject
      PROVE  at \in {"values", "configmap", "object"}
  BY <1>2 DEF HelmValues, ConfigMap, GetObject
<1>3. ASSUME UseFile \/ ReportValidate \/ ClientReady \/ Request
      PROVE  at \in {"off", "config", "request"}
  BY <1>3 DEF UseFile, ReportValidate, ClientReady, Request
<1>4. ASSUME WriteConfig \/ DeployServer PROVE at = "exit"
  BY <1>4 DEF WriteConfig, DeployServer
<1>5. ASSUME Reinstall \/ Redeploy \/ UNCHANGED allvars PROVE UNCHANGED <<at, left>>
  BY <1>5 DEF Reinstall, Redeploy, allvars, command
<1>6. (ExpireKubectl => AnswerKubectl) /\ (ExpireHelm => AnswerHelm)
  BY DEF ExpireKubectl, AnswerKubectl, ExpireHelm, AnswerHelm
<1> QED
  BY <1>1, <1>2, <1>3, <1>4, <1>5, <1>6 DEF CliNext

\* A tool that hangs does not hang the probe for it: kubectl, helm and the five
\* tools of "version" are killed at their deadlines (discover.go:107-127,
\* version_cmd.go:184).
THEOREM ProbesReturn == FairSpec /\ []GuardsEnable => ProbesEnd
<1> DEFINE Kubectl  == at = "kubectl"
           Helm     == at = "helm"
           Tools(n) == at = "tools" /\ left = n
           Ended    == at \notin {"kubectl", "helm", "tools"}
<1>1. CliInv => Kubectl \/ Helm \/ Tools(5) \/ Tools(4) \/ Tools(3) \/ Tools(2) \/ Tools(1)
                \/ Tools(0) \/ Ended
  <2>1. CliInv => left \in 0 .. 5
    BY DEF CliInv, CliTypeOK
  <2>2. left \in 0 .. 5 => left \in {0, 1, 2, 3, 4, 5}
    OBVIOUS
  <2> QED
    BY <2>1, <2>2
<1>2. AnswerKubectl => at = "kubectl" /\ at' \in {"exit", "helm", "object"}
  BY DEF AnswerKubectl, ProbedKubectl, Go, Exit
<1>3. ExpireKubectl => at' = "exit"
  BY DEF ExpireKubectl, ProbedKubectl, Exit
<1>4. AnswerHelm => at = "helm" /\ at' \in {"values", "configmap"}
  BY DEF AnswerHelm, ProbedHelm, Go
<1>5. ExpireHelm => at' = "configmap"
  BY DEF ExpireHelm, ProbedHelm, Go
<1>6. ToolVersion => at = "tools" /\ at' = at /\ left > 0 /\ left' = left - 1
  BY DEF ToolVersion
<1>7. ReportVersions => at = "tools" /\ left = 0 /\ at' = "exit"
  BY DEF ReportVersions, Exit
<1>8. Kubectl /\ [CliNext]_allvars => Kubectl' \/ Helm' \/ Ended'
  BY <1>2, <1>4, <1>6, <1>7, Begins
<1>9. Helm /\ [CliNext]_allvars => Helm' \/ Ended'
  BY <1>2, <1>4, <1>6, <1>7, Begins
<1>10. Tools(0) /\ [CliNext]_allvars => Tools(0)' \/ Ended'
  BY <1>2, <1>4, <1>6, <1>7, Begins
<1>11. /\ Tools(5) /\ [CliNext]_allvars => Tools(5)' \/ Tools(4)'
       /\ Tools(4) /\ [CliNext]_allvars => Tools(4)' \/ Tools(3)'
       /\ Tools(3) /\ [CliNext]_allvars => Tools(3)' \/ Tools(2)'
       /\ Tools(2) /\ [CliNext]_allvars => Tools(2)' \/ Tools(1)'
       /\ Tools(1) /\ [CliNext]_allvars => Tools(1)' \/ Tools(0)'
  BY <1>2, <1>4, <1>6, <1>7, Begins
<1>12. /\ Tools(5) /\ <<ToolVersion>>_allvars => Tools(4)'
       /\ Tools(4) /\ <<ToolVersion>>_allvars => Tools(3)'
       /\ Tools(3) /\ <<ToolVersion>>_allvars => Tools(2)'
       /\ Tools(2) /\ <<ToolVersion>>_allvars => Tools(1)'
       /\ Tools(1) /\ <<ToolVersion>>_allvars => Tools(0)'
  BY <1>6
<1>13. Tools(5) \/ Tools(4) \/ Tools(3) \/ Tools(2) \/ Tools(1) => at = "tools" /\ left > 0
  OBVIOUS
<1>14. /\ Kubectl /\ <<ExpireKubectl>>_allvars => Ended'
       /\ Helm /\ <<ExpireHelm>>_allvars => Ended'
       /\ Tools(0) /\ <<ReportVersions>>_allvars => Ended'
  BY <1>3, <1>5, <1>7
<1>15. (at = "kubectl" <=> Kubectl) /\ (at = "helm" <=> Helm)
       /\ (at = "tools" /\ left = 0 <=> Tools(0))
  OBVIOUS
<1> HIDE DEF Kubectl, Helm, Tools, Ended
<1>16. FairSpec /\ []GuardsEnable => [](Helm \/ Kubectl => <>Ended)
  BY <1>8, <1>9, <1>14, <1>15, PTL DEF FairSpec, CliSpec, GuardsEnable
<1>17. FairSpec /\ []GuardsEnable =>
         [](Tools(5) \/ Tools(4) \/ Tools(3) \/ Tools(2) \/ Tools(1) \/ Tools(0) => <>Ended)
  BY <1>10, <1>11, <1>12, <1>13, <1>14, <1>15, PTL DEF FairSpec, CliSpec, GuardsEnable
<1>18. FairSpec /\ []GuardsEnable => (~Ended ~> Ended)
  BY <1>1, <1>16, <1>17, CliInvCorrect, PTL DEF FairSpec
<1>19. at \in {"kubectl", "helm", "tools"} <=> ~Ended
  BY DEF Ended
<1> QED
  BY <1>18, <1>19, PTL DEF ProbesEnd, Ended
=============================================================================
