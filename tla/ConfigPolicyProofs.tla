------------------------- MODULE ConfigPolicyProofs -------------------------
(***************************************************************************)
(* ConfigPolicy proved for any IDs, trust domains and files: what the two  *)
(* parsers of a policy have in common, and the invariants of the runs.     *)
(***************************************************************************)
EXTENDS ConfigPolicy, TLAPS

\* Trimming an unpadded text changes nothing.
LEMMA TrimPlain == ASSUME NEW t \in Text, ~t.pad PROVE TrimSpace(t) = t
  BY DEF Text, TrimSpace

\* The SDK's parsers refuse every padded text.
LEMMA PaddedRefused ==
  ASSUME NEW t \in Text, t.pad PROVE ExactID(t) = Refusal /\ MemberOf(t) = Refusal
  BY DEF ExactID, MemberOf, FromString, TrustDomainFromString, Refusal

\* A single text, parsed after trimming and raw: if the raw text is accepted it
\* gives the policy that validation parsed.
LEMMA RawOrTrimmed ==
  ASSUME NEW t \in Text
  PROVE  /\ ExactID(t).kind # "error" => ExactID(t) = ExactID(TrimSpace(t))
         /\ MemberOf(t).kind # "error" => MemberOf(t) = MemberOf(TrimSpace(t))
<1>1. CASE t.pad
  BY <1>1, PaddedRefused DEF Refusal
<1>2. CASE ~t.pad
  BY <1>2, TrimPlain
<1> QED
  BY <1>1, <1>2

\* Every text is padded or not, and an unpadded one is empty or says something.
LEMMA EmptyTrimmed ==
  ASSUME NEW t \in Text
  PROVE  /\ Empty(TrimSpace(t)) <=> t.says = ""
         /\ Empty(t) => Empty(TrimSpace(t))
  BY DEF Text, Empty, TrimSpace

\* The policy that validation parsed and the one the client's TLS configuration
\* is built from are the same whenever both exist.
LEMMA ClientPoliciesAgree ==
  ASSUME NEW id \in Text, NEW td \in Text,
         validateAuthz(id, td).kind # "error",
         ClientAuthorizer(id, td).kind # "error"
  PROVE  ClientAuthorizer(id, td) = validateAuthz(id, td)
<1>1. ~(Empty(id) <=> Empty(td))
  BY DEF ClientAuthorizer, Refusal
<1>2. ~(Empty(TrimSpace(id)) <=> Empty(TrimSpace(td)))
  BY DEF validateAuthz, Refusal
<1>3. CASE Empty(td)
  <2>1. ~Empty(id) /\ ~Empty(TrimSpace(id)) /\ Empty(TrimSpace(td))
    BY <1>1, <1>2, <1>3, EmptyTrimmed
  <2> QED
    BY <1>2, <1>3, <2>1, RawOrTrimmed DEF ClientAuthorizer, validateAuthz, Refusal
<1>4. CASE Empty(id)
  <2>1. ~Empty(td) /\ ~Empty(TrimSpace(td)) /\ Empty(TrimSpace(id))
    BY <1>1, <1>2, <1>4, EmptyTrimmed
  <2> QED
    BY <1>2, <1>4, <2>1, RawOrTrimmed DEF ClientAuthorizer, validateAuthz, Refusal
<1> QED
  BY <1>1, <1>3, <1>4 DEF Empty

\* The server's default policy is unreachable behind validation.
LEMMA ServerPoliciesAgree ==
  ASSUME NEW id \in Text, NEW td \in Text,
         validateAuthz(id, td).kind # "error",
         ServerAuthorizer(id, td).kind # "error"
  PROVE  ServerAuthorizer(id, td) = validateAuthz(id, td)
<1>1. ~(Empty(id) /\ Empty(td))
  BY EmptyTrimmed DEF validateAuthz, Refusal
<1>2. ServerAuthorizer(id, td) = ClientAuthorizer(id, td)
  BY <1>1 DEF ServerAuthorizer, ClientAuthorizer
<1> QED
  BY <1>2, ClientPoliciesAgree

\* What validation accepted, the TLS configuration refuses exactly if it is padded.
LEMMA ClientRefusesPadding ==
  ASSUME NEW id \in Text, NEW td \in Text, validateAuthz(id, td).kind # "error"
  PROVE  ClientAuthorizer(id, td).kind = "error" <=> (id.pad \/ td.pad)
<1>1. CASE ~id.pad /\ ~td.pad
  <2>1. TrimSpace(id) = id /\ TrimSpace(td) = td
    BY <1>1, TrimPlain
  <2>2. ClientAuthorizer(id, td) = validateAuthz(id, td)
    BY <2>1 DEF ClientAuthorizer, validateAuthz
  <2> QED
    BY <1>1, <2>2
<1>2. CASE id.pad
  <2>1. ~Empty(id) /\ ExactID(id) = Refusal
    BY <1>2, PaddedRefused DEF Empty
  <2> QED
    BY <1>2, <2>1 DEF ClientAuthorizer, Refusal
<1>3. CASE ~id.pad /\ td.pad
  <2>1. ~Empty(td) /\ MemberOf(td) = Refusal
    BY <1>3, PaddedRefused DEF Empty
  <2> QED
    BY <1>3, <2>1 DEF ClientAuthorizer, Refusal
<1> QED
  BY <1>1, <1>2, <1>3

LEMMA ServerRefusesPadding ==
  ASSUME NEW id \in Text, NEW td \in Text, validateAuthz(id, td).kind # "error"
  PROVE  ServerAuthorizer(id, td).kind = "error" <=> (id.pad \/ td.pad)
<1>1. ~(Empty(id) /\ Empty(td))
  BY EmptyTrimmed DEF validateAuthz, Refusal
<1>2. ServerAuthorizer(id, td) = ClientAuthorizer(id, td)
  BY <1>1 DEF ServerAuthorizer, ClientAuthorizer
<1> QED
  BY <1>2, ClientRefusesPadding

\* Every policy that is parsed is a policy.
LEMMA PolicyTyped ==
  ASSUME NEW t \in Text
  PROVE  ExactID(t) \in Policies /\ MemberOf(t) \in Policies
<1>1. FromString(t) \in IDs \union {"junk"}
  BY DEF FromString
<1>2. TrustDomainFromString(t) \in TDs \union {"junk"}
  BY TdOfAssumption DEF Text, TrustDomainFromString
<1> QED
  BY <1>1, <1>2 DEF ExactID, MemberOf, Refusal, Policies

\* A validated policy is of the one kind of the one field that says something.
LEMMA ValidatedKind ==
  ASSUME NEW id \in Text, NEW td \in Text
  PROVE  /\ validateAuthz(id, td) \in Policies
         /\ validateAuthz(id, td).kind \in {"error", "id", "td"}
         /\ validateAuthz(id, td).kind = "id" => id.says # "" /\ td.says = ""
         /\ validateAuthz(id, td).kind = "td" => id.says = "" /\ td.says # ""
<1>1. TrimSpace(id) \in Text /\ TrimSpace(td) \in Text
  BY DEF Text, TrimSpace
<1>2. validateAuthz(id, td) \in Policies
  BY <1>1, PolicyTyped DEF validateAuthz, Refusal, Policies
<1>3. CASE Empty(TrimSpace(id)) <=> Empty(TrimSpace(td))
  <2>1. validateAuthz(id, td).kind = "error"
    BY <1>3 DEF validateAuthz, Refusal
  <2> QED
    BY <1>2, <2>1
<1>4. CASE ~Empty(TrimSpace(id)) /\ Empty(TrimSpace(td))
  <2>1. validateAuthz(id, td) = ExactID(TrimSpace(id))
    BY <1>4 DEF validateAuthz
  <2>2. ExactID(TrimSpace(id)).kind \in {"error", "id"}
    BY DEF ExactID, Refusal
  <2>3. id.says # "" /\ td.says = ""
    BY <1>4, EmptyTrimmed
  <2> QED
    BY <1>2, <2>1, <2>2, <2>3
<1>5. CASE Empty(TrimSpace(id)) /\ ~Empty(TrimSpace(td))
  <2>1. validateAuthz(id, td) = MemberOf(TrimSpace(td))
    BY <1>5 DEF validateAuthz
  <2>2. MemberOf(TrimSpace(td)).kind \in {"error", "td"}
    BY DEF MemberOf, Refusal
  <2>3. id.says = "" /\ td.says # ""
    BY <1>5, EmptyTrimmed
  <2> QED
    BY <1>2, <2>1, <2>2, <2>3
<1> QED
  BY <1>3, <1>4, <1>5

-----------------------------------------------------------------------------

IsServer == entry \in {"start", "libserver"}

\* What the TLS configuration is built from.
Built == IF IsServer THEN ServerAuthorizer(file.allowedID, file.allowedTD)
                     ELSE ClientAuthorizer(file.expectedID, file.expectedTD)

\* The server's default was asked for, which needs the server's own SVID.
Default == IsServer /\ Empty(file.allowedID) /\ Empty(file.allowedTD)

\* Where each policy comes from.
OriginInv ==
  /\ entry \in {"start", "client"} /\ stage \in {"connect", "tls", "up", "badpolicy"} =>
       /\ policy = IF entry = "start" THEN validateAuthz(file.allowedID, file.allowedTD)
                                     ELSE validateAuthz(file.expectedID, file.expectedTD)
       /\ policy.kind # "error"
  /\ policy.kind \in {"id", "td"} =>
       policy = IF stage = "server" \/ entry = "start"
                THEN validateAuthz(file.allowedID, file.allowedTD)
                ELSE validateAuthz(file.expectedID, file.expectedTD)
  /\ authorizer \in {NoPolicy, Built, Refusal}
  /\ authorizer # NoPolicy => stage \in {"up", "badpolicy"}
  /\ stage = "up" => authorizer = Built /\ Built.kind # "error"
  /\ stage = "badpolicy" => Built.kind = "error" \/ Default
  /\ stage = "validate" => entry \in {"start", "client"}
  /\ stage \in {"tryclient", "server", "client", "invalid"} => entry = "validate"
  /\ entry = "validate" => stage \in {"load", "tryclient", "server", "client", "invalid"}

IInv == TypeOK /\ OriginInv

LEMMA FileTyped ==
  ASSUME NEW f \in Files
  PROVE  f.allowedID \in Text /\ f.allowedTD \in Text /\ f.expectedID \in Text
         /\ f.expectedTD \in Text
  BY FilesAssumption

LEMMA BuiltTyped == ASSUME own \in IDs, file \in Files PROVE Built \in Policies
<1>1. TdOf[own] \in TDs
  BY TdOfAssumption
<1> QED
  BY <1>1, FileTyped, PolicyTyped
     DEF Built, ServerAuthorizer, ClientAuthorizer, Refusal, Policies

LEMMA InitInv == Init => IInv
  BY DEF Init, IInv, TypeOK, OriginInv, Policies, NoPolicy, Built, Default

\* Every step of the configuration keeps types and origins.
LEMMA StepInv == IInv /\ [Next]_vars => IInv'
<1> SUFFICES ASSUME IInv, [Next]_vars PROVE IInv'
  OBVIOUS
<1>0. file \in Files /\ own \in IDs
  BY DEF IInv, TypeOK
<1>1. CASE LoadConfig
  BY <1>1 DEF LoadConfig, IInv, TypeOK, OriginInv, Built, IsServer, ServerAuthorizer, Default
<1>2. CASE ValidateConfig
  <2>1. policy' \in Policies
    BY <1>0, <1>2, FileTyped, ValidatedKind
       DEF ValidateConfig, ServerPolicy, ClientPolicy, Refusal, Policies
  <2>2. policy'.kind # "error" =>
          /\ policy' = IF entry = "start"
                       THEN validateAuthz(file.allowedID, file.allowedTD)
                       ELSE validateAuthz(file.expectedID, file.expectedTD)
          /\ file.timeout \in {"", "positive"}
    BY <1>2 DEF ValidateConfig, ServerPolicy, ClientPolicy, SPIREValid, Refusal
  <2> QED
    BY <1>2, <2>1, <2>2
       DEF ValidateConfig, IInv, TypeOK, OriginInv, Built, IsServer, ServerAuthorizer, Default
<1>3. CASE Connect
  BY <1>3 DEF Connect, IInv, TypeOK, OriginInv, Built, IsServer, ServerAuthorizer, Default
<1>4. CASE BuildTLS
  <2>1. /\ UNCHANGED <<entry, mode, file, own, policy, timeout>>
        /\ authorizer' = Built \/ (Default /\ authorizer' = Refusal)
        /\ stage = "tls" /\ stage' = IF authorizer'.kind = "error" THEN "badpolicy" ELSE "up"
    BY <1>4 DEF BuildTLS, Built, IsServer, Default
  <2>2. Built' = Built /\ Default' = Default
    BY <2>1 DEF Built, IsServer, ServerAuthorizer, Default
  <2>3. Built \in Policies /\ Refusal \in Policies /\ Refusal.kind = "error"
    BY <1>0, BuiltTyped DEF Refusal, Policies
  <2>4. stage' \in {"up", "badpolicy"} /\ authorizer' \in Policies
    BY <2>1, <2>3
  <2>5. stage' = "up" => authorizer' = Built /\ Built.kind # "error"
    BY <2>1, <2>3
  <2>6. stage' = "badpolicy" => Built.kind = "error" \/ Default
    BY <2>1
  <2> QED
    BY <2>1, <2>2, <2>3, <2>4, <2>5, <2>6 DEF IInv, TypeOK, OriginInv
<1>5. CASE TryServer
  <2>1. policy' \in Policies
    BY <1>0, <1>5, FileTyped, ValidatedKind
       DEF TryServer, ServerPolicy, Refusal, Policies
  <2>2. policy'.kind # "error" => policy' = validateAuthz(file.allowedID, file.allowedTD)
    BY <1>5 DEF TryServer, ServerPolicy, Refusal
  <2> QED
    BY <1>5, <2>1, <2>2
       DEF TryServer, IInv, TypeOK, OriginInv, Built, IsServer, ServerAuthorizer, Default
<1>6. CASE TryClient
  <2>1. policy' \in Policies
    BY <1>0, <1>6, FileTyped, ValidatedKind
       DEF TryClient, ClientPolicy, Refusal, Policies
  <2>2. policy'.kind # "error" => policy' = validateAuthz(file.expectedID, file.expectedTD)
    BY <1>6 DEF TryClient, ClientPolicy, Refusal
  <2> QED
    BY <1>6, <2>1, <2>2
       DEF TryClient, IInv, TypeOK, OriginInv, Built, IsServer, ServerAuthorizer, Default
<1>7. CASE UNCHANGED vars
  BY <1>7 DEF vars, IInv, TypeOK, OriginInv, Built, IsServer, ServerAuthorizer, Default
<1> QED
  BY <1>1, <1>2, <1>3, <1>4, <1>5, <1>6, <1>7 DEF Next

\* Types and origins hold in every reachable state.
THEOREM InvCorrect == Spec => []IInv
  BY InitInv, StepInv, PTL DEF Spec

LEMMA KeepsPolicy == IInv => PolicyPreserved
<1> SUFFICES ASSUME IInv, stage = "up", entry \in {"start", "client"}
             PROVE  authorizer = policy
  BY DEF PolicyPreserved
<1>1. file \in Files
  BY DEF IInv, TypeOK
<1>2. authorizer = Built /\ Built.kind # "error" /\ policy.kind # "error"
  BY DEF IInv, OriginInv
<1>3. CASE entry = "start"
  BY <1>1, <1>2, <1>3, FileTyped, ServerPoliciesAgree DEF IInv, OriginInv, Built, IsServer
<1>4. CASE entry = "client"
  BY <1>1, <1>2, <1>4, FileTyped, ClientPoliciesAgree DEF IInv, OriginInv, Built, IsServer
<1> QED
  BY <1>3, <1>4

\* Re-parsing the raw texts never changes whom a running server or client admits.
THEOREM PolicyKept == Spec => []PolicyPreserved
  BY InvCorrect, KeepsPolicy, PTL

LEMMA RefusesPadding == IInv => PaddingRefused
<1> SUFFICES ASSUME IInv, entry \in {"start", "client"}, stage \in {"up", "badpolicy"}
             PROVE  PaddingRefused
  BY DEF PaddingRefused
<1>1. file \in Files
  BY DEF IInv, TypeOK
<1>2. policy.kind # "error" /\ (stage = "badpolicy" <=> Built.kind = "error")
  <2>1. policy.kind # "error"
    BY DEF IInv, OriginInv
  <2>2. ~Default
    <3>1. CASE entry = "start"
      <4>1. validateAuthz(file.allowedID, file.allowedTD).kind # "error"
        BY <2>1, <3>1 DEF IInv, OriginInv
      <4> QED
        BY <1>1, <4>1, FileTyped, EmptyTrimmed DEF Default, validateAuthz, Refusal
    <3>2. CASE entry = "client"
      BY <3>2 DEF Default, IsServer
    <3> QED
      BY <3>1, <3>2
  <2> QED
    BY <2>1, <2>2 DEF IInv, OriginInv
<1>3. CASE entry = "start"
  <2>1. validateAuthz(file.allowedID, file.allowedTD).kind # "error"
    BY <1>2, <1>3 DEF IInv, OriginInv
  <2> QED
    BY <1>1, <1>2, <1>3, <2>1, FileTyped, ServerRefusesPadding DEF PaddingRefused, Built, IsServer
<1>4. CASE entry = "client"
  <2>1. validateAuthz(file.expectedID, file.expectedTD).kind # "error"
    BY <1>2, <1>4 DEF IInv, OriginInv
  <2> QED
    BY <1>1, <1>2, <1>4, <2>1, FileTyped, ClientRefusesPadding DEF PaddingRefused, Built, IsServer
<1> QED
  BY <1>3, <1>4

\* Of the validated files, the TLS configuration refuses just the padded ones.
THEOREM OnlyPaddingRefused == Spec => []PaddingRefused
  BY InvCorrect, RefusesPadding, PTL

\* A validated file names its policy in exactly one field.
THEOREM OnePolicy == Spec => []ExactlyOnePolicy
<1>1. IInv => ExactlyOnePolicy
  <2> SUFFICES ASSUME IInv, policy.kind \in {"id", "td"} PROVE ExactlyOnePolicy
    BY DEF ExactlyOnePolicy
  <2>1. file \in Files
    BY DEF IInv, TypeOK
  <2>2. CASE stage = "server" \/ entry = "start"
    <3>1. policy = validateAuthz(file.allowedID, file.allowedTD)
      BY <2>2 DEF IInv, OriginInv
    <3>2. file.allowedID \in Text /\ file.allowedTD \in Text
      BY <2>1, FileTyped
    <3>3. CASE policy.kind = "id"
      <4>1. file.allowedID.says # "" /\ file.allowedTD.says = ""
        BY <3>1, <3>2, <3>3, ValidatedKind
      <4> QED
        BY <2>2, <3>3, <4>1 DEF ExactlyOnePolicy
    <3>4. CASE policy.kind = "td"
      <4>1. file.allowedID.says = "" /\ file.allowedTD.says # ""
        BY <3>1, <3>2, <3>4, ValidatedKind
      <4> QED
        BY <2>2, <3>4, <4>1 DEF ExactlyOnePolicy
    <3> QED
      BY <3>3, <3>4
  <2>3. CASE ~(stage = "server" \/ entry = "start")
    <3>1. policy = validateAuthz(file.expectedID, file.expectedTD)
      BY <2>3 DEF IInv, OriginInv
    <3>2. file.expectedID \in Text /\ file.expectedTD \in Text
      BY <2>1, FileTyped
    <3>3. CASE policy.kind = "id"
      <4>1. file.expectedID.says # "" /\ file.expectedTD.says = ""
        BY <3>1, <3>2, <3>3, ValidatedKind
      <4> QED
        BY <2>3, <3>3, <4>1 DEF ExactlyOnePolicy
    <3>4. CASE policy.kind = "td"
      <4>1. file.expectedID.says = "" /\ file.expectedTD.says # ""
        BY <3>1, <3>2, <3>4, ValidatedKind
      <4> QED
        BY <2>3, <3>4, <4>1 DEF ExactlyOnePolicy
    <3> QED
      BY <3>3, <3>4
  <2> QED
    BY <2>2, <2>3
<1> QED
  BY <1>1, InvCorrect, PTL

\* A parsed ID admits the peer it names; a parsed trust domain, its members.
LEMMA ParsedAdmits ==
  ASSUME NEW t \in Text, NEW peer \in IDs
  PROVE  /\ Admits(ExactID(t), peer) => t.says = peer
         /\ Admits(MemberOf(t), peer) => TrustDomainFromString(t) = TdOf[peer]
<1>1. TdOf[peer] \in TDs /\ peer # "junk"
  BY TdOfAssumption, NamesAssumption
<1> QED
  BY <1>1 DEF ExactID, MemberOf, FromString, Admits, Refusal

LEMMA AdmitsNamed == IInv => OnlyNamedPeers
<1> SUFFICES ASSUME IInv, NEW peer \in IDs, Admits(authorizer, peer)
             PROVE  LET id == IF IsServer THEN file.allowedID ELSE file.expectedID
                        td == IF IsServer THEN file.allowedTD ELSE file.expectedTD
                    IN \/ id.says = peer /\ Empty(td)
                       \/ TrustDomainFromString(td) = TdOf[peer] /\ Empty(id)
                       \/ entry = "libserver" /\ Empty(id) /\ Empty(td)
                            /\ TdOf[peer] = TdOf[own]
  BY DEF OnlyNamedPeers, IsServer
<1>1. authorizer = Built
  BY DEF IInv, OriginInv, Admits, NoPolicy, Refusal
<1>5. stage \in {"up", "badpolicy"}
  BY DEF IInv, OriginInv, Admits, NoPolicy
<1>2. file \in Files
  BY DEF IInv, TypeOK
<1>3. CASE IsServer
  <2>1. ~(Empty(file.allowedID) /\ Empty(file.allowedTD)) \/ entry = "libserver"
    <3>1. CASE entry = "start"
      <4>1. validateAuthz(file.allowedID, file.allowedTD).kind # "error"
        BY <1>5, <3>1 DEF IInv, OriginInv
      <4> QED
        BY <1>2, <4>1, FileTyped, EmptyTrimmed DEF validateAuthz, Refusal
    <3> QED
      BY <1>3, <3>1 DEF IsServer
  <2> QED
    BY <1>1, <1>2, <1>3, <2>1, FileTyped, ParsedAdmits
       DEF Built, ServerAuthorizer, Refusal, Admits, Empty
<1>4. CASE ~IsServer
  <2>1. ~Empty(file.expectedID) => Empty(file.expectedTD)
    BY <1>1, <1>4 DEF Built, ClientAuthorizer, Refusal, Admits
  <2>2. Empty(file.expectedID) => ~Empty(file.expectedTD)
    BY <1>1, <1>4 DEF Built, ClientAuthorizer, Refusal, Admits
  <2>3. CASE Empty(file.expectedID)
    <3>1. authorizer = MemberOf(file.expectedTD)
      BY <1>1, <1>4, <2>2, <2>3 DEF Built, ClientAuthorizer
    <3> QED
      BY <1>2, <1>4, <2>3, <3>1, FileTyped, ParsedAdmits
  <2>4. CASE ~Empty(file.expectedID)
    <3>1. authorizer = ExactID(file.expectedID)
      BY <1>1, <1>4, <2>1, <2>4 DEF Built, ClientAuthorizer
    <3> QED
      BY <1>2, <1>4, <2>1, <2>4, <3>1, FileTyped, ParsedAdmits
  <2> QED
    BY <2>3, <2>4
<1> QED
  BY <1>3, <1>4

\* Nobody is admitted whom neither the user nor the server's default named.
THEOREM NobodyElse == Spec => []OnlyNamedPeers
  BY InvCorrect, AdmitsNamed, PTL
=============================================================================
