---------------------------- MODULE ConfigPolicy ----------------------------
(***************************************************************************)
(* From the text of a configuration file to the policy that decides whom a *)
(* TLS handshake admits: internal/config (load, validate), e5s.go (which   *)
(* keeps the raw strings and drops the parsed policy), spire/source.go     *)
(* (the address), spiffehttp (the authorizer), and the "validate" command. *)
(*                                                                         *)
(* A text of the file is what it says once trimmed, and whether it is      *)
(* padded with white space. The parsers are those of the go-spiffe SDK,    *)
(* which trim nothing.                                                     *)
(***************************************************************************)

CONSTANTS IDs,    \* SPIFFE IDs
          TDs,    \* trust domains
          TdOf,   \* the trust domain of each ID
          Files   \* the configuration files considered

ASSUME TdOfAssumption == TdOf \in [IDs -> TDs]

\* What a field says: nothing, an ID, a trust domain, or something else.
ASSUME NamesAssumption == /\ IDs \intersect TDs = {}
                          /\ {"", "junk"} \intersect (IDs \union TDs) = {}

Text == [pad : BOOLEAN, says : IDs \union TDs \union {"", "junk"}]

ASSUME FilesAssumption ==
  Files \subseteq [decodes : SUBSET {"server", "client"},  \* read and parsed as
                   version : {0, 1, 2},
                   socket  : [pad : BOOLEAN, says : {"", "unix", "tcp", "bare"}],
                   timeout : {"", "junk", "zero", "negative", "positive"},
                   listen  : {"", "addr"},       \* trimmed
                   allowedID : Text, allowedTD : Text,
                   expectedID : Text, expectedTD : Text]

VARIABLES entry,       \* who uses the file, and as what
          mode,        \* as what "validate" takes the file
          file,        \* the file
          own,         \* the ID of this workload's SVID
          stage,       \* how far it got
          policy,      \* the policy the validation parsed
          timeout,     \* spireConfig.InitialFetchTimeout
          authorizer   \* the policy the TLS configuration enforces

vars == <<entry, mode, file, own, stage, policy, timeout, authorizer>>

-----------------------------------------------------------------------------
(* Texts, parsers and policies *)

TrimSpace(t) == [t EXCEPT !.pad = FALSE]
Empty(t) == t.says = "" /\ ~t.pad

\* spiffeid.FromString and TrustDomainFromString, which also takes an ID.
FromString(t) == IF ~t.pad /\ t.says \in IDs THEN t.says ELSE "junk"
TrustDomainFromString(t) ==
  CASE t.pad         -> "junk"
    [] ~t.pad /\ t.says \in TDs -> t.says
    [] ~t.pad /\ t.says \in IDs -> TdOf[t.says]
    [] OTHER         -> "junk"

NoPolicy   == [kind |-> "none", is |-> "junk"]
Refusal    == [kind |-> "error", is |-> "junk"]
ExactID(t) == IF FromString(t) = "junk" THEN Refusal
              ELSE [kind |-> "id", is |-> FromString(t)]
MemberOf(t) == IF TrustDomainFromString(t) = "junk" THEN Refusal
               ELSE [kind |-> "td", is |-> TrustDomainFromString(t)]

\* tlsconfig.AuthorizeID and AuthorizeMemberOf
Admits(p, peer) == \/ p.kind = "id" /\ peer = p.is
                   \/ p.kind = "td" /\ TdOf[peer] = p.is

\* Mutant: no policy at all is left to the TLS configuration.
validateAuthzOptional(idText, tdText) ==
  LET id == TrimSpace(idText)
      td == TrimSpace(tdText)
  IN IF Empty(id) /\ Empty(td) THEN NoPolicy
     ELSE IF ~Empty(id) /\ ~Empty(td) THEN Refusal
     ELSE IF ~Empty(id) THEN ExactID(id) ELSE MemberOf(td)

validateAuthz(idText, tdText) ==
  LET id == TrimSpace(idText)
      td == TrimSpace(tdText)
  IN IF Empty(id) <=> Empty(td) THEN Refusal   \* neither or both
     ELSE IF ~Empty(id) THEN ExactID(id) ELSE MemberOf(td)

\* NewServerTLSConfig: its checks first, then the authorizer, by default the
\* members of the server's own trust domain.
ServerAuthorizer(idText, tdText) ==
  IF Empty(idText) /\ Empty(tdText) THEN [kind |-> "td", is |-> TdOf[own]]
  ELSE IF ~Empty(idText) /\ ~Empty(tdText) THEN Refusal
  ELSE IF ~Empty(idText) THEN ExactID(idText) ELSE MemberOf(tdText)

\* Mutant: an ID is widened to its trust domain.
ClientAuthorizerWide(idText, tdText) ==
  IF Empty(idText) <=> Empty(tdText) THEN Refusal
  ELSE IF ~Empty(idText) THEN MemberOf(idText) ELSE MemberOf(tdText)

\* Mutant: no policy means the own trust domain, as on the server.
ClientAuthorizerDefault(idText, tdText) ==
  IF Empty(idText) /\ Empty(tdText) THEN [kind |-> "td", is |-> TdOf[own]]
  ELSE IF ~Empty(idText) THEN ExactID(idText) ELSE MemberOf(tdText)

\* NewClientTLSConfig has no default.
ClientAuthorizer(idText, tdText) ==
  IF Empty(idText) <=> Empty(tdText) THEN Refusal
  ELSE IF ~Empty(idText) THEN ExactID(idText) ELSE MemberOf(tdText)

\* normalizeToAddr: a scheme is recognised at the very start of the text only.
normalizeToAddr(socket) ==
  IF ~socket.pad /\ socket.says \in {"unix", "tcp"} THEN socket
  ELSE [socket EXCEPT !.says = "unix"]

\* White space becomes part of the path, or hides the scheme: no agent is there.
Dialable(addr) == ~addr.pad

\* LoadServerConfig, LoadClientConfig; version 0 is a file that names none.
Loads(f, as) == as \in f.decodes /\ f.version \in {0, 1}

\* Mutant: a timeout of zero passes the check.
SPIREValidZero(f) == /\ f.socket.says # ""
                     /\ f.timeout \in {"", "zero", "positive"}

SPIREValid(f) == /\ f.socket.says # ""
                 /\ f.timeout \in {"", "positive"}

ServerPolicy(f) == IF SPIREValid(f) /\ f.listen # ""
                   THEN validateAuthz(f.allowedID, f.allowedTD) ELSE Refusal
ClientPolicy(f) == IF SPIREValid(f)
                   THEN validateAuthz(f.expectedID, f.expectedTD) ELSE Refusal

-----------------------------------------------------------------------------

\* Start and Client load a file; a library user gives spiffehttp the texts; the
\* command line only validates.
Init == /\ entry \in {"start", "client", "libserver", "libclient", "validate"}
        /\ mode \in IF entry = "validate" THEN {"auto", "server", "client"} ELSE {"auto"}
        /\ file \in Files
        /\ own \in IDs
        /\ stage = IF entry \in {"libserver", "libclient"} THEN "tls" ELSE "load"
        /\ policy = NoPolicy
        /\ timeout = "unset"
        /\ authorizer = NoPolicy

\* loadServerConfig, loadClientConfig: load, then validate.
LoadConfig == /\ entry \in {"start", "client"} /\ stage = "load"
              /\ stage' = IF Loads(file, IF entry = "start" THEN "server" ELSE entry)
                          THEN "validate" ELSE "refused"
              /\ UNCHANGED <<entry, mode, file, own, policy, timeout, authorizer>>

ValidateConfig ==
  /\ stage = "validate"
  /\ policy' = IF entry = "start" THEN ServerPolicy(file) ELSE ClientPolicy(file)
  /\ IF policy'.kind = "error"
     THEN stage' = "refused" /\ UNCHANGED timeout
     ELSE /\ stage' = "connect"
          /\ timeout' = IF file.timeout = "" THEN "default" ELSE file.timeout
  /\ UNCHANGED <<entry, mode, file, own, authorizer>>

\* newSPIRESource with the raw socket; the agent may refuse anyway.
Connect ==
  /\ stage = "connect"
  /\ stage' \in IF Dialable(normalizeToAddr(file.socket)) THEN {"tls", "noagent"}
                                                          ELSE {"noagent"}
  /\ UNCHANGED <<entry, mode, file, own, policy, timeout, authorizer>>

\* NewServerTLSConfig or NewClientTLSConfig with the raw texts. The server's default
\* asks the source for its own SVID, which may fail.
BuildTLS ==
  /\ stage = "tls"
  /\ \/ authorizer' = IF entry \in {"start", "libserver"}
                      THEN ServerAuthorizer(file.allowedID, file.allowedTD)
                      ELSE ClientAuthorizer(file.expectedID, file.expectedTD)
     \/ /\ entry \in {"start", "libserver"}
        /\ Empty(file.allowedID) /\ Empty(file.allowedTD)
        /\ authorizer' = Refusal
  /\ stage' = IF authorizer'.kind = "error" THEN "badpolicy" ELSE "up"
  /\ UNCHANGED <<entry, mode, file, own, policy, timeout>>

\* validateServerFile, or the first half of validateAuto.
TryServer ==
  /\ entry = "validate" /\ stage = "load" /\ mode \in {"auto", "server"}
  /\ policy' = IF Loads(file, "server") THEN ServerPolicy(file) ELSE Refusal
  /\ stage' = IF policy'.kind # "error" THEN "server"
              ELSE IF mode = "auto" THEN "tryclient" ELSE "invalid"
  /\ UNCHANGED <<entry, mode, file, own, timeout, authorizer>>

\* validateClientFile, or the second half of validateAuto.
TryClient ==
  /\ entry = "validate"
  /\ stage = "tryclient" \/ (stage = "load" /\ mode = "client")
  /\ policy' = IF Loads(file, "client") THEN ClientPolicy(file) ELSE Refusal
  /\ stage' = IF policy'.kind # "error" THEN "client" ELSE "invalid"
  /\ UNCHANGED <<entry, mode, file, own, timeout, authorizer>>

Next == LoadConfig \/ ValidateConfig \/ Connect \/ BuildTLS \/ TryServer \/ TryClient

Spec == Init /\ [][Next]_vars

-----------------------------------------------------------------------------
(* Properties *)

Policies == [kind : {"none", "error", "id", "td"}, is : IDs \union TDs \union {"junk"}]

TypeOK == /\ entry \in {"start", "client", "libserver", "libclient", "validate"}
          /\ mode \in {"auto", "server", "client"}
          /\ file \in Files
          /\ own \in IDs
          /\ stage \in {"load", "validate", "connect", "tls", "up", "refused",
                        "noagent", "badpolicy",
                        "tryclient", "server", "client", "invalid"}
          /\ policy \in Policies
          /\ timeout \in {"unset", "default", "positive"}
          /\ authorizer \in Policies

\* e5s.go drops the policy that validation parsed (e5s.go:141, 155) and parses
\* the raw texts again: a server or client that came up admits exactly the
\* peers that the validated policy names.
PolicyPreserved ==
  stage = "up" /\ entry \in {"start", "client"} =>
    \A peer \in IDs : Admits(authorizer, peer) <=> Admits(policy, peer)

\* Whoever is admitted was named: by the ID or trust domain the user gave, or,
\* on a server that was given neither, by the server's own trust domain.
OnlyNamedPeers ==
  \A peer \in IDs :
    LET id == IF entry \in {"start", "libserver"} THEN file.allowedID ELSE file.expectedID
        td == IF entry \in {"start", "libserver"} THEN file.allowedTD ELSE file.expectedTD
    IN Admits(authorizer, peer) =>
         \/ id.says = peer /\ Empty(td)
         \/ TrustDomainFromString(td) = TdOf[peer] /\ Empty(id)
         \/ entry = "libserver" /\ Empty(id) /\ Empty(td) /\ TdOf[peer] = TdOf[own]

\* "Exactly one of ID or TrustDomain will be set" (validate.go:25, 34): a file
\* that passed validation names a policy in one field and nothing in the other.
ExactlyOnePolicy ==
  LET asServer == stage = "server" \/ entry = "start"
      id == IF asServer THEN file.allowedID ELSE file.expectedID
      td == IF asServer THEN file.allowedTD ELSE file.expectedTD
  IN policy.kind \in {"id", "td"} => /\ id.says = "" <=> td.says # ""
                                     /\ policy.kind = "id" <=> id.says # ""

\* loadServerConfig returns "the raw config and validated SPIRE config ready for
\* use" (e5s.go:135): a validated policy is refused later exactly when one of its
\* texts is padded, which validation trims (validate.go:64) and BuildTLS does not.
PaddingRefused ==
  LET id == IF entry = "start" THEN file.allowedID ELSE file.expectedID
      td == IF entry = "start" THEN file.allowedTD ELSE file.expectedTD
  IN entry \in {"start", "client"} /\ stage \in {"up", "badpolicy"} =>
       (stage = "badpolicy" <=> (id.pad \/ td.pad))
=============================================================================
