--------------------------- MODULE MCCommandLine ----------------------------
(***************************************************************************)
(* CommandLine for TLC: two trust domains, two namespaces and two accounts *)
(* make eight IDs.  The files vary one group of fields at a time around a  *)
(* good file; the command lines are those of the documentation, with one   *)
(* thing wrong at a time.                                                  *)
(***************************************************************************)
EXTENDS CommandLine, TLC

MCTDs == {"A", "B"}
MCNamespaces == {"default", "production"}
MCAccounts == {"default", "app"}
MCIdOf == [x \in MCTDs \X MCNamespaces \X MCAccounts |-> x[1] \o "/" \o x[2] \o "/" \o x[3]]
MCIDs  == {MCIdOf[x] : x \in DOMAIN MCIdOf}
MCTdOf == [i \in MCIDs |-> CHOOSE td \in MCTDs : \E ns \in MCNamespaces, sa \in MCAccounts :
                              MCIdOf[<<td, ns, sa>>] = i]
MCPathID == (<<"A", "ns", "default", "sa", "app">> :> "A/default/app")
MCSelf == "B/default/default"

-----------------------------------------------------------------------------
(* Files *)

Plain(s) == [pad |-> FALSE, says |-> s]
MCText == [pad : BOOLEAN, says : {"A/default/app", "A", "B", "", "junk"}]

Good == [decodes |-> {"server", "client"}, version |-> 1, socket |-> Plain("unix"),
         timeout |-> "", listen |-> "addr",
         allowedID |-> Plain(""), allowedTD |-> Plain("A"),
         expectedID |-> Plain("A/default/app"), expectedTD |-> Plain("")]

MCTemplate == [Good EXCEPT !.version = 0, !.allowedTD = Plain(""), !.expectedID = Plain("")]

MCFiles ==
  {[Good EXCEPT !.allowedID = i, !.allowedTD = t] : i, t \in MCText}
    \union {[Good EXCEPT !.expectedID = i, !.expectedTD = t, !.listen = ""] :
              i, t \in MCText}
    \union {[Good EXCEPT !.socket = [pad |-> p, says |-> s], !.timeout = d] :
              p \in BOOLEAN, s \in {"", "unix", "tcp", "bare"},
              d \in {"", "junk", "zero", "negative", "positive"}}
    \union {[Good EXCEPT !.decodes = d, !.version = v] :
              d \in SUBSET {"server", "client"}, v \in {0, 1, 2}}
    \union {[MCTemplate EXCEPT !.allowedID = Plain(i)] :
              i \in MCIDs \union MCTDs \union {"", "junk"}}

-----------------------------------------------------------------------------
(* Command lines and clusters *)

Line(cmd, toks) == [cmd |-> cmd, toks |-> toks]
W(a, b) == <<Word(a), Word(b)>>
TD(v) == <<Flag("trust-domain", v)>>
NS == <<Flag("namespace", "production")>>

Lookups ==
  {Line("discover", t \o n \o W(kind, "api-client")) :
     t \in {<<>>, TD("B")}, n \in {<<>>, NS}, kind \in {"pod", "label", "deployment"}}
    \union {Line("discover", t) : t \in {W("label", "app=api-client") \o NS, W("node", "n1"),
              <<Word("trust-domain")>>, <<Word("pod")>>, <<>>, TD("junk") \o W("pod", "p"),
              <<Flag("help", "")>>, <<Flag("ns", "default")>>}}

Constructions ==
  {Line("spiffe-id", t) : t \in
     {t \o W("k8s", "default") \o <<Word("app")>> : t \in {<<>>, TD("B"), TD("junk")}}
       \union {W("k8s", "default") \o <<Word("app")>> \o TD("A"),
               W("from-deployment", "client.yaml"), W("from-deployment", "missing.yaml"),
               TD("A") \o W("from-deployment", "client.yaml"),
               W("custom", "A") \o W("ns", "default") \o W("sa", "app"),
               W("custom", "A") \o <<Word("service")>>, W("custom", "A"),
               <<Word("aws")>>, <<>>, <<Flag("help", "")>>, <<Flag("namespace", "x")>>}}

Config == Flag("config", "e5s.yaml")
Url == Flag("url", "https://server")
PlainUrl == Flag("url", "http://server")
MCPlainURLs == {"http://server"}

FileUses ==
  {Line("validate", <<Flag("mode", m), Word("e5s.yaml")>>) : m \in {"server", "client", "both"}}
    \union {Line("validate", t) : t \in {<<Word("e5s.yaml")>>, <<>>, <<Flag("help", "")>>,
                                          <<Word("e5s.yaml"), Flag("mode", "server")>>}}
    \union {Line("client", <<Word("request")>> \o t) : t \in
              {<<Config, Url>>, <<Config, PlainUrl>>, <<Config>>, <<Url>>, <<Flag("timeout", "5s"), Config, Url>>}}
    \union {Line("client", t) : t \in {<<Config, Word("request")>>, <<>>, <<Word("get")>>}}

Others ==
  {Line("version", t) : t \in
     {f \o m : f \in {<<>>, <<Flag("format", "plain")>>, <<Flag("format", "xml")>>},
               m \in {<<>>, <<Flag("mode", "dev")>>, <<Flag("mode", "qa")>>}}
       \union {<<Flag("verbose", "true")>>}}
    \union {Line(c, <<>>) : c \in {"", "help", "--help", "discovery"}}

MCCommands == Lookups \union Constructions \union FileUses \union Others

MCTexts == {""} \union UNION {{c.toks[i].val : i \in DOMAIN c.toks} : c \in MCCommands}

MCManifests == ("client.yaml" :> [ns |-> "production", sa |-> ""])

\* Nothing there; an account of its own; no account given; two matches.
MCClusters == {[ns \in MCNamespaces |-> IF ns = "default" THEN d ELSE {"app"}] :
                 d \in {{}, {"app"}, {""}, {"app", ""}}}
=============================================================================
