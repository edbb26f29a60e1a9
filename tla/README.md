# e5s in TLA+

e5s is a Go library and a command line for mutual TLS with SPIFFE identities: a
server is started from a configuration file, admits the peers that the file
names, and rotates its certificate while it runs. This directory keeps the
models of the parts of it that are hard to test: what happens between a timer and
a late result, between two goroutines that stop the same thing, between a
rotation and a handshake, between a failing step and the cleanup of the earlier
ones, between two shells that use one cluster, and between what a command looked
up and what it prints.

Paths below are those of the repository; `spire/source.go:154` is line 154 of
`src/spire/source.go`. `PROJECT.json` maps every definition to its lines and
lists the runs, the hazards, the findings and the theorems.

Run everything from this directory: `tlc -workers 2 -config X.cfg M`, `tlapm M.tla`.

## 1. Inventory: the system and its parts

```
  cmd/e5s (validate, client, deploy, ...)          examples, chart
        |            |           \__ kind, helm, the cluster
        v            v
     e5s.go  Start / Serve / StartSingleThread / Client / PeerID
        |  config text          |  X509Source handle        | tls.Config
        v                       v                           v
  internal/config          spire/source.go             spiffehttp
  (load, validate)         (IdentitySource)            (server, client, peer)
                                |                           |
                         go-spiffe X509Source         crypto/tls, net/http
                                |
                            SPIRE agent          internal/testhelpers starts
                                                 SPIRE for integration tests
```

### Identity source (`spire/source.go`)

State: the SDK source behind `s.source` and its lock `s.mu`; the cancel function
of the watchers' context; `closeOnce` and `closeErr`; while it is created, a
goroutine that builds, a channel of capacity one, and a timer.
Operations: `NewIdentitySource`, `X509Source`, `Close`.
Hard: the timer races the result of the build; several goroutines close; readers
race the close; the agent may never answer.
Correct when: creation always answers; an error answer leaves nothing running
and nothing open; every caller of `Close` gets the one result, after the source
is really closed; no reader is handed a closed source.

### Server lifecycle (`e5s.go`: `Start`, `StartWithContext`, `Serve`, `StartSingleThread`)

State: the identity source, the server goroutine and `errCh` (capacity one), the
100 ms timer that decides that the start succeeded, `shutdownOnce` with its
cached error, the 5 s context of the shutdown, signals, connections.
Operations: loading the configuration, connecting, building TLS, launching,
answering, the shutdown function, and Go's accept loop and `Shutdown` around them.
Hard: a bind error races the timer; shutdown races the server goroutine, which
may not have bound yet; handlers that never return; two errors in one result.
Correct when: connections are accepted only while the source is open; error
returns give the source back; all callers of shutdown agree and return; nil means
that nothing was cut short.

### Configuration and TLS policy (`internal/config`, `spiffehttp`)

State: none that lasts; one text takes two ways (validated trimmed, used raw).
Operations: `LoadServerConfig`, `ValidateServerConfig`, `validateAuthz`,
`normalizeToAddr`, `NewServerTLSConfig`, `NewClientTLSConfig`, `validateAuto`.
Hard: the policy that decides who is admitted is parsed twice, differently; an
empty policy on the server means its own trust domain.
Correct when: the policy enforced is the policy validated, and it admits nobody
who was not named.

### Mutual TLS (`e5s.go`: `ClientWithContext`, the server's wrapper, `PeerInfo`; `spiffehttp`)

State: per process its source, whether the source still rotates, the certificate
it holds; per connection where its handshake or request stands; per request the
peer in its context.
Hard: sources rotate, expire and close between the steps of a handshake; TLS 1.3
lets a client send before it was accepted; a connection outlives the handshake
that authenticated it; shutdown closes the source but not the pool.
Correct when: a handler is told the client whose certificate was verified on its
own connection; nobody is served who is not trusted, both ways; a client that was
shut down makes no new authenticated connection; no connection hangs for ever.

### Command line (`cmd/e5s`, except `deploy`)

State: none of its own; a command reads its arguments, a file or the cluster,
and leaves an exit status and an output that scripts put into a file.
Operations: `Execute`, `discover`, `spiffe-id`, `validate`, `client request`,
`version`.
Hard: flags after a word are not flags; kubectl and helm fail or hang; the trust
domain and the object come from separate commands, and either may be replaced in
between; a URL may be plain http; usage texts go to the same output as answers.
Correct when: an exit status of 0 is the truth of a line whose flags come first; a script that ignores the status
still ends with a server that admits the client it asked for, or with none; a probe
that hangs is given up.

### Deployment commands (`cmd/e5s/deploy.go`)

State: everything outside the process: the cluster, Helm's repository file and
its release records, the test pod and its ConfigMap. `deploy test` keeps the
start of its wait.
Hard: commands fail or are killed in the middle; errors are dropped; two
tests use the one name `e5s-test-client`; waits are sleeps.
Correct when: a passed test is about a pod of that test and not an old one; an
installed trust domain stays; every test command returns.

### SPIRE test environments (`internal/testhelpers`)

State: per test a directory, processes or containers and a network, a port, the
socket files, the cleanups registered with `testing.T`.
Hard: every step may fail, with earlier resources alive; a port is chosen before it is
bound; SPIRE may never come up; commands and calls to Docker have no deadline.
Correct when: what a test leaves behind is known for every step at which its setup may
fail; the directory goes last; a test's agent belongs to its own server; every test
ends, or hangs in a call that has no deadline and nowhere else.

### Interactions

`e5s.go` calls `internal/config` once and `spire` once per start, hands the
source's handle to `spiffehttp`, and closes the source in its shutdown function
or error paths. The SDK calls the source back at every handshake. Server and
client share nothing but connections. The commands use the library only through
`validate` and `client request`; `deploy` talks to kind, helm and the cluster.

## 2. Modules

| module | models | composition |
|---|---|---|
| `SourceContract` | abstract: what an identity source promises | |
| `IdentitySource` | `spire/source.go` | implements `SourceContract` |
| `ServerLifecycle` | `e5s.go`, start to shutdown | its source is an instance of `SourceContract` |
| `ConfigPolicy` | `internal/config`, `spiffehttp`, the use of a file | |
| `CommandLine` | `cmd/e5s` without `deploy`; the README's script | extends `ConfigPolicy`: its steps are those of a command that uses a file |
| `AuthenticatedCalls` | abstract: what mutual TLS promises | |
| `MutualTLS` | clients, servers, connections | implements `AuthenticatedCalls` |
| `Deploy` | `cmd/e5s/deploy.go` | |
| `SpireTestEnv` | `internal/testhelpers` | |

`XProofs` holds the theorems about `X`, `MCX` its instance for TLC. Operators whose
comment begins "Mutant" or "A bug for the checks" are not part of any
specification: each is the form a plausible bug would give the definition below
it, and the run that checks the property is known to fail with it
(`PROJECT.json`, "mutants").

### IdentitySource

`creator`, `builder`, `ch`, `expired` are the calling goroutine, the goroutine of
source.go:134, the channel and the timer; `ctx` and `cancelled` are the parent and
the derived context. `ReceiveSource`, `ReceiveError` and `Timeout` are the three
outcomes of the `select`, and more than one may be enabled: Go chooses at random.
`Close` is ten steps per closer (`cpc`), from `closeOnce.Do` over `mu.Lock`
(announced, then granted: an RWMutex prefers writers) to the return; `X509Source`
is three. `sdk` is the SDK's source, `source` the pointer `s.source`.

### ServerLifecycle

`mode` is the entry point, `main` its goroutine, `server` the goroutine in
`ListenAndServeTLS`, `spc` each caller of the shutdown function; `Serve` is a
caller of its own. `Listen`, `Track`, `ServeStops`, `AcceptFails`, `Poll`, `Tick`
and `GiveUp` are what net/http's server does with its listener, its connections
and the context it is given, as this code uses it. The identity source is
`Source == INSTANCE SourceContract` with one closer and one reader: what
`IdentitySource` is proved to implement is what the server relies on.

### ConfigPolicy

A text of the file is what it says once trimmed (an ID, a trust domain, nothing,
something else) and whether it is padded. The SDK's parsers refuse padding;
`validateAuthz` trims first; `BuildTLS` parses the raw text again. `stage` says how
far a start, a client, a direct user of `spiffehttp`, or `e5s validate` got, `mode` as what `validate` takes the file.

### CommandLine

`args` is the command line: a command and its tokens, each a word or a flag with its
value. `Leading`, `Value`, `Args` and `Misused` are what `flag.FlagSet.Parse` makes of
them. `at` is where the command is: looking something up (`kubectl`, `helm`, `values`,
`configmap`, `object`), using a file (`config`, whose steps are ConfigPolicy's, taken
by `UseFile`), sending a request, asking tools for their versions, or at its exit with
`code` and `printed`. `at = "off"` is a program that uses a file without the command
line. `printed` is an ID, a trust domain, nothing, or `Prose`, which names none.

`asked` is the command line that a script began with: Example 1 of
`cmd/e5s/README.md` (lines 400-441) discovers an ID, writes it into a server's file
(`WriteConfig`), validates the file, and deploys (`DeployServer`), and looks at no exit
status in between. `Reinstall` is somebody who replaces SPIRE meanwhile and `Redeploy`
somebody who replaces the objects; `had` and `hadObjects` keep the trust domains and
the accounts there have been since the command began, for the properties only. What
exists in the cluster is one of `Clusters`: the accounts of the objects that match, by
namespace, `""` where a template gives none.

`Request` is one hop: an `https` URL is answered by somebody that the handshake admits, an
`http` URL (`PlainURLs`) by anyone, and the answer may be a redirect, to either.

What was asked for is read from the tokens (`Asked`, `FlagsFirst`), never from the
parse of the tool: `SuccessIsTrue` and the second half of `ScriptAdmitsTheClient` speak of
the command lines whose flags come before their words, and finding 3 of the others.

The cleanup of the client of `client request` is that of `MutualTLS`
(`ShutdownClient`), and is left out here.

### MutualTLS

A process is named by its SPIFFE ID. `Answer`, `Send` and `Accept` are the steps of
a handshake that read a source, and each reads the source as it is at that moment;
between them anything may rotate, close or expire. `Reuse` sends a request on a
kept connection, with no handshake. `Handle` is the wrapper of e5s.go:205. Two
fields are kept for the properties only: `late` (the client was already shut down
when it sent the request) and `at` (when the server got it). `CancelContext` is the end of a context that a
library user gave to the source; `Start` and `Client` use a background context
(`OwnContext` is who does not). A server in `OwnContext` is that of
`examples/middleware`: the signal that makes it drain has already ended the context
of its source, so it drains with a certificate that rotates no more. The safety run has
a client in `OwnContext`, the liveness run the server; the theorems any process.

### Deploy

One shell (`shell`) creates and deletes the cluster and runs Helm; testers (`pc`)
run `deploy test`. `rel` is Helm's record of each release: `pending` while Helm waits and
after it was killed. `DeletePod` drops its error as the code does. The pod has
a number, which the code does not see: it tells the properties whose pod a name
means. `World` says what may happen besides.

### SpireTestEnv

`pc` is the next step of a test; `t.Fatal` in a step jumps to the cleanups that
were registered so far, last one first. `bound` are ports held by live listeners:
`StartServer` chooses a port nobody holds and holds nothing itself (`getFreePort`
closes its listener). `AgentAttests` is the agent's exchange with whichever server
has that port, which takes only its own tokens. `stuck` are resources whose removal
failed, with a warning. A container setup registers the cleanup of its directory with
the agent (`t.TempDir`), that of its containers last (`RegisterCleanup`). `Hangs` is
where a test is in a call without a deadline.

## 3. Runs

| run | instance | distinct states | shows |
|---|---|---|---|
| `source_safety` | 2 closers, 2 readers | 7,894 | agreement of closers, no closed handle, aborted builds, creation and close return, the builder ends, the contract is implemented |
| `source_orphan` | 1, 1 | violation | finding 1 |
| `server_safety` | 2 connections, 2 users | 13,468 | the source outlives the accept loop, failed starts are clean, shutdown agrees, nil is graceful; start, server goroutine, shutdown and Serve come to their end |
| `server_bind_late` | 1, 1 | violation | finding 2 |
| `command_line` | 2 trust domains, 2 namespaces, 2 accounts, so 8 IDs; 63 command lines, 4 clusters | 84,130 | the enforced policy is the validated one and admits only the named, and only padding is refused late; success is true; the script admits the client asked for; probes end |
| `command_line_flags` | the same | violation | finding 3 |
| `mtls_safety` | 2 clients, 1 server, 2 connections, 2 ticks | 2,833,782 (with symmetry) | who is served, as whom; late requests; no leak; freshness |
| `mtls_live` | 2 clients, one of them refused; 1 connection | 58,779 | connections settle; AuthenticatedCalls is implemented |
| `mtls_shutdown_stops` | 1, 1, 1 | violation | finding 4 |
| `deploy_safety` | 2 testers, 2 pods, everything may happen | 413,094 | verdicts are fresh, the trust domain stays, tests return |
| `deploy_workflow` | 1 tester, nothing fails, nothing is slow | violation | finding 5 |
| `test_env` | 2 tests, both helpers, 2 ports | 42,205 | what is left behind, in which order, own server, tests end or hang in a call without a deadline |

### Bounds, and why they are enough

* `IdentitySource`: `Closers` and `Readers` are the only bounds. Two closers are a
  first and a late one, two readers one inside the lock and one outside. The
  theorems hold for any sets.
* `ServerLifecycle`: two users, so that one runs the shutdown and one waits; two
  connections, so that one drains while another hangs. `Serve`'s own call is a
  third caller. The theorems hold for any sets.
* `ConfigPolicy`: `Files` is a finite set; the instance varies one group of fields
  at a time around a good file, since the groups do not interact except in the
  order of the checks. The policy theorems hold for every set of files.
* `CommandLine`: two of each part of an ID, so that the wrong trust domain, namespace or
  account makes a different ID. The command lines are those of the documentation, with
  one thing wrong at a time: no word, one word, a flag too late, an unknown flag, kind or
  mode. The clusters have no object, one with an account, one without, or both. A
  workload that reads a file here is `Self`, of the other trust domain than the files
  name. The theorems hold for any files, command lines and clusters.
* `MutualTLS`: `Conns` is the number of connections open at a time (a closed one is
  free again), two so that handlers of two clients overlap; `Life` is 1 and
  `MaxTime` 2, so that a kept connection lives past both its certificates. The
  clock is the one cap: `Tick` stops at `MaxTime`, and any other step goes on.
  Conns are symmetric in the safety run, which has no temporal property.
* `Deploy`: `MaxPods` caps the pods ever created; a test begins only if a pod is left for it
  (`Begin`), so the cap never cuts a command short. Two are enough for an
  old pod to be taken for a new one.
* `SpireTestEnv`: two tests on two ports: the same port, or different ones. Nothing
  else is capped; a test runs once.

`CHECK_DEADLOCK FALSE` is set where the modelled system ends: sources closed,
servers returned, files judged, clocks and tests at their end. `Deploy` never ends:
its runs check deadlock.

### Fairness, and why the code justifies it

* Every goroutine that can run, runs (weak fairness of its steps), and timers
  expire: Go's scheduler and runtime. What each process of a kind is owed has a name
  of its own (`CloserRuns`, `ReaderRuns`, `CallerRuns`, `ServerRuns`, `TesterRuns`,
  `TestRuns`).
* `IdentitySource`: the build is obliged to end only once its context is done. The
  agent owes no answer, and nobody has to call `Close` or `X509Source`.
* `ServerLifecycle`: clients, handlers, signals and users owe nothing. Strong
  fairness is assumed of `GiveUp` alone: net/http's `Shutdown` waits in a `select`
  between its poll tick and its context, and a `select` that finds both ready
  chooses at random, so an expired context is not passed over for ever.
* `CommandLine`: the probes of kubectl, helm and the tools expire after 2 s
  (`ExpireKubectl`, `ExpireHelm`, `ToolVersion`), and a process that has asked all its
  tools goes on (`ReportVersions`). The queries after the probes (discover.go:123, 247,
  275) have no deadline and are owed no answer: nothing is claimed of them.
* `MutualTLS`: the server's `ReadHeaderTimeout` (e5s.go:217) ends a silent handshake, goroutines run,
  and handlers return. Clients may hang anywhere. That handlers return is an
  assumption about the user's code: without it a request lasts as long as its
  handler, and the property would be about nothing else.
* `Deploy`: calls to the cluster return and the wait's timer fires; a deleted pod
  goes in the end. Nothing is assumed of what a user types.
* `SpireTestEnv`: the goroutine of the test goes on where it waits for the machine only
  (`Local`), a process that was killed ends, bodies of tests end and timers fire. SPIRE and Docker owe
  nothing, neither that they come up nor that a call to them returns: the token and entry
  commands (spire.go:347, 468) and every call to Docker (containers.go:96, 136, 252, 389)
  run without a deadline, and a test may stay in one (`Hangs`) for ever, which is
  until `go test` itself times out.

## 4. Findings

Each is the counterexample of a run that checks one property the repository
states.

1. `NoOrphan`: when the timer and a successful build race, the timeout may win
   (spire/source.go:154) and the source in the channel stays open, without an owner.
2. `StartupFailureReported`: a bind that fails after 100 ms, or at that moment, is
   reported to nobody, and `Start` has returned success (e5s.go:357-364 against 278).
3. `NamespaceIsHonoured`: `flag` stops at the first word, so in the documented
   `e5s discover label app=api-client --namespace production` the namespace is dropped
   without an error, and the ID printed is one of the current namespace
   (cmd/e5s/discover.go:56 against 43-44).
4. `ShutdownStopsRequests`: after a client's shutdown, requests on kept connections
   still succeed (e5s.go:733 against 648).
5. `WorkflowPasses`: the test pod mounts a ConfigMap that no command and no
   template creates, so the documented workflow ends in a failed test
   (cmd/e5s/deploy.go:954 against 66).

Divergences met while reading, which no run needs to show:

* Validation trims the policy's texts, the TLS configuration does not: a padded ID or
  trust domain passes `validate` and refuses the start, after SPIRE was contacted
  (e5s.go:141 against 135, "ready for use"). `PaddingRefused` checks, and
  `OnlyPaddingRefused` proves, that padding is the only such case.
* The same stop at the first word makes documented commands fail or do something else:
  `spiffe-id k8s default api-client --trust-domain=example.org` has too many words
  (spiffe_id.go:41 against 84), and `validate e5s-server.yaml --mode server` validates in
  mode auto (validate.go:33 against 45). `spiffe-id k8s example.org default api-client`
  (command.go:113) has one word too many in any case, and `version --verbose`
  (main.go:112) names a flag that does not exist.
* `client request` says "Send an mTLS request" (client.go:66), but checks no scheme
  (client.go:148-154), and its client has a TLS configuration and nothing against plain
  text (e5s.go:733): an `http` URL, or a redirect to one, is answered by anyone, with an
  exit status of 0. `SuccessIsTrue` says only of `https` URLs who answered.
* `Start`'s doc says that its shutdown function "does NOT wait for in-flight requests
  (use sync.WaitGroup if needed)" (e5s.go:284); the function waits for them, for up to
  5 s (e5s.go:374-379), as `Serve`'s doc says (e5s.go:407). `NilMeansGraceful` is about
  what the code does and `Serve` promises; it contradicts `Start`'s line.
* The usage text of `deploy spire` offers `--trust-domain` under "FLAGS
  (install/upgrade)" (deploy.go:234-237); `upgrade` has no such flag (deploy.go:333-337) and
  passes no values (deploy.go:372), so it never changes a trust domain, which is what
  `TrustDomainStable` says.
* `discover` looks for the trust domain in the namespace `spire` (discover.go:247, 275),
  while `deploy spire install` puts SPIRE into `spire-system` by default (deploy.go:259).
* Usage texts are printed to the output that scripts capture, with exit statuses 1 and
  2 as well; `ScriptAdmitsTheClient` shows that a server's file made of one is refused.
* `client request --debug` sets `E5S_DEBUG` (client.go:121), which the library has
  already read when its package was initialized (e5s.go:80).
* `/health` of the middleware example is "no auth" (examples/middleware/main.go:146),
  but is reached only through the handshake, which asks for a certificate.
* `Serve` returns nil on SIGINT whatever its shutdown found (e5s.go:439 against 409);
  and it waits for a signal only, so a server whose accept loop failed stays up
  without serving.
* `WithClient` prints the error of its cleanup and drops it (e5s.go:613 against 586).
* `ClientWithContext`'s context also ends the rotation of the source, not only the
  connecting (e5s.go:669-670 against spire/source.go:95-99).
* `StartSingleThread` "stops on context cancellation" (e5s.go:469) but takes no context.
* `validateAuto` shadows the errors of its second steps, so the final message shows
  nil for an error (cmd/e5s/validate.go:92-93).
* `Peer.ExpiresAt` says to authenticate again after it (spiffehttp/peer.go:32); a
  kept connection is served after it without one.
* The containers' cleanup is registered after the last step (containers.go:160), so
  a setup that fails in the middle leaves its containers and network to the reaper, though
  "the containers are automatically cleaned up when the test completes"
  (containers.go:81). `LeftBehind` says both what is removed and what is left.
* A failed `deploy test run` returns before its cleanup (deploy.go:749, 782); a
  release counts as a running server whatever its status (deploy.go:772); the
  image's tag is split off at the last colon, which may be that of a registry's port
  (deploy.go:707-719); the application's chart does not use `global.trustDomain`.
* `SPIRETest` has no `Cleanup` method, though its doc names one (spire.go:31, 81), and
  `Process.Signal(nil)`, the liveness test of spire.go:315 and 419, is always an error.

## 5. Proofs

Seven modules hold theorems, checked by TLAPS from the constants' assumptions alone.
Every safety proof has the same shape: an inductive invariant `IInv`, which
TLC checked on the instance above before it was proved, `Init => IInv`, one case per action for
`IInv /\ [Next]_vars => IInv'`, and `IInv => property`.

* `IdentitySourceProofs`: type correctness, `CloseAgreement`, `HandoutIsOpen`,
  `ErrorAborts`, and the refinement `Spec => ImplementsContract`. None of the
  properties is inductive: that a returned closer saw the source closed needs that
  at most one closer is ever inside the Once (`OnceInv`), what that one has
  already done at each line (`StageInv`), that it is alone with its lock
  (`LockInv`), and that no user exists before the creation answered (`BirthInv`).
  `OpenInv`, on top of it, says who is to close the source that is open.
* `ServerLifecycleProofs`: type correctness, `NeverServeWithoutSource`,
  `FailedStartIsClean`, `ShutdownAgreement`, `NilMeansGraceful`. `MainInv` ties the
  starting goroutine to what it holds, `StageInv` the running shutdown, and
  `ResultInv` a nil from `srv.Shutdown` to connections that are gone. The contract's
  variables are those of `SourceContract`, proved to be implemented. `ShutdownIsFinal`
  is an action property: after a finished shutdown its result and the closed source
  stay, and the accept loop does not come back.
* `ConfigPolicyProofs`: `PolicyPreserved`, `OnlyNamedPeers`, `PaddingRefused` and
  `ExactlyOnePolicy` (a validated policy stands in exactly one field), from
  lemmas on the parsers: a padded text is refused raw, an unpadded one is its own
  trimmed form, so whatever both ways accept they read alike.
* `CommandLineProofs`: type correctness, `SuccessIsTrue`, `ScriptAdmitsTheClient`, and
  the three policy properties again for the composed system, from `ConfigPolicyProofs`'
  invariant and its lemma `StepInv`: a step of the command line changes the file's state
  only where ConfigPolicy begins (`FreshInv`), or by a step of ConfigPolicy.
  `LookupInv` says which trust domain a lookup goes on with, `UseInv` as what a file
  is used, and `ScriptInv` follows the output from the discovery into the file: it is
  the ID of an object that was asked for, or no ID. That what was true of an object stays
  true when SPIRE or the objects are replaced rests on `had` and `hadObjects`, which only
  grow. Lemmas relate the tool's parse to what the tokens say where the flags come first.
* `MutualTLSProofs`: type correctness, `HandlerKnowsPeer`, `LateRequestsArePooled`,
  `EndedIsClosed`, `BackgroundStaysFresh`, and the refinement
  `Spec => ImplementsCalls`, for any processes, trust relation and lifetimes.
  `ConnInv` says what both ends have verified at each stage of a connection.
* `DeployProofs`: type correctness, `PassIsFresh` and `TrustDomainStable`, for any
  number of testers. `Younger`: a tester that waits for a pod began before the pod
  that now has the name was created; `Numbered`: pods never share a number. The type
  invariant includes that nothing is in a cluster that does not exist (`EmptyWithout`).
  The lemma `RoomCorrect`, for `TestsReturn`, is about the model: the bound `MaxPods`
  never disables the creation of a pod, since `Room` keeps one for every test that has
  yet to create its own.
* `SpireTestEnvProofs`: type correctness, `LeftBehind`, `DirectoryLast` and `OwnServer`,
  for any tests, helpers and ports. The pending cleanups of a test are always one of a
  few sequences; `ProcessInv` and `ContainerInv` relate the length that is left to the
  resources that exist, `OwnInv` a token and an attested agent to their server.
  The lemmas on the sequences stand first and are cited by name.

### The extent of three findings

A counterexample shows one bad behaviour; these theorems say how far it reaches.

* `OnlyLateSourcesOrphaned` (finding 1): an open SDK source without an owner comes
  only from a creation that failed after its timer had expired. No error of the
  SDK, no nil context and no cancellation before the timer leaves one.
* `TrueSuccess` (finding 3): a discovery whose flags all stand before the kind of the
  object prints an ID of the namespace that its tokens name; the place of the flag is the
  whole difference.
* `NoTestPasses` (finding 5): as long as nobody creates the ConfigMap by hand
  (`"byhand" \notin World`) no test passes, for any testers, trust domains, faults
  and delays. Its invariant `NoneServed`: no pod runs, so no log holds the greeting.

### Progress

The prover has no rule for ENABLED, which weak fairness is defined by. Each liveness
property is therefore proved from one explicit hypothesis, `GuardsEnable`: where the
guard of a fair action holds, as written there without ENABLED, the action is enabled.
The theorems have the form `FairSpec /\ []GuardsEnable => Property`. What they prove
for every value of the constants is the argument of progress: no other process can
disable an obliged step for ever or throw its process back, and the steps end where
the property says.

`GuardsEnable` is a state predicate that TLC decides. To check it, extend `XProofs`
(which extends `X`) in place of `X` in a copy of the MC module, and give the
copy's cfg `INVARIANT GuardsEnable`. It holds in every reachable state of the
instance of each run that checks liveness (`source_safety`, `server_safety`,
`command_line`, `mtls_live`, `deploy_safety`, `test_env`), so the hypothesis is
satisfied there. What is proved from it:

| module | theorems | the argument |
|---|---|---|
| `IdentitySourceProofs` | `CreationAnswers`, `BuilderEnds`, `ReadReturns`, `CloserReturns`, `OneReaderCloses` | the timer ends the `select`; the channel has room for the one result; inside `closeOnce.Do` the stages follow each other, and everybody outside waits for that one |
| `ServerLifecycleProofs` | `StartAnswers`, `ServerThreadLeaves`, `ShutdownAnswers`, `ServeEnds` | the runner of the Once alternates between `drain` and `wait` until the deadline, and strong fairness of `GiveUp` ends it there |
| `MutualTLSProofs` | `ConnectionSettled` | every stage of the handshake can only lead on or to a closed connection, and the server's timer ends it |
| `CommandLineProofs` | `ProbesReturn` | each probe expires; `left` counts the tools down, five at most |
| `DeployProofs` | `TestsReturn` | no step of a test leads back; the timer ends its wait |
| `SpireTestEnvProofs` | `TestsFinish` | a test that does not hang for ever is never held for ever; a setup leads on or to the cleanups; each cleanup shortens their sequence, of which there are finitely many |

Two of them need a hypothesis more.

* `CloserReturns` is for any number of readers, from `ReadersLeave`: once a writer
  waits, there comes a moment without readers. For one reader, and e5s.go has one,
  `OneReaderCloses` proves it. `ReadReturns` proves that each reader leaves; that
  therefore all of them have left takes an induction over a finite set, which the
  provers do not do.
* `TestsReturn` assumes `Slow`, that is, a cluster that may outlast the timer of the
  wait, as the run does. Without it the model lets the timer fire only for a pod that
  can never start (`Stuck`), an abstraction that finding 5 uses and under which
  nothing is claimed of progress.

### Only model-checked

`GuardsEnable` itself, and `CloseReturns` with several readers, where `ReadersLeave` is
not assumed. The expected violations are TLC's.

## 6. What is not modelled

* go-spiffe, crypto/tls, net/http, SPIRE, Docker, kind, helm and Kubernetes: modelled
  as the code uses them; `PROJECT.json` marks those definitions as external.
* YAML decoding and the text of SPIFFE IDs: which kinds of file a file decodes as, and
  what a text names, are part of the input.
* Debug logging; the wording of output: reports, requirement tables and usage texts are
  `Prose`. The status commands of `deploy`, which only read and print.
* `WithClient`'s callback and the cleanup error it drops; what the handlers of the
  examples write.
* The chart and CI, except what `Deploy` needs of the chart: which
  ConfigMaps it makes and which trust domain its server admits.
* Death of the process by a signal nobody handles: it ends everything at once.

## 7. Plan

Written in this order, the core first: `SourceContract` and `IdentitySource`;
`ServerLifecycle` over the contract; `ConfigPolicy`; `AuthenticatedCalls` and
`MutualTLS`; `Deploy`; `SpireTestEnv`; `CommandLine` over `ConfigPolicy`; then the
proofs, safety first. Next:

0. Proofs about the two abstract specifications, `SourceContract` and
   `AuthenticatedCalls`: that they have the agreement and the authentication which
   the refinements then carry over.
1. `ServerLifecycle` over `IdentitySource` itself, with the handshake's callbacks as
   its readers, to check the contract's use from both sides.
2. A contract of net/http's drain of its own, which `ServerLifecycle` would use as it
   uses `SourceContract`, and the refinement stated over it.
3. `discover` over the releases of `Deploy`: the namespace that one looks in and the
   other installs to.
