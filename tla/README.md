# TLA+ specifications of terraform-provider-enos

The provider lets Terraform drive machines: it copies files and runs commands
over SSH, Kubernetes or Nomad, installs and starts Vault, Consul and Boundary,
initialises and unseals Vault, and manages local kind clusters. The modules
here model the parts of it in which order, failure and retries matter, TLC
checks them on small instances, and TLAPS proves what is proved for all.
Source paths are relative to `src/internal/` unless they start with `docs/`.

## 1. Inventory

| part | state it keeps | operations | hard part |
|---|---|---|---|
| `retry` | `Retrier`: attempts, last error, limit, error filter | `Retry`, `Run`, `ShouldRetry`, `Clone` | one Retrier for several calls, cancellation between and during runs |
| `remoteflight/vault` | none of its own; the node's init and seal state | `Init`, `Unseal`, `WaitForState`, `GetState` | the state is read in several commands, by concurrent applies, from a node that crashes and restarts; the answer of `operator init` exists once |
| `plugin/resource_*`, `server/resourcerouter`, `plugin/transport_resource_util.go` | Terraform's saved state of each resource; the target | read, plan, apply (create, update, delete, replace) | unknown values, applies that fail half way, drift, changed targets |
| `remoteflight/file.go`, `transport/ssh/transport.go` | temporary and final remote file, the source's reader | `CopyFile`, `Copy` | two goroutines and a remote process per copy, retries of a consumed source |
| `transport/ssh` | the connection, sessions, dial, keepalive, waiting and reading goroutines | `Connect`, `newSession`, `Run`, `Close` | late dials, bounded channels, a connection that dies under any of them |
| `transport/exec.go`, `transport/k8s`, `transport/nomad`, `nomad` | pipes and channels of one exec | `WaitForResults`, `Run`, `Copy` | everyone waiting on a pipe |
| `plugin/embedded_transport*.go`, `provider.go` | the provider's configuration and each resource type's copy of it; configured and resolved transport | `SetProviderConfig`, `ApplyDefaults`, `Validate`, `Copy` | requests of several resources in any order, types that change between plans |
| `plugin/tftypes.go`, `vault_config_*.go` | holders of one decoded value | `FromTFValue`, `TFValue`, `Get` | unknown, null, dynamic and nested values must go back as they came |
| `vaultConfig.Render` | the HCL file and the environment file on the host | render in file or environment mode | one configuration split over two files |
| `kubernetes/client.go`, pods data source | none | `QueryPodInfos`, `ListPods` | pods that change between attempts, a limit of retries next to a timeout |
| `startVault`, `startConsul`, `startBoundary`, `remoteflight/systemd` | unit, config and user on the host | create user, directories, config, unit, restart, wait | order and partial failure |
| `remoteflight/package.go`, `download.go`, `unzip.go`, `flightcontrol` | artifact, destination and the flight-control binary on the host | get, verify, unpack, install | interrupted downloads, two installs sharing a binary |
| `plugin/failure_handlers.go` | debug files | copy logs after a failure | runs without a resolved transport |
| `kind`, `docker` | clusters, images | create, delete, load | a create that fails half way |
| artifactory, releases, environment, UI, log, publish tools | none | requests and formatting | none that interleaves |

**How the parts interact.** Terraform core calls `server` -> `resourcerouter` -> a
resource. The resource uses `transport_resource_util` to decode the states and
to build a transport from its own and the provider's attributes, then calls
`remoteflight`, which runs commands through a `Transport` and wraps nearly all
of them in `retry`. `WaitForState` and `CopyFile` are Retry loops themselves.
Terraform applies independent resources concurrently, so two applies may work
on one node at the same time; nothing but the target is shared between them.

**What makes each part correct.** A Retrier keeps to its limit and its context.
`Init` hands out keys exactly when it initialised the node, `Unseal` succeeds
only on a node that was unsealed when it looked, and both return. What a state
says of a target is true unless an apply just failed, plans are kept, nothing
is orphaned, and repeated applies converge. A copied file is whole, carries its
attributes, and `CopyFile` returns. A command's output, exit code and
connection are never lost track of. A request works with the resource's own
transport attributes or else the provider's, core gets back what it sent, and
what a create of `enos_vault_start` writes is the configuration it was given.
An installed artifact was verified, and pods are those of one moment.

PROJECT.json lists every component with what is left out of it, and the hazards
with their lines and the properties that cover them.

## 2. Modules

| module | models | state and actions |
|---|---|---|
| `Retry` | `retry/retry.go`, as used by `TargetHostInfo` (clones) and `InstallFlightControl` (one shared Retrier) | one action per step of the loop: `Select`, `Run`, `Decide`, `Wake`; `NextCall` is the caller's next use; `CtxDone` may come before any step |
| `OnceInit` | what concurrent initialisations promise | `Initialise`, `Return` |
| `VaultOps` | `vault.Init`, `vault.Unseal`, `WaitForState`, `GetState` | a program counter per client, one action per remote command; the node (`up`, `init`, `sealed`, `progress`) is external |
| `ResourceLifecycle` | `resource_*.go`, the router and the transport helpers | one record per resource type says how its handlers differ; `Refresh`, `PlanResourceChange`, `CreateOrUpdate`, `Delete` are Terraform's calls; `Edit`, `Drift`, `Refused` are external |
| `CopyFile` | `CopyFile` and the SSH transport's `Copy` | the Retry loop, the writer goroutine, the remote scp and the commands after it |
| `StartService` | `startVault`, `startConsul`, `startBoundary`, `RestartService`, `CreateOrUpdateUser` | a position in the sequence of remote steps, one action per kind of step; the host's users, files and units; systemd and the processes (`Ready`, `Crash`, `AutoRestart`) are external |
| `ExecStream` | `transport/exec.go`, the kubernetes and nomad transports' `Run` and `Copy` | a program counter for the caller, the request's goroutine, each reader and the tar writer; the pipes; the remote command is external |
| `SSHClient` | `transport/ssh/client.go`, the SSH transport's `Run` and `Stream` | `Connect` with `Dial`s per tick, `Request` and the answers of a session's test, `Run`, `Collect`, `Close`; the network, sshd and the command are external |
| `PackageInstall` | `bundle_install`'s validation, `PackageInstall`, `InstallFlightControl`, the flight-control download and unzip commands, `DeleteFile` | a program counter per install, one action per step; the host's files, packages and the shared binary; servers and package managers are external |
| `PodQuery` | the pods data source, `QueryPodInfos`, `ListPods` | the Retry loop with a clock; pods change in `Change` |
| `TFTypes` | `plugin/tftypes.go` | operators only: decoding, encoding and the getters |
| `VaultConfig` (extends `TFTypes`) | `plugin/vault_config_*.go`, `vaultConfig` and `Render` | operators only |
| `EmbeddedTransport` (extends `VaultConfig`) | `plugin/embedded_transport*.go`, `provider.go`, the helpers of `transport_resource_util.go`, the log-gathering failure handler | the provider process and its requests: `Configure`, `SetProviderConfig`, `Read`, `Validate`, `Plan`, `Apply`; walks of Terraform and edits are external |
| `Retry_proofs`, `VaultOps_proofs`, `ResourceLifecycle_proofs`, `CopyFile_proofs`, `ExecStream_proofs`, `PodQuery_proofs`, `SSHClient_proofs`, `PackageInstall_proofs` | | theorems about the module of that name, see section 4; `Retry_proofs` also about `StartService`, the other loop of remote steps that is run until it succeeds, `SSHClient_proofs` also about `EmbeddedTransport` with `TFTypes` and `VaultConfig`, which decide how a command goes to its host and what is written there |
| `MC*` | | instances for TLC |

Abstractions worth knowing:

* `Retry`: an error is a name, the joined error the set of names `errors.Is`
  finds in it. A sleep is a step. The counters of an unlimited Retrier stop at
  `AttemptBound`, named in `Bump`; properties about counters speak of limited
  ones only. `lateRuns` stops at `LateBound`, above what is allowed.
* `VaultOps`: `GetState` is four reads, each sees the node as it is then. The
  reads that follow for an unsealed node (HA, raft, replication) are one
  possible failure. The node's seal, the seal type in the requests, which need
  not be the same (`Seals`), and whether the weather is foul (commands fail,
  node crashes, timeout fires) are chosen at the start. `fresh` is a
  history variable: the node was up and unsealed at some moment since the
  current `GetState` began.
* `ResourceLifecycle`: inputs are split in `main` (what a sum is computed from),
  `rest` and `host`. `known` says whether `main` is known at plan time. Core's
  second plan at apply time and its check of it are `FinalPlanOK` and `Refused`.
  An apply may fail before or after its effect; places where that, or drift,
  was the last thing to happen are in `dirty`. A lookup of a user that fails,
  for whatever reason, makes the attributes unknown (`UserNotFound`): building
  an SSH client does not connect, so a host that does not answer is a failed
  lookup. A create of a kind cluster fails when one of that name exists.
* `CopyFile`: file contents are absent, old, partial or full. The remote scp
  acknowledges its start, the header and the file; the writer reads one
  acknowledgement less than that, as the code does. A command is tried with and
  without sudo and may take effect although its answer is lost.
* `StartService`: a file's content is the number of the apply that wrote it and
  a process remembers what it read (`ran`). Every step may fail before it takes
  effect or lose its answer afterwards; the timeout around restart and wait is
  one of these failures. Beyond "enabled and running", what `WaitForState` asks
  of Vault (modelled in `VaultOps`) and Consul is part of such a failure too.
  The units a start touches, the configured one and the one the code restarts,
  may exist before, enabled or not and running or not (`Found`), as the package
  or an earlier resource left them. `WaitTimesOut` ends the wait for a unit that
  nobody starts. systemd's limit on restarts is left out.
* `ExecStream`: output is a number of chunks. A pipe does not buffer, so a write
  and the read of it are one step. Whether a request fails before it uses its
  streams (`early`) is remembered.
* `SSHClient`: a dial may hang, since its timeout covers TCP only. A connection
  that stops answering counts as lost. Of the two output readers, which are
  alike, one is modelled. `session.Start` may be refused on a connection that is
  up.
* `PackageInstall` uses `CopyFile` as the module of that name shows it to be.
  `cause` records that something the code does not retry went wrong and
  `misses` the failures of the step being retried.
* `PodQuery`: time passes in sleeps and list calls only, in seconds.
* `TFTypes`: a value is its type, its status and its content; objects nest to two
  levels, which is what the deepest schema uses; numbers are in tenths and go
  to the limits of int64, which is the constant `MaxInt`. `Null` and `Unknown`
  may both be set, as in the code. `Encodes` says when encoding does not panic:
  a map needs an element, and elements that are still of one type after they
  were decoded (`EncodedType`).
* `EmbeddedTransport`: a resource has a transport and one other attribute, its
  payload: either an attribute of any type or, for `enos_vault_start`, the
  configuration with its mode and environment. The provider crashes where a
  failed request's handler, the comparison of transports or the encoding of a
  plan panics outside of any recover. A request is two steps, since
  `SetProviderConfig` and the copy taken of the configuration are separate calls. A
  new state that core refuses is one that is replaced; its refresh before that
  is left out.
* `VaultConfig`: a file is its attributes and its set of blocks. The name of a
  variable is a prefix and the rest of it.

## 3. Runs

| run | instance | shows |
|---|---|---|
| `retry` | limits -1..3, two errors, all filters, 3 calls | `AttemptsBounded`, `AttemptsAgree`, `CloneHasFullBudget`, `CancelIsPrompt`; `CancelReturns` |
| `vault_ops` | two clients, each Init or Unseal, 2 keys, requests for a shamir seal to a node that has one and to one that has awskms, one crash or seal, every command may fail | `UnsealIsFresh`; `InitIsOnce`: the clients implement `OnceInit` |
| `vault_live` | two clients, shamir, fair and foul weather | `Terminates`, `UnsealConverges` |
| `lifecycle` | 13 resource types, 3 edits, 2 faults | `InSync`, `SumInSync`, `NoOrphan`, `PlanHolds`; `Converges`, `DriftIsRepaired` |
| `transport` | two resources, one edited; 5 provider blocks, 31 resource blocks in two kinds of resource type; two rounds of plan and apply | `AnswersAsSent`, `ResolvedIsOwnElseDefault`, `AppliedIsComplete`, `CrashesOnlyThere`, `RenderedIsConfigured` |
| `copy_file` | 3 attempts, 2 scp failures, 3 command failures, 1 lost connection, with and without chmod and chown | `WholeUnlessScpFails`, `MovedWithAttributes`; `Returns`, `ReliableCopySucceeds` |
| `start_service` | vault, consul, boundary, with and without a license and a managed unit, given and default unit and user names, each unit absent, installed or running at first, 3 applies, 2 faults | `RunsWhatWasWritten`; `RetriedStartSucceeds`, `StartReturns` |
| `exec` | kubernetes and nomad, run and copy, 2 chunks of output, exit codes 0, 1 and 2 | `ResultIsTrue`; `EverythingEnds` |
| `pods` | 2 pods with one and two containers, 2 changes of the cluster, timeouts shorter and longer than the attempts take | `OneSnapshot`, `OverrunIsBounded`; `ReadReturns` |
| `install` | 2 installs of every kind of source, 3 faults | `InstalledIsVerified`, `FailsForCause`; `InstallReturns` |
| `ssh` | 2 commands, 2 dials per Connect, 2 test requests, a dial error channel of 1, a keepalive limit of 2 | `RunResultIsTrue`, `Accounted`; `AlwaysCloses` |

One run ends in a counterexample, where the code does not do what a document of
the repository says: `vault_start_update` with `UpdatesTakeEffect`,
`plugin/resource_vault_start.go:257`: an inverted comparison, as in
`consul_start` and `boundary_start`, so that an edited configuration is saved
and never reaches the host. The others met while modelling are in section 6. Where a property of a passing run leaves out a case, it is one of these, and
its comment says so.

`CopyFile`, `StartService`, `ExecStream`, `PodQuery`, `SSHClient`,
`PackageInstall`, `VaultOps` and `EmbeddedTransport` state a `TypeOK` (in two
of them `StartTypeOK`, `TransportTypeOK`) that is not in their run's
configuration: each holds on the instance of its run, and each is proved
(section 4). `MCEmbeddedTransport` ends with the assumption `NothingAmbiguous`,
that every Vault configuration of its instance satisfies the hypothesis of
`RendersWhatIsConfigured`; TLC evaluates it.

**Bounds.** Three calls on one Retrier reach a call that starts with its budget
used up, with some of it left, and untouched, for every limit up to three; a
limit of four adds attempts but no new relation between counters, and the
theorems cover all limits. Two clients are what an interleaving of a check and
a command needs; that requests expect a shamir seal sends them through every
step of `Unseal`, and a node that unseals itself lets the check of the seal's
type fail (requests that know of such a seal enter no keys and are left to the
proofs, which hold for any `Seals`); one crash or seal falls between any two reads. Two keys with a
threshold of two let clients' keys mix. Three edits reach create, update,
replace, remove and re-create in sequence, two faults a failure followed by a
failed repair. Two scp failures, three command failures and one cut exhaust the
three attempts in every mixture; more cuts change nothing as the connection
never comes back. Three applies with two faults reach a start that fails, one
that fails on what the first left behind, and one that succeeds, and a crash
between any two steps of an apply on a host with a running service. A unit is
found as the package installs it or as an earlier resource leaves it; the proof
covers every other way. The option to create a directory is left out of the
run: its step changes nothing that is modelled.
Two resources are what a shared configuration needs: one writes it between the
other's two steps; the first round creates, the second changes, drops or adds a
transport or fails on what the first saved. The blocks in `MCEmbeddedTransport`
have each status and shape of value once: null, unknown as a whole and in part,
dynamic, map, list, nested, empty maps and maps of objects of which one is null,
fractions, numbers that are too large, two transports at once, a misspelt one,
each kind of seal, one and several of them, in both modes. In `exec` two chunks
leave one in the pipe when the other is read. In `ssh` the channel of dial
errors is smaller than the number of dials, as it can be in the code, and the
keepalive reaches its limit of failures. In `pods` two changes make the
answers of three attempts differ. Three faults in `install` are as many as a
step has attempts.
`ClientSymmetry` is used in the safety run only; nothing
there tells the clients apart.

**Deadlock checking** is off everywhere: calls return and Terraform stops when
there is nothing left to apply, so all of these systems end.

**Fairness.** `Retry`, `VaultOps`, `CopyFile`: a goroutine that can run does
(the Go scheduler), and a remote command or scp that was started ends; so in
`ExecStream`, `SSHClient`, `PackageInstall` and `PodQuery`, where a connection
that is lost and a context that ends are never forced. In
`VaultOps` the apply's timeout fires eventually in foul weather
(`context.WithTimeout` in the resources), systemd restarts Vault, and an
auto-sealed node unseals itself. In `ResourceLifecycle` whoever runs Terraform
runs it again, as for a failed apply in `StartService`; there systemd and the
processes make progress, and a start job ends with the first exit of its
process even if that is restarted over and over (strong fairness of `JobDone`:
systemd reports the exit once, it is not polled). The wait for a unit that
nobody starts or enables ends by the timeout of one or two minutes
(`WaitTimesOut`, `resource_vault_start.go:949`, `resource_consul_start.go:695`). Edits, drift, faults and cancellations elsewhere are never
forced.

## 4. Proofs

Each theorem holds for every value of the module's constants that its named
assumption allows. These say what the code's types say (limits are natural
numbers, a kind is one of the provider's) and that model values differ from
each other (`Nothing` is not a content, `Null` is not a state); these say more:

* `PodQuery` assumes that one of the durations a list call may take is the
  longest; without it no bound on the overrun exists;
* `SumDescribesItsTarget` has the hypothesis that no resource with a sum
  changes its host. It is what the code needs: a moved `enos_remote_exec` runs
  nothing on its new host (section 6);
* `EmbeddedTransport` assumes the form of what core sends (`WireAssumption`):
  an object has every attribute of its schema with values of their types, a
  block is null, unknown or a map of them. Which blocks, how many and with what
  in them is left open;
* in a map that core sends, all elements are of one type (`SameType`), so that
  encoding can only fail for what decoding does to them; `MaxInt` is any
  natural number;
* `RendersWhatIsConfigured` has the hypothesis that no configuration is
  ambiguous (`Unambiguous`). Without it the code does lose a part: of two seals
  of which one is a part of the other the files cannot show both; two
  attributes may share a variable (`secret_key` and `secret_access_key` of
  awskms); an attribute called `name` or `priority` is dropped for the one that
  `Render` gives; a variable of the user may be overwritten by a seal's, and one
  without a value is not written; `seal` next to `seals` is section 6.

Every inductive invariant was an invariant of a TLC run on the instance of
section 3 before it was proved.

| theorem | states | what it needs beside the property |
|---|---|---|
| `Retry_proofs`: `TypeCorrect` | `TypeOK` | |
| `LimitHolds` | `AttemptsBounded` | how many runs are behind the call at each control point: that one more stays in the budget is known only because the loop came through `ShouldRetry` (`BoundInv`) |
| `AttemptNumbersAgree` | `AttemptsAgree` | the types |
| `CancelStopsRetrying` | `CancelIsPrompt` | a late run is only possible when the context ended between `Select` and `Run` |
| `ClonesAreIndependent` | `CloneHasFullBudget` | a cloned call starts from zero, and one on retryable errors leaves only through an exhausted budget |
| `VaultOps_proofs`: `UnsealSawItsState` | `UnsealIsFresh` | that what a call has read of an unsealed node is recorded as seen, from the read to the end of the call (`FreshFor`) |
| `ImplementsOnceInit` | `InitIsOnce` | who initialised the node holds the keys, or lost them and fails; a call that read an initialised node read the truth for ever (`HolderFor`, `OnceInv`). Every step is then an `Initialise`, a `Return` or a stutter of `OnceInit` (`StepRefines`) |
| `ResourceLifecycle_proofs`: `StatesAreKnown` | `TypeOK` | what a pending plan says of the state it was made for (`PlanInv`), and that only a type that is read back may have lost its main input (`StateInv`): otherwise an output planned as unknown could be saved |
| `PlansHold` | `PlanHolds` | the shown plan agrees with the one made when applying as long as it is pending, which for a replace has to survive its delete (`ShownPlanInv`) |
| `StateDescribesItsTarget` | `InSync` | the same between any two steps, not only at rest: a refresh that reads what is there changes nothing unless the place is dirty, and a lookup that fails only makes the state say less (`ContentInv`) |
| `SumDescribesItsTarget` | `SumInSync` | the same, and that configuration and state name the same host (`SumInv`) |
| `NoClusterIsLeft` | `NoOrphan` | an update never renames a cluster, since a new name is a replace (`RenameInv`) |
| `CopyFile_proofs`: `MovedFilesHaveAttributes` | `MovedWithAttributes` | the attributes of the temporary file at each command, and that nothing but the commands touches it once the copy is over (`MovedInv`) |
| `CopiesWholeFiles` | `WholeUnlessScpFails` | while scp does not fail, the temporary file is whole already or the source is still to be read or was sent in this attempt: a consumed source has left a whole file, which an empty copy does not truncate (`WholeInv`, `SourceAhead`) |
| `ExecStream_proofs`: `ResultsAreTrue` | `ResultIsTrue` | what each goroutine's end says of its pipe, and that the buffers are complete when the last reader is done |
| `PodQuery_proofs`: `QueriesEndInTime` | `OverrunIsBounded` | how late a query may be at each point of its loop (`LateInv`), and the values of the Fibonacci intervals, computed from their definition (`Intervals`) |
| `TransportsAreOneSnapshot` | `OneSnapshot` | the answer taken describes one of the moments since the read began, and keeps doing so (`SnapshotInv`) |
| `SSHClient_proofs`: `RunsAreTrue` | `RunResultIsTrue` | the channel closes after the last output or with the connection, the error is made from a closed channel, the caller is where its command is (`CommandInv`, `CallerInv`, `ErrInv`) |
| `NothingIsLost` | `Accounted` | which control points have a session on trial (`SessionInv`), and that the client is a dial that ended (`ClientInv`), so that at least one dial of its `Connect` is not stranded |
| `PackageInstall_proofs`: `SuccessIsVerified` | `InstalledIsVerified` | an install that looked at the binary never finds an old one again, whatever others do to it (`BinaryInv`); nothing but a whole artifact gets past the getters, or one that cannot be opened (`ArtifactInv`) |
| `FailureHasACause` | `FailsForCause` | attempts are spent on misses (`CauseInv`) |
| `Retry_proofs`: `StartedRunsWhatWasWritten` | `RunsWhatWasWritten` | the order of the three lists of steps (`StepsOrdered`); what this apply wrote stays as written, what systemd has loaded is the unit file once it was reloaded, and from `show` on a process is either one that was seen running, to be stopped next, or runs with all of it (`StartHolds`). All of it is about starts that restart the unit they wrote; what is found on the host before does not matter (`StartInv`) |
| `SSHClient_proofs`: `CoreGetsBackWhatItSent` | `AnswersAsSent` | lemmas about `TFTypes`, `VaultConfig` and the transports: what is decoded from a value that is plain is encoded as it came (`AttrBack` to `VaultBack`, `BlockBack` to `StateBack`). A request is only answered for a state that was decoded, and what is saved is as core sent it (`Answered`, `Kept`) |
| `DefaultsFillIn` | `ResolvedIsOwnElseDefault` | while the provider runs, the shared copy that a request uses is the provider's block and nothing else (`Shared`); what `ApplyDefaults` makes of two decoded blocks (`Resolved`) |
| `AppliesAreComplete` | `AppliedIsComplete` | an apply that is done has saved what was written, with a transport that passed validation (`Completed`) |
| `CrashesAreKnown` | `CrashesOnlyThere` | `Answered` and `Kept`: the states compared when a plan is made; and that what was decoded from a map of one type is encoded as a map of one type unless an object in it has no value, up to the configuration of a Vault (`FlatType` to `EncodeCrash`) |
| `RendersWhatIsConfigured` | `RenderedIsConfigured` | what `Render` makes of any configuration that is not ambiguous holds all of it, stanza by stanza, seal by seal and variable by variable (`FilesHoldIt`), and files on a host came from a configuration core sent (`HostsInv`) |

The last five share the conjunction `TransportInv`. Type correctness:

| theorem | module | what it needs beside the types |
|---|---|---|
| `VaultOps_proofs`: `TypeCorrect` | `VaultOps` | |
| `Retry_proofs`: `StartsAreTyped` | `StartService` | |
| `SSHClient_proofs`: `ClientsAreTyped`, `TransportsAreTyped` | `SSHClient`, `EmbeddedTransport` | how many dials, requests and sessions one Run can still open, and that the keepalive stops at its limit (`CountInv`); `TransportInv` |
| `PodQuery_proofs`: `QueriesAreTyped` | `PodQuery` | an attempt is left where one may begin (`AttemptsInv`) |
| `ExecStream_proofs`: `StreamsAreTyped` | `ExecStream` | no reader keeps more than it took, or takes more than was written (`PipesInv`) |
| `CopyFile_proofs`: `CopiesAreTyped` | `CopyFile` | how many acknowledgements each state of the remote scp may have sent (`RoomInv`) |
| `PackageInstall_proofs`: `InstallsAreTyped` | `PackageInstall` | an install that goes on has an attempt left (`BudgetInv`) |

The proofs have one step per action. Where processes are alike (`VaultOps`,
`PackageInstall`) there is one lemma for the steps of the process itself and
one for those of the others, which says what they leave alone; that the node
or the binary is shared is why the second is needed.

Every safety property that a passing run checks is stated by a theorem. Only
model-checked is liveness (`CancelReturns`, `Terminates`, `UnsealConverges`,
`Converges`, `DriftIsRepaired`, `Returns`, `ReliableCopySucceeds`,
`StartReturns`, `RetriedStartSucceeds`, `EverythingEnds`, `ReadReturns`,
`InstallReturns`, `AlwaysCloses`), which is outside what the prover handles.

## 5. Plan

Done: all modules of the first plan (`Retry`, `VaultOps` with `OnceInit`,
`ResourceLifecycle`, `CopyFile`, `StartService`, `SSHClient`, `ExecStream`,
`PackageInstall` with flight control, `PodQuery`, `TFTypes`, `VaultConfig`,
`EmbeddedTransport` with the failure handler) and, of the theorems, every safety
property the runs check and the type correctness of each of these modules that
has a state. No module uses a RECURSIVE operator.

Left, in this order:

1. Abstract specifications: a one-shot exec that `ExecStream` and `SSHClient`
   implement, an atomic file replace for `CopyFile`.
2. The raft, HA and replication reads of `remoteflight/vault` in `VaultOps`, the
   Consul checks in `StartService`.

## 6. Not modelled, and disagreements without a run

HCL syntax, the wording of diagnostics, logging, schemas, import and state
upgrades are formatting without state. The artifactory, environment and
host_info data make one request each. The publish tools are not part of the
provider. Lengths of intervals and timeouts are abstracted to "may fire", except
in `PodQuery`. Interval functions are arithmetic without state.

Met while modelling, with the larger ones first:

* An update of `enos_vault_init` runs `Init` again and overwrites the unseal
  keys and the root token in the state with an empty answer
  (`resource_vault_init.go:241`).
* `transportReplacedAttributePaths` loses its appends
  (`embedded_transport.go:496`), so a changed host is an update that, for
  `enos_remote_exec`, runs nothing there. When the type of the transport
  changes, it calls a method of a nil interface and the provider panics
  (`embedded_transport.go:493`, `CrashesOnlyThere`).
* A failed `Copy` over SSH returns the error of closing the session instead, nil
  as a rule (`transport/ssh/transport.go:133`), and `CopyFile` moves the partial
  file (`WholeUnlessScpFails` leaves it out).
* A plan with an attribute of any type that is a map without elements, or a map
  of objects one of which is null, crashes the provider: the first element's
  type is taken for all of them, and `tftypes.NewValue` panics
  (`tftypes.go:150`); so may listeners, storage and seals that are written as a
  map (`CrashesOnlyThere`).
* A kind cluster whose create took effect and was not saved blocks every further
  create (`kind/client.go:154`), until someone removes it (`Blocked` in
  `Converges`).
* `startBoundary` and `startConsul` restart the units `boundary` and `consul`
  whatever `unit_name` is (`resource_boundary_start.go:538`,
  `resource_consul_start.go:700`). Where such a unit exists, from the package or
  an earlier resource, a start of boundary reports ok although the unit it has
  just written was neither started nor enabled, while one of consul waits for
  the named unit, in vain unless that was running before. Where there is no such
  unit both fail. `docs/resources/boundary_start.md:38` calls `unit_name` "The
  name of the systemd unit". `RunsWhatWasWritten` and `RetriedStartSucceeds`
  speak of starts that restart the unit they wrote.
* `enos_file` gives `chown` to `chmod` (`resource_file.go:231`).
* `Copy` in `transport/exec.go:253` waits for a tar writer that nobody reads when
  the exec failed early (`EverythingEnds` leaves it out).
* The log-gathering handler asks a transport that was not resolved for its type
  and panics (`failure_handlers.go:98`).
* The tertiary seal is encoded from the secondary one
  (`vault_config_seals.go:163`): a plan with it is refused. A listener,
  storage or seals that is unknown as a whole comes back null, an
  unknown transport too (`AnswersAsSent` leaves these out).
* `startVault` sets a missing `log_level` to info in the state as well
  (`resource_vault_start.go:794`), which core reports as inconsistent.
* Null attributes drop whole blocks: a `GetObject` with one null attribute gives
  nothing, so a seal is not written, raft gets neither its path nor a retry_join, and a
  retry_join with a null gets the default (`RenderedIsConfigured` speaks of
  complete blocks). `seal` and `seals` are accepted together although the
  schema says they cannot be used in conjunction. In environment mode a seal
  attribute that is a bool is refused.
* Empty lists, maps and objects come back null, fractions are cut off, numbers
  beyond int64 go to its limits, lists and maps of objects in an object are
  taken for strings (`tftypes.go:869`), and the
  directory of a copied provider configuration that was null is "".
  `config.FromTerraform5Value` ignores the directory while the transport is
  unknown (`provider.go:196`). `checkK8STransportNotConfigured` sees the
  resource's own transport only (`embedded_transport.go:638`).
* `remote_exec.go:423` ignores that `GetStrings` gives up, so an environment with
  a null has a random part of its variables.
* `artifactory.sha256` is required by the getter though documented "If present";
  a release without version passes validation; a failed install leaves its
  temporary artifact though the comment says it cleans it up; a `rm` whose
  answer is lost makes the retries of `DeleteFile` fail; the facts of a host are
  retried without limit.
* `wait_timeout` of the pods data source ends after ten attempts (about 88 s),
  overruns by one sleep and one list call, and the namespace defaults to
  "default" where the schema says all. `kubernetes/client.go:332` relies on the
  timeout while the limit of ten attempts comes first.
* The SSH keepalive ends after five failures over the life of a connection, and a
  connection that was lost is never replaced.

Smaller ones: `vault/unseal.go:45` names the
seal type `gcpkms`, `resource_vault_start.go:1026` only knows `gcpckms`;
`enos_file` does not move a file whose destination alone changed
(`resource_file.go:211`); it plans the old sum while its content is unknown, so
core refuses that apply (`PlanHolds` leaves it out for that reason);
`enos_bundle_install` plans its last outputs and sets new ones; an update of `enos_boundary_init` always
fails (`Blocked`); a
lookup of a user that fails makes its attributes unknown in the saved state
(`resource_user.go:145`); the unit `startVault` writes runs as the
user `vault` whatever `username` is (`resource_vault_start.go:894`), so such a
start fails in every apply (`RetriedStartSucceeds` leaves this out);
`RestartService` asks for `UnitFileStatus`, systemd's name is `UnitFileState`,
so it enables every time, and it does not stop a service that is activating
(`systemd/client.go:196`), so a process that read older files may be kept
(`RunsWhatWasWritten` leaves it out).
