# Verification of maistra-test-tool

TLA+ models of the parts of `maistra-test-tool` in which control flow, not the
service mesh under test, decides what happens: the harness a test runs in, the
goroutines the migration tests start, the installers and applications that
leave things on a cluster, the federation tests with their two clusters, and the
script that runs the tests for one version after the other.  Modules are checked by TLC on small instances and, in the
`*_proofs` modules, proved by TLAPS for every value of the constants.  Paths in
this file are relative to `src/`.

## 1. The system

The repository is a Go test suite for OpenShift Service Mesh.  A test binary
(one per package of `pkg/tests`) is run by `gotestsum` from
`scripts/runtests.sh`; it drives a cluster through `oc` and `kubectl` commands.

| Component | State it keeps | Operations | Hard behaviour | What makes it correct |
|---|---|---|---|---|
| harness: `pkg/util/test/{test,subtest,test_helper,test_helper_retry}.go` | per `testing.T`: failed, cleanups; per attempt: a failed flag and a log buffer | `Run`, `NewSubTest().Run`, `Cleanup`, `Error`, `Fatal`, `Skip`, `Attempt` | failures travel by return, panic and Goexit, through defers and recovers | no failure is lost; a retry panic is always recovered |
| retry loops: `pkg/util/retry`, `OC.retryFunction`, `OC.WaitFor` | attempt number | `UntilSuccessWithOptions`, `Attempt`, ... | loops nest; closures capture the helper of an outer loop; the last attempt runs on the caller's helper | success only after a clean attempt; giving up only after the last |
| `oc` with a kubeconfig: `OC.withKubeconfig` (`pkg/util/oc/oc_struct.go`), `env.Setenv` | `KUBECONFIG` of the process | every `OC` method | one process-wide variable, set and restored around nested calls that may unwind | commands reach the intended cluster |
| continual requests: `pkg/tests/tasks/migration/main_test.go`, `pkg/util/curl` | a goroutine, a context and an unbuffered channel per call | `continuallyRequest`, `curl.Request`, the cleanup | concurrency with the test, its other cleanups and each other | nothing requested is deleted; no goroutine outlives its `testing.T`; the test ends |
| Tempo installer: `pkg/tempo/install.go`, `pkg/util/operator`, `pkg/app/minio.go` | `tempoExistedBefore`, `otelExistedBefore`; the cluster | `InstallIfNotExist`, `Uninstall` | partial failure, kills, reruns in a new process on the cluster as left, OLM working concurrently | the administrator's operators survive, the test's own do not |
| cert-manager installer and tests: `pkg/certmanageroperator`, `pkg/tests/tasks/security/certmanager` | the cluster; in a test, a generation it read | `InstallIfNotExist`, `Uninstall`, the two tests and their cleanups | OLM, the operator, cert-manager and istiod act meanwhile and make again what is deleted in the wrong order; commands fail half-way; the next test meets what is left | a test that passes tried its own mesh; a cleanup removes for good |
| MetalLB installer: `pkg/metallb` | the cluster, the text of the address pool | `InstallIfNotExist` per kubeconfig | each part is skipped if it exists, or if the question was not answered; retried attempts append to the same text | all parts are there before tests run |
| suite set-up: `pkg/util/test/{suite,test_helper_setup}.go`, `pkg/tests/ossm/setup.go` | one cleanup | `Setup`, `Run` | a failing setup panics out of `TestMain` | tests run only on a cluster that is set up |
| applications: `pkg/app` | resources in a namespace | `Install`, `WaitReady`, `Uninstall` | variants share resources of the same name | uninstalling undoes installing, and nothing else |
| waits: `pkg/util/oc/pod_commands.go` | a time budget | `WaitDeploymentRolloutComplete`, `WaitPodReady`, ... | the budget is shared and rounded | waiting ends within the budget |
| federation: `pkg/tests/ossm-federation` | two clusters, `KUBECONFIG` of the process | `federationTest.run`, its checkers and cleanup, `TestMain` | a command that fails leaves `KUBECONFIG` at the east cluster; addresses and certificates are read in an order; tests are run again | each cluster gets its own commands; peers are told of each other; what passes passed on the right clusters |
| migration: `pkg/tests/tasks/migration` | two control planes, tenants | the move of a namespace from SMCP to Istio | two controllers that claim the same namespace | requests go on succeeding |
| runner: `scripts/runtests.sh` | versions, reports, exit status | `runTestsAgainstVersion`, `resetCluster`, `main` | `set -e` with pipes; reruns; one version's failure and the next | every version is run on a reset cluster |
| pure functions: versions, groups, output checks, heredoc | none | | boundaries; a check whose condition is inverted | equal to their definition |

How they interact: the script starts processes; a process runs the suite's
setup, then tests one after the other; tests call installers, applications and
waits; all of these report failures to the helper they were given and run their
commands through `OC`.  Shared state is the cluster (between processes), the
environment and package variables (within a process), and the `testing.T`
(between goroutines).

What is hard to test in this, with its lines, is the list `hazards` of
`PROJECT.json`.

## 2. What is modelled

### `Harness` (with `MCHarness`, `Harness_proofs`)

One top-level test from `Run` to the end of the process, as a stack of
activations `frames[1..depth]`: first the tests (`tests` of them, a test and its
subtests), above them the loops and `withKubeconfig`s that are active.

| Model | Code |
|---|---|
| `frames[d].base`, `HelperAt` | the helper a closure captured: an attempt's own, or the caller's for `retryFunction`, `withKubeconfig` and the last attempt of `UntilSuccess` |
| `frames[d].failed` | `testing.T.Failed()`, or the flag of a `RetryTestHelper` |
| `mode` | `run`; unwinding by `panic` (of `retryPanicKey`), `goexit` (`testing.T.FailNow`, `Skip`) or `crash` (any other panic) |
| `Error`, `Fatal`, `Skip`, `Panic` | a check or a command fails, at any place a helper can run |
| `UntilSuccess`, `WaitFor`, `RetryFunction`, `WithKubeconfig` | the calls; what may be called within what follows the code (`MayCall`) |
| `Return`, `AttemptFailed`, `Recover`, `Unwind` | how an activation is left: the loop's decision after an attempt, the deferred recover of `Attempt`, nothing at all |
| `EndBody`, `RunCleanup`, `EndCleanup`, `FinishSubtest`, `FinishTest` | the deferred closure of `Run` (must-gather), then package `testing` |

`dirty`, `want` and `leaked` are history: a failure no later attempt made good,
the cluster commands are meant for, and whether a `withKubeconfig` was left
without restoring.  Which command runs and what it prints is left out: it
succeeds, fails, or panics.

Properties: `VerdictSound` (a test that passes had no failure that was not made
good), `RetryPanicCaught`, `KubeconfigAsWanted`, `UntilSuccessPromise` and
`ApplyPersistsInAttempt`.  `KubeconfigAsWanted` is conditional: after a
`withKubeconfig` was left by a panic or Goexit, which skips the second `setEnv`
(`oc_struct.go:418`), `KUBECONFIG` is whatever it was; without the condition the
property is false.

### `ContinualRequest` (with `MCContinualRequest`, `ContinualRequest_proofs`), `Watch`

The test's goroutine (`main`), its stack of cleanups, and one goroutine per call
of `continuallyRequest`, each at one of `check`, `select`, `request`, `sending`,
`stopped`, or `dead` (ended by `Fatalf`'s Goexit).  `Cancel` and `Stopped` are
the two halves of the cleanup: `cancel()`, then the rendezvous on `stopped`.
The test function may create resources and start requesters in any order in
which what is requested already exists, which covers the orders of
`TestMigrationSimpleClusterWide`, the multi-tenant test, `custom_ca_test.go` and
`cert_manager_test.go`.  Cleanups fail without stopping the others, as package
`testing` runs them.

`RequestedIsPresent` is about the resources, `NoRequesterOutlivesTest` about the
end.  `Watch` is the abstract specification of what the requests are for, and
mentions no context, channel or cleanup: a watcher goes on until the test is
over and it is asked to stop; one that gives up earlier does so in a test that
fails; the next is asked only when those asked before have given up.  Hence
nothing a test watches goes unwatched in a test that passes.  `KeepsWatch`
instantiates it, a requester watching until it is out of its loop, and asked
from the moment its own cleanup has begun; TLC checks it as a property and
`ImplementsWatch` proves it.

### `TempoInstall` (with `TempoInstall_proofs`)

`TestTempoTracing` and its cleanup, one command per step, in up to `MaxRuns`
processes one after the other on one cluster, with OLM and the Tempo operator as
concurrent processes.  `step` and `op` are the program counter; `existedBefore`
and `csvName` the process's variables; `own`, `stack` and `kindKnown` the
cluster; `preexisting` what the administrator had.  `Cleanup` is a failing
command of the installation or the end of the test, `Abort` a failing command of
`Uninstall` (which ends the cleanup) or a killed process.  Two facts about the
tools matter and are in the model: an existence check takes any error other than
NotFound for "exists" (`Answers`, `oc_struct.go:549`), and `oc delete` of a kind
the cluster does not know, or of a CSV without a name, is an error
(`DropStack`, `DropCsv`).

`TempoSurvives` holds without conditions, `NothingLeftBehind` of processes whose
`Uninstall` came to its end, `InstalledIsUsable` where no earlier process left a
mess and no check was misread; `LeftoverMeansTrouble` says where wrong flags come
from.
### `Apps` (with `AppPrograms`, `MCApps`, `Apps_proofs`)

`AppPrograms` has the methods of every application as sequences of commands on
objects: a manifest is the set of objects it lists, `spec` is what tells apart
two manifests of one object, `mounts` what the pods of a workload cannot start
without.  `Apps` runs a test and its subtests over them.

| Model | Code |
|---|---|
| `Httpbin`, `Sleep`, `Bookinfo`, `Nginx`, ... | `Install`, `WaitReady`, `Uninstall` of `pkg/app/*.go`, with the objects of their templates |
| `InstallAndWaitReady`, `NextApp` | `app.InstallAndWaitReady`: all are installed, then all are waited for |
| `Apply`, `Create`, `Delete`, `DeleteNs`, `AskCluster`, `WaitFor` | the `OC` commands of `pkg/util/oc`; a failing one has done part of its work (`Partial`) and ends the test (`Fail`) |
| `RolloutComplete`, `RolloutTimesOut`, `RolloutFails`, `remainingTime` | `WaitDeploymentRolloutComplete`: one time limit, its rest rounded for every deployment (`pod_commands.go:131`) |
| `RollOut` | the cluster: pods start, once, with the secrets and config maps of that moment |
| `Test(apps, cleanup, early)` | a test of the repository; `early` if `t.Cleanup` comes before the installation |

Properties: `CleanupLeavesNothing`, `ReadyAppsRun` (no application takes away or
overwrites what another one needs), `FreshPodsMountTheirConfig`, `GivesUpOnTime`
(`Round` goes to the nearest second, so a rollout may be given up half a second
before the limit of the call or half a second after it, but not more, however
many deployments share the limit).
`InOrder` says of one application, and `ApplicationsAssumption` of those that a
test combines, what the code has to respect for these: a workload comes after
what it mounts and is waited for, and no command disturbs what an earlier one,
of the test or of the test around it, has installed.  What tests before have
left may be disturbed by anyone.
That a *re*-installed nginx runs its configuration is false: `apps_nginx`.

### `Federation` (with `FederationPrograms`, `MCFederation`, `Federation_proofs`)

One test binary of `pkg/tests/ossm-federation`: `TestMain` with MetalLB, the
tests in turn with their cleanups, and reruns in new processes.

| Model | Code |
|---|---|
| `run`, `controlPlaneInstaller`, `Peers`, `defaultChecker`, `failoverChecker`, `DeleteNamespaces` | `federationTest.run` and its parts, command by command; each with the `OC` (`side`) it is given |
| `installOperator`, `deployMetalLB`, `createAddressPool`, `SkipIfExists` | `pkg/metallb/install.go` |
| `kubeconfig`, `ClusterOf`, `Breaks` | `KUBECONFIG` and `withKubeconfig`: what `Harness` establishes about an unwound one is used here |
| `loop`, `Failed`, `CheckFails`, `attemptFailed` | the attempts of an `UntilSuccess`: back to its first command; how often is not counted |
| `info` | addresses, certificates and request counts the test has read |
| `Reconcile`, `Connect`, `MetalLBStarts` | external: the control planes, their peering, OLM |
| `Rerun`, `SetupDone`, `Stop` | gotestsum, `m.Run`, a failing command in setup (a panic) |

The east `OC` sets `KUBECONFIG` around its commands, the west one, without a
kubeconfig of its own, uses what is there.  A failing east command therefore
sends later west commands to the east cluster.  `PassedWestStaysPut` and
`FailoverPassesAcrossClusters` say how far that can go in a test that passes,
`CleanupRemovesNamespaces` what its cleanup can be relied on for,
`PeersKnowEachOther` what holds without it; `federation_west_on_east` is the
claim that it breaks.  `MetalLBInstalled` holds but for existence checks that
were not answered.

### `RunTests`, `CertManager` (with `CertManagerPrograms`, `MCRunTests`, `CertManager_proofs`, `CertManagerTests_proofs`, `RunTests_proofs`)

`CertManagerPrograms` has the installer of cert-manager's operator, the two
tests and their cleanups as commands.  `CertManager` is the test binary that
runs them under gotestsum, next to the cluster; `RunTests` EXTENDS it with
`scripts/runtests.sh`, which runs gotestsum for one version after the other.

| Model | Code |
|---|---|
| `install`, `InstallIfNotExist`, `Uninstall` | `pkg/certmanageroperator/install.go`, `pkg/util/operator/operators.go` |
| `TestIstioCsr`, `TestPluginCaCert`, `Cleanup...` | `istio_csr_test.go`, `plugin_ca_test.go` |
| `Apply_`, `Delete_`, ..., `Reloaded`, `Patch`, `SameGeneration` | what each command needs, does and reads; any may fail (`Fails`), those on several objects half-way |
| `Reloaded` | `CountExpectedString` as it is coded: it succeeds when the count differs (`output.go:68`) |
| `IstioCARootCertCreated` | the wait for istio-csr's log (`istio_csr_test.go:96`), which is there only when cert-manager has issued the mesh's CA |
| `Issue` | external: cert-manager signs a certificate with a CA that is there, `RootCA` or the mesh's own |
| `OLM`, `OperatorActs`, `CertManagerIssues`, `MeshIsInstalled`, `IstiodRestarts`, `IstiodReloads` | external processes: each re-creates what is missing as long as what it works for is there |
| `Skip`, `TooOld`, `SkippedByGroup` | the versions and the test group, in the order the code asks for them |
| `Rerun`, `Timeout`, `GotestsumEnds` | `--rerun-fails`, go test's `-timeout` (a panic: no cleanup), the end of gotestsum |
| `resetCluster`, `RunTestsAgainstVersion`, `TestsEnd`, `Report`, `writeDocumentation` | the functions of the script; `at = "failed"` is `set -e` |
| `inherited`, `looked`, `dirty` | history |

`PassedOnOwnMesh` relates a test that passes to what other tests, failed
cleanups and earlier processes left: the tests re-create the mesh's namespace,
and that is what makes it true.  It also says that the CA of such a mesh was
issued by the root CA, which may be missing where the operator was found and the
rest of `InstallIfNotExist` skipped, and that istiod uses it in the test that
plugs it in.  `CleanupRemovesOperator` is about the order of
the deletions in a cleanup that ends.  `EveryVersionReported`,
`NoMeshOfEarlierVersion` and `ScriptEnds` are the script's; the first holds at
every moment, so also where `set -e` ends the script between two versions.

## 3. Runs

| Run | Expect | Bounds | Shows |
|---|---|---|---|
| `harness` | pass | 5 activations, 1 cleanup per test, 2 attempts of each loop, 1 kubeconfig besides the inherited one | the properties of `Harness` over 1.4 million states |
| `continual_request` | pass | 2 requesters, 2 resources | safety, refinement of `Watch`, and `TestEnds` |
| `tempo_install` | pass | 3 processes, every check may err | the properties of `TempoInstall` |
| `apps` | pass | ten scenarios of the repository's tests, `Budget` of 8 ticks, a second has 4 | the properties of `Apps` over 540,000 states |
| `federation` | pass | eight environments: one kubeconfig or two, ROSA, MetalLB; at most one rerun | the properties of `Federation` |
| `run_tests` | pass | both tests or one, group full or persistent, three versions or one, one rerun per test | the properties of `CertManager` and `RunTests`, with `ScriptEnds`, over 740,000 states |
| `harness_panic` | violation | as small as the case | `recoverPanic` recovers nothing: `recover()` is called one call below the deferred function |
| `harness_apply_retries` | violation | | outside an attempt, `ApplyString` does not retry: the closure fails on the caller's `testing.T` |
| `continual_request_hangs` | violation | | a requester ended by `Fatalf` never sends; the cleanup waits for ever |
| `apps_nginx` | violation | `TestTLSOrigination` alone, 2 ticks a second | the second nginx of `TestTLSOrigination` changes secrets and config map, but not the pods |
| `federation_west_on_east` | violation | as `federation` | after a failing east command, a test passes with its west mesh on the east cluster |
| `plugin_ca_reload` | violation | as `run_tests` | the wait for reloaded certificates ends at once |

Why the bounds are enough.  `Harness`: every property relates an activation to
its caller and to the helper it captured, and a helper can be captured at most
through two levels (a loop within a loop within a test); depth 5 has a subtest,
or a third loop, on top of that; two attempts are a first, which has a helper of
its own, and a last, which has not.  The proofs remove the bounds.
`ContinualRequest`: two requesters interact only through `failed` and the order
of cleanups, two resources are one requested and one not.  `TempoInstall`: the
second process meets what the first left, the third what a process on such a
cluster leaves (`--rerun-fails=2` starts at most two more).  `Apps`: the
scenarios are those in which applications share objects or namespaces, tests
follow each other, or cleanups are registered late; with a quarter of
a second to the tick the rest of the budget takes every kind of value: rounded
up, rounded down, to zero, not at all, or negative; a failing command does nothing, one object, all but one, or all.
`Federation`: the environments are the code's own case distinctions
(`TwoClusters`, `MustSkip`, `metallb`); a rerun meets what one process left.
`RunTests`: `OperatorMinor` 4 makes the three versions 2.2 and 2.3, which the
tests skip, and 2.4, which they do not; 2.3 alone is the `SMCP_VERSION` that is
given; one rerun (the script has two) is a first and a last.  istiod's
deployment changes at most once; between versions other packages' tests leave a
mesh or do not.

Each property of a passing run has a mutant in `PROJECT.json`: an operator of the
module that changes one definition as a slip in the code would, under which TLC
finds the property violated.

Deadlock is checked in all modules but one; their end is a stuttering action of
its own.  It is not checked in `ContinualRequest`: the test
really may block for ever, which is `continual_request_hangs`.

**Fairness** is assumed in `ContinualRequest` and `RunTests`.  In the first, the test function comes to
its end and the cleanups are run (an assumption about the test that calls
`continuallyRequest`, not something the code ensures: commands have no timeout of
their own, and where one hangs only go test's `-timeout` ends the process, cleanups
and all); Go schedules goroutines that can run, so a
requester's own steps and the rendezvous are weakly fair; and a request whose
context is cancelled ends, as `net/http` guarantees.  A request whose context is
*not* cancelled need not end: the client has no timeout (`curl.go:38`).
`TestEnds` then says that the test ends unless a requester was ended by `Fatalf`.
In `RunTests`, the script's own commands return (`oc delete`, `sed`, and
gotestsum once its tests are over), and the pair of gotestsum's rerun and go
test's timeout happens: `-timeout` (`runtests.sh:80`, `89`) ends a process
whatever its tests wait for.  Nothing is assumed of the tests' commands or of
the cluster; `ScriptEnds` holds although every one of them may hang.

## 4. Proofs

All theorems hold for every value of the constants allowed by the module's named
assumption (`HarnessAssumption`: positive bounds and attempts, `NoConfig` is not
a kubeconfig; `ContinualRequestAssumption`: resources and requests are disjoint;
`TempoInstallAssumption`: `MaxRuns` is a natural number;
`CertManagerAssumption`: `MaxReruns` is a natural number, and the environments are records of
the right type that have tests to run; `RunTestsAssumption`: `OperatorMinor` is
one of the releases that support three versions; `FederationAssumption`: the
environments are records of the right type that have tests to run; `AppsAssumption`: the time limit is
positive and a second has at least two ticks;
`TestsAssumption`: no `Uninstall` waits for a rollout or applies more than a
namespace, and a test that has a cleanup names there what it installs;
`ApplicationsAssumption`: the applications of a test are in order and take nothing
from each other.  TLC evaluates both for the scenarios of `MCApps`, and what
they say of a single application is proved for all of `AppPrograms`).

- `Harness_proofs`.  The invariants are not inductive: that a failure is not
  lost depends on which helper it was recorded on.  `IInv` adds `StageInv` (which
  stages tests can be in), `HelperInv` (each activation captured the helper of
  the one below, and a helper that is not a test's belongs to an active attempt
  that recovers), `FailureInv` (a failure not made good is on record with the
  helper that will be asked) and `ConfigInv` (what each `withKubeconfig` saved is
  what its caller wants back).  Lemmas say what pushing, popping, marking and
  retrying do to `HelperAt`; one lemma per conjunct and kind of step gives
  `Invariant`, from which follow `TypesKept`, `VerdictIsSound`,
  `RetryPanicIsCaught`, `KubeconfigIsAsWanted` and, as action properties,
  `UntilSuccessKeepsPromise` and `ApplyPersists`.
- `ContinualRequest_proofs`.  `Registration` is the strengthening: the cleanup of
  an active requester is still to run, and lies above that of what it requests; and
  a context is cancelled only by the cleanup that is its own.
  `NothingRequestedIsDeleted`, `NoneOutlives`, and `ImplementsWatch`, with a lemma
  for each way a cleanup step changes who has been asked.
- `TempoInstall_proofs`.  `FlagInv`, `TempoInv`, `StackInv` and `OperatorInv` say
  what the flags and the cluster are at each step; trouble (a kill, an Uninstall
  that did not end) is where `CleanInv` stops being claimed.
  `AdministratorsTempoSurvives` needs no such exception, because Tempo is looked
  for before anything can fail; the same is not true of OpenTelemetry,
  which is looked for after Tempo's installation may have failed (section 5).
- `Apps_proofs`.  `CleanedUp` strengthens `CleanupLeavesNothing` to every command
  of a cleanup: what the commands before it remove is gone, and only what is left
  by design comes back.  A failing command never counts, because the cleanup
  does not go on after it.  `GivenUp` does the same for `GivesUpOnTime`, with
  `RoundedToNearest`: rounding moves what is left of the limit by half a second at
  most, and since what is left is computed anew for each deployment the halves do
  not add up.  `CleanupsLeaveNothing`, `GivenUpOnTime`, `AppsTypes`.

  That ready applications run is about the end of an installation, so `RInv` says
  it for every command: what the commands so far have installed is there
  (`Installed`), what they have waited for runs (`Waited`), and the outer test's
  applications stay (`ReadyInv`).  The cluster has one object of each key
  (`ClusterInv`), or else "rolled out" would not tell of which manifest.  A workload
  that is new came with one of the commands so far (`FreshInv`), hence the ones to
  come spare what its pods mount; without that a pod of a workload that is
  installed later could have started already.  `Effect` reduces every command,
  working or failing half-way, to putting some of what it lists there (`Puts`) or
  dropping what it disturbs (`Drops`), and `Undisturbed` and `MountedStays` say what
  survives both.  From this `ReadyApplicationsRun` and
  `FreshPodsMountWhatIsThere`, whatever the cluster held when the test began.

  `ApplicationsSuit` proves, for every namespace and variant, that each
  application is `InOrder` and names in its `Uninstall` all it installs but what it
  leaves by design.  Its methods are concatenations: `MakesBoth` and `DeletesBoth`
  put them together from the helpers' commands, which must be `Apart`.  Still assumed
  is how the tests combine applications and what their cleanups list.
- `CertManager_proofs`.  That a cleanup removes for good is not inductive:
  `CleanupInv` adds, for each command of the two cleanups, what is gone before it
  (`CsrGone`, `PluginCaGone`).  `CleanupStep` gives the effect of a step that goes
  on, `CsrStep` and `PluginCaStep` what it takes away; `ClusterAdds` says from
  what the cluster makes each object, from which `ClusterKeeps` follows: nothing
  comes back, because what it is made from is deleted first.  `CleanupRemoves`
  is the theorem for the binary alone.
- `CertManagerTests_proofs`.  That a test which passes had a mesh of its own is
  decided long before it passes.  `OwnInv` states it for every command from the
  new namespace on (`Own`): nothing that a mesh is made from is inherited, a CA of
  the mesh is there only with the root CA, and istiod uses one only with its secret.
  From the wait for it on, the CA is there and, if plugged in, used (`Checked`); no
  command after that takes it away (`Deletions`), and the cluster does not either.
  The tests delete the namespace, and wait, just
  before they create it (`InstalledAt`); what was there went with it, and until the
  SMCP is applied nothing comes to it.  `ObjectsInv` relates what is listed, the
  certificate's rotations and istiod; `TestsInv` says which programs run in which
  phase.  For `TypeOK` it is needed that a secret is never of a rotation that was
  not asked for, and the patch of the plugged-in certificate asks for one more:
  `NewNamespace` is why a Certificate in a new namespace starts afresh, with no
  secret of an earlier one.  `TestTypes` and `PassedTestsHadOwnMesh`.
- `Federation_proofs`.  The programs of the tests are lists of up to fifty
  commands, which the proofs take part by part: `Placed` says where the commands
  are that matter, `Ordinary` what all the others cannot do, for each test and for
  one cluster or two; `Dispatch`, `OnClusters` and `OnInfo` what a command does to
  the clusters and to what the test has read.  On `TypeInv` rest, one after the
  other:
  - `KubeInv`.  `KUBECONFIG` changes only when a command for the east cluster
    fails, and nothing in the process sets it back.  Hence, while it is for the
    west cluster, nothing of the west mesh ran elsewhere.
  - `MetalInv`.  Each part of MetalLB is there once the setup has come by it,
    whether it was applied or skipped, and none is removed
    (`MetalLBIsInstalled`).
  - `AddressInv`.  After `KUBECONFIG` has changed, a test may go on in a new
    attempt with its west commands on the east cluster.  Until the address of the
    west mesh is read all of them ran in one place, and the address tells which; if
    it is "east", `KUBECONFIG` cannot change any more.
  - `EndInv`.  The last comparison of a test is made with counts that were read in
    its own attempt.  They agree with what is expected only if the west mesh of the
    test is where they were read (`WestStaysPut`); the failover test compares
    regions before it installs anything, and these differ only between clusters
    (`FailoverIsAcrossClusters`).
  - `OwnInv` and `GoneInv`.  In a test's namespaces is nothing but what its commands
    and the control planes made there, and what the cleanup's commands have removed
    stays gone, since the control planes make things only where there is an SMCP
    (`CleanupRemoves`).
  - `PeersInv`.  Four facts, each from the one before: the SMCPs and what istiod
    has made for them are this test's (`ControlPlanes`), they run once the test has
    waited for them (`Running`), the addresses and certificates it reads are theirs
    (`AddressesRead`, `CertificatesRead`), and so is what it gives to each peer
    (`Given`).  `PeersKnow` is the end of it.
- `RunTests_proofs`.  `IInv` says that the versions documented and those to come
  are those wanted (`Split`), which of them has a report (`ReportedSoFar`), and
  where the script is when there can be no mesh (`NoMesh`); the mesh is gone with
  its namespace (`ResetRemovesMesh`) and the cluster makes none of its own accord
  (`ClusterMakesNoMesh`).  From it `ScriptTypes`, `AllVersionsReported`
  (`PrefixByElements` takes its prefixes element by element) and `NoOldMesh`; from `CleanupInv` and `TestInv`, which the script's steps keep as
  well, `CleanupRemovesInScript`, `TestTypesInScript` and
  `PassedTestsHadOwnMeshInScript`: a reset takes objects away and other packages'
  tests leave a mesh only between versions, where no test has one of its own
  (`NoTests`).

Only model-checked: `TestEnds` and `ScriptEnds`, liveness under fairness, which
is out of the prover's reach; and the violated claims, which are counterexamples.

## 5. What is not modelled

Listed with reasons under `components` in `PROJECT.json`.  Abstractions inside
the modules:

- Delays, timers and the log buffers of attempts; `Parallel` (no test calls it).
- `ContinualRequest`: a request's error and its report to `t` are one step, so an
  error that was returned just before the cancellation counts as before it.  The
  test's own commands after `continuallyRequest` are its nondeterministic end.
- `Apps`: the retries of one command; two `Uninstall`s leave something by design
  (Redis its namespace, Minio its secret), which `CleanupLeavesNothing` excepts;
  helpers that only send requests.
- `Federation`: the number of attempts; the text of MetalLB's address pool (a
  retried attempt lists addresses twice, `metallb/install.go:133`); which
  namespaces a failing deletion got done, beyond none or all; the mesh's
  behaviour but for who is peered with whom and who serves requests; the status
  "connected" is never taken back.  `WaitFor` of MetalLB runs without the
  kubeconfig of its `OC` (`metallb/install.go:86`): modelled, but the code
  promises nothing about readiness on the second cluster.
- `CertManager`, `RunTests`: what requests answer, helm's repository, member
  rolls; the script's tool checks before anything is changed, its log texts.
  Failing tests do not fail the script (`runtests.sh:81`), by the pipe to `tee`;
  reports say so instead, and no document of the repository claims otherwise.
- `TempoInstall`: the parts of the test between installation and cleanup; the
  `DeleteNamespace` that waits is one step; the
  failure of the storage class check is a failing command like any other.
- Disagreements seen but not kept as runs.  In `TempoInstall`: a stack that a
  killed process left without its route passes for installed
  (`tempo/install.go:75`); a failure before the OpenTelemetry operator is looked
  for makes `Uninstall` remove the administrator's (`tempo/install.go:97`).  The
  model does both.  Elsewhere: a request cancelled while its body is
  read fails the test although its check means to ignore that (`curl.go:66`); a
  test that fails in a cleanup has no must-gather (`test.go:96`); resources
  created after `continuallyRequest` are deleted while its requests go on; what a
  killed process left of an operator is taken for pre-existing
  (`tempo/install.go:59`), as `LeftoverMeansTrouble` allows.
- The feature tests themselves: what they check is the mesh's behaviour.

## 6. Plan

Done: `Harness`, `ContinualRequest` with `Watch`, `TempoInstall`, `Apps`,
`Federation`, `CertManager` with `RunTests`, and the proofs of section 4.  What is
left, in order:

1. An abstract specification of install and uninstall that `TempoInstall` and
   `CertManager` both implement.
2. The migration of tenants beyond the order of its cleanups, once the two
   external controllers can be said to behave in some way this repository relies
   on.
3. Pure functions (`IsWithinPercentage`, heredoc, the address pool) against
   reference definitions.
