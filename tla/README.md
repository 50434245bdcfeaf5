# A TLA+ verification of containerd-shim-spin

This directory holds TLA+ models of the Spin containerd shim, of the installer
that puts it on a node and of the tools that test and release it, the TLC
configurations that check them on small instances, and proofs, checked by TLAPS,
of what holds for every instance.
Paths below are relative to the repository.

- [The system](#the-system)
- [Modules](#modules)
- [What the runs check](#what-the-runs-check)
- [Bounds](#bounds)
- [Fairness](#fairness)
- [What is proved](#what-is-proved)
- [Where code and documentation disagree](#where-code-and-documentation-disagree)
- [What is not modelled](#what-is-not-modelled)
- [Plan](#plan)
- [Running it](#running-it)

## The system

The shim is a program that containerd starts for each container of a runtime
class. It is built on runwasi (`containerd-shim-wasm`), which talks to
containerd, fetches the image, keeps the precompile cache and calls two traits
that this repository implements: `Compiler` and `Sandbox`
(`containerd-shim-spin/src/engine.rs`).

| Part | State it keeps | Operations | What makes it correct |
|---|---|---|---|
| Container run: `run_wasi`, `wasm_exec_async`, `run_trigger` (`engine.rs`, `trigger.rs`) | position in the async function, abort flag, locked app, futures of the triggers | poll, abort, the stages up to `select_all`, return | serves what was asked for or nothing; a signal or the end of a trigger ends it; an exit status that says what happened |
| Application source: `from_ctx`, `to_locked_app` (`source.rs`) | `/spin.json`, `/.cache` on the container's root file system | write each layer, read the app back | what is loaded is the image, whole, after any earlier crash |
| Precompilation: `compile`, `cache_key`, `layers_from_precompile_cache` (`engine.rs`) | the node's precompile cache (kept by runwasi) | compile, look up, enable AOT loading | native code is only taken for native code, and only by the engine that made it |
| Environment: export loop, `initialize_cache`, `handle_archive_layer`, `configure_application_variables_from_environment_variables` (`engine.rs`, `utils.rs`) | the process environment | `set_var`, `var` | settings and application variables arrive as the container gave them |
| Trigger options: `parse_addr`, `trigger::run`, `factors_config` | none, they are read from the environment for each trigger | build a future or fail | the options are the ones the container gave; an error is an error of the start |
| Node installer (`node-installer/script/installer.sh`) | shim binary, containerd's configuration file, marker file, on the node | copy, append, restart | idempotent, ends with a containerd that knows the runtime |
| Conformance harness (`conformance-tests/src/main.rs`) | a port, a `ctr run` process and a container per test | start, wait, request, stop | a bounded wait, no pass after the container's end, no leaked container |
| Integration tests (`tests`) | none, they are clients of a cluster | HTTP requests with retries | none |
| Version script (`scripts/version.sh`) | versions in the manifests, lock files and documents of the tree | replace the version, file by file | one version everywhere after a run |
| Development scripts (`scripts/up.sh` and others) | a kind cluster | build, push, deploy, tear down | a cluster with the images and the shim that were built |
| Samples and deployments (`images`, `deployments`) | none | none | none |

How they interact. The installer makes containerd start the shim. For a
container, runwasi fetches the layers of the image, replaces those that are in
its precompile cache, calls `compile` for the others, and calls `run_wasi` in the
container's process with the list of layers. `run_wasi` exports the container's
environment, installs a signal handler that aborts the future, and awaits it.
The future writes the layers to the root file system (`from_ctx`), reads the app
from there (`to_locked_app`), drops the components that
`SPIN_COMPONENTS_TO_RETAIN` does not list, copies environment variables under
the prefix Spin's provider uses, and runs one future per trigger type until the
first one is done.

Behaviours that are hard to test: a signal between any two steps; one of several
triggers that fails; a crash while a layer is written, followed by a start on
the same root file system; an upgrade of the shim with artifacts of the old one
still in the cache; an installer that is cut short and run again; environment
variables that alias each other. `PROJECT.json` lists each of them as a hazard,
at its line, with the properties that are about it.

## Modules

| Module | What it is |
|---|---|
| `ContainerTask` | abstract specification: what containerd is promised about a container |
| `Engine` | `run_wasi`, `wasm_exec_async`, `run_trigger`, with the executor and the signal handler; implements `ContainerTask` |
| `EngineProofs` | theorems about `Engine` |
| `Provision` | layers, precompile cache, root file system, `from_ctx`, `to_locked_app`, the AOT gate, over restarts and upgrades |
| `ProvisionProofs` | theorems about `Provision` |
| `Shim` | the composition of `Engine` and `Provision`: a container over its life, run after run on one disk |
| `ShimProofs` | theorems about `Shim`, which use those of both halves |
| `Environment` | the process environment up to the last trigger that is built, and the options triggers get |
| `EnvironmentProofs` | theorems about `Environment` |
| `NodeInstaller` | `installer.sh` over crashes, reruns, resets and reboots |
| `NodeInstallerProofs` | theorems about `NodeInstaller` |
| `ConformanceHarness` | the conformance tests, several at once, with `ctr run` and the container of each |
| `ConformanceHarnessProofs` | theorems about `ConformanceHarness` |
| `VersionScript` | `version.sh` over interruptions, failing commands and repeated runs |
| `VersionScriptProofs` | theorems about `VersionScript` |
| `MCEngine`, `MCProvision`, `MCShim`, `MCEnvironment`, `MCNodeInstaller`, `MCConformanceHarness`, `MCVersionScript` | small values for TLC |

Definitions that begin with the comment "mutant:" are not part of a model. Each
is a plausible mistake in the definition that follows it; putting it in the
place of that definition must make a named property fail (`PROJECT.json`,
"mutants").

### Engine and the code

`stage` is the position in `wasm_exec_async` and `run_trigger`, `polling` says
whether the executor is inside a poll of the `Abortable` that wraps it, and
`aborted` is the flag that `abort_handle.abort()` sets. One action stands for
the code between two points at which something else can happen:

| Action | Code |
|---|---|
| `Setup` | export of the environment, in which `set_var` panics on an entry without a name (`nameless`), `abortable`, `ctrlc::set_handler` |
| `Signal` | the handler, on SIGINT, SIGTERM or SIGHUP, in another thread |
| `Poll`, `Pending`, `Suspend` | `Abortable`: flag, inner poll, flag again |
| `InitializeCache`, `FromCtx`, `ToLockedApp` | the first three awaits of `wasm_exec_async` |
| `Resolve` | `retain_components` with its validator, then `get_supported_triggers`, no await in between |
| `InitTelemetry` | `spin_telemetry::init` |
| `Build(t)` | one turn of the loop of `run_trigger`, in the arbitrary order of a `HashSet` |
| `StartSelect`, `StartTrigger`, `PassTrigger`, `SelectFirst`, `EndPass` | `select_all`: futures are polled in list order, the first that is ready wins, an empty list panics |
| `TriggerEnds` | a trigger's future gets its result, at any time while it serves |
| `Return` | `run_wasi` returns and with it every future is dropped |

`stage` keeps its value when `result` is set, so that a property can say where
the run ended. The result of a future is decided by `TriggerEnds` before the
poll that finds it, which also covers a future that is ready in its first poll.

### Provision and the code

A file is what it holds: the bytes of a layer as they are in the image, cut
short, or compiled for an engine. A write is two actions (`BeginWrite`, then
`EndWrite` or `EndWriteWkg`), as `File::create` and the cache's writes truncate
first. `Fault` ends the container between any two actions and keeps the root
file system; `Start` starts it again on it, which is what a restart of the same
container does. `Upgrade` installs another shim, whose engine has another
compatibility hash; `Evict` is containerd's garbage collector. `compile` answers
per layer, `Compile` is the runtime putting the answers in the place of the
layers. When a layer does not compile, the runtime either gives up or goes on
with the layers as they were: `layers_from_precompile_cache` is written for such
a mixture, so both are allowed. An archive layer puts the files it packs into
the data cache; whether files that are there already are replaced is left open.

### Shim and the code

`Engine` takes it for granted that the app it loads is the one the image
describes (`ToLockedApp` there assigns `image`) and has a run end for good.
`Provision` knows nothing of polls, aborts and triggers. `Shim` has the variables
of both, `Disk == INSTANCE Provision` and `Run == INSTANCE Engine`, and each of its
actions is an action of one or of both at once:

| Action of `Shim` | on the disk | in the run |
|---|---|---|
| `Start` | `Start` | the initial state of a process, with the retain list of the container |
| `Prepare`, `Change` | `Fetch`, `Compile`; `Upgrade`, `Evict` | nothing |
| `Kill` | `Fault` | nothing: the process is gone where it was |
| `Signal`, `TriggerEnds` | nothing; they count as faults | the same |
| `Setup`, `InitializeCache`, `InitTelemetry` | nothing, or `Fault` when they fail; the panic of `Setup` on a nameless entry has a cause and is not counted | the same |
| `WriteLayer` | `BeginWrite`, `EndWrite`, `SkipUnknown` | nothing: the run is inside a poll in `from_ctx` |
| `FromCtx` | `EndFromCtx`, `EndWriteWkg`, or `Fault` when a write fails | `FromCtx` |
| `ToLockedApp` | the same | goes on with the app in the file that is read, whatever that is |
| `EnableAot` | the same | nothing |
| `BuildTrigger(t)` | nothing | `Build(t)` if what the trigger runs can be loaded from the cache, an error if not |
| `Poll`, `Suspend`, `Select` | nothing, or `Leave` when the run returns | the same |

`Described` is the app of the image's last config layer, which takes the place of
`Engine`'s `image`. `AtAwait` says where the program can be suspended: config
layers are written by blocking calls, the others by a thread the future waits
for. That thread is not stopped when an abort drops the future; `Leave` therefore
lets the write that is in progress get to its end, or not, before the process is
gone. `Load` of `Provision` has no counterpart: components are loaded trigger by
trigger, in `BuildTrigger`.

### Environment and the code

`env` is the process environment. `Export` is one turn of the loop of
`run_wasi`, `initialize_cache` and `handle_archive_layer` are the functions of
that name as far as they touch the environment, and `ConfigureVariable` is one
turn of the loop over the application variables, in the order of their map.
`BuildTrigger(t)` is one turn of the loop of `run_trigger`, as far as it reads the
environment: the address or its default, which `parse_addr` may refuse; the memory
limit, dropped without an error when it does not parse; and the host name, which
the code reads once before the loop. Whether a value parses as an address or as a
number is one set, `Valid`: the two are never looked at together.

### NodeInstaller and the code

A configuration file is the sequence of the sections about Spin in it. `conf` is
the file the script edits; on k3s and rke2 that is the template, and `generated`
is the `config.toml` the service makes from it. `loaded` is what the running
containerd has read. Each action is one command, or several of which only the
last changes anything. `Fault` is the end of the pod and also a command that
fails, because of `set -e`. `stranded` is a history variable, set when a run ends
where `Strands` says: between the append and `rm active` with the marker of an earlier
run in place (line 92), or between `touch active` (line 118) and the restart, with a
file to go by that mentions Spin and a containerd that has not read the runtime. Every
later run then finds the section and the marker, reports no change and exits with 0;
only a reboot, or a configuration that is written anew, ends it. The initial
states are a fresh node, a node set up by an installer that did not write
options yet (CHANGELOG.md:106), and a k3s node that found a shim by itself.

### ConformanceHarness and the code

`stage[t]` is where the thread of test `t` is, `ctr[t]` its `ctr run` process and
`task[t]` its container, as `Engine` describes it: before the handler is installed
("setup") a signal is lost, afterwards it ends the container. `End` is any way
out of `run_test`, an error, a panic or the last line; in all of them the
`SpinShim`, if there is one, is dropped, and `sigterm[t]` records what became of
its signal. Whether the runner works in parallel is decided in the
`conformance_tests` crate; another test stands for any process that may take a
port of the host. `ctr run`, ports and the trigger's bind are external. `Attach` takes
two steps of `ctr run` in one, the start of its task and the forwarding of signals to
it: that a SIGTERM between the two ends `ctr run` and leaves the container is not shown.

### VersionScript and the code

A version is a triple, `Garbage` what is written when `cargo pkgid` gave no
answer. `get_version` is what the lock file says, and no answer when the base manifest
does not parse. Each action is one command. `missed` records that a command of this run
failed without the script noticing, which it does for all but status 1 of sed.
`Interrupt` ends the script between two commands, and `Begin` starts it again
with any options on what is there.

## What the runs check

`engine` (`MCEngine`, `Engine.cfg`): six apps, every subset of three names (one
of them unknown) as retain list or none, signals and failures everywhere.
- `AllOrNothing`: nothing serves until the futures of all triggers are built.
- `ServesAsked`: what serves is exactly what was asked for.
- `NoDanglingChain`: a serving component chains to retained ones only.
- `PanicHasCause`: the `unreachable!()` arm is not reached. `run_wasi` panics in
  `set_var`, on an entry of the environment without a name and before anything else
  (`engine.rs:84`), or in `select_all`, when no trigger was asked for.
- `RefusesOnlyAsked`: an app is refused only for what was asked for.
- `AbortTerminates`: a signal ends the container.
- `TriggerEndTerminates`: the end of one trigger ends the container.
- `ImplementsTask`: the engine implements `ContainerTask`, with its fairness. The
  mapping shows the futures that were polled as open triggers, the abort flag
  as the stop request, and an error or a panic as a nonzero exit. The exit
  status is earned: zero needs a stop request or a trigger that ended well,
  nonzero needs a trigger that failed or a start that opened nothing.

`provision` (`MCProvision`, `Provision.cfg`): nine images (complete, with two
config layers, with an archive, with a layer that does not compile next to one or
two that do, a package, a package with company, empty, no image at all), two
engines, any precompile cache to begin with.
- `NativeWhenTrusted`: with AOT loading enabled all components are native code
  of the running engine; native code of another engine is never around.
- `LoadsTheImage`: the app comes from the last config layer and it, its
  components and its data layers are whole, after any interrupted starts.
- `ContentMatchesDigest`: no layer's bytes end up under another's digest.
- `RestartHeals`: a container with a complete image comes up when faults end.

`shim` (`MCShim`, `Shim.cfg`): five images (two config layers and a layer of an
unknown type; two components in two files; a component that does not compile
beside one that does; a package; no image at all), with and without a retain
list and an entry of the environment without a name, two shim builds, any precompile cache to begin with, and two signals,
trigger ends, failures or kills anywhere.
- `ServesTheImage`: what serves is the image cut down to what is retained, each
  component whole, from its own file, native exactly when AOT loading is on.
- `RunsAreEngineRuns`: every run, on a disk that earlier runs were interrupted on,
  is a run of `Engine`. What is checked and proved about `Engine` with its
  assumption about the app holds without it.
- `StaysUp`: once the faults are over, a container that can be up with every
  trigger that was asked for is up and stays up. `Servable` says which can: the
  image is complete, the retain list valid, the triggers are supported, and no entry
  of the container's environment lacks a name, which ends every start with a panic.

`environment` (`MCEnvironment`, `Environment.cfg`): all lists of up to three
entries over thirteen, with repetitions, aliases and an empty name.
- `VariablesAsMeant`: each application variable gets the value of its namesake,
  else the one given with the prefix. Excepted (`Plain`) are variables whose namesake
  is set by the shim or by an earlier variable: what two variables that alias each
  other should get is said nowhere, and depends on the order of a map in the code.
- `SettingsSurvive`: the last value given is the one the triggers see; a `TMPDIR`
  of the container is kept.
- `CacheIsFound`: the loader looks for the cache where it was made.
- `OptionsAsGiven`: each trigger gets the address, the memory limit and the host
  name that were given last, or the default; a limit that is no number is none,
  without an error, as in the code.
- `EnvironmentSettles`: nothing writes the environment once a trigger is built,
  whose threads may read it.

`node_installer` (`MCNodeInstaller`, `NodeInstaller.cfg`): five kinds of node,
all values of `SYSTEMD_CGROUP`, with and without D-Bus and a package manager.
- `OneSectionEach`: no section twice.
- `SuccessMeansLoaded`: after a success containerd knows the runtime, on every node
  that is not stranded, and on no node that is. It is an equivalence: `Strands` names
  all the places where a run must not be cut short, and no more.
- `RuntimeHasBinary`: a containerd that knows the runtime has a binary to start, also
  after a reboot in the middle of a run, and a whole one when a run is done. While a
  new version is copied over it, or after a copy that failed, the binary is cut short
  and containerd names it all the same: the code has that window and the property
  allows it.
- `EventuallyInstalled`: when faults end the installer succeeds, with a containerd that
  knows the runtime, unless a fault left the node stranded. It does not get there on a
  stranded node: runs succeed, and containerd is never restarted.

`conformance` (`MCConformanceHarness`, `ConformanceHarness.cfg`): two tests on two
ports, with two requests each.
- `EveryTestEnds`: every test ends, even when its container hangs.
- `FailsAfterExit`: no test passes on what was answered after its `ctr run` exited. An
  answer of another server while it runs is not excluded: that is `StartedIsOwn`, below.
- `StopsWhatItStarted`: a test that is over leaves neither container nor `ctr run`
  behind, unless its signal came before the container's handler.

`version` (`MCVersionScript`, `VersionScript.cfg`): any sequence of runs with any
options over two images and a document.
- `ManifestsAgree`: a run without a failing command leaves one version in all
  manifests and lock files, whatever earlier runs left.
- `DocsInStep`: without interruptions and failures documents keep up as well.
- `LockGoesForward`: the version in the workspace's lock file only grows, also when
  runs are cut short and repeated. It is the one the next bump starts from, as
  `cargo pkgid` answers from the lock file (`get_version`). The base `Cargo.toml` may go
  back: `-m` cut short between its sed (line 90) and `cargo check` (line 92) leaves
  1.0.0 there and 0.0.0 in the lock file, and a following `-p` writes 0.0.1.

Each passing run also checks the type invariant of its module. The five
remaining runs are about the disagreements below.

## Bounds

Bounds in guards are `MaxFaults`, `MaxTries` and `MaxPart`. In `Provision` the first is
2, which allows a crash in the start that repairs an earlier crash; in
`NodeInstaller` 3, shared by crashes and resets of the configuration, so
that a run can be cut short, its successor too, and the file reset in between.
In `Shim` it is 2 and bounds signals, trigger ends and failures as well: a start
that is stopped in the middle of a layer and a repair that is killed in its turn.
Its images have at most four layers and two trigger types, as the product of the
two modules is what is large; each stands for one way in which the disk can differ
from the image: an older config layer, files of several components, native code
beside wasm, a package. What more images show about the disk is `provision`'s, and
what more apps show about the run is `engine`'s, to which `RunsAreEngineRuns`
connects them.
Two components and an unknown name are enough for every way a retain list can be
wrong (unknown name, chain that leaves it, nothing left). Three supported
trigger types give lists of futures in which a trigger has one before and one
after it. `MCEngine` and `MCNodeInstaller` have no other bound: their state
spaces are finite. `MaxTries` is how many attempts fit into the harness's two
minutes: one that fails and one that succeeds already differ, and the limit is
reached. `MaxPart` bounds the numbers of a version at 2, so that every kind of
bump can follow every other; `VersionScript` has two faults, an interrupted run
and one more in the run after it. Environment lists of three entries suffice for
a name given twice around another one.

## Fairness

`Engine`: `WF(Setup)`, `WF(Step)`: code that is running goes on; `WF(Poll)`: the
executor polls a task that was woken, and both an abort and the result of a
future wake it. Nothing makes a stage succeed, a signal come or a trigger end,
and an await may stay pending for ever.

`Provision`: `WF(Container)`: the container runtime starts a container that is
not up again, and a start that is not interrupted goes on. Faults, upgrades and
evictions have no fairness.

`Shim`: `WF(Start \/ Prepare)`: the container runtime starts a container that has
ended and gets it as far as `run_wasi`; `WF(Setup)` and `WF(Poll)` as in `Engine`;
`SF(Advance)`: in poll after poll the program could take its next step, and at some
poll it does. Weak fairness would not be enough, as every suspension disables the
step until the next poll, and an await that never ends, which `Engine` allows, is
excluded here: layers are local files and building a trigger is local work.
Failures that have a cause on the disk are not counted and may come for ever; the
others, like signals and kills, are faults without fairness.

`NodeInstaller`: `WF(Script)`: the installer is run until it succeeds, as a pod
that failed is, and a run that is not cut short goes on. A run after a success
is not assumed.

`ConformanceHarness`: per test, `WF(Harness)`: its thread goes on (a request ends,
if only by the client's time limit); `WF(Ctr)`: `ctr run` attaches or exits, and
exits when its container has; `WF(TaskAborts)`: a container that has handled the
signal ends, which is `AbortTerminates` of `Engine`. A container is not assumed to
start, to listen or to exit.

`Environment` and `VersionScript` are sequential and have no liveness property.

## What is proved

`EngineProofs` proves, for all sets of names, trigger types and apps and for all
retain lists, from `EngineAssumption` alone (which says what sets the constants
range over):

- the type invariant `TypeOK` and the invariants `AllOrNothing`, `ServesAsked`,
  `NoDanglingChain` and `PanicHasCause`;
- the action property `RefusesOnlyAsked`;
- `EngineImplementsTask`: initial states of the engine are initial states of
  `ContainerTask` and every step is a step of it or leaves what it shows alone.

None of the invariants is inductive: that the built futures are the ones asked
for depends on what was still to be built, and that on what the resolve stage
accepted. The inductive invariant `IInv` therefore adds two parts. `Progress`
says stage by stage what the app and the lists hold: before the resolve stage
nothing is built; from then on the built types and those left to build are
together the types asked for, all of them supported, and the retain list was
accepted. `Serving` says that triggers are open in the last stage only, that it
begins when nothing is left to build, that nothing is open after the return, and
that a trigger with a result is open or the run has returned, which the
refinement needs to see that a trigger is not opened again. The proof has one
lemma per kind of step: `ReturnIInv` for every way to return, `QuietIInv` for
those that only move on, and one each for `Resolve`, `Build`, `StartSelect` and
the triggers; `NextIInv` puts them together.

`ProvisionProofs` proves, for all images, stores and shim builds and for any number
of crashes, upgrades and evictions, the type invariant and the invariants
`ContentMatchesDigest`, `NativeWhenTrusted` and `LoadsTheImage`.
`ProvisionAssumption` says what the constants range over and three things more: a
plain root file system comes without layers; the form of a file tells native code
from wasm and from what is cut short; and no file is not a file. `LoadsTheImage` is
proved for images that satisfy `FilesApart`: a file that is a layer of its own is
not in an archive layer too. `Provision` leaves open whether unpacking replaces
files that are there, and an unpacking that was cut short may have left a part of
such a file; Spin's client packs all files of an image into archives or none.
What is loaded was written by an earlier step under conditions that the disk
does not show, so the inductive invariant follows a layer on its way. `StoreKeys`:
an artifact's key is the engine that made it. `Passed`: the layers are the image's,
in order, each as in the image or native code of this engine, and layers of one
digest are both one or both the other, so that it does not matter which is written
last. `Origin`: whichever start wrote it, a file is one of this image, so that this
start writes it again before it reads it. `Writing` and `Written`: the layers before
the current one are whole, but for those that share the file being written, and
after `from_ctx` all are. `Gated`: what the app needs is there, and the gate is open
for precompiled layers only. `NeededIsWhole` draws the conclusion: a component to
load is in a file that holds one of the layers.

`EnvironmentProofs` proves, for every list of container variables, every list of
application variables and any set of trigger types, the type invariant, the
invariants `VariablesAsMeant`, `SettingsSurvive`, `CacheIsFound` and
`OptionsAsGiven`, and the action property `EnvironmentSettles`.
`EnvironmentAssumption` says what the constants range over and two things more:
no name under Spin's prefix is one of the names the shim sets or reads options
from, which is so because none of those begins with `SPIN_VARIABLE_`; and two
application variables have two prefixed names, which is so because they are keys
of one map and Spin's manifest has them in lower case only.
What triggers see says nothing about how the table came to be, so none of the
properties is inductive. `Progress` of the invariant says at each stage which
names still have the container's last value: while variables are exported, every
name has its last entry so far (`LastUpToNext`: one more entry takes the place of
the earlier ones of its name); then all but the two names the shim sets; then all
but those and the prefixed names of the variables done so far, which have the
value meant (`MeantUpTo`). `Settings` follows the cache directory, a `TMPDIR` of
the container and the option names through the later stages, which needs that
prefixed names are apart from them (`PrefixedApart`); `BuiltLast` says that nothing
is built before the environment is complete.

`NodeInstallerProofs` proves, for all kinds of node and for any number of crashes,
resets and reboots, from `InstallerAssumption`, the type invariant and the
invariants `OneSectionEach`, `SuccessMeansLoaded` and `RuntimeHasBinary`. What
containerd has read depends on the file it read, that on the marker that made an
earlier run skip a step, and the file on k3s and rke2 is made from a second one.
The inductive invariant ties them together. `Founded`: options never stand alone in
a file, and a section of k3s's own making is on k3s only, so that the append of the
runtime is skipped only where there is something to migrate. `BinaryFirst`: no
file, and no containerd, names a binary that is not there. `Written`: what the
file holds at the commands after the append. `Linked`: a `config.toml` that mentions
Spin is as containerd has read it, and the template has a section of k3s's own making
only while `config.toml` has it. `MarkerMeansLoaded`: on a node that is not stranded the
marker stands for a file that has the runtime and for a containerd that has read it
(`Trusted`), except at the commands between a change and what makes up for it, which
are those `Strands` names; it is said of the file this run edits and of the one the next
run will look at (`NextConf`), which differ on k3s and rke2. `StrandedIsNotLoaded` is
the other direction of the equivalence. The proof has one lemma per
command or fault.

`ShimProofs` proves, for all images, apps, retain lists and shim builds and for any
number of runs on one root file system, of signals, kills, failures, upgrades and
evictions:

- the type invariant, which includes that the stage of a run and the work on the
  disk are in step, and the invariant `ServesTheImage`;
- `RunsAreEngineRuns`: the initial states are `Engine`'s, and every step is a step of
  `Engine`, the beginning of a new run of it, or changes nothing of it;
- from this, that every run keeps what was proved of one: `EveryRunServesWhatWasAsked`
  (the four invariants of `Engine`) and
  `EveryRunIsATask` (each step is a step of `ContainerTask`, a new task or a stutter);
- `FilesStayWhole`: the invariants of `Provision` in a container whose writes happen
  inside polls and may be left in the middle by an abort.

The proof does not repeat those of the halves. `OnDisk == INSTANCE ProvisionProofs`
and `InRun == INSTANCE EngineProofs`, with the substitutions of `Disk` and `Run`, bring
in their invariants and lemmas; `DiskAssumption` and `RunAssumption` show that what
they assume follows from `ShimAssumption`, and `SameDisk` and `SameRun` that both pairs
of instances say the same. Half of the invariant is `OnDisk!IInv /\ InRun!IInv`. A step
of `Shim` is not always one of `Provision`: `Leave` lets a write come to its end after
its run is over, and signals count as faults, so `EveryStepOnDisk` goes through the
lemmas of `ProvisionProofs` and adds `LeaveStep` and `CountStep`. The other half joins the
two. `InStep` says which stage goes with which work on the disk. `Packages`: a package
is the last layer that is ever written, and the app is read from it only when it is
alone, so that the layer `to_locked_app` reads is the one `Described` names. With what
the disk's half says of `/spin.json` this gives `ReadsTheImage`: the app that is read
is the image's, which is the step `Engine` takes for granted. `Resolved`: from the
resolve stage on the app is the one asked for. `Loaded`: what the triggers built so
far run was loaded. `ServesTheImage` then follows where a trigger opens (`SelectServes`):
all that was asked for is built and loaded by then, and what could be loaded is whole
(`LoadedIsWhole`). It is kept as nothing is written while triggers serve.

`ShimAssumption` says what the constants range over, what `ProvisionAssumption` and
`EngineAssumption` say, and two things about apps. A trigger of a locked app names one
of the app's components: an image is pushed by Spin's client, which locks the app first,
and a file with another app in it is not an image of an app. And the components of an
app made from a package run the package's file: `to_locked_app` calls
`from_wasm_file` with the path of that one file (`source.rs:141`).

`ConformanceHarnessProofs` proves, for any number of tests in parallel and any bound on
requests and attempts, the type invariant, the action property `FailsAfterExit`, and
`EndsSignalled`, the part of `StopsWhatItStarted` that is safety: a test is over only
when nothing it started is left or SIGTERM was sent for it, and a container that took
the signal had its handler by then. That it ends then is liveness. A count of the
invocations left is never negative because of `Unfinished`; `Unstarted` and `Attached`
say how a test's stage, its `ctr run` and its container go together, which the drop
looks at one by one.

`VersionScriptProofs` proves, for any manifests and documents, any bound on versions and
any number of interruptions and failing commands, the type invariant, `ManifestsAgree`,
`DocsInStep` and `LockGoesForward`. `VersionAssumption` says that versions can be
bumped at all and that garbage is not a version. `Written` says which files have the
new version at each command of a run that missed nothing, for the files the loops have
visited, whatever the others hold; `Bumped` that the lock file always has a version and
such a run one that is not earlier, which is where `NewVersion` about the arithmetic of
awk (`version.sh:23-27`) is used; `Documents` follows the documents as long as nothing failed:
they name the version from before the base changed until the loop has visited them.

In all modules the inductive invariant was first checked by TLC on the instance of the
module's run.

Model checked only are the liveness properties (`AbortTerminates`, `TriggerEndTerminates`,
`RestartHeals`, `StaysUp`, `EventuallyInstalled`, `EveryTestEnds` and `StopsWhatItStarted`)
and the fairness part of `ImplementsTask`, as the prover has no rules for `ENABLED`. The
properties that the code violates have counterexamples, found by TLC. Every invariant and
action property that a passing run checks is proved.

## Where code and documentation disagree

- `EmptyRetainKeepsAll` (run `engine_empty_retain`).
  `containerd-shim-spin/src/constants.rs:24` says that all components are
  supported if the list is empty; the code retains nothing then, and
  `select_all` panics.
- `OnlyContainerVariables` (run `environment_tmpdir`).
  `containerd-shim-spin/src/utils.rs:66-68` says that a container environment
  variable is duplicated; `XDG_CACHE_HOME` and `TMPDIR` as the shim sets them are
  duplicated as well.
- `ReportsNoChangeTruly` (run `node_installer_no_change`).
  `node-installer/script/installer.sh:144` reports no change although options
  were appended, and containerd is not restarted. On a stranded node it reports the same.
- `StartedIsOwn` (run `conformance_started`). `conformance-tests/src/main.rs:201` says
  that the shim was started on the port as soon as anybody listens there.
- `SameUpdatesAll` (run `version_same`). `scripts/version.sh:68` says that `-s`
  updates all files; a document that names neither the base version nor the new one
  is never found again. `containerd-shim-spin/quickstart.md:17` names 0.25.1, the
  base version is 0.27.2.

## What is not modelled

- A signal before `set_handler`: process 1 ignores it, so nothing happens.
- Data races on the C library's environment with threads of the async runtime that
  are there before the first trigger. `EnvironmentSettles` covers those of the triggers.
- The parsing of apps and manifests, TOML and JSON, reduced to whether it works.
- A precompiled artifact that wasmtime does not recognise: the content store
  returns by digest what was stored.
- The content of files unpacked from an archive by an unpacking that was cut
  short: it is decided in `spin_oci`.
- What Spin does in a trigger, and runwasi and containerd beyond the calls the
  shim answers.
- `main.rs` and `factors_config`: constant values, and whether a file exists.
- The samples. `images/spin-outbound-redis` has a race of its own (lib.rs:20-27): it
  sets a key to zero, increments it and asserts one, which two requests at once
  break; its state is in Redis and the shim has no part in it.
- The reuse of process ids, on which the drop of a `SpinShim` whose child was
  reaped depends.
- The integration tests: requests that change nothing, repeated until one succeeds.
- The scripts other than `version.sh` and `installer.sh`: sequences of docker, kind, helm
  and kubectl calls. A slip in one of them is listed as a hazard: up.sh:98 compares
  an index with a name, so that no image is pushed with archive layers.
- The composition of `Environment` with `Shim`: no step of a run reads what another
  run wrote to its environment, as each run is a process of its own, and within a
  run the writes come in one fixed order.

## Plan

Done: `ContainerTask` and `Engine`, the core, with its proofs; then `Provision`,
`Environment`, `NodeInstaller`, `ConformanceHarness` and `VersionScript`; then `Shim`,
the composition, and the trigger options in `Environment`; then the proofs about all of
them.

1. An abstract installer (a node is configured, or not, and reports truthfully)
   that `NodeInstaller` implements when no run is cut short.
2. `up.sh` and `down.sh`, cut short and repeated.

## Running it

    tlc -config Engine.cfg MCEngine
    tlc -config Provision.cfg MCProvision
    tlc -config Shim.cfg MCShim
    tlapm EngineProofs.tla
    tlapm ProvisionProofs.tla
    tlapm EnvironmentProofs.tla
    tlapm NodeInstallerProofs.tla
    tlapm ShimProofs.tla
    tlapm ConformanceHarnessProofs.tla
    tlapm VersionScriptProofs.tla

The run `shim` takes about a minute and a half, every other one less than a minute. `PROJECT.json` lists the runs with their modules and
configurations, the lines of code each definition models, and the mutants.
