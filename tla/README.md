# Docksmith in TLA+

Docksmith looks at a project directory, recognises its framework, builds an
abstract plan of container build stages from it and prints the plan as a
Dockerfile. It is a Go library (`docksmith.go`) and a command
(`cmd/docksmith`). Most of it is sequential string work; what is hard about it
is in nine places, and these are what the modules here are about:

* one slice of detectors that all goroutines of a process share and that user
  code may change from inside a detection (`detect/detect.go`);
* an order of detectors that nobody wrote down: it follows from the file names
  of a Go package and from a function that prepends;
* two directories in the user's home that all docksmith processes share
  without a lock, `~/.docksmith/cache` and `~/.docksmith/frameworks`;
* directories of YAML definitions that change while they are read;
* the files of a project, which its commands read twice and write through one
  temporary name;
* two dozen overrides that edit one plan in place, one after the other, before
  it is written;
* definitions in YAML that two builders interpret;
* a deploy wizard that guesses from a list of paths what the detectors will
  later find in the clone;
* deployment plans that pass one validation, are converted and pass another.

All paths below are relative to `src/`.

## 1. Inventory

### How the parts interact

    main.go -> detect --------------> plan ----------> emit -> Dockerfile
                 |  ^                  |
      config.go <+  | registers        +-- overrides: docksmith.toml, options
                 |  |
                 |  +-- yaml.go/yamldef <-- .docksmith/frameworks,
                 |                          ~/.docksmith/frameworks
                 +-- AutoFetch callback --> registry -> ~/.docksmith/cache
                                              |
                                              +-------> ~/.docksmith/frameworks

    list of paths -> remotedetect -> services of a repository (deploy wizard)
    blueprint (catalog, plan) -> swarm -> stack -> YAML

Everything is called directly and synchronously. Package `detect` calls back
into its clients twice: a registered `DetectorFunc` and the `AutoFetch`
callback both run inside `DetectWithOptions`. Processes interact only through
the file system.

### Components

| component | source | state | operations | what is hard | what must be true |
|---|---|---|---|---|---|
| detector registry | `detect/detect.go` | `detectors`, `detectorsMu` | `RegisterDetector`, `RegisterDetectorBefore`, `DetectWithOptions` | goroutines interleave; a detector registers detectors | no race, no lost registration, priorities kept, calls return, every answer is that of one registry |
| built-in detectors | `detect/{node,bun,deno,...}.go` | the registry as `init` leaves it | 11 `init` functions, 45 detectors | order across files | specific before generic, no dead detector, every answer can be planned |
| index cache | `registry/registry_cache.go` | one file per registry URL | `FetchIndex` (hit, miss, expiry, fallback, atomic write) | processes interleave between `Stat`, `ReadFile`, `Remove` and `Rename`; crashes; an unreachable registry | never torn, never another registry's, stale only as a fallback, a cached index always serves |
| framework installation | `registry/registry.go`, `autofetch.go`, `cmd/docksmith/registry*.go` | `~/.docksmith/frameworks` | `InstallFramework` and three callers | two processes install the same thing; stale checksums; partial directories | only verified files in place, failures are soft, what was installed is detected |
| YAML loader | `yaml.go`, `yamldef/loader.go` | the registry, directories | `LoadAndRegisterFrameworks` | files vanish or break while read | good files registered, bad ones reported, definitions before built-ins |
| plan dispatch and overrides | `plan/dispatch.go`, `plan/hardening.go`, `plan/secrets.go`, `plan/context_root.go` | the `BuildPlan` under construction | 23 overrides and post-passes | each works on what the earlier ones left | root steps before `USER`, copies find their files, tools fit the image, the user's command is the one started |
| runtime planners | `plan/{node,python,go,...}.go` | none | one plan per framework | - | copies between stages match |
| YAML definitions | `yamldef/` | none | `EvalDetectRules`, `ResolveVersion`, `ResolvePM`, two builders, test runner | two builders of one text; variables replaced in the order of a Go map | the builders agree, nothing stays unexpanded, a tested definition answers |
| configuration | `config/config.go` | none | load one of several file names, validate, translate | which file wins; a broken first candidate | a config that is there decides or is an error; the rest is planned |
| emitter | `emit/` | none | plan to instructions | exec or shell form; what cannot be written is left out | what the user sets is in the file, no shell is asked for where there is none |
| project files | `cmd/docksmith/{init,eject,build,plan,dockerfile}.go` | config, Dockerfile, `.dockerignore` and their `.tmp` | `init`, `eject`, `eject --force`, and what the others read | a shared temporary name; a check before the write; two files, one failure; two reads of the config | what the user had is not replaced unasked, no file is torn by a crash, a lost race harms nobody |
| library facade | `docksmith.go` | none | `GenerateDockerfile`, `BuildWithOptions`, `BuildWithManifest` | the order of secrets, emission and hint | as the emitter |
| remote detection | `remotedetect/` | none | `Detect`, `DetectForRoot` | paths in any order; detection repeated inside a directory; nested directories | the two agree, the order does not matter, a Dockerfile hides no application, the wizard sees what the detectors see |
| swarm, blueprints | `swarm/`, `blueprint/` | the catalog | `Register`, `Profile`, `Validate`, `StackFromBlueprint`, `RenderStack` | two validations, two sources of components, names that overwrite each other, maps | a stack refers only to what it declares, secrets are granted and never literal, the YAML does not depend on order, profiles deploy |
| registry HTTP client | `registry/registry_client.go` | a lazily built transport | one GET | - | its outcomes are inputs of the two modules above |
| project readers | `detect/node_helpers.go`, `python.go`, `private_registry.go` | none | versions, package managers, credentials | - | - |
| policy, templates, digests, SBOM, tracing, CLI | several | none | stateless | - | not modelled |

The hazards of these parts, each at the line where it bites and with the
properties that would catch it, are listed under `hazards` in `PROJECT.json`.

## 2. Modules

| module | stands for |
|---|---|
| `RegistryOps` | the ordered list of detectors: prepend, insert before, first match |
| `AtomicRegistry` | what the registry promises: registrations and detections at one instant each |
| `DetectorRegistry` | the slice, its `RWMutex` and the goroutines using it |
| `BuiltinDetectors` | package init and all 45 detectors, as predicates on projects |
| `IndexCache` | `FetchIndex` and the cache directory |
| `FrameworkInstall` | installation, its callers and the second detection |
| `RemoteDetect` | detection over listed paths, next to `BuiltinDetectors` on the clone |
| `FrameworkLoader` | `LoadAndRegisterFrameworks` |
| `YamlDefs` | the meaning of a definition: rules, sources, variables, two builders (pure) |
| `YamlFrameworks` | loader, registry and definitions together: detect, then plan |
| `BuildPlans` | one plan of steps for every kind of framework |
| `Emission` | the instructions written for a plan (pure) |
| `ProjectCommands` | the commands of a project and the files they read and write |
| `PlanOverrides` | `Plan` with its overrides, the context root, registry secrets and the Dockerfile |
| `Blueprints` | deployment plans, their validation and the catalog (pure) |
| `Listing` | parts of a slice and sorted slices, by positions (pure) |
| `SwarmStack` | from a plan or profile to a stack and its YAML |
| `MC...` | the instances TLC checks |
| `..._proofs` | theorems about the module they are named after, see 4 |

`RemoteDetect` extends `BuiltinDetectors`, `YamlFrameworks` extends
`FrameworkLoader` and `YamlDefs`, `PlanOverrides` extends `Emission`, which
extends `BuildPlans`, and `SwarmStack` extends `Blueprints` and `Listing`.
`BuiltinDetectors` and `FrameworkLoader` build on `RegistryOps`, as
`AtomicRegistry` and `DetectorRegistry` do: the refinement between the last two
is what allows the first two to treat a registration and a detection as one
step.

### DetectorRegistry

A process of the model is a goroutine, `pc` its place in the code. `mu` is the
`sync.RWMutex` with the two facts of it that matter: a `Lock` that is waiting
keeps new readers out, and `Unlock` admits the readers that are parked.
`Build` reads the slice and `Store` assigns it, because that is how
`RegisterDetector` (a new slice, then an assignment) is written; a race would be
a `Store` beside another `Build`, `Store` or `Copy`. `Copy` makes the private
copy of `DetectWithOptions`, and `Scan` is one iteration over it. `CallRegister`
in the middle of a scan is a `DetectorFunc` that registers a detector. The
config and Dockerfile checks come before, the `AutoFetch` callback and the
static fallback after, as in the code, with its four ways of ending.

A directory is what detection finds there (`config`, `dockerfile`, the
detectors that hit, `servable`); the detectors themselves are in
`BuiltinDetectors`. Each request is made once, so that `NothingLost` can say
"each once". The half of `PriorityHonoured` on the detectors ahead of an anchor
asks for an anchor whose name no client has registered too (`unique`):
`RegisterDetectorBefore` stops at the first detector of that name, and one
that was prepended comes before every built-in. The property was found
without the clause to be false for more requests than the instance then had;
the instance now has a client's detector called `node`.

### BuiltinDetectors

Each `init` function is the list of its registrations; `InitCalls` puts them in
the order in which the Go tool presents the files of a package, by name. Each
detector is a predicate on a set of facts about files. Version sniffing,
package managers and ports are left out: they do not decide who answers.

### IndexCache

The file system actions are those of the code, one each: `Stat`, `ReadFile`,
then `DropCorrupt` (which includes the `os.Remove`) or `UseCached`, `Download`,
`CreateTemp`, `WriteTemp`, `Rename`. `Unreachable` stands for every failed
request and goes back to `loadCachedIndex` with `fallback` set, which ignores
the age as the code does. `WriteFails` is any failing step of `writeAtomic`,
with its cleanup; the error of the cache write is dropped in the code, hence
`Fetched` all the same. `Crash` kills a process anywhere, for good: its temporary
file stays in the directory, where nobody reads or removes it. The `os.Remove` of
an error path is taken to succeed. A body that is no JSON (`Unparsable`) is an
error even if the index is cached, which `CachedIndexServes` leaves out: it speaks
of registries that do not answer. `Damage` is the
environment: it makes `faults` positive, and the properties that assume a disk
that keeps what it is given say so. `had`, `placed` and `age` are history.

### FrameworkInstall

`kind` is the caller. `FindEntry` may pick an entry with an old checksum, since
the index may be a cached one. `CheckInstalled` and `Rename` are separate
actions. A loader (`List`, `Read`) reads the whole directory, also what other
processes put there: `left` and `loaded` are sets of names, and `Position`, a
constant, is the order in which `ReadDir` lists them (`FirstListed`,
`LastListed`). `Redetect` is the CLI, which registers the definitions
(last file first in the end) and detects again; `Evaluate` is the callback,
which evaluates them first file first and gives up on any error. `Edit` is the
user's editor, bounded by `MaxEdits`.

`InstallFramework` compares a checksum and does not parse, so a published file
that no loader accepts (`Refused`, a constant) is put in place like any other.
From then on `Read` fails on it (`Loads`): the CLI warns and goes on, the callback
ends with an error, in that call and in every later one that gets as far as
loading the directory. `spoilt` remembers the names such a file has been installed
under, and the properties say what still holds with and without one.

### FrameworkLoader

`SkipMissing` is the `os.Stat` of a directory, `List` its `ReadDir`, `GoodFile`
and `BadFile` one `ReadFile` with the parse and the check for a name,
`Register` one `RegisterDetector`. The files still to be read are a set, taken in
the order of `Position`. `Edit` changes, breaks or removes a
directory at any moment; `steady` remembers what was left alone, the files a
property can speak of.

### YamlDefs and YamlFrameworks

A project is a set of facts about its files, a rule, a source and a step are
records of the YAML fields that are set, and a text is a sequence of words. Both
`EvalRule` and the two step builders are lists of the fields they look for, in
the order of the code: the first that is there decides. `Sub` replaces the
variables in an order that is a parameter, because the code ranges over a map.
In `YamlFrameworks` the directories are loaded, a project is detected by the
registry that results, and the definition that answers is planned in the three
ways there are: by `Plan`, which knows names only, and by either builder.

### RemoteDetect

A path is the sequence of its components. `List` gives the paths in every order;
`Detect` and `DetectForRoot` are functions of that list. Strings have no order in
TLC, so the two sorts of the code are constants of the instance, with a pair of
directories (`api`, `api-v2`) on which they differ. A command is represented by
what it installs from and by the settings package it names. The clone is a
project of `BuiltinDetectors`, whose files the wizard is shown as paths.

### Blueprints and SwarmStack

Validation is a conjunction of what the code checks, component by component. A
variable's value is a literal or the path of a secret; its name is a sequence of
words, since `_FILE` is appended to it and sensitive words are looked for in it. A
port is a number, as it is sorted. `Faults` is the set of complaints `Validate` of
`render.go` has about a stack, by kind, so that a property can say which it
never has about a plan that was accepted. What the code leaves out of a slice,
or sorts, is given by the positions kept (`Listing`), which a proof can look into
as it cannot into `SelectSeq` and `SortSeq`; `IsPlan` is what Go's types say of a
plan. A plan comes from `Author`, with or
without resolved components, or from a profile of the catalog (`FromProfile`),
to which anybody may add.

### ProjectCommands

A process runs one command at a time. `ReadConfig` is one `ReadFile` of
`LoadWithNames`, `Look` the Dockerfile check and the detectors, `ReadOptions`
the second reading of the config by `dockerfile` and `plan` (one kind here:
they read the same). `Lstat`, `Open`, `Write`, `Rename` and `Remove` are the
calls of `writeProjectFile`; `eject` passes through them twice. All processes
share `tmp`, and an open file follows its inode: `at` says whether that is still
the temporary file, has been renamed to its destination by another process, or
has been replaced or removed. A process that has such a file open goes on
writing to it, which is how a destination can become "half" or "mixed".
Two names stand for the five of `DefaultFileNames`. The texts are by origin: all
that matters of a config is whether it is valid, names a Dockerfile, or
overrides something. `since`, `wrote`, `shared`, `replaced` and `log` are history.

### BuildPlans and PlanOverrides

A step is its instruction and the role of its argument ("install",
"go-build", "create-user"), with the distribution whose tools it calls, its cache and
secret mounts and its flag. An image is its family, which is all the code asks
of an image name (`strings.Contains(from, "alpine")`, `isDistrolessImage`). The
planners are constants, one per kind of framework that has steps of its own.
Every override is an action on the stages as the earlier ones left them, and
the actions run in the order of `applyPlanOverrides` (`Order`). `Plan` fails for
an image family the framework does not have, and `NoPackageManager` for runtime
packages on a distroless image, the two errors of the code. `Dockerfile` writes
the instructions (`Emission`), behind the hint about secrets if there is one; an
instruction keeps the role of its step, its stage and the form Docker runs it in,
exec or shell. User
commands are assumed to contain no `go build`, and an install command to look
like one to `secrets.go`.

## 3. Runs

"pass" runs find no error. A "violation" run checks one statement that a
document, a comment or a test of the repository makes and the code does not
keep. Where a run refutes several statements, it checks that *at least one* of them
holds (`Some...Holds`): the state TLC prints, or for `documented_overrides` the
states of the trace, refute every one of them.

| run | shows |
|---|---|
| `registry` (`DetectorRegistry.cfg`) | With two goroutines, one prepending and one inserting registration and a detector that registers: no data race (`RaceFree`), nothing lost (`NothingLost`), priorities kept (`PriorityHonoured`, `RankingKept`), calls return (`EveryCallReturns`), and the whole implements `AtomicRegistry` (`ImplementsAtomic`). |
| `builtins` (`MCDetection`) | On every project of up to three traits: specific before generic in six families, generic build tools yield, and a lockfile does not change the runtime (`MostSpecificAnswers`); nobody is shadowed for good (`NoDeadDetector`). On every tree, in every order: picking a directory changes nothing (`ScopedDetectionAgrees`), nor does the order (`ListingOrderIrrelevant`), a Dockerfile hides nothing (`DockerfileHidesNothing`). Between the two: `RemoteSeesLanguages`. |
| `documented_order` | *violation*: fourteen statements on the order of detectors, on who answers and on what definitions do, see below. |
| `index_cache` | Two processes, two registries, online and offline: `CacheNeverTorn` (of what is under a cache name; temporary files are left by kills), `AnswerIsFromItsUrl`, `StaleOnlyAsFallback`, `CachedIndexServes`. |
| `only_corrupt_deleted` | *violation*: a good cache file is deleted. |
| `framework_install` | `OnlyVerifiedInPlace`, `AutoFetchFailsSoft`, `InstalledIsDetected`, with stale checksums, altered downloads, a published file that does not parse, crashes and a user. |
| `framework_loader` | While the directories change: good files are registered and bad ones reported (`EveryFileAccountedFor`). Then, with what was loaded: definitions answer before the built-ins and as their tests say (`DefinitionsAnswerFirst`), the builders agree on a well-formed definition (`BuildersAgree`) and expand it completely in any order (`ExpansionIsComplete`). |
| `project_commands` | Two commands side by side, an edit, a crash or a failing write: `ExistingKept`, `WholeFiles`, `ConfigDecides`. |
| `documented_commands` | *violation*: five statements on `init`, `eject --force`, `detect` and `build`, by one user who edits the files meanwhile. |
| `plan_overrides` | Every combination of up to three overrides on every kind of framework, and the Dockerfile of each: `RootStepsBeforeUser`, `AddedStepsFitImage`, `StartsWhatTheUserSays`, `CopiedPathsExist`, `SettingsReachDockerfile`. |
| `documented_overrides` | *violation*: ten statements on overrides, defaults and the Dockerfile, see below. |
| `swarm_stack` | Some thousand plans and every catalog of up to four blueprints: `ConversionIsSound`, `SecretFilesGranted`, `NoLiteralSecret`, `OrderIndependent`, `ProfilesDeploy`. |

Every property also has mutants (`Mut...` operators beside the definitions they
change): forms of the code with a plausible bug, which TLC must find to violate
it. They show that the property depends on the code.

### What the violations say

* `documented_order`: Node detectors precede those of Bun and Deno, because
  `node.go` is initialised later and prepends; Django is asked after FastAPI and
  Flask; plain Bun hides Hono and Elysia; `gradle` and `maven` precede the JVM
  frameworks, and a project with two build files ends as the wrong one;
  `dotnet-worker` precedes `aspnet-core`, so the `Program.cs` branch never
  decides; `solidjs` is a framework no planner knows. Of definitions: the last
  directory wins, `priority` is never read, `Plan` refuses every one whose name
  is not a built-in one, a rule with several kinds is not evaluated
  in the order given, `{{version}}` in a `base` is not expanded, a variable that
  a default mentions is expanded or not depending on the order of a Go map, and
  a stage with both `base` and `from` has another image in each builder.
* `only_corrupt_deleted`: process A reads a damaged file, process B downloads
  and renames a good one into place, A removes it. The next call downloads
  again.
* `documented_commands`: a definition in `~/.docksmith/frameworks` has no effect
  on a detection, since definitions are loaded only after an installation; what
  `init` writes is all comments, and an empty config is an error to every
  command; `eject --force` never reaches an existing Dockerfile, because
  detection answers "dockerfile" first, while `init` replaces a `docksmith.toml`
  the user saves between its `Lstat` and its `Rename` (and so does `eject`
  with the files it writes); `build` and `eject` ignore the plan
  options of the config that `plan` and `dockerfile` use.
* `documented_overrides`: `replaceLastRun` finds tini or the build; a build
  command overwrites the install command in a plan of two stages; a start command
  becomes the arguments of the ENTRYPOINT of .NET; WordPress has none of the
  defaults; `applyBinaries` looks at stage names, not at the framework, and drops
  the secrets of the builds it replaces; `rewriteCopyArgs` makes a path of
  `--chmod=755`; a disabled health check leaves no `HEALTHCHECK NONE`;
  distroless Python runs `apt-get` in the runtime image; the hint about secrets
  displaces the syntax directive.

### Bounds, and why they are enough

* `DetectorRegistry`: two goroutines are what a race, a lost update or a
  callback waiting for its caller needs; three built-ins give an anchor with
  a detector on either side; one request prepends, one inserts. The directories
  are one that changes its answer when a request takes effect and one for each
  early return.
* `BuiltinDetectors`: three traits, because the exclusions in the code are
  between pairs of frameworks and some detectors need two files of their own.
* `IndexCache`: two processes and two URLs; `TTL = 0` with `MaxTime = 1` has a
  fresh and an expired file; two versions tell a stale index from a new one;
  `MaxFaults = 1`. Processes are symmetric.
* `FrameworkInstall`: two processes, two frameworks of which one recognises the
  project, two versions (a checksum can be stale), one edit. The second version
  of the other framework does not parse, so the definition of the project is
  installed beside a sound file or a refused one, by oneself or by the other
  process. Processes are symmetric.
* `FrameworkLoader`: two directories with two files, two calls, two edits: one
  edit between `Stat` and `ReadDir` and one between `ReadDir` and `ReadFile`.
* `ProjectCommands`: two processes and one edit, crash or failing write each; the
  projects start bare, with a broken config in front of a good one, or with
  a config, a Dockerfile and a linked `.dockerignore`. `detect` and `build` read a
  part of what `dockerfile` reads and are left to `documented_commands`, where
  one user works alone: the project starts with a config, the user edits
  `docksmith.toml` only (`EditsConfig`), and one edit removes
  it and one comes between the `Lstat` and the `Rename` of `init`. A template is one text whatever was detected: read
  back, two mixed ones are an invalid config as one is.
* `YamlFrameworks`: the loader's instance, then four projects, three definitions
  (two that the repository ships, abridged, and the one of its README, given an
  install command and a build command that mentions `{{pm}}`) and two opposite orders of the variables. Beyond these, a definition is as good as its
  fields, each of which one of the three uses.
* `RemoteDetect`: every tree of up to three of 15 paths and two larger ones, in
  every order. Three paths are a manifest, what changes its reading and a file in
  another directory; the directories are nested, ignored, or differ in order
  with and without the slash at the end.
* `SwarmStack`: a web component and a database with up to two fields of the
  first, or one of each, set to another value; the fields the properties relate
  are pairs (a mount and a variable, two variables, kind and replicas). A catalog
  of up to four blueprints, of which three are built in.
* `PlanOverrides`: three fields at a time, since the properties relate at most
  three steps. There is no bound on the plans: all 21 kinds. `documented_overrides`
  makes plans one after the other with eight configurations, each the smallest that
  shows what it is there for; the monitor in `MCDocumentedOverrides` remembers
  what the plans before have refuted.

Deadlock is checked everywhere but in the two runs over `YamlFrameworks`, where
the program stops after `MaxCalls` calls, one detection and one plan, and in
the two over `IndexCache`, where all processes may have been killed.

### Fairness

Only `registry` has a liveness property. It assumes `WF(Step(p))` for each
goroutine: one that can run is scheduled some time, and `Lock` and `RLock`
return when the mutex is free for them. Go's scheduler is preemptive and its
`RWMutex` does not starve writers, which is what `parked` models. No fairness is
assumed of clients: nobody has to call. That a `DetectorFunc` or the
`AutoFetch` callback returns is an assumption about user code.

## 4. Proofs

Each theorem holds for every value of the constants: any number of processes,
any files, definitions, requests or plans, any bound. Where a theorem states a
property, the run of that property shows it on a small instance.

| module | theorem | states |
|---|---|---|
| `DetectorRegistry_proofs` | `TypeCorrect`, `NoDataRace`, `NoneLost`, `PriorityIsHonoured` | `TypeOK`, `RaceFree`, `NothingLost`, `PriorityHonoured` always hold |
| | `RankingIsKept` | no step swaps two detectors that are registered (`RankingKept`) |
| | `Refinement` | `Spec => Atomic!Spec` (`ImplementsAtomic`) |
| `IndexCache_proofs` | `TypeCorrect`, `NeverTorn`, `FromItsUrl`, `StaleAsFallback`, `CachedServes` | `TypeOK`, `CacheNeverTorn`, `AnswerIsFromItsUrl`, `StaleOnlyAsFallback`, `CachedIndexServes` |
| `FrameworkInstall_proofs` | `TypeCorrect`, `VerifiedInPlace`, `FailsSoft`, `Detected` | `TypeOK`, `OnlyVerifiedInPlace`, `AutoFetchFailsSoft`, `InstalledIsDetected` |
| `ProjectCommands_proofs` | `KeepsExisting`, `TomlDecides`, `FilesWhole` | `ExistingKept`, `ConfigDecides`, `WholeFiles` |
| `YamlFrameworks_proofs` | `TypeCorrect`, `AccountedFor` | of the loader: `TypeOK`, `EveryFileAccountedFor` |
| | `BuiltinsLast` | the registry always ends with the built-ins, in their order, behind definitions only |
| | `LoaderInside` | the composition is, seen from the loader, the loader: `YamlSpec => Spec` |
| | `DefinitionsFirst`, `BuildersRead` | `DefinitionsAnswerFirst`, `BuildersAgree` |
| `SwarmStack_proofs` | `SoundConversion`, `FilesGranted`, `LiteralSecretsNever`, `ProfilesValid` | `ConversionIsSound`, `SecretFilesGranted`, `NoLiteralSecret`, `ProfilesDeploy` |
| | `OrderForgotten` | `OrderIndependent` |
| `PlanOverrides_proofs` | `Invariant`, `SettingsKept` | between any two overrides the plan is well formed, and what the earlier ones were to leave is there |
| | `RootComesFirst`, `AddedStepsFit`, `StartsAsTold`, `CopiesFindTheirSource`, `SettingsWritten` | `RootStepsBeforeUser`, `AddedStepsFitImage`, `StartsWhatTheUserSays`, `CopiedPathsExist`, `SettingsReachDockerfile` |

`Listing_proofs` holds the lemmas on lists that these need: what inserting,
selecting positions, joining, flattening and sorting do to the elements of a list
and to their order.

### The arguments

Hardly any property is inductive: a state that satisfies it may be one step away
from a state that does not, and only how the program got there excludes that.
Each module begins with the strengthening and says what every part is for.

**DetectorRegistry.** That nobody else is at the slice follows from who owns the
mutex, and that a store only inserts follows from the slice having been built
from a registry nobody has replaced since:

    IInv == TypeOK /\ RequestInv /\ MutexInv /\ StoreInv

with `RequestInv` (who is between `Lock` and `Unlock` has a registration to
make), `MutexInv` (a writer owns the mutex, and past the drain there is no
reader) and `StoreInv` (what is about to be stored is what a registration makes
of the registry as it is now). `MutexInv` keeps `StoreInv` true when another
goroutine stores, and gives `RaceFree`; `StoreInv` reduces `RankingKept` to a
fact about lists, that inserting one element keeps the order of all others.
`NothingLost` and `PriorityHonoured` need to know besides whose registration is in
progress (`OwnInv`), that the built-ins stand in the registry in their own order
with only registered detectors between them (`OriginInv`), and that each stored
registration has one place (`CountInv`). The refinement adds what a scan may rely
on: the part of its copy it has passed has no match. The linearisation point of a
registration is its store, that of a detection its copy.

**IndexCache.** `WriterInv` (a process that writes has the index of the URL it
asked, and gives the file its name when all of it is there), `ContentInv` (a
file under a URL's name, and a file somebody has read under it, is not torn and of
that URL), `ClockInv` (the time `Stat` found is not later than the naming of the
file read after it) and `KeptInv` (without damage no file goes away). `ClockInv`
is the argument for `StaleOnlyAsFallback`: between `Stat` and `ReadFile` a file
may be replaced, but only by a newer one.

**FrameworkInstall.** `EntryInv` (what waits to be renamed has the checksum of a
version published before), `CallInv` (a call has installed only when it is past
the rename), `LoadInv` (a file the loader refuses although it was published has
spoilt its name) and `KeptInv` (while the user leaves the directory alone no file in
it goes away or turns bad, so that what was installed or listed is there to
read, and can be loaded unless its name is spoilt). The theorems assume nothing
of what is published: any versions of any framework may be `Refused`.

**ProjectCommands.** `CommandInv`, `SinceInv` and `ConfigInv` relate the place of
a command to what it knows of the files it has seen unchanged; they give
`ExistingKept` and `ConfigDecides`. `WholeFiles` is two arguments. With one writer
at a time the temporary file is its own (`SoloInv`). With any number of writers
that nobody disturbs, no command makes or changes a config, so all that write
a file write the same text (`AgreedInv`), and a file is not whole only while the
process that has it open has still to write (`HalfInv`).

**FrameworkLoader and YamlFrameworks.** `ProgressInv` says of each file left alone
in a directory of the call that it is either still ahead, in the hands of the
loader, or registered or reported. `DefinitionsFirst` follows from `BuiltinsLast`
and from what the first match of a list is. `BuildersRead` is a statement about
definitions, not about steps: that both builders, whose lists of fields differ in
form, take the same field of a well-formed step.

**SwarmStack.** A step makes a stack at once, so the invariant is short
(`StackInv`: what was registered was validated, the plan at hand is a plan, the
stack is the one made of it) and the work is in the functions. `uniqueStrings`
keeps each name but "" once, a sort keeps all of them, `FlattenSeq` holds what
its parts hold; so each reference of a service is among the declarations of
the stack (`StackSecretsHold`, `StackNetworksHold`, `StackVolumesHold`), and each
`_FILE` variable among the secrets of its service (`SecretFile`). That a variable
has the value of some entry of its name needs a last one to exist.

`OrderForgotten` compares the stack with that of the reversed plan. The
components of the one are those of the other from behind
(`ComponentsFromBehind`), each in the same places (`PlacementFromBehind`), so the
lists of names hold the same names, each once (`Alike`). Two lists of
the same names, sorted by a rank that tells them apart, are the same list
(`RankedForgets`), because numbers can be put in order in one way only
(`OneOrder`). Services differ in the order of their networks and
constraints until they are written, so for them the positions are compared
(`SortedFromBehind`). Two facts come from the behaviour: that what is rendered has
no fault, so that no service or secret has the name of another, and that
the alphabet has each name to be sorted (`RenderInv`).

**PlanOverrides.** Each override is an action on the stages, so an invariant has
to say what an override finds, whichever came before it. There are two.

`Inv` says that the plan is well formed, and has four parts. `TodoInv`: what is
still to be applied is set, and in its turn (`Turn`, the place in `Order`).
`CfgInv`: the settings keep their types. `WrittenInv`: what is handed out is
written for the plan that is left. `PlanInv` holds the rest: every stage is one
of steps (`StepsHold`); the final one has what must come before `USER` before it
(`Neat`) and one step at most of the kinds of which Docker heeds one (`Once`);
what overrides have added to a stage calls the tools of its image (`Fitting`).
None of this is inductive without knowing what has *not* happened yet, which
follows from the turns: while the user, or an image, is still to be set, no
asset, or no added command, is in the plan; and a plan of one stage with a
`USER` has a `RUN` before it for an install command to replace. So `User` may
move `USER` to the end, and an image may be replaced, without harm. That all
21 planners begin like this (`PlannedSound`) is proved one by one, from where the
steps stand in each list.

`KeptInv` says that a field which has had its turn has left its mark (`Reached`):
the step it was to put there stands, in the final stage if it is what starts,
unless another command took its place (`Replaced`); every build has its linker
flag, every download its secret, every check its timing, no step a cache. Each
action is described by what it takes away and what it puts there (`Changes`), where
the rest stays the `Same` up to mounts and flags; it keeps `KeptInv` if nothing it
takes away is the mark of an earlier field and nothing it adds needs one
(`KeptAfter`). For the copies it says besides that each finds its source
(`CopiesFound`), which only `Binaries` threatens: it renames what the builder
makes and what the final stage copies at once (`BinariesCopies`).

That a setting is also in the Dockerfile follows as every step is written, as
one line, and every line that stands for a step says what the step says
(`DockerfileWritten`).

### Assumptions

The constants' assumptions are named in the modules that declare them, and TLC
evaluates each in a run. Most give a constant its type (`EntriesAssumption`,
`BuiltinAssumption`, `DirsAssumption`, `ReentrantAssumption`, `InstallAssumption`,
`CommandsAssumption`, `LoaderAssumption`, `BoundsAssumption`) or keep a value that
stands for "nothing" apart from the others (`SentinelAssumption`,
`UnresolvedAssumption`). The others:

* `RequestsAssumption`: each call registers an entry of its own, not a built-in
  one. An entry is a `DetectorFunc` together with the call that registers it.
* `Position` is injective: two files of a directory have different names.
* `DefinitionAssumption`: a step has no fields but those of the Go struct.
* `ConfigsAssumption`: a configuration sets fields of `PlanConfig`, each to one of
  the values told apart.
* `SwarmAssumption`: plans have the types of the Go structs, a name with "-data"
  appended is a string and not empty, and the same of the built-in profiles, which
  TLC computes exactly.
* `LexicalAssumption`: `Lexical`, which stands for the order of all strings, has
  every name that a stack without faults sorts. Names it lacks would have one rank
  and stay in the order of the plan, which `sort.Strings` never does.

### Only model-checked

* `EveryCallReturns`: liveness, which the prover cannot do.
* `MostSpecificAnswers`, `NoDeadDetector`: facts about one list of some fifty
  registrations, which TLC computes; there is no constant to generalise over
  but the projects, all of whose relevant facts it tries.
* `ScopedDetectionAgrees`, `ListingOrderIrrelevant`, `DockerfileHidesNothing`,
  `RemoteSeesLanguages`: their modules are written with `SelectSeq`,
  `SetToSortSeq` and `FoldLeft`, whose definitions the prover either does not
  have or cannot instantiate.
* `ExpansionIsComplete`: replacing variables is a fold over their order.

Where a proof needs induction over positions (`SwarmStack_proofs`,
`Listing_proofs`) it takes a least counterexample (`Least`), as the library's induction theorems, which take
a predicate, cannot be instantiated.

## 5. Observations without a run

What the modelling showed, and no document contradicts clearly enough:

* `registry install` without `--force` overwrites a framework another process
  installed after the `os.Stat` (`cmd/docksmith/registry.go:146`).
* A verified download is put in place unparsed. If it does not parse or has no
  name, the callback returns an error although the user's own files are sound
  (`autofetch.go:70-73`), and so does each later one that installs something,
  until the file is removed or replaced, which the callback itself does not
  do, as `alreadyInstalled` looks at the name only.
* With a cached index older than what a URL serves, every install fails until the
  index expires.
* A process killed between `CreateTemp` and `Rename` leaves a `.tmp-*` file in
  `~/.docksmith/cache` or `~/.docksmith/frameworks`, which nothing removes.
* A body that is no JSON makes `FetchIndex` fail although a cached index is there
  (`registry_cache.go:61`); a failed request falls back to it.
* `plan` and `dockerfile` may combine the framework of one config with the options of
  another, if it changes between the two reads (`dockerfile.go:24`);
  `ConfigDecides` speaks of a config that stays.
* `eject` stopped by an existing `.dockerignore` leaves the Dockerfile it has
  written, and the `--force` it advises then answers "nothing to eject".
* Two commands that write the same project file at a time can leave it mixed
  for good if one is killed; `WholeFiles` says that nothing less can.
* `init` in a project with a working `docksmith.yaml` writes a
  `docksmith.toml` that hides it.
* After an installation the CLI asks the definitions last file first, the
  callback first file first: one directory, two answers.
* `BuildCmd` has no effect on a plan of one stage, and replaces the last `RUN` of
  the build stage whatever it is: tini in Python, `bundle install` in Sinatra,
  `bun install` in plain Bun. `CopiedPathsExist` excludes `BuildCmd` and
  `InstallCmd` for that reason.
* `RuntimeImage`, `ImageFamily` and `BaseImage` are applied after the planner has
  chosen `apk` or `apt-get`, `addgroup` or `groupadd`; only the steps overrides
  add fit the new image (`AddedStepsFitImage`).
* In a plan of one stage a builder tool is appended after `USER`; this is the
  exception in `RootStepsBeforeUser`.
* A start command is always written in exec form, so `$PORT` in it is not
  expanded, while the default of Python is in shell form. `plan_types.go:60` speaks
  of CMD and ENTRYPOINT; an ENTRYPOINT never is in shell form. A health check of the
  user, or a runtime tool, in a distroless image asks for a shell it has not.
* The hint lists secrets also when no install step got a mount.
* An ENV that a definition gives as several pairs is left out by the writer.
* Definitions: a rule with half of a kind set is true; `file:` with a glob also
  matches directories; `BuildPlanFromDef` expands nothing, `BuildPlanFromDefDir`
  everything; without an `install` entry for the package manager found, its RUN
  is empty; the two builders disagree on a
  step with `copy` and `copy_from`, and one of them accepts a definition without
  stages (`WellFormed` excludes these, as it does a stage with `base` and `from`). `runTestCase` (`yaml.go:99`), which
  nobody calls, uses the framework of a failed detection.
* Remote detection: `RootCandidates` and `Services` list the same directories in
  different orders; a Pipfile alone, or `manage.py` alone, gets
  `pip install -r requirements.txt`; the settings package of Django is the first
  of the list (`ListingOrderIrrelevant` excludes it).
* Swarm: `ConversionIsSound` leaves the complaints the two validations do not
  share: a port 0, a service, secret or component without a usable name, a
  missing image, two entries of one secret are accepted by the blueprint and
  refused by the renderer. A resolved component whose reference has another
  scheme than `secret:` loses the variable. `catalog.go:191` says that a validated
  profile "can become a one-component deployment spec", which holds if it refers
  to no other component or secret (`SelfContained`). Cron and release processes
  come out as plain services; releases, dependencies and autoscaling of a plan are
  dropped. An upgrade that only names a strategy replaces that of the plan by
  nothing. A secret mounted at a path of its own leaves its `_FILE` variable
  pointing to `/run/secrets`.

## 6. Not modelled, and why

Text: the wording of commands, labels, `.dockerignore`, quoting of YAML and
Compose output; the sanitising of package names; ports and versions of the
built-in frameworks. Parsing of manifests, regular expressions and globs beyond
the names used. Configs, labels, entrypoints and resources of a stack, which
`StackFromBlueprint` never sets. The validation of `config.go` field by field:
which of the candidates is loaded and whether it is valid are modelled, what
makes it valid is a list of independent checks.
Stateless checks on one record: `policy/`, `templates/`. One request or one
external program: digests, SBOM, the HTTP client beyond its outcomes. Argument
parsing and printing of the CLI. The Go memory model and the runtime are
represented by the mutex and by the separation of `Build` from `Store`.

A power failure that loses an unsynced rename is part of `Damage`. Two
users, network file systems and permissions are not distinguished from
any other failing call.

## 7. Plan

Done: all modules above, in the order registry with its proofs, detectors, cache,
loader, installation, plans and overrides, project files; then blueprints and
stacks, remote detection, definitions, emission.

Proved: the registry with its refinement, and every safety property of the
cache, the installation, the project commands, the loader, the plans with their
Dockerfile and the stacks; of the definitions all but the replacement of
variables.

Next, the proofs:

1. `RemoteDetect`: `ListingOrderIrrelevant` for any tree and any two orders of
   it, by the fact `OrderForgotten` rests on. It needs the module in terms of
   `Listing` instead of `SelectSeq` and `SetToSortSeq`.

Next, the model: the translation of a configuration into plan options, so that
every file that validates gives a plan with the properties of `PlanOverrides`.
