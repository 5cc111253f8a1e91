# A formal model of crei

`crei` renders Podman Quadlet files from a CUE project, reconciles them with the
user's quadlet directory, remembers in a state file what it applied, and drives
the resulting services through systemd. This directory holds TLA+ modules of
that program, TLC configurations that check them on small instances, and proofs
that TLAPS checks for every instance.

Contents: [the system](#the-system), [the modules](#the-modules),
[the runs](#the-runs), [the properties](#the-properties), [fairness](#fairness),
[the proofs](#the-proofs),
[where code and documentation disagree](#where-code-and-documentation-disagree),
[what is left out](#what-is-left-out), [the plan](#the-plan).

To repeat the checks, in this directory:

    tlc -workers 2 -config apply_one.cfg MCApply.tla     # any .cfg with its module
    tlapm ApplyProofs.tla                                # any *Proofs.tla

## The system

Every `crei` command is one process that runs to its end. There are no threads
and no daemon: all concurrency is between commands in several terminals or on
several machines sharing a home directory, between a command and systemd, and
between a command and a user who edits files. Nothing is locked. What outlives a
command is on disk (the CUE project, the quadlet directory, `crei.state`,
`registries/*.cue`, `cue.mod/usr`, `crei-vendor.json`), in podman's secret store,
or in systemd.

| Component | State | Operations | What is hard | What makes it correct |
|---|---|---|---|---|
| Reconciliation (`internal/reconcile`, `apply`/`plan` in `cli/commands.go`) | the quadlet directory | `ComputePlan`, `WriteFile`, `RemoveFile`, `ensureDir`, `PruneEmptyDirs`, `DaemonReload` | plan and act are separated by a prompt; files, links and directories in each other's way; failures and crashes half-way; concurrent applies | a successful apply leaves exactly the desired files; no torn file; no leaked temp file; nothing else is touched; repetition converges |
| Applied state (`internal/state`, `cli/state.go`, `cli/stale.go`) | `crei.state`: per file a hash, its time, its quadlet, up to ten superseded versions | `Load`, `Build`, `Write`, `InEffectAt`, `recordState` | lost or unreadable state; moves between quadlets; the cap; two clocks of different resolution | no stale unit goes unmarked but one that was starting while it was applied, none is made stale by an apply that did not change it, the running config shown is the one that runs |
| Status classification (`cli/status.go`) | none; joins desired files, disk, state and systemd | `gatherStatus`, `classifyRows`, `--check` | three tables over four sources read one after the other | every combination has the state the documentation gives it; `--check` fails exactly on drift |
| Lifecycle (`cli/lifecycle.go`, `cli/startstop.go`) | the tracker: `done`, `stalled`, settle clocks | `start`, `stop`, `restart`: select, confirm, enqueue, poll, verify | list-jobs and show are two moments; auto-restart between jobs; stalls racing late success; failing systemctl calls | a check mark means the job ended; exit 0 means verified; the command returns |
| systemd client (`internal/systemd`) | none | `Show`, `PendingJobs`, `Start/Stop/Restart --no-block`, timestamps | text output, one-second resolution | what is read is what systemd said |
| Image registry (`cli/image*.go`, `eval/images.go`, `internal/registry`) | `registries/images.cue`: tag, digest, pin and lock per image; registry servers | `add`, `pin`, `update`, `outdated`, `lock`, `unlock`, version choice by age | read, ask the network and the user, rewrite the whole file in place | a command changes what it is asked to and keeps locks; an update never goes back; nothing too young is taken unasked; what could not be looked up is not called current |
| Secrets (`cli/secret*.go`, `internal/podman`, `eval/secrets.go`) | `registries/secrets.cue` and podman's store | `create`, `create -a`, `rotate`, `remove`, `prune`, `adopt` | two stores changed one after the other; a loop that stops half-way | what is made is declared first; `-a` leaves nothing missing; `adopt` and `prune` respect what others own |
| Vendoring (`cli/vendor.go`) | `cue.mod/usr` trees, `crei-vendor.json` | `vendor`, `vendor --check` | trees are removed, rewritten, and only then locked; module paths inside one another | the lock describes the trees, or `--check` says that it does not |
| Evaluation (`internal/eval`) | none | load, unify, decode, unique names, assets, build hashes, diagnostics | assets are read before hashes are taken; consumers by file and by tag | a unit carries the hash of the build it uses, and waits for it |
| Rendering (`internal/render`, `internal/kinds`, `templates`) | none | records to text | layout | tested by golden files |
| Graph and lint (`cli/graph*.go`, `cli/lint*.go`, `cli/timeoutrules.go`, `cli/imagerules.go`) | none | build, reduce, print; rules over graph, timeouts and images | quadlets that refer to each other; time arithmetic | the diagram only hides; to follow a rule changes no wiring; a restart loop is told exactly |
| Importer (`internal/importer`) | none | compose files to CUE | name collisions, implicit resources, waiting for health, variables | what compose keeps apart stays apart and ordered; nothing is left empty unnoticed; the result loads |
| Configuration, scaffolding, diff output, section generator | the config file; none otherwise | reading settings, `init`, layout | little | tests |

How they interact: `apply` evaluates and renders (pure), plans and acts on the
quadlet directory, writes `crei.state`, asks systemd to reload. `status` joins
all four. `start`, `stop` and `restart` take the rows of `status`, and talk to
systemd alone. Images, secrets and vendored modules are inputs of evaluation
that their own commands rewrite. The only calls between the mutable parts are
apply → state → systemd, in that order, with failures possible in between; all
else is communication through files.

`PROJECT.json` lists the components with their status, and under `hazards` what
in this code is hard to test, line by line, with the properties that cover it.

## The modules

| Module | Models | Used by |
|---|---|---|
| `Reconcile` | what `crei apply` promises, without how: the abstract specification | `Apply` |
| `QuadletTree` | the directory as a tree; pure operators for everything `internal/reconcile` does to it | `Apply` |
| `Apply` | `crei apply` in several concurrent sessions, with crashes, failures and outside changes | `MCApply` |
| `Staleness` | `crei.state`, the `(stale)` mark and `diff --stale` against the processes that run | `Status` |
| `Status` | the rows of `crei status` over those layers, its filter and `--check` | `MCStaleness` |
| `Systemd` | the service manager as crei sees it (external) | `Lifecycle` |
| `Lifecycle` | the tracker of `start`, `stop` and `restart`, composed with `Systemd` | `MCLifecycle` |
| `Versions` | version-shaped tags, the choice of an upgrade, spans of time | `Images` |
| `Images` | the image commands over `registries/images.cue` and a remote registry | `MCImages` |
| `Secrets` | the secret commands over `registries/secrets.cue` and podman's store | `MCSecrets` |
| `Vendor` | `crei vendor`: trees in `cue.mod/usr` and their lock | `MCVendor` |
| `Project` | what evaluation refuses, assets, build hashes, and the files a project comes to | `Graph`, `Compose` |
| `Graph` | the dependency graph, its reduction, and what keeps a unit down | `Lint` |
| `Compose` | `crei import compose`: the conversion and the variables | `Lint` |
| `Lint` | every rule of `crei lint` and `validate`, and an author who writes, lints, follows and imports | `MCLint` |
| `Maps` | a function with one value changed, over another, without some of its keys | `Images`, `Secrets`, `Vendor`, `Compose` |
| `ApplyProofs`, `StalenessProofs`, `LifecycleProofs`, `ImagesProofs`, `VendorProofs`, `SecretsProofs`, `LintProofs`, `ImportProofs` | theorems and their proofs | |

### Reconcile, QuadletTree and Apply

A path is an opaque value. `Inside` says which path is below which, `Rank` gives
the order of `sort.Strings`, `Temps` are the names `os.CreateTemp` can draw. A
node is absent, a directory, a link to a file elsewhere, or a file with content
and mode; the content `Partial` is that of a file whose write is not complete.
Operators have the names of the code: `ListExisting`, `EnsureDir`, `RemoveAll`,
`PruneEmptyDirs`; `Puts` and `Dels` are the additions-or-changes and the removals
of `ComputePlan`, `MakeRoom` the first half of `WriteFile`. `RemoveFails` and
`EnsureDirFails` are the `ENOTDIR` cases of `os.RemoveAll` and of `os.Stat` in
`ensureDir`.

`Apply` has a program counter per session. `Plan` is rendering and `ComputePlan`;
`Confirm` and `Decline` the prompt; `Remove` one iteration of the removal loop;
`Prepare`, `Stage`, `Fill`, `Commit` the four steps of `WriteFile` between which
others can act; `Prune`, `Record`, `Reload` the rest; `Adopt` the branch for an
empty plan, which records and reloads all the same. `GiveUp` and `GiveUpNotDir`
are the failures that the tree itself causes, `Fail` every other system call,
`Crash` the death of the process. `Edit` changes the project, `Meddle` the
directory from outside. The variable `clean` is an observer: nobody else has
touched directory or record since the session planned.

`Reconcile` knows no temp files, phases, failing calls or crashes. A session owes
files and has condemned others; it discards what it condemned, makes way for an
owed path, replaces it with a whole file, sweeps empty directories, and may record
its goal or report success only with nothing left to do. `Apply!KeepsPromise` is
this specification under a refinement mapping that hides the temp names and reads
plan and status from program counter and result.

### Staleness and Status

One tick of the clock per step, so that the order of events is the truth that the
code has to reconstruct from `AppliedAt` and the second-resolution
timestamps of systemd. A start takes time: `Start` is the moment systemd begins it,
from the definition that is loaded then, and `Activate` the moment the unit is
active, for `Notify=healthy` after all the checks of its health; in between, any
number of applies may go by. `Complete` is the end of a build, which rests inactive
and whose time is that of the begin (`Since`: `ActiveEnter` or `InactiveExit`). `BuildFile`, `Superseding` and `Retained` are `Build`,
`NewestAt` and `InEffectAt` the lookup, `Stale` the comparison in `classifyRows`.
`WriteFiles`, `RecordState`, `ReloadAfter`, `Abandon` are apply seen from here.
`log` and `running[u].def`, `.began`, `.sound` are observers: the uncapped log,
and what a process was really started from.

`Status` adds no variable: `Gathered` is what a command reads of the layers, with
the project not evaluating or systemd not answering as parameters. `DesiredWord`
and `OtherWord` are the two branches of the DISK table, `LoadedWord`, `RuntimeWord` and
`ShowsStale` the rest of a row, `FilterStatusInput` the narrowing to quadlets
named, `StatusClean` is `--check`.

### Systemd and Lifecycle

`Systemd` moves jobs and `ActiveState`s as the code expects them, including a unit
waiting for its restart delay (activating with no job). `Lifecycle` has the
tracker's fields: `done`, `stalled`, `from` (`settleFrom`), `accrued`
(`settleAccrued`), and one action per systemctl call: `Select`, `Enqueue`,
`ReadJobs`, `ReadStates`, `Verify`. systemd steps between any two. An answer about some
of the units only is a failing call (`Answers`): the unit without a state is checked
off while polling and an error when verified. That branch is defensive, since
`systemd.Show` refuses such an answer before the tracker sees it
(`systemd.go:160-183`); modelled is what the tracker does with it. Time is counted
in polls. `ended`, `seen` and `final` are observers.

### Versions and Images

A tag is its numeric parts and a suffix; a range is the set of triples a constraint
admits. `Upgrades` and `PickVersion` are the choice; equal versions are taken in
any order, as registries list them. In `Images` each session has read the file
(`mine`), what it still looks up (`todo`), the edit it prepares (`edit`) with what
is too young or failed, and the time at which it began (`now`), by which ages are
judged to its end. `Start` is loading and the refusals of each command,
`Lookup` one entry's tags and digest (a tag may be gone, the remote may not
answer, an age may be unknown), `Decide` and `Answer` flags, picker and prompt,
`Truncate` and `WriteImages` the two halves of `os.WriteFile`, after which the end
of what another command wrote meanwhile may remain. `Push` and `Tick` are the world.

### Secrets

A session reads the registry and podman's list (`mine`, `saw`), in the order of each
command, and then works through `todo`. `Register` is the staged file and its
rename: one step for others, unlike the in-place write of remove (`Truncate`,
`WriteRegistry`). `CreateSecret`, `RemoveSecret`, `ReadSecret` and `AdoptSecret`
are podman's calls, one per name; `Value` and `Confirm` the prompts; `Fail` any
failing call or death. `Outside` is somebody who makes, replaces or removes a secret
with podman alone, at any moment. `alone` is an observer: nobody else, session or
outsider, changed a store since this session started. An entry counts as recorded if
name and policy are the same (`Recorded`), as the code compares them.

### Vendor

A module's path and a file's are sequences of segments, so that one can be below
another. `Fetch` is clone, the reading of files and `checkImports`; `Clear`,
`Install` and `Installed` the replacement of the tree; `TruncateLock` and
`WriteLock` the lock; `Check` is `--check`. `touched` is an observer: the modules
whose tree an unfinished command changed.

### Project, Graph, Compose and Lint

These are operators with the names of the code over a project as a set of unit
records. `Evaluate` expands assets and then stamps builds and their consumers;
`LoadFails` and `RenderFails` are the refusals. `Graph` builds the edges of the
units in focus, reduces the diagram, and finds the nearest failed dependency
(`FirstFailedDep`). `Lint` has every rule as an operator that gives findings.
`Compose` gives out CUE keys (`Keys`), resolves references by them (`StemOf`),
maps services, volumes, networks and builds, and says by `Unifies` what CUE makes
of the result; `Occurs` folds the occurrences of a variable. A compose file has the
tokens that pass through `rewrite`, in order, and those of fields that are quoted as
they stand (`verbatim`); it was named or `discovered`. Healthchecks are timed in
ticks, so that the limit in whole seconds (`StartLimit`) can fall short of them.

The actions of `Lint` are those of its user: write a unit, change an asset, take
out what a finding calls redundant, import a compose file, fill in its variables.
What Quadlet's generator makes of a unit (`Generated`) and how systemd's start
limit counts (`Starts`) are theirs and stand among the properties.

## The runs

| Run | Asks | Bounds |
|---|---|---|
| `apply_one` | one session on every small tree: convergence, reloads, footprint, the inductive invariant, and liveness: every apply returns, repetition converges | every combination of absent, file and directory at the unit and of absent, two files, link and directory at `images`, `images/x` and `images/x/f`; four goals, one of them with a file below a file; one fault, one outside change |
| `apply_two` | two sessions interleaved step by step: the refinement, records, temp files, nothing disturbed | two goals that turn `images/x` from a file into a directory and back, the three trees that hold a stale file or a directory there, one edit, one fault |
| `staleness` | all properties of state file and status | one unit that may be a build, two contents, two quadlets, `HistoryCap` 1, three ticks to the second, ten steps; each of the layers of status readable or not |
| `lifecycle` | tracker against systemd, all three verbs | two services, budget of two polls, two upsets, one failing call or answer that leaves out any units |
| `images` | the image commands | two entries (version, digest-only, unparsable, with minimum age and range, locked or not), five tags of which one is another suffix and one an alias, two sessions with two commands of eleven, one push, one tick, one failed lookup or crash |
| `secrets` | the secret commands | four names (a key and the other name it is declared under by hand, one in podman already, one a unit refers to), two sessions and an outsider who give three commands between them, the sessions' of thirteen, three values, one failure |
| `vendor` | vendor, restore, check | three modules of which one comes to import another's package and one to drop a file, a ref or the head, four commands, one failure |
| `project` | evaluation, graph, lint, importer | a project of three quadlets with twenty-two units that may replace or join its own, among them assets that land on one another's keys, two asset contents, five edits; every restart setting over small delays, windows, bursts and ramps; compose projects with clashing names, implicit and anonymous volumes, every condition of `depends_on`, healthchecks around systemd's limit and in half seconds, and up to three occurrences of a lifted variable beside a verbatim one, in a named or a discovered file |
| `apply_foreign`, `staleness_slow_start`, `images_min_age`, `import_loads` | statements of the documentation that fail | the smallest instance that shows it |

Why the bounds are enough. In `apply_one` the paths form the longest chain on
which `ensureDir` treats parent and grandparent differently, and the kinds are all
that the code distinguishes; the same properties are then proved for any tree. In
`apply_two` each session has at most a removal and two writes, which already
brings every pair of phases together. A history cap of one makes ten steps
overflow it several times, the real cap of ten behaves alike (proved); three ticks
to the second let a record, a start and another record fall into one second.
Units do not interact in `Staleness`. Two polls are the smallest budget that can
be interrupted by a job and resumed. In `images` and `secrets` a command reads,
asks and writes once, so that two of them in two sessions, or after one another,
show every interleaving of one with another; the third command of `secrets` lets
one be prepared (a registration, an adoption) that two others race for, or an
outsider put a secret in another's place between its prompt and its last call. In
`vendor` four commands are vendor, its failed repetition, a restore and a check.
In `project` a rule or a wiring concerns at most three units, and the base with
its variants has each constellation within two edits; an import reaches nothing
but its own quadlet. Every passing run explores its state space completely, and
between them every action fires. `MaxClock`, `MaxEdits`, `MaxMeddles`, `MaxFaults`,
`MaxUpsets`, `MaxDigests`, `MaxValues` and `MaxCommands` are the only counters cut
off; they bound the environment and its users, never the program.

Deadlock is checked in the `apply` runs, where a session can always start anew. It
is off where the clock, the commands or the edits come to their bound
(`staleness`, `images`, `secrets`, `vendor`, `project`), and for `lifecycle`, where
the command has returned and systemd may be at rest.

## The properties

* `Converged`, `AppliedRecorded`, `ReloadTakesEffect`: what exit status 0 of apply
  means, from every tree, after any earlier failure, provided that nobody else
  interfered (`clean`) and, for the first, that no desired file is the directory
  of another (`PrefixFree`; the CUE schema does not rule it out).
* `KeepsPromise`: apply implements `Reconcile`, whoever interferes. It implies that
  no torn file is ever seen.
* `TempsOwned`, `Undisturbed`, `Footprint`: nothing leaks, and what a step may change.
* `RetriesConverge`: once the project is applicable for good, repeating the
  command reaches it for good. `Returns`: every apply comes to an end.
* `StaleComplete`, `HistoryFaithful`, `DiffShowsRunning`, `CarriedForward`: what
  the marks and the shown running config are worth. `StaleComplete` is stated for
  units that began to start while `status` showed them synced and loaded: a unit
  started from a tampered or not yet reloaded file can escape, see below. So can one
  that was still starting when the file was applied (`AppliedMeanwhile`), which is
  what `staleness_slow_start` shows; it is the only other exception. `DiffShowsRunning`
  leaves out the same stretch of time, up to the end of its second.
* `CleanMeansCurrent`: status --check passes only if such a unit runs what the project
  renders now, with the same exception. `FilterAgrees`: naming a quadlet changes none of
  its rows, whichever layers are missing, for files that are not on the move from one
  quadlet to another.
* `CheckedMeansRan`, `BudgetSpent`, `OkMeansVerified`, `Returns`: what check marks,
  stalls and exit status 0 mean, and that the command comes to an end. Exit status 0 means
  that every unit was found, after the last job, in a state `verbSpec` does not call failed:
  not active or activating after a stop (failed, deactivating and reloading pass), active or
  inactive after a start or restart. Inactive passes because of oneshot units; a unit whose
  start job systemd dropped is inactive too.
* `OnlyAsAsked`: an image command whose file nobody else wrote changes no more than it is
  for, and no locked entry but to unlock it. `UpdatesAscend`, `YoungIsNamed`: what
  update may write. `CurrentMeansCurrent`: what exit status 0 of outdated means.
* `RecordedFirst`: create makes nothing in podman that no entry declares.
  `AllMeansAll`: create -a leaves nothing missing. `AdoptKeeps`: what it leaves alone.
  `PruneExact`: prune removes nothing but what crei made and nothing refers to, whichever
  removals fail, and when it succeeds all of that. All are stated for a command that nobody
  came between (`alone`), and `PruneExact` for a registry that is whole: one that a crash
  has truncated refers to nothing.
* `DriftExplained`, `RestoreHeals`: the trees are what the lock says, except where a
  command did not finish, and a restore ends that. `Offline`: what is locked needs
  nothing that is not.
* `StampFollows`: any change in a build, in its assets too, changes the unit of each
  container of its image. `ConsumersWait`: such a container waits for the build
  and not without it, and status names a failed one.
* `FocusAgrees`: lint of a quadlet says what lint of the project says of it.
  `FollowingKeeps`: to take out what lint calls redundant changes no start order and
  no coupling. `FlapsCaught`: service/restart-flap fires exactly on the units that
  systemd's start limit never stops; a start at the very end of the window counts
  as outside it, as the code takes it.
* `ImportKeepsApart`, `ImportOrders`, `VariablesAsked`: what an import keeps of a
  compose project: distinct resources with their references; the order of depends_on, the
  requirement of what has to be started or healthy, and time for every try of a healthcheck,
  up to less than a second; and variables without values, in the fields that are lifted and,
  when values are baked in, in the files that were named.

Each property has a mutant in `PROJECT.json`: a plausible bug in one operator
under which the run must find the property violated. Mutated forms stand beside
the operator they mutate, marked `Mutant:`.

## Fairness

* Apply: `WF(Work(s))` and `WF(Answer(s))` for each session: the processor runs a
  process that has work, and a prompt is answered at some time. `Fail` and `Crash`
  are never fair. `RetrySpec` (`apply_one`) adds `WF(Plan)` and `SF(Confirm)`: a user who
  repeats the command and does not for ever decline. It has one session, since two
  users who alternate between two goals never converge.
* Lifecycle: `WF(Track)`, the command runs on, and `JobsEnd`, a queued job ends
  (systemd's `TimeoutStartSec` and `TimeoutStopSec`). A restart delay need not end
  (`RestartSec` may be infinity): that is what the settle budget is for. `Returns`
  holds for finitely many deaths (`MaxUpsets`) only, see the crash loop below.
* The other modules state no fairness: their commands are loops over finite lists,
  which end by their shape, and nothing in them waits for anything but a prompt.

## The proofs

`tlapm` checks every step of the eight proof modules, with SMT, Zenon and LS4.

**ApplyProofs**: first the lemmas about the tree operators of `QuadletTree`: each
keeps `TreeOK`, removing or pruning does not touch a file outside its reach, making
room does not touch a prefix-free goal's other files. Then, for every layout of paths, any number of sessions and any bounds,
from `PathsAssumption`, `NamesAssumption`, `ValuesAssumption`, `ApplyAssumption`:

* `Invariance`: `Spec => []IInv`, and from it `TypeCorrect`, `NeverTorn` and
  `Convergence`. `Converged` speaks of the end of an apply only; what is preserved
  step by step is `OnTrack`: what is not left to write is in place, and what is
  listed but not desired is left to remove. `PhaseOK` ties plan and temp file to
  the phase, and `TempOK` says that a temp file lies beside its target, is nobody
  else's and is complete before the rename: without it `Commit` could put a torn
  file in place.
* `RecordsWhatItWrote`, `SystemdHasRead`: a session past its `Record` step that is
  clean has its goal on record, and one past its `Reload` has had its unit files
  read; each is an invariant of its own beside `IInv`.
* `NoLitter`: every temp file on disk is that of a session in `Fill` or `Commit`,
  as long as nobody crashed. The failing steps are the interesting ones: each
  drops the file with the name.
* `LeavesInPlace`, `TouchesOnly`: the action properties `Undisturbed` and
  `Footprint`, action by action from `IInv`.

So every safety property of `Apply` that a run checks is a theorem.

Its second part is `Refinement`, `Spec => KeepsPromise`. The initial states map to
initial states; each action maps to the abstract action of its name, to a part of
it, or to a stutter: writing the temp file is invisible, `Commit` is `Install`, and
a failing session is `Stop`. `IInv` is needed for `Commit` (the temp file is whole)
and for `Record` (nothing is owed).

**StalenessProofs**: for any units, contents, quadlets, history cap and resolution
of the clock, from `StalenessAssumption`:

* `StaleIsComplete`, `HistoryIsFaithful`, `DiffIsOfRunning`, `TypeCorrect`, and the
  action property `AppliedAtCarriedForward`.
* The invariant is `Past` (all that is recorded lies before now), `HistoryTail`
  (the log is ordered and ends with the record, the history is the stretch before
  it) and `StartedFrom` (a process started in order runs the newest version
  recorded before its start began). `StaleComplete` is not inductive: when a second apply
  supersedes a record, one has to know what the *earlier* versions say of the
  process, which only `StartedFrom` does.
* `Largest` (a non-empty set of indices has a largest element) comes from the
  well-foundedness of `<` on the naturals; with it `NewestAt`'s `CHOOSE` can be
  reasoned about without induction.

The second half of the module is about `Status`, which adds no variable and so is
proved of the same `Spec`:

* `CleanIsCurrent`: `CleanMeansCurrent` follows from `StaleComplete` and the types: a
  row that is synced without a mark cannot hide a superseded version.
* `FilterIsFaithful`: `FilterAgrees` by cases over which layers could be read. It
  rests on the filter taking the record of a file from the quadlet that the project
  gives it, whatever quadlet recorded it.

**LifecycleProofs**: for any set of services, any settle budget (0, which waits for
ever, included) and any bounds, from `SystemdAssumption` and `LifecycleAssumption`:

* `CheckMarksAreEarned`, `GivenUpInTime`, `SuccessIsVerified`, `TypeCorrect`: every
  safety property of `Lifecycle` that the run checks, and its types.
* None of them is inductive. `JobsFollowed` says that a unit enqueued still has a job
  or its job has ended; so what list-jobs does not show has ended, and
  `BetweenCalls` carries that over to show, whatever systemd queues meanwhile.
  `AllAccountedFor` (nothing is open when the states are read for the last time)
  turns it into what exit status 0 claims; that it is never given without a state of
  each unit is `Verify`'s own doing (`AnswersCount`).
* `Charged` bounds the time charged to a unit by the number of polls that found it
  between two states without a job. It must be strict after such a poll, for the
  sleep that follows charges one more interval; the clock of a unit that is given up
  ticks on, and is bounded by `BudgetSpent` itself.

**ImagesProofs**: for any keys, tags, command lines, sessions and bounds, from
`ImagesAssumption` (what cobra's `Args` and the schema let through):

* `ImagesInvariant`, and from it `ImagesTypes` and the four action properties:
  `OnlyWhatWasAsked` (`OnlyAsAsked`), `UpdatesOnlyAscend` (`UpdatesAscend`),
  `YoungOnlyIfNamed` (`YoungIsNamed`), `CurrentIsCurrent` (`CurrentMeansCurrent`).
* The properties speak of one step, the write or the report, of what was found many
  steps before it. `Flow` says what each verb may have in its edit in each phase.
  `Following` says of each entry that `update` has found that it ascends and how old it
  is; pushes and time do not undo that (`StaysFound`), since a digest's age only grows.
  `Compared` says that what `outdated` has passed is current, as long as nothing was
  pushed since it started; a push makes it void for good, for the number of digests
  never returns to `since`.
* `PassedIsCurrent` is where several equal versions matter: `outdated` compares with one
  of the highest upgrades, in the order of the registry, and passes an unlocked entry only if it
  is its own tag, and then there is no upgrade (`OneNext`).
* `AscendsIsUp`: the code compares at the precision of the tag that is followed; that
  this implies less in full, and not conversely, comes from `LessIs` (the first part
  in which two versions differ, padding apart) and `LessIsStrict`.
* `YoungOnlyIfNamed` assumes that `ParseAge` accepts every `minAge` of the registry. The
  schema admits others, and `images_min_age` shows what comes of them: a safeguard
  that silently is not there is the only way past min-age.

**VendorProofs**: for any modules, trees, refs and bounds, from `VendorAssumption`:

* `VendorInvariant`, and from it `VendorTypes`, `BuildsOffline` (`Offline`), and
  `DriftOfOne` and `RestoreOfOne`: `DriftExplained` and `RestoreHeals` for each module
  whose path neither extends nor is extended by another's (`Alone`). The modules
  inside one another are where the properties fail, since `RemoveAll` of one tree
  takes the other with it. `DriftIsExplained` and `RestoreHealsAll` are the
  properties themselves, for a project in which every module is alone.
* `Explained` alone is not inductive. `Settled` says what a run has finished, `Fresh`
  that what it is about to lock are the pins it installed, `UnderWay` what the tree
  under its hands may be. `Closed` (what the lock lists imports only what it lists)
  gives `Offline`.
* The lemmas `PathBelow`, `BelowDetermines` and `Apart` are about path prefixes:
  what lies below one module's path lies below no other's.

**SecretsProofs**: for any names, sessions and commands, from `SecretsAssumption`:

* `SecretsInvariant`, `SecretsTypes` and the four action properties:
  `PruneIsExact` (`PruneExact`), `RecordsBeforeItMakes` (`RecordedFirst`),
  `AdoptionKeeps` (`AdoptKeeps`), `AllAreMade` (`AllMeansAll`).
* The parts of the invariant each speak of one phase of one command: `Flow` what a
  command may have at each point; `Records` that the entry of what `create` makes is
  registered, while the session is alone; `Fills` that what `create -a` has passed
  exists; `Copies` that what `adopt` writes is what it read; `Spares` that what prune
  has left to remove is still managed and unreferenced and, while no removal has failed,
  is all there is of that.
  Everybody else voids them, other sessions and outsiders alike, since every command acts
  on what it has read; that is what `alone` says.
* `RecordedFirst` excepts what `create --name` makes of a secret declared by hand
  (`Renames`): there the code registers nothing under the new name (see below).
* `Least` and `LastOfSome` say that the name a loop takes next is one of those left, and
  that of several entries the last is one of them; they come from the
  well-foundedness of `<`. `OneAtATime` and `AllEnds` then follow a `create -a` to
  the name it makes last.

**LintProofs**: of `Project`, `Graph` and `Lint`, for any project, assets and edits,
from `LintAssumption` (what the schema says of a unit's fields) and
`RestartAssumption` (what it says of restart settings, and that a delay that grows
does so by a whole factor, since the model has no roots):

* `KeptEdgesAreDrawn`, `NothingIsLost`, `DiagramIsComplete`: no edge of the reduced
  diagram ends in a node that is not drawn, and a node that is not drawn is an orphan
  or in the label of one that is.
* `UnitsAreSound`: `Spec => []IInv`. However the author writes, follows lint and
  imports, units are told apart by their files, the names of services and of
  resources do not meet, each build has its service, references are finite and
  restart settings are as the schema has them.
* `FocusIsFaithful` (`FocusAgrees`), `ConsumersDoWait` (`ConsumersWait`),
  `VariablesAreAsked` (`VariablesAsked`), and the action properties `FollowingIsSafe`
  (`FollowingKeeps`) and `StampsFollow` (`StampFollows`).
* `StampsFollow` assumes that no tag of an image is the file name of a build. Without
  that the property is false, see below; the CUE schema does not exclude it.
* `FollowingIsSafe` rests on `WiredAlike`: to take an `after` or `wants` out of a unit
  the service wired as it was, when what goes is `Covered` by what stays;
  `RemovedIsCovered` says that lint reports nothing else.
* `FlapsAreCaught` (`FlapsCaught`): `restartSpan` adds up to the first `burst` gaps of
  systemd in closed form (`SpanIs`; a geometric series that a division takes the sum
  of, `SeriesIs`, and then a flat tail), and a start is refused if and only if that
  sum is less than the window (`RefusedIfWithin`). One direction counts the starts of
  the first window; the other needs that no later window is better placed, since gaps
  do not shrink (`LaterIsSlower`). The number of starts that `Starts` looks at is no
  bound: any number past the burst would do.
* The search of `FirstFailedDep`, the fold over a file's variables, powers and starts
  are recursive functions. That they exist and obey their equations (`NearsExist`,
  `EnvsExist`, `PowersExist`, `StartsExist`) is proved by a least counterexample
  (`AllNumbers`), from the well-foundedness of `<`.

**ImportProofs**: of `Compose` and what becomes of an import, for any compose project and
any project it is imported into, from `NamesAssumption` (there are finitely many names,
in their order, and numbers tell numbered names apart) and `ImportAssumption`: the project is one that compose-go loads (`Consistent`), every unit
of it has a service, and the author writes into other quadlets (to edit the imported one
by hand voids what the import promises):

* `ImportsAreApart` (`ImportKeepsApart`): `KeysAreApart`, the keys that `keymap` gives out
  are distinct, whatever the names sanitize to. That a free number is found
  (`NumberedIsNew`) is the pigeonhole principle; that the keys exist is once more a
  recursion along the order of the names (`KeysExist`). From keys to stems, files and
  services it is `NamesAre` and `StemIs`, which have the one resource of its kind bear
  the name of the quadlet.
* `ImportsAreOrdered` (`ImportOrders`): the directives of `depends_on` and the limit that
  `mapServiceHealthcheck` computes (`StartIsAwaited`, over every number of tries and every
  length of a tick; `WholeSeconds` bounds what the division cuts off).
* Neither is inductive, since lint may call redundant a directive that the import
  wrote. `ImportInv` (`ImportRemains`) says what is left: every imported unit is there
  with every field but its directives as imported, and each directive that is missing
  is covered by what the *imported* units imply. It has to be the imported ones and
  not those of the moment, or a later edit of another quadlet could take away what
  covered a directive that is already gone; `ImpliedWithin` and `RemovedWithin` carry what lint sees in the loaded project
  over to them.

Only model-checked, and why:

* liveness (`Returns`, `RetriesConverge`), which is out of the prover's reach, as is
  `ENABLED`;
* the four runs that expect a violation, which are counterexamples.

Every other property that a run checks is a theorem; four of them under a hypothesis
that the theorem states: `StampFollows`, `YoungIsNamed`, `DriftExplained` and
`RestoreHeals`.

## Where code and documentation disagree

The four runs that expect a violation each check a sentence of the README or of a
comment or test; `PROJECT.json` quotes it under `findings`.

* `apply_foreign`: status calls a file foreign and the README says it is never
  touched; apply removes it.
* `staleness_slow_start`: a process started before the file's last apply, from the old
  definition, has no `(stale)` mark if the apply came before its unit was active:
  `status.go:460` compares with the time the unit became active. `status --check` then
  passes, and `diff --stale` may show a version the process never ran.
* `images_min_age`: a minimum age that overflows a duration is taken for none.
* `import_loads`: the only service of a compose project, if its name is not a CUE
  identifier, is written with a `name` that its place in the quadlet does not admit.

The models show more, which is stated here without a run of its own:

* Apply. A plan that waited at the prompt removes whatever is there by then, with
  its content (`reconcile.go:7-9` says never directories; `reconcile.go:217` is
  `os.RemoveAll`). A path two levels below a regular file is planned as an
  addition because `ensureDir` "will create what is needed"
  (`reconcile.go:28-31`), which it does for the parent only (`reconcile.go:234`).
* State. A unit started after the apply in the same second is marked as started
  before it (the README's 537-538, `systemd.go:249`, `status.go:460`). `AppliedAt`
  does not move when apply puts back a file that was changed by hand
  (`state.go:43-45` and 198), so that a unit started from the changed file is not
  stale. The layers of status are read one after the other; a degraded status
  (the project does not evaluate) never says missing, though the table of
  `status.go:27` has it: such paths are skipped at line 394. `status B` shows a
  file that moved from B to A as an orphan.
* Lifecycle. The settle budget is meant to end a crash loop (`root.go:490-493`); if
  every poll meets a queued job, it is never charged (`lifecycle.go:182`). A unit whose
  start job was dropped ends inactive, gets a check mark and exit status 0
  (`lifecycle.go:68`).
* Images. A lock placed while an update asks its user is overwritten with the rest of
  the file (`imageupdate.go:303`); of two commands at once the first's edit is lost;
  a crash in the in-place write leaves a truncated registry.
* Secrets. Of two concurrent creates one registration is lost while its secret exists
  (`secretcreate.go:276`). For a name declared by hand under another key, `--name`
  and `--force` make a secret nobody declares (`secretcreate.go:168`, 222, against
  the comment at 219-221); the proof of `RecordedFirst` found it. create with another
  `--name` leaves the secret of the old name behind. prune removes by name what it
  found managed before its prompt (`secrets.go:205`): a secret that somebody has put in
  its place meanwhile goes, although the command's help says that others are never
  touched. A registry that a crash truncated refers to nothing, and prune then takes
  every managed secret that no unit names. An adopt undoes a rotation that came after
  it read the value.
* Vendor. A module whose path lies below another vendored module's is removed with it
  and hashed with it.
* Importer. `restart: on-failure:N` puts `StartLimitBurst` into `[Service]`, where the
  schema has none (`map.go:813`). A mount without a source is given a volume with
  no name. A disabled healthcheck suppresses the warning that there is none. A
  limit in `TimeoutStartSec` is cut to whole seconds (`map.go:894`): 61 tries at a
  second and a half get 121 seconds for 121.5. A dependency that has to complete is
  only waited for: whether it succeeded is not looked at (`mapDependsOn`). A
  variable in a field that does not pass through `rewrite` (DNS, GroupAdd, ExtraHosts,
  devices, sysctls, the target of a volume, names: `map.go:217`, 337, 603, 671, 683, 739,
  746) stays in the unit as text and nobody is asked for it, though `vars.go:10-13` has
  every variable become a field "instead of leaking" it; a default with a braceless
  `$NAME` in it is taken for text. With `--resolve` and a compose file that was
  discovered and not named, no variable is reported: the scan reads the paths given
  (`importer.go:378`).
* Builds. The hash of a build does not follow the hash of another build it starts
  from: a change there restarts nothing here. `buildhash.go` refuses two builds of
  one tag, and not a tag that is the file name of another build: a consumer that
  names it is stamped with the one or the other, and a change of the build it runs
  may go unnoticed. The proof of `StampFollows` needed the hypothesis.

## What is left out

Abstracted: contents and modes are values; rendering is a constant set of goals;
`os.RemoveAll`, `os.MkdirAll` and the rewriting of `crei.state` (temp file and
rename in the code) are single steps; a link always points to a file, never to a
directory; the quadlet directory itself exists; the random part of a temp name
is fresh among the sessions. The JSON form of the state and the units' manifest
entries are reduced to the recorded content. Hashes are taken to keep different
data apart. The remote of `Images` has one repository; what a semver constraint
admits is a set. Times in unit settings are whole seconds, and restart delays that
grow do so by whole factors. Of a compose project
the model has what references, names, order, health, limits and variables depend
on, as compose-go loads it; attributes that are copied are left out.

Not modelled: the words of status's RUNTIME column beyond starting, up, done and down;
the picker, the live drawing and `logs`; parsing of
systemctl's output and HTTP; git itself and sources other than the default;
templates, drawings and the printing of diffs, which are text made of text
without a state to get wrong; `init`, `config` and the refresh of the editor's
copy of the schema (two commands at once share its staging directory, with no
consequence for what crei renders); the section generator, which is not part of
the program. `PROJECT.json` gives each component's status and reason.

## The plan

1. **Done**: `QuadletTree`, `Apply`, `Staleness`, `Systemd`, `Lifecycle`; then
   `Reconcile` and the refinement, `Status`, `Versions`, `Images`, `Secrets`,
   `Vendor`, `Project`, `Graph`, `Lint`, `Compose`; the proofs listed above.
2. **Done**: the proofs of `Status`, `Images`, `Vendor`, `Secrets` and `Lint`.
3. **Done**: the proofs of the importer (`ImportKeepsApart`, `ImportOrders`) and of the
   restart rule (`FlapsCaught`), so that every safety and action property is a theorem.
4. Open: the hazards that `PROJECT.json` lists without a property, each with the
   reason.
