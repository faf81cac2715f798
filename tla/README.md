# Verification of the zaentrum operator

TLA+ modules, TLC configurations and TLAPS proofs for the operator under
`src/operator`, kept beside its code. The operator reconciles one `Zaentrum`: it
renders the platform's chart, applies it, runs Jobs over its database and its
realm, tests it and reports. What is hard about it is not any one of these but
their order: every pass starts things, and remembers what it started in a status
that is written last, with the resourceVersion it read.

## Inventory

| Part | Source (`src/operator/`) | State it keeps | Operations | What makes it correct |
|---|---|---|---|---|
| Platform pass | `internal/controller/zaentrum_controller.go` | status of the Zaentrum | Reconcile: read, plan, render, apply, step each Job, roll the phase up, write status | nothing started is lost or started twice; the phase says what is there |
| Verification | `verify.go` | `status.verification`, its Job, the test account | decide, start, follow, judge | one run, its own verdict, every change verified, no loop |
| Database copy | `database.go` | the Postgres's volume, the copy Job | plan, start, switch, retake | never on a volume without the data |
| Restore | `restore.go` | `status.backup.restore`, the restore Job | plan, stop the clients, start, read the outcome | alone on the database, once per request, ends |
| Realm | `realm.go` | the realm Job | start when due, wait, retry | never beside a verification or a copy |
| Readiness and phase | `zaentrum_controller.go:268-294,484-610` | components, phase | read the Deployments from the cache, find stalled ones | Ready is earned, a stall shows |
| Channels | `internal/updates` | `currentVersion`, `availableUpdate` | discover, decide | the contract of `decision.go:34-47` |
| Digest pins | `internal/digest` | a cache in memory | resolve, fall back | moves only by a push |
| Backup report | `backup.go` | `status.backup`, the condition `Backup` | list the Jobs, read their summaries, report; remove the schedule | the last success never goes back, the dump named was written |
| Certificates | `tls.go` | the condition `TLS` | ask for cert-manager, read the Secret, put it into the render | no answer is never taken for "not there" |
| Self-report | `self.go` | `status.controller` | read and report | a report says what is |
| Prune | `prune.go` | the kinds lately not served, in memory | list, compare with the render, delete | removes nothing that is asked for, is another's or holds data |
| Secrets | `secrets.go`, the account in `verify.go` | the platform's Secrets | create once, fill key by key, remove the generated account | a value that is there stays, nothing starts without its Secret |
| Addon controller | `zaentrumaddon_controller.go` | ZaentrumAddon status, values Secrets | install, kill switch, prune, adopt, finalize, sweep | nothing of another owner is touched, nothing of its own is left |
| Addon charts | `internal/addon` | an archive cache (`fetch.go`) | fetch, render, guardrails, values | a chart is the one asked for; the rest is a function of chart and values |
| Templates, types, wiring | `internal/templates`, `api/v1alpha1`, `main.go` | none | render, flags, leader election | |
| Admin console | `src/apps/admin` | none | edits spec and annotations | |

How they interact. The parts of the platform pass run in one goroutine, in a
fixed order, over one reading of the Zaentrum, and hand facts to each other in
that order (`db.copying` to the restore, both to the render, the restore and the
verification to the realm run, all of them to the verification). Around them run
the user (spec and annotations), the Job, CronJob and Deployment controllers,
the kubelet, the registry and the channel document, and the operator itself may
die or fail a call at any point. The status write is refused when the Zaentrum
was edited since it was read. The addon controller shares the API server with
the platform pass but none of its objects.

The behaviours that are hard to test are listed in `PROJECT.json` under
"hazards", each at its line, with the properties below that cover it.

## Modules

Each module has its state as VARIABLES, one action per step of the pass between
two API calls, the world around it as further actions, and bounds on what the
environment may do (`MaxEdits`, `MaxFaults`, ...). `AbandonPass` is a crash of
the operator or an error that returns early; what the pass had done by then
stays. `MC<Module>` instantiates it, `<Module>Proofs` proves about it; `Rollout`,
`ChartCache` and `Backup`, which hand no facts to another module, share
`StandaloneProofs`, and `ChartCache` and `Backup` name their specifications
`CacheSpec` and `BackupSpec` so that one module can extend all three.

**Verification** (`verify.go`). A pass is `ReadZaentrum`, then `CollectRun` of a
run in flight or `DecideRun`, `ListRuns`, `ReplaceRuns` and `CreateRun` for a new
one, then `WriteStatus` or `ConflictOnWrite`. `status` is `status.verification`,
`v` the pass's copy of it, `jobs` the run Jobs on the API server with the labels
and annotations `adopt` reads back. A create may report an error and have made
the Job, a delete of several may stop at any of them. A run ends with what its
pods say (`Judgements` of `Report`), or loses its pods (`LosePods`); whether the
platform is Ready is an input. The observers `truth` (what runs ended with) and
`rested` (whether the operator rested on a verdict since the last edit) are only
read by properties.

**Report** (`verify.go:725-1006`) has no state: `chooseRunPod`, `runOutcome`,
`parses` (what `parseReport` accepts), `judge` with the recount of `fillChecks` in
the width of its counts (`Wrap`), `keepChecks` with its stable order. A run's
pods are any member of `Outcome`: `MCVerification` gives every kind of report
that is told apart, alone and in pairs of pods. `SaysSo` and `HidesNothing` are
the reference the algorithms are held against, written without them. `PodsLeft` is
all that is assumed of what a run leaves: sequences of pods, each with the time its
check ended, how, and a report of integers and a list of statuses of any length, or
none.

**SelfTest** is the abstract specification of a verification for whoever reads
`status.verification`: a run starts when none goes, ends or is dropped, and what is
recorded is something a run ended with. `Verification` implements it under the
mapping `running <- Going`, `ended <- Ends`, `recorded <- Recorded`; the run
checks it as the property `KeepsPromise` and the proof holds for every constant.

**PlatformPass** (`database.go`, `restore.go`, `realm.go`, and their order in
`Reconcile`). `BeginPass` plans the database and the restore, `ApplyPlatform`
switches the Postgres and applies, `StartCopy`, `StepRestore`, `StartRestore`,
`ConfigureRealm` and `VerifyPlatform` follow, `WriteStatus` ends. `pass` is what
the pass carries from one to the next. The pods of a restore (`rpods`) outlive a
Job that is deleted, which is what makes two restores meet. Time is events:
`AgeCopy` is the switch window passing, `DriftRealm` a realm run coming due.

**RestorePromise** is the abstract specification of a restore for whoever asks for one
and reads `status.backup.restore`, with no passes, plans, Jobs or Deployments: a
request is accepted or refused, may begin to write while nobody is served, ends, and
is recorded or lost; nobody is served again while the restore says it runs.
`PlatformPass` implements it under the mapping `recorded <- Recorded`, `work <- Work`
(what a live pass has decided and not recorded), `serving <- Serving` (clients or a
backup), `writers <- rpods`; the run checks it as `KeepsRestorePromise`, and the proof
holds for every constant. That there is one writer is no part of it, as the code does
not keep that (`OneRestore`): its `Start` adds a writer beside those that are left.

**Rollout** (`applyAll`, `refreshComponents`, `rolloutStalled`, the phase). The
Deployments are applied one by one (`ApplyOne`) and read back from a cache that
`SyncCache` brings up to date; a Deployment has available pods of the image its
controller acted on last (`new`) or of an earlier one (`old`), as `availableReplicas`
counts both. Spec and status are two things: `ApplyOne` writes the spec, and until the
Deployment controller has acted on it (`Act`) the status is that of the spec before,
which `refreshComponents` cannot tell, as it compares no `observedGeneration`. A pass
that fails before the apply or in it writes phase `Error` (`FailPass`); one that returns
early, loses its status write or dies writes nothing (`AbandonPass`). `MayVerify` is
where a pass may start a verification.

**Channel** (`internal/updates`, `internal/digest`, `resolveUpdate`). `Decide` is
the function of `decision.go`; `PinImage` is `Resolve` with its cache entry, TTL
and stale fallback; `Restart` loses the cache. A digest is the number of the push
that made it, so "older" and "newer" can be said.

**Addon** (`zaentrumaddon_controller.go`, `internal/addon/guardrails.go`, `plan.go`,
`vpn.go`). One ZaentrumAddon, whose chart says of each name whether it renders an
object and whether that object's pods are assigned to the VPN. A pass is
`ReadAddon` (`AddFinalizer` once), `ListKind` for each kind (`inventory`; the kinds
before the NetworkPolicy count as one), `CheckName` for each name (`Collisions`),
`ApplyPlan`, `Apply` of each object in the order of `AppliedKinds`, with
`ApplyImmutable`, `DeleteJob` and a second apply where a Job's template changed, then `Prune`, `PruneObject` and, for the kill switch, `LookForPods` and
`DropPolicy`; or `Finalize`. `obj` is what the API server has under each name: who
controls it and whether its template asks for the VPN. `scaled` are the workloads
whose controllers want a pod in the VPN, `pods` those that have one. Others make
and remove objects of the same names (`OthersMake`, `OthersRemove`); they never
take the addon's own objects away. `late` is an observer: the names others took
after the pass had looked them up. Fetch, values, schema and guardrails may refuse
the plan, which is a pass that stops (`CheckName`, `AbandonPass`); so does a
Deployment whose selector changed. `MaxEdits` also counts creating the addon again.

**AddonValues** (the values Secrets of the same controller, and
`internal/addon/generate.go`). `secret` is the metadata of each Secret (there,
owner, keep label, age), `stored` which draw each generated field holds. A pass is
`ReadAddon`, the collection (`ListUnreferenced`, `DeleteUnreferenced`),
`ReadValues`, `ReadGenerated` and `StoreGenerated` or `StoreConflict`, `Adopt` of
each Secret (a patch of those that were due one as `ReadValues` read them, which a
write since then refuses, `AdoptConflict`), `Render`; a collection that fails is
passed over; a removal is `ListKept` or `CannotKeep`, `KeepSecret` of
each, `Finalize` or `FinalizeConflict`. `touched` and `stale` are what a
resourceVersion tells: whether a Secret, or the addon, was written since it was
read. The sweep (`SweepSecrets`, `SweepDelete`) runs beside the passes. The
portal writes a Secret (`PortalWrite`) and points the addon at it later
(`PortalPoints`), or dies in between. Time is two ages, inside and past the grace
of the portal (10 minutes) and past that of the sweep (an hour), with the
assumption the code makes of them: the portal's second call, a pass and a sweep
each end within a grace (`Age` never ages a Secret the portal holds or the addon
refers to, and only without an addon is a Secret ever old). The finalizer is on
before the addon can be removed: one removed before its first pass ever ran keeps
nothing, whatever it asks. `doomed` is what a sweep listed, `handed` is an
observer. `Addon` and `AddonValues` share no state but the addon itself: values
only decide whether a plan is refused, which `Addon` leaves open.

**Secrets** (`secrets.go`, `ensureVerifyAccount` of `verify.go`). A pass takes the
platform's Secrets one by one: `ReadSecret`, then `MakeSecret`, `FillSecret` or
`KeepSecret`, then `ConcludeSecrets` for the condition, `Apply`, the same for the
self-test's account, `WriteStatus`. A create that finds the name taken is a
success (`CreateAbsent`), an update of a read that was overtaken is refused
(`UpdateRefused`, `moved`), and either may report an error and have happened. A
person, CI or a Helm install creates, fills, changes and removes Secrets, and edits
the Zaentrum, between any two steps. A value is a model value: drawn, or one an
earlier chart shipped to everyone.

**Prune** (`prune.go`; the questions a render waits for in `tls.go`; `applyAll`;
`removeBackupSchedule`). A pass is `ReadZaentrum`, `AskCertManager`,
`ReadCertificate`, `ApplyObject` of each, `ListKind` of each kind (or `NotServed`,
`SkipKind`, `ListFails`), `Remove` of each stale object (or `RemoveFails`),
`RemoveSchedule`, `WriteStatus`. An object says who controls it and whether it
is labelled and kept; the chart has one of each sort the code treats apart: the
Postgres, a Route that carries the certificate, the backups' CronJob, the
Certificate. `unserved` is the operator's memory of `unservedLately`, which
`Recheck` and `Restart` clear. Others edit the Zaentrum, install and remove APIs,
take objects over, mark, delete and remake them, and write the certificate's Secret;
`moved` and `remade` are observers of that.

**ChartCache** (`internal/addon/fetch.go`). `Fetch` is one step, as addons are
reconciled one at a time: from the cache, from the network, or what was last
fetched when the network does not answer. What is cached is named by the fetch that
stored it: `fetched` is the history of those since the operator started, `archives`
says of each digest (an archive's own, or that of a manifest) which fetch it is held
from, `refs` which fetch a ref and version last was. `Bytes` adds sizes up, `evict`
takes the oldest away until the rest fits. `registry` is what each place holds,
`Push` changes it, `Expire` is the TTL, `Restart` an operator that starts with an
empty cache. `answer` is what the last `Fetch` was asked and gave.

**Backup** (`reportBackups`, `backupSummary`, `removeBackupSchedule`). A pass reads the
Zaentrum (`ReadZaentrum`) and the Jobs (`ListJobs`), takes them into its copy of
`status.backup` and the condition one by one, newest first (`ReportJob`; of those made
in one second, in the order the list has them), and writes (`WriteBackup`);
`AbandonReport` is one that dies or fails. Jobs are created under any name, also from a
schedule turned off that is still there, run beside each other, are made and end in any
order and in the same second, and go, with their pods or after them. `Take` is what one Job does
to `status.backup`. `Switch` edits the Zaentrum. `missed` and `ended` are observers.

## Runs

The largest, `platform_pass`, has 2.9 million distinct states, `prune` and `verification` 1.9 and 1.8,
`backup` 2.4 million, `addon_values` 1.1; each takes one to three minutes. Most modules'
`TypeOK` is proved (`TypeCorrect`) and not run again.

| Run | Checks | Bounds |
|---|---|---|
| `verification` | `ReportIsFaithful`, `KeepsPromise`, `InFlightNotReplaced`, `AnsweredByItsRun`, `QuietAfterVerdict`, `EveryChangeVerified` | 2 Job names, 2 fingerprints, 2 requests, 2 edits, 1 fault; pods with reports of up to 3 checks, of which 2 are kept, counts up to 7 |
| `platform_pass` | `ServesWholeCopy`, `RestoresAlone`, `AnsweredOnce`, `VerifyWaitsForRealm`, `KeepsRestorePromise` | 2 restore Jobs, 2 requests one of which names no dump, 2 toggles, 1 edit of the annotation, 1 fault |
| `platform_pass_fixed` | `NothingStartsDuringCopy`, `RequestsEnd` | migrate fixed, 1 edit, 1 fault, 1 drift of the realm |
| `platform_pass_one_restore` | `OneRestore`, violated | as above, 2 edits |
| `rollout` | `ReadyMeansCameUp`, `PhaseSettles` | 2 Deployments, one a client of the database; an image that pulls and one that does not; 2 edits, 1 fault |
| `channel` | `NeverRollsBack`, `RolledByPush`, `Settles` | 2 releases and latest, 2 edits, 2 pushes, 2 faults |
| `addon` | `OthersKept`, `PolicyFirst`, `PolicyLast`, `Converges` | 1 Deployment, 1 Job and the kill switch, 2 creations, 1 edit, 1 fault, 1 object of another |
| `addon_values` | `ReferencedThere`, `HandedStay`, `HandedBack`, `NeverOverwrites`, `Tidy` | 2 values Secrets, 2 generated fields in 2 charts, 2 creations, 1 edit, 1 fault |
| `secrets` | `AppliedComplete`, `ValuesStay`, `SecretsSettle` | 2 platform Secrets, one for each condition a Secret depends on, and the account; 2 keys, 2 drawn values and a published one, 1 edit, 1 fault |
| `prune` | `RemovesItsOwn`, `RemovesNothingAskedFor`, `RoutesKeepCertificate`, `PruneSettles` | one object of each sort, every spec, cluster and label to begin with, 1 edit, 1 fault |
| `chart_cache` | `CacheOK`, `PinnedIsExact`, `ServesItsPlace` | an OCI ref with 2 versions and a link, 3 archives under 3 manifests, two of one archive, a cache of 2 of their sizes, 3 pushes, 3 fetches between restarts |
| `backup` | `DumpIsASuccess`, `NeverBack`, `BackupSettles` | 2 Jobs under names in either order, made and ended in any of the seconds they take; 1 edit, 2 faults |

Why these bounds are enough to be interesting: two Job names let a run follow
one that is gone (a name is drawn again only once nothing names it); two edits
let a request and an update meet, or a request be set and set again; one fault
is one crash, lost status, failed or half-done call at every place there is. Two
creations of an addon are what it takes for the objects and Secrets of an old one
to meet a new one; one Deployment and one Job are the two ways a pod comes up and
the two ways an object is replaced; two values Secrets let one supersede the
other, two charts let a field be added to a generated Secret. One edit of another
writer at any place of a pass is what a race with a Secret or a listed object
takes, and every state an install may be found in is an initial one. Three
archives in a cache of two evict, and two manifests of one archive leave an entry
under a name that is taken over. Two Jobs overlap, share a second or end out of
order. Each property is
also broken by a plausible bug (`PROJECT.json`, "mutants") within these bounds, so
the cases it is about do happen. The proofs remove the bounds for the safety
properties.

Deadlock is checked except for the addons: an addon that was removed for good,
with no creation and nothing to collect left, is a system at rest.

## Fairness

`WF_vars(Pass)` or `WF_vars(Step)`: every pass requeues itself
(`zaentrum_controller.go:322-325`), an error requeues with backoff, so a next
pass, and a next step of this one, always comes. `SF` on `ReadZaentrum(TRUE)`
(the platform is Ready again and again: without it no update is ever verified, as
the code intends) and on `BeginPass(TRUE)` (the Postgres is available again and
again). Jobs have an `activeDeadlineSeconds`, so they end; the Deployment
controller brings a pod up or gives up; the watch delivers. No fairness is
assumed of the user, of faults, or of a Job ending with any particular outcome.
`SF` on `MoveClients`: pods follow their Deployment even if the wanted count moves
to and fro. For the addons: a pass goes on and recurs (`addonRequeueRetry`,
`addonRequeueSettled`), the sweep recurs every `valuesSweepInterval`, garbage is
collected, a controller whose workload is gone lets its pods go and they stop, a
request to the portal ends one way or the other, and time passes. No fairness is
assumed of the author, the portal's second call, or others. `secrets`, `prune` and
`backup` assume that passes go on (`WF` of `Pass`), `prune` also that `unservedRecheck`
passes (`Recheck`); `chart_cache` assumes nothing and promises nothing in the end.

## What the code does not do, though it says so

One is a run with `expect: violation` and an entry under "findings":
`platform_pass_one_restore`. A lost status starts a second restore over the pod
of the first (`restore.go:187-201`; "One restore at a time", `restore.go:43`). That the
other is only ever a pod whose Job was deleted is proved (`SecondRestoreIsAnOrphan`).

Four more were found the same way, each as a trace of TLC over these modules; the
properties the runs check are worded so as to leave exactly these out:

- A verification starts against the rollout: `ready` counts the available pods of
  the old ReplicaSet, read from a cache behind the pass's own apply
  (`zaentrum_controller.go:512-520`; "Never against a platform that is still
  rolling out: the run would report the rollout", `verify.go:186-187`).
- A release moves to latest by a blip: `currentVersion` is written only when a whole
  pass succeeded, so after a first apply that failed half-way a failed discovery
  counts as a new install (`decision.go:57-61`; "a network blip must not move a
  release install over to latest", `decision.go:45-46`). `Settles` allows for it.
- A pod leaves the VPN before it stops: the kill switch is deleted on one look at the
  pods, and only then the workloads, whose controllers may start one in between
  (`zaentrumaddon_controller.go:962-981`; "so that a pod rolling out of the VPN is
  never without it", `:954-955`). `PolicyLast` says what is left of it.
- An addon created again before the old one's generated Secret is collected runs
  with those values, loses them and draws others: the Secret is read by its name
  alone (`zaentrumaddon_controller.go:821-830`; "never changing one", `:815-817`).

The same two causes, a status that is written last and one that is trusted, show
up in four more places that the models have and no run repeats: a failed
verification whose status write was lost is run again without a request; a lost
status lets a realm run start beside the verification run; a Create that reported
an error and made the restore Job lets the clients start while it restores; and
`migrate` switched off during a copy lets a realm run, a verification or a restore
start beside it, which is why `NothingStartsDuringCopy` is checked with `migrate`
fixed, and proved on the hypothesis that it is not turned off. And the resolver's last-known digests are lost with the process, which is
why `RolledByPush` is said of one life of the operator.

Three more of the addons, said here and left out of the properties: names are
checked once and applied with force later, so an object another makes under a
name in between is taken over (`OthersKept` excepts `late`, against
`guardrails.go:612-614`); a Job to be replaced is deleted by its name without its
UID (`zaentrumaddon_controller.go:940`); and a keep label on a Secret does not
last if the addon is removed before a pass has released it.

And of the modules on Secrets, charts and reports:

- The prune reads label, owner and keep mark from its list and deletes with a
  precondition on the UID alone (`prune.go:141-143`): an object another takes over
  or marks in between goes all the same, against "nothing without it ever is"
  (`templates.go:39`). `RemovesItsOwn` excepts it. The backups' schedule is deleted by its
  name, with no precondition (`backup.go:181`), and so is the generated account
  (`verify.go:475-482`), which a person may have replaced since it was read.
- A restart, or charts that fill the cache, lose the archive last fetched, so "a
  registry blip must not fail an addon that is already installed" (`fetch.go:79-80`)
  holds for as long as the cache can hold the archive; `ServesItsPlace` says how long.
- If the pods of the latest success are gone, or unreadable, when a pass first sees
  it, `LastDump` stays that of an older success for good, as the summary is only
  read of a success that is later than any before (`backup.go:115-123`; "LastDump is
  the dump that backup wrote", `zaentrum_types.go:893`).
- A Secret created by someone else between the operator's read and its create is
  taken for the operator's own, whatever keys it has, and the platform is applied
  (`secrets.go:247-252`); the next pass fills it. `AppliedComplete` excepts it.
- The counts of a report are added up in 32 bits before they are compared
  (`verify.go:960`): only a report whose counts overflow shows a difference.

## Proofs

TLAPS checks, for every value of the constants that meets their assumptions:

| Module | Theorem | States |
|---|---|---|
| `VerificationProofs` | `TypeCorrect`, `AtMostOneRun`, `NeverReplaced`, `VerdictsAreReal`, `ImplementsSelfTest` | `TypeOK`, `OneRun`, `InFlightNotReplaced`, `VerdictIsOfItsRun`, `KeepsPromise` |
| | `RequestsAnsweredByTheirRun`, `VerdictIsFinal`, `ReportsAreFaithful` | `AnsweredByItsRun`, `QuietAfterVerdict`, `ReportIsFaithful` |
| `PlatformPassProofs` | `TypeCorrect`, `OnlyWholeCopies`, `RestoreRunsAlone`, `NoAnsweredRestart`, `VerifiesAfterRealm` | `TypeOK`, `ServesWholeCopy`, `RestoresAlone`, `AnsweredOnce`, `VerifyWaitsForRealm` |
| | `ImplementsRestorePromise` | `KeepsRestorePromise` |
| | `CopyRunsAlone` | `NothingStartsDuringCopy`, while `migrate` is not turned off |
| | `SecondRestoreIsAnOrphan` | where two restores have a pod, the Job of one was deleted |
| `StandaloneProofs` | `RolloutTypeCorrect`, `ReadyIsEarned` | of `Rollout`: `TypeOK`, `ReadyMeansCameUp` |
| | `CacheStaysBounded`, `PinsAreServedExactly`, `RefsServeTheirPlace` | of `ChartCache`: `CacheOK`, `PinnedIsExact`, `ServesItsPlace` |
| | `BackupTypeCorrect`, `TheDumpIsASuccess`, `StatusNeverGoesBack` | of `Backup`: `BackupOK`, `DumpIsASuccess`, `NeverBack` |
| `ChannelProofs` | `TypeCorrect`, `NeverBack`, `PushesRoll` | `TypeOK`, `NeverRollsBack`, `RolledByPush` |
| `AddonProofs` | `TypeCorrect`, `OthersAreKept`, `KillSwitchComesFirst`, `KillSwitchGoesLast` | `TypeOK`, `OthersKept`, `PolicyFirst`, `PolicyLast` |
| `AddonValuesProofs` | `TypeCorrect`, `NothingIsTakenAway`, `HandedBackStays`, `KeptBeforeGone`, `ValuesAreKept` | `TypeOK`, `ReferencedThere`, `HandedStay`, `HandedBack`, `NeverOverwrites` |
| `SecretsProofs` | `TypeCorrect`, `NoPodWithoutItsSecrets`, `NoValueReplaced` | `TypeOK`, `AppliedComplete`, `ValuesStay` |
| `PruneProofs` | `TypeCorrect`, `OnlyItsOwn`, `NothingAskedFor`, `RouteKeepsCertificate` | `TypeOK`, `RemovesItsOwn`, `RemovesNothingAskedFor`, `RoutesKeepCertificate` |

The arguments, each an inductive invariant that was also checked with TLC:

- `OneRun` is not inductive: a pass at `create` adds a Job whatever is there. The
  invariant adds that at `create` there is none, and at `replace` none in flight,
  which holds because only the operator makes runs and it is one process.
- `VerdictIsOfItsRun` needs that a status and a pass's copy of it follow a Job
  that was made for what they say (`Follows`), or hold a verdict some run had
  (`Real`), and that a finished Job's outcome is recorded (`Ended`).
- `KeepsPromise` follows from these two, action by action: a create starts a run
  because there is none, an end is recorded in `truth`, every other way a Job goes is
  a drop, and a status that is written holds a verdict that is in `truth`.
- `AnsweredByItsRun` needs `AnswerInv`: until a pass has judged or made a run its copy
  is the status as it is, and a copy with another request than the status follows a
  Job made for that request, or one that is gone.
- `QuietAfterVerdict` needs `Resting`: where a verdict stands, a pass that is under way
  read it, with the request and the images as they are: it finds nothing to start and
  writes the status back as it read it. It says nothing of what an edit brings: a
  verification that is disabled, or a run that cannot be started, replaces the verdict.
- `ReportIsFaithful` is no matter of steps but of sequences of any length. The pod
  chosen exists because a finite order has a first element (`FirstOf`, by the
  well-founded order of strict subsets). The place of a check in `keepChecks` is how
  many come before it; places are a bijection with `0 .. Len - 1` (`PlacesBijection`),
  so as many are kept as fit (`KeptAreAsMany`), and what is cut has a later place than
  all that is kept (`CutComesAfter`).
- `ServesWholeCopy` needs `CopyInv`: a pass that carries the claim as its volume
  saw a finished copy, and no copy starts until that pass has applied it.
- `RestoresAlone` needs `RestoreInv`: from the step at which the restore starts
  to the last pass that finds it running, what was applied is "down".
- `KeepsRestorePromise` needs `RestoreInv` too, as a restore starts to write where its
  promise says nobody is served, and `WorkInv`: what a pass carries is what is recorded,
  or the work on a request, which has begun or has an outcome. Action by action, a plan
  resumes, accepts or does nothing, the step of the restore starts or ends one
  (`WorkSteps`), a status that is written records, and a pass that dies loses.
- `VerifyWaitsForRealm` needs `RealmInv`: between the realm step and the
  verification step of a pass only the pass could start a realm run.
- `NothingStartsDuringCopy` needs `FlightInv`: a copy in flight is one a pass planned
  with no restore under way, and every pass since found it, so it knows of it and has
  planned no restore. All of it rests on `migrate` staying on: that is its hypothesis
  (`MigrateStays`), and TLC has the trace that breaks the property without it.
- `SecondRestoreIsAnOrphan` needs `JobInv`: one restore Job at most is active, as its
  start deletes all the others, and a pod's Job is active or gone.
- The cache needs `CacheInv`: a digest is held from a fetch it names (`Named`), a ref
  knows the latest fetch of its place (`Tracked`), and a fetch whose archive is gone is
  followed by more bytes than the cache may hold (`Kept`). That `evict` stops, and at the
  first fetch from which on all fits, is `EvictFits`; that its sums grow with what is
  stored is `BytesGrow`. What the recursive function `Bytes` adds up is shown without an
  induction theorem, from the least counterexample (`LeastNumber`, `TheSum`).
- `DumpIsASuccess` needs `DumpInv`: the status a pass carries names a dump as the
  recorded one does, through each Job it takes, and what it lists has ended. `NeverBack`
  needs `LaterInv`: what a live pass carries is no earlier than what is recorded.
- `ReadyMeansCameUp` needs `UpInv`: whatever is in the cache was once on the
  server, so a Deployment that reads as available was available.
- The channel needs `PinInv`: a cached pin is one the registry served; what is
  applied is no newer than the cached pin of its tag; and a process that has
  pinned it still knows it.
- `OthersKept` needs `OthersInv`: a name still to be applied is free, the addon's
  own, or was taken since it was looked up. `PolicyFirst` needs `PolicyInv`: once the kill
  switch is off the list it stands, and by `Due` no workload comes off before it.
  `PolicyLast` needs `AppliedInv` and `DropInv`: a workload that asks for the VPN
  though the chart no longer says so was not rendered, so it was listed, and is on
  the list of what goes.
- `ReferencedThere` and `HandedStay` need `OwnInv`: what the portal holds is young
  and owned by no one, what the addon refers to is owned by it or no one, what was
  handed back is kept and owned by no one, and what a collection or a sweep has
  listed is none of these and, as a name is written once, never will be. That what a
  pass finds kept is no longer owned needs `DueInv`: what was not due a patch when it
  was read, and is as it was, is either owned or kept.
- `HandedBack` needs `KeepInv`: while the removal is still as it was read, every
  Secret off the list is kept and not owned by the addon. Any write to the addon
  makes it stale, and a stale removal does not end.
- `NeverOverwrites` needs `StoreInv`: a Secret that is still as it was read lacks
  what the pass found missing.
- `AppliedComplete` and `ValuesStay` need `KeepInv`: a Secret that is not there holds
  nothing (`Whole`), what the pass holds is what is there unless it was written since
  and the pass will be refused (`Held`), and what it has dealt with is complete or
  was touched by another (`Done`).
- `RemovesNothingAskedFor` and `RoutesKeepCertificate` need `Knows`: what the pass
  carries is what it read, and that is what is there unless it changed during the
  pass, with no answer left out. `RemovesItsOwn` needs `Listed`: a stale object is of a
  kind already listed, is not rendered, and is as it was listed, gone, remade
  (the precondition then holds it) or changed by another.

Assumptions: the sentinels are no members of the sets they mark the absence of,
the bounds are natural numbers, clients are Deployments, pullable images are
images; the chart is a sequence of its objects and every kind is listed once;
the account is not one of the platform's Secrets; a manifest is of one archive, and
sizes are natural numbers; the pods of a run are pods (`PodsLeft`). Nothing else, but
for the hypothesis of `CopyRunsAlone`.

Every safety property of a passing run is proved. Only model-checked: liveness
(`EveryChangeVerified`, `RequestsEnd`, `PhaseSettles`, `Settles`, `Converges`, `Tidy`,
`SecretsSettle`, `PruneSettles`, `BackupSettles`), which the prover does not reach; and
`OneRestore`, which the code does not keep.

## Not modelled

- A call of an operator that has died and lands later; leader election keeps one
  active manager (`main.go`), which every module assumes.
- The pods of deleted verification Jobs that linger (`verify.go:408-409`); those of
  restores are modelled, as they write to the database.
- The lag between the suspended CronJob and the backup it may still start.
- External databases, and a change of the claim's name.
- The status of an addon and the state of its components (`refreshComponents`);
  ConfigMaps in `valuesFrom`, which are adopted as Secrets are and never collected
  nor handed back.
- Of an addon's values, `LayerValues` and the schema; `Changes` of its plan; its
  guardrails, which look at one manifest and keep no state: they refuse a plan.
- What a certificate says (hosts, expiry, chain) and how it is issued; a Zaentrum
  without `spec.tls`; whether the cluster is OpenShift, an answer cached for good
  whose absence ends a pass.
- `self.go`, a reading of the operator's own image that changes nothing else.
- How a chart travels (redirects, refused addresses, size): a fetch that fails.
- Messages and timestamps, and the conditions but those named above.
- The chart, its scripts and the Jobs' insides; the admin console.

## Plan

Done: `Verification` with `Report` and `SelfTest`, `PlatformPass`, `Rollout`, `Channel`,
`Addon`, `AddonValues`, `Secrets`, `Prune`, `ChartCache`, `Backup`, `RestorePromise`.

What is left, in this order:

1. The status of an addon with `refreshComponents`, and `self.go`.
2. `LayerValues` and `Changes` against reference definitions.
