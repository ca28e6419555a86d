# concourse-operator: a TLA+ verification project

The operator reconciles seven Kubernetes custom resources (Instance, Team,
Pipeline, Job, Build, Resource, Worker) against a Concourse server, the ATC.
This directory models its core in TLA+, checks the models with TLC and proves
what matters most with TLAPS.

Run everything from this directory:

    tlc -workers 2 -config BuildStale.cfg MCBuildController
    tlc -workers 2 -config JobHistory.cfg MCJobController
    tlapm BuildController_proofs.tla
    tlapm PipelineController_proofs.tla

## 1. The system

### Components, state, operations

| Component | State | Operations | What makes it correct |
|---|---|---|---|
| Build controller (`internal/controller/build_controller.go`) | Build CR spec and status; the `watchers` map; builds in the ATC | trigger or adopt once, persist the id, abort, observe, comment, save, watch events | one ATC build per CR; a recorded outcome is true and final; it always gets one; a comment is where Ready says it is |
| Instance controller (`instance_controller.go`) | Instance CR, finalizer, ATC wall | probe, wall sync, finalizer and eviction, Secret watch | stays scheduled; recovers from credential changes; the wall converges; deletion completes |
| Client cache and auth (`internal/concourse/`) | `Cache.store` | Get, Set, Evict, GetOrBuild, BuildHTTPClient | the client fits the Instance that was read, and is not older than its version; none after deletion |
| Resolver (`resolver.go`) | none | walk Job, Pipeline, Team, Instance; get a client | only Ready and allowed ancestors are used |
| Pipeline controller (`pipeline_controller.go`) | config hash, pipeline id, finalizer | set-config with a version token, pause, expose, archive, delete | the ATC has the config the status claims; deletion deletes |
| Job controller (`job_controller.go`) | pause state, Build history | pause, fetch, prune Builds by limit and TTL | only surplus or expired Builds of its own go; the limits are reached; the pause arrives |
| Resource controller (`resource_controller.go`) | pin, disabled version IDs, check time | pin, unpin, comment, disable, enable, check | the pin arrives; what the operator disabled is what the spec lists; others' versions are left alone |
| Team controller (`team_controller.go`) | Ready, finalizer, owner reference | create or update with role bindings, delete | the finalizer leaves no team behind, destroys none unasked and lets go; roles arrive |
| Worker controller (`worker_controller.go`) | phase, StateTransitioning | land, prune, list | the lifecycle is reached and the phase reported |
| Manager (`cmd/main.go`) | | wiring | |

### How they interact

All controllers run in one process with one worker goroutine each, share one
`Cache`, read through the manager's informer cache and write to the API server
under optimistic locking. A CR is reconciled when its watch delivers a version,
when a timer fires (RequeueAfter, or the backoff of a returned error), when a
Secret of an Instance changes, and when a Build's event stream ends. A parent is
used only while its Ready condition is True.

### What is hard about it

Status is the operator's only memory, and a status write can conflict, fail, or
succeed with its answer lost; the ATC cannot be written in the same transaction.
Reads can be stale. Users edit and delete between any two calls. The process
restarts anywhere. Others change the ATC with fly. The ATC drops builds when a pipeline is recreated. Between
reconciles, only a queued request, a timer or an undelivered version brings a
CR back. `PROJECT.json` lists the hazards at their lines.

## 2. Modules

| Module | Models |
|---|---|
| `ApiServer` | Kubernetes as one reconciler sees it (external): the log of versions of one CR (its first element is the informer's copy, its last the server's), reads, optimistic locking with conflicts, refused writes and lost answers, the queue and the timer |
| `BuildController` | `BuildReconciler` for one Build CR, its watcher goroutine, restarts, users, and the ATC's builds; extends `ApiServer` |
| `BuildContract` | abstract: what the status of a Build promises to those who read it. It follows one ATC build at a time, never ahead of the ATC and never backwards, lets go only of a build that was dropped unfinished, and keeps an outcome |
| `InstanceController` | `InstanceReconciler` for one Instance, the client cache, the credential Secret, and Team/Worker threads as users of the cache; extends `ApiServer` |
| `PipelineController` | `PipelineReconciler` for one Pipeline, the ATC's pipelines, the ConfigMap, the Team, and a rival that sets the same pipeline; extends `ApiServer` |
| `Reconciler` | the loop that the next four share: take a request and read the CR, make calls, save, return; delivery, timers, restarts, user writes; extends `ApiServer` |
| `TeamController` | `TeamReconciler` for one Team, the ATC's teams, the Instance, the garbage collector |
| `WorkerController` | `WorkerReconciler` for one Worker, and the worker in the ATC, which lands, retires, stalls and registers by itself |
| `ResourceController` | `ResourceReconciler` for one Resource, and the resource in the ATC, which others pin, disable and remove |
| `JobController` | `JobReconciler` for one Job, its Builds with their own informer, and the job in the ATC |
| `*_proofs` | the theorems about each controller; `BuildController_proofs` also shows that it implements `BuildContract`; `Reconciler_proofs` holds the lemmas about the shared loop that four of them cite |
| `MC*` | the values used as constants in TLC's runs |

**Granularity.** One step is one call that leaves the process, or one region
under the cache's lock; local computation is part of the call before it. So
everything outside can happen between any two calls. `pc` names the call
Reconcile makes next, `b` (in `InstanceController`: `inst`) is its local copy of
the CR, `fresh` says that this copy carries the server's resourceVersion.
`attempt` counts `retry.RetryOnConflict`.
Actions of the environment (a parent breaks or heals, a user writes, the ATC
moves) translate no code of the operator and are marked external in
`PROJECT.json`.

**BuildController.** `StartNothing` ... `StartWithJob` are the reads at the top
of Reconcile with handleBuildLifecycle's cases in the code's order (suspend
before deletion before the terminal check). `SetOwner`, `Resolve*` (the client,
then the three ways of ensureBuildTriggered), `Trigger*`, `PersistGet` and
`PersistPut` (persistBuildTracking), `Abort`, `Observe*`, `Comment*`,
`SaveFinal` and `SaveEarly` follow in order. Every ATC request can fail; a
request that changes the ATC can also take effect and lose its answer. `chain`
is the readiness of Pipeline, Team and Instance; `job` is the Job's existence.
`Existing` are the ids a spec can name for adoption; the ATC has such a build from
the start or does not have it at all ("gone"). That it does not have it yet and
gives the id to another build later is left out.
Left out because no property speaks of it: build inputs and outputs, URLs,
times, events, log lines. `rerunOf` only selects the ATC call that triggers.

**InstanceController.** All threads run `LookupHit`/`LookupMiss`, `Build`, `Set`
for GetOrBuild's three regions. A client is the URL and the credential it was
built from; a cache entry is that and the resourceVersion of its key, so
versions carry `rv` here, and a status write that changes nothing keeps it. The
error text of a condition is part of the status for that reason (`cause`).
`known` is a history in each version: the credential that reads of the Secret
returned when it was written (`secret` is what the Secret's informer shows, so a
late delivery of a rotation is a late step). Evict empties the cache of the one
Instance, and so does Set before it stores. The
ATC accepts the credentials `oldest .. issued`; one it does not accept makes
every request fail, which is how the password grant behaves once its token has
expired. Reads that only fill status fields (user info, teams, pipelines, the
WallActive condition) are left out: they can only add further resourceVersions,
and only in passes in which the client works. `status.authSecretGeneration` is
left out because the API server keeps no generation for Secrets: it is always 0.
Wall TTLs and walls set by others are left out.

**PipelineController.** `Start*`, `Delete` and `RemoveFinalizer`, `AddFinalizer`,
`SetOwner`/`OwnerInPlace`, `Resolve`, `Load` follow Reconcile down to
syncPipelineConfig: `Fetch` and `Put` for the version and set-config, and again
("refetch", "reput") after a comparison error. `current` says that the fetched
version is still the ATC's. `Apply(f)` stands for the three state requests of
applyPipelineState, which differ only in the state they set; archiving has no
inverse. A config stands for its YAML and for its hash. A Pipeline's ConfigSynced
and ConfigWarning conditions and the observed jobs, groups and resources are left
out.

**BuildController as BuildContract.** `Contract` maps the recorded build id, the
recorded phase and the ATC's builds to the three variables of `BuildContract`;
everything else, the local copies, stale reads, retries and the watcher among
it, has to be a stutter or one of its three kinds of step.

**Reconciler.** `Take` and `Ignore` are the reads at the top of a Reconcile,
`Step` a call to Concourse, `Update` and `Finalize` writes of the object, `Save`
the status write and the return after it, with what the code returns when it
worked and when it did not. The controllers differ there: a suspended CR does
not come back after its save, a Worker that is not allowed does not even after a
save that failed, a Resource with a zero check interval asks for RequeueAfter 0,
which asks for nothing. lastApplied and lastChecked make every successful pass
of a Team or a checked Resource write a new version, which wakes the CR again;
timers may fire at any time here, which covers it.

**TeamController.** Suspend is looked at before deletion. `Delete*` are the
returns of deleteTeam (orphan, refused, no client, failed, done), any error
keeps the finalizer. `CreateOrUpdate` replaces the team's auth by what
buildTeamAuth makes of the roles. `Collect` is Kubernetes deleting what a gone
Instance owned. `absentFails` is the ATC's answer to DestroyTeam for a team it
does not have, which src/ does not determine; both are checked. Warnings, the
team ID and the URL are left out.

**WorkerController.** `inst` is the Instance as the pass read it at its top;
later checks use that copy and not the current one. `Land` stands for LandWorker
and PruneWorker. `Listed` keeps the code's detail that a worker that is not
listed keeps its StateTransitioning condition unless it was to be removed.
`strict` is an ATC that refuses requests it can do nothing for. The Stalled
condition and the fields copied from the ATC are left out; the workerName is
fixed.

**ResourceController.** `ReadPin` reads the resource, `AfterRead` is the case
distinction on that copy, so others may act before `Unpin`, `SetComment`,
`FindPin` (which lists the versions) or `Pin`. `Disable` works in any order (a Go map), `Enable` in the order of the
IDs; `done` are the requests this pass has made. "Not found" answers to write
requests are ignored, as the code does. A version is its ID, which grows as
checks find versions. `Check` and `Fetch` (fetchLatestVersion) are two requests,
whose errors are logged and do not fail the pass. `mine` (what the operator keeps
disabled), `told` (what the ATC changed for this pass) and `slipped` are histories
for the properties. A version slips for one of two reasons: the pass that changed
it ended without its last save having stored the list, or a request about it met
no resource, which the code does not notice. A later pass that changes the
version and records it takes it out again. A difference of `mine` and the status
with any other cause is not excused.

**JobController.** `builds` is a log as the CR's is: the informer's list first,
the server's last. `Fetch` fixes what pruneBuilds will delete, from the
informer's list: `Expires` by TTL, then `Beyond` each limit in any order that
sorting by creationTimestamp allows. `Prune` deletes one; an error (a Build that
is gone is one) ends the pass. "failed" stands for failed, errored and aborted.
`pruned` is a history. What the status copies from the ATC is left out except
paused.

**Bounds.** `MaxEdits` (user writes), `MaxFaults` with `FaultKinds`, the set
`Ids` of ATC builds, `MaxCred`. When all `Ids` are used the ATC creates no
further build; every run has at least one id more than its faults can consume.
Users' writes are bounded by the generation (Build) or `edits` (the others).
`MaxVersion` bounds a resource's versions, `NumBuilds` a Job's Builds, `MaxLag`
how far the list of Builds may be behind when others change them.

## 3. What the runs show

`CHECK_DEADLOCK FALSE` everywhere: a Build with an outcome is meant to rest, and
so is a deleted CR.

| Run | Bounds | Shows |
|---|---|---|
| `BuildStale` | 2 builds, none adopted, 2 user writes, stale reads, 1 recreation of the pipeline (2.3M states) | `OutcomeTruthful`, `OutcomeFinal`, `TrackingKept`, `ImplementsContract` |
| `BuildOnce` | 3 builds (1 adopted, which the ATC may not have), 1 user write, 1 fault among refused request, vanish, chain; Job early or late; no informer lag, so no duplicate from a read that is older than the recorded id | `TriggeredOnce` |
| `BuildLive` | any one fault, 1 user write, every early return but a missing Job | `TypeOK`, `WakeupArmed`, `EventuallyComplete`, `CancelStops` |
| `InstanceCache` | 1 consumer and the reconciler, 2 URLs (symmetric), 2 credentials, 2 user writes incl. recreation, Secret deleted once (6.3M states) | `ClientMatches`, `ClientNotOlder` |
| `InstanceLive` | any one fault, 1 user write, 1 rotation with overlap, every early return | `TypeOK`, `WakeupArmed`, `DeletionCompletes`, `CredentialsRecover`, `WallConverges` |
| `PipelineSync` | any two faults incl. version races, 1 user write (or deletion and recreation) | `TypeOK`, `ReadyInSync`, `ConfigConverges`, `DeletionCompletes` |
| `TeamLife` | any one fault, 2 user writes (deletion among them), 6 specs incl. `main`, 2 answers of the ATC (0.8M states) | `TypeOK`, `NothingLeftBehind`, `DestroyedOnRequest`, `RolesConverge`, `DeletionCompletes` |
| `WorkerLife` | any two faults, 1 user write, lenient or strict ATC (0.7M states) | `TypeOK`, `LifecycleReached`, `PhaseReported` |
| `ResourceSync` | any one fault, 1 user write, 2 versions of which one appears later, pins and disabled versions of others (0.6M states) | `TypeOK`, `DisabledAsListed`, `OnlyOwnEnabled`, `PinConverges`, `ListedDisabled`, `DroppedEnabled` |
| `JobHistory` | any one fault, 1 user write, 2 Builds of the Job and 1 foreign one, a TTL, limits 0 and 1, a list behind by 1 (1.4M states, the longest run with about 3 minutes) | `TypeOK`, `PrunesOnlyHistory`, `HistoryBounded`, `PauseConverges` |

One or two faults and user writes suffice for the interesting cases, because
each of them is a single interruption of one of the few windows between two
calls. For the safety properties the proofs of section 4 remove the bounds.
Adoption is in `BuildOnce` only; what `BuildStale` checks is proved with it.
`InstanceCache` runs without informer lag: what a late read gives a consumer, a
slow consumer that has read before has as well; the proof has any number of
consumers. In `JobHistory` two Builds of the Job hardly let a stale list matter
(the limit has to be counted against Builds that are gone already); that part of
`PrunesOnlyHistory` is the theorem's.

Two runs state what comments and documents say and find it violated:

| Run | What the code does |
|---|---|
| `BuildDuplicate` | a status write that fails with anything but a conflict right after the trigger leads to a second build |
| `InstanceRevoked` | a Secret rotated after the ATC refused the old credential is never read |

Further known limits have a configuration of their own, which TLC finds violated
(`tlc -config X.cfg` with the MC module):

| Configuration | What the code does |
|---|---|
| `BuildCommentDropped` | a comment that fails in the pass that sees the end is never retried |
| `BuildJobLate` | a Build created before its Job is never looked at again |
| `PipelineRenamed` | setting a pipelineName that was unset leaves Ready=True and no pipeline of that name |
| `InstanceWallLeft` | a wall removed from the spec during a status conflict stays up |
| `ResourceLeftDisabled` | a version that was disabled in a pass whose status save conflicts with the edit that drops it from the list stays disabled |
| `ResourceStaleID` | a pin whose answer was lost is found in place, and pinnedVersionID keeps the ID of the previous pin |
| `JobSameSecond` | Builds created in the same second may be sorted differently in two passes over the same old list, and more are deleted than the limit asks for |
| `JobStaleList` | a list that still shows a Build the last pass pruned counts it as kept: when the TTL of the one it was pruned for has run out, that one and an older Build go too, and no history is left, with no fault at all (`PrunesAboveLimit`; `PrunesOnlyHistory` counts newer Builds past their TTL for that reason) |

The passing runs leave these cases out, and some others that the model shows and
that follow from the same habit of comparing with the status instead of with
Concourse:

- After a vanished build `status.comment` is kept, so the fresh build does not
  get the comment; c1, c2, c1 during one conflict leaves c2 on the build. No run
  states that the comment in Concourse is the one Ready speaks of.
- An adopted build that vanishes is adopted again, every 5 seconds, for ever.
  `EventuallyComplete` is checked without adoption.
- A consumer that missed the cache before the finalizer evicted stores its client
  afterwards, and it outlives the Instance. Nobody is given it for a later version
  (`ClientMatches`, `ClientNotOlder`).
- A wall is not set on the new ATC when `spec.url` changes, and two rotations of
  which the second overtakes the recovery from the first end as `InstanceRevoked`
  does. `InstanceLive` has one URL and one rotation.
- A pipeline's config is compared with `status.configHash` only: c1, c2, c1 during
  one conflict or failed answer leaves c2 in Concourse, and what others change or
  delete there later is not noticed. `PipelineSync` has one edit, and its rival
  writes only between the fetch and set-config.
- A Worker or Resource whose parent is missing is not requeued and nothing
  watches the parent: a CR created too early waits for its own next event. The
  liveness properties assume `[]Reachable`.
- A Team deleted because its Instance is gone keeps its finalizer until an
  Instance of that name is Ready again; with an ATC that fails DestroyTeam for an
  absent team, a lost answer keeps it for ever (`DeletionCompletes` assumes
  `~absentFails`). A teamName set where it was unset leaves the old team behind.
- With an ATC that refuses to prune a worker it does not have, a Removed Worker
  ends in TransitionFailed and not in Removed (`Possible` in `PhaseReported`).
- A listed version that the status tracks and others enable with fly stays enabled,
  although resource_types.go:57 says that listed versions must be disabled:
  `ListedDisabled` speaks of what the operator did (`mine`).
- A Resource with a checkInterval of zero is reconciled only on its own events.
- A team can be destroyed because an old copy of the Team still asks for it
  (`DestroyedOnRequest` speaks of up-to-date copies).
- A TTL of zero deletes a Build as soon as it has ended; the comment at
  build_types.go:83 says that zero means keep.
- Every error of deletePipeline, a Team that is not Ready among them, leaves the
  Concourse pipeline behind, and nothing takes one out of the archive.
- An answer of CreateJobBuild that is lost leaves an orphan; without an
  idempotency key no client can avoid it, so `BuildOnce` leaves this fault out.

**Fairness.** `WF_vars(Reconcile)`, `Deliver`, `TimerFires`: the controller's
worker goroutine, the informer and the delaying queue run. Since faults are
bounded, weak fairness of Reconcile also means that requests succeed in the end.
Of the watcher only its regular end is fair, not the breaking of its stream.
`AtcStarts` and `AtcAborts` are fair: Concourse schedules pending builds and
carries out aborts. That builds end by themselves is a hypothesis of
`EventuallyComplete` (`BuildsEnd`) and not of `CancelStops`. The informer of a
Job's Builds is fair as the other one is (`DeliverBuild`). A worker in landing
lands and one that retires leaves (`WorkerLands`, `WorkerRetires`), which is
what Concourse's workers do; that one registers again is not fair. Nothing is
assumed of users, Secrets, parents, other clients of Concourse or the garbage
collector; the liveness properties carry those conditions as `<>[]` hypotheses.

## 4. What is proved

Every invariant and every action property that a run checks has a theorem. It
holds for every value of the constants: every set of ids, specs, names, threads
and Builds, every set of fault kinds and every bound, with or without informer
lag. The theorems rest on the `ASSUME`s of the modules, which TLC evaluates in
every run, and on the hypotheses in the third column.

| Theorem | States | If |
|---|---|---|
| `TypeCorrect` in all seven `*Controller_proofs` | `Spec => []TypeOK` | |
| Build: `OutcomeIsTruthful` | `[]OutcomeTruthful` | |
| `OutcomeIsFinal` | `OutcomeFinal` | |
| `TrackingIsKept` | `TrackingKept` | |
| `BuildImplementsContract` | `ImplementsContract` | |
| `AlwaysWoken` | `[]WakeupArmed` | `JobAtStart = {TRUE}` |
| `TriggersOnce` | `[]TriggeredOnce` | `Undisturbed` |
| Instance: `ClientsMatch` | `[]ClientMatches` | |
| `ClientsNotOlder` | `[]ClientNotOlder` | |
| `ProbeGoesOn` | `[]WakeupArmed` | |
| Pipeline: `ReadyMeansInSync` | `[]ReadyInSync` | no informer lag; `[][NoWayBack]_vars` |
| Team: `NothingStays` | `NothingLeftBehind` | |
| `OnlyOnRequest` | `DestroyedOnRequest` | |
| Resource: `DisablesWhatIsListed` | `[]DisabledAsListed` | |
| `EnablesOnlyItsOwn` | `OnlyOwnEnabled` | no informer lag |
| Job: `KeepsTheHistory` | `PrunesOnlyHistory` | `Distinct` |
| `PrunesOwnEnded` | what is pruned is the Job's and has ended | |

**The common argument.** The API server takes a write only from a copy that is
up to date. So the inductive invariants say what a *fresh* copy knows at each
`pc`, and nothing or little of a stale one, whose writes are refused; a user's
write, a fault or a delivery then keeps them for free, and each call of
Reconcile has to add its own piece. The type invariants are inductive once they
also say that a pass at work has a version as its copy (`CopyOK`, `TracksId`).

**Build.** `OutcomeIsTruthful`, `OutcomeIsFinal` and `TrackingIsKept` rest on
`TrackInv`: the status of a fresh copy is sound by itself (`Sound`: an outcome
belongs to a build the ATC has ended or dropped), it follows the recorded one
(`Follows`, `Tracks`) and, where it is about to be saved, its Complete condition
agrees (`Reported`). `ExistingKnown` and `NewKnown` say that adopted ids and the
id just created exist in the ATC, so an id that is not found is one that was
dropped. The refinement needs more of a fresh copy: its phase must not be ahead
of the ATC (`Ordered`) nor behind the recorded one (`Onward`); `OrderInv` adds
that. Every step that stores a status is then a `Report`, a `LetGo` or a
stutter, every step that moves builds an `AtcStep`, and all others stutter.

`AlwaysWoken` needs `Armed`. `WakeupArmed` speaks of an idle reconciler only; a
pass that returns without a requeue is safe because either its copy is up to
date and shows the reason, or something has been written since, and that version
is still to be delivered. The hypothesis excludes what `BuildJobLate.cfg` shows;
`BuildLive` runs with it as well.

`TriggersOnce` needs `Once`: the copy and the stored status agree on the tracked
build, except that a new one is not recorded while persisting, an adopted one
not yet stored, and a vanished one gone. `Undisturbed` excludes exactly what can
break that: faults of status writes and restarts between the trigger and the
record (`BuildDuplicate`), lost answers of CreateJobBuild, an informer that does
not show the recorded id yet, and as many user writes during
persistBuildTracking as RetryOnConflict has tries. The invariant counts those
(`TriesLeft`). Failing requests, dropped builds, a Job that appears late, unready
ancestors, and any number of ids are allowed.

**Instance.** `FactsFixed`: there is a function from resourceVersions to facts,
the URL and the credential `known`, with which every version and every thread's
copy agree, including versions the log has forgotten; every client in a thread
or in the cache was built for its version's URL with a credential at least as
new as that fact. `Dated` is why a new entry fits: no version was written under a
credential newer than the one a build reads now. That is why a key made of the
resourceVersion is enough, whatever was stored, evicted or created again; a key
of the generation would break both properties. `Armed` is the analogue of the
Build's.

**Pipeline.** `Sync` relates the stored object to the ATC (`RecordedOK`: a known
id means the pipeline is there, a recorded hash that the spec names means the
ATC has that config, and Ready of the current generation that it has the
states), a fresh copy to how far its pass has come (`CopyOK`), and a stale copy
to what it can still spoil (`PassOK`). `NoWayBack` says that no edit sets a
pipelineName (`PipelineRenamed`) and none goes back to the inline config whose
hash is recorded, which NeedsApply would take for applied although a pass whose
save was refused has set another one since. With a lagging informer the theorem
would be false: a second pass on the version before the save sets the config
again, and a rival's set-config during it is not noticed.

**Team.** `CopyOK` says that a fresh copy on the deleting path has the stored
spec and is the only version there is to read, and that at "finalize" nothing is
left to destroy for it (`Done`). `NoRevival` (no live version follows a deleted
one) and `Over` (a pass on an old version of a Team that is gone finds its team
destroyed, or never gets to deleting) are what informer lag needs.

**Resource.** `RecordOK` is the heart: for every version that neither slipped nor
was changed by the pass under way (`told`), the operator keeps it disabled exactly
if the stored list has it, and what the pass has changed is as its spec says.
`PassOK` says how far the pass is: its requests cover what the two lists differ
in, so that after the last one a copy that is up to date may replace the stored
list by the one of its spec. With `StoredOK` (if the current generation is Ready,
every version that can still be read has its spec, and its list is the stored
one) this gives `DisabledAsListed`, also for passes on old versions. An operator
that forgets to disable or to enable, or records a list it has not carried out,
breaks `RecordOK`. `OnlyOwnEnabled` follows from `RecordOK` and the stored list
being the copy's, which needs an informer that does not lag: a pass on an old
version enables what was tracked then, although a later pass has enabled it and
somebody else disabled it since.

**Job.** `HistoryOK` and `DoomedOK` say that a Build that was pruned but is still
listed, and every Build a pass has decided to delete, are past their TTL or have
enough newer ones that are spared or past their TTL; `Onward` that lists only
move on. The counting (`Newer`, `Beyond`) is proved with FiniteSetTheorems, for
`Distinct` creationTimestamps; without them it is false (`JobSameSecond`).

**Only model-checked.** All liveness properties (`EventuallyComplete`,
`CancelStops`, the `DeletionCompletes`, `CredentialsRecover`, `WallConverges`,
`ConfigConverges`, `RolesConverge`, `LifecycleReached`, `PhaseReported`,
`PinConverges`, `ListedDisabled`, `DroppedEnabled`, `HistoryBounded`,
`PauseConverges`): the prover does not handle fairness. What the hypotheses of
the third column leave out is what the configurations of section 3 show.

## 5. Plan

1. Proofs: `ReadyInSync` with a lagging informer and no rival; TLC finds no
   counterexample (two edits, one fault), and the invariant would have to order
   the versions still to be delivered. An abstract specification for the
   Pipeline or the Team, as `BuildContract` is for the Build.
2. `ReadyChain`: the conditions of Instance, Team, Pipeline and Job as the
   resolver reads them, at whatever generation, composed with two controllers.

## 6. Not modelled

- The manager's wiring and flags, metrics, Helm charts, generated code: no state
  of their own.
- TLS and OAuth details: external protocols. URLs, messages and recorded events:
  formatting.
- The ancestors' reconcilers together with their children's: each module has its
  ancestors as one variable that breaks and heals, so every order of their
  becoming Ready is covered, but not which generation Ready speaks of.
- Kubernetes' own validation, except which edits of names and references it lets
  through.
