--------------------------- MODULE BuildController ---------------------------
(***************************************************************************)
(* BuildReconciler (internal/controller/build_controller.go) for one Build *)
(* custom resource, the API server and informer cache it reads and writes  *)
(* through, and the Concourse ATC whose builds it triggers, adopts, aborts, *)
(* comments on and observes.                                               *)
(*                                                                         *)
(* One step of the module is one call that leaves the process (an ATC      *)
(* request, a read of the informer cache, a write to the API server), so   *)
(* that user edits, ATC progress, watch delivery, timers and crashes can   *)
(* happen between any two calls of one Reconcile.                          *)
(***************************************************************************)
EXTENDS ApiServer

CONSTANTS
    Ids,         \* ATC build ids the model can hand out (0 stands for nil)
    Existing,    \* the ids a spec can name for adoption: the ATC has their builds
                 \* before there is the Build CR, or does not have them at all
    Specs,       \* specs the Build CR is created with or edited to
    Comments,    \* non-empty comments used by Specs
    Outcomes,    \* the terminal phases a running ATC build may end in
    RetrySteps,  \* retry.DefaultRetry.Steps, 5 in client-go
    JobAtStart,  \* is the referenced Job in the cluster when the CR is made?
    MaxEdits     \* bound: spec edits and deletion marks of the Build CR

Terminal == {"succeeded", "failed", "errored", "aborted"}

AllFaults == {"crash", "atcError", "atcLost", "apiError", "apiLost",
              "vanish", "chain"}

ASSUME BuildAssumption ==
    /\ Ids \subseteq Nat \ {0}
    /\ Existing \subseteq Ids
    /\ Outcomes \subseteq Terminal
    /\ RetrySteps \in Nat \ {0}
    /\ JobAtStart \subseteq BOOLEAN
    /\ InformerLag \in BOOLEAN
    /\ MaxEdits \in Nat
    /\ MaxFaults \in Nat
    /\ FaultKinds \subseteq AllFaults
    /\ "" \notin Comments

\* BuildSpec. jobRef is "none" only in an object stored before the CRD's
\* validation rule; "local" and "remote" name a Job in the same namespace and in
\* another one. RerunOf only selects which ATC call triggers the build.
Spec_ == [jobRef   : {"none", "local", "remote"},
          suspend  : BOOLEAN,
          canceled : BOOLEAN,
          buildID  : Existing \cup {0},
          comment  : Comments \cup {""}]

ASSUME SpecsAssumption == Specs \subseteq Spec_

ReadyReasons == {"", "Suspended", "NoJobRef", "ChainNotReady",
                 "TriggerFailed", "CommentFailed", "Tracked"}

\* BuildStatus: the tracking fields, the Ready condition (its reason and its
\* observedGeneration; it is True exactly for "Tracked") and the Complete
\* condition (its reason, whose generation is always `observed').
Status == [buildID  : Ids \cup {0},
           phase    : {"", "pending", "started"} \cup Terminal,
           comment  : Comments \cup {""},
           ready    : ReadyReasons,
           readyGen : Nat,
           complete : {"", "InProgress"} \cup Terminal,
           observed : Nat]

NoStatus == [buildID |-> 0, phase |-> "", comment |-> "", ready |-> "",
             readyGen |-> 0, complete |-> "", observed |-> 0]

\* One version of the Build CR as the API server stores it.
Version == [life   : {"live", "deleting", "gone"},
            owned  : BOOLEAN,
            gen    : Nat,
            spec   : Spec_,
            status : Status]

NoSpec == [jobRef |-> "none", suspend |-> FALSE, canceled |-> FALSE,
           buildID |-> 0, comment |-> ""]

NoCopy == [life |-> "gone", owned |-> FALSE, gen |-> 0, spec |-> NoSpec,
           status |-> NoStatus]

\* Status writes that end a Reconcile early, named after what they report.
EarlySaves == {"suspended", "noJobRef", "chainNotReady", "triggerFailed",
               "vanished"}

Pcs == {"idle", "owner", "resolve", "trigger", "persistGet", "persistPut",
        "abort", "observe", "comment", "saveFinal"} \cup EarlySaves

AtcStates == {"none", "pending", "started", "gone"} \cup Terminal

VARIABLES
    pc,       \* the call Reconcile makes next, "idle" between reconciles
    b,        \* Reconcile's local copy of the Build
    attempt,  \* tries of retry.RetryOnConflict used so far
    watcher   \* the watchBuildEvents goroutine: its build, has it enqueued?

VARIABLES
    atc,        \* the ATC's build of each id
    atcComment, \* the comment the ATC holds for it
    aborting,   \* builds the ATC was asked to abort
    triggered,  \* history: builds created for this CR by the operator
    job,        \* the referenced Job CR is in the cluster
    chain       \* Pipeline, Team and Instance are Ready: a client resolves

crVars  == <<log, queued, timer>>
recVars == <<pc, b, fresh, attempt>>
atcVars == <<atc, atcComment, aborting, triggered>>
envVars == <<job, chain, faults>>
vars    == <<crVars, recVars, watcher, atcVars, envVars>>

isTerminal(phase) == phase \in Terminal

NoWatcher == [id |-> 0, sent |-> FALSE]

LogOK(l) == l \in Seq(Version) /\ Len(l) > 0

QueueOK == queued \in BOOLEAN /\ timer \in BOOLEAN

RecOK == pc \in Pcs /\ b \in Version /\ fresh \in BOOLEAN

CountersOK == attempt \in 0 .. RetrySteps /\ faults \in 0 .. MaxFaults

WatcherOK == watcher \in [id : Ids \cup {0}, sent : BOOLEAN]

AtcOK ==
    /\ atc \in [Ids -> AtcStates]
    /\ atcComment \in [Ids -> Comments \cup {""}]
    /\ aborting \subseteq Ids /\ triggered \subseteq Ids

\* The types of all variables.
TypeOK ==
    /\ LogOK(log) /\ QueueOK /\ RecOK /\ CountersOK /\ WatcherOK /\ AtcOK
    /\ job \in BOOLEAN /\ chain \in BOOLEAN

Init ==
    /\ \E s \in Specs, o \in BOOLEAN :
          log = << [life |-> "live", owned |-> o, gen |-> 0, spec |-> s,
                    status |-> NoStatus] >>
    /\ queued = TRUE /\ timer = FALSE
    /\ pc = "idle" /\ b = NoCopy /\ fresh = FALSE /\ attempt = 0
    /\ watcher = NoWatcher
    /\ \E f \in [Existing -> {"started", "gone"} \cup Outcomes] :
          atc = [i \in Ids |-> IF i \in Existing THEN f[i] ELSE "none"]
    /\ atcComment = [i \in Ids |-> ""]
    /\ aborting = {} /\ triggered = {}
    /\ job \in JobAtStart
    /\ chain = TRUE /\ faults = 0

-----------------------------------------------------------------------------
(***************************************************************************)
(* Reconcile's local copy, its status writes and its returns.              *)
(***************************************************************************)
\* Assignments to the local copy; setReady is setCondition(Ready, ...) at the
\* copy's generation.
setOwned(v)         == [v EXCEPT !.owned = TRUE]
setStatus(v, s)     == [v EXCEPT !.status = s]
setBuildID(v, i)    == [v EXCEPT !.status.buildID = i]
setPhase(v, p)      == [v EXCEPT !.status.phase = p]
setComment(v, c)    == [v EXCEPT !.status.comment = c]
setReady(v, reason) == [v EXCEPT !.status.ready = reason,
                                 !.status.readyGen = v.gen]

\* Status().Update(build): only the status of the stored object is replaced.
StatusUpdate(res) == APIUpdate(setStatus(Latest, b.status), res)

\* Reconcile returns; requeue covers RequeueAfter and a returned error.
Return(requeue) ==
    /\ pc' = "idle" /\ b' = NoCopy /\ fresh' = FALSE /\ attempt' = 0
    /\ timer' = (timer \/ requeue)

\* Reconcile goes on with its next call.
Goto(next) == pc' = next /\ UNCHANGED <<timer, attempt>>

-----------------------------------------------------------------------------
(***************************************************************************)
(* Reconcile, up to a resolved client.                                     *)
(***************************************************************************)
\* The request is taken and the CR read; NotFound, a CR being deleted and one
\* with a terminal phase need nothing.
StartNothing ==
    /\ pc = "idle" /\ queued /\ CacheRead
    /\ \/ Cached.life = "gone"
       \/ /\ ~Cached.spec.suspend
          /\ Cached.life = "deleting" \/ isTerminal(Cached.status.phase)
    /\ queued' = FALSE
    /\ UNCHANGED <<log, timer, recVars, watcher, atcVars, envVars>>

\* Suspend is looked at before deletion and before the terminal check.
StartSuspended ==
    /\ pc = "idle" /\ queued /\ CacheRead
    /\ Cached.life # "gone" /\ Cached.spec.suspend
    /\ queued' = FALSE
    /\ b' = setReady(Cached, "Suspended") /\ fresh' = (Len(log) = 1)
    /\ Goto("suspended")
    /\ UNCHANGED <<log, watcher, atcVars, envVars>>

Active(v) == v.life = "live" /\ ~v.spec.suspend /\ ~isTerminal(v.status.phase)

StartNoJobRef ==
    /\ pc = "idle" /\ queued /\ CacheRead
    /\ Active(Cached) /\ Cached.spec.jobRef = "none"
    /\ queued' = FALSE
    /\ b' = setReady(Cached, "NoJobRef") /\ fresh' = (Len(log) = 1)
    /\ Goto("noJobRef")
    /\ UNCHANGED <<log, watcher, atcVars, envVars>>

\* IgnoreNotFound: a Job that is not there ends the Reconcile without requeue.
StartJobMissing ==
    /\ pc = "idle" /\ queued /\ CacheRead
    /\ Active(Cached) /\ Cached.spec.jobRef # "none" /\ ~job
    /\ queued' = FALSE
    /\ UNCHANGED <<log, timer, recVars, watcher, atcVars, envVars>>

StartWithJob ==
    /\ pc = "idle" /\ queued /\ CacheRead
    /\ Active(Cached) /\ Cached.spec.jobRef # "none" /\ job
    /\ queued' = FALSE
    /\ b' = Cached /\ fresh' = (Len(log) = 1)
    /\ Goto(IF Cached.spec.jobRef = "local" /\ ~Cached.owned THEN "owner"
                                                             ELSE "resolve")
    /\ UNCHANGED <<log, watcher, atcVars, envVars>>

\* The owner reference is written with a full Update of the object.
SetOwner ==
    /\ pc = "owner"
    /\ \E res \in Results :
          /\ APIUpdate(setOwned(Latest), res)
          /\ IF res = "ok"
             THEN b' = setOwned(b) /\ UNCHANGED fresh /\ Goto("resolve")
             ELSE Return(TRUE)
    /\ UNCHANGED <<queued, watcher, atcVars, job, chain>>

MutAfterTracking(v) ==
    IF v.spec.canceled /\ v.status.phase = "" THEN "abort" ELSE "observe"

\* A canceled build is aborted, in every reconcile until it has ended.
AfterTracking(v) == IF v.spec.canceled THEN "abort" ELSE "observe"

ResolveFails ==
    /\ pc = "resolve" /\ ~chain
    /\ b' = setReady(b, "ChainNotReady")
    /\ Goto("chainNotReady")
    /\ UNCHANGED <<log, queued, fresh, watcher, atcVars, envVars>>

ResolveTracked ==
    /\ pc = "resolve" /\ chain /\ b.status.buildID # 0
    /\ Goto(AfterTracking(b))
    /\ UNCHANGED <<log, queued, b, fresh, watcher, atcVars, envVars>>

\* Adoption is recorded in the local copy only; the final save persists it.
ResolveAdopts ==
    /\ pc = "resolve" /\ chain /\ b.status.buildID = 0 /\ b.spec.buildID # 0
    /\ b' = setBuildID(b, b.spec.buildID)
    /\ Goto(AfterTracking(b))
    /\ UNCHANGED <<log, queued, fresh, watcher, atcVars, envVars>>

MutResolveNew ==
    /\ pc = "resolve" /\ chain /\ b.status.buildID = 0 /\ b.spec.buildID = 0
    /\ Goto(IF b.spec.canceled THEN AfterTracking(b) ELSE "trigger")
    /\ UNCHANGED <<log, queued, b, fresh, watcher, atcVars, envVars>>

ResolveNew ==
    /\ pc = "resolve" /\ chain /\ b.status.buildID = 0 /\ b.spec.buildID = 0
    /\ Goto("trigger")
    /\ UNCHANGED <<log, queued, b, fresh, watcher, atcVars, envVars>>

-----------------------------------------------------------------------------
(***************************************************************************)
(* ensureBuildTriggered and persistBuildTracking.                          *)
(***************************************************************************)
\* The ATC numbers builds in the order it creates them.
NextId(i) == atc[i] = "none" /\ \A j \in Ids : j < i => atc[j] # "none"

AtcCreates(i) ==
    /\ NextId(i)
    /\ atc' = [atc EXCEPT ![i] = "pending"]
    /\ triggered' = triggered \cup {i}
    /\ UNCHANGED <<atcComment, aborting>>

Trigger ==
    /\ pc = "trigger"
    /\ \E i \in Ids :
          /\ AtcCreates(i)
          /\ b' = setBuildID(b, i)
    /\ Goto("persistGet")
    /\ UNCHANGED <<log, queued, fresh, watcher, envVars>>

\* CreateJobBuild returns an error: the request failed, or only its answer did.
TriggerFails ==
    /\ pc = "trigger"
    /\ \/ Fault("atcError") /\ UNCHANGED atcVars
       \/ Fault("atcLost") /\ \E i \in Ids : AtcCreates(i)
    /\ b' = setReady(b, "TriggerFailed")
    /\ Goto("triggerFailed")
    /\ UNCHANGED <<log, queued, fresh, watcher, job, chain>>

MutAlreadyTracked(v) == FALSE

\* "If another reconcile already recorded a build ID, don't clobber it."
AlreadyTracked(v) == v.status.buildID # 0

MutRetryConflict == FALSE

\* retry.RetryOnConflict has tries left.
RetryConflict == attempt + 1 < RetrySteps

\* persistBuildTracking re-reads the CR. A build id that is already recorded
\* wins over the new one; the spec and generation of the local copy stay.
PersistGet ==
    /\ pc = "persistGet" /\ CacheRead
    /\ IF Cached.life = "gone"
       THEN Return(TRUE)
       ELSE /\ fresh' = (Len(log) = 1)
            /\ IF AlreadyTracked(Cached)
               THEN /\ b' = setStatus(b, Cached.status)
                    /\ pc' = AfterTracking(b) /\ attempt' = 0 /\ UNCHANGED timer
               ELSE /\ b' = setBuildID(setStatus(b, Cached.status), b.status.buildID)
                    /\ Goto("persistPut")
    /\ UNCHANGED <<log, queued, watcher, atcVars, envVars>>

PersistPut ==
    /\ pc = "persistPut"
    /\ \E res \in Results :
          /\ StatusUpdate(res)
          /\ CASE res = "ok" ->
                    /\ pc' = AfterTracking(b) /\ attempt' = 0
                    /\ UNCHANGED <<b, fresh, timer>>
               [] res = "conflict" /\ RetryConflict ->
                    /\ pc' = "persistGet" /\ attempt' = attempt + 1
                    /\ UNCHANGED <<b, fresh, timer>>
               [] OTHER -> Return(TRUE)
    /\ UNCHANGED <<queued, watcher, atcVars, job, chain>>

-----------------------------------------------------------------------------
(***************************************************************************)
(* Cancel, observe, comment, save.                                         *)
(***************************************************************************)
\* AbortBuild: an error is only logged.
Abort ==
    /\ pc = "abort"
    /\ \/ aborting' = aborting \cup {b.status.buildID} /\ UNCHANGED faults
       \/ Fault("atcError") /\ UNCHANGED aborting
    /\ Goto("observe")
    /\ UNCHANGED <<log, queued, b, fresh, watcher, atc, atcComment, triggered,
                   job, chain>>

NotFound(id) == atc[id] \in {"none", "gone"}

MutGivesUp(v) == NotFound(v.status.buildID)

MutGivesUpNever(v) == FALSE

\* The tracked build is not found and not known to have ended.
GivesUp(v) == NotFound(v.status.buildID) /\ ~isTerminal(v.status.phase)

MutObserved(v) ==
    IF v.status.buildID \in aborting THEN setPhase(v, "aborted")
    ELSE IF NotFound(v.status.buildID) THEN v
    ELSE setPhase(v, atc[v.status.buildID])

\* The phase is copied from a build the ATC has.
Observed(v) == IF NotFound(v.status.buildID) THEN v
               ELSE setPhase(v, atc[v.status.buildID])

MutGivenUp(v) == setBuildID(v, 0)

\* The reset that lets the next reconcile trigger a fresh build.
GivenUp(v) == setPhase(setBuildID(v, 0), "")

\* A vanished build is given up; one known to have ended keeps what is recorded.
Observe ==
    /\ pc = "observe"
    /\ IF GivesUp(b)
       THEN b' = GivenUp(b) /\ Goto("vanished")
       ELSE b' = Observed(b) /\ Goto("comment")
    /\ UNCHANGED <<log, queued, fresh, watcher, atcVars, envVars>>

\* An error of cl.Build is only logged: the recorded phase stays.
ObserveFails ==
    /\ pc = "observe" /\ Fault("atcError")
    /\ Goto("comment")
    /\ UNCHANGED <<log, queued, b, fresh, watcher, atcVars, job, chain>>

\* The final status of a pass: Complete, observedGeneration and, unless the
\* comment failed, Ready=Tracked.
Finished(v, ready) ==
    [setReady(v, ready) EXCEPT
        !.status.complete = IF isTerminal(v.status.phase) THEN v.status.phase
                                                          ELSE "InProgress",
        !.status.observed = v.gen]

NeedsComment(v) == v.spec.comment # "" /\ v.spec.comment # v.status.comment

CommentNotNeeded ==
    /\ pc = "comment" /\ ~NeedsComment(b)
    /\ b' = Finished(b, "Tracked")
    /\ Goto("saveFinal")
    /\ UNCHANGED <<log, queued, fresh, watcher, atcVars, envVars>>

\* The ATC stores the comment of a build it still has.
AtcComments(id, c) == atcComment' = [atcComment EXCEPT ![id] = c]

CommentSet ==
    /\ pc = "comment" /\ NeedsComment(b) /\ ~NotFound(b.status.buildID)
    /\ AtcComments(b.status.buildID, b.spec.comment)
    /\ b' = Finished(setComment(b, b.spec.comment), "Tracked")
    /\ Goto("saveFinal")
    /\ UNCHANGED <<log, queued, fresh, watcher, atc, aborting, triggered, envVars>>

\* The request failed (the ATC answers 404 for a build it does not have), or it
\* took effect and its answer was lost.
CommentFails ==
    /\ pc = "comment" /\ NeedsComment(b)
    /\ \/ NotFound(b.status.buildID) /\ UNCHANGED <<atcComment, faults>>
       \/ Fault("atcError") /\ UNCHANGED atcComment
       \/ /\ Fault("atcLost") /\ ~NotFound(b.status.buildID)
          /\ AtcComments(b.status.buildID, b.spec.comment)
    /\ b' = Finished(b, "CommentFailed")
    /\ Goto("saveFinal")
    /\ UNCHANGED <<log, queued, fresh, watcher, atc, aborting, triggered, job, chain>>

MutFinalRequeue(res) ==
    res = "ok" /\ (b.status.ready = "CommentFailed" \/ ~isTerminal(b.status.phase))

FinalRequeue(res) ==
    res # "ok" \/ b.status.ready = "CommentFailed" \/ ~isTerminal(b.status.phase)

\* The status is saved; a failed comment and a running build are requeued, and
\* a running build whose comment is in order gets a watcher if it has none.
SaveFinal ==
    /\ pc = "saveFinal"
    /\ \E res \in Results :
          /\ StatusUpdate(res)
          /\ IF res = "ok" /\ b.status.ready = "Tracked" /\ ~isTerminal(b.status.phase)
             THEN watcher' = IF watcher.id = 0
                             THEN [id |-> b.status.buildID, sent |-> FALSE]
                             ELSE watcher
             ELSE UNCHANGED watcher
          /\ Return(FinalRequeue(res))
    /\ UNCHANGED <<queued, atcVars, job, chain>>

EarlyRequeue(res) ==
    \/ pc \in {"chainNotReady", "triggerFailed", "vanished"}
    \/ pc = "suspended" /\ res # "ok"

\* The early returns save the status first. Only the suspended one returns the
\* error of that save; a missing jobRef is not requeued at all.
SaveEarly ==
    /\ pc \in EarlySaves
    /\ \E res \in Results :
          /\ StatusUpdate(res)
          /\ Return(EarlyRequeue(res))
    /\ UNCHANGED <<queued, watcher, atcVars, job, chain>>

Reconcile ==
    \/ StartNothing \/ StartSuspended \/ StartNoJobRef \/ StartJobMissing
    \/ StartWithJob \/ SetOwner
    \/ ResolveFails \/ ResolveTracked \/ ResolveAdopts \/ ResolveNew
    \/ Trigger \/ TriggerFails \/ PersistGet \/ PersistPut
    \/ Abort \/ Observe \/ ObserveFails
    \/ CommentNotNeeded \/ CommentSet \/ CommentFails
    \/ SaveFinal \/ SaveEarly

-----------------------------------------------------------------------------
(***************************************************************************)
(* The rest of the operator process: informer, queue, watcher, restart.    *)
(***************************************************************************)
\* The watch delivers the next version, which enqueues the CR.
Deliver ==
    /\ Len(log) > 1
    /\ log' = Tail(log) /\ queued' = TRUE
    /\ UNCHANGED <<timer, recVars, watcher, atcVars, envVars>>

TimerFires ==
    /\ timer
    /\ timer' = FALSE /\ queued' = TRUE
    /\ UNCHANGED <<log, recVars, watcher, atcVars, envVars>>

WatcherEnqueues ==
    /\ queued' = TRUE /\ watcher' = [watcher EXCEPT !.sent = TRUE]
    /\ UNCHANGED <<log, timer, recVars, atcVars, envVars>>

\* The stream reports a terminal status, or ends because the build is gone.
WatcherSees ==
    /\ watcher.id # 0 /\ ~watcher.sent
    /\ atc[watcher.id] \in Terminal \cup {"none", "gone"}
    /\ WatcherEnqueues

\* The stream breaks while the build is running.
WatcherBreaks ==
    /\ watcher.id # 0 /\ ~watcher.sent
    /\ atc[watcher.id] \in {"pending", "started"}
    /\ WatcherEnqueues

\* The goroutine's deferred watchers.Delete, after its event was sent.
WatcherExits ==
    /\ watcher.sent
    /\ watcher' = NoWatcher
    /\ UNCHANGED <<crVars, recVars, atcVars, envVars>>

\* The process dies between two calls; its successor lists every CR again.
Crash ==
    /\ Fault("crash")
    /\ log' = <<Latest>> /\ queued' = TRUE /\ timer' = FALSE
    /\ pc' = "idle" /\ b' = NoCopy /\ fresh' = FALSE /\ attempt' = 0
    /\ watcher' = NoWatcher
    /\ UNCHANGED <<atcVars, job, chain>>

Process == Deliver \/ TimerFires \/ WatcherSees \/ WatcherBreaks
           \/ WatcherExits \/ Crash

-----------------------------------------------------------------------------
(***************************************************************************)
(* Users, garbage collection and Concourse.                                *)
(***************************************************************************)
UserWrites(v) ==
    /\ log' = Append(log, v) /\ fresh' = FALSE
    /\ UNCHANGED <<queued, timer, pc, b, attempt, watcher, atcVars, envVars>>

\* A spec edit the CRD validation admits.
EditSpec ==
    /\ Latest.life # "gone" /\ Latest.gen < MaxEdits
    /\ \E s \in Specs \ {Latest.spec} :
          /\ s.jobRef # "none"
          /\ UserWrites([Latest EXCEPT !.spec = s, !.gen = @ + 1])

\* Deletion that waits for other finalizers only marks the CR.
MarkDeleted ==
    /\ Latest.life = "live" /\ Latest.gen < MaxEdits
    /\ UserWrites([Latest EXCEPT !.life = "deleting", !.gen = @ + 1])

\* The Build CR has no finalizer of its own: deletion removes it at once.
Remove ==
    /\ Latest.life # "gone" /\ Latest.gen < MaxEdits
    /\ UserWrites([Latest EXCEPT !.life = "gone"])

JobCreated ==
    /\ ~job /\ job' = TRUE
    /\ UNCHANGED <<crVars, recVars, watcher, atcVars, chain, faults>>

ChainBreaks ==
    /\ chain /\ Fault("chain") /\ chain' = FALSE
    /\ UNCHANGED <<crVars, recVars, watcher, atcVars, job>>

ChainHeals ==
    /\ ~chain /\ chain' = TRUE
    /\ UNCHANGED <<crVars, recVars, watcher, atcVars, job, faults>>

AtcMoves(i, to) ==
    /\ atc' = [atc EXCEPT ![i] = to]
    /\ UNCHANGED <<crVars, recVars, watcher, atcComment, aborting, triggered,
                   envVars>>

AtcStarts(i) == atc[i] = "pending" /\ AtcMoves(i, "started")

AtcEnds(i) == atc[i] = "started" /\ \E o \in Outcomes : AtcMoves(i, o)

AtcAborts(i) == /\ i \in aborting /\ atc[i] \in {"pending", "started"}
                /\ AtcMoves(i, "aborted")

\* The pipeline is deleted and recreated: the ATC drops its builds.
AtcVanishes ==
    /\ Fault("vanish")
    /\ \E i \in Ids : ~NotFound(i)
    /\ atc' = [i \in Ids |-> IF NotFound(i) THEN atc[i] ELSE "gone"]
    /\ UNCHANGED <<crVars, recVars, watcher, atcComment, aborting, triggered,
                   job, chain>>

Environment ==
    \/ EditSpec \/ MarkDeleted \/ Remove
    \/ JobCreated \/ ChainBreaks \/ ChainHeals
    \/ \E i \in Ids : AtcStarts(i) \/ AtcEnds(i) \/ AtcAborts(i)
    \/ AtcVanishes

Next == Reconcile \/ Process \/ Environment

Spec == Init /\ [][Next]_vars

\* The worker goroutine, the informer, timers and watcher goroutines all run;
\* the ATC starts pending builds and carries out aborts.
Fairness ==
    /\ WF_vars(Reconcile) /\ WF_vars(Deliver) /\ WF_vars(TimerFires)
    /\ WF_vars(WatcherSees) /\ WF_vars(WatcherExits)
    /\ \A i \in Ids : WF_vars(AtcStarts(i)) /\ WF_vars(AtcAborts(i))

FairSpec == Spec /\ Fairness

-----------------------------------------------------------------------------
(***************************************************************************)
(* Properties.                                                             *)
(***************************************************************************)
Recorded == Latest.status

\* A terminal phase in the CR's status is the fate of the build the CR tracks:
\* the ATC's build ended that way (or has been dropped since), never that of
\* another build and never a guess made before the ATC said so, and the
\* Complete condition reports the same phase (build_controller.go 156-162).
OutcomeTruthful ==
    isTerminal(Recorded.phase) =>
        /\ Recorded.buildID # 0
        /\ atc[Recorded.buildID] \in {Recorded.phase, "gone"}
        /\ Recorded.complete = Recorded.phase

\* Once an outcome is recorded no later step changes it: neither a reconcile
\* that read an older version from the informer cache nor one that finds the
\* build gone (handleBuildLifecycle, the isTerminal test in observeBuild).
OutcomeFinal ==
    [][isTerminal(Recorded.phase) =>
          /\ Recorded'.phase = Recorded.phase
          /\ Recorded'.buildID = Recorded.buildID]_vars

\* A recorded build id is never replaced by another one, and it is dropped only
\* when the ATC has dropped the build (persistBuildTracking's "don't clobber
\* it", observeBuild's reset).
TrackingKept ==
    [][Recorded.buildID # 0 /\ Recorded'.buildID # Recorded.buildID =>
          /\ Recorded'.buildID = 0
          /\ atc[Recorded.buildID] = "gone"]_vars

\* The operator's builds that still exist and that nothing tracks or is about
\* to record.
Orphans ==
    {i \in triggered :
        /\ atc[i] # "gone"
        /\ Recorded.buildID # i
        /\ ~(pc \in {"persistGet", "persistPut"} /\ b.status.buildID = i)}

\* "triggers a new Concourse build exactly once and durably persists its
\* tracking fields" (build_controller.go 201-203): while the CR exists every
\* build created for it is tracked by it, so there is never a second one.
TriggeredOnce == Latest.life # "gone" => Orphans = {}

\* The CR asks for a build and nothing outside the operator is in the way.
Wanted ==
    /\ Latest.life = "live" /\ ~Latest.spec.suspend
    /\ Latest.spec.jobRef # "none" /\ job /\ chain

Done == isTerminal(Recorded.phase)

\* Whenever Reconcile is not running and the build has no recorded outcome, a
\* further Reconcile is on its way: a queued request, a timer, or a version of
\* the CR the watch has still to deliver (every requeue of Reconcile).
WakeupArmed ==
    pc = "idle" /\ Wanted /\ ~Done => queued \/ timer \/ Len(log) > 1

\* No ATC build runs for ever.
BuildsEnd == \A i \in Ids : []<>(atc[i] # "started")

\* A Build that stays wanted gets a recorded outcome when ATC builds end:
\* through failed and lost requests, conflicts, restarts and vanished builds.
EventuallyComplete == BuildsEnd /\ <>[]Wanted => <>Done

\* A Build that stays canceled gets a recorded outcome even if its ATC build
\* would never end by itself (Abort is repeated by every reconcile).
CancelStops == <>[](Wanted /\ Latest.spec.canceled) => <>Done

\* "the Ready condition is set False with reason CommentFailed so the next
\* reconcile retries" (build_controller.go 386-389): a comment that stays
\* wanted on a build that stays tracked is set on it.
CommentRetried ==
    \A c \in Comments :
        <>[](Wanted /\ Latest.spec.comment = c /\ Recorded.buildID # 0)
            => <>(Recorded.buildID # 0 /\ atcComment[Recorded.buildID] = c)

-----------------------------------------------------------------------------
\* The status is what BuildContract describes, whatever Reconcile reads, retries,
\* loses or is interrupted by: it never names a phase ahead of the ATC, never
\* goes back to an earlier one, never moves to another build while the ATC has the
\* first (persistBuildTracking, observeBuild, handleBuildLifecycle).
Contract == INSTANCE BuildContract WITH
                id <- Recorded.buildID, phase <- Recorded.phase, builds <- atc

ImplementsContract == Contract!Spec
=============================================================================
