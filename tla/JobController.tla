---------------------------- MODULE JobController ----------------------------
(***************************************************************************)
(* JobReconciler (internal/controller/job_controller.go) for one Job: the  *)
(* pause state of the Concourse job and the history of the Job's Builds,   *)
(* which every pass prunes by age and by count from what the informer      *)
(* cache lists.  Builds are created, end and are deleted by others in the  *)
(* meantime; their names are not used again.                               *)
(***************************************************************************)
EXTENDS Reconciler, FiniteSets

CONSTANTS
    NumBuilds,  \* Builds are 1 .. NumBuilds in the order of their creation
    Born,       \* their creationTimestamps
    WithTTL,    \* Builds with ttlSecondsAfterFinished
    Foreign,    \* Builds of another Job, which have ended
    Specs,      \* specs the Job is created with or edited to
    MaxLag      \* bound: Build events on their way when others cause one more

Builds == 1 .. NumBuilds

AllFaults == {"crash", "atcError", "atcLost", "apiError", "apiLost",
              "chain", "job", "others"}

ASSUME JobAssumption ==
    /\ NumBuilds \in Nat /\ MaxLag \in Nat
    /\ Born \in [Builds -> Nat]
    /\ \A a, b \in Builds : a < b => Born[a] <= Born[b]
    /\ WithTTL \subseteq Builds /\ Foreign \subseteq Builds
    /\ FaultKinds \subseteq AllFaults

\* JobSpec; the limits default to 3. remote: the Pipeline cannot own the Job,
\* being in another namespace or because another controller does.
Spec_ == [paused : BOOLEAN, successLimit : Nat, failLimit : Nat,
          remote : BOOLEAN, suspend : BOOLEAN]

ASSUME SpecsAssumption == Specs \subseteq Spec_

ReadyReasons == {"", "Suspended", "PipelineNotReady", "PauseFailed",
                 "UnpauseFailed", "FetchFailed", "JobNotFound", "Ready"}

\* JobStatus: paused ("" as long as nil) and the Ready condition (True for
\* "Ready"); the rest repeats what the ATC answers.
Status == [paused : {"", "False", "True"}, ready : ReadyReasons, readyGen : Nat]

Version == [life : {"live", "deleting", "gone"}, owned : BOOLEAN, gen : Nat,
            spec : Spec_, status : Status]

Created(s) ==
    [life |-> "live", owned |-> FALSE, gen |-> 0, spec |-> s,
     status |-> [paused |-> "", ready |-> "", readyGen |-> 0]]

\* A Build as far as pruning looks at it: "open" as long as it is not there, has
\* no owner reference yet or has not ended; "failed" stands for failed, errored
\* and aborted; "gone" after it was deleted.
BuildStates == {"open", "succeeded", "failed", "gone"}
Ended == {"succeeded", "failed"}

\* The job in the ATC.
AtcJob == [exists : BOOLEAN, paused : BOOLEAN]

Saves == {"saveSuspended", "saveNotReady", "saveFailed", "saveReady"}

Pcs == {"idle", "owner", "pause", "fetch", "prune"} \cup Saves

\* Builds to be deleted: expired ones, then those beyond each limit.
NoDoomed == [expired |-> {}, succeeded |-> {}, failed |-> {}]

VARIABLES
    doomed,   \* what pruneBuilds has still to delete
    builds,   \* the Builds, the informer's list first and the server's last
    expired,  \* Builds whose TTL has run out
    atc,      \* the job in the ATC
    chain,    \* the Pipeline, its Team and its Instance are there and Ready
    pruned    \* history: Builds this controller has deleted, and under which limit

buildVars == <<builds, expired, pruned>>
envVars   == <<atc, chain>>
vars      == <<loopVars, doomed, edits, faults, buildVars, envVars>>

Server == builds[Len(builds)]
Cache  == builds[1]

\* The types of all variables.
TypeOK ==
    /\ LoopOK(Version, Pcs)
    /\ doomed \in [DOMAIN NoDoomed -> SUBSET Builds]
    /\ builds \in Seq([Builds -> BuildStates]) /\ Len(builds) > 0
    /\ expired \subseteq WithTTL /\ pruned \subseteq Builds \X Nat
    /\ atc \in AtcJob /\ chain \in BOOLEAN

Init ==
    /\ \E s \in Specs : LoopInit(Created(s))
    /\ doomed = NoDoomed
    /\ builds = <<[b \in Builds |-> IF b \in Foreign THEN "succeeded" ELSE "open"]>>
    /\ expired = {} /\ pruned = {}
    /\ atc = [exists |-> TRUE, paused |-> FALSE] /\ chain = TRUE

-----------------------------------------------------------------------------
(***************************************************************************)
(* Reconcile.                                                              *)
(***************************************************************************)
StartNothing ==
    /\ Cached.life = "gone" \/ (Cached.life = "deleting" /\ ~Cached.spec.suspend)
    /\ Ignore
    /\ UNCHANGED <<doomed, buildVars, envVars>>

StartSuspended ==
    /\ Cached.life # "gone" /\ Cached.spec.suspend
    /\ Take(setReady(Cached, "Suspended"), "saveSuspended")
    /\ UNCHANGED <<doomed, buildVars, envVars>>

HasOwner(v) == v.owned \/ v.spec.remote

\* resolveClientForJob succeeds.
StartReady ==
    /\ Cached.life = "live" /\ ~Cached.spec.suspend /\ chain
    /\ Take(Cached, IF HasOwner(Cached) THEN "pause" ELSE "owner")
    /\ UNCHANGED <<doomed, buildVars, envVars>>

\* It fails, also when there is no Pipeline, and Reconcile comes back.
StartNotReady ==
    /\ Cached.life = "live" /\ ~Cached.spec.suspend /\ ~chain
    /\ Take(setReady(Cached, "PipelineNotReady"), "saveNotReady")
    /\ UNCHANGED <<doomed, buildVars, envVars>>

SetOwner ==
    /\ pc = "owner"
    /\ Update([Latest EXCEPT !.owned = TRUE], [cr EXCEPT !.owned = TRUE], "pause")
    /\ UNCHANGED <<doomed, buildVars, envVars>>

\* The Pipeline may have gone since it was resolved.
OwnerMissing ==
    /\ pc = "owner" /\ ~chain
    /\ Step(cr, "pause")
    /\ UNCHANGED <<doomed, buildVars, envVars, faults>>

\* PauseJob or UnpauseJob; that there is no such job is not looked at.
AtcPauses == atc' = IF atc.exists THEN [atc EXCEPT !.paused = cr.spec.paused] ELSE atc

Flag(b) == IF b THEN "True" ELSE "False"

\* applyJobPause
Pause ==
    /\ pc = "pause"
    /\ AtcPauses
    /\ Step([cr EXCEPT !.status.paused = Flag(cr.spec.paused)], "fetch")
    /\ UNCHANGED <<doomed, buildVars, chain, faults>>

PauseFails ==
    /\ pc = "pause"
    /\ \/ Fault("atcError") /\ UNCHANGED atc
       \/ Fault("atcLost") /\ AtcPauses
    /\ Step(setReady(cr, IF cr.spec.paused THEN "PauseFailed" ELSE "UnpauseFailed"),
            "saveFailed")
    /\ UNCHANGED <<doomed, buildVars, chain>>

\* What the ATC tells of the job.
Fetched(v) == [v EXCEPT !.status.paused = Flag(atc.paused)]

MutFetchReason == IF atc.exists THEN "FetchFailed" ELSE "NotFound"

FetchReason == IF atc.exists THEN "FetchFailed" ELSE "JobNotFound"

FetchFails ==
    /\ pc = "fetch"
    /\ \/ ~atc.exists /\ UNCHANGED faults
       \/ Fault("atcError")
    /\ Step(setReady(cr, FetchReason), "saveFailed")
    /\ UNCHANGED <<doomed, buildVars, envVars>>

\* The Builds of this Job that a list shows in one of the states.
Own(list, states) == {b \in Builds \ Foreign : list[b] \in states}

MutBeyond(S, limit) ==
    {D \in SUBSET S : Cardinality(S \ D) = limit \/ (Cardinality(S) <= limit /\ D = {})}

MutBeyondOne(S, limit) ==
    {D \in SUBSET S :
        /\ \A d \in D, k \in S \ D : Born[d] <= Born[k]
        /\ Cardinality(S \ D) = limit + 1 \/ (Cardinality(S) <= limit + 1 /\ D = {})}

\* Sorted newest first, what comes after the first limit Builds of S; those with
\* the same creationTimestamp come in any order.
Beyond(S, limit) ==
    {D \in SUBSET S :
        /\ \A d \in D, k \in S \ D : Born[d] <= Born[k]
        /\ \/ Cardinality(S \ D) = limit
           \/ Cardinality(S) <= limit /\ D = {}}

Expires(list) == Own(list, Ended) \cap expired

\* A Build that is deleted for its age does not count.
Kept(list, state) == Own(list, {state}) \ Expires(list)

\* The fetch, and the list with which pruneBuilds begins.
Fetch ==
    /\ pc = "fetch" /\ atc.exists
    /\ \E s \in Beyond(Kept(Cache, "succeeded"), cr.spec.successLimit),
          f \in Beyond(Kept(Cache, "failed"), cr.spec.failLimit) :
          doomed' = [expired |-> Expires(Cache), succeeded |-> s, failed |-> f]
    /\ Step(Fetched(cr), "prune")
    /\ UNCHANGED <<buildVars, envVars, faults>>

\* The next Builds to delete: expired ones in any order, the others newest first.
NextDoomed ==
    LET newest(S) == {b \in S : \A c \in S : Born[c] <= Born[b]}
    IN  CASE doomed.expired # {}   -> doomed.expired
          [] doomed.succeeded # {} -> newest(doomed.succeeded)
          [] OTHER                 -> newest(doomed.failed)

Limit(s, state) == IF state = "succeeded" THEN s.successLimit ELSE s.failLimit

\* The API server deletes a Build, which has no finalizer.
Deletes(b) ==
    /\ Server[b] # "gone"
    /\ builds' = Append(builds, [Server EXCEPT ![b] = "gone"])
    /\ pruned' = pruned \cup {<<b, Limit(cr.spec, Server[b])>>}

Prune ==
    /\ pc = "prune"
    /\ \E b \in NextDoomed :
          /\ Deletes(b)
          /\ doomed' = [k \in DOMAIN doomed |-> doomed[k] \ {b}]
    /\ Step(cr, "prune")
    /\ UNCHANGED <<expired, envVars, faults>>

\* The error of a Delete, also for a Build that is gone, ends the pruning and is
\* only logged.
PruneFails ==
    /\ pc = "prune"
    /\ \E b \in NextDoomed :
          \/ Server[b] = "gone" /\ UNCHANGED <<builds, pruned, faults>>
          \/ Fault("apiError") /\ UNCHANGED <<builds, pruned>>
          \/ Fault("apiLost") /\ Deletes(b)
    /\ doomed' = NoDoomed
    /\ Step(setReady(cr, "Ready"), "saveReady")
    /\ UNCHANGED <<expired, envVars>>

PruneDone ==
    /\ pc = "prune" /\ doomed = NoDoomed
    /\ Step(setReady(cr, "Ready"), "saveReady")
    /\ UNCHANGED <<doomed, buildVars, envVars, faults>>

MutSaveAgain == pc \in {"saveNotReady", "saveFailed"}

\* A suspended Job comes back only if its save failed, any other after 30 seconds
\* or a minute.
SaveAgain == pc # "saveSuspended"

SaveStatus ==
    /\ pc \in Saves
    /\ Save(SaveAgain, TRUE)
    /\ UNCHANGED <<doomed, buildVars, envVars>>

Reconcile ==
    \/ StartNothing \/ StartSuspended \/ StartReady \/ StartNotReady
    \/ SetOwner \/ OwnerMissing \/ Pause \/ PauseFails \/ Fetch \/ FetchFails
    \/ Prune \/ PruneFails \/ PruneDone \/ SaveStatus

-----------------------------------------------------------------------------
(***************************************************************************)
(* Users, Builds, the chain and the ATC.                                   *)
(***************************************************************************)
Deliver == DeliverVersion /\ UNCHANGED <<doomed, buildVars, envVars>>

\* The watch on owned Builds delivers an event, which enqueues the Job.
DeliverBuild ==
    /\ Len(builds) > 1
    /\ builds' = Tail(builds) /\ queued' = TRUE
    /\ UNCHANGED <<log, timer, fresh, pc, cr, doomed, edits, faults, expired,
                   pruned, envVars>>

TimerFires == Fires /\ UNCHANGED <<doomed, buildVars, envVars>>

Crash ==
    /\ Restart
    /\ doomed' = NoDoomed /\ builds' = <<Server>>
    /\ UNCHANGED <<expired, pruned, envVars>>

\* pipelineRef is immutable.
EditSpec ==
    /\ \E s \in Specs : s.remote = Latest.spec.remote /\ Edit(s)
    /\ UNCHANGED <<doomed, buildVars, envVars>>

\* Jobs have no finalizer; deletion marks one that others have put one on.
MarkDeleted ==
    /\ Latest.life = "live"
    /\ \E l \in {"deleting", "gone"} : UserWrites([Latest EXCEPT !.life = l])
    /\ UNCHANGED <<doomed, buildVars, envVars>>

\* Somebody else, or the Build's own controller, changes a Build of the Job.
BuildMoves(b, from, to) ==
    /\ Len(builds) <= MaxLag /\ Server[b] \in from
    /\ builds' = Append(builds, [Server EXCEPT ![b] = to])
    /\ UNCHANGED <<loopVars, doomed, edits, expired, pruned>>

BuildEnds ==
    /\ \E b \in Builds \ Foreign, outcome \in Ended : BuildMoves(b, {"open"}, outcome)
    /\ UNCHANGED <<envVars, faults>>

BuildDeleted ==
    /\ Fault("others")
    /\ \E b \in Builds \ Foreign : BuildMoves(b, Ended, "gone")
    /\ UNCHANGED envVars

TTLRunsOut ==
    /\ \E b \in WithTTL \ expired :
          Server[b] \in Ended /\ expired' = expired \cup {b}
    /\ UNCHANGED <<loopVars, doomed, edits, faults, builds, pruned, envVars>>

ChainBreaks ==
    /\ chain /\ Fault("chain")
    /\ chain' = FALSE
    /\ UNCHANGED <<loopVars, doomed, edits, buildVars, atc>>

ChainHeals ==
    /\ ~chain /\ chain' = TRUE
    /\ UNCHANGED <<loopVars, doomed, edits, faults, buildVars, atc>>

\* The job leaves the pipeline's config, and comes back.
JobLeaves ==
    /\ atc.exists /\ Fault("job")
    /\ atc' = [atc EXCEPT !.exists = FALSE]
    /\ UNCHANGED <<loopVars, doomed, edits, buildVars, chain>>

JobReturns ==
    /\ ~atc.exists /\ atc' = [atc EXCEPT !.exists = TRUE]
    /\ UNCHANGED <<loopVars, doomed, edits, faults, buildVars, chain>>

\* Somebody pauses or unpauses the job with fly.
OthersPause ==
    /\ Fault("others")
    /\ atc' = [atc EXCEPT !.paused = ~@]
    /\ UNCHANGED <<loopVars, doomed, edits, buildVars, chain>>

Environment ==
    \/ Deliver \/ DeliverBuild \/ TimerFires \/ Crash \/ EditSpec \/ MarkDeleted
    \/ BuildEnds \/ BuildDeleted \/ TTLRunsOut
    \/ ChainBreaks \/ ChainHeals \/ JobLeaves \/ JobReturns \/ OthersPause

Next == Reconcile \/ Environment

Spec == Init /\ [][Next]_vars

\* The controller's worker goroutine, both informers and the timers run.
Fairness ==
    /\ WF_vars(Reconcile) /\ WF_vars(Deliver) /\ WF_vars(DeliverBuild)
    /\ WF_vars(TimerFires)

FairSpec == Spec /\ Fairness

-----------------------------------------------------------------------------
(***************************************************************************)
(* Properties.                                                             *)
(***************************************************************************)
\* Builds that this controller has left alone as long as limit ones were to be kept.
Spared(limit) ==
    {c \in Builds \ Foreign : \A p \in pruned : p[1] = c => p[2] < limit}

\* The members of S, other than b, that are as new as b and of its outcome.
Successors(b, S) ==
    {c \in S : c # b /\ Born[c] >= Born[b] /\ Server[c] \in {Server[b], "gone"}}

\* "SuccessfulBuildsHistoryLimit is how many succeeded Build CRs to keep"
\* (job_types.go:65): what pruneBuilds deletes is a Build of this Job that has
\* ended and that is past its TTL or has as many newer ones of its kind as are to
\* be kept and that were spared or are past their TTL, although the list it
\* decides from may be old, a pass may be repeated on the same list, and Builds
\* end in another order than they were created.
PrunesOnlyHistory ==
    [][\A p \in pruned' \ pruned :
          /\ p[1] \notin Foreign /\ Server[p[1]] \in Ended
          /\ \/ p[1] \in expired
             \/ Cardinality(Successors(p[1], Spared(p[2]) \cup (expired \ Foreign)))
                    >= p[2]]_vars

\* The same without counting newer Builds that are past their TTL: a list that
\* still shows one that was pruned makes pruneBuilds go below the limit as soon as
\* the Builds it was pruned for are past their TTL (JobStaleList.cfg).
PrunesAboveLimit ==
    [][\A p \in pruned' \ pruned :
          p[1] \in expired \/ Cardinality(Successors(p[1], Spared(p[2]))) >= p[2]]_vars

Wanted == Latest.life = "live" /\ ~Latest.spec.suspend /\ chain /\ atc.exists

\* The history of a Job that stays wanted ends up within its limits and without
\* Builds past their TTL, although an error in the middle of pruning is dropped
\* and deletions by others make one fail (the next passes of pruneBuilds).
HistoryBounded ==
    <>[]Wanted =>
        <>[](/\ \A state \in Ended : Cardinality(Own(Server, {state}))
                                         <= Limit(Latest.spec, state)
             /\ Own(Server, Ended) \cap expired = {})

\* A Job that stays wanted is paused in the ATC as its spec says and its status
\* reports that, after faults, restarts and pauses set by others between
\* applyJobPause and the fetch.
PauseConverges ==
    <>[]Wanted =>
        <>[](/\ atc.paused = Latest.spec.paused
             /\ Latest.status.paused = Flag(atc.paused)
             /\ Latest.status.ready = "Ready")
=============================================================================
