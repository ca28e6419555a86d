------------------------- MODULE ResourceController -------------------------
(***************************************************************************)
(* ResourceReconciler (internal/controller/resource_controller.go) for one *)
(* Resource and the Concourse resource it stands for: pinning a version,   *)
(* disabling versions and enabling the ones it disabled itself, and        *)
(* checks.  What it disabled is known only from the status it saves.       *)
(***************************************************************************)
EXTENDS Reconciler, FiniteSetsExt

CONSTANTS
    MaxVersion,  \* versions of the resource are 1 .. MaxVersion, by their ID
    Comments,    \* comments on a pin
    Specs        \* specs the Resource is created with or edited to

AllFaults == {"crash", "atcError", "atcLost", "apiError", "apiLost",
              "pipeline", "gone", "resource", "others"}

ASSUME ResourceAssumption ==
    /\ MaxVersion \in Nat \ {0} /\ "" \notin Comments
    /\ FaultKinds \subseteq AllFaults

Versions == 1 .. MaxVersion

\* No version: not pinned, none known.
NoVersion == 0

\* ResourceSpec; disabledVersions is a set, since its entries are looked up by
\* ID. interval: checkInterval is unset, zero or longer. remote: the
\* Pipeline cannot own the Resource, being in another namespace or because
\* another controller does.
Spec_ == [pin : {NoVersion} \cup Versions, comment : {""} \cup Comments,
          disabled : SUBSET Versions, interval : {"unset", "zero", "set"},
          remote : BOOLEAN, suspend : BOOLEAN]

ASSUME SpecsAssumption == Specs \subseteq Spec_

ReadyReasons == {"", "Suspended", "PipelineNotReady", "ChainNotReady",
                 "PinFailed", "DisableVersionFailed", "Ready"}

\* ResourceStatus. checked: lastChecked, 0 as long as it is unset and then one of
\* two readings of the clock; pinned and pinnedID: pinned and pinnedVersionID;
\* tracked: disabledVersionIDs; healthy: the CheckHealthy condition.
Status == [pinned : BOOLEAN, pinnedID : {NoVersion} \cup Versions,
           tracked : SUBSET Versions, checked : 0 .. 2,
           healthy : {"", "Unknown", "False", "True"},
           latest : {NoVersion} \cup Versions,
           ready : ReadyReasons, readyGen : Nat]

NoStatus == [pinned |-> FALSE, pinnedID |-> NoVersion, tracked |-> {},
             checked |-> 0, healthy |-> "", latest |-> NoVersion,
             ready |-> "", readyGen |-> 0]

Version == [life : {"live", "deleting", "gone"}, owned : BOOLEAN, gen : Nat,
            spec : Spec_, status : Status]

Created(s) == [life |-> "live", owned |-> FALSE, gen |-> 0, spec |-> s,
               status |-> NoStatus]

\* The resource in the ATC: is it in the pipeline's config, its pin, the comment
\* on it, its disabled versions and its newest version (older ones are there
\* too).
AtcResource == [exists : BOOLEAN, pin : {NoVersion} \cup Versions,
                comment : {""} \cup Comments, disabled : SUBSET Versions,
                newest : {NoVersion} \cup Versions]

Saves == {"saveSuspended", "saveNotReady", "saveFailed", "saveReady"}

Pcs == {"idle", "owner", "resolve", "readPin", "unpin", "comment", "pin",
        "pinVersion", "lookup", "disable", "enable", "check", "fetch"} \cup Saves

Pipelines == {"missing", "notReady", "noChain", "ready"}

VARIABLES
    pipe,      \* the Pipeline as Reconcile has read it, "" when not needed
    pinRead,   \* the pin syncPin has read from the ATC
    done,      \* versions disabled and enabled by this pass
    atc,       \* the resource in the ATC
    pipeline,  \* the Pipeline: missing, not Ready, its Team or Instance not
               \* Ready, Ready
    mine,      \* history: versions the operator disabled and has not enabled
    told,      \* history: versions the ATC has changed for this pass
    slipped    \* history: versions changed for a pass whose status was not stored,
               \* or that a pass asked to change while the resource was not there

localVars == <<pipe, pinRead, done>>
envVars   == <<atc, pipeline>>
history   == <<mine, told>>
vars      == <<loopVars, localVars, edits, faults, envVars, history, slipped>>

\* The types of all variables.
TypeOK ==
    /\ LoopOK(Version, Pcs)
    /\ pipe \in Pipelines \cup {""} /\ pipeline \in Pipelines
    /\ pinRead \in {NoVersion} \cup Versions
    /\ done \subseteq Versions /\ mine \subseteq Versions
    /\ told \subseteq Versions /\ slipped \subseteq Versions
    /\ atc \in AtcResource

\* Somebody may have pinned and disabled the first version before.
Init ==
    /\ \E s \in Specs : LoopInit(Created(s))
    /\ pipe = "" /\ pinRead = NoVersion /\ done = {}
    /\ \E v \in {NoVersion, 1} :
          atc = [exists |-> TRUE, pin |-> v, comment |-> "", disabled |-> {v} \ {NoVersion},
                 newest |-> 1]
    /\ pipeline = "ready" /\ mine = {} /\ told = {} /\ slipped = {}

-----------------------------------------------------------------------------
(***************************************************************************)
(* Reconcile.                                                              *)
(***************************************************************************)
StartNothing ==
    /\ Cached.life = "gone" \/ (Cached.life = "deleting" /\ ~Cached.spec.suspend)
    /\ Ignore
    /\ UNCHANGED <<localVars, envVars, history>>

StartSuspended ==
    /\ Cached.life # "gone" /\ Cached.spec.suspend
    /\ Take(setReady(Cached, "Suspended"), "saveSuspended")
    /\ UNCHANGED <<localVars, envVars, history>>

\* IgnoreNotFound: without its Pipeline a Resource is not requeued.
StartPipelineMissing ==
    /\ Cached.life = "live" /\ ~Cached.spec.suspend /\ pipeline = "missing"
    /\ Ignore
    /\ UNCHANGED <<localVars, envVars, history>>

StartLive ==
    /\ Cached.life = "live" /\ ~Cached.spec.suspend /\ pipeline # "missing"
    /\ Take(Cached, IF Cached.owned \/ Cached.spec.remote THEN "resolve" ELSE "owner")
    /\ pipe' = pipeline
    /\ UNCHANGED <<pinRead, done, envVars, history>>

SetOwner ==
    /\ pc = "owner"
    /\ Update([Latest EXCEPT !.owned = TRUE], [cr EXCEPT !.owned = TRUE], "resolve")
    /\ pipe' = IF pc' = "resolve" THEN pipe ELSE ""
    /\ UNCHANGED <<pinRead, done, envVars, history>>

\* The Pipeline as it was read, then resolveClientForPipeline.
Resolve ==
    /\ pc = "resolve"
    /\ CASE pipe = "notReady" -> Step(setReady(cr, "PipelineNotReady"), "saveNotReady")
         [] pipe # "notReady" /\ pipeline = "noChain" ->
              Step(setReady(cr, "ChainNotReady"), "saveNotReady")
         [] OTHER -> Step(cr, "readPin")
    /\ pipe' = ""
    /\ UNCHANGED <<pinRead, done, envVars, history, faults>>

\* A step of syncPin or syncDisabledVersions that returns an error.
SyncFails(reason) ==
    /\ Step(setReady(cr, reason), "saveFailed")
    /\ pinRead' = NoVersion /\ done' = {}
    /\ UNCHANGED <<pipe, pipeline>>

pinnedTo(v, id) == [v EXCEPT !.status.pinned = id # NoVersion, !.status.pinnedID = id]

\* What syncPin does about a resource it has read as a.
AfterRead(s, a) ==
    CASE s.pin = NoVersion /\ a.pin = NoVersion       -> "lookup"
      [] s.pin = NoVersion                            -> "unpin"
      [] s.comment # "" /\ s.comment # a.comment      -> "comment"
      [] OTHER                                        -> "pin"

ReadPin ==
    /\ pc = "readPin" /\ atc.exists
    /\ Step(IF AfterRead(cr.spec, atc) = "lookup" THEN pinnedTo(cr, NoVersion) ELSE cr,
            AfterRead(cr.spec, atc))
    /\ pinRead' = atc.pin
    /\ UNCHANGED <<pipe, done, envVars, history, faults>>

ReadPinFails ==
    /\ pc = "readPin"
    /\ \/ ~atc.exists /\ UNCHANGED faults
       \/ Fault("atcError")
    /\ SyncFails("PinFailed")
    /\ UNCHANGED <<atc, history>>

\* A request about a resource that the pipeline no longer has is answered
\* "not found", which the code does not look at.
AtcPins(id) == atc' = IF atc.exists
                      THEN [atc EXCEPT !.pin = id,
                                       !.comment = IF id = NoVersion THEN "" ELSE @]
                      ELSE atc

Unpin ==
    /\ pc = "unpin"
    /\ AtcPins(NoVersion)
    /\ Step(pinnedTo(cr, NoVersion), "lookup")
    /\ UNCHANGED <<localVars, pipeline, history, faults>>

UnpinFails ==
    /\ pc = "unpin"
    /\ \/ Fault("atcError") /\ UNCHANGED atc
       \/ Fault("atcLost") /\ AtcPins(NoVersion)
    /\ SyncFails("PinFailed")
    /\ UNCHANGED history

\* SetPinComment, whose error is only logged; a comment on a resource that is
\* not pinned may get lost.
SetComment ==
    /\ pc = "comment"
    /\ \/ /\ atc' \in {atc, [atc EXCEPT !.comment = cr.spec.comment]}
          /\ atc' = atc => atc.pin = NoVersion \/ ~atc.exists
          /\ UNCHANGED faults
       \/ Fault("atcError") /\ UNCHANGED atc
    /\ Step(cr, "pin")
    /\ UNCHANGED <<localVars, pipeline, history>>

\* The version is pinned already; pinnedVersionID stays as it was.
PinInPlace ==
    /\ pc = "pin" /\ pinRead = cr.spec.pin
    /\ Step([cr EXCEPT !.status.pinned = TRUE], "lookup")
    /\ UNCHANGED <<localVars, envVars, history, faults>>

\* The versions are listed to find the ID of the one to pin.
FindPin ==
    /\ pc = "pin" /\ pinRead # cr.spec.pin
    /\ atc.exists /\ cr.spec.pin <= atc.newest
    /\ Step(cr, "pinVersion")
    /\ UNCHANGED <<localVars, envVars, history, faults>>

FindPinFails ==
    /\ pc = "pin" /\ pinRead # cr.spec.pin
    /\ \/ (~atc.exists \/ cr.spec.pin > atc.newest) /\ UNCHANGED faults
       \/ Fault("atcError")
    /\ SyncFails("PinFailed")
    /\ UNCHANGED <<atc, history>>

Pin ==
    /\ pc = "pinVersion"
    /\ AtcPins(cr.spec.pin)
    /\ Step(pinnedTo(cr, cr.spec.pin), "lookup")
    /\ UNCHANGED <<localVars, pipeline, history, faults>>

PinFails ==
    /\ pc = "pinVersion"
    /\ \/ Fault("atcError") /\ UNCHANGED atc
       \/ Fault("atcLost") /\ AtcPins(cr.spec.pin)
    /\ SyncFails("PinFailed")
    /\ UNCHANGED history

\* syncDisabledVersions looks every version up before it changes one.
Lookup ==
    /\ pc = "lookup"
    /\ cr.spec.disabled = {} \/ atc.exists
    /\ \A v \in cr.spec.disabled : v <= atc.newest
    /\ Step(cr, "disable")
    /\ pinRead' = NoVersion
    /\ UNCHANGED <<pipe, done, envVars, history, faults>>

LookupFails ==
    /\ pc = "lookup" /\ cr.spec.disabled # {}
    /\ \/ ~atc.exists /\ UNCHANGED faults
       \/ (\E v \in cr.spec.disabled : v > atc.newest) /\ UNCHANGED faults
       \/ Fault("atcError")
    /\ SyncFails("DisableVersionFailed")
    /\ UNCHANGED <<atc, history>>

MutNewTrackedZero(v) == v.spec.disabled \cup {NoVersion}

\* newTracked
NewTracked(v) == v.spec.disabled

MutToDisable == {}

ToDisable == (cr.spec.disabled \ cr.status.tracked) \ done

MutToEnable == ((cr.status.tracked \cup atc.disabled) \ cr.spec.disabled) \ done

MutToEnableLate == (NewTracked(cr) \ cr.spec.disabled) \ done

ToEnable == (cr.status.tracked \ cr.spec.disabled) \ done

\* DisableResourceVersion or EnableResourceVersion reaches the ATC.
AtcSets(v, disable) ==
    IF atc.exists
    THEN /\ told' = told \cup {v}
         /\ IF disable
            THEN atc' = [atc EXCEPT !.disabled = @ \cup {v}] /\ mine' = mine \cup {v}
            ELSE atc' = [atc EXCEPT !.disabled = @ \ {v}] /\ mine' = mine \ {v}
    ELSE UNCHANGED <<atc, history>>

\* In the order of a Go map.
Disable ==
    /\ pc = "disable"
    /\ \E v \in ToDisable :
          /\ AtcSets(v, TRUE)
          /\ done' = done \cup {v}
    /\ Step(cr, "disable")
    /\ UNCHANGED <<pipe, pinRead, pipeline, faults>>

DisableFails ==
    /\ pc = "disable"
    /\ \E v \in ToDisable :
          \/ Fault("atcError") /\ UNCHANGED <<atc, history>>
          \/ Fault("atcLost") /\ AtcSets(v, TRUE)
    /\ SyncFails("DisableVersionFailed")

DisableDone ==
    /\ pc = "disable" /\ ToDisable = {}
    /\ Step(cr, "enable")
    /\ UNCHANGED <<localVars, envVars, history, faults>>

\* In the order of the IDs.
Enable ==
    /\ pc = "enable" /\ ToEnable # {}
    /\ AtcSets(Min(ToEnable), FALSE)
    /\ done' = done \cup {Min(ToEnable)}
    /\ Step(cr, "enable")
    /\ UNCHANGED <<pipe, pinRead, pipeline, faults>>

EnableFails ==
    /\ pc = "enable" /\ ToEnable # {}
    /\ \/ Fault("atcError") /\ UNCHANGED <<atc, history>>
       \/ Fault("atcLost") /\ AtcSets(Min(ToEnable), FALSE)
    /\ SyncFails("DisableVersionFailed")

EnableDone ==
    /\ pc = "enable" /\ ToEnable = {}
    /\ Step([cr EXCEPT !.status.tracked = NewTracked(cr)], "check")
    /\ done' = {}
    /\ UNCHANGED <<pipe, pinRead, envVars, history, faults>>

\* shouldCheck, with some time since the last check.
ShouldCheck(v) ==
    CASE v.spec.interval = "unset" -> {FALSE}
      [] v.spec.interval = "zero"  -> {TRUE}
      [] v.status.checked = 0      -> {TRUE}
      [] OTHER                     -> BOOLEAN

\* CheckResource; a failing check is no error of the reconcile.
Checks(v) ==
    \/ /\ FALSE \in ShouldCheck(v) /\ UNCHANGED faults
       /\ cr' = [v EXCEPT !.status.healthy = IF v.status.checked = 0 THEN "Unknown" ELSE @]
    \/ /\ TRUE \in ShouldCheck(v) /\ UNCHANGED faults
       /\ \E now \in 1 .. 2 : cr' = [v EXCEPT !.status.checked = now,
                                              !.status.healthy = "True"]
    \/ /\ TRUE \in ShouldCheck(v) /\ (Fault("atcError") \/ Fault("atcLost"))
       /\ cr' = [v EXCEPT !.status.healthy = "False"]

Check ==
    /\ pc = "check"
    /\ Checks(cr)
    /\ pc' = "fetch"
    /\ UNCHANGED <<log, queued, timer, fresh, edits, localVars, envVars, history>>

\* fetchLatestVersion
Fetched(v) == IF atc.exists /\ atc.newest # NoVersion
              THEN [v EXCEPT !.status.latest = atc.newest] ELSE v

\* Its error is only logged; then comes the last save.
Fetch ==
    /\ pc = "fetch"
    /\ \/ Step(setReady(Fetched(cr), "Ready"), "saveReady") /\ UNCHANGED faults
       \/ Step(setReady(cr, "Ready"), "saveReady") /\ Fault("atcError")
    /\ UNCHANGED <<localVars, envVars, history>>

MutSaveAgain == pc \notin {"saveSuspended", "saveFailed"}

\* After a save that worked a suspended Resource does not come back, and a Ready
\* one not before its interval: RequeueAfter 0 asks for nothing.
SaveAgain ==
    /\ pc # "saveSuspended"
    /\ pc = "saveReady" => cr.spec.interval # "zero"

SaveStatus ==
    /\ pc \in Saves
    /\ Save(SaveAgain, TRUE)
    /\ told' = {}
    /\ UNCHANGED <<localVars, envVars, mine>>

Reconcile ==
    \/ StartNothing \/ StartSuspended \/ StartPipelineMissing \/ StartLive
    \/ SetOwner \/ Resolve \/ ReadPin \/ ReadPinFails \/ Unpin \/ UnpinFails
    \/ SetComment \/ PinInPlace \/ FindPin \/ FindPinFails \/ Pin \/ PinFails
    \/ Lookup \/ LookupFails \/ Disable \/ DisableFails \/ DisableDone
    \/ Enable \/ EnableFails \/ EnableDone \/ Check \/ Fetch \/ SaveStatus

-----------------------------------------------------------------------------
(***************************************************************************)
(* Users, the Pipeline and the ATC.                                        *)
(***************************************************************************)
Deliver == DeliverVersion /\ UNCHANGED <<localVars, envVars, history>>

TimerFires == Fires /\ UNCHANGED <<localVars, envVars, history>>

Crash ==
    /\ Restart
    /\ pipe' = "" /\ pinRead' = NoVersion /\ done' = {} /\ told' = {}
    /\ UNCHANGED <<envVars, mine>>

\* pipelineRef is immutable.
EditSpec ==
    /\ \E s \in Specs : s.remote = Latest.spec.remote /\ Edit(s)
    /\ UNCHANGED <<localVars, envVars, history>>

\* Resources have no finalizer; deletion marks one that others have put one on.
MarkDeleted ==
    /\ Latest.life = "live"
    /\ \E l \in {"deleting", "gone"} : UserWrites([Latest EXCEPT !.life = l])
    /\ UNCHANGED <<localVars, envVars, history>>

\* The Pipeline, its Team or its Instance stops being Ready.
PipelineBreaks ==
    /\ pipeline = "ready" /\ Fault("pipeline")
    /\ pipeline' \in {"notReady", "noChain"}
    /\ UNCHANGED <<loopVars, localVars, edits, atc, history>>

PipelineGoes ==
    /\ pipeline = "ready" /\ Fault("gone")
    /\ pipeline' = "missing"
    /\ UNCHANGED <<loopVars, localVars, edits, atc, history>>

PipelineHeals ==
    /\ pipeline # "ready" /\ pipeline' = "ready"
    /\ UNCHANGED <<loopVars, localVars, edits, faults, atc, history>>

AtcMoves(a) ==
    /\ atc' = a
    /\ UNCHANGED <<loopVars, localVars, edits, pipeline, history>>

\* A check finds a version.
VersionFound ==
    /\ atc.newest < MaxVersion
    /\ AtcMoves([atc EXCEPT !.newest = @ + 1]) /\ UNCHANGED faults

\* The resource leaves the pipeline's config, and comes back.
ResourceLeaves ==
    /\ atc.exists /\ Fault("resource")
    /\ AtcMoves([atc EXCEPT !.exists = FALSE])

ResourceReturns ==
    /\ ~atc.exists
    /\ AtcMoves([atc EXCEPT !.exists = TRUE]) /\ UNCHANGED faults

\* Somebody else pins, unpins, disables or enables a version with fly.
OthersChange ==
    /\ Fault("others")
    /\ \E v \in 1 .. atc.newest :
          \/ AtcMoves([atc EXCEPT !.pin = v])
          \/ AtcMoves([atc EXCEPT !.pin = NoVersion, !.comment = ""])
          \/ AtcMoves([atc EXCEPT !.disabled = @ \cup {v}])
          \/ AtcMoves([atc EXCEPT !.disabled = @ \ {v}])

Environment ==
    \/ Deliver \/ TimerFires \/ Crash \/ EditSpec \/ MarkDeleted
    \/ PipelineBreaks \/ PipelineGoes \/ PipelineHeals
    \/ VersionFound \/ ResourceLeaves \/ ResourceReturns \/ OthersChange

PassEnds == pc # "idle" /\ pc' = "idle"

\* The last save has stored what syncDisabledVersions tracks.
Recorded ==
    pc = "saveReady" /\ log'[Len(log')].status.tracked = cr.status.tracked

\* A version slips when the pass it was changed for ends without recording it, or
\* when it was to be changed while the resource was not there.
Slips ==
    slipped' = CASE PassEnds /\ Recorded  -> slipped \ told
                 [] PassEnds /\ ~Recorded -> slipped \cup told
                 [] ~PassEnds             -> slipped \cup (IF atc.exists THEN {}
                                                          ELSE done' \ done)

Next == (Reconcile \/ Environment) /\ Slips

Spec == Init /\ [][Next]_vars

\* The controller's worker goroutine, the informer and the timers run, and the
\* ATC finds the versions there are.
Fairness == /\ WF_vars(Reconcile /\ Slips) /\ WF_vars(Deliver /\ Slips)
            /\ WF_vars(TimerFires /\ Slips)

FairSpec == Spec /\ Fairness

-----------------------------------------------------------------------------
(***************************************************************************)
(* Properties.                                                             *)
(***************************************************************************)
\* The operator enables a version only if it disabled it itself or did not get the
\* outcome of an earlier request about it into the status; what others disabled
\* with fly stays disabled (syncDisabledVersions: only tracked versions are
\* enabled).
OnlyOwnEnabled ==
    [][(pc = "enable" /\ <<pc, done>>' # <<pc, done>>) =>
          \A v \in atc.disabled \ atc'.disabled : v \in mine \cup slipped]_vars

\* Ready=True of the current generation means that the versions the operator
\* keeps disabled are the ones the spec lists, except for those of which a pass
\* changed one and could not save its status, or asked for one while the resource
\* was not there: no other sequence of edits, failed requests, half-done passes
\* and retries adds up to another set (syncDisabledVersions against tracked).
DisabledAsListed ==
    (Latest.status.ready = "Ready" /\ Latest.status.readyGen = Latest.gen)
        => \A v \in Versions \ slipped : v \in mine <=> v \in Latest.spec.disabled

\* The Pipeline was always there: a Reconcile that finds it missing returns
\* without asking to come back.
Reachable == pipeline # "missing"

Listed == (Latest.spec.disabled \cup {Latest.spec.pin}) \ {NoVersion}

\* The Resource can be reconciled and comes back by itself.
Wanted ==
    /\ Latest.life = "live" /\ ~Latest.spec.suspend /\ pipeline = "ready"
    /\ Latest.spec.interval # "zero"
    /\ atc.exists /\ \A v \in Listed : v <= atc.newest

\* "Set pinnedVersion to pin; clear it to unpin" (README.md:76): the ATC ends up
\* with the pin the spec asks for, with its comment, and the status says so,
\* after faults, restarts and pins set or removed by others between syncPin's
\* read and its write.
PinConverges ==
    ([]Reachable /\ <>[]Wanted) =>
        <>[](/\ atc.pin = Latest.spec.pin
             /\ atc.pin # NoVersion => atc.comment = Latest.spec.comment
                                         \/ Latest.spec.comment = ""
             /\ Latest.status.pinned = (atc.pin # NoVersion))

\* "must be disabled in Concourse" (resource_types.go:57): the versions of a spec
\* that is not edited end up disabled by the operator, also when a request or the
\* status write after it failed or the process died in between (lookup and
\* disabling are repeated until a save works). It speaks of what the operator did:
\* what it disabled and others enabled again stays enabled, and what a request did
\* while the resource was out of the pipeline is not looked at.
ListedDisabled ==
    ([](Reachable /\ atc.exists /\ Latest.gen = 0) /\ <>[]Wanted)
        => <>[](Latest.spec.disabled \subseteq mine)

\* "Any version previously disabled by the operator but no longer listed here is
\* re-enabled" (resource_types.go:60): a version the status holds and the spec
\* has dropped is enabled in the end, whatever fails on the way, as long as the
\* resource stays in the pipeline.
DroppedEnabled ==
    [](Reachable /\ atc.exists) =>
        \A v \in Versions :
            (v \in Latest.status.tracked \ Latest.spec.disabled)
                ~> (v \notin mine \/ v \in Latest.spec.disabled \/ ~Wanted)

\* The same of every version the operator disabled, recorded or not.
DisabledExactly ==
    (Latest.status.ready = "Ready" /\ Latest.status.readyGen = Latest.gen)
        => mine = Latest.spec.disabled

\* "PinnedVersionID is the Concourse resource version ID that is pinned"
\* (resource_types.go:98), as far as the operator has pinned it.
PinnedIDCurrent ==
    (Latest.status.ready = "Ready" /\ Latest.status.readyGen = Latest.gen)
        => Latest.status.pinnedID \in {NoVersion, Latest.spec.pin}
=============================================================================
