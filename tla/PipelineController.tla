------------------------- MODULE PipelineController -------------------------
(***************************************************************************)
(* PipelineReconciler (internal/controller/pipeline_controller.go) for one *)
(* Pipeline custom resource: the config it applies to Concourse under the  *)
(* ATC's config version, gated by a hash kept in the status; the archived, *)
(* paused and exposed states it sets in every pass; and its finalizer.     *)
(*                                                                         *)
(* One step is one call to the ATC or to the API server, or one read of    *)
(* the informer cache.                                                     *)
(***************************************************************************)
EXTENDS ApiServer

CONSTANTS
    Configs,   \* pipeline configs; one stands for the YAML and for its hash
    Names,     \* names of Concourse pipelines
    Specs,     \* specs the Pipeline is created with or edited to
    Contents,  \* what the referenced ConfigMap key may hold; "" when missing
    MaxEdits   \* bound: writes of users to the Pipeline and the ConfigMap

AllFaults == {"crash", "atcError", "atcLost", "apiError", "apiLost", "team", "race"}

\* Config of a pipeline that somebody else set with fly.
Foreign == "foreign"

ASSUME PipelineAssumption ==
    /\ Configs \cap {"", "configMap", Foreign} = {}
    /\ "default" \in Names
    /\ Contents \subseteq Configs \cup {""}
    /\ InformerLag \in BOOLEAN
    /\ MaxEdits \in Nat /\ MaxFaults \in Nat
    /\ FaultKinds \subseteq AllFaults

\* PipelineSpec. config is an inline config or the reference to the ConfigMap;
\* name is "default" as long as pipelineName is unset.
Spec_ == [config : Configs \cup {"configMap"}, name : Names,
          archived : BOOLEAN, paused : BOOLEAN, exposed : BOOLEAN,
          orphan : BOOLEAN, suspend : BOOLEAN]

ASSUME SpecsAssumption == Specs \subseteq Spec_

ReadyReasons == {"", "Suspended", "TeamNotReady", "ConfigLoadFailed",
                 "SetPipelineFailed", "StateFailed", "Ready"}

\* PipelineStatus: the hash of the applied config, whether pipelineID is set,
\* and the Ready condition (True exactly for "Ready").
Status == [hash : Configs \cup {""}, known : BOOLEAN,
           ready : ReadyReasons, readyGen : Nat]

NoStatus == [hash |-> "", known |-> FALSE, ready |-> "", readyGen |-> 0]

Version == [life : {"live", "deleting", "gone"}, fin : BOOLEAN,
            owned : BOOLEAN, gen : Nat, spec : Spec_, status : Status]

Created(s, o) == [life |-> "live", fin |-> FALSE, owned |-> o, gen |-> 0,
                  spec |-> s, status |-> NoStatus]

\* A pipeline in the ATC; config is "" when there is none of that name.
AtcPipeline == [config : Configs \cup {"", Foreign},
                archived : BOOLEAN, paused : BOOLEAN, exposed : BOOLEAN]

NoPipeline == [config |-> "", archived |-> FALSE, paused |-> FALSE,
               exposed |-> FALSE]

\* The states applyPipelineState sets, in its order, and what follows each.
States == {"archived", "paused", "exposed"}
AfterState == [archived |-> "paused", paused |-> "exposed", exposed |-> "observe"]

Saves == {"saveSuspended", "saveFailed", "saveReady"}

Pcs == {"idle", "delete", "finalize", "addFinalizer", "owner", "resolve", "load",
        "fetch", "put", "refetch", "reput", "observe"} \cup States \cup Saves

VARIABLES
    pc,      \* the call Reconcile makes next, "idle" between reconciles
    p,       \* Reconcile's local copy of the Pipeline
    yaml,    \* the config it loaded
    current, \* the config version it fetched is the one the ATC has
    atc,     \* the ATC's pipelines by name
    cm,      \* what the ConfigMap key holds
    team,    \* the Team: missing, not Ready (or its Instance is not), Ready
    edits    \* writes of users so far

crVars  == <<log, queued, timer>>
recVars == <<pc, p, yaml, current, fresh>>
envVars == <<atc, cm, team, edits>>
vars    == <<crVars, recVars, envVars, faults>>

\* The types of all variables.
TypeOK ==
    /\ log \in Seq(Version) /\ Len(log) > 0
    /\ queued \in BOOLEAN /\ timer \in BOOLEAN /\ fresh \in BOOLEAN
    /\ pc \in Pcs /\ p \in Version
    /\ yaml \in Configs \cup {""} /\ current \in BOOLEAN
    /\ atc \in [Names -> AtcPipeline]
    /\ cm \in Contents /\ team \in {"missing", "notReady", "ready"}
    /\ edits \in 0 .. MaxEdits /\ faults \in 0 .. MaxFaults

NoCopy == [Created(CHOOSE s \in Spec_ : TRUE, FALSE) EXCEPT !.life = "gone"]

Init ==
    /\ \E s \in Specs, o \in BOOLEAN : log = <<Created(s, o)>>
    /\ queued = TRUE /\ timer = FALSE
    /\ pc = "idle" /\ p = NoCopy /\ yaml = "" /\ current = FALSE /\ fresh = FALSE
    /\ atc \in [Names -> {NoPipeline, [NoPipeline EXCEPT !.config = Foreign]}]
    /\ cm \in Contents /\ team = "ready"
    /\ edits = 0 /\ faults = 0

-----------------------------------------------------------------------------
(***************************************************************************)
(* Reconcile: lifecycle, owner reference, client and config.               *)
(***************************************************************************)
setReady(v, reason) == [v EXCEPT !.status.ready = reason,
                                 !.status.readyGen = v.gen]

Goto(next) == pc' = next /\ UNCHANGED <<timer, fresh>>

\* Reconcile returns; requeue covers RequeueAfter and a returned error.
Return(requeue) ==
    /\ pc' = "idle" /\ p' = NoCopy /\ yaml' = "" /\ current' = FALSE
    /\ fresh' = FALSE /\ timer' = (timer \/ requeue)

\* The request is taken, the CR read, and Reconcile goes on with v.
Start(v, next) ==
    /\ pc = "idle" /\ queued /\ CacheRead
    /\ queued' = FALSE
    /\ p' = v /\ pc' = next /\ fresh' = (Len(log) = 1)
    /\ UNCHANGED <<log, timer, yaml, current, envVars, faults>>

StartNothing ==
    /\ pc = "idle" /\ queued /\ CacheRead
    /\ \/ Cached.life = "gone"
       \/ Cached.life = "deleting" /\ ~Cached.spec.suspend /\ ~Cached.fin
    /\ queued' = FALSE
    /\ UNCHANGED <<log, timer, recVars, envVars, faults>>

\* Suspend is looked at before deletion.
StartSuspended ==
    /\ Cached.life # "gone" /\ Cached.spec.suspend
    /\ Start(setReady(Cached, "Suspended"), "saveSuspended")

StartDeleting ==
    /\ Cached.life = "deleting" /\ ~Cached.spec.suspend /\ Cached.fin
    /\ Start(Cached, "delete")

StartLive ==
    /\ Cached.life = "live" /\ ~Cached.spec.suspend
    /\ Start(Cached, IF Cached.fin THEN "owner" ELSE "addFinalizer")

\* deletePipeline. All its errors, a Team that is not Ready among them, are only
\* logged.
Delete ==
    /\ pc = "delete"
    /\ \/ /\ p.spec.orphan \/ team # "ready"
          /\ UNCHANGED <<atc, faults>>
       \/ /\ ~p.spec.orphan /\ team = "ready"
          /\ \/ atc' = [atc EXCEPT ![p.spec.name] = NoPipeline] /\ UNCHANGED faults
             \/ Fault("atcError") /\ UNCHANGED atc
    /\ Goto("finalize")
    /\ UNCHANGED <<log, queued, p, yaml, current, cm, team, edits>>

MutFinalizeRequeue(res) == FALSE

\* "remove finalizer" errors are returned.
FinalizeRequeue(res) == res # "ok"

\* The server removes a deleted object with its last finalizer.
RemoveFinalizer ==
    /\ pc = "finalize"
    /\ \E res \in Results :
          /\ APIUpdate([Latest EXCEPT !.fin = FALSE, !.life = "gone"], res)
          /\ Return(FinalizeRequeue(res))
    /\ UNCHANGED <<queued, envVars>>

\* An Update of the object's metadata; Reconcile goes on if it was accepted.
Updated(v, w, next) ==
    /\ \E res \in Results :
          /\ APIUpdate(v, res)
          /\ IF res = "ok" THEN p' = w /\ Goto(next) /\ UNCHANGED <<yaml, current>>
                           ELSE Return(TRUE)
    /\ UNCHANGED <<queued, envVars>>

AddFinalizer ==
    /\ pc = "addFinalizer"
    /\ Updated([Latest EXCEPT !.fin = TRUE], [p EXCEPT !.fin = TRUE], "owner")

SetOwner ==
    /\ pc = "owner" /\ ~p.owned /\ team # "missing"
    /\ Updated([Latest EXCEPT !.owned = TRUE], [p EXCEPT !.owned = TRUE], "resolve")

\* A Team that cannot be read is no error here.
OwnerInPlace ==
    /\ pc = "owner" /\ (p.owned \/ team = "missing")
    /\ Goto("resolve")
    /\ UNCHANGED <<log, queued, p, yaml, current, envVars, faults>>

Resolve ==
    /\ pc = "resolve"
    /\ IF team = "ready"
       THEN UNCHANGED p /\ Goto("load")
       ELSE p' = setReady(p, "TeamNotReady") /\ Goto("saveFailed")
    /\ UNCHANGED <<log, queued, yaml, current, envVars, faults>>

MutLoaded(v) == v.spec.config

\* loadPipelineConfig
Loaded(v) == IF v.spec.config = "configMap" THEN cm ELSE v.spec.config

MutNeedsApply(v, c) == ~v.status.known

\* The hash differs from the recorded one, or no pipelineID was ever observed.
NeedsApply(v, c) == v.status.hash # c \/ ~v.status.known

Load ==
    /\ pc = "load"
    /\ yaml' = Loaded(p)
    /\ CASE yaml' = "" -> /\ p' = setReady(p, "ConfigLoadFailed")
                          /\ Goto("saveFailed")
         [] OTHER      -> /\ UNCHANGED p
                          /\ Goto(IF NeedsApply(p, yaml') THEN "fetch"
                                                          ELSE "archived")
    /\ UNCHANGED <<log, queued, current, envVars, faults>>

-----------------------------------------------------------------------------
(***************************************************************************)
(* syncPipelineConfig: fetch the config version, set-config with it, and   *)
(* once more after a comparison error.                                     *)
(***************************************************************************)
\* A fetch that fails yields the empty version, right for a new pipeline only.
Fetch ==
    /\ pc \in {"fetch", "refetch"}
    /\ \/ current' = TRUE /\ UNCHANGED faults
       \/ current' = (atc[p.spec.name].config = "") /\ Fault("atcError")
    /\ Goto(IF pc = "fetch" THEN "put" ELSE "reput")
    /\ UNCHANGED <<log, queued, p, yaml, envVars>>

\* The ATC stores the config and creates the pipeline, paused, if it is new.
AtcSets(c) ==
    atc' = [atc EXCEPT ![p.spec.name].config = c,
                       ![p.spec.name].paused = @ \/ atc[p.spec.name].config = ""]

\* set-config is accepted; the hash is recorded in the local copy.
Put ==
    /\ pc \in {"put", "reput"} /\ current
    /\ AtcSets(yaml)
    /\ p' = [p EXCEPT !.status.hash = yaml]
    /\ Goto("archived")
    /\ UNCHANGED <<log, queued, yaml, current, cm, team, edits, faults>>

\* The first comparison error leads to a second try.
PutRaced ==
    /\ pc = "put" /\ ~current
    /\ Goto("refetch")
    /\ UNCHANGED <<log, queued, p, yaml, current, envVars, faults>>

\* A second comparison error, another error, or a lost answer.
PutFails ==
    /\ pc \in {"put", "reput"}
    /\ \/ pc = "reput" /\ ~current /\ UNCHANGED <<atc, faults>>
       \/ Fault("atcError") /\ UNCHANGED atc
       \/ current /\ Fault("atcLost") /\ AtcSets(yaml)
    /\ p' = setReady(p, "SetPipelineFailed")
    /\ Goto("saveFailed")
    /\ UNCHANGED <<log, queued, yaml, current, cm, team, edits>>

-----------------------------------------------------------------------------
(***************************************************************************)
(* applyPipelineState, observePipeline and the saves.                      *)
(***************************************************************************)
\* Archive, pause or unpause, expose or hide. Each is requested in every pass,
\* but nothing takes a pipeline out of the archive. The ATC ignores requests for
\* a pipeline it does not have.
AtcState(f) ==
    IF atc[p.spec.name].config = "" \/ (f = "archived" /\ ~p.spec.archived)
    THEN UNCHANGED atc
    ELSE atc' = [atc EXCEPT ![p.spec.name] = [@ EXCEPT ![f] = p.spec[f]]]

Apply(f) ==
    /\ pc = f
    /\ AtcState(f)
    /\ Goto(AfterState[f])
    /\ UNCHANGED <<log, queued, p, yaml, current, cm, team, edits, faults>>

ApplyFails(f) ==
    /\ pc = f /\ (f = "archived" => p.spec.archived)
    /\ \/ Fault("atcError") /\ UNCHANGED atc
       \/ Fault("atcLost") /\ AtcState(f)
    /\ p' = setReady(p, "StateFailed")
    /\ Goto("saveFailed")
    /\ UNCHANGED <<log, queued, yaml, current, cm, team, edits>>

\* The pipelineID is recorded if the pipeline can be read; errors are ignored.
Observe ==
    /\ pc = "observe"
    /\ \/ /\ UNCHANGED faults
          /\ p' = setReady([p EXCEPT !.status.known =
                               @ \/ atc[p.spec.name].config # ""], "Ready")
       \/ Fault("atcError") /\ p' = setReady(p, "Ready")
    /\ Goto("saveReady")
    /\ UNCHANGED <<log, queued, yaml, current, envVars>>

MutSaveRequeue(res) == pc = "saveReady" \/ res # "ok"

\* A suspended Pipeline comes back only if its save failed, any other always:
\* after 30 seconds, 5 minutes or a backoff.
SaveRequeue(res) == pc # "saveSuspended" \/ res # "ok"

\* Status().Update
Save ==
    /\ pc \in Saves
    /\ \E res \in Results :
          /\ APIUpdate([Latest EXCEPT !.status = p.status], res)
          /\ Return(SaveRequeue(res))
    /\ UNCHANGED <<queued, envVars>>

Reconcile ==
    \/ StartNothing \/ StartSuspended \/ StartDeleting \/ StartLive
    \/ Delete \/ RemoveFinalizer \/ AddFinalizer \/ SetOwner \/ OwnerInPlace
    \/ Resolve \/ Load \/ Fetch \/ Put \/ PutRaced \/ PutFails
    \/ \E f \in States : Apply(f) \/ ApplyFails(f)
    \/ Observe \/ Save

-----------------------------------------------------------------------------
(***************************************************************************)
(* The rest of the process, users, the Team, and other clients of the ATC. *)
(***************************************************************************)
Deliver ==
    /\ Len(log) > 1
    /\ log' = Tail(log) /\ queued' = TRUE
    /\ UNCHANGED <<timer, recVars, envVars, faults>>

TimerFires ==
    /\ timer
    /\ timer' = FALSE /\ queued' = TRUE
    /\ UNCHANGED <<log, recVars, envVars, faults>>

\* The process dies and its successor lists every CR again.
Crash ==
    /\ Fault("crash")
    /\ log' = <<Latest>> /\ queued' = TRUE /\ timer' = FALSE
    /\ pc' = "idle" /\ p' = NoCopy /\ yaml' = "" /\ current' = FALSE
    /\ fresh' = FALSE
    /\ UNCHANGED envVars

UserWrites(v) ==
    /\ log' = Append(log, v) /\ fresh' = FALSE
    /\ UNCHANGED <<queued, timer, pc, p, yaml, current, atc, cm, team, faults>>

\* The CRD's rules admit setting a pipelineName that was unset.
EditSpec ==
    /\ Latest.life # "gone" /\ edits < MaxEdits /\ edits' = edits + 1
    /\ \E s \in Specs \ {Latest.spec} :
          /\ Latest.spec.name \in {"default", s.name}
          /\ UserWrites([Latest EXCEPT !.spec = s, !.gen = @ + 1])

\* Deletion marks an object that has a finalizer, and removes one that has not.
MarkDeleted ==
    /\ Latest.life = "live" /\ edits < MaxEdits /\ edits' = edits + 1
    /\ UserWrites([Latest EXCEPT !.life = IF Latest.fin THEN "deleting" ELSE "gone",
                                 !.gen = @ + 1])

\* A Pipeline of the same name is created again.
Recreate ==
    /\ Latest.life = "gone"
    /\ \E s \in Specs : UserWrites(Created(s, FALSE))
    /\ UNCHANGED edits

\* No controller watches ConfigMaps.
ConfigMapChanges ==
    /\ edits < MaxEdits /\ edits' = edits + 1
    /\ cm' \in Contents \ {cm}
    /\ UNCHANGED <<crVars, recVars, atc, team, faults>>

TeamBreaks ==
    /\ team = "ready" /\ Fault("team") /\ team' \in {"missing", "notReady"}
    /\ UNCHANGED <<crVars, recVars, atc, cm, edits>>

TeamHeals ==
    /\ team # "ready" /\ team' = "ready"
    /\ UNCHANGED <<crVars, recVars, atc, cm, edits, faults>>

\* Another client sets the pipeline between the fetch and the put.
OthersSet ==
    /\ pc \in {"put", "reput"} /\ Fault("race")
    /\ atc' = [atc EXCEPT ![p.spec.name].config = Foreign]
    /\ current' = FALSE
    /\ UNCHANGED <<crVars, pc, p, yaml, fresh, cm, team, edits>>

Environment ==
    \/ Deliver \/ TimerFires \/ Crash
    \/ EditSpec \/ MarkDeleted \/ Recreate \/ ConfigMapChanges
    \/ TeamBreaks \/ TeamHeals \/ OthersSet

Next == Reconcile \/ Environment

Spec == Init /\ [][Next]_vars

\* The controller's worker goroutine, the informer and the timers run.
Fairness == WF_vars(Reconcile) /\ WF_vars(Deliver) /\ WF_vars(TimerFires)

FairSpec == Spec /\ Fairness

-----------------------------------------------------------------------------
(***************************************************************************)
(* Properties.                                                             *)
(***************************************************************************)
\* What the ATC has under the Pipeline's name.
There == atc[Latest.spec.name]

\* Its states are the ones the spec asks for.
StatesMatch ==
    /\ There.paused = Latest.spec.paused
    /\ There.exposed = Latest.spec.exposed
    /\ Latest.spec.archived => There.archived

\* Ready means "Reconciliation succeeded; resource is in sync with Concourse"
\* (docs/architecture/index.md:80): when Ready=True is recorded for the current
\* generation of a live Pipeline, and its pipelineID (without which set-config
\* is repeated), the ATC has its inline config and its states, whichever requests
\* failed or lost their answers on the way, and whatever a predecessor of the
\* same name left behind (Reconcile, NeedsApply).
ReadyInSync ==
    (/\ Latest.life = "live"
     /\ Latest.status.ready = "Ready" /\ Latest.status.readyGen = Latest.gen
     /\ Latest.status.known
     /\ Latest.spec.config # "configMap")
        => There.config = Latest.spec.config /\ StatesMatch

Wanted ==
    /\ Latest.life = "live" /\ ~Latest.spec.suspend
    /\ team = "ready" /\ Loaded(Latest) # ""

\* A Pipeline that stays wanted with one config, inline or from the ConfigMap
\* nobody watches, ends up in the ATC with that config and its states, through
\* version races, faults, restarts and recreation (syncPipelineConfig and the
\* periodic resync).
ConfigConverges ==
    \A c \in Configs :
        <>[](Wanted /\ Loaded(Latest) = c)
            => <>[](There.config = c /\ StatesMatch)

\* A Pipeline that stays deleted and not suspended disappears, whatever becomes
\* of the request to delete it in the ATC (handlePipelineLifecycle).
DeletionCompletes ==
    []<>~(Latest.life = "deleting" /\ ~Latest.spec.suspend)
=============================================================================
