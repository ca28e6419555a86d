-------------------------- MODULE WorkerController --------------------------
(***************************************************************************)
(* WorkerReconciler (internal/controller/worker_controller.go) for one     *)
(* Worker and the Concourse worker of its name: landing or pruning it in   *)
(* every pass, and reporting the phase the ATC lists it in.  The worker    *)
(* itself lands, retires, stalls and registers again on its own.           *)
(***************************************************************************)
EXTENDS Reconciler

CONSTANTS
    Specs,     \* specs the Worker is created with or edited to
    StrictAtc  \* does the ATC refuse to land a worker it does not have, and to
               \* prune one it does not have or one that is running?

AllFaults == {"crash", "atcError", "atcLost", "apiError", "apiLost",
              "instance", "gone", "worker"}

Lifecycles == {"Running", "Draining", "Removed"}

\* WorkerPhase, the states of a worker in the ATC.
Phases == {"running", "landing", "landed", "retiring", "stalled", "missing"}

ASSUME WorkerAssumption ==
    /\ StrictAtc \subseteq BOOLEAN
    /\ FaultKinds \subseteq AllFaults

\* WorkerSpec; an unset lifecycle is Running. remote: the Instance is in another
\* namespace, which has to allow the Worker's and cannot own it.
Spec_ == [lifecycle : Lifecycles, remote : BOOLEAN, suspend : BOOLEAN]

ASSUME SpecsAssumption == Specs \subseteq Spec_

ReadyReasons == {"", "Suspended", "NamespaceNotAllowed", "InstanceNotReady",
                 "ClientFailed", "TransitionFailed", "ListFailed",
                 "WorkerNotFound", "Removed", "Ready"}

\* WorkerStatus: the phase, the Ready condition (True for "Ready" and "Removed")
\* and the StateTransitioning condition.
Status == [phase : Phases \cup {""}, transitioning : {"", "False", "True"},
           ready : ReadyReasons, readyGen : Nat]

Version == [life : {"live", "deleting", "gone"}, owned : BOOLEAN, gen : Nat,
            spec : Spec_, status : Status]

Created(s) ==
    [life |-> "live", owned |-> FALSE, gen |-> 0, spec |-> s,
     status |-> [phase |-> "", transitioning |-> "", ready |-> "", readyGen |-> 0]]

\* Status writes, named after what they report.
Saves == {"saveSuspended", "saveListed", "saveListFailed",
          "saveNotAllowed", "saveNotReady"}

Pcs == {"idle", "owner", "client", "transition", "list"} \cup Saves

Instances == {"missing", "notAllowed", "notReady", "noClient", "ready"}

VARIABLES
    inst,      \* the Instance as Reconcile has read it, "" when not needed
    worker,    \* the phase of the worker in the ATC
    instance,  \* the Instance: missing, in a namespace that does not allow the
               \* Worker's, not Ready, without a client, Ready
    strict     \* the ATC's answer to requests it can do nothing for, fixed

envVars == <<worker, instance, strict>>
vars    == <<loopVars, inst, edits, faults, envVars>>

\* The types of all variables.
TypeOK ==
    /\ LoopOK(Version, Pcs)
    /\ inst \in Instances \cup {""} /\ instance \in Instances
    /\ worker \in Phases
    /\ strict \in BOOLEAN

Init ==
    /\ \E s \in Specs : LoopInit(Created(s))
    /\ worker \in {"running", "missing"} /\ instance = "ready" /\ inst = ""
    /\ strict \in StrictAtc

-----------------------------------------------------------------------------
(***************************************************************************)
(* Reconcile.                                                              *)
(***************************************************************************)
StartNothing ==
    /\ Cached.life = "gone" \/ (Cached.life = "deleting" /\ ~Cached.spec.suspend)
    /\ Ignore
    /\ UNCHANGED <<inst, envVars>>

StartSuspended ==
    /\ Cached.life # "gone" /\ Cached.spec.suspend
    /\ Take(setReady(Cached, "Suspended"), "saveSuspended")
    /\ UNCHANGED <<inst, envVars>>

\* IgnoreNotFound: without its Instance a Worker is not requeued.
StartInstanceMissing ==
    /\ Cached.life = "live" /\ ~Cached.spec.suspend /\ instance = "missing"
    /\ Ignore
    /\ UNCHANGED <<inst, envVars>>

StartLive ==
    /\ Cached.life = "live" /\ ~Cached.spec.suspend /\ instance # "missing"
    /\ Take(Cached, IF Cached.owned \/ Cached.spec.remote THEN "client" ELSE "owner")
    /\ inst' = instance
    /\ UNCHANGED envVars

SetOwner ==
    /\ pc = "owner"
    /\ Update([Latest EXCEPT !.owned = TRUE], [cr EXCEPT !.owned = TRUE], "client")
    /\ inst' = IF pc' = "client" THEN inst ELSE ""
    /\ UNCHANGED envVars

\* The Instance as it was read is allowed and Ready, and the Cache has or builds
\* a client for it.
Connect ==
    /\ pc = "client" /\ inst = "ready"
    /\ Step(cr, IF cr.spec.lifecycle = "Running" THEN "list" ELSE "transition")
    /\ inst' = ""
    /\ UNCHANGED <<envVars, faults>>

ConnectFails ==
    /\ pc = "client" /\ inst # "ready"
    /\ CASE inst = "notAllowed" ->
              Step(setReady(cr, "NamespaceNotAllowed"), "saveNotAllowed")
         [] inst = "noClient" -> Step(setReady(cr, "ClientFailed"), "saveNotReady")
         [] OTHER -> Step(setReady(cr, "InstanceNotReady"), "saveNotReady")
    /\ inst' = ""
    /\ UNCHANGED <<envVars, faults>>

\* The ATC refuses the request.
Refused == /\ strict
           /\ \/ worker = "missing"
              \/ cr.spec.lifecycle = "Removed" /\ worker = "running"

\* LandWorker drains a worker, PruneWorker removes it.
Transition ==
    IF cr.spec.lifecycle = "Removed" THEN worker' = "missing"
    ELSE worker' = IF worker \in {"landed", "missing"} THEN worker ELSE "landing"

Land ==
    /\ pc = "transition" /\ ~Refused
    /\ Transition
    /\ Step(cr, "list")
    /\ UNCHANGED <<inst, instance, strict, faults>>

LandFails ==
    /\ pc = "transition"
    /\ \/ Refused /\ UNCHANGED <<worker, faults>>
       \/ Fault("atcError") /\ UNCHANGED worker
       \/ ~Refused /\ Fault("atcLost") /\ Transition
    /\ Step(setReady(cr, "TransitionFailed"), "saveNotReady")
    /\ UNCHANGED <<inst, instance, strict>>

MutworkerConverged(lifecycle, phase) ==
    CASE lifecycle = "Running"  -> phase = "running"
      [] lifecycle = "Draining" -> phase = "landing"
      [] lifecycle = "Removed"  -> phase = "missing"

\* workerConverged
workerConverged(lifecycle, phase) ==
    CASE lifecycle = "Running"  -> phase = "running"
      [] lifecycle = "Draining" -> phase \in {"landing", "landed"}
      [] lifecycle = "Removed"  -> phase = "missing"

MutListedReason(v) ==
    setReady([v EXCEPT !.status.phase = worker],
             IF worker = "missing" THEN "NotFound" ELSE "Ready")

\* The status after ListWorkers answered. A worker that is not listed keeps its
\* StateTransitioning condition unless it was meant to be removed.
Listed(v) ==
    LET ready == CASE worker # "missing"             -> "Ready"
                   [] v.spec.lifecycle = "Removed"   -> "Removed"
                   [] OTHER                          -> "WorkerNotFound"
        keeps == worker = "missing" /\ v.spec.lifecycle # "Removed"
        moves == IF workerConverged(v.spec.lifecycle, worker) THEN "False" ELSE "True"
    IN  setReady([v EXCEPT !.status.phase = worker,
                           !.status.transitioning = IF keeps THEN @ ELSE moves], ready)

ListWorkers ==
    /\ pc = "list"
    /\ Step(Listed(cr), "saveListed")
    /\ UNCHANGED <<inst, envVars, faults>>

ListFails ==
    /\ pc = "list" /\ Fault("atcError")
    /\ Step(setReady(cr, "ListFailed"), "saveListFailed")
    /\ UNCHANGED <<inst, envVars>>

MutSaveAgain(res) == res # "ok" \/ pc = "saveNotReady"

\* A suspended Worker and one that is not allowed do not come back after their
\* save, the first one does when it failed; all others come back.
SaveAgain(res) ==
    /\ pc # "saveNotAllowed"
    /\ pc = "saveSuspended" => res # "ok"

SaveStatus ==
    /\ pc \in Saves
    /\ Save(SaveAgain("ok"), SaveAgain("error"))
    /\ UNCHANGED <<inst, envVars>>

Reconcile ==
    \/ StartNothing \/ StartSuspended \/ StartInstanceMissing \/ StartLive
    \/ SetOwner \/ Connect \/ ConnectFails \/ Land \/ LandFails
    \/ ListWorkers \/ ListFails \/ SaveStatus

-----------------------------------------------------------------------------
(***************************************************************************)
(* Users, the Instance and the worker.                                     *)
(***************************************************************************)
Deliver == DeliverVersion /\ UNCHANGED <<inst, envVars>>

TimerFires == Fires /\ UNCHANGED <<inst, envVars>>

Crash == Restart /\ inst' = "" /\ UNCHANGED envVars

\* instanceRef is immutable.
EditSpec ==
    /\ \E s \in Specs : s.remote = Latest.spec.remote /\ Edit(s)
    /\ UNCHANGED <<inst, envVars>>

\* Workers have no finalizer; deletion marks one that others have put one on.
MarkDeleted ==
    /\ Latest.life = "live"
    /\ \E l \in {"deleting", "gone"} : UserWrites([Latest EXCEPT !.life = l])
    /\ UNCHANGED <<inst, envVars>>

\* The Instance stops being Ready, or has no client.
InstanceBreaks ==
    /\ instance = "ready" /\ Fault("instance")
    /\ instance' \in {"notReady", "noClient"}
    /\ UNCHANGED <<loopVars, inst, edits, worker, strict>>

\* The Instance is deleted, or withdraws the Worker's namespace.
InstanceGoes ==
    /\ instance = "ready" /\ Fault("gone")
    /\ instance' \in {"missing"} \cup {x \in {"notAllowed"} : Latest.spec.remote}
    /\ UNCHANGED <<loopVars, inst, edits, worker, strict>>

InstanceHeals ==
    /\ instance # "ready" /\ instance' = "ready"
    /\ UNCHANGED <<loopVars, inst, edits, faults, worker, strict>>

WorkerMoves(to) ==
    /\ worker' = to
    /\ UNCHANGED <<loopVars, inst, edits, faults, instance, strict>>

\* A worker asked to land or retire does so.
WorkerLands == worker = "landing" /\ WorkerMoves("landed")

WorkerRetires == worker = "retiring" /\ WorkerMoves("missing")

\* A worker registers, retires or stops sending heartbeats.
WorkerActs ==
    /\ Fault("worker")
    /\ worker' \in (CASE worker \in {"missing", "landed", "stalled"} -> {"running"}
                      [] OTHER -> {"retiring", "stalled"}) \ {worker}
    /\ UNCHANGED <<loopVars, inst, edits, instance, strict>>

Environment ==
    \/ Deliver \/ TimerFires \/ Crash \/ EditSpec \/ MarkDeleted
    \/ InstanceBreaks \/ InstanceGoes \/ InstanceHeals
    \/ WorkerLands \/ WorkerRetires \/ WorkerActs

Next == Reconcile \/ Environment

Spec == Init /\ [][Next]_vars

\* The controller's worker goroutine, the informer and the timers run, and a
\* worker that was asked to leave does.
Fairness ==
    /\ WF_vars(Reconcile) /\ WF_vars(Deliver) /\ WF_vars(TimerFires)
    /\ WF_vars(WorkerLands) /\ WF_vars(WorkerRetires)

FairSpec == Spec /\ Fairness

-----------------------------------------------------------------------------
(***************************************************************************)
(* Properties.                                                             *)
(***************************************************************************)
Wanted == Latest.life = "live" /\ ~Latest.spec.suspend /\ instance = "ready"

\* The Instance was always there and open to the Worker: a Reconcile that finds
\* otherwise returns without asking to come back.
Reachable == instance \notin {"missing", "notAllowed"}

\* The ATC does not refuse what the spec asks of the worker as it is.
Possible ==
    strict => CASE Latest.spec.lifecycle = "Running"  -> TRUE
                [] Latest.spec.lifecycle = "Draining" -> worker # "missing"
                [] OTHER -> worker \notin {"missing", "running"}

\* The spec asks the worker to leave, the ATC would refuse to prune it, it left.
Leaving   == Latest.spec.lifecycle # "Running"
Refusable == strict /\ Latest.spec.lifecycle = "Removed" /\ worker = "running"
Left      == worker \in {"missing"} \cup {x \in {"landed"} : Latest.spec.lifecycle = "Draining"}

\* "lifecycle: Draining (land / graceful drain), or Removed (prune)"
\* (README.md:78): a worker that is to leave and may do so ends up landed or
\* gone and stays it, also when it registered again, stalled or lost a request
\* on the way (LandWorker and PruneWorker in every pass).
LifecycleReached ==
    ([]Reachable /\ <>[](Wanted /\ Leaving /\ ~Refusable)) => <>[]Left

\* What each lifecycle asks for.
Fulfils == {<<"Running", "running">>, <<"Draining", "landing">>,
            <<"Draining", "landed">>, <<"Removed", "missing">>}

\* A worker that stays in one phase is reported in it, as ready (or removed, or
\* not found) and, if the ATC lists it, as in transition exactly when that is
\* not what the spec asks for, through failing requests, conflicts and restarts
\* (the status part of Reconcile).
PhaseReported ==
    ([]Reachable /\ <>[](Wanted /\ Possible) /\ <>[][worker' = worker]_vars)
        => <>[](LET st == Latest.status
                IN  /\ st.phase = worker
                    /\ st.ready = IF worker # "missing" THEN "Ready"
                                  ELSE IF Latest.spec.lifecycle = "Removed"
                                       THEN "Removed" ELSE "WorkerNotFound"
                    /\ worker # "missing" =>
                          (st.transitioning = "False"
                              <=> <<Latest.spec.lifecycle, worker>> \in Fulfils))
=============================================================================
