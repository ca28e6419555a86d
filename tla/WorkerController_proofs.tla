----------------------- MODULE WorkerController_proofs -----------------------
(***************************************************************************)
(* Type correctness of WorkerController, for every set of specs and        *)
(* faults, every bound, an ATC that refuses requests it can do nothing for *)
(* or takes them, and with or without informer lag.                        *)
(***************************************************************************)
EXTENDS WorkerController, Reconciler_proofs

-----------------------------------------------------------------------------
(***************************************************************************)
(* Types of what Reconcile and users write.                                *)
(***************************************************************************)
\* The parts of a version.
LEMMA VersionParts ==
    ASSUME NEW v \in Version
    PROVE  /\ v.spec \in Spec_ /\ v.status \in Status /\ v.gen \in Nat
           /\ v.spec.lifecycle \in Lifecycles
           /\ v.status.transitioning \in {"", "False", "True"}
BY DEF Version, Spec_, Status

\* A Ready condition is one of the status.
LEMMA SetReadyType ==
    ASSUME NEW v \in Version, NEW r \in ReadyReasons
    PROVE  setReady(v, r) \in Version
BY DEF setReady, Version, Status

\* The reasons that Reconcile reports.
LEMMA Reasons ==
    {"Suspended", "NamespaceNotAllowed", "InstanceNotReady", "ClientFailed",
     "TransitionFailed", "ListFailed", "WorkerNotFound", "Removed", "Ready"}
        \subseteq ReadyReasons
BY DEF ReadyReasons

\* An edit makes a version.
LEMMA EditedType ==
    ASSUME NEW v \in Version, NEW s \in Spec_
    PROVE  [v EXCEPT !.spec = s, !.gen = @ + 1] \in Version
<1> DEFINE g == v.gen + 1
<1>1. g \in Nat
  BY DEF Version
<1> HIDE DEF g
<1>2. [v EXCEPT !.spec = s, !.gen = g] \in Version
  BY <1>1 DEF Version
<1> QED BY <1>2 DEF g

\* What the list of workers says of one.
LEMMA ListedType ==
    ASSUME NEW v \in Version, worker \in Phases
    PROVE  Listed(v) \in Version
<1> DEFINE ready == CASE worker # "missing"           -> "Ready"
                      [] v.spec.lifecycle = "Removed" -> "Removed"
                      [] OTHER                        -> "WorkerNotFound"
           keeps == worker = "missing" /\ v.spec.lifecycle # "Removed"
           moves == IF workerConverged(v.spec.lifecycle, worker)
                    THEN "False" ELSE "True"
           t == IF keeps THEN v.status.transitioning ELSE moves
           w == [v EXCEPT !.status.phase = worker, !.status.transitioning = t]
<1>1. ready \in {"Ready", "Removed", "WorkerNotFound"}
  OBVIOUS
<1>2. t \in {"", "False", "True"}
  BY VersionParts
<1>3. Listed(v) = setReady(w, ready)
  BY DEF Listed
<1> HIDE DEF ready, t
<1>4. w \in Version
  BY <1>2 DEF Version, Status
<1> HIDE DEF w
<1>5. ready \in ReadyReasons
  BY <1>1, Reasons
<1> QED BY <1>3, <1>4, <1>5, SetReadyType

-----------------------------------------------------------------------------
(***************************************************************************)
(* TypeOK says of a copy that it is a version or none; while a pass runs   *)
(* there is one.                                                           *)
(***************************************************************************)
CopyOK == pc # "idle" => cr \in Version

Consistent == TypeOK /\ CopyOK

\* The loop is well typed, and so is a copy in use.
LEMMA Parts ==
    ASSUME Consistent
    PROVE  /\ LoopOK(Version, Pcs) /\ "idle" \in Pcs /\ Saves \subseteq Pcs
           /\ Latest \in Version /\ Cached \in Version
           /\ pc # "idle" => cr \in Version
           /\ inst \in Instances \cup {""} /\ instance \in Instances
           /\ worker \in Phases /\ strict \in BOOLEAN
BY LoopParts DEF Consistent, CopyOK, TypeOK, Pcs

\* The parts make a consistent state.
LEMMA Whole ==
    ASSUME LoopOK(Version, Pcs)', (pc # "idle" => cr \in Version)',
           inst' \in Instances \cup {""}, instance' \in Instances,
           worker' \in Phases, strict' = strict, Consistent
    PROVE  Consistent'
BY Parts DEF Consistent, CopyOK, TypeOK

\* A Worker starts with a version of its own and a worker that may be there.
LEMMA InitConsistent == Init => Consistent
<1> SUFFICES ASSUME Init PROVE Consistent
  OBVIOUS
<1>1. PICK s \in Specs : LoopInit(Created(s))
  BY DEF Init
<1>2. Created(s) \in Version
  BY SpecsAssumption DEF SpecsAssumption, Created, Version, Status, ReadyReasons
<1>3. "idle" \in Pcs
  BY DEF Pcs
<1>4. LoopOK(Version, Pcs)
  BY <1>1, <1>2, <1>3, LoopInitOK
<1>5. pc = "idle"
  BY <1>1 DEF LoopInit
<1>6. strict \in BOOLEAN
  BY WorkerAssumption DEF Init, WorkerAssumption
<1> QED BY <1>4, <1>5, <1>6 DEF Consistent, CopyOK, TypeOK, Init, Instances, Phases

-----------------------------------------------------------------------------
(***************************************************************************)
(* The steps.                                                              *)
(***************************************************************************)
\* A request is taken with v as the copy.
LEMMA TakeConsistent ==
    ASSUME Consistent, NEW v \in Version, NEW next \in Pcs, Take(v, next),
           inst' \in Instances \cup {""}, UNCHANGED envVars
    PROVE  Consistent'
<1>1. LoopOK(Version, Pcs)
  BY Parts
<1>2. LoopOK(Version, Pcs)' /\ cr' = v
  BY <1>1, TakeLoop
<1> QED BY <1>2, Parts, Whole DEF envVars

\* Reconcile begins.
LEMMA StartConsistent ==
    ASSUME Consistent,
           StartNothing \/ StartSuspended \/ StartInstanceMissing \/ StartLive
    PROVE  Consistent'
<1>1. CASE StartNothing \/ StartInstanceMissing
  <2>1. LoopOK(Version, Pcs)' /\ UNCHANGED <<pc, cr>>
    BY <1>1, Parts, IgnoreLoop DEF StartNothing, StartInstanceMissing
  <2> QED BY <1>1, <2>1, Parts, Whole
         DEF StartNothing, StartInstanceMissing, envVars
<1>2. CASE StartSuspended
  <2>1. setReady(Cached, "Suspended") \in Version /\ "saveSuspended" \in Pcs
    BY Parts, Reasons, SetReadyType DEF Saves
  <2> QED BY <1>2, <2>1, Parts, TakeConsistent DEF StartSuspended
<1>3. CASE StartLive
  <2> DEFINE next == IF Cached.owned \/ Cached.spec.remote THEN "client" ELSE "owner"
  <2>1. next \in Pcs
    BY DEF Pcs
  <2>2. Take(Cached, next)
    BY <1>3 DEF StartLive
  <2> HIDE DEF next
  <2>3. inst' \in Instances \cup {""}
    BY <1>3, Parts DEF StartLive
  <2> QED BY <1>3, <2>1, <2>2, <2>3, Parts, TakeConsistent DEF StartLive
<1> QED BY <1>1, <1>2, <1>3

\* The owner reference.
LEMMA OwnerConsistent ==
    ASSUME Consistent, SetOwner
    PROVE  Consistent'
<1> DEFINE v == [Latest EXCEPT !.owned = TRUE]
           w == [cr EXCEPT !.owned = TRUE]
<1>1. pc # "idle" /\ Update(v, w, "client") /\ UNCHANGED envVars
  BY DEF SetOwner
<1>2. v \in Version /\ w \in Version /\ "client" \in Pcs
  <2>1. Latest \in Version /\ cr \in Version
    BY <1>1, Parts
  <2>2. \A x \in Version : [x EXCEPT !.owned = TRUE] \in Version
    BY DEF Version
  <2> QED BY <2>1, <2>2 DEF Pcs
<1> HIDE DEF v, w
<1>3. LoopOK(Version, Pcs)' /\ (Accepted(v, w, "client") \/ Rejected)
  BY <1>1, <1>2, Parts, UpdateLoop
<1>4. (pc # "idle" => cr \in Version)'
  BY <1>2, <1>3 DEF Accepted, Rejected
<1>5. inst' \in Instances \cup {""}
  BY Parts DEF SetOwner
<1> QED BY <1>1, <1>3, <1>4, <1>5, Parts, Whole DEF envVars

\* A call to Concourse or a lookup, after which the copy is v.
LEMMA StepConsistent ==
    ASSUME Consistent, NEW v \in Version, NEW next \in Pcs, Step(v, next),
           faults' = faults \/ \E kind : Fault(kind),
           inst' \in {inst, ""}, worker' \in Phases, UNCHANGED <<instance, strict>>
    PROVE  Consistent'
<1>1. LoopOK(Version, Pcs)' /\ cr' = v
  BY Parts, StepLoop
<1>2. inst' \in Instances \cup {""}
  BY Parts
<1> QED BY <1>1, <1>2, Parts, Whole

\* The calls between the start and the save.
LEMMA CallConsistent ==
    ASSUME Consistent,
           Connect \/ ConnectFails \/ Land \/ LandFails \/ ListWorkers \/ ListFails
    PROVE  Consistent'
<1> USE DEF envVars
<1>1. pc # "idle" /\ cr \in Version
  BY Parts DEF Connect, ConnectFails, Land, LandFails, ListWorkers, ListFails
<1>2. \A r \in ReadyReasons : setReady(cr, r) \in Version
  BY <1>1, SetReadyType
<1>3. {"list", "transition"} \cup Saves \subseteq Pcs
  BY DEF Pcs
<1>4. ASSUME Transition PROVE worker' \in Phases
  BY <1>4, Parts DEF Transition, Phases
<1>5. CASE Connect
  <2>1. \E next \in {"list", "transition"} : Step(cr, next)
    BY <1>5 DEF Connect
  <2> QED BY <1>1, <1>3, <1>5, <2>1, Parts, StepConsistent DEF Connect
<1>6. CASE ConnectFails
  <2>1. \E r \in ReadyReasons, next \in Saves : Step(setReady(cr, r), next)
    BY <1>6, Reasons DEF ConnectFails, Saves
  <2> QED BY <1>2, <1>3, <1>6, <2>1, Parts, StepConsistent DEF ConnectFails
<1>7. CASE Land
  BY <1>1, <1>3, <1>4, <1>7, StepConsistent DEF Land
<1>8. CASE LandFails
  <2>1. worker' \in Phases /\ (faults' = faults \/ \E kind : Fault(kind))
    BY <1>4, <1>8, Parts DEF LandFails
  <2>2. "TransitionFailed" \in ReadyReasons /\ "saveNotReady" \in Pcs
    BY <1>3, Reasons DEF Saves
  <2> QED BY <1>2, <1>8, <2>1, <2>2, StepConsistent DEF LandFails
<1>9. CASE ListWorkers
  <2>1. Listed(cr) \in Version /\ "saveListed" \in Pcs
    BY <1>1, <1>3, Parts, ListedType DEF Saves
  <2> QED BY <1>9, <2>1, Parts, StepConsistent DEF ListWorkers
<1>10. CASE ListFails
  <2>1. "ListFailed" \in ReadyReasons /\ "saveListFailed" \in Pcs
    BY <1>3, Reasons DEF Saves
  <2> QED BY <1>2, <1>10, <2>1, Parts, StepConsistent DEF ListFails
<1> QED BY <1>5, <1>6, <1>7, <1>8, <1>9, <1>10

\* The status write and the return.
LEMMA SaveConsistent ==
    ASSUME Consistent, SaveStatus
    PROVE  Consistent'
<1>1. cr \in Version /\ Save(SaveAgain("ok"), SaveAgain("error"))
  BY Parts DEF SaveStatus, Saves
<1>2. [Latest EXCEPT !.status = cr.status] \in Version
  BY <1>1, Parts, VersionParts DEF Version
<1>3. SaveAgain("ok") \in BOOLEAN /\ SaveAgain("error") \in BOOLEAN
  BY DEF SaveAgain
<1>4. LoopOK(Version, Pcs)' /\ pc' = "idle"
  BY <1>1, <1>2, <1>3, Parts, SaveLoop
<1> QED BY <1>4, Parts, Whole DEF SaveStatus, envVars

\* The informer, the timers and restarts.
LEMMA ProcessConsistent ==
    ASSUME Consistent, Deliver \/ TimerFires \/ Crash
    PROVE  Consistent'
<1>1. CASE Deliver \/ TimerFires
  <2>1. LoopOK(Version, Pcs)' /\ UNCHANGED <<pc, cr>>
    BY <1>1, Parts, WakeLoop DEF Deliver, TimerFires
  <2> QED BY <1>1, <2>1, Parts, Whole DEF Deliver, TimerFires, envVars
<1>2. CASE Crash
  <2>1. LoopOK(Version, Pcs)' /\ pc' = "idle"
    BY <1>2, Parts, RestartLoop DEF Crash
  <2> QED BY <1>2, <2>1, Parts, Whole DEF Crash, envVars
<1> QED BY <1>1, <1>2

\* Users' writes.
LEMMA UserConsistent ==
    ASSUME Consistent, EditSpec \/ MarkDeleted
    PROVE  Consistent'
<1>1. \E v \in Version : UserWrites(v)
  <2>1. CASE EditSpec
    <3>1. PICK s \in Specs : Edit(s)
      BY <2>1 DEF EditSpec
    <3>2. [Latest EXCEPT !.spec = s, !.gen = @ + 1] \in Version
      <4>1. s \in Spec_
        BY SpecsAssumption DEF SpecsAssumption
      <4> QED BY <4>1, Parts, EditedType
    <3> QED BY <3>1, <3>2 DEF Edit
  <2>2. CASE MarkDeleted
    <3>1. PICK l \in {"deleting", "gone"} : UserWrites([Latest EXCEPT !.life = l])
      BY <2>2 DEF MarkDeleted
    <3>2. [Latest EXCEPT !.life = l] \in Version
      BY Parts DEF Version
    <3> QED BY <3>1, <3>2
  <2> QED BY <2>1, <2>2
<1>2. LoopOK(Version, Pcs)' /\ UNCHANGED <<pc, cr>>
  BY <1>1, Parts, UserLoop
<1> QED BY <1>2, Parts, Whole DEF EditSpec, MarkDeleted, envVars

\* The Instance, and what the worker does by itself.
LEMMA OthersConsistent ==
    ASSUME Consistent, \/ InstanceBreaks \/ InstanceGoes \/ InstanceHeals
                       \/ WorkerLands \/ WorkerRetires \/ WorkerActs
    PROVE  Consistent'
<1>1. /\ UNCHANGED <<loopVars, edits>> /\ UNCHANGED <<inst, strict>>
      /\ faults' = faults \/ \E kind : Fault(kind)
  BY DEF InstanceBreaks, InstanceGoes, InstanceHeals,
         WorkerLands, WorkerRetires, WorkerActs, WorkerMoves
<1>2. LoopOK(Version, Pcs)' /\ UNCHANGED <<pc, cr>>
  BY <1>1, Parts, OthersLoop
<1>3. instance' \in Instances
  BY Parts DEF InstanceBreaks, InstanceGoes, InstanceHeals, Instances,
               WorkerLands, WorkerRetires, WorkerActs, WorkerMoves
<1>4. worker' \in Phases
  BY Parts DEF InstanceBreaks, InstanceGoes, InstanceHeals, Phases,
               WorkerLands, WorkerRetires, WorkerActs, WorkerMoves
<1> QED BY <1>1, <1>2, <1>3, <1>4, Parts, Whole

-----------------------------------------------------------------------------
(***************************************************************************)
(* The theorem.                                                            *)
(***************************************************************************)
\* Every step keeps the invariant.
LEMMA NextConsistent == Consistent /\ [Next]_vars => Consistent'
<1> SUFFICES ASSUME Consistent, [Next]_vars PROVE Consistent'
  OBVIOUS
<1>1. CASE UNCHANGED vars
  <2>1. UNCHANGED <<loopVars, edits, inst, envVars>> /\ faults' = faults
    BY <1>1 DEF vars
  <2>2. LoopOK(Version, Pcs)' /\ UNCHANGED <<pc, cr>>
    BY <2>1, Parts, OthersLoop
  <2> QED BY <2>1, <2>2, Parts, Whole DEF envVars
<1>2. CASE Reconcile
  BY <1>2, StartConsistent, OwnerConsistent, CallConsistent, SaveConsistent
     DEF Reconcile
<1>3. CASE Environment
  BY <1>3, ProcessConsistent, UserConsistent, OthersConsistent DEF Environment
<1> QED BY <1>1, <1>2, <1>3 DEF Next

\* All variables of WorkerReconciler's model have their types.
THEOREM TypeCorrect == Spec => []TypeOK
<1>1. Consistent => TypeOK
  BY DEF Consistent
<1> QED BY <1>1, InitConsistent, NextConsistent, PTL DEF Spec

=============================================================================
