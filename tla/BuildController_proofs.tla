----------------------- MODULE BuildController_proofs -----------------------
(***************************************************************************)
(* Proofs about BuildController, for every set of build ids, specs,        *)
(* comments and faults, every bound, and with or without informer lag.     *)
(***************************************************************************)
EXTENDS BuildController, TLAPS

-----------------------------------------------------------------------------
\* The bounds are natural numbers.
LEMMA Bounds ==
    MaxFaults \in Nat /\ MaxEdits \in Nat /\ RetrySteps \in Nat \ {0}
BY BuildAssumption, Zenon DEF BuildAssumption

\* Build ids are not nil, pre-existing builds have ids, outcomes are terminal.
LEMMA ConstantSets ==
    0 \notin Ids /\ Existing \subseteq Ids /\ Outcomes \subseteq Terminal
BY BuildAssumption, Zenon DEF BuildAssumption

-----------------------------------------------------------------------------
(***************************************************************************)
(* The version log.                                                        *)
(***************************************************************************)
\* The ends of a non-empty log are versions.
LEMMA LogEnds ==
    ASSUME NEW l, LogOK(l)
    PROVE  l[1] \in Version /\ l[Len(l)] \in Version
BY DEF LogOK

\* Appending a version makes it the latest one.
LEMMA LogAppend ==
    ASSUME NEW l, LogOK(l), NEW v \in Version
    PROVE  /\ LogOK(Append(l, v))
           /\ Append(l, v)[Len(Append(l, v))] = v
BY DEF LogOK

\* Delivery of the oldest version leaves the latest one in place.
LEMMA LogTail ==
    ASSUME NEW l, LogOK(l), Len(l) > 1
    PROVE  /\ LogOK(Tail(l))
           /\ Tail(l)[Len(Tail(l))] = l[Len(l)]
BY DEF LogOK

\* A restart keeps only the latest version.
LEMMA LogSingle ==
    ASSUME NEW v \in Version
    PROVE  LogOK(<<v>>) /\ <<v>>[Len(<<v>>)] = v
BY DEF LogOK

\* A store leaves the version it was given as the latest one.
LEMMA StoreLatest ==
    ASSUME LogOK(log), NEW v \in Version, Store(v)
    PROVE  LogOK(log') /\ Latest' = v
<1>1. CASE v = Latest
  BY <1>1 DEF Store, Latest
<1>2. CASE v # Latest
  BY <1>2, LogAppend DEF Store, Latest
<1> QED BY <1>1, <1>2

\* Whatever its result, an API update leaves either the old latest version or
\* the new one, and the new one only if the writer was up to date.
LEMMA UpdateLatest ==
    ASSUME LogOK(log), NEW v \in Version, NEW res, APIUpdate(v, res),
           faults \in 0 .. MaxFaults
    PROVE  /\ LogOK(log')
           /\ Latest' = Latest \/ (fresh /\ Latest' = v)
           /\ res = "ok" => fresh /\ Latest' = v
           /\ faults' \in 0 .. MaxFaults
<1>1. faults' = faults \/ (faults < MaxFaults /\ faults' = faults + 1)
  BY DEF APIUpdate, Fault
<1>2. faults' \in 0 .. MaxFaults
  BY <1>1, Bounds
<1>3. (fresh /\ Store(v)) \/ (log' = log /\ res # "ok")
  BY DEF APIUpdate, Fault
<1>4. CASE fresh /\ Store(v)
  BY <1>2, <1>4, StoreLatest
<1>5. CASE log' = log /\ res # "ok"
  BY <1>2, <1>5 DEF Latest
<1> QED BY <1>3, <1>4, <1>5

-----------------------------------------------------------------------------
(***************************************************************************)
(* What the assignments to a version of the CR do to the fields the proofs *)
(* are about.                                                              *)
(***************************************************************************)
\* An owner reference changes neither spec nor status.
LEMMA SetOwnedType ==
    ASSUME NEW v \in Version
    PROVE  /\ setOwned(v) \in Version
           /\ setOwned(v).status = v.status /\ setOwned(v).spec = v.spec
BY DEF setOwned, Version

\* A status replaces the status and nothing else.
LEMMA SetStatusType ==
    ASSUME NEW v \in Version, NEW s \in Status
    PROVE  /\ setStatus(v, s) \in Version
           /\ setStatus(v, s).status = s /\ setStatus(v, s).spec = v.spec
BY DEF setStatus, Version

\* A build id replaces the build id and nothing else.
LEMMA SetBuildIDType ==
    ASSUME NEW v \in Version, NEW i \in Ids \cup {0}
    PROVE  /\ setBuildID(v, i) \in Version
           /\ setBuildID(v, i).status.buildID = i
           /\ setBuildID(v, i).status.phase = v.status.phase
           /\ setBuildID(v, i).status.complete = v.status.complete
           /\ setBuildID(v, i).spec = v.spec
BY DEF setBuildID, Version, Status

\* A phase replaces the phase and nothing else.
LEMMA SetPhaseType ==
    ASSUME NEW v \in Version, NEW p \in {"", "pending", "started"} \cup Terminal
    PROVE  /\ setPhase(v, p) \in Version
           /\ setPhase(v, p).status.phase = p
           /\ setPhase(v, p).status.buildID = v.status.buildID
           /\ setPhase(v, p).status.complete = v.status.complete
           /\ setPhase(v, p).spec = v.spec
BY DEF setPhase, Version, Status

\* A comment replaces the comment and nothing else.
LEMMA SetCommentType ==
    ASSUME NEW v \in Version, NEW c \in Comments \cup {""}
    PROVE  /\ setComment(v, c) \in Version
           /\ setComment(v, c).status.buildID = v.status.buildID
           /\ setComment(v, c).status.phase = v.status.phase
BY DEF setComment, Version, Status

\* A Ready condition leaves the tracking fields alone.
LEMMA SetReadyType ==
    ASSUME NEW v \in Version, NEW r \in ReadyReasons
    PROVE  /\ setReady(v, r) \in Version
           /\ setReady(v, r).status.buildID = v.status.buildID
           /\ setReady(v, r).status.phase = v.status.phase
           /\ setReady(v, r).status.complete = v.status.complete
           /\ setReady(v, r).spec = v.spec
BY DEF setReady, Version, Status

\* The final status keeps the tracking fields and reports a terminal phase.
LEMMA FinishedType ==
    ASSUME NEW v \in Version, NEW r \in ReadyReasons
    PROVE  /\ Finished(v, r) \in Version
           /\ Finished(v, r).status.buildID = v.status.buildID
           /\ Finished(v, r).status.phase = v.status.phase
           /\ isTerminal(v.status.phase) =>
                 Finished(v, r).status.complete = v.status.phase
BY DEF Finished, setReady, Version, Status, isTerminal

\* The parts of a version.
LEMMA VersionParts ==
    ASSUME NEW v \in Version
    PROVE  /\ v.status \in Status
           /\ v.status.buildID \in Ids \cup {0}
           /\ v.status.phase \in {"", "pending", "started"} \cup Terminal
           /\ v.spec.buildID \in Existing \cup {0}
           /\ v.spec.comment \in Comments \cup {""}
           /\ v.gen \in Nat
BY DEF Version, Status, Spec_

\* The empty copy of an idle reconciler is a version.
LEMMA NoCopyType == NoCopy \in Version
BY DEF NoCopy, NoSpec, NoStatus, Version, Spec_, Status, ReadyReasons

\* User writes are versions, and leave the status alone.
LEMMA EditTypes ==
    ASSUME NEW v \in Version
    PROVE  /\ \A s \in Specs : LET w == [v EXCEPT !.spec = s, !.gen = @ + 1]
                               IN  w \in Version /\ w.status = v.status
           /\ LET w == [v EXCEPT !.life = "deleting", !.gen = @ + 1]
              IN  w \in Version /\ w.status = v.status
           /\ LET w == [v EXCEPT !.life = "gone"]
              IN  w \in Version /\ w.status = v.status
<1>1. \A n \in Nat : n + 1 \in Nat
  OBVIOUS
<1>2. v.gen + 1 \in Nat
  BY <1>1, VersionParts
<1> DEFINE n == v.gen + 1
<1>3. n \in Nat
  BY <1>2
<1> HIDE DEF n
<1>4. \A s \in Specs : LET w == [v EXCEPT !.spec = s, !.gen = n]
                       IN  w \in Version /\ w.status = v.status
  BY <1>3, SpecsAssumption DEF Version
<1>5. LET w == [v EXCEPT !.life = "deleting", !.gen = n]
      IN  w \in Version /\ w.status = v.status
  BY <1>3 DEF Version
<1>6. LET w == [v EXCEPT !.life = "gone"]
      IN  w \in Version /\ w.status = v.status
  BY DEF Version
<1> QED BY <1>4, <1>5, <1>6 DEF n

\* A status update replaces at most the status of the latest version.
LEMMA StatusUpdateLatest ==
    ASSUME LogOK(log), b \in Version, faults \in 0 .. MaxFaults,
           NEW res, StatusUpdate(res)
    PROVE  /\ LogOK(log')
           /\ Latest' = Latest \/ (fresh /\ Latest'.status = b.status)
           /\ res = "ok" => fresh /\ Latest'.status = b.status
           /\ faults' \in 0 .. MaxFaults
<1>1. /\ setStatus(Latest, b.status) \in Version
      /\ setStatus(Latest, b.status).status = b.status
  BY LogEnds, SetStatusType, VersionParts DEF Latest
<1>2. APIUpdate(setStatus(Latest, b.status), res)
  BY DEF StatusUpdate
<1> QED BY <1>1, <1>2, UpdateLatest

\* A fault counts once.
LEMMA FaultCounts ==
    ASSUME faults \in 0 .. MaxFaults, NEW k, Fault(k)
    PROVE  faults' \in 0 .. MaxFaults
<1>1. faults < MaxFaults /\ faults' = faults + 1
  BY DEF Fault
<1> QED BY <1>1, Bounds

-----------------------------------------------------------------------------
(***************************************************************************)
(* Type correctness. TypeOK is not inductive: the phase copied from the    *)
(* ATC and the ids handed to it have their types only because the calls    *)
(* after ensureBuildTriggered are made with a build id that is set, and a  *)
(* build is triggered only when none is.                                   *)
(***************************************************************************)
HasId == {"persistGet", "persistPut", "abort", "observe", "comment", "saveFinal"}

TracksId == /\ pc \in HasId => b.status.buildID # 0
            /\ pc = "trigger" => b.status.buildID = 0

TypeInv == TypeOK /\ TracksId

\* The initial states are type correct.
LEMMA InitTypes == Init => TypeInv
<1> SUFFICES ASSUME Init PROVE TypeInv
  OBVIOUS
<1>1. PICK s \in Specs, o \in BOOLEAN :
         log = << [life |-> "live", owned |-> o, gen |-> 0, spec |-> s,
                   status |-> NoStatus] >>
  BY DEF Init
<1>2. [life |-> "live", owned |-> o, gen |-> 0, spec |-> s,
       status |-> NoStatus] \in Version
  BY SpecsAssumption DEF Version, NoStatus, Status, ReadyReasons
<1>3. LogOK(log)
  BY <1>1, <1>2, LogSingle
<1>4. PICK f \in [Existing -> {"started", "gone"} \cup Outcomes] :
         atc = [i \in Ids |-> IF i \in Existing THEN f[i] ELSE "none"]
  BY DEF Init
<1>5. atc \in [Ids -> AtcStates]
  BY <1>4, ConstantSets DEF AtcStates
<1>6. CountersOK
  <2>1. faults = 0 /\ attempt = 0
    BY Zenon DEF Init
  <2> QED BY <2>1, Bounds DEF CountersOK
<1>7. job \in BOOLEAN
  BY BuildAssumption, Zenon DEF Init, BuildAssumption
<1>8. AtcOK
  BY <1>5 DEF Init, AtcOK
<1>9. pc = "idle" /\ b = NoCopy /\ RecOK /\ TracksId
  BY NoCopyType DEF Init, RecOK, TracksId, HasId, Pcs
<1> QED
  BY <1>3, <1>6, <1>7, <1>8, <1>9
     DEF Init, TypeInv, TypeOK, QueueOK, WatcherOK, NoWatcher

\* A step that leaves the counters alone keeps them in range.
LEMMA SameCounters == CountersOK /\ UNCHANGED <<attempt, faults>> => CountersOK'
BY DEF CountersOK

\* A step that injects a fault keeps the counters in range.
LEMMA FaultCounters ==
    ASSUME CountersOK, NEW k, Fault(k), attempt' = attempt \/ attempt' = 0
    PROVE  CountersOK'
<1>1. faults' \in 0 .. MaxFaults
  BY FaultCounts DEF CountersOK
<1> QED BY <1>1, Bounds DEF CountersOK

\* Returning from Reconcile leaves a type-correct idle reconciler.
LEMMA ReturnTypes ==
    ASSUME NEW rq, Return(rq)
    PROVE  /\ RecOK' /\ TracksId' /\ timer' \in BOOLEAN
           /\ attempt' \in 0 .. RetrySteps
<1>1. pc' = "idle" /\ b' = NoCopy /\ fresh' = FALSE
  BY Zenon DEF Return
<1>2. attempt' = 0
  BY Zenon DEF Return
<1>3. timer' \in BOOLEAN
  BY DEF Return
<1>4. attempt' \in 0 .. RetrySteps
  BY <1>2, Bounds
<1>5. RecOK' /\ TracksId'
  BY <1>1, NoCopyType DEF RecOK, TracksId, HasId, Pcs
<1> QED BY <1>3, <1>4, <1>5

\* Every step preserves type correctness.
LEMMA NextTypes == TypeInv /\ [Next]_vars => TypeInv'
<1> SUFFICES ASSUME TypeInv, [Next]_vars PROVE TypeInv'
  OBVIOUS
<1> USE DEF crVars, recVars, atcVars, envVars
<1>a. LogOK(log) /\ RecOK /\ CountersOK /\ AtcOK /\ TracksId /\ QueueOK
      /\ WatcherOK /\ job \in BOOLEAN /\ chain \in BOOLEAN
  BY DEF TypeInv, TypeOK
<1>b. Latest \in Version /\ Cached \in Version /\ b \in Version
  BY <1>a, LogEnds DEF Latest, Cached, RecOK
<1>c. faults \in 0 .. MaxFaults /\ attempt \in 0 .. RetrySteps
  BY <1>a DEF CountersOK
<1>1. CASE StartNothing
  <2>1. CountersOK'
    BY <1>1, <1>a, SameCounters DEF StartNothing
  <2> QED BY <1>1, <1>a, <2>1
     DEF StartNothing, RecOK, TracksId, QueueOK, WatcherOK, AtcOK, TypeInv, TypeOK
<1>2. CASE StartSuspended
  <2>1. CountersOK'
    BY <1>2, <1>a, SameCounters DEF StartSuspended, Goto
  <2>2. RecOK' /\ TracksId'
    BY <1>2, <1>b, SetReadyType
       DEF StartSuspended, Goto, RecOK, TracksId, HasId, Pcs, EarlySaves,
           ReadyReasons
  <2> QED BY <1>2, <1>a, <2>1, <2>2
     DEF StartSuspended, Goto, QueueOK, WatcherOK, AtcOK, TypeInv, TypeOK
<1>3. CASE StartNoJobRef
  <2>1. CountersOK'
    BY <1>3, <1>a, SameCounters DEF StartNoJobRef, Goto
  <2>2. RecOK' /\ TracksId'
    BY <1>3, <1>b, SetReadyType
       DEF StartNoJobRef, Goto, RecOK, TracksId, HasId, Pcs, EarlySaves,
           ReadyReasons
  <2> QED BY <1>3, <1>a, <2>1, <2>2
     DEF StartNoJobRef, Goto, QueueOK, WatcherOK, AtcOK, TypeInv, TypeOK
<1>4. CASE StartJobMissing
  <2>1. CountersOK'
    BY <1>4, <1>a, SameCounters DEF StartJobMissing
  <2> QED BY <1>4, <1>a, <2>1
     DEF StartJobMissing, RecOK, TracksId, QueueOK, WatcherOK, AtcOK, TypeInv, TypeOK
<1>5. CASE StartWithJob
  <2>1. CountersOK'
    BY <1>5, <1>a, SameCounters DEF StartWithJob, Goto
  <2>2. RecOK' /\ TracksId'
    BY <1>5, <1>b
       DEF StartWithJob, Goto, RecOK, TracksId, HasId, Pcs, EarlySaves
  <2> QED BY <1>5, <1>a, <2>1, <2>2
     DEF StartWithJob, Goto, QueueOK, WatcherOK, AtcOK, TypeInv, TypeOK
<1>6. CASE SetOwner
  <2>1. PICK res \in Results :
           /\ APIUpdate(setOwned(Latest), res)
           /\ IF res = "ok"
              THEN b' = setOwned(b) /\ UNCHANGED fresh /\ Goto("resolve")
              ELSE Return(TRUE)
    BY <1>6 DEF SetOwner
  <2>2. LogOK(log') /\ faults' \in 0 .. MaxFaults
    BY <2>1, <1>a, <1>b, <1>c, SetOwnedType, UpdateLatest
  <2>3. CASE res = "ok"
    <3>1. b' = setOwned(b) /\ UNCHANGED fresh /\ Goto("resolve")
      BY <2>1, <2>3
    <3>2. RecOK' /\ TracksId'
      BY <3>1, <1>a, <1>b, SetOwnedType
         DEF Goto, RecOK, TracksId, HasId, Pcs, EarlySaves
    <3>3. CountersOK'
      BY <3>1, <2>2, <1>c DEF Goto, CountersOK
    <3> QED BY <1>6, <1>a, <3>1, <2>2, <3>2, <3>3
       DEF SetOwner, Goto, QueueOK, WatcherOK, AtcOK, TypeInv, TypeOK
  <2>4. CASE res # "ok"
    <3>1. Return(TRUE)
      BY <2>1, <2>4
    <3>2. CountersOK'
      BY <3>1, <2>2, ReturnTypes DEF CountersOK
    <3> QED BY <1>6, <1>a, <2>2, <3>1, <3>2, ReturnTypes
       DEF SetOwner, QueueOK, WatcherOK, AtcOK, TypeInv, TypeOK
  <2> QED BY <1>6, <1>a, <2>1, <2>2, <2>3, <2>4
     DEF SetOwner
<1>7. CASE ResolveFails
  <2>1. CountersOK'
    BY <1>7, <1>a, SameCounters DEF ResolveFails, Goto
  <2>2. RecOK' /\ TracksId'
    BY <1>7, <1>a, <1>b, SetReadyType
       DEF ResolveFails, Goto, RecOK, TracksId, HasId, Pcs, EarlySaves,
           ReadyReasons
  <2> QED BY <1>7, <1>a, <2>1, <2>2
     DEF ResolveFails, Goto, QueueOK, WatcherOK, AtcOK, TypeInv, TypeOK
<1>8. CASE ResolveTracked
  <2>1. CountersOK'
    BY <1>8, <1>a, SameCounters DEF ResolveTracked, Goto
  <2>2. RecOK' /\ TracksId'
    BY <1>8, <1>a, <1>b
       DEF ResolveTracked, Goto, AfterTracking, RecOK, TracksId, HasId, Pcs,
           EarlySaves
  <2> QED BY <1>8, <1>a, <2>1, <2>2
     DEF ResolveTracked, Goto, QueueOK, WatcherOK, AtcOK, TypeInv, TypeOK
<1>9. CASE ResolveAdopts
  <2>1. CountersOK'
    BY <1>9, <1>a, SameCounters DEF ResolveAdopts, Goto
  <2>2. b.spec.buildID \in Ids /\ b.spec.buildID # 0
    BY <1>9, <1>b, VersionParts, ConstantSets DEF ResolveAdopts
  <2>3. b' \in Version /\ b'.status.buildID # 0
    BY <1>9, <1>b, <2>2, SetBuildIDType DEF ResolveAdopts
  <2>4. RecOK' /\ TracksId'
    BY <1>9, <1>a, <2>3
       DEF ResolveAdopts, Goto, AfterTracking, RecOK, TracksId, HasId, Pcs,
           EarlySaves
  <2> QED BY <1>9, <1>a, <2>1, <2>2, <2>3, <2>4
     DEF ResolveAdopts, Goto, QueueOK, WatcherOK, AtcOK, TypeInv, TypeOK
<1>10. CASE ResolveNew
  <2>1. CountersOK'
    BY <1>10, <1>a, SameCounters DEF ResolveNew, Goto
  <2>2. RecOK' /\ TracksId'
    BY <1>10, <1>a, <1>b
       DEF ResolveNew, Goto, RecOK, TracksId, HasId, Pcs, EarlySaves
  <2> QED BY <1>10, <1>a, <2>1, <2>2
     DEF ResolveNew, Goto, QueueOK, WatcherOK, AtcOK, TypeInv, TypeOK
<1>11. CASE Trigger
  <2>1. CountersOK'
    BY <1>11, <1>a, SameCounters DEF Trigger, Goto
  <2>2. PICK i \in Ids : AtcCreates(i) /\ b' = setBuildID(b, i)
    BY <1>11 DEF Trigger
  <2>3. b' \in Version /\ b'.status.buildID # 0
    BY <1>b, <2>2, SetBuildIDType, ConstantSets
  <2>4. RecOK' /\ TracksId'
    BY <1>11, <1>a, <2>3
       DEF Trigger, Goto, RecOK, TracksId, HasId, Pcs, EarlySaves
  <2>5. AtcOK'
    BY <2>2, <1>a DEF AtcCreates, AtcOK, AtcStates
  <2> QED BY <1>11, <1>a, <2>1, <2>2, <2>3, <2>4, <2>5
     DEF Trigger, Goto, QueueOK, WatcherOK, TypeInv, TypeOK
<1>12. CASE TriggerFails
  <2>1. CountersOK'
    BY <1>12, <1>a, FaultCounters DEF TriggerFails, Goto
  <2>2. RecOK' /\ TracksId'
    BY <1>12, <1>a, <1>b, SetReadyType
       DEF TriggerFails, Goto, RecOK, TracksId, HasId, Pcs, EarlySaves,
           ReadyReasons
  <2>3. AtcOK'
    BY <1>12, <1>a DEF TriggerFails, AtcCreates, AtcOK, AtcStates
  <2> QED BY <1>12, <1>a, <2>1, <2>2, <2>3
     DEF TriggerFails, Goto, QueueOK, WatcherOK, TypeInv, TypeOK
<1>13. CASE PersistGet
  <2>1. CASE Cached.life = "gone"
    <3>1. Return(TRUE)
      BY <1>13, <2>1 DEF PersistGet
    <3>2. CountersOK'
      BY <1>13, <3>1, <1>c, ReturnTypes DEF PersistGet, CountersOK
    <3> QED BY <1>13, <1>a, <3>1, <3>2, ReturnTypes
       DEF PersistGet, QueueOK, WatcherOK, AtcOK, TypeInv, TypeOK
  <2>2. CASE Cached.life # "gone" /\ Cached.status.buildID # 0
    <3>1. b' = setStatus(b, Cached.status) /\ pc' = AfterTracking(b)
      BY <1>13, <2>2 DEF PersistGet, AlreadyTracked
    <3>2. attempt' = 0 /\ UNCHANGED <<timer, faults>> /\ fresh' \in BOOLEAN
      BY <1>13, <2>2 DEF PersistGet, AlreadyTracked
    <3>3. b' \in Version /\ b'.status.buildID # 0
      BY <3>1, <2>2, <1>b, SetStatusType, VersionParts
    <3>4. RecOK' /\ TracksId'
      BY <3>1, <3>2, <3>3, <1>a
         DEF AfterTracking, RecOK, TracksId, HasId, Pcs, EarlySaves
    <3>5. CountersOK'
      BY <3>2, <1>c, Bounds DEF CountersOK
    <3> QED BY <1>13, <1>a, <3>2, <3>4, <3>5
       DEF PersistGet, QueueOK, WatcherOK, AtcOK, TypeInv, TypeOK
  <2>3. CASE Cached.life # "gone" /\ Cached.status.buildID = 0
    <3>1. b' = setBuildID(setStatus(b, Cached.status), b.status.buildID)
      BY <1>13, <2>3 DEF PersistGet, AlreadyTracked
    <3>2. Goto("persistPut") /\ fresh' \in BOOLEAN /\ UNCHANGED faults
      BY <1>13, <2>3 DEF PersistGet, AlreadyTracked
    <3>3. b.status.buildID # 0
      BY <1>13, <1>a DEF PersistGet, TracksId, HasId
    <3>4. b' \in Version /\ b'.status.buildID # 0
      BY <3>1, <3>3, <1>b, SetStatusType, SetBuildIDType, VersionParts
    <3>5. RecOK' /\ TracksId'
      BY <3>2, <3>4 DEF Goto, RecOK, TracksId, HasId, Pcs, EarlySaves
    <3>6. CountersOK'
      BY <3>2, <1>a, SameCounters DEF Goto
    <3> QED BY <1>13, <1>a, <3>2, <3>5, <3>6
       DEF PersistGet, Goto, QueueOK, WatcherOK, AtcOK, TypeInv, TypeOK
  <2> QED BY <1>13, <1>a, <2>1, <2>2, <2>3
     DEF PersistGet
<1>14. CASE PersistPut
  <2>1. PICK res \in Results :
           /\ StatusUpdate(res)
           /\ \/ /\ pc' = AfterTracking(b) /\ attempt' = 0
                 /\ UNCHANGED <<b, fresh, timer>>
              \/ /\ attempt + 1 < RetrySteps
                 /\ pc' = "persistGet" /\ attempt' = attempt + 1
                 /\ UNCHANGED <<b, fresh, timer>>
              \/ Return(TRUE)
    BY <1>14, Zenon DEF PersistPut, RetryConflict
  <2>2. LogOK(log') /\ faults' \in 0 .. MaxFaults
    BY <2>1, <1>a, <1>b, <1>c, StatusUpdateLatest
  <2>3. CASE pc' = AfterTracking(b) /\ attempt' = 0 /\ UNCHANGED <<b, fresh, timer>>
    <3>1. RecOK' /\ TracksId'
      BY <1>14, <2>3, <1>a
         DEF PersistPut, AfterTracking, RecOK, TracksId, HasId, Pcs,
             EarlySaves
    <3>2. CountersOK'
      BY <2>2, <2>3, Bounds DEF CountersOK
    <3> QED BY <1>14, <1>a, <2>2, <2>3, <3>1, <3>2
       DEF PersistPut, QueueOK, WatcherOK, AtcOK, TypeInv, TypeOK
  <2>4. CASE /\ attempt + 1 < RetrySteps
            /\ pc' = "persistGet" /\ attempt' = attempt + 1
            /\ UNCHANGED <<b, fresh, timer>>
    <3>1. RecOK' /\ TracksId'
      BY <1>14, <2>4, <1>a
         DEF PersistPut, RecOK, TracksId, HasId, Pcs, EarlySaves
    <3>2. attempt' \in 0 .. RetrySteps
      BY <2>4, <1>c, Bounds
    <3> QED BY <1>14, <1>a, <2>2, <2>4, <3>1, <3>2
       DEF PersistPut, CountersOK, QueueOK, WatcherOK, AtcOK, TypeInv, TypeOK
  <2>5. CASE Return(TRUE)
    <3>1. CountersOK'
      BY <2>2, <2>5, ReturnTypes DEF CountersOK
    <3> QED BY <1>14, <1>a, <2>2, <2>5, <3>1, ReturnTypes
       DEF PersistPut, QueueOK, WatcherOK, AtcOK, TypeInv, TypeOK
  <2> QED BY <1>14, <1>a, <2>1, <2>2, <2>3, <2>4, <2>5
     DEF PersistPut
<1>15. CASE Abort
  <2>1. b.status.buildID \in Ids
    BY <1>15, <1>a, <1>b, VersionParts DEF Abort, TracksId, HasId
  <2>2. CountersOK'
    BY <1>15, <1>a, SameCounters, FaultCounters DEF Abort, Goto
  <2>3. RecOK' /\ TracksId'
    BY <1>15, <1>a DEF Abort, Goto, RecOK, TracksId, HasId, Pcs, EarlySaves
  <2>4. AtcOK'
    BY <1>15, <1>a, <2>1 DEF Abort, AtcOK
  <2> QED BY <1>15, <1>a, <2>1, <2>2, <2>3, <2>4
     DEF Abort, Goto, QueueOK, WatcherOK, TypeInv, TypeOK
<1>16. CASE Observe
  <2>1. CountersOK'
    BY <1>16, <1>a, SameCounters DEF Observe, Goto
  <2>2. b.status.buildID \in Ids /\ b.status.buildID # 0
    BY <1>16, <1>a, <1>b, VersionParts DEF Observe, TracksId, HasId
  <2>3. RecOK' /\ TracksId'
    <3>1. CASE NotFound(b.status.buildID) /\ isTerminal(b.status.phase)
      BY <1>16, <1>a, <2>2, <3>1
         DEF Observe, GivesUp, Observed, Goto, RecOK, TracksId, HasId, Pcs, EarlySaves
    <3>2. CASE NotFound(b.status.buildID) /\ ~isTerminal(b.status.phase)
      <4>1. setBuildID(b, 0) \in Version
        BY <1>b, SetBuildIDType
      <4>2. setPhase(setBuildID(b, 0), "") \in Version
        BY <4>1, SetPhaseType
      <4> QED BY <1>16, <1>a, <3>2, <4>2
         DEF Observe, GivesUp, GivenUp, Goto, RecOK, TracksId, HasId, Pcs, EarlySaves
    <3>3. CASE ~NotFound(b.status.buildID)
      <4> DEFINE p == atc[b.status.buildID]
      <4>1. p \in {"", "pending", "started"} \cup Terminal
        BY <1>a, <2>2, <3>3 DEF NotFound, AtcOK, AtcStates
      <4>2. setPhase(b, p) \in Version /\ setPhase(b, p).status.buildID # 0
        BY <1>b, <2>2, <4>1, SetPhaseType
      <4>3. b' = setPhase(b, p) /\ pc' = "comment" /\ UNCHANGED fresh
        BY <1>16, <3>3 DEF Observe, GivesUp, Observed, Goto
      <4> QED BY <1>a, <4>2, <4>3 DEF RecOK, TracksId, HasId, Pcs, EarlySaves
    <3> QED BY <3>1, <3>2, <3>3
  <2> QED BY <1>16, <1>a, <2>1, <2>2, <2>3
     DEF Observe, Goto, QueueOK, WatcherOK, AtcOK, TypeInv, TypeOK
<1>17. CASE ObserveFails
  <2>1. CountersOK'
    BY <1>17, <1>a, FaultCounters DEF ObserveFails, Goto
  <2>2. RecOK' /\ TracksId'
    BY <1>17, <1>a
       DEF ObserveFails, Goto, RecOK, TracksId, HasId, Pcs, EarlySaves
  <2> QED BY <1>17, <1>a, <2>1, <2>2
     DEF ObserveFails, Goto, QueueOK, WatcherOK, AtcOK, TypeInv, TypeOK
<1>18. CASE CommentNotNeeded
  <2>1. CountersOK'
    BY <1>18, <1>a, SameCounters DEF CommentNotNeeded, Goto
  <2>2. RecOK' /\ TracksId'
    BY <1>18, <1>a, <1>b, FinishedType
       DEF CommentNotNeeded, Goto, ReadyReasons, RecOK, TracksId, HasId, Pcs,
           EarlySaves
  <2> QED BY <1>18, <1>a, <2>1, <2>2
     DEF CommentNotNeeded, Goto, QueueOK, WatcherOK, AtcOK, TypeInv, TypeOK
<1>19. CASE CommentSet
  <2>1. CountersOK'
    BY <1>19, <1>a, SameCounters DEF CommentSet, Goto
  <2>2. b.status.buildID # 0
    BY <1>19, <1>a DEF CommentSet, TracksId, HasId
  <2>3. /\ setComment(b, b.spec.comment) \in Version
        /\ setComment(b, b.spec.comment).status.buildID # 0
    BY <1>b, <2>2, VersionParts, SetCommentType
  <2>4. "Tracked" \in ReadyReasons
    BY Zenon DEF ReadyReasons
  <2>5. /\ Finished(setComment(b, b.spec.comment), "Tracked") \in Version
        /\ Finished(setComment(b, b.spec.comment), "Tracked").status.buildID # 0
    BY <2>3, <2>4, FinishedType
  <2>6. RecOK' /\ TracksId'
    BY <1>19, <1>a, <2>5
       DEF CommentSet, Goto, RecOK, TracksId, HasId, Pcs, EarlySaves
  <2>7. AtcOK'
    BY <1>19, <1>a, <1>b, VersionParts DEF CommentSet, AtcComments, AtcOK
  <2> QED BY <1>19, <1>a, <2>1, <2>2, <2>3, <2>4, <2>5, <2>6, <2>7
     DEF CommentSet, Goto, QueueOK, WatcherOK, TypeInv, TypeOK
<1>20. CASE CommentFails
  <2>1. CountersOK'
    BY <1>20, <1>a, SameCounters, FaultCounters DEF CommentFails, Goto
  <2>2. RecOK' /\ TracksId'
    BY <1>20, <1>a, <1>b, FinishedType
       DEF CommentFails, Goto, ReadyReasons, RecOK, TracksId, HasId, Pcs,
           EarlySaves
  <2>3. AtcOK'
    BY <1>20, <1>a, <1>b, VersionParts DEF CommentFails, AtcComments, AtcOK
  <2> QED BY <1>20, <1>a, <2>1, <2>2, <2>3
     DEF CommentFails, Goto, QueueOK, WatcherOK, TypeInv, TypeOK
<1>21. CASE SaveFinal
  <2>1. \E res \in Results : StatusUpdate(res) /\ (\E rq : Return(rq))
    BY <1>21 DEF SaveFinal
  <2>2. LogOK(log') /\ faults' \in 0 .. MaxFaults
    BY <2>1, <1>a, <1>b, <1>c, StatusUpdateLatest
  <2>3. RecOK' /\ TracksId' /\ timer' \in BOOLEAN /\ attempt' \in 0 .. RetrySteps
    BY <2>1, ReturnTypes
  <2>4. watcher' = watcher \/ watcher' = [id |-> b.status.buildID, sent |-> FALSE]
    BY <1>21 DEF SaveFinal
  <2>5. [id |-> b.status.buildID, sent |-> FALSE] \in [id : Ids \cup {0}, sent : BOOLEAN]
    BY <1>b, VersionParts
  <2>6. WatcherOK'
    BY <1>a, <2>4, <2>5, Zenon DEF WatcherOK
  <2> QED BY <1>21, <1>a, <2>1, <2>2, <2>3, <2>4, <2>5, <2>6
     DEF SaveFinal, CountersOK, QueueOK, AtcOK, TypeInv, TypeOK
<1>22. CASE SaveEarly
  <2>1. \E res \in Results : StatusUpdate(res) /\ (\E rq : Return(rq))
    BY <1>22 DEF SaveEarly
  <2>2. LogOK(log') /\ faults' \in 0 .. MaxFaults
    BY <2>1, <1>a, <1>b, <1>c, StatusUpdateLatest
  <2>3. RecOK' /\ TracksId' /\ timer' \in BOOLEAN /\ attempt' \in 0 .. RetrySteps
    BY <2>1, ReturnTypes
  <2> QED BY <1>22, <1>a, <2>1, <2>2, <2>3
     DEF SaveEarly, CountersOK, QueueOK, WatcherOK, AtcOK, TypeInv, TypeOK
<1>23. CASE Deliver
  <2>1. CountersOK'
    BY <1>23, <1>a, SameCounters DEF Deliver
  <2>2. LogOK(log')
    BY <1>23, <1>a, LogTail DEF Deliver
  <2> QED BY <1>23, <1>a, <2>1, <2>2
     DEF Deliver, RecOK, TracksId, QueueOK, WatcherOK, AtcOK, TypeInv, TypeOK
<1>24. CASE TimerFires
  <2>1. CountersOK'
    BY <1>24, <1>a, SameCounters DEF TimerFires
  <2> QED BY <1>24, <1>a, <2>1
     DEF TimerFires, RecOK, TracksId, QueueOK, WatcherOK, AtcOK, TypeInv, TypeOK
<1>25. CASE WatcherSees \/ WatcherBreaks
  <2>1. CountersOK'
    BY <1>25, <1>a, SameCounters DEF WatcherSees, WatcherBreaks, WatcherEnqueues
  <2> QED BY <1>25, <1>a, <2>1
     DEF WatcherSees, WatcherBreaks, WatcherEnqueues, RecOK, TracksId, QueueOK, WatcherOK, AtcOK, TypeInv, TypeOK
<1>26. CASE WatcherExits
  <2>1. CountersOK'
    BY <1>26, <1>a, SameCounters DEF WatcherExits
  <2> QED BY <1>26, <1>a, <2>1
     DEF WatcherExits, NoWatcher, RecOK, TracksId, QueueOK, WatcherOK, AtcOK, TypeInv, TypeOK
<1>27. CASE Crash
  <2>1. CountersOK'
    BY <1>27, <1>a, FaultCounters DEF Crash
  <2>2. LogOK(log')
    BY <1>27, <1>b, LogSingle DEF Crash
  <2>3. RecOK' /\ TracksId'
    BY <1>27, NoCopyType DEF Crash, RecOK, TracksId, HasId, Pcs, EarlySaves
  <2> QED BY <1>27, <1>a, <2>1, <2>2, <2>3
     DEF Crash, NoWatcher, QueueOK, WatcherOK, AtcOK, TypeInv, TypeOK
<1>28. CASE EditSpec
  <2>1. PICK s \in Specs : UserWrites([Latest EXCEPT !.spec = s, !.gen = @ + 1])
    BY <1>28 DEF EditSpec
  <2>2. CountersOK'
    BY <2>1, <1>a, SameCounters DEF UserWrites
  <2>3. [Latest EXCEPT !.spec = s, !.gen = @ + 1] \in Version
    BY <1>b, EditTypes
  <2>4. LogOK(log')
    BY <1>a, <2>1, <2>3, LogAppend DEF UserWrites
  <2> QED BY <1>28, <1>a, <2>1, <2>2, <2>3, <2>4
     DEF UserWrites, RecOK, TracksId, QueueOK, WatcherOK, AtcOK, TypeInv, TypeOK
<1>29. CASE MarkDeleted
  <2>1. CountersOK'
    BY <1>29, <1>a, SameCounters DEF MarkDeleted, UserWrites
  <2>2. LogOK(log')
    BY <1>29, <1>a, <1>b, LogAppend, EditTypes DEF MarkDeleted, UserWrites
  <2> QED BY <1>29, <1>a, <2>1, <2>2
     DEF MarkDeleted, UserWrites, RecOK, TracksId, QueueOK, WatcherOK, AtcOK, TypeInv, TypeOK
<1>30. CASE Remove
  <2>1. CountersOK'
    BY <1>30, <1>a, SameCounters DEF Remove, UserWrites
  <2>2. LogOK(log')
    BY <1>30, <1>a, <1>b, LogAppend, EditTypes DEF Remove, UserWrites
  <2> QED BY <1>30, <1>a, <2>1, <2>2
     DEF Remove, UserWrites, RecOK, TracksId, QueueOK, WatcherOK, AtcOK, TypeInv, TypeOK
<1>31. CASE JobCreated
  <2>1. CountersOK'
    BY <1>31, <1>a, SameCounters DEF JobCreated
  <2> QED BY <1>31, <1>a, <2>1
     DEF JobCreated, RecOK, TracksId, QueueOK, WatcherOK, AtcOK, TypeInv, TypeOK
<1>32. CASE ChainBreaks
  <2>1. CountersOK'
    BY <1>32, <1>a, FaultCounters DEF ChainBreaks
  <2> QED BY <1>32, <1>a, <2>1
     DEF ChainBreaks, RecOK, TracksId, QueueOK, WatcherOK, AtcOK, TypeInv, TypeOK
<1>33. CASE ChainHeals
  <2>1. CountersOK'
    BY <1>33, <1>a, SameCounters DEF ChainHeals
  <2> QED BY <1>33, <1>a, <2>1
     DEF ChainHeals, RecOK, TracksId, QueueOK, WatcherOK, AtcOK, TypeInv, TypeOK
<1>34. CASE \E i \in Ids : AtcStarts(i) \/ AtcEnds(i) \/ AtcAborts(i)
  <2>1. PICK i \in Ids, to \in {"started"} \cup Terminal : AtcMoves(i, to)
    BY <1>34, ConstantSets DEF AtcStarts, AtcEnds, AtcAborts, Terminal
  <2>2. CountersOK'
    BY <1>a, <2>1, SameCounters DEF AtcMoves
  <2>3. AtcOK'
    BY <1>a, <2>1 DEF AtcMoves, AtcOK, AtcStates
  <2> QED BY <1>34, <1>a, <2>1, <2>2, <2>3
     DEF AtcMoves, RecOK, TracksId, QueueOK, WatcherOK, TypeInv, TypeOK
<1>35. CASE AtcVanishes
  <2>1. CountersOK'
    BY <1>35, <1>a, FaultCounters DEF AtcVanishes
  <2>2. AtcOK'
    BY <1>35, <1>a DEF AtcVanishes, AtcOK, AtcStates
  <2> QED BY <1>35, <1>a, <2>1, <2>2
     DEF AtcVanishes, RecOK, TracksId, QueueOK, WatcherOK, TypeInv, TypeOK
<1>36. CASE UNCHANGED vars
  <2>1. CountersOK'
    BY <1>36, <1>a, SameCounters DEF vars
  <2> QED BY <1>36, <1>a, <2>1
     DEF vars, RecOK, TracksId, QueueOK, WatcherOK, AtcOK, TypeInv, TypeOK
<1> QED
  BY <1>1, <1>2, <1>3, <1>4, <1>5, <1>6, <1>7, <1>8, <1>9, <1>10, <1>11,
     <1>12, <1>13, <1>14, <1>15, <1>16, <1>17, <1>18, <1>19, <1>20, <1>21,
     <1>22, <1>23, <1>24, <1>25, <1>26, <1>27, <1>28, <1>29, <1>30, <1>31,
     <1>32, <1>33, <1>34, <1>35, <1>36
     DEF Next, Reconcile, Process, Environment

\* Every reachable state is type correct (TypeOK), whatever the bounds.
THEOREM TypeCorrect == Spec => []TypeOK
<1>1. TypeInv => TypeOK
  BY DEF TypeInv
<1> QED BY InitTypes, NextTypes, <1>1, PTL DEF Spec

-----------------------------------------------------------------------------
(***************************************************************************)
(* The recorded outcome. What is recorded is safe because of what holds of *)
(* the local copy while its resourceVersion is current: only then can it   *)
(* be written. The invariant TrackInv says, of the stored status and of    *)
(* such a copy, that                                                       *)
(*  - it is Sound: the ATC has (or had) the build it tracks, and a         *)
(*    terminal phase in it is that build's;                                *)
(*  - it is Reported: the Complete condition names a terminal phase,       *)
(*    except between observing the phase and setting the condition;        *)
(* and of the copy that it Follows the stored status: it tracks the same   *)
(* build, or, about to give up the build, none because the ATC dropped it, *)
(* and it keeps a terminal phase.                                          *)
(***************************************************************************)
Sound(s, a) ==
    /\ s.buildID # 0 => a[s.buildID] # "none"
    /\ isTerminal(s.phase) => /\ s.buildID # 0
                              /\ a[s.buildID] \in {s.phase, "gone"}

Reported(s) == isTerminal(s.phase) => s.complete = s.phase

Follows(s, r, a) ==
    /\ r.buildID # 0 => \/ s.buildID = r.buildID
                        \/ s.buildID = 0 /\ s.phase = "" /\ a[r.buildID] = "gone"
    /\ isTerminal(r.phase) => s.phase = r.phase

Tracks(s, r) == r.buildID # 0 => s.buildID = r.buildID

ExistingKnown(a) == \A i \in Existing : a[i] # "none"

CopyTrue == fresh => /\ Sound(b.status, atc)
                     /\ Follows(b.status, Recorded, atc)
                     /\ pc # "comment" => Reported(b.status)
                     /\ pc # "vanished" => Tracks(b.status, Recorded)

\* The build persistBuildTracking records is one the ATC created.
NewKnown == pc \in {"persistGet", "persistPut"} => atc[b.status.buildID] # "none"

TrackInv == /\ ExistingKnown(atc) /\ NewKnown
            /\ Sound(Recorded, atc) /\ Reported(Recorded)
            /\ CopyTrue

\* How the ATC's builds change: an id in use stays in use, an ended build can
\* only be dropped, and a dropped build does not come back.
Evolves(a, c) ==
    \A i \in Ids : /\ a[i] # "none" => c[i] # "none"
                   /\ a[i] \in Terminal => c[i] \in {a[i], "gone"}
                   /\ a[i] = "gone" => c[i] = "gone"

\* What the ATC does leaves a sound status sound.
LEMMA SoundKept ==
    ASSUME NEW a, NEW c, Evolves(a, c), NEW s \in Status, Sound(s, a)
    PROVE  Sound(s, c)
<1>1. s.buildID \in Ids \cup {0} /\ s.phase \in {"", "pending", "started"} \cup Terminal
  BY DEF Status
<1>2. CASE s.buildID = 0
  BY <1>2 DEF Sound
<1>3. CASE s.buildID # 0
  BY <1>1, <1>3 DEF Sound, Evolves, isTerminal, Terminal
<1> QED BY <1>2, <1>3

\* What the ATC does does not make a copy lose the recorded status.
LEMMA FollowsKept ==
    ASSUME NEW a, NEW c, Evolves(a, c), NEW s \in Status, NEW r \in Status,
           Follows(s, r, a)
    PROVE  Follows(s, r, c)
<1>1. r.buildID \in Ids \cup {0}
  BY DEF Status
<1> QED BY <1>1 DEF Follows, Evolves

\* Every step lets the ATC evolve.
LEMMA NextAtc == TypeInv /\ [Next]_vars => Evolves(atc, atc')
<1> SUFFICES ASSUME TypeInv, [Next]_vars PROVE Evolves(atc, atc')
  OBVIOUS
<1>a. atc \in [Ids -> AtcStates]
  BY DEF TypeInv, TypeOK, AtcOK
<1>1. CASE UNCHANGED atc
  BY <1>1, <1>a DEF Evolves
<1>2. ASSUME NEW i \in Ids, AtcCreates(i)
      PROVE  Evolves(atc, atc')
  BY <1>2, <1>a DEF AtcCreates, NextId, Evolves, Terminal
<1>3. ASSUME NEW i \in Ids, NEW to, to \notin {"none"},
             atc[i] \in {"pending", "started"}, AtcMoves(i, to)
      PROVE  Evolves(atc, atc')
  BY <1>3, <1>a DEF AtcMoves, Evolves, Terminal
<1>4. CASE AtcVanishes
  BY <1>4, <1>a DEF AtcVanishes, NotFound, Evolves, Terminal
<1>5. CASE \E i \in Ids : AtcStarts(i) \/ AtcEnds(i) \/ AtcAborts(i)
  <2>1. PICK i \in Ids, to \in {"started"} \cup Terminal :
           atc[i] \in {"pending", "started"} /\ AtcMoves(i, to)
    BY <1>5, ConstantSets DEF AtcStarts, AtcEnds, AtcAborts, Terminal
  <2>2. to \notin {"none"}
    BY <2>1 DEF Terminal
  <2> QED BY <1>3, <2>1, <2>2
<1>6. CASE Trigger
  BY <1>2, <1>6 DEF Trigger
<1>7. CASE TriggerFails
  BY <1>1, <1>2, <1>7 DEF TriggerFails, atcVars
<1>8. CASE Reconcile
  BY <1>1, <1>6, <1>7, <1>8 DEF Reconcile, StartNothing, StartSuspended,
     StartNoJobRef, StartJobMissing, StartWithJob, SetOwner, ResolveFails,
     ResolveTracked, ResolveAdopts, ResolveNew, PersistGet, PersistPut, Abort,
     Observe, ObserveFails, CommentNotNeeded, CommentSet, CommentFails,
     SaveFinal, SaveEarly, atcVars
<1>9. CASE Process
  BY <1>1, <1>9 DEF Process, Deliver, TimerFires, WatcherSees, WatcherBreaks,
     WatcherEnqueues, WatcherExits, Crash, atcVars
<1>10. CASE Environment
  BY <1>1, <1>4, <1>5, <1>10 DEF Environment, EditSpec, MarkDeleted, Remove,
     UserWrites, JobCreated, ChainBreaks, ChainHeals, atcVars
<1>11. CASE UNCHANGED vars
  BY <1>1, <1>11 DEF vars, atcVars
<1> QED BY <1>8, <1>9, <1>10, <1>11 DEF Next

\* The recorded status changes only by writing an up-to-date local copy, and
\* never between observing the phase and setting the Complete condition.
LEMMA NextRecorded ==
    TypeInv /\ [Next]_vars =>
        Recorded' = Recorded \/ (fresh /\ pc # "comment" /\ Recorded' = b.status)
<1> SUFFICES ASSUME TypeInv, [Next]_vars
             PROVE  \/ Recorded' = Recorded
                    \/ fresh /\ pc # "comment" /\ Recorded' = b.status
  OBVIOUS
<1>a. LogOK(log) /\ b \in Version /\ faults \in 0 .. MaxFaults
  BY DEF TypeInv, TypeOK, RecOK, CountersOK
<1>b. Latest \in Version
  BY <1>a, LogEnds DEF Latest
<1>1. CASE UNCHANGED log
  BY <1>1 DEF Recorded, Latest
<1>2. CASE SetOwner
  <2>1. PICK res \in Results : APIUpdate(setOwned(Latest), res)
    BY <1>2 DEF SetOwner
  <2> QED BY <2>1, <1>a, <1>b, SetOwnedType, UpdateLatest DEF Recorded
<1>3. ASSUME NEW res, StatusUpdate(res), pc # "comment"
      PROVE  \/ Recorded' = Recorded
             \/ fresh /\ pc # "comment" /\ Recorded' = b.status
  BY <1>3, <1>a, StatusUpdateLatest DEF Recorded
<1>4. CASE PersistPut \/ SaveFinal \/ SaveEarly
  BY <1>3, <1>4 DEF PersistPut, SaveFinal, SaveEarly, EarlySaves
<1>5. CASE Reconcile
  BY <1>1, <1>2, <1>4, <1>5 DEF Reconcile, StartNothing, StartSuspended,
     StartNoJobRef, StartJobMissing, StartWithJob, ResolveFails,
     ResolveTracked, ResolveAdopts, ResolveNew, Trigger, TriggerFails,
     PersistGet, Abort, Observe, ObserveFails, CommentNotNeeded, CommentSet,
     CommentFails
<1>6. CASE Deliver
  BY <1>6, <1>a, LogTail DEF Deliver, Recorded, Latest
<1>7. CASE Crash
  BY <1>7, <1>b, LogSingle DEF Crash, Recorded, Latest
<1>8. CASE Process
  BY <1>1, <1>6, <1>7, <1>8 DEF Process, TimerFires, WatcherSees,
     WatcherBreaks, WatcherEnqueues, WatcherExits, crVars
<1>9. ASSUME NEW v \in Version, v.status = Latest.status, log' = Append(log, v)
      PROVE  Recorded' = Recorded
  BY <1>9, <1>a, LogAppend DEF Recorded, Latest
<1>10. CASE EditSpec
  <2>1. PICK s \in Specs : log' = Append(log, [Latest EXCEPT !.spec = s, !.gen = @ + 1])
    BY <1>10 DEF EditSpec, UserWrites
  <2>2. LET w == [Latest EXCEPT !.spec = s, !.gen = @ + 1]
        IN  w \in Version /\ w.status = Latest.status
    BY <1>b, EditTypes
  <2> QED BY <1>9, <2>1, <2>2
<1>11. CASE MarkDeleted \/ Remove
  BY <1>9, <1>11, <1>b, EditTypes DEF MarkDeleted, Remove, UserWrites
<1>12. CASE Environment
  BY <1>1, <1>10, <1>11, <1>12 DEF Environment, JobCreated, ChainBreaks,
     ChainHeals, AtcStarts, AtcEnds, AtcAborts, AtcMoves, AtcVanishes, crVars
<1>13. CASE UNCHANGED vars
  BY <1>1, <1>13 DEF vars, crVars
<1> QED BY <1>5, <1>8, <1>12, <1>13 DEF Next

\* The local copy stays true of the ATC and of the recorded status.
LEMMA NextCopy ==
    ASSUME TypeInv, TypeInv', TrackInv, [Next]_vars
    PROVE  CopyTrue'
<1> SUFFICES ASSUME fresh'
             PROVE  /\ Sound(b.status, atc)' /\ Follows(b.status, Recorded, atc)'
                    /\ pc' # "comment" => Reported(b.status)'
                    /\ pc' # "vanished" => Tracks(b.status, Recorded)'
  BY DEF CopyTrue
<1>a. Evolves(atc, atc')
  BY NextAtc
<1>b. \/ Recorded' = Recorded
      \/ fresh /\ pc # "comment" /\ Recorded' = b.status
  BY NextRecorded
<1>c. b \in Version /\ Latest \in Version /\ LogOK(log)
  BY LogEnds DEF TypeInv, TypeOK, RecOK, Latest
<1>d. b.status \in Status /\ Recorded \in Status
  BY <1>c, VersionParts DEF Recorded
<1>e. ExistingKnown(atc) /\ Sound(Recorded, atc) /\ Reported(Recorded)
  BY DEF TrackInv
<1>f. 0 \notin Ids
  BY ConstantSets
<1>1. ASSUME fresh, b'.status.buildID = b.status.buildID,
             b'.status.phase = b.status.phase, pc \notin {"comment", "vanished"},
             b'.status.complete = b.status.complete
      PROVE  /\ Sound(b.status, atc)' /\ Follows(b.status, Recorded, atc)'
             /\ Reported(b.status)' /\ Tracks(b.status, Recorded)'
  <2>1. /\ Sound(b.status, atc) /\ Follows(b.status, Recorded, atc)
        /\ Reported(b.status) /\ Tracks(b.status, Recorded)
    BY <1>1 DEF TrackInv, CopyTrue
  <2>2. Follows(b.status, Recorded', atc)
    BY <1>b, <2>1 DEF Follows
  <2>3. Recorded' \in Status
    BY <1>b, <1>d
  <2>4. Sound(b.status, atc') /\ Follows(b.status, Recorded', atc')
    BY <1>a, <1>d, <2>1, <2>2, <2>3, SoundKept, FollowsKept
  <2> QED BY <1>1, <1>b, <2>1, <2>4 DEF Sound, Follows, Reported, Tracks
<1>2. ASSUME UNCHANGED <<b, fresh, pc>>
      PROVE  /\ Sound(b.status, atc)' /\ Follows(b.status, Recorded, atc)'
             /\ pc' # "comment" => Reported(b.status)'
             /\ pc' # "vanished" => Tracks(b.status, Recorded)'
  <2>1. /\ Sound(b.status, atc) /\ Follows(b.status, Recorded, atc)
        /\ pc # "comment" => Reported(b.status)
        /\ pc # "vanished" => Tracks(b.status, Recorded)
    BY <1>2 DEF TrackInv, CopyTrue
  <2>2. Follows(b.status, Recorded', atc) /\ Recorded' \in Status
    BY <1>b, <1>d, <2>1 DEF Follows
  <2>3. Sound(b.status, atc') /\ Follows(b.status, Recorded', atc')
    BY <1>a, <1>d, <2>1, <2>2, SoundKept, FollowsKept
  <2> QED BY <1>2, <1>b, <2>1, <2>3 DEF Tracks
<1>3. ASSUME UNCHANGED <<log, atc>>, b'.status.buildID = Recorded.buildID,
             b'.status.phase = Recorded.phase,
             b'.status.complete = Recorded.complete
      PROVE  /\ Sound(b.status, atc)' /\ Follows(b.status, Recorded, atc)'
             /\ Reported(b.status)' /\ Tracks(b.status, Recorded)'
  BY <1>3, <1>e DEF Sound, Follows, Reported, Tracks, Recorded, Latest
<1>4. CASE StartSuspended \/ StartNoJobRef \/ StartWithJob
  <2>1. UNCHANGED <<log, atc>> /\ Len(log) = 1
    BY <1>4 DEF StartSuspended, StartNoJobRef, StartWithJob, atcVars
  <2>2. Cached = Latest
    BY <2>1 DEF Cached, Latest
  <2>3. /\ b'.status.buildID = Recorded.buildID
        /\ b'.status.phase = Recorded.phase
        /\ b'.status.complete = Recorded.complete
    <3>1. b' = Latest \/ \E r \in ReadyReasons : b' = setReady(Latest, r)
      BY <1>4, <2>2
         DEF StartSuspended, StartNoJobRef, StartWithJob, ReadyReasons
    <3> QED BY <1>c, <3>1, SetReadyType DEF Recorded
  <2> QED BY <1>3, <2>1, <2>3
<1>5. CASE SetOwner
  <2>1. Return(TRUE) \/ (UNCHANGED fresh /\ b' = setOwned(b))
    BY <1>5 DEF SetOwner
  <2>2. fresh /\ b' = setOwned(b)
    BY <2>1 DEF Return
  <2> QED BY <1>1, <1>5, <1>c, <2>2, SetOwnedType DEF SetOwner
<1>6. CASE ResolveFails \/ TriggerFails
  <2>1. \E r \in ReadyReasons : b' = setReady(b, r)
    BY <1>6 DEF ResolveFails, TriggerFails, ReadyReasons
  <2>2. fresh /\ pc \notin {"comment", "vanished"}
    BY <1>6 DEF ResolveFails, TriggerFails
  <2> QED BY <1>1, <1>c, <2>1, <2>2, SetReadyType
<1>7. CASE ResolveTracked \/ ResolveNew \/ Abort \/ ObserveFails
  BY <1>1, <1>7 DEF ResolveTracked, ResolveNew, Abort, ObserveFails
<1>8. ASSUME NEW i \in Ids, fresh, b.status.buildID = 0, b' = setBuildID(b, i),
             atc'[i] # "none", UNCHANGED log, pc \notin {"comment", "vanished"}
      PROVE  /\ Sound(b.status, atc)' /\ Follows(b.status, Recorded, atc)'
             /\ Reported(b.status)' /\ Tracks(b.status, Recorded)'
  <2>1. /\ b'.status.buildID = i /\ b'.status.phase = b.status.phase
        /\ i # 0
    BY <1>8, <1>c, <1>f, SetBuildIDType
  <2>2. /\ Sound(b.status, atc) /\ Follows(b.status, Recorded, atc)
        /\ Tracks(b.status, Recorded)
    BY <1>8 DEF TrackInv, CopyTrue
  <2>3. ~isTerminal(b.status.phase)
    BY <1>8, <2>2 DEF Sound
  <2>4. Recorded' = Recorded /\ ~isTerminal(Recorded.phase)
    BY <1>8, <2>2, <2>3 DEF Follows, Recorded, Latest
  <2>5. Recorded.buildID = 0
    BY <1>8, <2>2 DEF Tracks
  <2> QED BY <1>8, <2>1, <2>3, <2>4, <2>5 DEF Sound, Follows, Reported, Tracks
<1>9. CASE ResolveAdopts
  <2>1. b.spec.buildID \in Existing /\ b.spec.buildID \in Ids
    BY <1>9, <1>c, VersionParts, ConstantSets DEF ResolveAdopts
  <2>2. atc'[b.spec.buildID] # "none"
    BY <1>9, <1>e, <2>1 DEF ResolveAdopts, ExistingKnown, atcVars
  <2> QED BY <1>8, <1>9, <2>1, <2>2 DEF ResolveAdopts
<1>10. CASE Trigger
  <2>1. PICK i \in Ids : AtcCreates(i) /\ b' = setBuildID(b, i)
    BY <1>10 DEF Trigger
  <2>2. atc'[i] # "none"
    BY <2>1 DEF AtcCreates, TypeInv, TypeOK, AtcOK
  <2>3. b.status.buildID = 0
    BY <1>10 DEF Trigger, TypeInv, TracksId
  <2> QED BY <1>8, <1>10, <2>1, <2>2, <2>3 DEF Trigger
<1>11. CASE PersistGet
  <2>1. UNCHANGED <<log, atc>> /\ Len(log) = 1
    BY <1>11 DEF PersistGet, Return, atcVars
  <2>2. Cached = Latest /\ setStatus(b, Recorded) \in Version
        /\ setStatus(b, Recorded).status = Recorded
    BY <1>c, <1>d, <2>1, SetStatusType DEF Cached, Latest
  <2>3. CASE b' = setStatus(b, Cached.status)
    BY <1>3, <2>1, <2>2, <2>3 DEF Recorded
  <2>4. CASE /\ b' = setBuildID(setStatus(b, Cached.status), b.status.buildID)
             /\ Cached.status.buildID = 0
             /\ pc' = "persistPut"
    <3>1. b' = setBuildID(setStatus(b, Recorded), b.status.buildID)
          /\ Recorded.buildID = 0
      BY <2>2, <2>4 DEF Recorded
    <3>2. b.status.buildID \in Ids \cup {0}
      BY <1>c, VersionParts
    <3>3. /\ b'.status.buildID = b.status.buildID
          /\ b'.status.phase = Recorded.phase
      BY <2>2, <3>1, <3>2, SetBuildIDType
    <3>4. Recorded' = Recorded /\ ~isTerminal(Recorded.phase)
      BY <1>e, <2>1, <3>1 DEF Sound, Recorded, Latest
    <3>5. b.status.buildID # 0 => atc'[b.status.buildID] # "none"
      BY <1>11, <2>1 DEF PersistGet, TrackInv, NewKnown
    <3> QED BY <3>1, <3>3, <3>4, <3>5 DEF Sound, Follows, Reported, Tracks
  <2> QED BY <1>11, <2>3, <2>4 DEF PersistGet, AlreadyTracked, Return, Goto
<1>12. CASE PersistPut
  <2>1. UNCHANGED <<b, fresh>> \/ Return(TRUE)
    BY <1>12, Zenon DEF PersistPut
  <2>2. fresh /\ b' = b
    BY <2>1 DEF Return
  <2> QED BY <1>1, <1>12, <2>2 DEF PersistPut
<1>13. CASE Observe
  <2>1. UNCHANGED <<log, atc, fresh>> /\ b.status.buildID # 0
    BY <1>13 DEF Observe, atcVars, TypeInv, TracksId, HasId
  <2>2. /\ Sound(b.status, atc) /\ Follows(b.status, Recorded, atc)
        /\ Tracks(b.status, Recorded) /\ Reported(b.status)
    <3>1. pc = "observe" /\ fresh
      BY <1>13 DEF Observe
    <3> QED BY <3>1 DEF TrackInv, CopyTrue
  <2>3. Recorded' = Recorded
    BY <2>1 DEF Recorded, Latest
  <2>4. CASE NotFound(b.status.buildID) /\ isTerminal(b.status.phase)
    BY <1>1, <1>13, <2>1, <2>4 DEF Observe, GivesUp, Observed
  <2>5. CASE NotFound(b.status.buildID) /\ ~isTerminal(b.status.phase)
    <3>1. setBuildID(b, 0) \in Version /\ setBuildID(b, 0).status.buildID = 0
      BY <1>c, SetBuildIDType
    <3>2. b' = setPhase(setBuildID(b, 0), "") /\ pc' = "vanished"
      BY <1>13, <2>5 DEF Observe, GivesUp, GivenUp, Goto
    <3>3. b'.status.buildID = 0 /\ b'.status.phase = ""
      BY <3>1, <3>2, SetPhaseType
    <3>4. atc[b.status.buildID] = "gone"
      BY <2>1, <2>2, <2>5 DEF NotFound, Sound
    <3>5. ~isTerminal(Recorded.phase)
      BY <2>2, <2>5 DEF Follows
    <3>6. Recorded.buildID # 0 => atc[Recorded.buildID] = "gone"
      BY <2>2, <3>4 DEF Tracks
    <3> QED BY <2>1, <2>3, <3>2, <3>3, <3>5, <3>6
       DEF Sound, Follows, Reported, isTerminal, Terminal
  <2>6. CASE ~NotFound(b.status.buildID)
    <3> DEFINE p == atc[b.status.buildID]
    <3>1. p \in {"", "pending", "started"} \cup Terminal
      <4>1. b.status.buildID \in Ids
        BY <1>c, <2>1, VersionParts
      <4> QED BY <2>6, <4>1 DEF NotFound, TypeInv, TypeOK, AtcOK, AtcStates
    <3>2. b' = setPhase(b, p) /\ pc' = "comment"
      BY <1>13, <2>6 DEF Observe, GivesUp, Observed, Goto
    <3>3. b'.status.buildID = b.status.buildID /\ b'.status.phase = p
      BY <1>c, <3>1, <3>2, SetPhaseType
    <3>4. isTerminal(Recorded.phase) => p = Recorded.phase
      BY <2>2, <2>6 DEF Follows, Sound, NotFound
    <3> QED BY <2>1, <2>2, <2>3, <2>6, <3>2, <3>3, <3>4
       DEF Sound, Follows, Tracks, NotFound
  <2> QED BY <2>4, <2>5, <2>6
<1>14. CASE CommentNotNeeded \/ CommentSet \/ CommentFails
  <2>1. UNCHANGED <<log, atc, fresh>> /\ pc = "comment" /\ pc' = "saveFinal"
    BY <1>14 DEF CommentNotNeeded, CommentSet, CommentFails, Goto, atcVars
  <2>2. /\ Sound(b.status, atc) /\ Follows(b.status, Recorded, atc)
        /\ Tracks(b.status, Recorded)
    BY <2>1 DEF TrackInv, CopyTrue
  <2>3. Recorded' = Recorded
    BY <2>1 DEF Recorded, Latest
  <2>4. \E r \in ReadyReasons : \/ b' = Finished(b, r)
                                \/ b' = Finished(setComment(b, b.spec.comment), r)
    BY <1>14 DEF CommentNotNeeded, CommentSet, CommentFails, ReadyReasons
  <2>5. /\ setComment(b, b.spec.comment) \in Version
        /\ setComment(b, b.spec.comment).status.buildID = b.status.buildID
        /\ setComment(b, b.spec.comment).status.phase = b.status.phase
    BY <1>c, SetCommentType, VersionParts
  <2>6. /\ b'.status.buildID = b.status.buildID
        /\ b'.status.phase = b.status.phase
        /\ isTerminal(b.status.phase) => b'.status.complete = b.status.phase
    BY <1>c, <2>4, <2>5, FinishedType
  <2> QED BY <2>1, <2>2, <2>3, <2>6 DEF Sound, Follows, Reported, Tracks
<1>15. CASE SaveFinal \/ SaveEarly
  BY <1>15 DEF SaveFinal, SaveEarly, Return
<1>16. CASE StartNothing \/ StartJobMissing
  BY <1>2, <1>16 DEF StartNothing, StartJobMissing, recVars
<1>17. CASE Process
  BY <1>2, <1>17 DEF Process, Deliver, TimerFires, WatcherSees, WatcherBreaks,
     WatcherEnqueues, WatcherExits, Crash, recVars
<1>18. CASE Environment
  BY <1>2, <1>18 DEF Environment, EditSpec, MarkDeleted, Remove, UserWrites,
     JobCreated, ChainBreaks, ChainHeals, AtcStarts, AtcEnds, AtcAborts,
     AtcMoves, AtcVanishes, recVars
<1>19. CASE UNCHANGED vars
  BY <1>2, <1>19 DEF vars, recVars
<1>20. CASE Reconcile
  BY <1>4, <1>5, <1>6, <1>7, <1>9, <1>10, <1>11, <1>12, <1>13, <1>14, <1>15,
     <1>16, <1>20 DEF Reconcile
<1> QED BY <1>17, <1>18, <1>19, <1>20 DEF Next

\* persistBuildTracking goes on recording a build of the ATC.
LEMMA NextNew ==
    ASSUME TypeInv, TypeInv', NewKnown, [Next]_vars
    PROVE  NewKnown'
<1> SUFFICES ASSUME pc' \in {"persistGet", "persistPut"}
             PROVE  atc'[b'.status.buildID] # "none"
  BY DEF NewKnown
<1>a. b \in Version /\ b' \in Version /\ b'.status.buildID # 0
  BY DEF TypeInv, TypeOK, RecOK, TracksId, HasId
<1>b. b'.status.buildID \in Ids
  BY <1>a, VersionParts
<1>1. CASE pc \in {"persistGet", "persistPut"} /\ b'.status.buildID = b.status.buildID
  BY <1>1, <1>b, NextAtc DEF NewKnown, Evolves
<1>2. CASE Trigger
  <2>1. PICK i \in Ids : AtcCreates(i) /\ b' = setBuildID(b, i)
    BY <1>2 DEF Trigger
  <2>2. b'.status.buildID = i
    BY <1>a, <2>1, SetBuildIDType
  <2> QED BY <2>1, <2>2 DEF AtcCreates, TypeInv, TypeOK, AtcOK
<1>3. CASE PersistGet
  <2>1. Cached \in Version
    BY LogEnds DEF TypeInv, TypeOK, Cached
  <2>2. b' = setBuildID(setStatus(b, Cached.status), b.status.buildID)
    BY <1>3 DEF PersistGet, Return, Goto, AfterTracking
  <2>3. b'.status.buildID = b.status.buildID
    <3>1. Cached.status \in Status /\ b.status.buildID \in Ids \cup {0}
      BY <1>a, <2>1, VersionParts
    <3>2. setStatus(b, Cached.status) \in Version
      BY <1>a, <3>1, SetStatusType
    <3> QED BY <2>2, <3>1, <3>2, SetBuildIDType
  <2> QED BY <1>1, <1>3, <2>3 DEF PersistGet
<1>4. CASE PersistPut
  <2>1. UNCHANGED b \/ Return(TRUE)
    BY <1>4, Zenon DEF PersistPut
  <2> QED BY <1>1, <1>4, <2>1 DEF PersistPut, Return
<1>5. CASE Reconcile
  BY <1>1, <1>2, <1>3, <1>4, <1>5 DEF Reconcile, StartNothing, StartSuspended,
     StartNoJobRef, StartJobMissing, StartWithJob, SetOwner, ResolveFails,
     ResolveTracked, ResolveAdopts, ResolveNew, TriggerFails, Abort, Observe,
     ObserveFails, CommentNotNeeded, CommentSet, CommentFails, SaveFinal,
     SaveEarly, Goto, Return, AfterTracking, recVars
<1>6. CASE Process
  BY <1>1, <1>6 DEF Process, Deliver, TimerFires, WatcherSees, WatcherBreaks,
     WatcherEnqueues, WatcherExits, Crash, recVars
<1>7. CASE Environment
  BY <1>1, <1>7 DEF Environment, EditSpec, MarkDeleted, Remove, UserWrites,
     JobCreated, ChainBreaks, ChainHeals, AtcStarts, AtcEnds, AtcAborts,
     AtcMoves, AtcVanishes, recVars
<1>8. CASE UNCHANGED vars
  BY <1>1, <1>8 DEF vars, recVars
<1> QED BY <1>5, <1>6, <1>7, <1>8 DEF Next

\* TrackInv holds initially.
LEMMA InitTrack == Init => TrackInv
<1> SUFFICES ASSUME Init PROVE TrackInv
  OBVIOUS
<1>1. Recorded = NoStatus
  <2>1. PICK s \in Specs, o \in BOOLEAN :
           log = << [life |-> "live", owned |-> o, gen |-> 0, spec |-> s,
                     status |-> NoStatus] >>
    BY DEF Init
  <2> QED BY <2>1 DEF Recorded, Latest
<1>2. ExistingKnown(atc)
  BY ConstantSets DEF Init, ExistingKnown, Terminal
<1>3. Sound(Recorded, atc) /\ Reported(Recorded)
  BY <1>1 DEF Sound, Reported, NoStatus, isTerminal, Terminal
<1>4. NewKnown /\ CopyTrue
  BY DEF Init, NewKnown, CopyTrue
<1> QED BY <1>2, <1>3, <1>4 DEF TrackInv

\* Every step preserves TrackInv.
LEMMA NextTrack == TypeInv /\ TrackInv /\ [Next]_vars => TrackInv'
<1> SUFFICES ASSUME TypeInv, TrackInv, [Next]_vars PROVE TrackInv'
  OBVIOUS
<1>1. TypeInv' /\ Evolves(atc, atc')
  BY NextTypes, NextAtc
<1>2. b.status \in Status /\ Recorded \in Status
  BY LogEnds, VersionParts DEF TypeInv, TypeOK, RecOK, Recorded, Latest
<1>3. ExistingKnown(atc')
  BY <1>1, ConstantSets DEF TrackInv, ExistingKnown, Evolves
<1>4. Sound(Recorded', atc) /\ Reported(Recorded') /\ Recorded' \in Status
  BY <1>2, NextRecorded DEF TrackInv, CopyTrue
<1>5. Sound(Recorded', atc')
  BY <1>1, <1>4, SoundKept
<1>6. CopyTrue' /\ NewKnown'
  BY <1>1, NextCopy, NextNew DEF TrackInv
<1> QED BY <1>3, <1>4, <1>5, <1>6 DEF TrackInv

\* Both invariants hold in every reachable state.
LEMMA TrackInvariant == Spec => [](TypeInv /\ TrackInv)
BY InitTypes, NextTypes, InitTrack, NextTrack, PTL DEF Spec

\* A recorded terminal phase is the fate of the tracked build, and Complete
\* reports it (OutcomeTruthful).
THEOREM OutcomeIsTruthful == Spec => []OutcomeTruthful
<1>1. TrackInv => OutcomeTruthful
  BY DEF TrackInv, Sound, Reported, OutcomeTruthful
<1> QED BY <1>1, TrackInvariant, PTL

\* A recorded outcome never changes (OutcomeFinal).
THEOREM OutcomeIsFinal == Spec => OutcomeFinal
<1>1. TypeInv /\ TrackInv /\ [Next]_vars =>
         [isTerminal(Recorded.phase) =>
             /\ Recorded'.phase = Recorded.phase
             /\ Recorded'.buildID = Recorded.buildID]_vars
  <2> SUFFICES ASSUME TypeInv, TrackInv, [Next]_vars, isTerminal(Recorded.phase),
                      fresh, Recorded' = b.status
               PROVE  /\ Recorded'.phase = Recorded.phase
                      /\ Recorded'.buildID = Recorded.buildID
    BY NextRecorded
  <2>1. Follows(b.status, Recorded, atc) /\ Sound(Recorded, atc)
    BY DEF TrackInv, CopyTrue
  <2>2. b.status.phase = Recorded.phase /\ Recorded.buildID # 0
    BY <2>1 DEF Follows, Sound
  <2>3. b.status.phase # ""
    BY <2>2 DEF isTerminal, Terminal
  <2> QED BY <2>1, <2>2, <2>3 DEF Follows
<1> QED BY <1>1, TrackInvariant, PTL DEF Spec, OutcomeFinal

\* A recorded build id is never replaced and is dropped only when the ATC has
\* dropped the build (TrackingKept).
THEOREM TrackingIsKept == Spec => TrackingKept
<1>1. TypeInv /\ TrackInv /\ [Next]_vars =>
         [Recorded.buildID # 0 /\ Recorded'.buildID # Recorded.buildID =>
             /\ Recorded'.buildID = 0
             /\ atc[Recorded.buildID] = "gone"]_vars
  <2> SUFFICES ASSUME TypeInv, TrackInv, [Next]_vars, Recorded.buildID # 0,
                      Recorded'.buildID # Recorded.buildID
               PROVE  Recorded'.buildID = 0 /\ atc[Recorded.buildID] = "gone"
    OBVIOUS
  <2>1. fresh /\ Recorded' = b.status
    BY NextRecorded
  <2>2. Follows(b.status, Recorded, atc)
    BY <2>1 DEF TrackInv, CopyTrue
  <2> QED BY <2>1, <2>2 DEF Follows
<1> QED BY <1>1, TrackInvariant, PTL DEF Spec, TrackingKept

-----------------------------------------------------------------------------
(***************************************************************************)
(* The next Reconcile. WakeupArmed speaks of an idle reconciler only; it    *)
(* is inductive once it also says that a Reconcile which works on an old    *)
(* copy has been woken up again already, and that the two early returns     *)
(* without a requeue, on an up-to-date copy, are made for the reason they   *)
(* report. The Job is taken to be there: without it Reconcile returns with  *)
(* nothing scheduled (BuildJobLate.cfg).                                    *)
(***************************************************************************)
Awake == queued \/ timer \/ Len(log) > 1

Needed == /\ Latest.life = "live" /\ ~Latest.spec.suspend
          /\ Latest.spec.jobRef # "none" /\ ~Done

Armed ==
    /\ job
    /\ pc = "idle" /\ Needed => Awake
    /\ pc # "idle" /\ ~fresh => Awake
    /\ pc = "suspended" /\ fresh => Latest.spec.suspend
    /\ pc = "noJobRef" /\ fresh => Latest.spec.jobRef = "none"

\* A log never loses a version to a write.
LEMMA LogGrows ==
    ASSUME NEW l, LogOK(l), NEW v \in Version
    PROVE  Len(Append(l, v)) > 1 /\ Len(Append(l, v)) > Len(l)
BY DEF LogOK

\* A log that has no version left to deliver holds the latest one.
LEMMA LogOne ==
    ASSUME LogOK(log), ~(Len(log) > 1)
    PROVE  Len(log) = 1 /\ Cached = Latest
<1>1. log \in Seq(Version) /\ Len(log) > 0
  BY DEF LogOK
<1>2. Len(log) \in Nat
  BY <1>1
<1>3. \A n \in Nat : n > 0 /\ ~(n > 1) => n = 1
  OBVIOUS
<1>4. Len(log) = 1
  BY <1>1, <1>2, <1>3, Zenon
<1> QED BY <1>4, Zenon DEF Cached, Latest

\* An update of the stored object does not take a pending delivery away, and
\* leaves lifecycle, spec and generation as they are.
LEMMA UpdateKeeps ==
    ASSUME LogOK(log), faults \in 0 .. MaxFaults, NEW v \in Version,
           v.life = Latest.life, v.spec = Latest.spec, v.gen = Latest.gen,
           NEW res, APIUpdate(v, res)
    PROVE  /\ Latest'.life = Latest.life /\ Latest'.spec = Latest.spec
           /\ Latest'.gen = Latest.gen
           /\ Len(log) > 1 => Len(log') > 1
<1>1. Latest' = Latest \/ Latest' = v
  BY UpdateLatest
<1>2. log' = log \/ log' = Append(log, v)
  BY DEF APIUpdate, Store
<1>3. Len(log) > 1 => Len(log') > 1
  BY <1>2, LogGrows
<1> QED BY <1>1, <1>3

\* So does an update of the status.
LEMMA StatusUpdateKeeps ==
    ASSUME LogOK(log), b \in Version, faults \in 0 .. MaxFaults,
           NEW res, StatusUpdate(res)
    PROVE  /\ Latest'.life = Latest.life /\ Latest'.spec = Latest.spec
           /\ Latest'.gen = Latest.gen
           /\ Len(log) > 1 => Len(log') > 1
<1> DEFINE v == setStatus(Latest, b.status)
<1>1. Latest \in Version /\ b.status \in Status
  BY LogEnds, VersionParts DEF Latest
<1>2. /\ v \in Version
      /\ v.life = Latest.life /\ v.spec = Latest.spec /\ v.gen = Latest.gen
  BY <1>1 DEF setStatus, Version
<1>3. APIUpdate(v, res)
  BY DEF StatusUpdate
<1> HIDE DEF v
<1> QED BY <1>2, <1>3, UpdateKeeps

\* So does the write of the owner reference.
LEMMA OwnerUpdateKeeps ==
    ASSUME LogOK(log), faults \in 0 .. MaxFaults,
           NEW res, APIUpdate(setOwned(Latest), res)
    PROVE  /\ Latest'.life = Latest.life /\ Latest'.spec = Latest.spec
           /\ Latest'.gen = Latest.gen
           /\ Len(log) > 1 => Len(log') > 1
<1>1. Latest \in Version
  BY LogEnds DEF Latest
<1>2. /\ setOwned(Latest) \in Version
      /\ setOwned(Latest).life = Latest.life
      /\ setOwned(Latest).spec = Latest.spec
      /\ setOwned(Latest).gen = Latest.gen
  BY <1>1 DEF setOwned, Version
<1> QED BY <1>2, UpdateKeeps

\* A user's write is delivered later, and the copy in use is then an old one.
LEMMA UserWritesTypes ==
    ASSUME LogOK(log), EditSpec \/ MarkDeleted \/ Remove
    PROVE  /\ fresh' = FALSE /\ Len(log') > 1
           /\ UNCHANGED <<queued, timer, pc, b, attempt, watcher, atcVars, envVars>>
<1>1. Latest \in Version
  BY LogEnds DEF Latest
<1>2. \E v \in Version : UserWrites(v)
  BY <1>1, EditTypes DEF EditSpec, MarkDeleted, Remove
<1> QED BY <1>2, LogGrows DEF UserWrites

\* Every step keeps the next Reconcile armed.
LEMMA NextArmed ==
    ASSUME TypeInv, Armed, [Next]_vars
    PROVE  Armed'
<1> USE DEF crVars, recVars, atcVars, envVars
<1>a. /\ LogOK(log) /\ b \in Version /\ fresh \in BOOLEAN
      /\ faults \in 0 .. MaxFaults
  BY DEF TypeInv, TypeOK, RecOK, CountersOK
<1>1. CASE UNCHANGED <<log, queued, timer, pc, fresh, job>>
  BY <1>1 DEF Armed, Awake, Needed, Done, Recorded, Latest
<1>2. CASE /\ queued' /\ Latest' = Latest
           /\ UNCHANGED <<pc, fresh, job>>
  BY <1>2 DEF Armed, Awake, Needed, Done, Recorded
<1>3. CASE /\ pc # "idle" /\ pc' \notin {"idle", "suspended", "noJobRef"}
           /\ UNCHANGED <<queued, timer, job>>
           /\ (Len(log) > 1 => Len(log') > 1)
           /\ (fresh' = fresh \/ (fresh' = (Len(log) = 1) /\ UNCHANGED log))
  <2>1. pc # "idle" /\ ~fresh => Awake
    BY DEF Armed
  <2>2. ~fresh' => Awake'
    BY <1>3, <1>a, <2>1, LogOne DEF Awake
  <2> QED BY <1>3, <2>2 DEF Armed
<1>4. ASSUME Return(TRUE), UNCHANGED job
      PROVE  Armed'
  BY <1>4 DEF Return, Armed, Awake
<1>5. CASE StartNothing
  <2>1. UNCHANGED <<log, timer, pc, fresh, job>> /\ pc = "idle"
    BY <1>5 DEF StartNothing
  <2>2. ~(Len(log) > 1) => ~Needed
    BY <1>5, <1>a, LogOne DEF StartNothing, Needed, Done, Recorded
  <2>3. Needed' => Awake'
    BY <2>1, <2>2 DEF Awake, Needed, Done, Recorded, Latest
  <2> QED BY <2>1, <2>3 DEF Armed
<1>6. CASE StartSuspended \/ StartNoJobRef \/ StartWithJob
  <2>1. UNCHANGED <<log, timer, job>> /\ fresh' = (Len(log) = 1) /\ pc' # "idle"
    BY <1>6, Zenon DEF StartSuspended, StartNoJobRef, StartWithJob, Goto
  <2>2. ~fresh' => Awake'
    BY <2>1, <1>a, LogOne DEF Awake
  <2>3. fresh' => Cached = Latest' /\ Latest' = Latest
    BY <2>1 DEF Cached, Latest
  <2>4. pc' = "suspended" => Cached.spec.suspend
    BY <1>6 DEF StartSuspended, StartNoJobRef, StartWithJob, Goto
  <2>5. pc' = "noJobRef" => Cached.spec.jobRef = "none"
    BY <1>6 DEF StartSuspended, StartNoJobRef, StartWithJob, Goto
  <2> QED BY <2>1, <2>2, <2>3, <2>4, <2>5 DEF Armed
<1>7. CASE StartJobMissing
  BY <1>7 DEF StartJobMissing, Armed
<1>8. CASE SetOwner
  <2>1. PICK res \in Results :
           /\ APIUpdate(setOwned(Latest), res)
           /\ \/ UNCHANGED fresh /\ Goto("resolve")
              \/ Return(TRUE)
    BY <1>8 DEF SetOwner
  <2>2. UNCHANGED <<queued, job>> /\ pc # "idle"
    BY <1>8 DEF SetOwner
  <2>3. Len(log) > 1 => Len(log') > 1
    BY <2>1, <1>a, OwnerUpdateKeeps
  <2> QED BY <1>3, <1>4, <2>1, <2>2, <2>3 DEF Goto
<1>9. CASE ResolveFails \/ ResolveTracked \/ ResolveAdopts \/ ResolveNew
           \/ Trigger \/ TriggerFails \/ Abort \/ Observe \/ ObserveFails
           \/ CommentNotNeeded \/ CommentSet \/ CommentFails
  <2>1. UNCHANGED <<log, queued, timer, fresh, job>> /\ pc # "idle"
    BY <1>9 DEF ResolveFails, ResolveTracked, ResolveAdopts, ResolveNew, Trigger,
       TriggerFails, Abort, Observe, ObserveFails, CommentNotNeeded, CommentSet,
       CommentFails, Goto
  <2>2. pc' \notin {"idle", "suspended", "noJobRef"}
    BY <1>9 DEF ResolveFails, ResolveTracked, ResolveAdopts, ResolveNew, Trigger,
       TriggerFails, Abort, Observe, ObserveFails, CommentNotNeeded, CommentSet,
       CommentFails, Goto, AfterTracking
  <2> QED BY <1>3, <2>1, <2>2
<1>10. CASE PersistGet
  <2>1. UNCHANGED <<log, queued, job>> /\ pc # "idle"
    BY <1>10 DEF PersistGet
  <2>2. \/ Return(TRUE)
        \/ /\ fresh' = (Len(log) = 1) /\ UNCHANGED timer
           /\ pc' \notin {"idle", "suspended", "noJobRef"}
    BY <1>10 DEF PersistGet, Goto, AfterTracking
  <2> QED BY <1>3, <1>4, <2>1, <2>2
<1>11. CASE PersistPut
  <2>1. PICK res \in Results :
           /\ StatusUpdate(res)
           /\ \/ /\ pc' \in {AfterTracking(b), "persistGet"}
                 /\ UNCHANGED <<fresh, timer>>
              \/ Return(TRUE)
    BY <1>11, Zenon DEF PersistPut
  <2>2. UNCHANGED <<queued, job>> /\ pc # "idle"
    BY <1>11 DEF PersistPut
  <2>3. Len(log) > 1 => Len(log') > 1
    BY <2>1, <1>a, StatusUpdateKeeps
  <2>4. \/ /\ pc' \notin {"idle", "suspended", "noJobRef"}
           /\ UNCHANGED <<fresh, timer>>
        \/ Return(TRUE)
    BY <2>1 DEF AfterTracking
  <2> QED BY <1>3, <1>4, <2>2, <2>3, <2>4
<1>12. CASE SaveFinal
  <2>1. PICK res \in Results : StatusUpdate(res) /\ Return(FinalRequeue(res))
    BY <1>12 DEF SaveFinal
  <2>2. UNCHANGED job
    BY <1>12 DEF SaveFinal
  <2>3. CASE FinalRequeue(res)
    <3>1. timer' /\ pc' = "idle"
      BY <2>1, <2>3 DEF Return
    <3> QED BY <2>2, <3>1 DEF Armed, Awake
  <2>4. CASE ~FinalRequeue(res)
    <3>1. res = "ok" /\ isTerminal(b.status.phase)
      BY <2>4 DEF FinalRequeue
    <3>2. Latest'.status = b.status
      BY <2>1, <3>1, <1>a, StatusUpdateLatest
    <3>3. pc' = "idle" /\ ~Needed'
      BY <2>1, <3>1, <3>2 DEF Return, Needed, Done, Recorded, isTerminal
    <3> QED BY <2>2, <3>3 DEF Armed
  <2> QED BY <2>3, <2>4
<1>13. CASE SaveEarly
  <2>1. PICK res \in Results : StatusUpdate(res) /\ Return(EarlyRequeue(res))
    BY <1>13 DEF SaveEarly
  <2>2. UNCHANGED <<queued, job>> /\ pc \in EarlySaves
    BY <1>13 DEF SaveEarly
  <2>3. /\ pc' = "idle" /\ timer' = (timer \/ EarlyRequeue(res))
    BY <2>1, Zenon DEF Return
  <2>4. /\ Latest'.spec = Latest.spec
        /\ Len(log) > 1 => Len(log') > 1
        /\ res = "ok" => fresh
    BY <2>1, <1>a, StatusUpdateKeeps, StatusUpdateLatest
  <2>5. CASE EarlyRequeue(res)
    BY <2>2, <2>3, <2>5 DEF Armed, Awake
  <2>6. CASE ~EarlyRequeue(res) /\ pc = "suspended"
    <3>1. fresh /\ Latest.spec.suspend
      BY <2>4, <2>6 DEF EarlyRequeue, Armed
    <3>2. ~Needed'
      BY <2>4, <3>1 DEF Needed
    <3> QED BY <2>2, <2>3, <3>2 DEF Armed
  <2>7. CASE pc = "noJobRef"
    <3>1. CASE fresh
      <4>1. ~Needed'
        BY <2>4, <2>7, <3>1 DEF Needed, Armed
      <4> QED BY <2>2, <2>3, <4>1 DEF Armed
    <3>2. CASE ~fresh
      <4>1. Awake
        BY <2>7, <3>2 DEF Armed
      <4>2. Awake'
        BY <2>2, <2>3, <2>4, <4>1 DEF Awake
      <4> QED BY <2>2, <2>3, <4>2 DEF Armed
    <3> QED BY <3>1, <3>2
  <2> QED BY <2>2, <2>5, <2>6, <2>7 DEF EarlySaves, EarlyRequeue
<1>14. CASE Reconcile
  BY <1>5, <1>6, <1>7, <1>8, <1>9, <1>10, <1>11, <1>12, <1>13, <1>14
     DEF Reconcile
<1>15. CASE Deliver
  <2>1. Latest' = Latest
    BY <1>15, <1>a, LogTail DEF Deliver, Latest
  <2> QED BY <1>2, <1>15, <2>1 DEF Deliver
<1>16. CASE TimerFires \/ WatcherSees \/ WatcherBreaks
  BY <1>2, <1>16 DEF TimerFires, WatcherSees, WatcherBreaks, WatcherEnqueues, Latest
<1>17. CASE WatcherExits
  BY <1>1, <1>17 DEF WatcherExits
<1>18. CASE Crash
  BY <1>18 DEF Crash, Armed, Awake
<1>19. CASE Process
  BY <1>15, <1>16, <1>17, <1>18, <1>19 DEF Process
<1>20. CASE EditSpec \/ MarkDeleted \/ Remove
  BY <1>20, <1>a, UserWritesTypes DEF Armed, Awake
<1>21. CASE JobCreated
  BY <1>21 DEF JobCreated, Armed
<1>22. CASE Environment
  BY <1>1, <1>20, <1>21, <1>22 DEF Environment, ChainBreaks, ChainHeals,
     AtcStarts, AtcEnds, AtcAborts, AtcMoves, AtcVanishes
<1>23. CASE UNCHANGED vars
  BY <1>1, <1>23 DEF vars
<1> QED BY <1>14, <1>19, <1>22, <1>23 DEF Next

\* With the referenced Job in the cluster, an idle reconciler whose Build still
\* waits for an outcome is always called again (WakeupArmed): by a request in
\* the queue, a timer or a version the watch has still to deliver, whatever
\* Reconcile read, lost or was refused.
THEOREM AlwaysWoken ==
    ASSUME JobAtStart = {TRUE}
    PROVE  Spec => []WakeupArmed
<1>1. Init => Armed
  <2> SUFFICES ASSUME Init PROVE Armed
    OBVIOUS
  <2>1. job = TRUE /\ queued = TRUE /\ pc = "idle"
    BY DEF Init
  <2> QED BY <2>1 DEF Armed, Awake
<1>2. TypeInv /\ Armed /\ [Next]_vars => Armed'
  BY NextArmed
<1>3. Armed => WakeupArmed
  BY DEF Armed, Awake, Needed, WakeupArmed, Wanted
<1> QED BY InitTypes, NextTypes, <1>1, <1>2, <1>3, PTL DEF Spec

-----------------------------------------------------------------------------
(***************************************************************************)
(* One build for one Build. Three things the code cannot rule out lead to  *)
(* a second build and are excluded: a stored build id that the informer     *)
(* cache does not show yet, a process or a status write that fails between  *)
(* the trigger and its record (the run BuildDuplicate), and as many user    *)
(* writes during persistBuildTracking as RetryOnConflict has tries. Under   *)
(* these assumptions the local copy and the stored status never disagree   *)
(* about the tracked build except in the ways OnceLive lists: until the     *)
(* new build is recorded nothing else is, an adopted id is not stored yet,  *)
(* and a build that is about to be given up is gone.                        *)
(***************************************************************************)
Undisturbed == /\ FaultKinds \subseteq {"atcError", "vanish", "chain"}
               /\ InformerLag = FALSE
               /\ MaxEdits < RetrySteps

Persisting == pc \in {"persistGet", "persistPut"}

\* TriggeredOnce, build by build.
EachTracked ==
    \A i \in triggered : \/ atc[i] = "gone"
                         \/ Recorded.buildID = i
                         \/ Persisting /\ b.status.buildID = i

\* RetryOnConflict has failed at most once for every user write.
TriesLeft == /\ attempt <= Latest.gen
             /\ pc = "persistPut" /\ ~fresh => attempt + 1 <= Latest.gen

OnceLive ==
    /\ EachTracked /\ TriesLeft
    /\ pc \in {"owner", "resolve", "suspended", "noJobRef", "chainNotReady"} =>
          b.status.buildID = Recorded.buildID
    /\ pc \in {"trigger", "triggerFailed"} =>
          b.status.buildID = 0 /\ Recorded.buildID = 0
    /\ Persisting => Recorded.buildID = 0
    /\ pc \in {"abort", "observe", "comment", "saveFinal"} =>
          Recorded.buildID \in {0, b.status.buildID}
    /\ pc = "vanished" /\ Recorded.buildID # 0 => atc[Recorded.buildID] = "gone"

Once == /\ ~Persisting => attempt = 0
        /\ Latest.gen <= MaxEdits
        /\ Latest.life # "gone" => OnceLive

\* Without failing writes an update of an existing CR succeeds exactly for an
\* up-to-date copy.
LEMMA UpdateUndisturbed ==
    ASSUME Undisturbed, Latest.life # "gone", NEW v, NEW res, APIUpdate(v, res)
    PROVE  \/ res = "ok" /\ fresh
           \/ res = "conflict" /\ ~fresh /\ UNCHANGED log
BY DEF Undisturbed, APIUpdate, Fault

\* A user's write counts in the generation, or removes the CR; the status is
\* left alone.
LEMMA UserVersion ==
    ASSUME LogOK(log), EditSpec \/ MarkDeleted \/ Remove
    PROVE  /\ Latest'.status = Latest.status /\ Latest.life # "gone"
           /\ Latest.gen < MaxEdits
           /\ \/ Latest'.gen = Latest.gen + 1
              \/ Latest'.gen = Latest.gen /\ Latest'.life = "gone"
<1>1. Latest \in Version
  BY LogEnds DEF Latest
<1>2. ASSUME NEW v \in Version, UserWrites(v)
      PROVE  Latest' = v
  BY <1>2, LogAppend DEF UserWrites, Latest
<1> DEFINE g == Latest.gen + 1
<1>3. g \in Nat
  <2>1. \A n \in Nat : n + 1 \in Nat
    OBVIOUS
  <2> QED BY <1>1, <2>1, VersionParts
<1>4. EditSpec => \E s \in Specs : UserWrites([Latest EXCEPT !.spec = s, !.gen = g])
  BY DEF EditSpec
<1>5. MarkDeleted => UserWrites([Latest EXCEPT !.life = "deleting", !.gen = g])
  BY DEF MarkDeleted
<1>6. /\ Remove => UserWrites([Latest EXCEPT !.life = "gone"])
      /\ Latest.life # "gone" /\ Latest.gen < MaxEdits
  BY DEF EditSpec, MarkDeleted, Remove
<1> HIDE DEF g
<1>7. CASE EditSpec
  <2>1. PICK s \in Specs : UserWrites([Latest EXCEPT !.spec = s, !.gen = g])
    BY <1>4, <1>7
  <2> DEFINE v == [Latest EXCEPT !.spec = s, !.gen = g]
  <2>2. v \in Version /\ v.gen = g /\ v.status = Latest.status
    BY <1>1, <1>3, SpecsAssumption DEF Version
  <2>3. Latest' = v
    BY <1>2, <2>1, <2>2
  <2> HIDE DEF v
  <2> QED BY <1>6, <2>2, <2>3 DEF g
<1>8. CASE MarkDeleted
  <2> DEFINE v == [Latest EXCEPT !.life = "deleting", !.gen = g]
  <2>1. v \in Version /\ v.gen = g /\ v.status = Latest.status
    BY <1>1, <1>3 DEF Version
  <2>2. Latest' = v
    BY <1>2, <1>5, <1>8, <2>1
  <2> HIDE DEF v
  <2> QED BY <1>6, <2>1, <2>2 DEF g
<1>9. CASE Remove
  <2> DEFINE v == [Latest EXCEPT !.life = "gone"]
  <2>1. /\ v \in Version /\ v.gen = Latest.gen /\ v.status = Latest.status
        /\ v.life = "gone"
    BY <1>1 DEF Version
  <2>2. Latest' = v
    BY <1>2, <1>6, <1>9, <2>1
  <2> HIDE DEF v
  <2> QED BY <1>6, <2>1, <2>2
<1> QED BY <1>7, <1>8, <1>9

\* Any other step leaves lifecycle and generation as they are.
LEMMA NextVersion ==
    ASSUME TypeInv, [Next]_vars, ~(EditSpec \/ MarkDeleted \/ Remove)
    PROVE  Latest'.life = Latest.life /\ Latest'.gen = Latest.gen
<1> USE DEF crVars, recVars, atcVars, envVars
<1>a. LogOK(log) /\ b \in Version /\ faults \in 0 .. MaxFaults
  BY DEF TypeInv, TypeOK, RecOK, CountersOK
<1>1. CASE UNCHANGED log
  BY <1>1 DEF Latest
<1>2. CASE SetOwner
  BY <1>2, <1>a, OwnerUpdateKeeps DEF SetOwner
<1>3. CASE PersistPut \/ SaveFinal \/ SaveEarly
  <2>1. \E res : StatusUpdate(res)
    BY <1>3 DEF PersistPut, SaveFinal, SaveEarly
  <2> QED BY <2>1, <1>a, StatusUpdateKeeps
<1>4. CASE Reconcile
  BY <1>1, <1>2, <1>3, <1>4 DEF Reconcile, StartNothing, StartSuspended,
     StartNoJobRef, StartJobMissing, StartWithJob, ResolveFails,
     ResolveTracked, ResolveAdopts, ResolveNew, Trigger, TriggerFails,
     PersistGet, Abort, Observe, ObserveFails, CommentNotNeeded, CommentSet,
     CommentFails
<1>5. CASE Deliver
  BY <1>5, <1>a, LogTail DEF Deliver, Latest
<1>6. CASE Crash
  BY <1>6, <1>a, LogEnds, LogSingle DEF Crash, Latest
<1>7. CASE Process
  BY <1>1, <1>5, <1>6, <1>7 DEF Process, TimerFires, WatcherSees,
     WatcherBreaks, WatcherEnqueues, WatcherExits
<1>8. CASE Environment
  BY <1>1, <1>8 DEF Environment, JobCreated, ChainBreaks, ChainHeals,
     AtcStarts, AtcEnds, AtcAborts, AtcMoves, AtcVanishes
<1>9. CASE UNCHANGED vars
  BY <1>1, <1>9 DEF vars
<1> QED BY <1>4, <1>7, <1>8, <1>9 DEF Next

\* What the ATC does keeps builds tracked, and a dropped build dropped.
LEMMA TrackedKept ==
    ASSUME TypeInv, [Next]_vars, Latest'.status = Latest.status,
           UNCHANGED <<pc, b, triggered>>
    PROVE  /\ EachTracked => EachTracked'
           /\ Recorded' = Recorded
           /\ (Recorded.buildID # 0 /\ atc[Recorded.buildID] = "gone") =>
                 atc'[Recorded.buildID] = "gone"
<1>1. Evolves(atc, atc') /\ triggered \subseteq Ids
  BY NextAtc DEF TypeInv, TypeOK, AtcOK
<1>2. Recorded' = Recorded
  BY DEF Recorded
<1>3. Recorded.buildID \in Ids \cup {0}
  BY LogEnds, VersionParts DEF TypeInv, TypeOK, Recorded, Latest
<1> QED BY <1>1, <1>2, <1>3 DEF EachTracked, Evolves, Persisting

\* A Reconcile that returns leaves the invariant to what is recorded.
LEMMA ReturnOnce ==
    ASSUME TypeInv', NEW rq, Return(rq), Latest'.gen <= MaxEdits,
           Latest'.life # "gone" => EachTracked'
    PROVE  Once'
<1>1. pc' = "idle" /\ attempt' = 0
  BY Zenon DEF Return
<1>2. 0 <= Latest'.gen
  <2>1. \A n \in Nat : 0 <= n
    OBVIOUS
  <2>2. LogOK(log')
    BY DEF TypeInv, TypeOK
  <2>3. Latest' \in Version
    BY <2>2, LogEnds DEF Latest
  <2> QED BY <2>1, <2>3, VersionParts
<1> QED BY <1>1, <1>2 DEF Once, OnceLive, TriesLeft, Persisting

\* Every step keeps what makes the trigger happen once.
LEMMA NextOnce ==
    ASSUME Undisturbed, TypeInv, TypeInv', TrackInv, Once, [Next]_vars
    PROVE  Once'
<1> USE DEF crVars, recVars, atcVars, envVars
<1>a. /\ LogOK(log) /\ b \in Version /\ fresh \in BOOLEAN
      /\ faults \in 0 .. MaxFaults /\ TracksId
  BY DEF TypeInv, TypeOK, RecOK, CountersOK
<1>b. /\ Latest \in Version /\ Latest.gen \in Nat
      /\ b.status.buildID \in Ids \cup {0}
      /\ b.spec.buildID \in Ids \cup {0}
      /\ Recorded.buildID \in Ids \cup {0}
  BY <1>a, LogEnds, VersionParts, ConstantSets DEF Latest, Recorded
<1>c. Latest.gen <= MaxEdits /\ (~Persisting => attempt = 0)
  BY DEF Once
<1>d. Recorded.buildID # 0 => atc[Recorded.buildID] # "none"
  BY DEF TrackInv, Sound
<1>1. CASE EditSpec \/ MarkDeleted \/ Remove
  <2>1. /\ Latest'.status = Latest.status /\ Latest.life # "gone"
        /\ Latest.gen < MaxEdits
        /\ \/ Latest'.gen = Latest.gen + 1
           \/ Latest'.gen = Latest.gen /\ Latest'.life = "gone"
    BY <1>1, <1>a, UserVersion
  <2>2. UNCHANGED <<pc, b, attempt, triggered>>
    BY <1>1, <1>a, UserWritesTypes
  <2>3. Latest'.gen <= MaxEdits
    BY <1>b, <2>1, Bounds
  <2>4. OnceLive
    BY <2>1 DEF Once
  <2>5. Latest'.life # "gone" => TriesLeft'
    <3>1. attempt \in Nat /\ attempt <= Latest.gen
      BY <2>4, Bounds DEF OnceLive, TriesLeft, TypeInv, TypeOK, CountersOK
    <3> QED BY <1>b, <2>1, <2>2, <3>1 DEF TriesLeft
  <2>6. Recorded' = Recorded /\ EachTracked'
    BY <2>1, <2>2, <2>4, TrackedKept DEF OnceLive
  <2>7. Latest'.life # "gone" => OnceLive'
    BY <2>1, <2>2, <2>4, <2>5, <2>6, TrackedKept DEF OnceLive, Persisting
  <2> QED BY <1>c, <2>2, <2>3, <2>7 DEF Once, Persisting
<1>2. SUFFICES ASSUME ~(EditSpec \/ MarkDeleted \/ Remove) PROVE Once'
  BY <1>1
<1>3. Latest'.life = Latest.life /\ Latest'.gen = Latest.gen
  BY <1>2, NextVersion
<1>4. Latest'.gen <= MaxEdits
  BY <1>3, <1>c
<1>5. CASE Latest.life = "gone"
  <2>1. ~Persisting' => attempt' = 0
    <3>1. CASE Reconcile
      BY <1>c, <3>1 DEF Reconcile, StartNothing, StartSuspended,
         StartNoJobRef, StartJobMissing, StartWithJob, SetOwner, ResolveFails,
         ResolveTracked, ResolveAdopts, ResolveNew, Trigger, TriggerFails,
         PersistGet, PersistPut, Abort, Observe, ObserveFails, CommentNotNeeded,
         CommentSet, CommentFails, SaveFinal, SaveEarly, Goto, Return, Persisting
    <3>2. CASE Process
      BY <1>c, <3>2 DEF Process, Deliver, TimerFires, WatcherSees, WatcherBreaks,
         WatcherEnqueues, WatcherExits, Crash, Persisting
    <3>3. CASE Environment
      BY <1>2, <1>c, <3>3 DEF Environment, JobCreated, ChainBreaks, ChainHeals,
         AtcStarts, AtcEnds, AtcAborts, AtcMoves, AtcVanishes, Persisting
    <3>4. CASE UNCHANGED vars
      BY <1>c, <3>4 DEF vars, Persisting
    <3> QED BY <3>1, <3>2, <3>3, <3>4 DEF Next
  <2> QED BY <1>3, <1>4, <1>5, <2>1 DEF Once
<1>6. SUFFICES ASSUME Latest.life # "gone" PROVE Once'
  BY <1>5
<1>7. OnceLive
  BY <1>6 DEF Once
<1>8. ASSUME Latest'.status = Latest.status, UNCHANGED <<pc, b, fresh, attempt, triggered>>
      PROVE  Once'
  <2>1. EachTracked' /\ Recorded' = Recorded
    BY <1>7, <1>8, TrackedKept DEF OnceLive
  <2>2. TriesLeft'
    BY <1>3, <1>7, <1>8 DEF OnceLive, TriesLeft
  <2>3. OnceLive'
    BY <1>7, <1>8, <2>1, <2>2, TrackedKept DEF OnceLive, Persisting
  <2> QED BY <1>4, <1>8, <1>c, <2>3 DEF Once, Persisting
\* A step of Reconcile that is not about to record a build.
<1>9. ASSUME Latest'.status = Latest.status, UNCHANGED <<atc, triggered>>,
             ~Persisting, ~Persisting', attempt' = 0,
             pc' \in {"owner", "resolve", "suspended", "noJobRef", "chainNotReady"} =>
                b'.status.buildID = Recorded.buildID,
             pc' \in {"trigger", "triggerFailed"} =>
                b'.status.buildID = 0 /\ Recorded.buildID = 0,
             pc' \in {"abort", "observe", "comment", "saveFinal"} =>
                Recorded.buildID \in {0, b'.status.buildID},
             pc' = "vanished" /\ Recorded.buildID # 0 =>
                atc[Recorded.buildID] = "gone"
      PROVE  Once'
  <2>1. Recorded' = Recorded
    BY <1>9 DEF Recorded
  <2>2. EachTracked'
    BY <1>7, <1>9, <2>1 DEF OnceLive, EachTracked
  <2>3. TriesLeft'
    BY <1>3, <1>9, <1>b DEF TriesLeft, Persisting
  <2> QED BY <1>4, <1>9, <2>1, <2>2, <2>3 DEF Once, OnceLive
<1>10. CASE StartNothing \/ StartJobMissing
  BY <1>8, <1>10 DEF StartNothing, StartJobMissing, Latest
<1>11. CASE StartSuspended \/ StartNoJobRef \/ StartWithJob
  <2>1. /\ UNCHANGED <<log, atc, triggered, attempt>> /\ pc = "idle"
        /\ Len(log) = 1
    BY <1>11 DEF StartSuspended, StartNoJobRef, StartWithJob, Goto, CacheRead,
       Undisturbed
  <2>2. Cached = Latest /\ Latest' = Latest
    BY <2>1 DEF Cached, Latest
  <2>3. b' = Latest \/ \E r \in ReadyReasons : b' = setReady(Latest, r)
    BY <1>11, <2>2 DEF StartSuspended, StartNoJobRef, StartWithJob, ReadyReasons
  <2>4. b'.status.buildID = Recorded.buildID
    BY <1>b, <2>3, SetReadyType DEF Recorded
  <2>5. pc' \in {"suspended", "noJobRef", "owner", "resolve"}
    BY <1>11 DEF StartSuspended, StartNoJobRef, StartWithJob, Goto
  <2> QED BY <1>9, <1>c, <2>1, <2>2, <2>4, <2>5 DEF Persisting
<1>12. CASE SetOwner
  <2>1. PICK res \in Results :
           /\ APIUpdate(setOwned(Latest), res)
           /\ \/ b' = setOwned(b) /\ Goto("resolve")
              \/ Return(TRUE)
    BY <1>12 DEF SetOwner
  <2>2. UNCHANGED <<atc, triggered>> /\ pc = "owner"
    BY <1>12 DEF SetOwner
  <2>3. Latest'.status = Latest.status
    BY <1>a, <1>b, <2>1, SetOwnedType, UpdateLatest
  <2>4. pc' \in {"idle", "resolve"} /\ attempt' = 0
    BY <1>c, <2>1, <2>2 DEF Goto, Return, Persisting
  <2>5. pc' = "resolve" => b'.status.buildID = Recorded.buildID
    <3>1. b.status.buildID = Recorded.buildID
      BY <1>7, <2>2 DEF OnceLive
    <3> QED BY <1>a, <2>1, <3>1, SetOwnedType DEF Return
  <2> QED BY <1>9, <2>2, <2>3, <2>4, <2>5 DEF Persisting
<1>13. CASE ResolveFails \/ ResolveTracked \/ ResolveAdopts \/ ResolveNew
  <2>1. UNCHANGED <<log, atc, triggered, attempt>> /\ pc = "resolve"
    BY <1>13 DEF ResolveFails, ResolveTracked, ResolveAdopts, ResolveNew, Goto
  <2>2. b.status.buildID = Recorded.buildID /\ Latest' = Latest
    BY <1>7, <2>1 DEF OnceLive, Latest
  <2>3. \/ pc' = "chainNotReady" /\ b'.status.buildID = b.status.buildID
        \/ pc' \in {"abort", "observe"} /\ b.status.buildID \in {0, b'.status.buildID}
        \/ pc' = "trigger" /\ b' = b /\ b.status.buildID = 0
    <3>1. CASE ResolveFails
      BY <1>a, <3>1, SetReadyType DEF ResolveFails, Goto, ReadyReasons
    <3>2. CASE ResolveTracked \/ ResolveAdopts \/ ResolveNew
      BY <3>2 DEF ResolveTracked, ResolveAdopts, ResolveNew, Goto, AfterTracking
    <3> QED BY <1>13, <3>1, <3>2
  <2> QED BY <1>9, <1>c, <2>1, <2>2, <2>3 DEF Persisting
<1>14. CASE Trigger
  <2>1. PICK i \in Ids : AtcCreates(i) /\ b' = setBuildID(b, i)
    BY <1>14 DEF Trigger
  <2>2. UNCHANGED <<log, attempt>> /\ pc = "trigger" /\ pc' = "persistGet"
    BY <1>14 DEF Trigger, Goto
  <2>3. b'.status.buildID = i
    BY <1>a, <2>1, SetBuildIDType
  <2>4. Recorded' = Recorded /\ Recorded.buildID = 0
    BY <1>7, <2>2 DEF OnceLive, Recorded, Latest
  <2>5. EachTracked'
    <3>1. \A j \in triggered : atc[j] = "gone"
      BY <1>7, <2>2, <2>4, ConstantSets
         DEF OnceLive, EachTracked, Persisting, TypeInv, TypeOK, AtcOK
    <3>2. /\ triggered' = triggered \cup {i} /\ atc[i] = "none"
          /\ atc' = [atc EXCEPT ![i] = "pending"]
      BY <2>1 DEF AtcCreates, NextId
    <3>3. \A j \in triggered : atc'[j] = "gone"
      BY <3>1, <3>2 DEF TypeInv, TypeOK, AtcOK
    <3> QED BY <2>2, <2>3, <3>2, <3>3 DEF EachTracked, Persisting
  <2>6. TriesLeft'
    BY <1>b, <1>c, <1>3, <2>2 DEF TriesLeft, Persisting
  <2> QED BY <1>4, <2>2, <2>4, <2>5, <2>6 DEF Once, OnceLive, Persisting
<1>15. CASE TriggerFails
  <2>1. UNCHANGED <<log, atc, triggered, attempt>>
    BY <1>15 DEF TriggerFails, Fault, Undisturbed, Goto
  <2>2. pc = "trigger" /\ pc' = "triggerFailed" /\ b' = setReady(b, "TriggerFailed")
    BY <1>15 DEF TriggerFails, Goto
  <2>3. b'.status.buildID = 0 /\ Recorded.buildID = 0
    BY <1>7, <1>a, <2>2, SetReadyType DEF OnceLive, ReadyReasons
  <2> QED BY <1>9, <1>c, <2>1, <2>2, <2>3 DEF Persisting, Latest
<1>16. CASE PersistGet
  <2>1. UNCHANGED <<log, atc, triggered>> /\ pc = "persistGet" /\ Len(log) = 1
    BY <1>16 DEF PersistGet, CacheRead, Undisturbed
  <2>2. Cached = Latest /\ Recorded' = Recorded /\ Recorded.buildID = 0
    BY <1>7, <2>1 DEF Cached, Latest, Recorded, OnceLive, Persisting
  <2>3. /\ b' = setBuildID(setStatus(b, Recorded), b.status.buildID)
        /\ fresh' = TRUE /\ pc' = "persistPut" /\ attempt' = attempt
    BY <1>6, <1>16, <2>1, <2>2 DEF PersistGet, AlreadyTracked, Goto, Recorded
  <2>4. b'.status.buildID = b.status.buildID
    <3>1. setStatus(b, Recorded) \in Version
      BY <1>a, <1>b, SetStatusType, VersionParts DEF Recorded
    <3> QED BY <1>b, <2>3, <3>1, SetBuildIDType
  <2>5. EachTracked'
    BY <1>7, <2>1, <2>2, <2>3, <2>4 DEF OnceLive, EachTracked, Persisting
  <2>6. TriesLeft'
    BY <1>3, <1>7, <2>3 DEF OnceLive, TriesLeft
  <2> QED BY <1>4, <2>2, <2>3, <2>5, <2>6 DEF Once, OnceLive, Persisting
<1>17. CASE PersistPut
  <2>1. PICK res \in Results :
           /\ StatusUpdate(res)
           /\ CASE res = "ok" ->
                    /\ pc' = AfterTracking(b) /\ attempt' = 0
                    /\ UNCHANGED <<b, fresh, timer>>
               [] res = "conflict" /\ RetryConflict ->
                    /\ pc' = "persistGet" /\ attempt' = attempt + 1
                    /\ UNCHANGED <<b, fresh, timer>>
               [] OTHER -> Return(TRUE)
    BY <1>17, Zenon DEF PersistPut
  <2>2. UNCHANGED <<atc, triggered>> /\ pc = "persistPut"
    BY <1>17 DEF PersistPut
  <2>3. Recorded.buildID = 0 /\ EachTracked /\ TriesLeft
    BY <1>7, <2>2 DEF OnceLive, Persisting
  <2>4. \/ res = "ok" /\ fresh
        \/ res = "conflict" /\ ~fresh /\ UNCHANGED log
    BY <1>6, <2>1, UpdateUndisturbed DEF StatusUpdate
  <2>5. CASE res = "ok" /\ fresh
    <3>1. pc' \in {"abort", "observe"} /\ attempt' = 0 /\ b' = b
      BY <2>1, <2>5 DEF AfterTracking
    <3>2. Recorded' = b.status
      BY <1>a, <2>1, <2>5, StatusUpdateLatest DEF Recorded
    <3>3. EachTracked'
      BY <2>2, <2>3, <3>1, <3>2, ConstantSets
         DEF EachTracked, Persisting, TypeInv, TypeOK, AtcOK
    <3>4. TriesLeft'
      BY <1>3, <1>b, <3>1 DEF TriesLeft
    <3> QED BY <1>4, <3>1, <3>2, <3>3, <3>4 DEF Once, OnceLive, Persisting
  <2>6. CASE res = "conflict" /\ ~fresh /\ UNCHANGED log
    <3>1. attempt + 1 <= Latest.gen
      BY <2>2, <2>3, <2>6 DEF TriesLeft
    <3>2. RetryConflict
      <4>1. attempt \in Nat
        BY Bounds DEF TypeInv, TypeOK, CountersOK
      <4> QED BY <1>b, <1>c, <3>1, <4>1, Bounds DEF RetryConflict, Undisturbed
    <3>3. pc' = "persistGet" /\ attempt' = attempt + 1 /\ b' = b
      BY <2>1, <2>6, <3>2
    <3>4. Recorded' = Recorded
      BY <2>6 DEF Recorded, Latest
    <3>5. EachTracked'
      BY <2>2, <2>3, <3>3, <3>4 DEF EachTracked, Persisting
    <3>6. TriesLeft'
      BY <1>3, <3>1, <3>3 DEF TriesLeft
    <3> QED BY <1>4, <2>3, <3>3, <3>4, <3>5, <3>6 DEF Once, OnceLive, Persisting
  <2> QED BY <2>4, <2>5, <2>6
<1>18. CASE Abort \/ ObserveFails \/ CommentNotNeeded \/ CommentSet \/ CommentFails
  <2>1. /\ UNCHANGED <<log, atc, triggered, attempt>>
        /\ pc \in {"abort", "observe", "comment"}
        /\ pc' \in {"observe", "comment", "saveFinal"}
    BY <1>18 DEF Abort, ObserveFails, CommentNotNeeded, CommentSet, CommentFails, Goto
  <2>2. b'.status.buildID = b.status.buildID
    <3>1. \/ b' = b
          \/ \E r \in ReadyReasons :
                \/ b' = Finished(b, r)
                \/ b' = Finished(setComment(b, b.spec.comment), r)
      BY <1>18 DEF Abort, ObserveFails, CommentNotNeeded, CommentSet,
         CommentFails, ReadyReasons
    <3>2. /\ setComment(b, b.spec.comment) \in Version
          /\ setComment(b, b.spec.comment).status.buildID = b.status.buildID
      BY <1>a, SetCommentType, VersionParts
    <3> QED BY <1>a, <3>1, <3>2, FinishedType
  <2>3. Recorded.buildID \in {0, b.status.buildID}
    BY <1>7, <2>1 DEF OnceLive
  <2> QED BY <1>9, <1>c, <2>1, <2>2, <2>3 DEF Persisting, Latest
<1>19. CASE Observe
  <2>1. /\ UNCHANGED <<log, atc, triggered, attempt>>
        /\ pc = "observe"
    BY <1>19 DEF Observe, Goto
  <2>2. Recorded.buildID \in {0, b.status.buildID}
    BY <1>7, <2>1 DEF OnceLive
  <2>3. CASE GivesUp(b)
    <3>1. pc' = "vanished"
      BY <1>19, <2>3 DEF Observe, Goto
    <3>2. Recorded.buildID # 0 => atc[Recorded.buildID] = "gone"
      BY <1>d, <2>2, <2>3 DEF GivesUp, NotFound
    <3> QED BY <1>9, <1>c, <2>1, <3>1, <3>2 DEF Persisting, Latest
  <2>4. CASE ~GivesUp(b)
    <3>1. pc' = "comment" /\ b' = Observed(b)
      BY <1>19, <2>4 DEF Observe, Goto
    <3>2. b'.status.buildID = b.status.buildID
      <4>1. CASE NotFound(b.status.buildID)
        BY <3>1, <4>1 DEF Observed
      <4>2. CASE ~NotFound(b.status.buildID)
        <5> DEFINE p == atc[b.status.buildID]
        <5>1. b.status.buildID \in Ids
          BY <1>a, <1>b, <2>1 DEF TracksId, HasId
        <5>2. p \in {"", "pending", "started"} \cup Terminal
          BY <4>2, <5>1 DEF NotFound, TypeInv, TypeOK, AtcOK, AtcStates
        <5>3. b' = setPhase(b, p)
          BY <3>1, <4>2 DEF Observed
        <5> HIDE DEF p
        <5> QED BY <1>a, <5>2, <5>3, SetPhaseType
      <4> QED BY <4>1, <4>2
    <3> QED BY <1>9, <1>c, <2>1, <2>2, <3>1, <3>2 DEF Persisting, Latest
  <2> QED BY <2>3, <2>4
<1>20. CASE SaveFinal \/ SaveEarly
  <2>1. PICK res, rq : StatusUpdate(res) /\ Return(rq)
    BY <1>20 DEF SaveFinal, SaveEarly
  <2>2. UNCHANGED <<atc, triggered>> /\ pc \in EarlySaves \cup {"saveFinal"}
    BY <1>20 DEF SaveFinal, SaveEarly
  <2>3. Recorded' \in {Recorded, b.status}
    BY <1>a, <2>1, StatusUpdateLatest DEF Recorded
  <2>4. \/ Recorded.buildID \in {0, b.status.buildID}
        \/ atc[Recorded.buildID] = "gone"
    BY <1>7, <2>2 DEF OnceLive, EarlySaves
  <2>5. \A i \in triggered : atc[i] = "gone" \/ (Recorded.buildID = i /\ i # 0)
    BY <1>7, <2>2, ConstantSets
       DEF OnceLive, EachTracked, Persisting, EarlySaves, TypeInv, TypeOK, AtcOK
  <2>6. EachTracked'
    BY <2>2, <2>3, <2>4, <2>5 DEF EachTracked
  <2> QED BY <1>4, <2>1, <2>6, ReturnOnce
<1>21. CASE Reconcile
  BY <1>10, <1>11, <1>12, <1>13, <1>14, <1>15, <1>16, <1>17, <1>18, <1>19,
     <1>20, <1>21 DEF Reconcile
<1>22. CASE Deliver
  <2>1. Latest' = Latest
    BY <1>22, <1>a, LogTail DEF Deliver, Latest
  <2> QED BY <1>8, <1>22, <2>1 DEF Deliver
<1>23. CASE Crash
  BY <1>23 DEF Crash, Fault, Undisturbed
<1>24. CASE Process
  BY <1>8, <1>22, <1>23, <1>24 DEF Process, TimerFires, WatcherSees,
     WatcherBreaks, WatcherEnqueues, WatcherExits, Latest
<1>25. CASE Environment
  BY <1>2, <1>8, <1>25 DEF Environment, JobCreated, ChainBreaks, ChainHeals,
     AtcStarts, AtcEnds, AtcAborts, AtcMoves, AtcVanishes, Latest
<1>26. CASE UNCHANGED vars
  BY <1>8, <1>26 DEF vars, Latest
<1> QED BY <1>21, <1>24, <1>25, <1>26 DEF Next

\* While the Build exists every build triggered for it is tracked by it
\* (TriggeredOnce), as long as no process dies, no status write fails, the
\* informer cache is up to date when it is read and fewer user writes happen
\* than persistBuildTracking retries; ATC errors, vanishing builds, a broken
\* chain, a late Job and conflicts are all allowed.
THEOREM TriggersOnce ==
    ASSUME Undisturbed
    PROVE  Spec => []TriggeredOnce
<1>1. Init => Once
  <2> SUFFICES ASSUME Init PROVE Once
    OBVIOUS
  <2>1. pc = "idle" /\ attempt = 0 /\ triggered = {}
    BY Zenon DEF Init
  <2>2. PICK s \in Specs, o \in BOOLEAN :
           log = << [life |-> "live", owned |-> o, gen |-> 0, spec |-> s,
                     status |-> NoStatus] >>
    BY DEF Init
  <2>3. Latest.gen = 0
    BY <2>2 DEF Latest
  <2> QED BY <2>1, <2>3, Bounds DEF Once, OnceLive, EachTracked, TriesLeft, Persisting
<1>2. TypeInv /\ TypeInv' /\ TrackInv /\ Once /\ [Next]_vars => Once'
  BY NextOnce
<1>3. Once => TriggeredOnce
  BY DEF Once, OnceLive, EachTracked, Persisting, TriggeredOnce, Orphans
<1> QED BY TrackInvariant, <1>1, <1>2, <1>3, PTL DEF Spec

-----------------------------------------------------------------------------
(***************************************************************************)
(* BuildController implements BuildContract: every step of the reconciler, *)
(* its process and its environment is a step of the contract or leaves the *)
(* recorded status and the ATC's builds as they are.                       *)
(*                                                                         *)
(* TrackInv already says which build a status may name and that outcomes   *)
(* stay.  What is missing is the order of phases: that a status saved now  *)
(* is not behind the one saved before it although the ATC was asked        *)
(* earlier than the save.  OrderInv says it of the stored status and of    *)
(* the up-to-date local copy that may overwrite it.                        *)
(***************************************************************************)
NotBefore(p, q) == Contract!NotBefore(p, q)

\* The status names a phase its build has reached, and no phase without a build.
Ordered(s, a) ==
    /\ s.buildID = 0 => s.phase = ""
    /\ s.buildID # 0 => Contract!Reached(s.phase, a[s.buildID])

\* The copy is not behind the recorded status of the same build.
Onward(s, r) == s.buildID = r.buildID => NotBefore(r.phase, s.phase)

CopyOrdered == fresh => Ordered(b.status, atc) /\ Onward(b.status, Recorded)

OrderInv == Ordered(Recorded, atc) /\ CopyOrdered

\* Every build the ATC has moves on, stays or is dropped.
AtcMovesOn(a, c) == \A i \in Ids : Contract!Moves(a[i], c[i])

BuildStates == {"none", "pending", "started", "gone"} \cup Terminal

-----------------------------------------------------------------------------
\* A build that does not change moves on trivially.
LEMMA MovesNowhere ==
    ASSUME NEW x \in BuildStates
    PROVE  Contract!Moves(x, x)
BY DEF BuildStates, Terminal, Contract!Moves, Contract!Reached,
       Contract!NotBefore, Contract!Ended

\* A phase once reached stays reached.
LEMMA ReachedKept ==
    ASSUME NEW x \in BuildStates, NEW y \in BuildStates, Contract!Moves(x, y),
           NEW p \in {"", "pending", "started"} \cup Terminal,
           Contract!Reached(p, x)
    PROVE  Contract!Reached(p, y)
BY DEF BuildStates, Terminal, Contract!Moves, Contract!Reached,
       Contract!NotBefore, Contract!Ended

\* The state a build is in is a phase it has reached.
LEMMA ReachedNow ==
    ASSUME NEW x \in BuildStates, x \notin {"none", "gone"}
    PROVE  Contract!Reached(x, x)
BY DEF BuildStates, Terminal, Contract!Reached, Contract!NotBefore,
       Contract!Ended

\* Every step of the system lets the ATC's builds move on, and a step that moves
\* them writes no version of the CR.
LEMMA NextMovesOn ==
    TypeInv /\ [Next]_vars =>
        /\ AtcMovesOn(atc, atc')
        /\ UNCHANGED atc \/ Recorded' = Recorded
<1> SUFFICES ASSUME TypeInv, [Next]_vars
             PROVE  /\ AtcMovesOn(atc, atc')
                    /\ UNCHANGED atc \/ Recorded' = Recorded
  OBVIOUS
<1>a. atc \in [Ids -> AtcStates] /\ AtcStates = BuildStates
  BY DEF TypeInv, TypeOK, AtcOK, AtcStates, BuildStates
<1>1. CASE UNCHANGED atc
  BY <1>1, <1>a, MovesNowhere DEF AtcMovesOn
<1>2. ASSUME NEW i \in Ids, NEW to, Contract!Moves(atc[i], to),
             atc' = [atc EXCEPT ![i] = to], UNCHANGED log
      PROVE  AtcMovesOn(atc, atc') /\ Recorded' = Recorded
  BY <1>2, <1>a, MovesNowhere DEF AtcMovesOn, Recorded, Latest
<1>3. ASSUME NEW i \in Ids, AtcCreates(i), UNCHANGED log
      PROVE  AtcMovesOn(atc, atc') /\ Recorded' = Recorded
  BY <1>2, <1>3 DEF AtcCreates, NextId, Contract!Moves
<1>4. CASE Trigger
  BY <1>3, <1>4 DEF Trigger
<1>5. CASE TriggerFails
  BY <1>1, <1>3, <1>5 DEF TriggerFails, atcVars
<1>6. CASE AtcVanishes
  <2>1. atc' = [i \in Ids |-> IF NotFound(i) THEN atc[i] ELSE "gone"]
        /\ UNCHANGED log
    BY <1>6 DEF AtcVanishes, crVars
  <2>2. ASSUME NEW i \in Ids PROVE Contract!Moves(atc[i], atc'[i])
    BY <1>a, <2>1, MovesNowhere
       DEF NotFound, Contract!Moves, Contract!Reached
  <2> QED BY <2>1, <2>2 DEF AtcMovesOn, Recorded, Latest
<1>7. CASE \E i \in Ids : AtcStarts(i) \/ AtcEnds(i) \/ AtcAborts(i)
  <2>1. PICK i \in Ids, to \in {"started"} \cup Terminal :
           /\ atc[i] \in {"pending", "started"} /\ AtcMoves(i, to)
           /\ to = "started" => atc[i] = "pending"
    BY <1>7, ConstantSets DEF AtcStarts, AtcEnds, AtcAborts, Terminal
  <2>2. Contract!Moves(atc[i], to)
    BY <2>1 DEF Contract!Moves, Contract!Reached, Contract!NotBefore,
       Contract!Ended, Terminal
  <2> QED BY <1>2, <2>1, <2>2 DEF AtcMoves, crVars
<1>8. CASE Reconcile
  BY <1>1, <1>4, <1>5, <1>8 DEF Reconcile, StartNothing, StartSuspended,
     StartNoJobRef, StartJobMissing, StartWithJob, SetOwner, ResolveFails,
     ResolveTracked, ResolveAdopts, ResolveNew, PersistGet, PersistPut, Abort,
     Observe, ObserveFails, CommentNotNeeded, CommentSet, CommentFails,
     SaveFinal, SaveEarly, atcVars
<1>9. CASE Process
  BY <1>1, <1>9 DEF Process, Deliver, TimerFires, WatcherSees, WatcherBreaks,
     WatcherEnqueues, WatcherExits, Crash, atcVars
<1>10. CASE Environment
  BY <1>1, <1>6, <1>7, <1>10 DEF Environment, EditSpec, MarkDeleted, Remove,
     UserWrites, JobCreated, ChainBreaks, ChainHeals, atcVars
<1>11. CASE UNCHANGED vars
  BY <1>1, <1>11 DEF vars, atcVars
<1> QED BY <1>8, <1>9, <1>10, <1>11 DEF Next

\* What the ATC does leaves an ordered status ordered.
LEMMA OrderedKept ==
    ASSUME TypeInv, TypeInv', AtcMovesOn(atc, atc'),
           NEW s \in Status, Ordered(s, atc)
    PROVE  Ordered(s, atc')
<1>1. s.buildID \in Ids \cup {0} /\ s.phase \in {"", "pending", "started"} \cup Terminal
  BY DEF Status
<1>2. /\ atc \in [Ids -> BuildStates] /\ atc' \in [Ids -> BuildStates]
  BY DEF TypeInv, TypeOK, AtcOK, AtcStates, BuildStates
<1>3. CASE s.buildID = 0
  BY <1>3 DEF Ordered
<1>4. CASE s.buildID # 0
  <2>1. s.buildID \in Ids
    BY <1>1, <1>4
  <2>2. /\ Contract!Moves(atc[s.buildID], atc'[s.buildID])
        /\ Contract!Reached(s.phase, atc[s.buildID])
    BY <1>4, <2>1 DEF AtcMovesOn, Ordered
  <2>3. Contract!Reached(s.phase, atc'[s.buildID])
    BY <1>1, <1>2, <2>1, <2>2, ReachedKept
  <2> QED BY <1>4, <2>3 DEF Ordered
<1> QED BY <1>3, <1>4

-----------------------------------------------------------------------------
\* No phase is before every phase, and every known build has reached it.
LEMMA NoPhase ==
    ASSUME NEW q, NEW x, x # "none"
    PROVE  NotBefore("", q) /\ Contract!Reached("", x)
BY DEF NotBefore, Contract!NotBefore, Contract!Reached, Contract!Ended

\* The local copy stays ordered.
LEMMA NextCopyOrdered ==
    ASSUME TypeInv, TypeInv', TrackInv, OrderInv, [Next]_vars
    PROVE  CopyOrdered'
<1> SUFFICES ASSUME fresh'
             PROVE  Ordered(b.status, atc)' /\ Onward(b.status, Recorded)'
  BY DEF CopyOrdered
<1>a. AtcMovesOn(atc, atc')
  BY NextMovesOn
<1>b. \/ Recorded' = Recorded
      \/ fresh /\ Recorded' = b.status
  BY NextRecorded
<1>c. b \in Version /\ Latest \in Version /\ LogOK(log)
  BY LogEnds DEF TypeInv, TypeOK, RecOK, Latest
<1>d. b.status \in Status /\ Recorded \in Status
  BY <1>c, VersionParts DEF Recorded
<1>e. Ordered(Recorded, atc) /\ Ordered(Recorded, atc')
  BY <1>a, <1>d, OrderedKept DEF OrderInv
<1>1. ASSUME fresh, b'.status.buildID = b.status.buildID,
             b'.status.phase = b.status.phase
      PROVE  Ordered(b.status, atc)' /\ Onward(b.status, Recorded)'
  <2>1. Ordered(b.status, atc') /\ Onward(b.status, Recorded)
    BY <1>1, <1>a, <1>d, OrderedKept DEF OrderInv, CopyOrdered
  <2>2. NotBefore(b.status.phase, b.status.phase)
    BY <1>d DEF Status, NotBefore, Contract!NotBefore, Contract!Ended
  <2> QED BY <1>1, <1>b, <2>1, <2>2 DEF Ordered, Onward
<1>2. ASSUME UNCHANGED <<log, atc>>, b'.status.buildID = Recorded.buildID,
             b'.status.phase = Recorded.phase
      PROVE  Ordered(b.status, atc)' /\ Onward(b.status, Recorded)'
  <2>1. NotBefore(Recorded.phase, Recorded.phase) /\ Recorded' = Recorded
    BY <1>2, <1>d DEF Status, NotBefore, Contract!NotBefore, Contract!Ended,
       Recorded, Latest
  <2> QED BY <1>2, <1>e, <2>1 DEF Ordered, Onward
<1>3. ASSUME NEW i \in Ids, b'.status.buildID = i, b'.status.phase = "",
             atc'[i] # "none", UNCHANGED log, Recorded.buildID = 0
      PROVE  Ordered(b.status, atc)' /\ Onward(b.status, Recorded)'
  <2>1. Recorded' = Recorded /\ i # 0
    BY <1>3, ConstantSets DEF Recorded, Latest
  <2> QED BY <1>3, <2>1, NoPhase DEF Ordered, Onward
<1>4. CASE StartSuspended \/ StartNoJobRef \/ StartWithJob
  <2>1. UNCHANGED <<log, atc>> /\ Len(log) = 1
    BY <1>4 DEF StartSuspended, StartNoJobRef, StartWithJob, atcVars
  <2>2. Cached = Latest
    BY <2>1 DEF Cached, Latest
  <2>3. b' = Latest \/ \E r \in ReadyReasons : b' = setReady(Latest, r)
    BY <1>4, <2>2 DEF StartSuspended, StartNoJobRef, StartWithJob, ReadyReasons
  <2>4. b'.status.buildID = Recorded.buildID /\ b'.status.phase = Recorded.phase
    BY <1>c, <2>3, SetReadyType DEF Recorded
  <2> QED BY <1>2, <2>1, <2>4
<1>5. CASE SetOwner
  <2>1. Return(TRUE) \/ (UNCHANGED fresh /\ b' = setOwned(b))
    BY <1>5 DEF SetOwner
  <2>2. fresh /\ b' = setOwned(b)
    BY <2>1 DEF Return
  <2> QED BY <1>1, <1>c, <2>2, SetOwnedType
<1>6. CASE ResolveFails \/ TriggerFails
  <2>1. fresh /\ \E r \in ReadyReasons : b' = setReady(b, r)
    BY <1>6 DEF ResolveFails, TriggerFails, ReadyReasons
  <2> QED BY <1>1, <1>c, <2>1, SetReadyType
<1>7. CASE ResolveTracked \/ ResolveNew \/ Abort \/ ObserveFails
  BY <1>1, <1>7 DEF ResolveTracked, ResolveNew, Abort, ObserveFails
<1>8. ASSUME fresh, b.status.buildID = 0, pc # "vanished"
      PROVE  b.status.phase = "" /\ Recorded.buildID = 0
  BY <1>8 DEF OrderInv, CopyOrdered, Ordered, TrackInv, CopyTrue, Tracks
<1>9. CASE ResolveAdopts
  <2>1. b.spec.buildID \in Existing /\ b.spec.buildID \in Ids
    BY <1>9, <1>c, VersionParts, ConstantSets DEF ResolveAdopts
  <2>2. atc'[b.spec.buildID] # "none" /\ UNCHANGED log
    BY <1>9, <2>1 DEF ResolveAdopts, TrackInv, ExistingKnown, atcVars
  <2>3. b' = setBuildID(b, b.spec.buildID) /\ fresh /\ b.status.buildID = 0
        /\ pc # "vanished"
    BY <1>9 DEF ResolveAdopts
  <2> QED BY <1>3, <1>8, <1>c, <2>1, <2>2, <2>3, SetBuildIDType
<1>10. CASE Trigger
  <2>1. PICK i \in Ids : AtcCreates(i) /\ b' = setBuildID(b, i)
    BY <1>10 DEF Trigger
  <2>2. atc'[i] # "none"
    BY <2>1 DEF AtcCreates, TypeInv, TypeOK, AtcOK
  <2>3. b.status.buildID = 0 /\ fresh /\ pc # "vanished" /\ UNCHANGED log
    BY <1>10 DEF Trigger, TypeInv, TracksId
  <2> QED BY <1>3, <1>8, <1>c, <2>1, <2>2, <2>3, SetBuildIDType
<1>11. CASE PersistGet
  <2>1. UNCHANGED <<log, atc>> /\ Len(log) = 1 /\ pc = "persistGet"
    BY <1>11 DEF PersistGet, Return, atcVars
  <2>2. Cached = Latest /\ setStatus(b, Recorded) \in Version
        /\ setStatus(b, Recorded).status = Recorded
    BY <1>c, <1>d, <2>1, SetStatusType DEF Cached, Latest
  <2>3. CASE b' = setStatus(b, Cached.status)
    BY <1>2, <2>1, <2>2, <2>3 DEF Recorded
  <2>4. CASE /\ b' = setBuildID(setStatus(b, Cached.status), b.status.buildID)
             /\ Cached.status.buildID = 0
    <3>1. b' = setBuildID(setStatus(b, Recorded), b.status.buildID)
          /\ Recorded.buildID = 0
      BY <2>2, <2>4 DEF Recorded
    <3>2. b.status.buildID \in Ids
      BY <1>c, <2>1, VersionParts DEF TypeInv, TracksId, HasId
    <3>3. b'.status.buildID = b.status.buildID /\ b'.status.phase = ""
      <4>1. Recorded.phase = ""
        BY <1>e, <3>1 DEF Ordered
      <4>2. /\ b'.status.buildID = b.status.buildID
            /\ b'.status.phase = Recorded.phase
        BY <2>2, <3>1, <3>2, SetBuildIDType
      <4> QED BY <4>1, <4>2
    <3>4. atc'[b.status.buildID] # "none"
      BY <2>1 DEF TrackInv, NewKnown
    <3> QED BY <1>3, <2>1, <3>1, <3>2, <3>3, <3>4
  <2> QED BY <1>11, <2>3, <2>4 DEF PersistGet, AlreadyTracked, Return, Goto
<1>12. CASE PersistPut
  <2>1. UNCHANGED <<b, fresh>> \/ Return(TRUE)
    BY <1>12, Zenon DEF PersistPut
  <2> QED BY <1>1, <2>1 DEF Return
<1>13. CASE Observe
  <2>1. UNCHANGED <<log, atc, fresh>> /\ fresh /\ pc = "observe"
        /\ b.status.buildID # 0
    BY <1>13 DEF Observe, atcVars, TypeInv, TracksId, HasId
  <2>2. Recorded' = Recorded
    BY <2>1 DEF Recorded, Latest
  <2>3. CASE NotFound(b.status.buildID) /\ isTerminal(b.status.phase)
    BY <1>1, <1>13, <2>1, <2>3 DEF Observe, GivesUp, Observed
  <2>4. CASE NotFound(b.status.buildID) /\ ~isTerminal(b.status.phase)
    <3>1. b'.status.buildID = 0 /\ b'.status.phase = ""
      <4>1. setBuildID(b, 0) \in Version /\ setBuildID(b, 0).status.buildID = 0
        BY <1>c, SetBuildIDType
      <4>2. b' = setPhase(setBuildID(b, 0), "")
        BY <1>13, <2>4 DEF Observe, GivesUp, GivenUp
      <4> QED BY <4>1, <4>2, SetPhaseType
    <3>2. Recorded.buildID = 0 => Recorded.phase = ""
      BY <1>e DEF Ordered
    <3> QED BY <2>2, <3>1, <3>2 DEF Ordered, Onward, NotBefore,
       Contract!NotBefore, Contract!Ended
  <2>5. CASE ~NotFound(b.status.buildID)
    <3> DEFINE p == atc[b.status.buildID]
    <3>1. b.status.buildID \in Ids
      BY <1>c, <2>1, VersionParts
    <3>2. p \in BuildStates /\ p \notin {"none", "gone"}
          /\ p \in {"", "pending", "started"} \cup Terminal
      BY <2>5, <3>1 DEF NotFound, TypeInv, TypeOK, AtcOK, AtcStates, BuildStates
    <3>3. b' = setPhase(b, p)
      BY <1>13, <2>5 DEF Observe, GivesUp, Observed
    <3>4. b'.status.buildID = b.status.buildID /\ b'.status.phase = p
      BY <1>c, <3>2, <3>3, SetPhaseType
    <3>5. Contract!Reached(p, p)
      BY <3>2, ReachedNow
    <3>6. Recorded.buildID = b.status.buildID => NotBefore(Recorded.phase, p)
      BY <1>e, <2>1, <3>2 DEF Ordered, Contract!Reached, NotBefore
    <3> QED BY <2>1, <2>2, <3>4, <3>5, <3>6 DEF Ordered, Onward
  <2> QED BY <2>3, <2>4, <2>5
<1>14. CASE CommentNotNeeded \/ CommentSet \/ CommentFails
  <2>1. \E r \in ReadyReasons : \/ b' = Finished(b, r)
                                \/ b' = Finished(setComment(b, b.spec.comment), r)
    BY <1>14 DEF CommentNotNeeded, CommentSet, CommentFails, ReadyReasons
  <2>2. /\ setComment(b, b.spec.comment) \in Version
        /\ setComment(b, b.spec.comment).status.buildID = b.status.buildID
        /\ setComment(b, b.spec.comment).status.phase = b.status.phase
    BY <1>c, SetCommentType, VersionParts
  <2>3. b'.status.buildID = b.status.buildID /\ b'.status.phase = b.status.phase
    BY <1>c, <2>1, <2>2, FinishedType
  <2> QED BY <1>1, <1>14, <2>3 DEF CommentNotNeeded, CommentSet, CommentFails
<1>15. CASE SaveFinal \/ SaveEarly
  BY <1>15 DEF SaveFinal, SaveEarly, Return
<1>16. ASSUME UNCHANGED <<b, fresh>>
       PROVE  Ordered(b.status, atc)' /\ Onward(b.status, Recorded)'
  BY <1>1, <1>16
<1>17. CASE Reconcile
  BY <1>4, <1>5, <1>6, <1>7, <1>9, <1>10, <1>11, <1>12, <1>13, <1>14, <1>15,
     <1>16, <1>17 DEF Reconcile, StartNothing, StartJobMissing, recVars
<1>18. CASE Process
  BY <1>16, <1>18 DEF Process, Deliver, TimerFires, WatcherSees, WatcherBreaks,
     WatcherEnqueues, WatcherExits, Crash, recVars
<1>19. CASE Environment
  BY <1>16, <1>19 DEF Environment, EditSpec, MarkDeleted, Remove, UserWrites,
     JobCreated, ChainBreaks, ChainHeals, AtcStarts, AtcEnds, AtcAborts,
     AtcMoves, AtcVanishes, recVars
<1>20. CASE UNCHANGED vars
  BY <1>16, <1>20 DEF vars, recVars
<1> QED BY <1>17, <1>18, <1>19, <1>20 DEF Next

\* OrderInv holds initially.
LEMMA InitOrder == Init => OrderInv
<1> SUFFICES ASSUME Init PROVE OrderInv
  OBVIOUS
<1>1. Recorded.buildID = 0 /\ Recorded.phase = ""
  <2>1. PICK s \in Specs, o \in BOOLEAN :
           log = << [life |-> "live", owned |-> o, gen |-> 0, spec |-> s,
                     status |-> NoStatus] >>
    BY DEF Init
  <2> QED BY <2>1 DEF Recorded, Latest, NoStatus
<1>2. ~fresh
  BY DEF Init
<1> QED BY <1>1, <1>2 DEF OrderInv, Ordered, CopyOrdered

\* Every step preserves OrderInv.
LEMMA NextOrder == TypeInv /\ TrackInv /\ OrderInv /\ [Next]_vars => OrderInv'
<1> SUFFICES ASSUME TypeInv, TrackInv, OrderInv, [Next]_vars PROVE OrderInv'
  OBVIOUS
<1>1. TypeInv' /\ AtcMovesOn(atc, atc')
  BY NextTypes, NextMovesOn
<1>2. b.status \in Status /\ Recorded \in Status
  BY LogEnds, VersionParts DEF TypeInv, TypeOK, RecOK, Recorded, Latest
<1>3. Ordered(Recorded', atc) /\ Recorded' \in Status
  BY <1>2, NextRecorded DEF OrderInv, CopyOrdered
<1>4. Ordered(Recorded', atc')
  BY <1>1, <1>3, OrderedKept
<1> QED BY <1>1, <1>4, NextCopyOrdered DEF OrderInv

\* All three invariants hold in every reachable state.
LEMMA OrderInvariant == Spec => [](TypeInv /\ TrackInv /\ OrderInv)
BY InitTypes, NextTypes, InitTrack, NextTrack, InitOrder, NextOrder, PTL DEF Spec

-----------------------------------------------------------------------------
\* The initial states are initial states of the contract.
LEMMA InitImplements == Init => Contract!Init
<1> SUFFICES ASSUME Init PROVE Contract!Init
  OBVIOUS
<1>1. Recorded.buildID = 0 /\ Recorded.phase = ""
  <2>1. PICK s \in Specs, o \in BOOLEAN :
           log = << [life |-> "live", owned |-> o, gen |-> 0, spec |-> s,
                     status |-> NoStatus] >>
    BY DEF Init
  <2> QED BY <2>1 DEF Recorded, Latest, NoStatus
<1>2. atc \in [Ids -> {"none", "started", "gone"} \cup Contract!Ended]
  BY ConstantSets DEF Init, Terminal, Contract!Ended
<1> QED BY <1>1, <1>2 DEF Contract!Init

\* Every step is a step of the contract or a stutter.
LEMMA NextImplements ==
    TypeInv /\ TypeInv' /\ TrackInv /\ OrderInv /\ [Next]_vars =>
        [Contract!Next]_<<Recorded.buildID, Recorded.phase, atc>>
<1> SUFFICES ASSUME TypeInv, TypeInv', TrackInv, OrderInv, [Next]_vars
             PROVE  [Contract!Next]_<<Recorded.buildID, Recorded.phase, atc>>
  OBVIOUS
<1>1. CASE Recorded' = Recorded
  <2>1. atc' \in [Ids -> Contract!States]
    BY DEF TypeInv, TypeOK, AtcOK, AtcStates, Terminal, Contract!States,
       Contract!Ended
  <2>2. \A i \in Ids : Contract!Moves(atc[i], atc'[i])
    BY NextMovesOn DEF AtcMovesOn
  <2>3. Contract!AtcStep
    BY <1>1, <2>1, <2>2 DEF Contract!AtcStep
  <2> QED BY <2>3 DEF Contract!Next
<1>2. CASE Recorded' # Recorded
  <2>1. UNCHANGED atc /\ fresh /\ Recorded' = b.status
    BY <1>2, NextMovesOn, NextRecorded
  <2>2. /\ Ordered(b.status, atc) /\ Onward(b.status, Recorded)
        /\ Ordered(Recorded, atc) /\ Follows(b.status, Recorded, atc)
    BY <2>1 DEF OrderInv, CopyOrdered, TrackInv, CopyTrue
  <2>3. b.status \in Status
    BY VersionParts DEF TypeInv, TypeOK, RecOK
  <2> DEFINE i == b.status.buildID
             p == b.status.phase
  <2>4. i \in Ids \cup {0} /\ p \in Contract!Phases
    BY <2>3 DEF Status, Terminal, Contract!Phases, Contract!Ended
  <2>5. CASE i # 0
    <3>1. Contract!Reached(p, atc[i])
      BY <2>2, <2>5 DEF Ordered
    <3>2. Recorded.buildID \in {0, i}
      BY <2>2, <2>5 DEF Follows
    <3>3. Contract!NotBefore(Recorded.phase, p)
      <4>1. CASE Recorded.buildID = i
        BY <2>2, <4>1 DEF Onward, NotBefore
      <4>2. CASE Recorded.buildID = 0
        BY <2>2, <4>2 DEF Ordered, Contract!NotBefore, Contract!Ended
      <4> QED BY <3>2, <4>1, <4>2
    <3>4. Contract!Report(i, p)
      BY <2>1, <3>1, <3>2, <3>3 DEF Contract!Report
    <3> QED BY <2>4, <2>5, <3>4 DEF Contract!Next
  <2>6. CASE i = 0 /\ Recorded.buildID # 0
    <3>1. p = "" /\ atc[Recorded.buildID] = "gone"
      BY <2>2, <2>6 DEF Follows
    <3>2. Recorded.phase \notin Contract!Ended
      BY <2>2, <3>1 DEF Follows, isTerminal, Terminal, Contract!Ended
    <3>3. Contract!LetGo
      BY <2>1, <2>6, <3>1, <3>2 DEF Contract!LetGo
    <3> QED BY <3>3 DEF Contract!Next
  <2>7. CASE i = 0 /\ Recorded.buildID = 0
    BY <2>1, <2>2, <2>7 DEF Ordered
  <2> QED BY <2>5, <2>6, <2>7
<1> QED BY <1>1, <1>2

\* The recorded status and the ATC's builds behave as BuildContract says, for
\* every value of the constants (ImplementsContract).
THEOREM BuildImplementsContract == Spec => ImplementsContract
<1>1. Init => Contract!Init
  BY InitImplements
<1>2. TypeInv /\ TypeInv' /\ TrackInv /\ OrderInv /\ [Next]_vars =>
         [Contract!Next]_<<Recorded.buildID, Recorded.phase, atc>>
  BY NextImplements
<1> QED BY <1>1, <1>2, OrderInvariant, PTL
   DEF Spec, ImplementsContract, Contract!Spec
=============================================================================
