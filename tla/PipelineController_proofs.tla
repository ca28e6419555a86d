---------------------- MODULE PipelineController_proofs ----------------------
(***************************************************************************)
(* Proofs about PipelineController, for every set of configs, names, specs *)
(* and faults and every bound: type correctness in every case, and what    *)
(* Ready promises for an informer cache that is up to date when it is      *)
(* read, as long as no edit goes back to the config the status records.    *)
(***************************************************************************)
EXTENDS PipelineController, TLAPS

-----------------------------------------------------------------------------
\* The bounds are natural numbers.
LEMMA Bounds == MaxFaults \in Nat /\ MaxEdits \in Nat
BY PipelineAssumption, Zenon DEF PipelineAssumption

\* No config is mistaken for a missing one, a reference or somebody else's.
LEMMA ConfigsApart ==
    /\ "" \notin Configs /\ "configMap" \notin Configs /\ Foreign \notin Configs
    /\ Contents \subseteq Configs \cup {""} /\ "default" \in Names
BY PipelineAssumption DEF PipelineAssumption

-----------------------------------------------------------------------------
(***************************************************************************)
(* The version log.                                                        *)
(***************************************************************************)
LogOK(l) == l \in Seq(Version) /\ Len(l) > 0

\* The ends of a non-empty log are versions.
LEMMA LogEnds ==
    ASSUME NEW l, LogOK(l)
    PROVE  l[1] \in Version /\ l[Len(l)] \in Version
BY DEF LogOK

\* Appending a version makes it the latest one.
LEMMA LogAppend ==
    ASSUME NEW l, LogOK(l), NEW v \in Version
    PROVE  LogOK(Append(l, v)) /\ Append(l, v)[Len(Append(l, v))] = v
BY DEF LogOK

\* Delivery of the oldest version leaves the latest one in place.
LEMMA LogTail ==
    ASSUME NEW l, LogOK(l), Len(l) > 1
    PROVE  LogOK(Tail(l)) /\ Tail(l)[Len(Tail(l))] = l[Len(l)]
BY DEF LogOK

\* A log of one version.
LEMMA LogSingle ==
    ASSUME NEW v \in Version
    PROVE  LogOK(<<v>>) /\ <<v>>[Len(<<v>>)] = v
BY DEF LogOK

\* A store leaves the version it was given as the latest one.
LEMMA StoreLatest ==
    ASSUME LogOK(log), NEW v \in Version, Store(v)
    PROVE  LogOK(log') /\ Latest' = v
<1>1. CASE v = Latest
  BY <1>1 DEF Store, Latest
<1>2. CASE v # Latest
  BY <1>2, LogAppend DEF Store, Latest
<1> QED BY <1>1, <1>2

\* A fault counts once.
LEMMA FaultCounts ==
    ASSUME faults \in 0 .. MaxFaults, NEW k, Fault(k)
    PROVE  faults' \in 0 .. MaxFaults
<1>1. faults < MaxFaults /\ faults' = faults + 1
  BY DEF Fault
<1> QED BY <1>1, Bounds

\* Whatever its result, an API update leaves either the old latest version or
\* the new one, and the new one only if the writer was up to date.
LEMMA UpdateLatest ==
    ASSUME LogOK(log), NEW v \in Version, NEW res, APIUpdate(v, res),
           faults \in 0 .. MaxFaults
    PROVE  /\ LogOK(log')
           /\ Latest' = Latest \/ (fresh /\ Latest' = v)
           /\ res = "ok" => fresh /\ Latest' = v
           /\ faults' \in 0 .. MaxFaults
<1>1. faults' = faults \/ Fault("apiError") \/ Fault("apiLost")
  BY DEF APIUpdate
<1>2. faults' \in 0 .. MaxFaults
  BY <1>1, FaultCounts
<1>3. (fresh /\ Store(v)) \/ (log' = log /\ res # "ok")
  BY DEF APIUpdate
<1>4. CASE fresh /\ Store(v)
  BY <1>2, <1>4, StoreLatest
<1>5. CASE log' = log /\ res # "ok"
  BY <1>2, <1>5 DEF Latest
<1> QED BY <1>3, <1>4, <1>5

-----------------------------------------------------------------------------
(***************************************************************************)
(* Versions of the Pipeline and what is assigned to them.                  *)
(***************************************************************************)
\* The parts of a version.
LEMMA VersionParts ==
    ASSUME NEW v \in Version
    PROVE  /\ v.status \in Status /\ v.spec \in Spec_ /\ v.gen \in Nat
           /\ v.status.hash \in Configs \cup {""} /\ v.status.known \in BOOLEAN
           /\ v.status.readyGen \in Nat /\ v.status.ready \in ReadyReasons
           /\ v.spec.config \in Configs \cup {"configMap"}
           /\ v.spec.name \in Names
           /\ v.spec.archived \in BOOLEAN /\ v.spec.paused \in BOOLEAN
           /\ v.spec.exposed \in BOOLEAN
           /\ v.fin \in BOOLEAN /\ v.owned \in BOOLEAN
BY DEF Version, Status, Spec_

\* A new Pipeline.
LEMMA CreatedType ==
    ASSUME NEW s \in Spec_, NEW o \in BOOLEAN
    PROVE  /\ Created(s, o) \in Version
           /\ Created(s, o).life = "live" /\ Created(s, o).gen = 0
           /\ Created(s, o).spec = s /\ Created(s, o).status = NoStatus
BY DEF Created, NoStatus, Version, Status, ReadyReasons

\* The empty copy of an idle reconciler is a version.
LEMMA NoCopyType == NoCopy \in Version
<1> DEFINE s0 == [config |-> "configMap", name |-> "default", archived |-> FALSE,
                  paused |-> FALSE, exposed |-> FALSE, orphan |-> FALSE,
                  suspend |-> FALSE]
<1>1. s0 \in Spec_
  BY ConfigsApart DEF Spec_
<1>2. (CHOOSE s \in Spec_ : TRUE) \in Spec_
  BY <1>1, Zenon
<1> DEFINE s1 == CHOOSE s \in Spec_ : TRUE
<1>3. Created(s1, FALSE) \in Version
  BY <1>2, CreatedType
<1>4. NoCopy = [Created(s1, FALSE) EXCEPT !.life = "gone"]
  BY DEF NoCopy
<1> HIDE DEF s1
<1> QED BY <1>3, <1>4 DEF Version

\* A Ready condition leaves everything else alone.
LEMMA SetReadyType ==
    ASSUME NEW v \in Version, NEW r \in ReadyReasons
    PROVE  /\ setReady(v, r) \in Version
           /\ setReady(v, r).status.ready = r
           /\ setReady(v, r).status.readyGen = v.gen
           /\ setReady(v, r).status.hash = v.status.hash
           /\ setReady(v, r).status.known = v.status.known
           /\ setReady(v, r).life = v.life /\ setReady(v, r).spec = v.spec
           /\ setReady(v, r).gen = v.gen
BY DEF setReady, Version, Status

\* So does the hash of an applied config.
LEMMA SetHashType ==
    ASSUME NEW v \in Version, NEW c \in Configs \cup {""}
    PROVE  LET w == [v EXCEPT !.status.hash = c]
           IN  /\ w \in Version /\ w.status.hash = c
               /\ w.status.known = v.status.known
               /\ w.status.readyGen = v.status.readyGen
               /\ w.life = v.life /\ w.spec = v.spec /\ w.gen = v.gen
BY DEF Version, Status

\* So does a pipelineID that is found.
LEMMA SetKnownType ==
    ASSUME NEW v \in Version, NEW k \in BOOLEAN
    PROVE  LET w == [v EXCEPT !.status.known = @ \/ k]
           IN  /\ w \in Version /\ w.status.hash = v.status.hash
               /\ w.status.known = (v.status.known \/ k)
               /\ w.life = v.life /\ w.spec = v.spec /\ w.gen = v.gen
<1> DEFINE known == v.status.known \/ k
<1>1. known \in BOOLEAN
  BY VersionParts
<1> HIDE DEF known
<1>2. LET w == [v EXCEPT !.status.known = known]
      IN  /\ w \in Version /\ w.status.hash = v.status.hash
          /\ w.status.known = known
          /\ w.life = v.life /\ w.spec = v.spec /\ w.gen = v.gen
  BY <1>1 DEF Version, Status
<1> QED BY <1>2 DEF known

\* Metadata updates leave spec, generation and status alone.
LEMMA MetadataTypes ==
    ASSUME NEW v \in Version
    PROVE  /\ LET w == [v EXCEPT !.fin = TRUE]
              IN  /\ w \in Version /\ w.life = v.life /\ w.gen = v.gen
                  /\ w.spec = v.spec /\ w.status = v.status
           /\ LET w == [v EXCEPT !.owned = TRUE]
              IN  /\ w \in Version /\ w.life = v.life /\ w.gen = v.gen
                  /\ w.spec = v.spec /\ w.status = v.status
BY DEF Version

\* Removing the finalizer removes the object.
LEMMA FinalizedType ==
    ASSUME NEW v \in Version
    PROVE  LET w == [v EXCEPT !.fin = FALSE, !.life = "gone"]
           IN  /\ w \in Version /\ w.life = "gone" /\ w.gen = v.gen
               /\ w.spec = v.spec /\ w.status = v.status
BY DEF Version

\* A status update replaces the status only.
LEMMA SetStatusType ==
    ASSUME NEW v \in Version, NEW s \in Status
    PROVE  LET w == [v EXCEPT !.status = s]
           IN  /\ w \in Version /\ w.status = s /\ w.life = v.life
               /\ w.gen = v.gen /\ w.spec = v.spec
BY DEF Version

\* A spec edit and a deletion mark count in the generation and leave the status
\* alone.
LEMMA EditTypes ==
    ASSUME NEW v \in Version
    PROVE  /\ \A s \in Specs : LET w == [v EXCEPT !.spec = s, !.gen = @ + 1]
                               IN  /\ w \in Version /\ w.status = v.status
                                   /\ w.life = v.life /\ w.spec = s
                                   /\ w.gen = v.gen + 1
           /\ \A l \in {"deleting", "gone"} :
                 LET w == [v EXCEPT !.life = l, !.gen = @ + 1]
                 IN  /\ w \in Version /\ w.status = v.status
                     /\ w.life = l /\ w.gen = v.gen + 1
<1>1. \A n \in Nat : n + 1 \in Nat
  OBVIOUS
<1> DEFINE g == v.gen + 1
<1>2. g \in Nat
  BY <1>1, VersionParts
<1> HIDE DEF g
<1>3. \A s \in Specs : LET w == [v EXCEPT !.spec = s, !.gen = g]
                       IN  /\ w \in Version /\ w.status = v.status
                           /\ w.life = v.life /\ w.spec = s /\ w.gen = g
  BY <1>2, SpecsAssumption DEF Version
<1>4. \A l \in {"deleting", "gone"} :
         LET w == [v EXCEPT !.life = l, !.gen = g]
         IN  /\ w \in Version /\ w.status = v.status
             /\ w.life = l /\ w.gen = g
  BY <1>2 DEF Version
<1> QED BY <1>3, <1>4 DEF g

-----------------------------------------------------------------------------
(***************************************************************************)
(* The ATC's pipelines.                                                    *)
(***************************************************************************)
\* set-config gives the pipeline its config, keeps its other states and pauses
\* a new one; other pipelines stay as they are.
LEMMA AtcSetsEffect ==
    ASSUME atc \in [Names -> AtcPipeline], p \in Version,
           NEW c \in Configs \cup {"", Foreign}, AtcSets(c)
    PROVE  /\ atc' \in [Names -> AtcPipeline]
           /\ atc'[p.spec.name].config = c
           /\ atc'[p.spec.name].archived = atc[p.spec.name].archived
           /\ atc'[p.spec.name].exposed = atc[p.spec.name].exposed
           /\ atc[p.spec.name].config # "" =>
                 atc'[p.spec.name].paused = atc[p.spec.name].paused
           /\ \A n \in Names \ {p.spec.name} : atc'[n] = atc[n]
<1> DEFINE m == p.spec.name
           paused == atc[m].paused \/ atc[m].config = ""
<1>1. m \in Names
  BY VersionParts
<1>2. atc[m] \in AtcPipeline
  BY <1>1
<1>3. paused \in BOOLEAN /\ (atc[m].config # "" => paused = atc[m].paused)
  BY <1>2 DEF AtcPipeline
<1>4. atc' = [atc EXCEPT ![m].config = c, ![m].paused = paused]
  BY DEF AtcSets
<1> HIDE DEF m, paused
<1>5. /\ atc' \in [Names -> AtcPipeline]
      /\ atc'[m].config = c /\ atc'[m].archived = atc[m].archived
      /\ atc'[m].exposed = atc[m].exposed /\ atc'[m].paused = paused
      /\ \A n \in Names \ {m} : atc'[n] = atc[n]
  BY <1>1, <1>2, <1>3, <1>4 DEF AtcPipeline
<1> QED BY <1>3, <1>5 DEF m

\* Another client's set-config changes the config only.
LEMMA OthersSetEffect ==
    ASSUME atc \in [Names -> AtcPipeline], NEW m \in Names,
           atc' = [atc EXCEPT ![m].config = Foreign]
    PROVE  /\ atc' \in [Names -> AtcPipeline]
           /\ atc'[m].config = Foreign
           /\ atc'[m].archived = atc[m].archived
           /\ atc'[m].paused = atc[m].paused
           /\ atc'[m].exposed = atc[m].exposed
           /\ \A n \in Names \ {m} : atc'[n] = atc[n]
BY DEF AtcPipeline

\* A state request sets its own state to the spec's, and only takes a pipeline
\* into the archive; the config stays.
LEMMA AtcStateEffect ==
    ASSUME atc \in [Names -> AtcPipeline], p \in Version,
           NEW f \in States, AtcState(f)
    PROVE  LET old == atc[p.spec.name]
               new == atc'[p.spec.name]
           IN  /\ atc' \in [Names -> AtcPipeline]
               /\ new.config = old.config
               /\ \A n \in Names \ {p.spec.name} : atc'[n] = atc[n]
               /\ f = "archived" =>
                     /\ new.paused = old.paused /\ new.exposed = old.exposed
                     /\ old.archived => new.archived
                     /\ old.config # "" /\ p.spec.archived => new.archived
               /\ f = "paused" =>
                     /\ new.archived = old.archived /\ new.exposed = old.exposed
                     /\ old.config # "" => new.paused = p.spec.paused
               /\ f = "exposed" =>
                     /\ new.archived = old.archived /\ new.paused = old.paused
                     /\ old.config # "" => new.exposed = p.spec.exposed
<1> DEFINE m == p.spec.name
           s == p.spec
<1>1. m \in Names /\ s.archived \in BOOLEAN /\ s.paused \in BOOLEAN
      /\ s.exposed \in BOOLEAN
  BY VersionParts
<1>2. atc[m] \in AtcPipeline
  BY <1>1
<1>3. \/ UNCHANGED atc /\ (atc[m].config = "" \/ (f = "archived" /\ ~s.archived))
      \/ /\ atc' = [atc EXCEPT ![m] = [atc[m] EXCEPT ![f] = s[f]]]
         /\ f = "archived" => s.archived
  BY <1>1, <1>2 DEF AtcState
<1>4. f \in {"archived", "paused", "exposed"}
  BY DEF States
<1> HIDE DEF m, s
<1>5. CASE UNCHANGED atc /\ (atc[m].config = "" \/ (f = "archived" /\ ~s.archived))
  BY <1>4, <1>5 DEF m, s
<1>6. CASE /\ atc' = [atc EXCEPT ![m] = [atc[m] EXCEPT ![f] = s[f]]]
           /\ f = "archived" => s.archived
  <2>1. CASE f = "archived"
    BY <1>1, <1>2, <1>6, <2>1 DEF AtcPipeline, m, s
  <2>2. CASE f = "paused"
    BY <1>1, <1>2, <1>6, <2>2 DEF AtcPipeline, m, s
  <2>3. CASE f = "exposed"
    BY <1>1, <1>2, <1>6, <2>3 DEF AtcPipeline, m, s
  <2> QED BY <1>4, <2>1, <2>2, <2>3
<1> QED BY <1>3, <1>5, <1>6

-----------------------------------------------------------------------------
(***************************************************************************)
(* Type correctness, in three parts and the number of faults.              *)
(***************************************************************************)
QueueTypes == LogOK(log) /\ queued \in BOOLEAN /\ timer \in BOOLEAN

PassTypes == /\ pc \in Pcs /\ p \in Version /\ fresh \in BOOLEAN
             /\ yaml \in Configs \cup {""} /\ current \in BOOLEAN

WorldTypes == /\ atc \in [Names -> AtcPipeline] /\ cm \in Contents
              /\ team \in {"missing", "notReady", "ready"}
              /\ edits \in 0 .. MaxEdits

\* TypeOK is these parts.
LEMMA TypeParts ==
    TypeOK <=> QueueTypes /\ PassTypes /\ WorldTypes /\ faults \in 0 .. MaxFaults
BY Zenon DEF TypeOK, QueueTypes, PassTypes, WorldTypes, LogOK

\* So they are after a step.
LEMMA TypesTogether ==
    (QueueTypes /\ PassTypes /\ WorldTypes /\ faults \in 0 .. MaxFaults)' => TypeOK'
BY TypeParts, PTL

\* A step that leaves the types of one part alone.
LEMMA TypesKept ==
    /\ QueueTypes /\ UNCHANGED <<log, queued, timer>> => QueueTypes'
    /\ PassTypes /\ UNCHANGED <<pc, p, yaml, current, fresh>> => PassTypes'
    /\ WorldTypes /\ UNCHANGED <<atc, cm, team, edits>> => WorldTypes'
BY DEF QueueTypes, PassTypes, WorldTypes

\* Returning from Reconcile leaves a type-correct idle reconciler.
LEMMA ReturnTypes ==
    ASSUME NEW rq, Return(rq)
    PROVE  PassTypes' /\ timer' \in BOOLEAN
<1>1. /\ pc' = "idle" /\ p' = NoCopy /\ yaml' = "" /\ current' = FALSE
      /\ fresh' = FALSE
  BY Zenon DEF Return
<1>2. timer' \in BOOLEAN
  BY DEF Return
<1> QED BY <1>1, <1>2, NoCopyType DEF PassTypes, Pcs

\* The initial states are type correct.
LEMMA InitTypes == Init => TypeOK
<1> SUFFICES ASSUME Init PROVE TypeOK
  OBVIOUS
<1>1. PICK s \in Specs, o \in BOOLEAN : log = <<Created(s, o)>>
  BY DEF Init
<1>2. LogOK(log)
  BY <1>1, CreatedType, LogSingle, SpecsAssumption
<1>3. NoPipeline \in AtcPipeline /\ [NoPipeline EXCEPT !.config = Foreign] \in AtcPipeline
  BY DEF NoPipeline, AtcPipeline
<1>4. atc \in [Names -> AtcPipeline]
  BY <1>3 DEF Init
<1>5. edits \in 0 .. MaxEdits /\ faults \in 0 .. MaxFaults
  <2>1. edits = 0 /\ faults = 0
    BY Zenon DEF Init
  <2> QED BY <2>1, Bounds
<1>6. QueueTypes /\ PassTypes
  BY <1>2, NoCopyType DEF Init, QueueTypes, PassTypes, Pcs
<1>7. WorldTypes
  BY <1>4, <1>5 DEF Init, WorldTypes
<1> QED BY <1>5, <1>6, <1>7, TypeParts

\* Every step of Reconcile preserves type correctness.
LEMMA ReconcileTypes == TypeOK /\ Reconcile => TypeOK'
<1> SUFFICES ASSUME TypeOK, Reconcile PROVE TypeOK'
  OBVIOUS
<1> USE DEF crVars, recVars, envVars
<1>a. QueueTypes /\ PassTypes /\ WorldTypes /\ faults \in 0 .. MaxFaults
  BY TypeParts
<1>b. Latest \in Version /\ Cached \in Version /\ LogOK(log)
  BY <1>a, LogEnds DEF QueueTypes, Latest, Cached
<1>c. p \in Version /\ atc \in [Names -> AtcPipeline]
  BY <1>a DEF PassTypes, WorldTypes
<1>1. CASE StartNothing
  <2>1. QueueTypes' /\ UNCHANGED <<faults, recVars, envVars>>
    BY <1>1, <1>a DEF StartNothing, QueueTypes
  <2> QED BY <1>a, <2>1, TypesKept, TypesTogether
<1>2. ASSUME NEW v \in Version, NEW next \in Pcs, Start(v, next)
      PROVE  TypeOK'
  <2>1. QueueTypes' /\ UNCHANGED <<faults, envVars>>
    BY <1>2, <1>a DEF Start, QueueTypes
  <2>2. PassTypes'
    BY <1>2, <1>a DEF Start, PassTypes
  <2> QED BY <1>a, <2>1, <2>2, TypesKept, TypesTogether
<1>3. CASE StartSuspended \/ StartDeleting \/ StartLive
  <2>1. setReady(Cached, "Suspended") \in Version
    BY <1>b, SetReadyType DEF ReadyReasons
  <2>2. \E v \in Version, next \in Pcs : Start(v, next)
    BY <1>3, <1>b, <2>1
       DEF StartSuspended, StartDeleting, StartLive, Pcs, Saves
  <2> QED BY <1>2, <2>2
<1>4. CASE Delete
  <2>1. QueueTypes' /\ PassTypes'
    BY <1>4, <1>a DEF Delete, Goto, QueueTypes, PassTypes, Pcs
  <2>2. NoPipeline \in AtcPipeline
    BY DEF NoPipeline, AtcPipeline
  <2>3. WorldTypes'
    BY <1>4, <1>a, <2>2 DEF Delete, WorldTypes
  <2>4. faults' \in 0 .. MaxFaults
    BY <1>4, <1>a, FaultCounts DEF Delete
  <2> QED BY <2>1, <2>3, <2>4, TypesTogether
<1>5. ASSUME NEW v \in Version, NEW res, APIUpdate(v, res), NEW rq, Return(rq),
             UNCHANGED <<queued, envVars>>
      PROVE  TypeOK'
  <2>1. LogOK(log') /\ faults' \in 0 .. MaxFaults
    BY <1>5, <1>a, <1>b, UpdateLatest
  <2>2. QueueTypes' /\ PassTypes'
    BY <1>5, <1>a, <2>1, ReturnTypes DEF QueueTypes
  <2> QED BY <1>5, <1>a, <2>1, <2>2, TypesKept, TypesTogether
<1>6. CASE RemoveFinalizer
  <2>1. [Latest EXCEPT !.fin = FALSE, !.life = "gone"] \in Version
    BY <1>b, FinalizedType
  <2> QED BY <1>5, <1>6, <2>1 DEF RemoveFinalizer
<1>7. CASE Save
  <2>1. [Latest EXCEPT !.status = p.status] \in Version
    BY <1>b, <1>c, SetStatusType, VersionParts
  <2> QED BY <1>5, <1>7, <2>1 DEF Save
<1>8. ASSUME NEW v \in Version, NEW w \in Version, NEW next \in Pcs,
             Updated(v, w, next)
      PROVE  TypeOK'
  <2>1. PICK res \in Results :
           /\ APIUpdate(v, res)
           /\ \/ p' = w /\ Goto(next) /\ UNCHANGED <<yaml, current>>
              \/ Return(TRUE)
    BY <1>8 DEF Updated
  <2>2. UNCHANGED <<queued, envVars>>
    BY <1>8 DEF Updated
  <2>3. CASE p' = w /\ Goto(next) /\ UNCHANGED <<yaml, current>>
    <3>1. LogOK(log') /\ faults' \in 0 .. MaxFaults
      BY <2>1, <1>a, <1>b, UpdateLatest
    <3>2. QueueTypes' /\ PassTypes'
      BY <1>8, <1>a, <2>2, <2>3, <3>1 DEF Goto, QueueTypes, PassTypes
    <3> QED BY <1>a, <2>2, <3>1, <3>2, TypesKept, TypesTogether
  <2> QED BY <1>5, <1>8, <2>1, <2>2, <2>3
<1>9. CASE AddFinalizer \/ SetOwner
  <2>1. /\ [Latest EXCEPT !.fin = TRUE] \in Version
        /\ [p EXCEPT !.fin = TRUE] \in Version
        /\ [Latest EXCEPT !.owned = TRUE] \in Version
        /\ [p EXCEPT !.owned = TRUE] \in Version
    BY <1>b, <1>c, MetadataTypes
  <2>2. "owner" \in Pcs /\ "resolve" \in Pcs
    BY DEF Pcs
  <2> QED BY <1>8, <1>9, <2>1, <2>2 DEF AddFinalizer, SetOwner
\* Steps that change the pass only.
<1>10. ASSUME p' \in Version, pc' \in Pcs, UNCHANGED <<timer, fresh, log, queued, envVars>>,
              yaml' \in Configs \cup {""}, current' \in BOOLEAN,
              faults' \in 0 .. MaxFaults
       PROVE  TypeOK'
  <2>1. PassTypes'
    BY <1>10, <1>a DEF PassTypes
  <2> QED BY <1>10, <1>a, <2>1, TypesKept, TypesTogether
<1>11. ASSUME NEW r \in ReadyReasons
       PROVE  setReady(p, r) \in Version
  BY <1>c, SetReadyType
<1>12. /\ yaml \in Configs \cup {""} /\ current \in BOOLEAN /\ pc \in Pcs
       /\ cm \in Contents
  BY <1>a DEF PassTypes, WorldTypes
<1>13. CASE OwnerInPlace \/ Resolve
  BY <1>10, <1>11, <1>12, <1>13, <1>a, <1>c
     DEF OwnerInPlace, Resolve, Goto, Pcs, Saves, ReadyReasons
<1>14. CASE Load
  <2>1. yaml' \in Configs \cup {""}
    BY <1>14, <1>c, <1>12, VersionParts, ConfigsApart DEF Load, Loaded
  <2>2. p' \in {p, setReady(p, "ConfigLoadFailed")} /\ pc' \in {"saveFailed", "fetch", "archived"}
        /\ UNCHANGED <<timer, fresh>>
    BY <1>14, Zenon DEF Load, Goto
  <2> QED BY <1>10, <1>11, <1>12, <1>14, <1>a, <1>c, <2>1, <2>2
     DEF Load, Pcs, Saves, States, ReadyReasons
<1>15. CASE Fetch
  <2>1. faults' \in 0 .. MaxFaults /\ current' \in BOOLEAN
    BY <1>15, <1>a, FaultCounts DEF Fetch
  <2> QED BY <1>10, <1>12, <1>15, <1>c, <2>1 DEF Fetch, Goto, Pcs
<1>16. CASE PutRaced
  BY <1>10, <1>12, <1>16, <1>a, <1>c DEF PutRaced, Goto, Pcs
<1>17. CASE Observe
  <2>1. faults' \in 0 .. MaxFaults
    BY <1>17, <1>a, FaultCounts DEF Observe
  <2> DEFINE found == atc[p.spec.name].config # ""
             w == [p EXCEPT !.status.known = @ \/ found]
  <2>2. w \in Version
    BY <1>c, SetKnownType
  <2>3. p' \in {setReady(w, "Ready"), setReady(p, "Ready")}
    BY <1>17 DEF Observe
  <2> HIDE DEF w
  <2>4. "Ready" \in ReadyReasons
    BY DEF ReadyReasons
  <2>5. p' \in Version
    BY <1>11, <2>2, <2>3, <2>4, SetReadyType
  <2> QED BY <1>10, <1>12, <1>17, <2>1, <2>5 DEF Observe, Goto, Pcs, Saves
\* Steps that change the ATC.
<1>18. ASSUME p' \in Version, pc' \in Pcs,
              UNCHANGED <<timer, fresh, log, queued, yaml, current, cm, team, edits>>,
              atc' \in [Names -> AtcPipeline], faults' \in 0 .. MaxFaults
       PROVE  TypeOK'
  <2>1. PassTypes' /\ WorldTypes'
    BY <1>18, <1>a DEF PassTypes, WorldTypes
  <2> QED BY <1>18, <1>a, <2>1, TypesKept, TypesTogether
<1>19. AtcSets(yaml) => atc' \in [Names -> AtcPipeline]
  BY <1>c, <1>12, AtcSetsEffect
<1>20. CASE Put
  <2>1. [p EXCEPT !.status.hash = yaml] \in Version
    BY <1>c, <1>12, SetHashType
  <2> QED BY <1>18, <1>19, <1>20, <1>a, <2>1 DEF Put, Goto, Pcs, States
<1>21. CASE PutFails
  <2>1. faults' \in 0 .. MaxFaults
    BY <1>21, <1>a, FaultCounts DEF PutFails
  <2> QED BY <1>11, <1>18, <1>19, <1>21, <1>c, <2>1
     DEF PutFails, Goto, Pcs, Saves, ReadyReasons
<1>22. ASSUME NEW f \in States, AtcState(f)
       PROVE  atc' \in [Names -> AtcPipeline]
  BY <1>22, <1>c, AtcStateEffect
<1>23. ASSUME NEW f \in States, Apply(f)
       PROVE  TypeOK'
  <2>1. AfterState[f] \in Pcs
    BY DEF States, AfterState, Pcs
  <2> QED BY <1>18, <1>22, <1>23, <1>a, <1>c, <2>1 DEF Apply, Goto
<1>24. ASSUME NEW f \in States, ApplyFails(f)
       PROVE  TypeOK'
  <2>1. faults' \in 0 .. MaxFaults
    BY <1>24, <1>a, FaultCounts DEF ApplyFails
  <2> QED BY <1>11, <1>18, <1>22, <1>24, <1>c, <2>1
     DEF ApplyFails, Goto, Pcs, Saves, ReadyReasons
<1> QED BY <1>1, <1>3, <1>4, <1>6, <1>7, <1>9, <1>13, <1>14, <1>15, <1>16,
           <1>17, <1>20, <1>21, <1>23, <1>24 DEF Reconcile

\* Every step around Reconcile preserves type correctness.
LEMMA EnvironmentTypes == TypeOK /\ Environment => TypeOK'
<1> SUFFICES ASSUME TypeOK, Environment PROVE TypeOK'
  OBVIOUS
<1> USE DEF crVars, recVars, envVars
<1>a. QueueTypes /\ PassTypes /\ WorldTypes /\ faults \in 0 .. MaxFaults
  BY TypeParts
<1>b. Latest \in Version /\ LogOK(log)
  BY <1>a, LogEnds DEF QueueTypes, Latest
<1>1. CASE Deliver
  <2>1. QueueTypes'
    BY <1>1, <1>a, LogTail DEF Deliver, QueueTypes
  <2> QED BY <1>1, <1>a, <2>1, TypesKept, TypesTogether DEF Deliver
<1>2. CASE TimerFires
  <2>1. QueueTypes'
    BY <1>2, <1>a DEF TimerFires, QueueTypes
  <2> QED BY <1>2, <1>a, <2>1, TypesKept, TypesTogether DEF TimerFires
<1>3. CASE Crash
  <2>1. QueueTypes'
    BY <1>3, <1>b, LogSingle DEF Crash, QueueTypes
  <2>2. PassTypes'
    BY <1>3, NoCopyType DEF Crash, PassTypes, Pcs
  <2>3. faults' \in 0 .. MaxFaults
    BY <1>3, <1>a, FaultCounts DEF Crash
  <2> QED BY <1>3, <1>a, <2>1, <2>2, <2>3, TypesKept, TypesTogether DEF Crash
<1>4. edits < MaxEdits /\ edits' = edits + 1 => edits' \in 0 .. MaxEdits
  BY <1>a, Bounds DEF WorldTypes
<1>5. ASSUME NEW v \in Version, UserWrites(v), edits' \in 0 .. MaxEdits
      PROVE  TypeOK'
  <2>1. QueueTypes'
    BY <1>5, <1>a, <1>b, LogAppend DEF UserWrites, QueueTypes
  <2>2. PassTypes' /\ WorldTypes'
    BY <1>5, <1>a DEF UserWrites, PassTypes, WorldTypes
  <2> QED BY <1>5, <1>a, <2>1, <2>2, TypesTogether DEF UserWrites
<1>6. CASE EditSpec
  <2>1. PICK s \in Specs : UserWrites([Latest EXCEPT !.spec = s, !.gen = @ + 1])
    BY <1>6 DEF EditSpec
  <2>2. [Latest EXCEPT !.spec = s, !.gen = @ + 1] \in Version
    BY <1>b, EditTypes
  <2> QED BY <1>4, <1>5, <1>6, <2>1, <2>2 DEF EditSpec
<1>7. CASE MarkDeleted
  <2>1. PICK l \in {"deleting", "gone"} :
           UserWrites([Latest EXCEPT !.life = l, !.gen = @ + 1])
    BY <1>7 DEF MarkDeleted
  <2>2. [Latest EXCEPT !.life = l, !.gen = @ + 1] \in Version
    BY <1>b, EditTypes
  <2> QED BY <1>4, <1>5, <1>7, <2>1, <2>2 DEF MarkDeleted
<1>8. CASE Recreate
  <2>1. PICK s \in Specs : UserWrites(Created(s, FALSE))
    BY <1>8 DEF Recreate
  <2>2. Created(s, FALSE) \in Version
    BY SpecsAssumption, CreatedType
  <2> QED BY <1>5, <1>8, <1>a, <2>1, <2>2 DEF Recreate, WorldTypes
<1>9. CASE ConfigMapChanges \/ TeamBreaks \/ TeamHeals
  <2>1. WorldTypes' /\ UNCHANGED <<crVars, recVars>>
    BY <1>4, <1>9, <1>a DEF ConfigMapChanges, TeamBreaks, TeamHeals, WorldTypes
  <2>2. faults' \in 0 .. MaxFaults
    BY <1>9, <1>a, FaultCounts DEF ConfigMapChanges, TeamBreaks, TeamHeals
  <2> QED BY <1>a, <2>1, <2>2, TypesKept, TypesTogether
<1>10. CASE OthersSet
  <2>1. p.spec.name \in Names
    BY <1>a, VersionParts DEF PassTypes
  <2>2. atc' \in [Names -> AtcPipeline]
    BY <1>10, <1>a, <2>1, OthersSetEffect DEF OthersSet, WorldTypes
  <2>3. WorldTypes' /\ PassTypes' /\ UNCHANGED crVars
    BY <1>10, <1>a, <2>2 DEF OthersSet, WorldTypes, PassTypes
  <2>4. faults' \in 0 .. MaxFaults
    BY <1>10, <1>a, FaultCounts DEF OthersSet
  <2> QED BY <1>a, <2>3, <2>4, TypesKept, TypesTogether
<1> QED BY <1>1, <1>2, <1>3, <1>6, <1>7, <1>8, <1>9, <1>10 DEF Environment

\* Every step preserves type correctness.
LEMMA NextTypes == TypeOK /\ [Next]_vars => TypeOK'
<1>1. TypeOK /\ UNCHANGED vars => TypeOK'
  BY TypesKept, TypesTogether, TypeParts DEF vars, crVars, recVars, envVars
<1> QED BY <1>1, ReconcileTypes, EnvironmentTypes DEF Next

\* Every reachable state is type correct (TypeOK), whatever the constants.
THEOREM TypeCorrect == Spec => []TypeOK
BY InitTypes, NextTypes, PTL DEF Spec

-----------------------------------------------------------------------------
(***************************************************************************)
(* What Ready promises. A pass that set a config and could not record it   *)
(* leaves the ATC ahead of the status: an edit back to the recorded config *)
(* then finds nothing to apply (NeedsApply). NoWayBack excludes just that   *)
(* edit, and the one that sets a pipelineName; the ConfigMap, the states    *)
(* and suspend may change at will, and the Pipeline may be deleted and      *)
(* created again.                                                          *)
(*                                                                         *)
(* The invariant Sync says, of the stored object, that the ATC has a        *)
(* pipeline once its id is known, the recorded config if that is the one    *)
(* the spec names, and the spec's states if Ready is recorded for the       *)
(* current generation (RecordedOK); of an up-to-date copy, how much of this *)
(* the pass has achieved so far (CopyOK); and of a copy whose object has    *)
(* been edited, that what it still does cannot spoil the stored one         *)
(* (PassOK).                                                               *)
(***************************************************************************)
NoWayBack ==
    EditSpec => /\ Latest'.spec.name = Latest.spec.name
                /\ Latest'.spec.config # Latest.spec.config =>
                      Latest'.spec.config # Latest.status.hash

Before   == {"addFinalizer", "owner", "resolve", "load"}
Applying == {"fetch", "put", "refetch", "reput"}
After    == States \cup {"observe", "saveReady"}
Working  == Before \cup Applying \cup After \cup {"saveFailed"}

Inline(v) == v.spec.config # "configMap"

Known(v) == v.life = "live" /\ v.status.known

Settled(v) == Known(v) /\ v.status.ready = "Ready" /\ v.status.readyGen = v.gen

\* m has the states that spec s asks for.
Match(s, m) == /\ m.paused = s.paused /\ m.exposed = s.exposed
               /\ s.archived => m.archived

\* m is there, with the config of v unless v has still to be applied.
Has(v, m) ==
    Known(v) => /\ m.config # ""
                /\ v.spec.config = v.status.hash => m.config = v.status.hash

RecordedOK ==
    /\ Latest.status.readyGen <= Latest.gen
    /\ Has(Latest, There)
    /\ Settled(Latest) => /\ Match(Latest.spec, There)
                          /\ Inline(Latest) => Latest.spec.config = Latest.status.hash

\* The pipeline the pass works on.
Mine == atc[p.spec.name]

\* How far the pass has come with the config and the states.
Applied ==
    /\ pc \in After => /\ Mine.config # "" /\ p.status.hash = yaml
                       /\ Inline(p) => p.spec.config = yaml /\ Mine.config = yaml
    /\ pc \in After \ {"archived"} => (p.spec.archived => Mine.archived)
    /\ pc \in {"exposed", "observe", "saveReady"} => Mine.paused = p.spec.paused
    /\ pc \in {"observe", "saveReady"} => Mine.exposed = p.spec.exposed

SameObject == p.life = Latest.life /\ p.spec = Latest.spec /\ p.gen = Latest.gen

CopyOK ==
    fresh => SameObject /\ p.status.readyGen <= p.gen /\ Has(p, Mine) /\ Applied

\* set-config is called for a loaded config that differs from the recorded one.
ToApply == /\ NeedsApply(p, yaml) /\ yaml # ""
           /\ Inline(p) => yaml = p.spec.config

\* The pass will find the stored config in place if the spec names it.
Agrees == /\ p.status.known /\ p.status.hash = Latest.status.hash
          /\ Latest.spec.config = Latest.status.hash =>
                p.spec.config = Latest.spec.config

PassOK ==
    /\ pc \in {"delete", "finalize"} => Latest.life = "deleting"
    /\ pc \in Working => p.life = "live"
    /\ pc \in {"saveFailed", "saveSuspended"} => p.status.ready # "Ready"
    /\ pc \in Applying => ToApply
    /\ Known(Latest) /\ pc \in Before => Agrees
    /\ Known(Latest) /\ pc \in Applying => Latest.spec.config # Latest.status.hash
    /\ Settled(Latest) /\ pc # "idle" => fresh

Sync == RecordedOK /\ CopyOK /\ PassOK

\* A step that touches neither the stored object nor the ATC.
LEMMA RecordedKept ==
    ASSUME RecordedOK, Latest' = Latest, UNCHANGED atc
    PROVE  RecordedOK'
BY DEF RecordedOK, There

\* A step that touches neither of them nor the pass.
LEMMA SyncKept ==
    ASSUME Sync, Latest' = Latest, UNCHANGED <<pc, p, yaml, fresh, atc>>
    PROVE  Sync'
<1>1. RecordedOK'
  BY RecordedKept DEF Sync
<1>2. CopyOK'
  BY DEF Sync, CopyOK, SameObject, Applied, Mine
<1>3. PassOK'
  BY DEF Sync, PassOK, ToApply, Agrees
<1> QED BY <1>1, <1>2, <1>3 DEF Sync

\* An idle reconciler has only the stored object to answer for.
LEMMA IdleSync ==
    ASSUME RecordedOK', pc' = "idle", fresh' = FALSE
    PROVE  Sync'
BY DEF Sync, CopyOK, PassOK, Working, Before, Applying, After, States

\* Taking a request keeps Sync.
LEMMA StartSync ==
    ASSUME InformerLag = FALSE, TypeOK, Sync,
           StartSuspended \/ StartDeleting \/ StartLive
    PROVE  Sync'
<1> USE DEF envVars
<1>1. PICK v, next : Start(v, next) /\
         \/ /\ next = "saveSuspended" /\ v = setReady(Cached, "Suspended")
         \/ /\ next = "delete" /\ v = Cached /\ Cached.life = "deleting"
         \/ /\ next \in {"addFinalizer", "owner"} /\ v = Cached
            /\ Cached.life = "live"
  BY DEF StartSuspended, StartDeleting, StartLive
<1>2. /\ UNCHANGED <<log, yaml, atc>> /\ Len(log) = 1
      /\ p' = v /\ pc' = next /\ fresh' = TRUE
  BY <1>1 DEF Start, CacheRead
<1>3. Cached = Latest /\ Latest' = Latest
  BY <1>2 DEF Cached, Latest
<1>4. Latest \in Version
  BY LogEnds, TypeParts DEF QueueTypes, Latest
<1>5. /\ v.life = Latest.life /\ v.spec = Latest.spec /\ v.gen = Latest.gen
      /\ v.status.hash = Latest.status.hash
      /\ v.status.known = Latest.status.known
      /\ v.status.readyGen \in {Latest.status.readyGen, Latest.gen}
      /\ next = "saveSuspended" => v.status.ready = "Suspended"
  <2>1. "Suspended" \in ReadyReasons
    BY DEF ReadyReasons
  <2>2. CASE v = Latest /\ next # "saveSuspended"
    BY <2>2
  <2>3. CASE v = setReady(Latest, "Suspended")
    BY <1>4, <2>1, <2>3, SetReadyType
  <2> QED BY <1>1, <1>3, <2>2, <2>3
<1>6. RecordedOK'
  BY <1>2, <1>3, RecordedKept DEF Sync
<1>7. v.status.readyGen <= v.gen
  <2>1. Latest.gen \in Nat /\ Latest.status.readyGen <= Latest.gen
    BY <1>4, VersionParts DEF Sync, RecordedOK
  <2> QED BY <1>5, <2>1
<1>8. Has(v, atc[v.spec.name])
  BY <1>5 DEF Sync, RecordedOK, There, Has, Known
<1>9. CopyOK'
  <2>1. next \notin After
    BY <1>1 DEF After, States
  <2>2. Applied' /\ SameObject' /\ Has(p, Mine)'
    BY <1>1, <1>2, <1>3, <1>5, <1>8, <2>1 DEF Applied, SameObject, Mine
  <2> QED BY <1>2, <1>7, <2>2 DEF CopyOK
<1>10. PassOK'
  BY <1>1, <1>2, <1>3, <1>5
     DEF PassOK, Agrees, Known, Working, Before, Applying, After, States
<1> QED BY <1>6, <1>9, <1>10 DEF Sync

\* A user's write keeps Sync: an edit or a deletion mark because Ready is
\* recorded for an older generation then, a new Pipeline because nothing is
\* recorded of it.
LEMMA UserSync ==
    ASSUME TypeOK, Sync, NoWayBack, EditSpec \/ MarkDeleted \/ Recreate
    PROVE  Sync'
<1>a. LogOK(log) /\ Latest \in Version
  BY LogEnds, TypeParts DEF QueueTypes, Latest
<1>b. ASSUME NEW v \in Version, UserWrites(v)
      PROVE  Latest' = v /\ fresh' = FALSE /\ UNCHANGED <<pc, p, yaml, atc>>
  BY <1>a, <1>b, LogAppend DEF UserWrites, Latest
<1>c. Latest.status.readyGen \in Nat /\ Latest.gen \in Nat
      /\ Latest.status.readyGen <= Latest.gen
  BY <1>a, VersionParts DEF Sync, RecordedOK
<1>1. CASE EditSpec
  <2>1. PICK s \in Specs : UserWrites([Latest EXCEPT !.spec = s, !.gen = @ + 1])
    BY <1>1 DEF EditSpec
  <2> DEFINE v == [Latest EXCEPT !.spec = s, !.gen = @ + 1]
  <2>2. /\ v \in Version /\ v.status = Latest.status /\ v.life = Latest.life
        /\ v.gen = Latest.gen + 1
    BY <1>a, EditTypes
  <2>3. Latest' = v /\ fresh' = FALSE /\ UNCHANGED <<pc, p, yaml, atc>>
    BY <1>b, <2>1, <2>2
  <2> HIDE DEF v
  <2>4. /\ Latest'.spec.name = Latest.spec.name
        /\ Latest'.spec.config # Latest.spec.config =>
              Latest'.spec.config # Latest.status.hash
    BY <1>1 DEF NoWayBack
  <2>5. Latest'.status.readyGen <= Latest'.gen /\ ~Settled(Latest)'
    BY <1>c, <2>2, <2>3 DEF Settled
  <2>6. RecordedOK'
    BY <2>2, <2>3, <2>4, <2>5 DEF Sync, RecordedOK, Has, Known, There
  <2>7. PassOK'
    <3>1. Known(Latest)' => Known(Latest)
      BY <2>2, <2>3 DEF Known
    <3>2. /\ Known(Latest)' /\ pc \in Before => Agrees'
          /\ Known(Latest)' /\ pc \in Applying =>
                Latest'.spec.config # Latest'.status.hash
      BY <2>2, <2>3, <2>4, <3>1 DEF Sync, PassOK, Agrees
    <3> QED BY <2>2, <2>3, <2>5, <3>2 DEF Sync, PassOK, ToApply
  <2> QED BY <2>3, <2>6, <2>7 DEF Sync, CopyOK
<1>2. CASE MarkDeleted
  <2>1. PICK l \in {"deleting", "gone"} :
           UserWrites([Latest EXCEPT !.life = l, !.gen = @ + 1])
    BY <1>2 DEF MarkDeleted
  <2> DEFINE v == [Latest EXCEPT !.life = l, !.gen = @ + 1]
  <2>2. /\ v \in Version /\ v.status = Latest.status /\ v.life = l
        /\ v.gen = Latest.gen + 1
    BY <1>a, EditTypes
  <2>3. Latest' = v /\ fresh' = FALSE /\ UNCHANGED <<pc, p, yaml, atc>>
    BY <1>b, <2>1, <2>2
  <2> HIDE DEF v
  <2>4. Latest'.status.readyGen <= Latest'.gen /\ ~Known(Latest)' /\ ~Settled(Latest)'
    BY <1>c, <2>2, <2>3 DEF Known, Settled
  <2>5. pc \notin {"delete", "finalize"}
    BY <1>2 DEF MarkDeleted, Sync, PassOK
  <2>6. PassOK'
    BY <2>3, <2>4, <2>5 DEF Sync, PassOK, ToApply
  <2> QED BY <2>3, <2>4, <2>6 DEF Sync, CopyOK, RecordedOK, Has
<1>3. CASE Recreate
  <2>1. PICK s \in Specs : UserWrites(Created(s, FALSE))
    BY <1>3 DEF Recreate
  <2>2. /\ Created(s, FALSE) \in Version /\ Created(s, FALSE).gen = 0
        /\ Created(s, FALSE).status = NoStatus
    BY SpecsAssumption, CreatedType
  <2>3. /\ Latest' = Created(s, FALSE) /\ fresh' = FALSE
        /\ UNCHANGED <<pc, p, yaml, atc>>
    BY <1>b, <2>1, <2>2
  <2>4. Latest'.status.readyGen <= Latest'.gen /\ ~Known(Latest)' /\ ~Settled(Latest)'
    <3>1. Latest'.gen = 0 /\ Latest'.status = NoStatus
      BY <2>2, <2>3
    <3>2. Latest'.status.readyGen = 0 /\ Latest'.status.known = FALSE
      <4>1. NoStatus.readyGen = 0 /\ NoStatus.known = FALSE
        BY DEF NoStatus
      <4> QED BY <3>1, <4>1
    <3> QED BY <3>1, <3>2 DEF Known, Settled
  <2>5. pc \notin {"delete", "finalize"}
    BY <1>3 DEF Recreate, Sync, PassOK
  <2>6. PassOK'
    BY <2>3, <2>4, <2>5 DEF Sync, PassOK, ToApply
  <2> QED BY <2>3, <2>4, <2>6 DEF Sync, CopyOK, RecordedOK, Has
<1> QED BY <1>1, <1>2, <1>3

\* What the writes of Reconcile leave of the stored object's claims. A status
\* makes new ones, which the up-to-date copy has earned.
LEMMA SaveSync ==
    ASSUME TypeOK, Sync, Save
    PROVE  Sync'
<1> USE DEF envVars
<1>a. /\ LogOK(log) /\ Latest \in Version /\ p \in Version
      /\ faults \in 0 .. MaxFaults
  BY LogEnds, TypeParts DEF QueueTypes, PassTypes, Latest
<1> DEFINE v == [Latest EXCEPT !.status = p.status]
<1>1. PICK res \in Results : APIUpdate(v, res) /\ \E rq : Return(rq)
  BY DEF Save
<1>2. UNCHANGED atc /\ pc \in Saves
  BY DEF Save
<1>3. /\ v \in Version /\ v.status = p.status /\ v.life = Latest.life
      /\ v.gen = Latest.gen /\ v.spec = Latest.spec
  BY <1>a, SetStatusType, VersionParts
<1> HIDE DEF v
<1>4. Latest' = Latest \/ (fresh /\ Latest' = v)
  BY <1>1, <1>3, <1>a, UpdateLatest
<1>5. CASE Latest' = Latest
  <2>1. RecordedOK'
    BY <1>2, <1>5, RecordedKept DEF Sync
  <2> QED BY <1>1, <2>1, IdleSync DEF Return
<1>6. CASE fresh /\ Latest' = v
  <2>1. SameObject /\ p.status.readyGen <= p.gen /\ Has(p, Mine) /\ Applied
    BY <1>6 DEF Sync, CopyOK
  <2>2. There' = Mine /\ Latest'.status.readyGen <= Latest'.gen /\ Has(Latest, There)'
    BY <1>2, <1>3, <1>6, <2>1 DEF SameObject, Has, Known, Inline, There, Mine
  <2>3. Settled(Latest)' => /\ Match(Latest.spec, There)'
                            /\ Inline(Latest)' =>
                                  Latest'.spec.config = Latest'.status.hash
    <3>1. CASE pc = "saveReady"
      <4>1. Match(p.spec, Mine) /\ (Inline(p) => p.spec.config = p.status.hash)
        BY <2>1, <3>1 DEF Applied, Match, After, States
      <4> QED BY <1>3, <1>6, <2>1, <2>2, <4>1 DEF SameObject, Inline
    <3>2. CASE pc # "saveReady"
      <4>1. p.status.ready # "Ready"
        BY <1>2, <3>2 DEF Saves, Sync, PassOK
      <4> QED BY <1>3, <1>6, <4>1 DEF Settled
    <3> QED BY <3>1, <3>2
  <2>4. RecordedOK'
    BY <2>2, <2>3 DEF RecordedOK
  <2> QED BY <1>1, <2>4, IdleSync DEF Return
<1> QED BY <1>4, <1>5, <1>6

\* The finalizer goes with the object; the other metadata changes no claim.
LEMMA MetadataSync ==
    ASSUME TypeOK, Sync, RemoveFinalizer \/ AddFinalizer \/ SetOwner
    PROVE  Sync'
<1> USE DEF envVars
<1>a. /\ LogOK(log) /\ Latest \in Version /\ p \in Version
      /\ faults \in 0 .. MaxFaults
  BY LogEnds, TypeParts DEF QueueTypes, PassTypes, Latest
<1>b. UNCHANGED atc
  BY DEF RemoveFinalizer, AddFinalizer, SetOwner, Updated
<1>1. CASE RemoveFinalizer
  <2> DEFINE v == [Latest EXCEPT !.fin = FALSE, !.life = "gone"]
  <2>1. PICK res \in Results : APIUpdate(v, res) /\ \E rq : Return(rq)
    BY <1>1 DEF RemoveFinalizer
  <2>2. v \in Version /\ v.life = "gone" /\ v.status = Latest.status /\ v.gen = Latest.gen
    BY <1>a, FinalizedType
  <2> HIDE DEF v
  <2>3. Latest' = Latest \/ Latest' = v
    BY <1>a, <2>1, <2>2, UpdateLatest
  <2>4. RecordedOK'
    BY <1>b, <2>2, <2>3, RecordedKept DEF Sync, RecordedOK, Has, Settled, Known
  <2> QED BY <2>1, <2>4, IdleSync DEF Return
<1>2. ASSUME NEW v \in Version, NEW w \in Version, NEW next \in {"owner", "resolve"},
             Updated(v, w, next), pc \in Before,
             v.life = Latest.life, v.spec = Latest.spec, v.gen = Latest.gen,
             v.status = Latest.status,
             w.life = p.life, w.spec = p.spec, w.gen = p.gen, w.status = p.status
      PROVE  Sync'
  <2>1. PICK res \in Results :
           /\ APIUpdate(v, res)
           /\ \/ /\ res = "ok" /\ p' = w /\ Goto(next)
                 /\ UNCHANGED <<yaml, current>>
              \/ Return(TRUE)
    BY <1>2 DEF Updated
  <2>2. /\ Latest' = Latest \/ Latest' = v
        /\ res = "ok" => fresh
    BY <1>a, <1>2, <2>1, UpdateLatest
  <2>3. /\ Latest'.life = Latest.life /\ Latest'.spec = Latest.spec
        /\ Latest'.gen = Latest.gen /\ Latest'.status = Latest.status
    BY <1>2, <2>2
  <2>4. RecordedOK'
    <3>1. There' = There
      BY <1>b, <2>3 DEF There
    <3>2. Has(Latest, There)'
      BY <2>3, <3>1 DEF Sync, RecordedOK, Has, Known
    <3>3. Settled(Latest)' => Settled(Latest) /\ (Inline(Latest)' => Inline(Latest))
      BY <2>3 DEF Settled, Known, Inline
    <3>4. Latest.status.readyGen <= Latest.gen
          /\ (Settled(Latest) => /\ Match(Latest.spec, There)
                                 /\ Inline(Latest) =>
                                       Latest.spec.config = Latest.status.hash)
      BY DEF Sync, RecordedOK
    <3> QED BY <2>3, <3>1, <3>2, <3>3, <3>4 DEF RecordedOK
  <2>5. CASE /\ res = "ok" /\ p' = w /\ Goto(next)
             /\ UNCHANGED <<yaml, current>>
    <3>1. fresh /\ fresh' /\ pc' = next
      BY <2>2, <2>5 DEF Goto
    <3>2. pc' \in Before /\ pc' \notin After /\ pc' \notin Applying
          /\ pc' \notin {"delete", "finalize", "saveFailed", "saveSuspended",
                         "exposed", "observe", "saveReady"}
      BY <3>1 DEF Before, After, Applying, States
    <3>3. CopyOK'
      BY <1>b, <1>2, <2>3, <2>5, <3>1, <3>2
         DEF Sync, CopyOK, SameObject, Applied, Has, Known, Mine
    <3>4. Agrees => Agrees'
      BY <1>2, <2>3, <2>5 DEF Agrees
    <3>5. Known(Latest)' = Known(Latest) /\ p'.life = p.life
      BY <1>2, <2>3, <2>5 DEF Known
    <3>6. PassOK'
      BY <1>2, <3>1, <3>2, <3>4, <3>5 DEF Sync, PassOK, Working
    <3> QED BY <2>4, <3>3, <3>6 DEF Sync
  <2>6. CASE Return(TRUE)
    BY <2>4, <2>6, IdleSync DEF Return
  <2> QED BY <2>1, <2>5, <2>6
<1>3. CASE AddFinalizer
  <2>1. Updated([Latest EXCEPT !.fin = TRUE], [p EXCEPT !.fin = TRUE], "owner")
        /\ pc \in Before
    BY <1>3 DEF AddFinalizer, Before
  <2> QED BY <1>2, <1>a, <2>1, MetadataTypes
<1>4. CASE SetOwner
  <2>1. Updated([Latest EXCEPT !.owned = TRUE], [p EXCEPT !.owned = TRUE], "resolve")
        /\ pc \in Before
    BY <1>4 DEF SetOwner, Before
  <2> QED BY <1>2, <1>a, <2>1, MetadataTypes
<1> QED BY <1>1, <1>3, <1>4

\* A pass that fails saves its reason, with nothing achieved to answer for.
LEMMA FailSync ==
    ASSUME TypeOK, Sync, RecordedOK', Latest' = Latest, UNCHANGED fresh,
           pc \in Working, pc' = "saveFailed",
           NEW r \in ReadyReasons \ {"Ready"}, p' = setReady(p, r),
           fresh => Has(p, atc'[p.spec.name])
    PROVE  Sync'
<1>1. p \in Version /\ p.gen \in Nat
  BY TypeParts, VersionParts DEF PassTypes
<1>2. /\ p'.life = p.life /\ p'.spec = p.spec /\ p'.gen = p.gen
      /\ p'.status.hash = p.status.hash /\ p'.status.known = p.status.known
      /\ p'.status.readyGen = p.gen /\ p'.status.ready = r
  BY <1>1, SetReadyType
<1>3. p'.status.readyGen <= p'.gen
  BY <1>1, <1>2
<1>4. pc' \notin After /\ pc' \notin {"exposed", "observe", "saveReady"}
  BY DEF After, States
<1>5. CopyOK'
  <2>1. Applied'
    BY <1>4 DEF Applied
  <2>2. fresh => Has(p, Mine)'
    BY <1>2 DEF Has, Known, Mine
  <2>3. fresh => SameObject'
    BY <1>2 DEF Sync, CopyOK, SameObject
  <2> QED BY <1>3, <2>1, <2>2, <2>3 DEF CopyOK
<1>6. pc # "idle" /\ p.life = "live"
  BY DEF Working, Before, Applying, After, States, Sync, PassOK
<1>7. PassOK'
  <2>1. pc' \notin Applying /\ pc' \notin Before
    BY DEF Applying, Before
  <2>2. Settled(Latest)' => fresh'
    BY <1>6 DEF Sync, PassOK
  <2> QED BY <1>2, <1>6, <2>1, <2>2 DEF PassOK
<1> QED BY <1>5, <1>7 DEF Sync

\* Neither a read of the Team nor a fetch changes a claim.
LEMMA WaitSync ==
    ASSUME TypeOK, Sync, OwnerInPlace \/ Resolve \/ Fetch \/ PutRaced
    PROVE  Sync'
<1> USE DEF envVars
<1>1. UNCHANGED <<log, atc, fresh>> /\ Latest' = Latest
  BY DEF OwnerInPlace, Resolve, Fetch, PutRaced, Goto, Latest
<1>2. RecordedOK'
  BY <1>1, RecordedKept DEF Sync
<1>3. ASSUME UNCHANGED <<p, yaml>>,
             \/ pc \in Before /\ pc' \in Before
             \/ pc \in Applying /\ pc' \in Applying
      PROVE  Sync'
  <2>1. /\ pc \notin After /\ pc' \notin After
        /\ pc \notin {"delete", "finalize", "saveFailed", "saveSuspended",
                      "exposed", "observe", "saveReady", "idle"}
        /\ pc' \notin {"delete", "finalize", "saveFailed", "saveSuspended",
                       "exposed", "observe", "saveReady", "idle"}
    BY <1>3 DEF Before, Applying, After, States
  <2>2. CopyOK'
    BY <1>1, <1>3, <2>1 DEF Sync, CopyOK, SameObject, Applied, Mine
  <2>3. PassOK'
    BY <1>1, <1>3, <2>1 DEF Sync, PassOK, Working, ToApply, Agrees, Before, Applying
  <2> QED BY <1>2, <2>2, <2>3 DEF Sync
<1>4. CASE OwnerInPlace \/ Fetch \/ PutRaced
  BY <1>3, <1>4 DEF OwnerInPlace, Fetch, PutRaced, Goto, Before, Applying
<1>5. CASE Resolve /\ team = "ready"
  BY <1>3, <1>5 DEF Resolve, Goto, Before
<1>6. CASE Resolve /\ team # "ready"
  <2>1. /\ pc = "resolve" /\ pc' = "saveFailed"
        /\ p' = setReady(p, "TeamNotReady")
    BY <1>6 DEF Resolve, Goto
  <2>2. pc \in Working /\ "TeamNotReady" \in ReadyReasons \ {"Ready"}
    BY <2>1 DEF Working, Before, ReadyReasons
  <2>3. fresh => Has(p, atc'[p.spec.name])
    BY <1>1 DEF Sync, CopyOK, Mine
  <2> QED BY <1>1, <1>2, <2>1, <2>2, <2>3, FailSync
<1> QED BY <1>4, <1>5, <1>6

\* Loading the config decides whether it is set. It is not for a config that is
\* in place; it is only when the spec names another one than the recorded.
LEMMA LoadSync ==
    ASSUME TypeOK, Sync, Load
    PROVE  Sync'
<1> USE DEF envVars
<1>a. p \in Version /\ Latest \in Version
  BY LogEnds, TypeParts DEF PassTypes, QueueTypes, Latest
<1>1. UNCHANGED <<log, atc, fresh>> /\ Latest' = Latest /\ pc = "load"
  <2>1. UNCHANGED fresh
    BY Zenon DEF Load, Goto
  <2> QED BY <2>1 DEF Load, Latest
<1>2. RecordedOK'
  BY <1>1, RecordedKept DEF Sync
<1>3. yaml' = Loaded(p)
  BY DEF Load
<1>4. Inline(p) => yaml' = p.spec.config
  BY <1>3 DEF Loaded, Inline
<1>5. p.life = "live" /\ (Known(Latest) => Agrees)
  BY <1>1 DEF Sync, PassOK, Working, Before
<1>6. fresh => SameObject /\ p.status.readyGen <= p.gen /\ Has(p, Mine)
  BY DEF Sync, CopyOK
<1>7. Settled(Latest) => fresh
  BY <1>1 DEF Sync, PassOK
<1>8. CASE yaml' = ""
  <2>1. pc' = "saveFailed" /\ p' = setReady(p, "ConfigLoadFailed")
    BY <1>8 DEF Load, Goto
  <2>2. pc \in Working /\ "ConfigLoadFailed" \in ReadyReasons \ {"Ready"}
    BY <1>1 DEF Working, Before, ReadyReasons
  <2>3. fresh => Has(p, atc'[p.spec.name])
    BY <1>1, <1>6 DEF Mine
  <2> QED BY <1>1, <1>2, <2>1, <2>2, <2>3, FailSync
<1>9. CASE yaml' # "" /\ NeedsApply(p, yaml')
  <2>1. pc' = "fetch" /\ p' = p
    BY <1>9 DEF Load, Goto
  <2>2. pc' \in Applying /\ pc' \in Working /\ pc' \notin After /\ pc' \notin Before
        /\ pc' \notin {"delete", "finalize", "saveFailed", "saveSuspended",
                       "exposed", "observe", "saveReady"}
    BY <2>1 DEF Before, Applying, After, Working, States
  <2>3. ToApply'
    BY <1>4, <1>9, <2>1 DEF ToApply, NeedsApply, Inline
  <2>4. Known(Latest) => Latest.spec.config # Latest.status.hash
    <3> SUFFICES ASSUME Known(Latest), Latest.spec.config = Latest.status.hash
                 PROVE  FALSE
      OBVIOUS
    <3>1. p.status.known /\ p.status.hash = p.spec.config
      BY <1>5 DEF Agrees
    <3>2. Inline(p)
      BY <1>a, <3>1, VersionParts, ConfigsApart DEF Inline
    <3> QED BY <1>4, <1>9, <3>1, <3>2 DEF NeedsApply
  <2>5. CopyOK'
    BY <1>1, <1>6, <2>1, <2>2 DEF CopyOK, SameObject, Applied, Mine
  <2>6. PassOK'
    BY <1>1, <1>5, <1>7, <2>1, <2>2, <2>3, <2>4 DEF PassOK
  <2> QED BY <1>2, <2>5, <2>6 DEF Sync
<1>10. CASE yaml' # "" /\ ~NeedsApply(p, yaml')
  <2>1. pc' = "archived" /\ p' = p
    BY <1>10 DEF Load, Goto
  <2>2. p.status.known /\ p.status.hash = yaml'
    BY <1>10 DEF NeedsApply
  <2>3. fresh => Applied'
    <3> SUFFICES ASSUME fresh PROVE Applied'
      OBVIOUS
    <3>1. Mine.config # "" /\ (p.spec.config = p.status.hash => Mine.config = p.status.hash)
      BY <1>5, <1>6, <2>2 DEF Has, Known
    <3>2. Mine' = Mine
      BY <1>1, <2>1 DEF Mine
    <3> QED BY <1>4, <2>1, <2>2, <3>1, <3>2 DEF Applied, Inline
  <2>4. CopyOK'
    BY <1>1, <1>6, <2>1, <2>3 DEF CopyOK, SameObject, Mine
  <2>5. pc' \notin Applying /\ pc' \notin Before
    BY <2>1 DEF Before, Applying
  <2>6. PassOK'
    BY <1>1, <1>5, <1>7, <2>1, <2>5 DEF PassOK
  <2> QED BY <1>2, <2>4, <2>6 DEF Sync
<1> QED BY <1>8, <1>9, <1>10

\* The pipelineID is recorded of a pipeline that is there.
LEMMA ObserveSync ==
    ASSUME TypeOK, Sync, Observe
    PROVE  Sync'
<1> USE DEF envVars
<1>a. p \in Version
  BY TypeParts DEF PassTypes
<1>1. /\ UNCHANGED <<log, atc, fresh, yaml>> /\ Latest' = Latest
      /\ pc = "observe" /\ pc' = "saveReady"
  BY DEF Observe, Goto, Latest
<1>2. RecordedOK'
  BY <1>1, RecordedKept DEF Sync
<1> DEFINE found == atc[p.spec.name].config # ""
           w == [p EXCEPT !.status.known = @ \/ found]
<1>3. p' \in {setReady(w, "Ready"), setReady(p, "Ready")}
  BY DEF Observe
<1>4. /\ w \in Version /\ w.status.hash = p.status.hash
      /\ w.life = p.life /\ w.spec = p.spec /\ w.gen = p.gen
  BY <1>a, SetKnownType
<1>5. "Ready" \in ReadyReasons
  BY DEF ReadyReasons
<1> HIDE DEF w
<1>6. /\ p'.life = p.life /\ p'.spec = p.spec /\ p'.gen = p.gen
      /\ p'.status.hash = p.status.hash /\ p'.status.readyGen = p.gen
  BY <1>a, <1>3, <1>4, <1>5, SetReadyType
<1>7. p'.status.readyGen <= p'.gen
  <2>1. p.gen \in Nat
    BY <1>a, VersionParts
  <2> QED BY <1>6, <2>1
<1>8. Mine' = Mine
  BY <1>1, <1>6 DEF Mine
<1>9. fresh => SameObject' /\ Applied' /\ Has(p, Mine)'
  <2> SUFFICES ASSUME fresh PROVE SameObject' /\ Applied' /\ Has(p, Mine)'
    OBVIOUS
  <2>1. SameObject /\ Applied
    BY DEF Sync, CopyOK
  <2>2. /\ Mine.config # "" /\ p.status.hash = yaml
        /\ Inline(p) => p.spec.config = yaml /\ Mine.config = yaml
        /\ p.spec.archived => Mine.archived
        /\ Mine.paused = p.spec.paused /\ Mine.exposed = p.spec.exposed
    BY <1>1, <2>1 DEF Applied, After
  <2>3. p.spec.config = p.status.hash => Inline(p)
    BY <1>a, VersionParts, ConfigsApart DEF Inline
  <2>4. Has(p, Mine)'
    BY <1>6, <1>8, <2>2, <2>3 DEF Has
  <2>5. Applied'
    BY <1>1, <1>6, <1>8, <2>2 DEF Applied, Inline
  <2> QED BY <1>1, <1>6, <2>1, <2>4, <2>5 DEF SameObject
<1>10. CopyOK'
  BY <1>1, <1>7, <1>9 DEF CopyOK
<1>11. PassOK'
  <2>1. pc' \notin Applying /\ pc' \notin Before
    BY <1>1 DEF Before, Applying
  <2>2. p.life = "live" /\ (Settled(Latest) => fresh)
    BY <1>1 DEF Sync, PassOK, Working, After
  <2> QED BY <1>1, <1>6, <2>1, <2>2 DEF PassOK
<1> QED BY <1>2, <1>10, <1>11 DEF Sync

\* Setting a config of whatever client keeps what is recorded and what an
\* up-to-date copy has: it is set only when the spec names another config than
\* the recorded one, and the states of a pipeline that is there stay.
LEMMA ConfigSet ==
    ASSUME TypeOK, Sync, pc \in Applying, Latest' = Latest,
           NEW c, c # "", atc'[p.spec.name].config = c,
           atc'[p.spec.name].archived = Mine.archived,
           atc'[p.spec.name].exposed = Mine.exposed,
           Mine.config # "" => atc'[p.spec.name].paused = Mine.paused,
           \A n \in Names \ {p.spec.name} : atc'[n] = atc[n]
    PROVE  RecordedOK' /\ (fresh => Has(p, atc'[p.spec.name]))
<1>a. p \in Version /\ Latest \in Version
  BY LogEnds, TypeParts DEF PassTypes, QueueTypes, Latest
<1>1. Latest.spec.name \in Names
  BY <1>a, VersionParts
<1>2. There' = atc'[Latest.spec.name]
  BY DEF There
<1>3. RecordedOK'
  <2>1. CASE Latest.spec.name = p.spec.name
    <3>1. There = Mine
      BY <2>1 DEF There, Mine
    <3>2. Known(Latest) => Latest.spec.config # Latest.status.hash
      BY DEF Sync, PassOK
    <3>3. Has(Latest, There')
      BY <1>2, <2>1, <3>2 DEF Has
    <3>4. Settled(Latest) => Match(Latest.spec, There')
      <4>1. Settled(Latest) => There.config # "" /\ Match(Latest.spec, There)
        BY DEF Sync, RecordedOK, Has, Settled
      <4> QED BY <1>2, <2>1, <3>1, <4>1 DEF Match
    <3> QED BY <3>3, <3>4 DEF Sync, RecordedOK
  <2>2. CASE Latest.spec.name # p.spec.name
    <3>1. There' = There
      BY <1>1, <1>2, <2>2 DEF There
    <3> QED BY <3>1 DEF Sync, RecordedOK
  <2> QED BY <2>1, <2>2
<1>4. Has(p, atc'[p.spec.name])
  <2>1. p.spec.config = p.status.hash => Inline(p)
    BY <1>a, VersionParts, ConfigsApart DEF Inline
  <2>2. ToApply
    BY DEF Sync, PassOK
  <2>3. p.status.known => p.spec.config # p.status.hash
    BY <2>1, <2>2 DEF ToApply, NeedsApply
  <2> QED BY <2>3 DEF Has, Known
<1> QED BY <1>3, <1>4

\* The operator's own set-config, whether its answer arrives or not.
LEMMA PutSync ==
    ASSUME TypeOK, Sync, Put \/ PutFails
    PROVE  Sync'
<1>a. /\ p \in Version /\ atc \in [Names -> AtcPipeline]
      /\ yaml \in Configs \cup {""}
  BY TypeParts DEF PassTypes, WorldTypes
<1>1. /\ UNCHANGED <<log, fresh, yaml>> /\ Latest' = Latest
      /\ pc \in Applying
  BY DEF Put, PutFails, Goto, Latest, Applying
<1>2. ToApply /\ p.life = "live" /\ (Settled(Latest) => fresh)
  BY <1>1 DEF Sync, PassOK, Working, Applying
<1>3. AtcSets(yaml) => /\ RecordedOK' /\ (fresh => Has(p, atc'[p.spec.name]))
                       /\ atc'[p.spec.name].config = yaml
  <2> SUFFICES ASSUME AtcSets(yaml)
               PROVE  /\ RecordedOK' /\ (fresh => Has(p, atc'[p.spec.name]))
                      /\ atc'[p.spec.name].config = yaml
    OBVIOUS
  <2>1. yaml # ""
    BY <1>2 DEF ToApply
  <2>2. /\ atc'[p.spec.name].config = yaml
        /\ atc'[p.spec.name].archived = Mine.archived
        /\ atc'[p.spec.name].exposed = Mine.exposed
        /\ Mine.config # "" => atc'[p.spec.name].paused = Mine.paused
        /\ \A n \in Names \ {p.spec.name} : atc'[n] = atc[n]
    BY <1>a, AtcSetsEffect DEF Mine
  <2> QED BY <1>1, <2>1, <2>2, ConfigSet
<1>4. CASE Put
  <2>1. AtcSets(yaml) /\ pc' = "archived" /\ p' = [p EXCEPT !.status.hash = yaml]
    BY <1>4 DEF Put, Goto
  <2>2. /\ p'.status.hash = yaml /\ p'.status.known = p.status.known
        /\ p'.status.readyGen = p.status.readyGen
        /\ p'.life = p.life /\ p'.spec = p.spec /\ p'.gen = p.gen
    BY <1>a, <2>1, SetHashType
  <2>3. Mine'.config = yaml /\ yaml # ""
    BY <1>2, <1>3, <2>1, <2>2 DEF Mine, ToApply
  <2>4. Has(p, Mine)'
    BY <2>2, <2>3 DEF Has
  <2>5. Applied'
    BY <1>1, <1>2, <2>1, <2>2, <2>3 DEF Applied, ToApply, Inline
  <2>6. CopyOK'
    BY <1>1, <2>2, <2>4, <2>5 DEF Sync, CopyOK, SameObject
  <2>7. pc' \notin Applying /\ pc' \notin Before
    BY <2>1 DEF Before, Applying
  <2>8. PassOK'
    BY <1>1, <1>2, <2>1, <2>2, <2>7 DEF PassOK
  <2> QED BY <1>3, <2>1, <2>6, <2>8 DEF Sync
<1>5. CASE PutFails
  <2>1. /\ pc' = "saveFailed" /\ p' = setReady(p, "SetPipelineFailed")
        /\ UNCHANGED atc \/ AtcSets(yaml)
    BY <1>5 DEF PutFails, Goto
  <2>2. RecordedOK' /\ (fresh => Has(p, atc'[p.spec.name]))
    BY <1>1, <1>3, <2>1, RecordedKept DEF Sync, CopyOK, Mine
  <2>3. pc \in Working /\ "SetPipelineFailed" \in ReadyReasons \ {"Ready"}
    BY <1>1 DEF Working, ReadyReasons
  <2> QED BY <1>1, <2>1, <2>2, <2>3, FailSync
<1> QED BY <1>4, <1>5

\* Another client's set-config.
LEMMA OthersSync ==
    ASSUME TypeOK, Sync, OthersSet
    PROVE  Sync'
<1> USE DEF crVars
<1>a. p \in Version /\ atc \in [Names -> AtcPipeline]
  BY TypeParts DEF PassTypes, WorldTypes
<1>1. /\ UNCHANGED <<log, pc, p, yaml, fresh>> /\ Latest' = Latest
      /\ pc \in Applying
  BY DEF OthersSet, Latest, Applying
<1>2. /\ atc'[p.spec.name].config = Foreign
      /\ atc'[p.spec.name].archived = Mine.archived
      /\ atc'[p.spec.name].exposed = Mine.exposed
      /\ atc'[p.spec.name].paused = Mine.paused
      /\ \A n \in Names \ {p.spec.name} : atc'[n] = atc[n]
  <2>1. p.spec.name \in Names
    BY <1>a, VersionParts
  <2> QED BY <1>a, <2>1, OthersSetEffect DEF OthersSet, Mine
<1>3. Foreign # ""
  BY DEF Foreign
<1>4. RecordedOK' /\ (fresh => Has(p, Mine)')
  BY <1>1, <1>2, <1>3, ConfigSet DEF Mine
<1>5. pc' \notin After /\ pc' \notin {"exposed", "observe", "saveReady"}
  BY <1>1 DEF Applying, After, States
<1>b. Applied'
  BY <1>5 DEF Applied
<1>6. CopyOK'
  BY <1>1, <1>4, <1>b DEF Sync, CopyOK, SameObject
<1>7. PassOK'
  BY <1>1 DEF Sync, PassOK, ToApply, Agrees
<1> QED BY <1>4, <1>6, <1>7 DEF Sync

\* The states a pass requests are those of the stored spec as long as Ready is
\* recorded for it, and its own otherwise.
LEMMA ApplySync ==
    ASSUME TypeOK, Sync, NEW f \in States, Apply(f) \/ ApplyFails(f)
    PROVE  Sync'
<1>a. /\ p \in Version /\ atc \in [Names -> AtcPipeline]
      /\ Latest \in Version
  BY LogEnds, TypeParts DEF PassTypes, QueueTypes, WorldTypes, Latest
<1>1. /\ UNCHANGED <<log, fresh, yaml>> /\ Latest' = Latest /\ pc = f
  BY DEF Apply, ApplyFails, Goto, Latest
<1>2. /\ f \in {"archived", "paused", "exposed"} /\ f \in After /\ f \in Working
      /\ f # "idle"
  BY DEF States, After, Working
<1>3. p.life = "live" /\ (Settled(Latest) => fresh)
  BY <1>1, <1>2 DEF Sync, PassOK
<1>4. ASSUME AtcState(f)
      PROVE  LET old == Mine
                 new == atc'[p.spec.name]
             IN  /\ new.config = old.config
                 /\ \A n \in Names \ {p.spec.name} : atc'[n] = atc[n]
                 /\ f = "archived" =>
                       /\ new.paused = old.paused /\ new.exposed = old.exposed
                       /\ old.archived => new.archived
                       /\ old.config # "" /\ p.spec.archived => new.archived
                 /\ f = "paused" =>
                       /\ new.archived = old.archived /\ new.exposed = old.exposed
                       /\ old.config # "" => new.paused = p.spec.paused
                 /\ f = "exposed" =>
                       /\ new.archived = old.archived /\ new.paused = old.paused
                       /\ old.config # "" => new.exposed = p.spec.exposed
  BY <1>a, <1>4, AtcStateEffect DEF Mine
<1>5. ASSUME AtcState(f)
      PROVE  RecordedOK'
  <2>1. There' = atc'[Latest.spec.name] /\ Latest.spec.name \in Names
    BY <1>1, <1>a, VersionParts DEF There
  <2>2. CASE Latest.spec.name = p.spec.name
    <3>1. There = Mine /\ There'.config = There.config
      BY <1>4, <1>5, <2>1, <2>2 DEF There, Mine
    <3>2. Has(Latest, There')
      BY <3>1 DEF Sync, RecordedOK, Has
    <3>3. Settled(Latest) => Match(Latest.spec, There')
      <4> SUFFICES ASSUME Settled(Latest) PROVE Match(Latest.spec, There')
        OBVIOUS
      <4>1. p.spec = Latest.spec
        BY <1>3 DEF Sync, CopyOK, SameObject
      <4>2. Match(p.spec, Mine) /\ Mine.config # ""
        BY <3>1, <4>1 DEF Sync, RecordedOK, Has, Settled
      <4> QED BY <1>2, <1>4, <1>5, <2>1, <4>1, <4>2 DEF Match
    <3> QED BY <1>1, <3>2, <3>3 DEF Sync, RecordedOK
  <2>3. CASE Latest.spec.name # p.spec.name
    <3>1. There' = There
      BY <1>4, <1>5, <2>1, <2>3 DEF There
    <3> QED BY <1>1, <3>1 DEF Sync, RecordedOK
  <2> QED BY <2>2, <2>3
<1>6. ASSUME AtcState(f)
      PROVE  fresh => Has(p, atc'[p.spec.name])
  BY <1>4, <1>6 DEF Sync, CopyOK, Has
<1>7. CASE Apply(f)
  <2>1. AtcState(f) /\ pc' = AfterState[f] /\ p' = p
    BY <1>7 DEF Apply, Goto
  <2>2. fresh => Applied'
    <3> SUFFICES ASSUME fresh PROVE Applied'
      OBVIOUS
    <3>1. Applied
      BY DEF Sync, CopyOK
    <3>2. /\ Mine.config # "" /\ p.status.hash = yaml
          /\ Inline(p) => p.spec.config = yaml /\ Mine.config = yaml
      BY <1>1, <1>2, <3>1 DEF Applied
    <3>3. Mine' = atc'[p.spec.name] /\ Mine'.config = Mine.config
      BY <1>4, <2>1 DEF Mine
    <3>4. CASE f = "archived"
      <4>1. pc' = "paused" /\ (p.spec.archived => Mine'.archived)
        BY <1>4, <2>1, <3>2, <3>3, <3>4 DEF AfterState
      <4> QED BY <1>1, <2>1, <3>2, <3>3, <4>1 DEF Applied
    <3>5. CASE f = "paused"
      <4>1. pc' = "exposed" /\ (p.spec.archived => Mine'.archived)
            /\ Mine'.paused = p.spec.paused
        BY <1>1, <1>2, <1>4, <2>1, <3>1, <3>2, <3>3, <3>5 DEF AfterState, Applied
      <4> QED BY <1>1, <2>1, <3>2, <3>3, <4>1 DEF Applied
    <3>6. CASE f = "exposed"
      <4>1. pc' = "observe" /\ (p.spec.archived => Mine'.archived)
            /\ Mine'.paused = p.spec.paused /\ Mine'.exposed = p.spec.exposed
        BY <1>1, <1>2, <1>4, <2>1, <3>1, <3>2, <3>3, <3>6 DEF AfterState, Applied
      <4> QED BY <1>1, <2>1, <3>2, <3>3, <4>1 DEF Applied
    <3> QED BY <1>2, <3>4, <3>5, <3>6
  <2>3. CopyOK'
    BY <1>1, <1>6, <2>1, <2>2 DEF Sync, CopyOK, SameObject, Mine
  <2>4. /\ pc' \in {"paused", "exposed", "observe"}
        /\ pc' \notin Applying /\ pc' \notin Before
    BY <1>2, <2>1 DEF AfterState, Before, Applying
  <2>5. PassOK'
    BY <1>1, <1>3, <2>1, <2>4 DEF PassOK
  <2> QED BY <1>5, <2>1, <2>3, <2>5 DEF Sync
<1>8. CASE ApplyFails(f)
  <2>1. /\ pc' = "saveFailed" /\ p' = setReady(p, "StateFailed")
        /\ UNCHANGED atc \/ AtcState(f)
    BY <1>8 DEF ApplyFails, Goto
  <2>2. RecordedOK' /\ (fresh => Has(p, atc'[p.spec.name]))
    BY <1>1, <1>5, <1>6, <2>1, RecordedKept DEF Sync, CopyOK, Mine
  <2>3. "StateFailed" \in ReadyReasons \ {"Ready"}
    BY DEF ReadyReasons
  <2> QED BY <1>1, <1>2, <2>1, <2>2, <2>3, FailSync
<1> QED BY <1>7, <1>8

\* The pipeline is deleted only for a CR that is being deleted.
LEMMA DeleteSync ==
    ASSUME TypeOK, Sync, Delete
    PROVE  Sync'
<1>1. /\ UNCHANGED <<log, fresh, p, yaml>> /\ Latest' = Latest
      /\ pc = "delete" /\ pc' = "finalize"
  BY DEF Delete, Goto, Latest
<1>2. Latest.life = "deleting"
  BY <1>1 DEF Sync, PassOK
<1>3. ~Known(Latest) /\ ~Settled(Latest)
  BY <1>2 DEF Known, Settled
<1>4. RecordedOK'
  BY <1>1, <1>3 DEF Sync, RecordedOK, Has
<1>5. CopyOK'
  <2>1. Applied'
    BY <1>1 DEF Applied, After, States
  <2>2. fresh => SameObject /\ p.status.readyGen <= p.gen /\ ~Known(p)
    BY <1>2 DEF Sync, CopyOK, SameObject, Known
  <2> QED BY <1>1, <2>1, <2>2 DEF CopyOK, SameObject, Has
<1>6. PassOK'
  BY <1>1, <1>2, <1>3 DEF PassOK, Working, Before, Applying, After, States
<1> QED BY <1>4, <1>5, <1>6 DEF Sync

\* Every step without an edit back keeps Sync.
LEMMA NextSync ==
    ASSUME InformerLag = FALSE, TypeOK, Sync, [Next]_vars, [NoWayBack]_vars
    PROVE  Sync'
<1> USE DEF crVars, recVars, envVars
<1>1. CASE UNCHANGED vars
  BY <1>1, SyncKept DEF vars, Latest
<1>2. CASE StartNothing
  BY <1>2, SyncKept DEF StartNothing, Latest
<1>3. CASE Reconcile
  BY <1>2, <1>3, StartSync, SaveSync, MetadataSync, WaitSync, LoadSync,
     ObserveSync, PutSync, ApplySync, DeleteSync DEF Reconcile
<1>4. CASE Deliver
  <2>1. Latest' = Latest
    BY <1>4, LogTail, TypeParts DEF Deliver, QueueTypes, Latest
  <2> QED BY <1>4, <2>1, SyncKept DEF Deliver
<1>5. CASE TimerFires \/ ConfigMapChanges \/ TeamBreaks \/ TeamHeals
  BY <1>5, SyncKept DEF TimerFires, ConfigMapChanges, TeamBreaks, TeamHeals, Latest
<1>6. CASE Crash
  <2>1. Latest \in Version
    BY LogEnds, TypeParts DEF QueueTypes, Latest
  <2>2. Latest' = Latest
    BY <1>6, <2>1, LogSingle DEF Crash, Latest
  <2>3. RecordedOK'
    BY <1>6, <2>2, RecordedKept DEF Crash, Sync
  <2> QED BY <1>6, <2>3, IdleSync DEF Crash
<1>7. CASE EditSpec \/ MarkDeleted \/ Recreate
  <2>1. CASE UNCHANGED vars
    BY <1>1, <2>1
  <2>2. CASE NoWayBack
    BY <1>7, <2>2, UserSync
  <2> QED BY <2>1, <2>2
<1>8. CASE Environment
  BY <1>4, <1>5, <1>6, <1>7, <1>8, OthersSync DEF Environment
<1> QED BY <1>1, <1>3, <1>8 DEF Next

\* With an informer cache that is up to date when it is read, and as long as no
\* edit sets a pipelineName or goes back to the inline config whose hash the
\* status records, Ready=True for the current generation means that the ATC has
\* the Pipeline's inline config and its states (ReadyInSync), for any number of
\* edits, deletions, recreations, failed and lost requests, races, restarts and
\* changes of the ConfigMap.
THEOREM ReadyMeansInSync ==
    ASSUME InformerLag = FALSE
    PROVE  Spec /\ [][NoWayBack]_vars => []ReadyInSync
<1>1. Init => Sync
  <2> SUFFICES ASSUME Init PROVE Sync
    OBVIOUS
  <2>1. PICK s \in Specs, o \in BOOLEAN : log = <<Created(s, o)>>
    BY DEF Init
  <2>2. Latest = Created(s, o)
    BY <2>1 DEF Latest
  <2>3. Latest.gen = 0 /\ Latest.status = NoStatus
    BY <2>2, CreatedType, SpecsAssumption
  <2>4. NoStatus.readyGen = 0 /\ NoStatus.known = FALSE
    BY DEF NoStatus
  <2>5. Latest.status.readyGen = 0 /\ Latest.status.known = FALSE
    BY <2>3, <2>4
  <2>6. RecordedOK
    <3>1. ~ Known(Latest)
      BY <2>5 DEF Known
    <3>2. Latest.status.readyGen <= Latest.gen
      BY <2>3, <2>5
    <3> QED BY <3>1, <3>2 DEF RecordedOK, Has, Settled
  <2>7. pc = "idle" /\ fresh = FALSE
    BY DEF Init
  <2> QED BY <2>6, <2>7
     DEF Sync, CopyOK, PassOK, Working, Before, Applying, After, States
<1>2. TypeOK /\ Sync /\ [Next]_vars /\ [NoWayBack]_vars => Sync'
  BY NextSync
<1>3. Sync => ReadyInSync
  BY DEF Sync, RecordedOK, Has, Settled, Known, Inline, Match, ReadyInSync, StatesMatch
<1> QED BY TypeCorrect, <1>1, <1>2, <1>3, PTL DEF Spec

=============================================================================
