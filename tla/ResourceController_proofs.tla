---------------------- MODULE ResourceController_proofs ----------------------
(***************************************************************************)
(* Proofs about ResourceController, for every number of versions, every    *)
(* set of comments, specs and faults, every bound, and with or without     *)
(* informer lag unless a theorem says otherwise.                           *)
(***************************************************************************)
EXTENDS ResourceController, Reconciler_proofs, FiniteSetTheorems

-----------------------------------------------------------------------------
(***************************************************************************)
(* The least element of a set of naturals.                                 *)
(***************************************************************************)
\* A non-empty set of naturals has a least element, and Min is it: of the
\* intervals that end in an element, one holds no other.
LEMMA MinOf ==
    ASSUME NEW S \in SUBSET Nat, S # {}
    PROVE  Min(S) \in S /\ \A y \in S : Min(S) <= y
<1> DEFINE T == {1 .. x : x \in S}
           R == StrictSubsetOrdering(Nat)
<1>1. T \subseteq FiniteSubsetsOf(Nat) /\ T # {}
  <2>1. \A x \in S : 1 .. x \in FiniteSubsetsOf(Nat)
    <3> TAKE x \in S
    <3>1. IsFiniteSet(1 .. x)
      BY FS_Interval
    <3> QED BY <3>1 DEF FiniteSubsetsOf
  <2> QED BY <2>1
<1>2. IsWellFoundedOn(R, FiniteSubsetsOf(Nat))
  BY FS_StrictSubsetOrderingWellFounded
<1>3. \E t \in T : \A u \in T : <<u, t>> \notin R
  <2> HIDE DEF T, R
  <2> QED BY <1>1, <1>2, WFMin
<1>4. PICK x \in S : \A y \in S : <<1 .. y, 1 .. x>> \notin R
  BY <1>3
<1>5. \A y \in S : x <= y
  <2> SUFFICES ASSUME NEW y \in S, ~(x <= y) PROVE FALSE
    OBVIOUS
  <2>1. 1 .. y \subseteq 1 .. x /\ x \in 1 .. x /\ x \notin 1 .. y
    OBVIOUS
  <2>2. <<1 .. y, 1 .. x>> \in R
    BY <2>1 DEF StrictSubsetOrdering
  <2> QED BY <1>4, <2>2
<1> QED BY <1>5 DEF Min

-----------------------------------------------------------------------------
(***************************************************************************)
(* Types of what Reconcile and users write.                                *)
(***************************************************************************)
\* The parts of a version.
LEMMA VersionParts ==
    ASSUME NEW v \in Version
    PROVE  /\ v.spec \in Spec_ /\ v.status \in Status /\ v.gen \in Nat
           /\ v.spec.disabled \subseteq Versions /\ v.status.tracked \subseteq Versions
           /\ v.status.readyGen \in Nat
           /\ v.spec.pin \in {NoVersion} \cup Versions
           /\ v.spec.comment \in {""} \cup Comments
BY DEF Version, Status, Spec_

\* A status written into a version leaves the rest of it.
LEMMA StatusWritten ==
    ASSUME NEW v \in Version, NEW s \in Status
    PROVE  /\ [v EXCEPT !.status = s] \in Version
           /\ [v EXCEPT !.status = s].spec = v.spec
           /\ [v EXCEPT !.status = s].gen = v.gen
           /\ [v EXCEPT !.status = s].status = s
BY DEF Version

\* A Ready condition is set at the version's generation.
LEMMA SetReadyType ==
    ASSUME NEW v \in Version, NEW r \in ReadyReasons
    PROVE  /\ setReady(v, r) \in Version
           /\ setReady(v, r).spec = v.spec /\ setReady(v, r).gen = v.gen
           /\ setReady(v, r).status.tracked = v.status.tracked
           /\ setReady(v, r).status.checked = v.status.checked
           /\ setReady(v, r).status.ready = r
           /\ setReady(v, r).status.readyGen = v.gen
BY DEF setReady, Version, Status

\* The pin in a status is a version or none.
LEMMA PinnedType ==
    ASSUME NEW v \in Version, NEW id \in {NoVersion} \cup Versions
    PROVE  /\ pinnedTo(v, id) \in Version
           /\ pinnedTo(v, id).spec = v.spec /\ pinnedTo(v, id).gen = v.gen
           /\ pinnedTo(v, id).status.tracked = v.status.tracked
           /\ [v EXCEPT !.status.pinned = TRUE] \in Version
           /\ [v EXCEPT !.status.pinned = TRUE].spec = v.spec
           /\ [v EXCEPT !.status.pinned = TRUE].gen = v.gen
           /\ [v EXCEPT !.status.pinned = TRUE].status.tracked = v.status.tracked
<1> DEFINE b == id # NoVersion
<1>1. b \in BOOLEAN
  OBVIOUS
<1> HIDE DEF b
<1>2. /\ [v EXCEPT !.status.pinned = b, !.status.pinnedID = id] \in Version
      /\ [v EXCEPT !.status.pinned = b, !.status.pinnedID = id].spec = v.spec
      /\ [v EXCEPT !.status.pinned = b, !.status.pinnedID = id].gen = v.gen
      /\ [v EXCEPT !.status.pinned = b, !.status.pinnedID = id].status.tracked
            = v.status.tracked
  BY <1>1 DEF Version, Status
<1>3. /\ [v EXCEPT !.status.pinned = TRUE] \in Version
      /\ [v EXCEPT !.status.pinned = TRUE].spec = v.spec
      /\ [v EXCEPT !.status.pinned = TRUE].gen = v.gen
      /\ [v EXCEPT !.status.pinned = TRUE].status.tracked = v.status.tracked
  BY DEF Version, Status
<1> QED BY <1>2, <1>3 DEF pinnedTo, b

\* What syncDisabledVersions records is the list of the spec.
LEMMA TrackedType ==
    ASSUME NEW v \in Version
    PROVE  /\ [v EXCEPT !.status.tracked = NewTracked(v)] \in Version
           /\ [v EXCEPT !.status.tracked = NewTracked(v)].spec = v.spec
           /\ [v EXCEPT !.status.tracked = NewTracked(v)].gen = v.gen
           /\ [v EXCEPT !.status.tracked = NewTracked(v)].status.tracked = v.spec.disabled
<1>1. NewTracked(v) = v.spec.disabled /\ v.spec.disabled \in SUBSET Versions
  BY VersionParts DEF NewTracked
<1> HIDE DEF NewTracked
<1> QED BY <1>1 DEF Version, Status

\* What users write.
LEMMA UserVersions ==
    ASSUME NEW v \in Version, NEW s \in Spec_, NEW life \in {"deleting", "gone"}
    PROVE  /\ [v EXCEPT !.spec = s, !.gen = @ + 1] \in Version
           /\ [v EXCEPT !.spec = s, !.gen = @ + 1].status = v.status
           /\ [v EXCEPT !.spec = s, !.gen = @ + 1].gen = v.gen + 1
           /\ [v EXCEPT !.life = life] \in Version
           /\ [v EXCEPT !.life = life].spec = v.spec
           /\ [v EXCEPT !.life = life].gen = v.gen
           /\ [v EXCEPT !.life = life].status = v.status
           /\ [v EXCEPT !.owned = TRUE] \in Version
           /\ [v EXCEPT !.owned = TRUE].spec = v.spec
           /\ [v EXCEPT !.owned = TRUE].gen = v.gen
           /\ [v EXCEPT !.owned = TRUE].status = v.status
<1> DEFINE g == v.gen + 1
<1>1. g \in Nat
  BY DEF Version
<1> HIDE DEF g
<1>2. /\ [v EXCEPT !.spec = s, !.gen = g] \in Version
      /\ [v EXCEPT !.spec = s, !.gen = g].status = v.status
      /\ [v EXCEPT !.spec = s, !.gen = g].gen = g
  BY <1>1 DEF Version
<1>3. /\ [v EXCEPT !.life = life] \in Version
      /\ [v EXCEPT !.life = life].spec = v.spec
      /\ [v EXCEPT !.life = life].gen = v.gen
      /\ [v EXCEPT !.life = life].status = v.status
  BY DEF Version
<1>4. /\ [v EXCEPT !.owned = TRUE] \in Version
      /\ [v EXCEPT !.owned = TRUE].spec = v.spec
      /\ [v EXCEPT !.owned = TRUE].gen = v.gen
      /\ [v EXCEPT !.owned = TRUE].status = v.status
  BY DEF Version
<1> QED BY <1>2, <1>3, <1>4 DEF g

\* A new Resource.
LEMMA CreatedType ==
    ASSUME NEW s \in Specs
    PROVE  Created(s) \in Version /\ Created(s).status = NoStatus
<1>1. s \in Spec_
  BY SpecsAssumption DEF SpecsAssumption
<1>2. NoStatus \in Status
  BY DEF NoStatus, Status, ReadyReasons
<1> QED BY <1>1, <1>2 DEF Created, Version

-----------------------------------------------------------------------------
(***************************************************************************)
(* The inductive invariant.                                                *)
(***************************************************************************)
ReadyNow == Latest.status.ready = "Ready" /\ Latest.status.readyGen = Latest.gen

\* The steps of a pass up to the last request about a version, the ones that change
\* versions, and the ones after it.
Syncing == {"owner", "resolve", "readPin", "unpin", "comment", "pin", "pinVersion",
            "lookup", "disable", "enable"}

Changing == {"disable", "enable"}

Concluding == {"check", "fetch", "saveReady"}

\* What Reconcile's copy says: as long as it is not stale, every version that can
\* be read has its spec; Ready=True is only reported with the spec's list as the
\* tracked one; and if the server reports Ready=True at its generation the whole
\* time, the pass works on that spec, however old the version it has read.
CopyOK ==
    pc # "idle" =>
        /\ cr \in Version
        /\ fresh => /\ cr.spec = Latest.spec /\ cr.gen = Latest.gen
                    /\ \A u \in Readable : u.spec = Latest.spec
        /\ ReadyNow => cr.spec = Latest.spec
        /\ pc \in Saves => cr.status.readyGen = cr.gen
        /\ pc \in Saves /\ cr.status.ready = "Ready" => pc = "saveReady"
        /\ pc \in Concluding => cr.status.tracked = cr.spec.disabled

\* No generation is Ready before it is there; when the current one is, every
\* version that can be read has its spec, and its list is the tracked one.
StoredOK ==
    /\ Latest.status.readyGen <= Latest.gen
    /\ ReadyNow => /\ \A u \in Readable : u.spec = Latest.spec
                   /\ Latest.status.tracked = Latest.spec.disabled

\* The stored status tracks the versions the operator keeps disabled, apart from
\* what slipped and what the pass under way has changed; and what it has changed is
\* as its spec says.
RecordOK ==
    /\ \A v \in Versions \ (slipped \cup told) :
           v \in mine <=> v \in Latest.status.tracked
    /\ pc = "idle" => told = {}
    /\ pc # "idle" => \A v \in told : v \in mine <=> v \in cr.spec.disabled

\* How far the pass under way is: what it has done; and once it is through, what it
\* has not changed was right already, unless the version it read is stale.
PassOK ==
    /\ pc \notin Changing => done = {}
    /\ pc \in Syncing => told \subseteq done /\ done \subseteq told \cup slipped
    /\ (pc \notin Concluding \cup {"idle"} /\ (fresh \/ InformerLag = FALSE))
          => cr.status.tracked = Latest.status.tracked
    /\ pc = "enable" => cr.spec.disabled \ cr.status.tracked \subseteq done
    /\ pc \in Concluding /\ fresh =>
          \A v \in Versions \ (slipped \cup told) :
              v \in Latest.status.tracked <=> v \in cr.spec.disabled

Consistent == TypeOK /\ CopyOK /\ StoredOK /\ RecordOK /\ PassOK

\* The log holds versions, the latest among them.
LEMMA LatestReadable ==
    LoopOK(Version, Pcs) => Latest \in Version /\ Latest \in Readable
BY LoopParts

\* The loop is well typed, and so is a copy in use.
LEMMA Parts ==
    ASSUME Consistent
    PROVE  /\ TypeOK /\ LoopOK(Version, Pcs)
           /\ Latest \in Version /\ Cached \in Version
           /\ Latest \in Readable /\ Cached \in Readable
           /\ pc # "idle" => cr \in Version
           /\ "idle" \in Pcs /\ Saves \subseteq Pcs /\ Syncing \subseteq Pcs
           /\ told \subseteq Versions
<1>1. LoopOK(Version, Pcs)
  BY DEF Consistent, TypeOK
<1> QED BY <1>1, LoopParts DEF Consistent, CopyOK, Pcs, Syncing, TypeOK

\* The kinds of program counters.
LEMMA Kinds ==
    /\ Syncing \cap Saves = {} /\ Syncing \cap Concluding = {}
    /\ "idle" \notin Syncing \cup Saves \cup Concluding
    /\ Saves \cap Changing = {} /\ Concluding \cap Changing = {}
    /\ "idle" \notin Changing /\ "owner" \notin Changing /\ Changing \subseteq Syncing
    /\ Saves \cap Concluding = {"saveReady"} /\ Concluding \subseteq Pcs
BY DEF Syncing, Saves, Changing, Concluding, Pcs

\* The end of a pass: what it changed has slipped, unless the status tells it.
LEMMA SlipsAtEnd ==
    ASSUME Slips
    PROVE  /\ (pc # "idle" /\ pc' = "idle") =>
                 \/ slipped' = slipped \cup told
                 \/ /\ pc = "saveReady" /\ slipped' = slipped \ told
                    /\ Latest'.status.tracked = cr.status.tracked
           /\ (pc = "idle" \/ pc' # "idle") =>
                 /\ slipped \subseteq slipped' /\ slipped' \subseteq slipped \cup done'
                 /\ done' \subseteq done => slipped' = slipped
                 /\ ~atc.exists => done' \ done \subseteq slipped'
BY DEF Slips, PassEnds, Recorded, Latest

\* The same for its types.
LEMMA Typed ==
    ASSUME TypeOK, Slips, LoopOK(Version, Pcs)',
           pipe' \in Pipelines \cup {""}, pipeline' \in Pipelines,
           pinRead' \in {NoVersion} \cup Versions,
           done' \subseteq Versions, mine' \subseteq Versions, told' \subseteq Versions,
           atc' \in AtcResource
    PROVE  TypeOK'
<1>1. slipped' \subseteq Versions
  BY SlipsAtEnd DEF TypeOK
<1> QED BY <1>1 DEF TypeOK

-----------------------------------------------------------------------------
(***************************************************************************)
(* The kinds of steps there are, and what they keep of the invariant.      *)
(***************************************************************************)
\* The spec, the generation and the status on the server stay.
SameSpec ==
    /\ Latest'.spec = Latest.spec /\ Latest'.gen = Latest.gen
    /\ Latest'.status = Latest.status
    /\ Readable' \subseteq Readable \cup {Latest'}

\* A pass ends without writing a status, or somebody else takes a step.
LEMMA QuietConsistent ==
    ASSUME Consistent, TypeOK', Slips, SameSpec, mine' = mine,
           \/ pc' = "idle" /\ told' = {} /\ done' = {}
           \/ UNCHANGED <<pc, cr, done, told>> /\ (fresh' => fresh)
    PROVE  Consistent'
<1>1. ReadyNow' <=> ReadyNow
  BY DEF SameSpec, ReadyNow
<1>2. StoredOK'
  BY <1>1 DEF Consistent, StoredOK, SameSpec
<1>3. CopyOK'
  BY <1>1 DEF Consistent, CopyOK, SameSpec
<1>4. CASE pc # "idle" /\ pc' = "idle"
  <2>1. RecordOK'
    <3>1. \A v \in Versions \ slipped' : v \in mine <=> v \in Latest.status.tracked
      <4>1. /\ \A v \in Versions \ (slipped \cup told) :
                  v \in mine <=> v \in Latest.status.tracked
            /\ \A v \in told : v \in mine <=> v \in cr.spec.disabled
        BY <1>4 DEF Consistent, RecordOK
      <4>2. CASE slipped' = slipped \cup told
        BY <4>1, <4>2
      <4>3. CASE /\ pc = "saveReady" /\ slipped' = slipped \ told
                 /\ Latest'.status.tracked = cr.status.tracked
        <5>1. cr.status.tracked = cr.spec.disabled
          BY <1>4, <4>3 DEF Consistent, CopyOK, Concluding
        <5> QED BY <4>1, <4>3, <5>1 DEF SameSpec
      <4> QED BY <1>4, <4>2, <4>3, SlipsAtEnd
    <3> QED BY <1>4, <3>1 DEF RecordOK, SameSpec
  <2>2. PassOK'
    BY <1>4, Kinds DEF PassOK
  <2> QED BY <1>2, <1>3, <2>1, <2>2 DEF Consistent
<1>5. CASE pc = "idle" /\ pc' = "idle"
  <2>1. slipped \subseteq slipped' /\ told = {} /\ told' = {} /\ done' = {}
    BY <1>5, SlipsAtEnd, Kinds DEF Consistent, RecordOK, PassOK
  <2>2. RecordOK' /\ PassOK'
    BY <1>5, <2>1, Kinds DEF Consistent, RecordOK, PassOK, SameSpec
  <2> QED BY <1>2, <1>3, <2>2 DEF Consistent
<1>6. CASE pc' # "idle"
  <2>1. UNCHANGED <<pc, cr, done, told>> /\ (fresh' => fresh) /\ slipped' = slipped
    BY <1>6, SlipsAtEnd
  <2>2. RecordOK'
    BY <1>6, <2>1 DEF Consistent, RecordOK, SameSpec
  <2>3. PassOK'
    BY <1>6, <2>1 DEF Consistent, PassOK, SameSpec
  <2> QED BY <1>2, <1>3, <2>2, <2>3 DEF Consistent
<1> QED BY <1>4, <1>5, <1>6

\* A version is disabled or enabled for the pass as the spec of the copy says, or
\* none is.
AsListed ==
    \/ UNCHANGED history
    \/ \E v \in Versions :
          /\ told' = told \cup {v}
          /\ \/ v \in cr.spec.disabled /\ mine' = mine \cup {v}
             \/ v \notin cr.spec.disabled /\ mine' = mine \ {v}

\* A pass goes on with the version it has read.
LEMMA GoesOnConsistent ==
    ASSUME Consistent, TypeOK', Slips, SameSpec, AsListed,
           pc # "idle", pc' # "idle", cr' \in Version,
           cr'.spec = cr.spec, cr'.gen = cr.gen, fresh' => fresh,
           pc' \in Saves => /\ cr'.status.readyGen = cr'.gen
                            /\ cr'.status.ready = "Ready" => pc' = "saveReady",
           pc' \in Concluding => cr'.status.tracked = cr'.spec.disabled,
           pc' \in Concluding /\ fresh =>
               \A v \in Versions \ (slipped' \cup told') :
                   v \in Latest.status.tracked <=> v \in cr.spec.disabled,
           pc' \notin Concluding =>
               pc \notin Concluding /\ cr'.status.tracked = cr.status.tracked,
           pc' \notin Changing => done' = {},
           pc' \in Syncing => told' \subseteq done' /\ done' \subseteq told' \cup slipped',
           pc' = "enable" => cr.spec.disabled \ cr.status.tracked \subseteq done'
    PROVE  Consistent'
<1>1. (ReadyNow' <=> ReadyNow) /\ slipped \subseteq slipped'
  BY SlipsAtEnd DEF SameSpec, ReadyNow
<1>2. CopyOK'
  BY <1>1 DEF Consistent, CopyOK, SameSpec
<1>3. StoredOK'
  BY <1>1 DEF Consistent, StoredOK, SameSpec
<1>4. RecordOK'
  <2>1. /\ \A v \in Versions \ (slipped \cup told) :
              v \in mine <=> v \in Latest.status.tracked
        /\ \A v \in told : v \in mine <=> v \in cr.spec.disabled
    BY DEF Consistent, RecordOK
  <2>2. /\ \A v \in Versions \ (slipped \cup told') :
              v \in mine' <=> v \in Latest.status.tracked
        /\ \A v \in told' : v \in mine' <=> v \in cr.spec.disabled
    BY <2>1 DEF AsListed, history
  <2> QED BY <1>1, <2>2 DEF RecordOK, SameSpec
<1>5. PassOK'
  <2>1. (pc' \notin Concluding /\ (fresh' \/ InformerLag = FALSE))
            => cr'.status.tracked = Latest'.status.tracked
    BY DEF Consistent, PassOK, SameSpec
  <2>2. pc' = "enable" => cr'.spec.disabled \ cr'.status.tracked \subseteq done'
    BY Kinds DEF Concluding
  <2> QED BY <2>1, <2>2 DEF PassOK, SameSpec
<1> QED BY <1>2, <1>3, <1>4, <1>5 DEF Consistent

\* A pass begins.
LEMMA TakeConsistent ==
    ASSUME Consistent, TypeOK', Slips,
           NEW v \in Version, NEW next \in Pcs, Take(v, next),
           v.spec = Cached.spec, v.gen = Cached.gen,
           v.status.tracked = Cached.status.tracked,
           next \in Saves => v.status.readyGen = v.gen /\ v.status.ready # "Ready",
           next \notin Concluding \cup Changing, UNCHANGED <<done, history>>
    PROVE  Consistent'
<1>1. /\ Latest' = Latest /\ Readable' = Readable /\ cr' = v /\ pc' = next
      /\ fresh' => Cached = Latest /\ Readable = {Latest}
  BY Parts, TakeLoop
<1>2. pc = "idle" /\ told = {} /\ done = {} /\ UNCHANGED <<told, mine, done>>
  BY Kinds DEF Take, Consistent, RecordOK, PassOK, history
<1>3. (ReadyNow' <=> ReadyNow) /\ slipped' = slipped
  BY <1>1, <1>2, SlipsAtEnd DEF ReadyNow
<1>4. Cached \in Readable
  BY Parts
<1>5. CopyOK'
  BY <1>1, <1>3, <1>4 DEF Consistent, CopyOK, StoredOK
<1>6. StoredOK'
  BY <1>1, <1>3 DEF Consistent, StoredOK
<1>7. RecordOK'
  BY <1>1, <1>2, <1>3 DEF Consistent, RecordOK
<1>8. PassOK'
  <2>1. InformerLag = FALSE => Cached = Latest
    <3>1. InformerLag = FALSE => Len(log) = 1
      BY DEF Take, CacheRead
    <3> QED BY <3>1, Parts, LoopParts
  <2>2. pc' # "enable"
    BY <1>1 DEF Changing
  <2> QED BY <1>1, <1>2, <2>1, <2>2 DEF PassOK
<1> QED BY <1>5, <1>6, <1>7, <1>8 DEF Consistent

\* A pass saves its status: with Ready=True that has the list of its spec, and
\* otherwise the list that was there.
LEMMA SavedConsistent ==
    ASSUME Consistent, TypeOK', Slips, mine' = mine, told' = {}, done' = {},
           pc \in Saves, pc' = "idle", fresh,
           Latest'.spec = Latest.spec, Latest'.gen = Latest.gen,
           Latest'.status = cr.status, Readable' \subseteq Readable \cup {Latest'}
    PROVE  Consistent'
<1>1. /\ pc # "idle" /\ cr.spec = Latest.spec /\ cr.gen = Latest.gen
      /\ \A u \in Readable : u.spec = Latest.spec
      /\ cr.status.readyGen = cr.gen
      /\ cr.status.ready = "Ready" => pc = "saveReady"
      /\ pc = "saveReady" => cr.status.tracked = cr.spec.disabled
  BY Kinds DEF Consistent, CopyOK, Concluding
<1>2. Latest.gen \in Nat
  BY Parts, VersionParts
<1>3. StoredOK'
  <2>1. Latest'.status.readyGen <= Latest'.gen
    BY <1>1, <1>2
  <2>2. ReadyNow' => Latest'.status.tracked = Latest'.spec.disabled
    BY <1>1 DEF ReadyNow
  <2>3. \A u \in Readable' : u.spec = Latest'.spec
    BY <1>1
  <2> QED BY <2>1, <2>2, <2>3 DEF StoredOK
<1>4. CopyOK'
  BY DEF CopyOK
<1>5. PassOK'
  BY Kinds DEF PassOK
<1>6. \A v \in Versions \ slipped' : v \in mine <=> v \in cr.status.tracked
  <2>1. /\ \A v \in Versions \ (slipped \cup told) :
              v \in mine <=> v \in Latest.status.tracked
        /\ \A v \in told : v \in mine <=> v \in cr.spec.disabled
    BY <1>1 DEF Consistent, RecordOK
  <2>2. CASE pc = "saveReady"
    <3>1. \A v \in Versions \ (slipped \cup told) :
              v \in Latest.status.tracked <=> v \in cr.spec.disabled
      BY <2>2 DEF Consistent, PassOK, Concluding
    <3>2. slipped' = slipped \cup told \/ slipped' = slipped \ told
      BY <1>1, SlipsAtEnd
    <3>3. cr.status.tracked = cr.spec.disabled
      BY <1>1, <2>2
    <3> QED BY <2>1, <3>1, <3>2, <3>3
  <2>3. CASE pc # "saveReady"
    <3>1. pc \notin Concluding \cup {"idle"}
      BY <1>1, <2>3, Kinds
    <3>2. cr.status.tracked = Latest.status.tracked
      BY <3>1 DEF Consistent, PassOK
    <3>3. slipped' = slipped \cup told
      BY <1>1, <2>3, SlipsAtEnd
    <3> QED BY <2>1, <3>2, <3>3
  <2> QED BY <2>2, <2>3
<1>7. RecordOK'
  BY <1>6 DEF RecordOK
<1> QED BY <1>3, <1>4, <1>5, <1>7 DEF Consistent

\* An edit starts a generation that is not Ready yet.
LEMMA EditedConsistent ==
    ASSUME Consistent, TypeOK', Slips,
           Latest'.gen = Latest.gen + 1, Latest'.status = Latest.status,
           fresh' = FALSE, UNCHANGED <<pc, cr, done, history>>
    PROVE  Consistent'
<1>1. Latest.gen \in Nat /\ Latest.status.readyGen \in Nat
  BY Parts, VersionParts
<1>2. ~ReadyNow' /\ Latest'.status.readyGen <= Latest'.gen
  BY <1>1 DEF Consistent, StoredOK, ReadyNow
<1>3. slipped' = slipped /\ told' = told /\ mine' = mine
  BY SlipsAtEnd DEF history
<1>4. CopyOK' /\ StoredOK'
  BY <1>2 DEF Consistent, CopyOK, StoredOK
<1>5. RecordOK' /\ PassOK'
  BY <1>3 DEF Consistent, RecordOK, PassOK
<1> QED BY <1>4, <1>5 DEF Consistent

-----------------------------------------------------------------------------
(***************************************************************************)
(* Reconcile.                                                              *)
(***************************************************************************)
\* A call that is not to the API server.
LEMMA StepConsistent ==
    ASSUME Consistent, Slips, NEW v \in Version, NEW next \in Pcs, Step(v, next),
           faults' = faults \/ \E kind : Fault(kind),
           pc # "idle", next # "idle", v.spec = cr.spec, v.gen = cr.gen, AsListed,
           next \in Saves => /\ v.status.readyGen = v.gen
                             /\ v.status.ready = "Ready" => next = "saveReady",
           next \in Concluding => v.status.tracked = v.spec.disabled,
           next \in Concluding /\ fresh =>
               \A u \in Versions \ (slipped' \cup told') :
                   u \in Latest.status.tracked <=> u \in cr.spec.disabled,
           next \notin Concluding =>
               pc \notin Concluding /\ v.status.tracked = cr.status.tracked,
           next \notin Changing => done' = {},
           next \in Syncing => told' \subseteq done' /\ done' \subseteq told' \cup slipped',
           next = "enable" => cr.spec.disabled \ cr.status.tracked \subseteq done',
           pipe' \in Pipelines \cup {""}, pipeline' \in Pipelines,
           pinRead' \in {NoVersion} \cup Versions,
           done' \subseteq Versions, mine' \subseteq Versions, told' \subseteq Versions,
           atc' \in AtcResource
    PROVE  Consistent'
<1>1. /\ LoopOK(Version, Pcs)' /\ Latest' = Latest /\ Readable' = Readable
      /\ cr' = v /\ pc' = next /\ fresh' = fresh
  BY Parts, StepLoop
<1>2. TypeOK'
  BY <1>1, Parts, Typed
<1>3. SameSpec
  BY <1>1 DEF SameSpec
<1> QED BY <1>1, <1>2, <1>3, GoesOnConsistent

\* syncPin or syncDisabledVersions fails.
LEMMA FailsConsistent ==
    ASSUME Consistent, Slips, NEW reason \in {"PinFailed", "DisableVersionFailed"},
           SyncFails(reason), pc \in Syncing,
           faults' = faults \/ \E kind : Fault(kind),
           AsListed, mine' \subseteq Versions, told' \subseteq Versions,
           atc' \in AtcResource
    PROVE  Consistent'
<1> DEFINE v == setReady(cr, reason)
<1>1. pc # "idle" /\ pc \notin Concluding
  BY Kinds
<1>2. /\ v \in Version /\ v.spec = cr.spec /\ v.gen = cr.gen
      /\ v.status.tracked = cr.status.tracked
      /\ v.status.readyGen = v.gen /\ v.status.ready # "Ready"
  <2>1. cr \in Version /\ reason \in ReadyReasons
    BY <1>1, Parts DEF ReadyReasons
  <2> QED BY <2>1, SetReadyType
<1>3. /\ Step(v, "saveFailed") /\ pinRead' = NoVersion /\ done' = {}
      /\ UNCHANGED <<pipe, pipeline>>
  BY DEF SyncFails
<1>4. /\ "saveFailed" \in Pcs /\ "saveFailed" \notin Syncing
      /\ "saveFailed" \notin Concluding
      /\ pinRead' \in {NoVersion} \cup Versions /\ done' \subseteq Versions
  BY <1>3 DEF Pcs, Saves, Syncing, Concluding
<1>5. pipe' \in Pipelines \cup {""} /\ pipeline' \in Pipelines
  BY <1>3, Parts DEF TypeOK
<1> HIDE DEF v
<1> QED BY <1>1, <1>2, <1>3, <1>4, <1>5, StepConsistent

\* Requests that do not concern versions.
LEMMA NoneListed ==
    UNCHANGED history => AsListed /\ mine' = mine /\ told' = told
BY DEF AsListed, history

\* The first steps of a pass.
LEMMA StartConsistent ==
    ASSUME Consistent, Slips,
           StartNothing \/ StartSuspended \/ StartPipelineMissing \/ StartLive
    PROVE  Consistent'
<1>1. CASE StartNothing \/ StartPipelineMissing
  <2>1. Ignore /\ UNCHANGED <<localVars, envVars, history>>
    BY <1>1 DEF StartNothing, StartPipelineMissing
  <2>2. /\ LoopOK(Version, Pcs)' /\ Latest' = Latest /\ Readable' = Readable
        /\ UNCHANGED <<fresh, pc, cr, faults>>
    BY <2>1, Parts, IgnoreLoop
  <2>3. TypeOK' /\ SameSpec
    BY <2>1, <2>2, Parts, Typed DEF TypeOK, SameSpec, localVars, envVars, history
  <2> QED BY <2>1, <2>2, <2>3, QuietConsistent DEF localVars, history
<1>2. CASE StartSuspended
  <2> DEFINE v == setReady(Cached, "Suspended")
  <2>1. /\ v \in Version /\ v.spec = Cached.spec /\ v.gen = Cached.gen
        /\ v.status.tracked = Cached.status.tracked
        /\ v.status.readyGen = v.gen /\ v.status.ready # "Ready"
    <3>1. Cached \in Version /\ "Suspended" \in ReadyReasons
      BY Parts DEF ReadyReasons
    <3> QED BY <3>1, SetReadyType
  <2>2. Take(v, "saveSuspended") /\ UNCHANGED <<localVars, envVars, history>>
    BY <1>2 DEF StartSuspended
  <2>3. "saveSuspended" \in Pcs /\ "saveSuspended" \notin Concluding \cup Changing
    BY DEF Pcs, Saves, Concluding, Changing
  <2> HIDE DEF v
  <2>4. LoopOK(Version, Pcs)'
    BY <2>1, <2>2, <2>3, Parts, TakeLoop
  <2>5. TypeOK'
    BY <2>2, <2>4, Parts, Typed DEF TypeOK, localVars, envVars, history
  <2> QED BY <2>1, <2>2, <2>3, <2>5, TakeConsistent DEF localVars
<1>3. CASE StartLive
  <2> DEFINE next == IF Cached.owned \/ Cached.spec.remote THEN "resolve" ELSE "owner"
  <2>1. next \in Pcs /\ next \notin Saves /\ next \notin Concluding \cup Changing
    BY DEF Pcs, Saves, Concluding, Changing
  <2>2. /\ Take(Cached, next) /\ pipe' = pipeline
        /\ UNCHANGED <<pinRead, done, envVars, history>>
    BY <1>3 DEF StartLive
  <2> HIDE DEF next
  <2>3. LoopOK(Version, Pcs)'
    BY <2>1, <2>2, Parts, TakeLoop
  <2>4. TypeOK'
    BY <2>2, <2>3, Parts, Typed DEF TypeOK, envVars, history
  <2> QED BY <2>1, <2>2, <2>4, Parts, TakeConsistent
<1> QED BY <1>1, <1>2, <1>3

\* The owner reference.
LEMMA SetOwnerConsistent ==
    ASSUME Consistent, Slips, SetOwner
    PROVE  Consistent'
<1> DEFINE v == [Latest EXCEPT !.owned = TRUE]
           w == [cr EXCEPT !.owned = TRUE]
<1>1. /\ pc = "owner" /\ Update(v, w, "resolve")
      /\ pipe' = IF pc' = "resolve" THEN pipe ELSE ""
      /\ UNCHANGED <<pinRead, done, envVars, history>>
  BY DEF SetOwner
<1>2. cr \in Version /\ Latest \in Version /\ LoopOK(Version, Pcs) /\ "idle" \in Pcs
  BY <1>1, Parts
<1>3. /\ v \in Version /\ v.spec = Latest.spec /\ v.gen = Latest.gen
      /\ v.status = Latest.status
      /\ w \in Version /\ w.spec = cr.spec /\ w.gen = cr.gen /\ w.status = cr.status
  <2>1. cr.spec \in Spec_ /\ Latest.spec \in Spec_
    BY <1>2, VersionParts
  <2> QED BY <1>2, <2>1, UserVersions
<1>4. "resolve" \in Pcs
  BY DEF Pcs
<1> HIDE DEF v, w
<1>5. /\ LoopOK(Version, Pcs)' /\ (Latest' = Latest \/ (fresh /\ Latest' = v))
      /\ Readable' \subseteq Readable \cup {Latest'}
      /\ Accepted(v, w, "resolve") \/ Rejected
  BY <1>1, <1>2, <1>3, <1>4, UpdateLoop
<1>6. TypeOK'
  BY <1>1, <1>5, Parts, Typed DEF TypeOK, envVars, history
<1>7. SameSpec
  BY <1>3, <1>5 DEF SameSpec
<1>8. /\ pc \in Syncing /\ pc \notin Changing /\ pc \notin Concluding /\ pc # "idle"
      /\ done' = {} /\ told' = {} /\ UNCHANGED <<done, told, mine>>
  <2>1. pc \in Syncing /\ pc \notin Changing
    BY <1>1, Kinds DEF Syncing
  <2>2. done = {} /\ told = {}
    BY <2>1 DEF Consistent, PassOK
  <2> QED BY <1>1, <2>1, <2>2, Kinds DEF history
<1>9. CASE Rejected
  BY <1>6, <1>7, <1>8, <1>9, QuietConsistent DEF Rejected
<1>10. CASE Accepted(v, w, "resolve")
  <2>1. /\ "resolve" \notin Saves /\ "resolve" \notin Concluding
        /\ "resolve" # "enable" /\ "resolve" # "idle"
    BY DEF Saves, Concluding
  <2>2. cr' = w /\ pc' = "resolve" /\ fresh' = fresh
    BY <1>10 DEF Accepted
  <2>3. AsListed /\ slipped \subseteq slipped'
    BY <1>8, <2>2, SlipsAtEnd DEF AsListed, history
  <2> QED BY <1>3, <1>6, <1>7, <1>8, <2>1, <2>2, <2>3, GoesOnConsistent
<1> QED BY <1>5, <1>9, <1>10

\* The Pipeline, and the chain behind it.
LEMMA ResolveConsistent ==
    ASSUME Consistent, Slips, Resolve
    PROVE  Consistent'
<1>1. /\ pc = "resolve" /\ pc # "idle" /\ pc \in Syncing /\ cr \in Version
      /\ pc \notin Concluding /\ pc \notin Changing
      /\ pipe' = "" /\ UNCHANGED <<pinRead, done, envVars, history, faults>>
  BY Parts, Kinds DEF Resolve, Syncing, Changing
<1>2. /\ pipe' \in Pipelines \cup {""} /\ pipeline' \in Pipelines
      /\ pinRead' \in {NoVersion} \cup Versions
      /\ done' \subseteq Versions /\ mine' \subseteq Versions /\ told' \subseteq Versions
      /\ atc' \in AtcResource /\ AsListed /\ done' = {} /\ told' = {}
  <2>1. done = {} /\ told = {} /\ TypeOK
    BY <1>1 DEF Consistent, PassOK
  <2> QED BY <1>1, <2>1, NoneListed DEF TypeOK, envVars, history
<1>3. /\ "saveNotReady" \in Pcs /\ "saveNotReady" \notin Syncing
      /\ "saveNotReady" \notin Concluding
      /\ "readPin" \in Pcs /\ "readPin" \notin Saves /\ "readPin" \notin Concluding
  BY DEF Pcs, Saves, Syncing, Concluding
<1>4. \/ \E reason \in {"PipelineNotReady", "ChainNotReady"} :
            Step(setReady(cr, reason), "saveNotReady")
      \/ Step(cr, "readPin")
  BY DEF Resolve
<1>5. CASE Step(cr, "readPin")
  BY <1>1, <1>2, <1>3, <1>5, StepConsistent
<1>6. ASSUME NEW reason \in {"PipelineNotReady", "ChainNotReady"},
             Step(setReady(cr, reason), "saveNotReady")
      PROVE  Consistent'
  <2> DEFINE v == setReady(cr, reason)
  <2>1. /\ v \in Version /\ v.spec = cr.spec /\ v.gen = cr.gen
        /\ v.status.tracked = cr.status.tracked
        /\ v.status.readyGen = v.gen /\ v.status.ready # "Ready"
    <3>1. cr \in Version /\ reason \in ReadyReasons
      BY <1>1 DEF ReadyReasons
    <3> QED BY <3>1, SetReadyType
  <2>2. Step(v, "saveNotReady")
    BY <1>6
  <2> HIDE DEF v
  <2> QED BY <1>1, <1>2, <1>3, <2>1, <2>2, StepConsistent
<1> QED BY <1>4, <1>5, <1>6

-----------------------------------------------------------------------------
(***************************************************************************)
(* syncPin.                                                                *)
(***************************************************************************)
\* What requests and other clients do to the resource in the ATC.
LEMMA AtcTypes ==
    ASSUME NEW a \in AtcResource, NEW id \in {NoVersion} \cup Versions,
           NEW c \in {""} \cup Comments, NEW d \in SUBSET Versions, NEW e \in BOOLEAN
    PROVE  /\ [a EXCEPT !.pin = id, !.comment = c] \in AtcResource
           /\ [a EXCEPT !.pin = id] \in AtcResource
           /\ [a EXCEPT !.comment = c] \in AtcResource
           /\ [a EXCEPT !.disabled = d] \in AtcResource
           /\ [a EXCEPT !.newest = id] \in AtcResource
           /\ [a EXCEPT !.exists = e] \in AtcResource
BY DEF AtcResource

\* A pin request.
LEMMA PinsType ==
    ASSUME atc \in AtcResource, NEW id \in {NoVersion} \cup Versions, AtcPins(id)
    PROVE  atc' \in AtcResource
<1> DEFINE c == IF id = NoVersion THEN "" ELSE atc.comment
<1>1. c \in {""} \cup Comments
  BY DEF AtcResource
<1>2. atc' = atc \/ atc' = [atc EXCEPT !.pin = id, !.comment = c]
  BY DEF AtcPins
<1> HIDE DEF c
<1>3. [atc EXCEPT !.pin = id, !.comment = c] \in AtcResource
  BY <1>1 DEF AtcResource
<1> QED BY <1>2, <1>3

\* What every step of a pass starts from; it is on its way to the last request.
LEMMA InPass ==
    ASSUME Consistent, pc \in Syncing
    PROVE  /\ pc # "idle" /\ cr \in Version /\ TypeOK
           /\ pipe \in Pipelines \cup {""} /\ pipeline \in Pipelines
           /\ pinRead \in {NoVersion} \cup Versions /\ done \subseteq Versions
           /\ mine \subseteq Versions /\ told \subseteq Versions /\ atc \in AtcResource
           /\ pc \notin Concluding
           /\ told \subseteq done /\ done \subseteq told \cup slipped
           /\ cr.spec.pin \in {NoVersion} \cup Versions
           /\ cr.spec.disabled \subseteq Versions /\ cr.status.tracked \subseteq Versions
<1>1. pc # "idle" /\ pc \notin Concluding /\ cr \in Version /\ TypeOK
  BY Parts, Kinds
<1>2. told \subseteq done /\ done \subseteq told \cup slipped
  BY DEF Consistent, PassOK
<1> QED BY <1>1, <1>2, VersionParts DEF TypeOK

\* A step that goes on to the next one and changes no version.
LEMMA PinStepConsistent ==
    ASSUME Consistent, Slips, NEW v \in Version, NEW next \in Syncing, Step(v, next),
           pc \in Syncing, v.spec = cr.spec, v.gen = cr.gen,
           v.status.tracked = cr.status.tracked,
           next \notin Changing => pc \notin Changing,
           next = "enable" => cr.spec.disabled \ cr.status.tracked \subseteq done,
           faults' = faults \/ \E kind : Fault(kind),
           pinRead' \in {NoVersion} \cup Versions, atc' \in AtcResource,
           UNCHANGED <<pipe, pipeline, done, history>>
    PROVE  Consistent'
<1>1. next \in Pcs /\ next \notin Saves /\ next # "idle" /\ next \notin Concluding
  BY Parts, Kinds
<1>2. /\ pc # "idle" /\ pc \notin Concluding /\ AsListed
      /\ pipe' \in Pipelines \cup {""} /\ pipeline' \in Pipelines
      /\ done' \subseteq Versions /\ mine' \subseteq Versions /\ told' \subseteq Versions
  BY InPass, NoneListed
<1>3. pc' = next /\ slipped \subseteq slipped'
  BY <1>1, SlipsAtEnd DEF Step
<1>4. /\ next \notin Changing => done' = {}
      /\ told' \subseteq done' /\ done' \subseteq told' \cup slipped'
  BY <1>3, InPass, NoneListed DEF Consistent, PassOK
<1> QED BY <1>1, <1>2, <1>4, StepConsistent

\* The pin is read.
LEMMA ReadPinConsistent ==
    ASSUME Consistent, Slips, ReadPin \/ ReadPinFails
    PROVE  Consistent'
<1>1. pc \in Syncing /\ pc \notin Changing
  BY DEF ReadPin, ReadPinFails, Syncing, Changing
<1>2. CASE ReadPin
  <2> DEFINE v == IF AfterRead(cr.spec, atc) = "lookup" THEN pinnedTo(cr, NoVersion) ELSE cr
             next == AfterRead(cr.spec, atc)
  <2>1. next \in Syncing /\ next # "enable"
    BY DEF AfterRead, Syncing
  <2>2. /\ Step(v, next) /\ pinRead' = atc.pin
        /\ UNCHANGED <<pipe, pipeline, done, atc, history, faults>>
    BY <1>2 DEF ReadPin, envVars
  <2>3. cr \in Version /\ NoVersion \in {NoVersion} \cup Versions
    BY <1>1, InPass
  <2>4. /\ v \in Version /\ v.spec = cr.spec /\ v.gen = cr.gen
        /\ v.status.tracked = cr.status.tracked
    BY <2>3, PinnedType
  <2>5. pinRead' \in {NoVersion} \cup Versions /\ atc' \in AtcResource
    BY <1>1, <2>2, InPass DEF AtcResource
  <2> HIDE DEF v, next
  <2> QED BY <1>1, <2>1, <2>2, <2>4, <2>5, PinStepConsistent
<1>3. CASE ReadPinFails
  <2>1. /\ SyncFails("PinFailed") /\ UNCHANGED <<atc, history>>
        /\ faults' = faults \/ \E kind : Fault(kind)
    BY <1>3 DEF ReadPinFails
  <2> QED BY <1>1, <2>1, InPass, NoneListed, FailsConsistent
<1> QED BY <1>2, <1>3

\* The pin is removed.
LEMMA UnpinConsistent ==
    ASSUME Consistent, Slips, Unpin \/ UnpinFails
    PROVE  Consistent'
<1>1. pc \in Syncing /\ pc \notin Changing
  BY DEF Unpin, UnpinFails, Syncing, Changing
<1>2. NoVersion \in {NoVersion} \cup Versions /\ cr \in Version
  BY <1>1, InPass
<1>3. CASE Unpin
  <2> DEFINE v == pinnedTo(cr, NoVersion)
  <2>1. /\ Step(v, "lookup") /\ AtcPins(NoVersion)
        /\ UNCHANGED <<localVars, pipeline, history, faults>>
    BY <1>3 DEF Unpin
  <2>2. /\ v \in Version /\ v.spec = cr.spec /\ v.gen = cr.gen
        /\ v.status.tracked = cr.status.tracked
    BY <1>2, PinnedType
  <2>3. atc' \in AtcResource /\ "lookup" \in Syncing
    BY <1>1, <1>2, <2>1, InPass, PinsType DEF Syncing
  <2> HIDE DEF v
  <2> QED BY <1>1, <2>1, <2>2, <2>3, InPass, PinStepConsistent DEF localVars
<1>4. CASE UnpinFails
  <2>1. /\ SyncFails("PinFailed") /\ UNCHANGED history
        /\ \E kind : Fault(kind)
        /\ atc' = atc \/ AtcPins(NoVersion)
    BY <1>4 DEF UnpinFails
  <2>2. atc' \in AtcResource
    BY <1>1, <1>2, <2>1, InPass, PinsType
  <2> QED BY <1>1, <2>1, <2>2, InPass, NoneListed, FailsConsistent
<1> QED BY <1>3, <1>4

\* The comment and the pin are set.
LEMMA PinConsistent ==
    ASSUME Consistent, Slips,
           SetComment \/ PinInPlace \/ FindPin \/ FindPinFails \/ Pin \/ PinFails
    PROVE  Consistent'
<1>1. pc \in Syncing /\ pc \notin Changing
  BY DEF SetComment, PinInPlace, FindPin, FindPinFails, Pin, PinFails, Syncing, Changing
<1>2. "lookup" \in Syncing /\ "pin" \in Syncing /\ "pinVersion" \in Syncing
  BY DEF Syncing
<1>3. cr \in Version /\ cr.spec.pin \in {NoVersion} \cup Versions /\ atc \in AtcResource
  BY <1>1, InPass
<1>4. CASE SetComment
  <2>1. /\ Step(cr, "pin") /\ UNCHANGED <<localVars, pipeline, history>>
        /\ faults' = faults \/ \E kind : Fault(kind)
        /\ atc' \in {atc, [atc EXCEPT !.comment = cr.spec.comment]}
    BY <1>4 DEF SetComment
  <2>2. cr.spec.comment \in {""} \cup Comments /\ {} \in SUBSET Versions /\ TRUE \in BOOLEAN
    BY <1>3, VersionParts
  <2>3. atc' \in AtcResource
    BY <1>3, <2>1, <2>2, AtcTypes
  <2> QED BY <1>1, <1>2, <1>3, <2>1, <2>3, InPass, PinStepConsistent DEF localVars
<1>5. CASE PinInPlace
  <2> DEFINE v == [cr EXCEPT !.status.pinned = TRUE]
  <2>1. Step(v, "lookup") /\ UNCHANGED <<localVars, envVars, history, faults>>
    BY <1>5 DEF PinInPlace
  <2>2. /\ v \in Version /\ v.spec = cr.spec /\ v.gen = cr.gen
        /\ v.status.tracked = cr.status.tracked
    BY <1>3, PinnedType
  <2> HIDE DEF v
  <2> QED BY <1>1, <1>2, <1>3, <2>1, <2>2, InPass, PinStepConsistent DEF localVars, envVars
<1>6. CASE Pin
  <2> DEFINE v == pinnedTo(cr, cr.spec.pin)
  <2>1. /\ Step(v, "lookup") /\ AtcPins(cr.spec.pin)
        /\ UNCHANGED <<localVars, pipeline, history, faults>>
    BY <1>6 DEF Pin
  <2>2. /\ v \in Version /\ v.spec = cr.spec /\ v.gen = cr.gen
        /\ v.status.tracked = cr.status.tracked
    BY <1>3, PinnedType
  <2>3. atc' \in AtcResource
    BY <1>3, <2>1, PinsType
  <2> HIDE DEF v
  <2> QED BY <1>1, <1>2, <2>1, <2>2, <2>3, InPass, PinStepConsistent DEF localVars
<1>7. CASE PinFails
  <2>1. /\ SyncFails("PinFailed") /\ UNCHANGED history
        /\ faults' = faults \/ \E kind : Fault(kind)
        /\ atc' = atc \/ AtcPins(cr.spec.pin)
    BY <1>7 DEF PinFails
  <2>2. atc' \in AtcResource
    BY <1>3, <2>1, PinsType
  <2> QED BY <1>1, <2>1, <2>2, InPass, NoneListed, FailsConsistent
<1>8. CASE FindPin
  <2>1. Step(cr, "pinVersion") /\ UNCHANGED <<localVars, envVars, history, faults>>
    BY <1>8 DEF FindPin
  <2> QED BY <1>1, <1>2, <1>3, <2>1, InPass, PinStepConsistent DEF localVars, envVars
<1>9. CASE FindPinFails
  <2>1. /\ SyncFails("PinFailed") /\ UNCHANGED <<atc, history>>
        /\ faults' = faults \/ \E kind : Fault(kind)
    BY <1>9 DEF FindPinFails
  <2> QED BY <1>1, <2>1, InPass, NoneListed, FailsConsistent
<1> QED BY <1>4, <1>5, <1>6, <1>7, <1>8, <1>9

-----------------------------------------------------------------------------
(***************************************************************************)
(* syncDisabledVersions.                                                   *)
(***************************************************************************)
\* Versions are natural numbers.
LEMMA VersionsNat == Versions \subseteq Nat
<1>1. MaxVersion \in Nat
  BY ResourceAssumption DEF ResourceAssumption
<1> QED BY <1>1 DEF Versions

\* The versions it changes; the copy says which.
LEMMA ChangedVersions ==
    ASSUME Consistent, pc \in Syncing
    PROVE  /\ ToDisable \subseteq Versions /\ ToDisable \subseteq cr.spec.disabled
           /\ ToEnable \subseteq Versions /\ ToEnable \cap cr.spec.disabled = {}
           /\ ToEnable \subseteq cr.status.tracked \ done
           /\ ToEnable # {} => Min(ToEnable) \in ToEnable
<1>1. /\ ToDisable \subseteq Versions /\ ToDisable \subseteq cr.spec.disabled
      /\ ToEnable \subseteq Versions /\ ToEnable \cap cr.spec.disabled = {}
      /\ ToEnable \subseteq cr.status.tracked \ done
  BY InPass DEF ToDisable, ToEnable
<1>2. ToEnable \in SUBSET Nat
  BY <1>1, VersionsNat
<1> HIDE DEF ToEnable
<1> QED BY <1>1, <1>2, MinOf

\* A request about one version changes that version, or nothing when the resource
\* is not there.
LEMMA SetsVersion ==
    ASSUME atc \in AtcResource, mine \subseteq Versions, told \subseteq Versions,
           NEW v \in Versions, NEW disable \in BOOLEAN, AtcSets(v, disable)
    PROVE  /\ atc' \in AtcResource /\ mine' \subseteq Versions /\ told' \subseteq Versions
           /\ \/ ~atc.exists /\ UNCHANGED history
              \/ disable /\ told' = told \cup {v} /\ mine' = mine \cup {v}
              \/ ~disable /\ told' = told \cup {v} /\ mine' = mine \ {v}
           /\ atc.disabled \ atc'.disabled \subseteq {v}
<1>1. CASE ~atc.exists /\ UNCHANGED <<atc, history>>
  BY <1>1 DEF history
<1>2. CASE /\ disable /\ told' = told \cup {v}
           /\ atc' = [atc EXCEPT !.disabled = @ \cup {v}] /\ mine' = mine \cup {v}
  BY <1>2 DEF AtcResource
<1>3. CASE /\ ~disable /\ told' = told \cup {v}
           /\ atc' = [atc EXCEPT !.disabled = @ \ {v}] /\ mine' = mine \ {v}
  BY <1>3 DEF AtcResource
<1> QED BY <1>1, <1>2, <1>3 DEF AtcSets

\* Every version is looked up before one is changed.
LEMMA LookupConsistent ==
    ASSUME Consistent, Slips, Lookup \/ LookupFails
    PROVE  Consistent'
<1>1. pc \in Syncing /\ pc \notin Changing
  BY DEF Lookup, LookupFails, Syncing, Changing
<1>2. CASE Lookup
  <2>1. /\ Step(cr, "disable") /\ pinRead' = NoVersion
        /\ UNCHANGED <<pipe, done, envVars, history, faults>>
    BY <1>2 DEF Lookup
  <2>2. "disable" \in Syncing /\ pinRead' \in {NoVersion} \cup Versions
    BY <2>1 DEF Syncing
  <2> QED BY <1>1, <2>1, <2>2, InPass, PinStepConsistent DEF envVars
<1>3. CASE LookupFails
  <2>1. /\ SyncFails("DisableVersionFailed") /\ UNCHANGED <<atc, history>>
        /\ faults' = faults \/ \E kind : Fault(kind)
    BY <1>3 DEF LookupFails
  <2> QED BY <1>1, <2>1, InPass, NoneListed, FailsConsistent
<1> QED BY <1>2, <1>3

\* A version has been disabled or enabled, or its request found no resource: as the
\* spec says in each case, and recorded in the pass.
LEMMA SetConsistent ==
    ASSUME Consistent, Slips, pc \in Changing, Step(cr, pc),
           NEW v \in Versions, v \notin done, NEW disable \in BOOLEAN, AtcSets(v, disable),
           disable <=> v \in cr.spec.disabled, done' = done \cup {v},
           UNCHANGED <<pipe, pinRead, pipeline, faults>>
    PROVE  Consistent'
<1>1. /\ pc \in Pcs /\ pc \notin Saves /\ pc # "idle" /\ pc \notin Concluding
      /\ pc \in Syncing /\ pc' = pc
  BY Parts, Kinds DEF Step
<1>2. /\ atc' \in AtcResource /\ mine' \subseteq Versions /\ told' \subseteq Versions
      /\ \/ ~atc.exists /\ UNCHANGED history
         \/ disable /\ told' = told \cup {v} /\ mine' = mine \cup {v}
         \/ ~disable /\ told' = told \cup {v} /\ mine' = mine \ {v}
  <2>1. atc \in AtcResource /\ mine \subseteq Versions /\ told \subseteq Versions
    BY <1>1, InPass
  <2> QED BY <2>1, SetsVersion
<1>3. AsListed
  BY <1>2 DEF AsListed
<1>4. /\ cr \in Version
      /\ pipe' \in Pipelines \cup {""} /\ pipeline' \in Pipelines
      /\ pinRead' \in {NoVersion} \cup Versions /\ done' \subseteq Versions
  BY <1>1, InPass
<1>5. told' \subseteq done' /\ done' \subseteq told' \cup slipped'
  <2>1. /\ told \subseteq done /\ done \subseteq told \cup slipped
        /\ slipped \subseteq slipped' /\ (~atc.exists => v \in slipped')
    BY <1>1, InPass, SlipsAtEnd
  <2> QED BY <1>2, <2>1 DEF history
<1>6. pc = "enable" => cr.spec.disabled \ cr.status.tracked \subseteq done'
  BY DEF Consistent, PassOK
<1> QED BY <1>1, <1>2, <1>3, <1>4, <1>5, <1>6, StepConsistent

\* A request failed: the version is changed all the same, or not.
LEMMA SetFailsConsistent ==
    ASSUME Consistent, Slips, pc \in Syncing, SyncFails("DisableVersionFailed"),
           NEW v \in Versions, NEW disable \in BOOLEAN,
           \/ Fault("atcError") /\ UNCHANGED <<atc, history>>
           \/ Fault("atcLost") /\ AtcSets(v, disable),
           disable <=> v \in cr.spec.disabled
    PROVE  Consistent'
<1>1. /\ atc' \in AtcResource /\ mine' \subseteq Versions /\ told' \subseteq Versions
      /\ \/ UNCHANGED history
         \/ disable /\ told' = told \cup {v} /\ mine' = mine \cup {v}
         \/ ~disable /\ told' = told \cup {v} /\ mine' = mine \ {v}
  <2>1. atc \in AtcResource /\ mine \subseteq Versions /\ told \subseteq Versions
    BY InPass
  <2>2. CASE UNCHANGED <<atc, history>>
    BY <2>1, <2>2 DEF history
  <2>3. CASE AtcSets(v, disable)
    BY <2>1, <2>3, SetsVersion
  <2> QED BY <2>2, <2>3
<1>2. AsListed
  BY <1>1 DEF AsListed
<1> QED BY <1>1, <1>2, FailsConsistent

\* Versions are disabled.
LEMMA DisableConsistent ==
    ASSUME Consistent, Slips, Disable \/ DisableFails \/ DisableDone
    PROVE  Consistent'
<1>1. /\ pc \in Syncing /\ pc = "disable" /\ pc \in Changing
      /\ "enable" \in Syncing /\ "enable" \in Changing
  BY DEF Disable, DisableFails, DisableDone, Syncing, Changing
<1>2. /\ ToDisable \subseteq Versions \ done /\ ToDisable \subseteq cr.spec.disabled
      /\ ToDisable = {} => cr.spec.disabled \ cr.status.tracked \subseteq done
  <2>1. ToDisable \subseteq Versions /\ ToDisable \subseteq cr.spec.disabled
    BY <1>1, ChangedVersions
  <2> QED BY <2>1 DEF ToDisable
<1>3. CASE Disable
  <2>1. PICK v \in ToDisable : AtcSets(v, TRUE) /\ done' = done \cup {v}
    BY <1>3 DEF Disable
  <2>2. Step(cr, "disable") /\ UNCHANGED <<pipe, pinRead, pipeline, faults>>
    BY <1>3 DEF Disable
  <2>3. v \in Versions /\ v \notin done /\ v \in cr.spec.disabled
    BY <1>2
  <2> QED BY <1>1, <2>1, <2>2, <2>3, SetConsistent
<1>4. CASE DisableFails
  <2>1. PICK v \in ToDisable : \/ Fault("atcError") /\ UNCHANGED <<atc, history>>
                               \/ Fault("atcLost") /\ AtcSets(v, TRUE)
    BY <1>4 DEF DisableFails
  <2>2. SyncFails("DisableVersionFailed")
    BY <1>4 DEF DisableFails
  <2>3. v \in Versions /\ v \in cr.spec.disabled
    BY <1>2
  <2> QED BY <1>1, <2>1, <2>2, <2>3, SetFailsConsistent
<1>5. CASE DisableDone
  <2>1. Step(cr, "enable") /\ UNCHANGED <<localVars, envVars, history, faults>>
    BY <1>5 DEF DisableDone
  <2>2. ToDisable = {}
    BY <1>5 DEF DisableDone
  <2> QED BY <1>1, <1>2, <2>1, <2>2, InPass, PinStepConsistent DEF localVars, envVars
<1> QED BY <1>3, <1>4, <1>5

\* Versions are enabled, and the list is recorded.
LEMMA EnableConsistent ==
    ASSUME Consistent, Slips, Enable \/ EnableFails \/ EnableDone
    PROVE  Consistent'
<1>1. pc \in Syncing /\ pc = "enable" /\ pc \in Changing
  BY DEF Enable, EnableFails, EnableDone, Syncing, Changing
<1> DEFINE m == Min(ToEnable)
<1>2. ToEnable # {} => m \in Versions /\ m \notin cr.spec.disabled /\ m \notin done
  <2> HIDE DEF ToEnable
  <2> QED BY <1>1, ChangedVersions
<1>3. CASE Enable
  <2>1. /\ AtcSets(m, FALSE) /\ done' = done \cup {m} /\ ToEnable # {}
        /\ Step(cr, "enable") /\ UNCHANGED <<pipe, pinRead, pipeline, faults>>
    BY <1>3 DEF Enable
  <2> HIDE DEF m
  <2> QED BY <1>1, <1>2, <2>1, SetConsistent
<1>4. CASE EnableFails
  <2>1. /\ \/ Fault("atcError") /\ UNCHANGED <<atc, history>>
           \/ Fault("atcLost") /\ AtcSets(m, FALSE)
        /\ SyncFails("DisableVersionFailed") /\ ToEnable # {}
    BY <1>4 DEF EnableFails
  <2> HIDE DEF m
  <2> QED BY <1>1, <1>2, <2>1, SetFailsConsistent
<1>5. CASE EnableDone
  <2> DEFINE v == [cr EXCEPT !.status.tracked = NewTracked(cr)]
  <2>1. /\ Step(v, "check") /\ done' = {} /\ ToEnable = {}
        /\ UNCHANGED <<pipe, pinRead, envVars, history, faults>>
    BY <1>5 DEF EnableDone
  <2>2. /\ v \in Version /\ v.spec = cr.spec /\ v.gen = cr.gen
        /\ v.status.tracked = v.spec.disabled
    BY <1>1, InPass, TrackedType
  <2>3. /\ "check" \in Pcs /\ "check" \notin Saves /\ "check" \notin Syncing
        /\ "check" \in Concluding /\ "check" # "idle" /\ "check" # "enable"
    BY DEF Pcs, Saves, Syncing, Concluding
  <2> HIDE DEF v
  <2>4. /\ AsListed /\ pc # "idle"
        /\ pipe' \in Pipelines \cup {""} /\ pipeline' \in Pipelines
        /\ pinRead' \in {NoVersion} \cup Versions /\ done' \subseteq Versions
        /\ mine' \subseteq Versions /\ told' \subseteq Versions /\ atc' \in AtcResource
    BY <1>1, <2>1, InPass, NoneListed DEF envVars
  <2>5. ASSUME fresh
        PROVE  \A u \in Versions \ (slipped' \cup told') :
                   u \in Latest.status.tracked <=> u \in cr.spec.disabled
    <3>1. /\ cr.status.tracked = Latest.status.tracked
          /\ cr.spec.disabled \ cr.status.tracked \subseteq done
      BY <1>1, <2>4, <2>5, InPass DEF Consistent, PassOK
    <3>2. cr.status.tracked \ cr.spec.disabled \subseteq done
      BY <2>1 DEF ToEnable
    <3>3. done \subseteq told \cup slipped /\ slipped \subseteq slipped' /\ told' = told
      <4>1. pc' = "check"
        BY <2>1 DEF Step
      <4> QED BY <1>1, <2>1, <4>1, InPass, NoneListed, SlipsAtEnd
    <3> QED BY <3>1, <3>2, <3>3
  <2> QED BY <2>1, <2>2, <2>3, <2>4, <2>5, StepConsistent
<1> QED BY <1>3, <1>4, <1>5

-----------------------------------------------------------------------------
(***************************************************************************)
(* The end of a pass.                                                      *)
(***************************************************************************)
\* A version that differs from v in what the check and the fetch write only.
SameSync(w, v) ==
    /\ w \in Version /\ w.spec = v.spec /\ w.gen = v.gen
    /\ w.status.tracked = v.status.tracked
    /\ w.status.ready = v.status.ready /\ w.status.readyGen = v.status.readyGen

Healths == {"", "Unknown", "False", "True"}

\* What they write is well typed.
LEMMA CheckedType ==
    ASSUME NEW v \in Version, NEW now \in 0 .. 2, NEW h \in Healths,
           NEW n \in {NoVersion} \cup Versions
    PROVE  /\ v.status.healthy \in Healths
           /\ SameSync([v EXCEPT !.status.checked = now, !.status.healthy = h], v)
           /\ SameSync([v EXCEPT !.status.healthy = h], v)
           /\ SameSync([v EXCEPT !.status.latest = n], v)
<1>1. v.status.healthy \in Healths
  BY DEF Version, Status, Healths
<1>2. SameSync([v EXCEPT !.status.healthy = h], v)
  BY DEF Version, Status, Healths, SameSync
<1>3. SameSync([v EXCEPT !.status.latest = n], v)
  BY DEF Version, Status, SameSync
<1>4. SameSync([v EXCEPT !.status.checked = now, !.status.healthy = h], v)
  BY DEF Version, Status, Healths, SameSync
<1> QED BY <1>1, <1>2, <1>3, <1>4

\* What the steps after the last request about a version keep.
LEMMA ConcludingConsistent ==
    ASSUME Consistent, Slips, NEW w \in Version, NEW next \in Concluding, Step(w, next),
           faults' = faults \/ \E kind : Fault(kind), pc \in Concluding,
           w.spec = cr.spec, w.gen = cr.gen, w.status.tracked = cr.status.tracked,
           next = "saveReady" => w.status.readyGen = w.gen,
           UNCHANGED <<localVars, envVars, history>>
    PROVE  Consistent'
<1>1. /\ pc # "idle" /\ pc \notin Changing /\ next # "idle" /\ next \in Pcs
      /\ next \in Saves => next = "saveReady"
      /\ next \notin Syncing /\ next \notin Changing /\ next # "enable"
  BY Kinds DEF Concluding
<1>2. cr.status.tracked = cr.spec.disabled /\ done = {} /\ TypeOK
  BY <1>1 DEF Consistent, CopyOK, PassOK
<1>3. /\ pipe' \in Pipelines \cup {""} /\ pipeline' \in Pipelines
      /\ pinRead' \in {NoVersion} \cup Versions /\ done' = {}
      /\ mine' \subseteq Versions /\ told' \subseteq Versions /\ atc' \in AtcResource
  BY <1>2 DEF TypeOK, localVars, envVars, history
<1>4. AsListed /\ told' = told
  BY NoneListed
<1>5. pc' = next /\ slipped \subseteq slipped'
  BY <1>1, SlipsAtEnd DEF Step
<1>6. fresh => \A u \in Versions \ (slipped' \cup told') :
                   u \in Latest.status.tracked <=> u \in cr.spec.disabled
  BY <1>4, <1>5 DEF Consistent, PassOK
<1> QED BY <1>1, <1>2, <1>3, <1>4, <1>6, StepConsistent

\* The check.
LEMMA CheckConsistent ==
    ASSUME Consistent, Slips, Check
    PROVE  Consistent'
<1>1. pc \in Concluding /\ "fetch" \in Concluding /\ cr \in Version
  BY Parts DEF Check, Concluding
<1>2. /\ Checks(cr) /\ pc' = "fetch"
      /\ UNCHANGED <<log, queued, timer, fresh, edits, localVars, envVars, history>>
  BY DEF Check
<1>3. /\ faults' = faults \/ \E kind : Fault(kind)
      /\ \/ \E h \in Healths : cr' = [cr EXCEPT !.status.healthy = h]
         \/ \E now \in 0 .. 2 : cr' = [cr EXCEPT !.status.checked = now,
                                               !.status.healthy = "True"]
  <2>1. cr.status.healthy \in Healths
    BY <1>1 DEF Version, Status, Healths
  <2> DEFINE u == IF cr.status.checked = 0 THEN "Unknown" ELSE cr.status.healthy
  <2>2. u \in Healths
    BY <2>1 DEF Healths
  <2>3. \/ UNCHANGED faults /\ cr' = [cr EXCEPT !.status.healthy = u]
        \/ UNCHANGED faults /\ \E now \in 1 .. 2 : cr' = [cr EXCEPT !.status.checked = now,
                                                               !.status.healthy = "True"]
        \/ (\E kind : Fault(kind)) /\ cr' = [cr EXCEPT !.status.healthy = "False"]
    BY <1>2 DEF Checks
  <2> HIDE DEF u
  <2>4. "False" \in Healths /\ \A now \in 1 .. 2 : now \in 0 .. 2
    BY DEF Healths
  <2>5. faults' = faults \/ \E kind : Fault(kind)
    BY <2>3
  <2> QED BY <2>2, <2>3, <2>4, <2>5, Zenon
<1>4. SameSync(cr', cr)
  <2>1. "True" \in Healths /\ 0 \in 0 .. 2 /\ 0 \in {NoVersion} \cup Versions
    BY DEF Healths, NoVersion
  <2> QED BY <1>1, <1>3, <2>1, CheckedType
<1>5. PICK w \in Version : cr' = w /\ SameSync(w, cr)
  BY <1>4 DEF SameSync
<1>6. Step(w, "fetch")
  BY <1>2, <1>5 DEF Step
<1>7. /\ w.spec = cr.spec /\ w.gen = cr.gen /\ w.status.tracked = cr.status.tracked
      /\ "fetch" # "saveReady"
  BY <1>5 DEF SameSync
<1> QED BY <1>1, <1>2, <1>3, <1>6, <1>7, ConcludingConsistent

\* The newest version and the Ready condition.
LEMMA FetchConsistent ==
    ASSUME Consistent, Slips, Fetch
    PROVE  Consistent'
<1> DEFINE f == Fetched(cr)
<1>1. /\ pc \in Concluding /\ "saveReady" \in Concluding /\ cr \in Version /\ TypeOK
      /\ "Ready" \in ReadyReasons
  BY Parts DEF Fetch, Concluding, ReadyReasons
<1>2. atc.newest \in {NoVersion} \cup Versions
  BY <1>1 DEF TypeOK, AtcResource
<1>3. SameSync(cr, cr) /\ SameSync(f, cr)
  <2>1. SameSync(cr, cr)
    BY <1>1 DEF SameSync
  <2>2. SameSync([cr EXCEPT !.status.latest = atc.newest], cr)
    <3>1. 0 \in 0 .. 2 /\ "" \in Healths
      BY DEF Healths
    <3> QED BY <1>1, <1>2, <3>1, CheckedType
  <2> QED BY <2>1, <2>2 DEF Fetched
<1>4. /\ faults' = faults \/ \E kind : Fault(kind)
      /\ UNCHANGED <<localVars, envVars, history>>
      /\ \E g \in {f, cr} : Step(setReady(g, "Ready"), "saveReady")
  BY DEF Fetch
<1> HIDE DEF f
<1>5. PICK g \in {f, cr} : Step(setReady(g, "Ready"), "saveReady")
  BY <1>4
<1>6. g \in Version /\ SameSync(g, cr)
  BY <1>3, <1>5 DEF SameSync
<1> DEFINE w == setReady(g, "Ready")
<1>7. /\ w \in Version /\ w.spec = g.spec /\ w.gen = g.gen
      /\ w.status.tracked = g.status.tracked /\ w.status.readyGen = g.gen
  BY <1>1, <1>6, SetReadyType
<1>8. Step(w, "saveReady")
  BY <1>5
<1> HIDE DEF w
<1> QED BY <1>1, <1>4, <1>6, <1>7, <1>8, ConcludingConsistent DEF SameSync

\* The status write.
LEMMA SaveStatusConsistent ==
    ASSUME Consistent, Slips, SaveStatus
    PROVE  Consistent'
<1> DEFINE v == [Latest EXCEPT !.status = cr.status]
<1>1. /\ pc \in Saves /\ pc # "idle" /\ cr \in Version /\ Latest \in Version
      /\ LoopOK(Version, Pcs) /\ "idle" \in Pcs /\ TypeOK
      /\ Save(SaveAgain, TRUE) /\ told' = {} /\ UNCHANGED <<localVars, envVars, mine>>
  BY Parts DEF SaveStatus, Saves
<1>2. SaveAgain \in BOOLEAN
  BY DEF SaveAgain
<1>3. /\ v \in Version /\ v.spec = Latest.spec /\ v.gen = Latest.gen
      /\ v.status = cr.status
  <2>1. cr.status \in Status
    BY <1>1, VersionParts
  <2> QED BY <1>1, <2>1, StatusWritten
<1>4. /\ LoopOK(Version, Pcs)' /\ cr' = NoCopy /\ pc' = "idle" /\ fresh' = FALSE
      /\ Readable' \subseteq Readable \cup {Latest'}
      /\ Latest' = Latest \/ (fresh /\ Latest' = v)
  BY <1>1, <1>2, <1>3, SaveLoop
<1>5. TypeOK'
  BY <1>1, <1>4, Typed DEF TypeOK, localVars, envVars
<1> HIDE DEF v
<1>6. done' = {} /\ mine' = mine
  <2>1. pc \notin Changing
    BY <1>1, Kinds
  <2> QED BY <1>1, <2>1 DEF Consistent, PassOK, localVars
<1>7. CASE Latest' = Latest
  <2>1. SameSpec
    BY <1>4, <1>7 DEF SameSpec
  <2> QED BY <1>1, <1>4, <1>5, <1>6, <2>1, QuietConsistent
<1>8. CASE fresh /\ Latest' = v
  BY <1>1, <1>3, <1>4, <1>5, <1>6, <1>8, SavedConsistent
<1> QED BY <1>4, <1>7, <1>8

-----------------------------------------------------------------------------
(***************************************************************************)
(* The environment.                                                        *)
(***************************************************************************)
\* The informer, the timers and restarts.
LEMMA ProcessConsistent ==
    ASSUME Consistent, Slips, Deliver \/ TimerFires \/ Crash
    PROVE  Consistent'
<1>1. CASE Deliver \/ TimerFires
  <2>1. /\ LoopOK(Version, Pcs)' /\ Latest' = Latest /\ Readable' \subseteq Readable
        /\ UNCHANGED <<fresh, pc, cr, faults>>
    BY <1>1, Parts, WakeLoop DEF Deliver, TimerFires
  <2>2. UNCHANGED <<localVars, envVars, history>>
    BY <1>1 DEF Deliver, TimerFires
  <2>3. TypeOK' /\ SameSpec
    BY <2>1, <2>2, Parts, Typed DEF TypeOK, SameSpec, localVars, envVars, history
  <2> QED BY <2>1, <2>2, <2>3, QuietConsistent DEF localVars, history
<1>2. CASE Crash
  <2>1. /\ LoopOK(Version, Pcs)' /\ Latest' = Latest /\ Readable' \subseteq Readable
        /\ pc' = "idle"
    BY <1>2, Parts, RestartLoop DEF Crash
  <2>2. /\ pipe' = "" /\ pinRead' = NoVersion /\ done' = {} /\ told' = {}
        /\ UNCHANGED <<envVars, mine>>
    BY <1>2 DEF Crash
  <2>3. TypeOK' /\ SameSpec
    BY <2>1, <2>2, Parts, Typed DEF TypeOK, SameSpec, envVars
  <2> QED BY <2>1, <2>2, <2>3, QuietConsistent
<1> QED BY <1>1, <1>2

\* An edit or a deletion.
LEMMA UserConsistent ==
    ASSUME Consistent, Slips, EditSpec \/ MarkDeleted
    PROVE  Consistent'
<1>1. /\ UNCHANGED <<localVars, envVars, history>> /\ TypeOK
      /\ Latest \in Version /\ LoopOK(Version, Pcs)
  BY Parts DEF EditSpec, MarkDeleted
<1>2. Latest.spec \in Spec_ /\ Specs \subseteq Spec_
  BY <1>1, VersionParts, SpecsAssumption DEF SpecsAssumption
<1>3. CASE EditSpec
  <2>1. PICK s \in Specs : Edit(s)
    BY <1>3 DEF EditSpec
  <2> DEFINE v == [Latest EXCEPT !.spec = s, !.gen = @ + 1]
  <2>2. v \in Version /\ v.gen = Latest.gen + 1 /\ v.status = Latest.status
    <3>1. s \in Spec_
      BY <1>2
    <3> QED BY <1>1, <3>1, UserVersions
  <2>3. UserWrites(v)
    BY <2>1 DEF Edit
  <2> HIDE DEF v
  <2>4. /\ LoopOK(Version, Pcs)' /\ Latest' = v
        /\ fresh' = FALSE /\ UNCHANGED <<pc, cr, faults>>
    BY <1>1, <2>2, <2>3, UserLoop
  <2>5. TypeOK'
    BY <1>1, <2>4, Typed DEF TypeOK, localVars, envVars, history
  <2> QED BY <1>1, <2>2, <2>4, <2>5, EditedConsistent DEF localVars
<1>4. CASE MarkDeleted
  <2>1. PICK l \in {"deleting", "gone"} : UserWrites([Latest EXCEPT !.life = l])
    BY <1>4 DEF MarkDeleted
  <2> DEFINE v == [Latest EXCEPT !.life = l]
  <2>2. /\ v \in Version /\ v.spec = Latest.spec /\ v.gen = Latest.gen
        /\ v.status = Latest.status
    BY <1>1, <1>2, UserVersions
  <2>3. UserWrites(v)
    BY <2>1
  <2> HIDE DEF v
  <2>4. /\ LoopOK(Version, Pcs)' /\ Latest' = v /\ Readable' = Readable \cup {v}
        /\ fresh' = FALSE /\ UNCHANGED <<pc, cr, faults>>
    BY <1>1, <2>2, <2>3, UserLoop
  <2>5. TypeOK' /\ SameSpec
    BY <1>1, <2>2, <2>4, Typed DEF TypeOK, SameSpec, localVars, envVars, history
  <2> QED BY <1>1, <2>4, <2>5, QuietConsistent DEF localVars, history
<1> QED BY <1>3, <1>4

\* The Pipeline and the ATC.
LEMMA OthersConsistent ==
    ASSUME Consistent, Slips,
           \/ PipelineBreaks \/ PipelineGoes \/ PipelineHeals
           \/ VersionFound \/ ResourceLeaves \/ ResourceReturns \/ OthersChange
    PROVE  Consistent'
<1>1. /\ UNCHANGED <<loopVars, edits, localVars, history>>
      /\ faults' = faults \/ \E kind : Fault(kind)
  BY DEF PipelineBreaks, PipelineGoes, PipelineHeals, VersionFound, ResourceLeaves,
         ResourceReturns, OthersChange, AtcMoves
<1>2. /\ LoopOK(Version, Pcs)' /\ Latest' = Latest /\ Readable' = Readable
      /\ UNCHANGED <<fresh, pc, cr>>
  BY <1>1, Parts, OthersLoop
<1>3. /\ pipe \in Pipelines \cup {""} /\ pipeline \in Pipelines
      /\ pinRead \in {NoVersion} \cup Versions /\ TypeOK
      /\ done \subseteq Versions /\ mine \subseteq Versions /\ told \subseteq Versions
      /\ atc \in AtcResource
  BY Parts DEF TypeOK
<1>4. pipeline' \in Pipelines
  BY <1>3 DEF PipelineBreaks, PipelineGoes, PipelineHeals, VersionFound, ResourceLeaves,
         ResourceReturns, OthersChange, AtcMoves, Pipelines
<1>5. MaxVersion \in Nat /\ atc.newest \in 0 .. MaxVersion
  <2>1. MaxVersion \in Nat
    BY ResourceAssumption DEF ResourceAssumption
  <2>2. atc.newest \in {0} \cup 1 .. MaxVersion
    BY <1>3 DEF AtcResource, Versions, NoVersion
  <2> QED BY <2>1, <2>2
<1>6. VersionFound => atc' \in AtcResource
  <2>1. atc.newest < MaxVersion => atc.newest + 1 \in {NoVersion} \cup Versions
    BY <1>5 DEF Versions
  <2> DEFINE n == atc.newest + 1
  <2>2. VersionFound => n \in {NoVersion} \cup Versions /\ atc' = [atc EXCEPT !.newest = n]
    BY <2>1 DEF VersionFound, AtcMoves
  <2> HIDE DEF n
  <2> QED BY <1>3, <2>2 DEF AtcResource
<1>7. ResourceLeaves \/ ResourceReturns => atc' \in AtcResource
  BY <1>3 DEF ResourceLeaves, ResourceReturns, AtcMoves, AtcResource
<1>8. OthersChange => atc' \in AtcResource
  <2> SUFFICES ASSUME OthersChange PROVE atc' \in AtcResource
    OBVIOUS
  <2>1. PICK v \in 1 .. atc.newest :
          \/ AtcMoves([atc EXCEPT !.pin = v])
          \/ AtcMoves([atc EXCEPT !.pin = NoVersion, !.comment = ""])
          \/ AtcMoves([atc EXCEPT !.disabled = @ \cup {v}])
          \/ AtcMoves([atc EXCEPT !.disabled = @ \ {v}])
    BY DEF OthersChange
  <2>2. v \in Versions
    BY <1>5 DEF Versions
  <2> QED BY <1>3, <2>1, <2>2 DEF AtcMoves, AtcResource
<1>9. atc' \in AtcResource
  BY <1>3, <1>6, <1>7, <1>8 DEF PipelineBreaks, PipelineGoes, PipelineHeals
<1>10. TypeOK' /\ SameSpec
  BY <1>1, <1>2, <1>3, <1>4, <1>9, Typed DEF SameSpec, localVars, history
<1> QED BY <1>1, <1>2, <1>10, QuietConsistent DEF localVars, history

-----------------------------------------------------------------------------
(***************************************************************************)
(* The theorems.                                                           *)
(***************************************************************************)
\* A controller starts with a Resource it has never reconciled.
LEMMA InitConsistent == Init => Consistent
<1> SUFFICES ASSUME Init PROVE Consistent
  OBVIOUS
<1>1. PICK s \in Specs : LoopInit(Created(s))
  BY DEF Init
<1>2. Created(s) \in Version /\ Created(s).status = NoStatus /\ Created(s).gen = 0
  BY CreatedType DEF Created
<1>3. "idle" \in Pcs
  BY DEF Pcs
<1>4. LoopOK(Version, Pcs) /\ Latest = Created(s)
  BY <1>1, <1>2, <1>3, LoopInitOK
<1>5. PICK v \in {NoVersion, 1} :
         atc = [exists |-> TRUE, pin |-> v, comment |-> "", disabled |-> {v} \ {NoVersion},
                newest |-> 1]
  BY DEF Init
<1>6. 1 \in Versions
  <2>1. MaxVersion \in Nat /\ MaxVersion # 0
    BY ResourceAssumption DEF ResourceAssumption
  <2> QED BY <2>1 DEF Versions
<1>7. atc \in AtcResource
  BY <1>5, <1>6 DEF AtcResource
<1>8. TypeOK
  BY <1>4, <1>7 DEF TypeOK, Init, Pipelines
<1>9. pc = "idle" /\ mine = {} /\ told = {} /\ done = {}
  BY <1>1 DEF LoopInit, Init
<1>10. ~ReadyNow /\ Latest.status.readyGen <= Latest.gen /\ Latest.status.tracked = {}
  <2>1. NoStatus.ready = "" /\ NoStatus.readyGen = 0 /\ NoStatus.tracked = {}
    BY DEF NoStatus
  <2>2. Latest.status = NoStatus /\ Latest.gen = 0
    BY <1>2, <1>4
  <2>3. Latest.status.ready = ""
    BY <2>1, <2>2, Zenon
  <2>4. ~ReadyNow
    BY <2>3 DEF ReadyNow
  <2>5. Latest.status.readyGen = 0 /\ Latest.status.tracked = {}
    BY <2>1, <2>2, Zenon
  <2> QED BY <2>2, <2>4, <2>5
<1> QED BY <1>8, <1>9, <1>10, Kinds DEF Consistent, CopyOK, StoredOK, RecordOK, PassOK

\* Every step keeps the invariant.
LEMMA NextConsistent == Consistent /\ [Next]_vars => Consistent'
<1> SUFFICES ASSUME Consistent, [Next]_vars PROVE Consistent'
  OBVIOUS
<1>1. CASE Reconcile /\ Slips
  BY <1>1, StartConsistent, SetOwnerConsistent, ResolveConsistent, ReadPinConsistent,
     UnpinConsistent, PinConsistent, LookupConsistent, DisableConsistent,
     EnableConsistent, CheckConsistent, FetchConsistent, SaveStatusConsistent
  DEF Reconcile
<1>2. CASE Environment /\ Slips
  BY <1>2, ProcessConsistent, UserConsistent, OthersConsistent DEF Environment
<1>3. CASE UNCHANGED vars
  <2>1. /\ UNCHANGED <<log, queued, timer, fresh, pc, cr, edits, faults>>
        /\ UNCHANGED <<pipe, pinRead, done, atc, pipeline, mine, told, slipped>>
    BY <1>3 DEF vars, loopVars, localVars, envVars, history
  <2>2. Latest' = Latest /\ Readable' = Readable
    BY <2>1 DEF Latest, Readable
  <2>3. TypeOK'
    BY <2>1, Zenon DEF Consistent, TypeOK, LoopOK
  <2>4. ReadyNow' <=> ReadyNow
    BY <2>2 DEF ReadyNow
  <2> QED BY <2>1, <2>2, <2>3, <2>4 DEF Consistent, CopyOK, StoredOK, RecordOK, PassOK
<1> QED BY <1>1, <1>2, <1>3 DEF Next

\* The invariant holds in every reachable state.
LEMMA AlwaysConsistent == Spec => []Consistent
BY InitConsistent, NextConsistent, PTL DEF Spec

\* Every variable keeps its type.
THEOREM TypeCorrect == Spec => []TypeOK
<1>1. Consistent => TypeOK
  BY DEF Consistent
<1> QED BY <1>1, AlwaysConsistent, PTL

\* Ready=True of the current generation means that the versions the operator keeps
\* disabled are the ones the spec lists, apart from those that slipped: what is
\* tracked was recorded by the pass that did it, and what a pass does is as its spec
\* says (syncDisabledVersions).  This holds also when passes work on old versions,
\* because all of them have the spec that is Ready.
THEOREM DisablesWhatIsListed == Spec => []DisabledAsListed
<1>1. Consistent => DisabledAsListed
  <2> SUFFICES ASSUME Consistent, ReadyNow, NEW v \in Versions \ slipped
               PROVE  v \in mine <=> v \in Latest.spec.disabled
    BY DEF DisabledAsListed, ReadyNow
  <2>1. CASE v \in told
    <3>1. pc # "idle" /\ (v \in mine <=> v \in cr.spec.disabled)
      BY <2>1 DEF Consistent, RecordOK
    <3> QED BY <3>1 DEF Consistent, CopyOK
  <2>2. CASE v \notin told
    BY <2>2 DEF Consistent, RecordOK, StoredOK
  <2> QED BY <2>1, <2>2
<1> QED BY <1>1, AlwaysConsistent, PTL

\* A version is enabled in the ATC by one step of a pass at a time, the least of
\* those that are to be enabled.
LEMMA EnablesOne ==
    ASSUME Consistent, Next, pc = "enable", <<pc, done>>' # <<pc, done>>,
           NEW v \in atc.disabled \ atc'.disabled
    PROVE  v \in ToEnable
<1>1. Reconcile \/ Environment
  BY DEF Next
<1>2. atc' # atc
  OBVIOUS
<1>3. ~Environment
  BY <1>2 DEF Environment, Deliver, TimerFires, Crash, EditSpec, MarkDeleted,
              PipelineBreaks, PipelineGoes, PipelineHeals, VersionFound, ResourceLeaves,
              ResourceReturns, OthersChange, AtcMoves, DeliverVersion, Fires, UserWrites,
              Edit, loopVars, localVars, envVars
<1>4. /\ ToEnable # {}
      /\ UNCHANGED <<atc, history>> \/ AtcSets(Min(ToEnable), FALSE)
  BY <1>1, <1>2, <1>3
  DEF Reconcile, StartNothing, StartSuspended, StartPipelineMissing, StartLive, Take,
      Ignore, SetOwner, Resolve, ReadPin, ReadPinFails, Unpin, UnpinFails, SetComment,
      PinInPlace, FindPin, FindPinFails, Pin, PinFails, Lookup, LookupFails, Disable,
      DisableFails, DisableDone, Enable, EnableFails, EnableDone, Check, Fetch,
      SaveStatus, Saves, envVars
<1>5. pc \in Syncing
  BY DEF Syncing
<1>6. /\ Min(ToEnable) \in ToEnable /\ ToEnable \subseteq Versions
      /\ atc \in AtcResource /\ mine \subseteq Versions /\ told \subseteq Versions
  BY <1>4, <1>5, ChangedVersions, InPass
<1> DEFINE m == Min(ToEnable)
<1>7. m \in ToEnable /\ m \in Versions /\ AtcSets(m, FALSE)
  BY <1>2, <1>4, <1>6
<1> HIDE DEF m
<1>8. atc.disabled \ atc'.disabled \subseteq {m}
  BY <1>6, <1>7, SetsVersion
<1> QED BY <1>7, <1>8

\* The operator enables only what it disabled itself, or what slipped: what others
\* disabled with fly stays disabled (syncDisabledVersions).  This needs a cache
\* that is up to date: a pass over an old status enables a version again that a
\* later pass has enabled already and that somebody disabled since.
THEOREM EnablesOnlyItsOwn ==
    ASSUME InformerLag = FALSE
    PROVE  Spec => OnlyOwnEnabled
<1>1. ASSUME Consistent, [Next]_vars
      PROVE  [(pc = "enable" /\ <<pc, done>>' # <<pc, done>>) =>
                 \A v \in atc.disabled \ atc'.disabled : v \in mine \cup slipped]_vars
  <2> SUFFICES ASSUME Next, pc = "enable", <<pc, done>>' # <<pc, done>>,
                      NEW v \in atc.disabled \ atc'.disabled
               PROVE  v \in mine \cup slipped
    BY <1>1
  <2>1. v \in ToEnable
    BY <1>1, EnablesOne
  <2>2. pc \in Syncing
    BY DEF Syncing
  <2>3. v \in Versions /\ v \in cr.status.tracked \ done
    BY <1>1, <2>1, <2>2, ChangedVersions
  <2>4. told \subseteq done /\ cr.status.tracked = Latest.status.tracked
    BY <1>1, <2>2, Kinds DEF Consistent, PassOK
  <2> QED BY <1>1, <2>3, <2>4 DEF Consistent, RecordOK
<1> QED BY <1>1, AlwaysConsistent, PTL DEF Spec, OnlyOwnEnabled

=============================================================================
