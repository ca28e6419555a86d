------------------------- MODULE JobController_proofs -------------------------
(***************************************************************************)
(* Proofs about JobController, for every number of Builds, every order in  *)
(* which they are created and end, every set of limits, TTLs and faults,   *)
(* every bound, and with or without informer lag.  What concerns the       *)
(* history limits is proved for Builds with different creationTimestamps.  *)
(***************************************************************************)
EXTENDS JobController, Reconciler_proofs, FiniteSetTheorems

-----------------------------------------------------------------------------
(***************************************************************************)
(* Types of what Reconcile builds.                                         *)
(***************************************************************************)
\* The parts of a version.
LEMMA VersionParts ==
    ASSUME NEW v \in Version
    PROVE  /\ v.spec \in Spec_ /\ v.status \in Status /\ v.gen \in Nat
           /\ v.spec.successLimit \in Nat /\ v.spec.failLimit \in Nat
           /\ \A state : Limit(v.spec, state) \in Nat
<1>1. v.spec \in Spec_ /\ v.status \in Status /\ v.gen \in Nat
  BY DEF Version
<1>2. v.spec.successLimit \in Nat /\ v.spec.failLimit \in Nat
  BY <1>1 DEF Spec_
<1> QED BY <1>1, <1>2 DEF Limit

\* A Ready condition changes the status only.
LEMMA SetReadyType ==
    ASSUME NEW v \in Version, NEW r \in ReadyReasons
    PROVE  setReady(v, r) \in Version /\ setReady(v, r).spec = v.spec
BY DEF setReady, Version, Status

\* What the other steps of Reconcile change of a version.
LEMMA WrittenType ==
    ASSUME NEW v \in Version, NEW s \in Status, NEW p \in BOOLEAN
    PROVE  /\ [v EXCEPT !.owned = TRUE] \in Version
           /\ [v EXCEPT !.status = s] \in Version
           /\ [v EXCEPT !.status.paused = Flag(p)] \in Version
           /\ [v EXCEPT !.status.paused = Flag(p)].spec = v.spec
<1>1. Flag(p) \in {"", "False", "True"}
  BY DEF Flag
<1> QED BY <1>1 DEF Version, Status

\* What the writes of users change of it.
LEMMA UserVersions ==
    ASSUME NEW v \in Version, NEW s \in Spec_, NEW life \in {"deleting", "gone"}
    PROVE  /\ [v EXCEPT !.spec = s, !.gen = @ + 1] \in Version
           /\ [v EXCEPT !.life = life] \in Version
<1> DEFINE g == v.gen + 1
<1>1. g \in Nat
  BY DEF Version
<1> HIDE DEF g
<1>2. [v EXCEPT !.spec = s, !.gen = g] \in Version
  BY <1>1 DEF Version
<1>3. [v EXCEPT !.life = life] \in Version
  BY DEF Version
<1> QED BY <1>2, <1>3 DEF g

\* A Job starts as a version.
LEMMA CreatedType ==
    ASSUME NEW s \in Specs
    PROVE  Created(s) \in Version
<1>1. s \in Spec_
  BY SpecsAssumption DEF SpecsAssumption
<1> QED BY <1>1 DEF Created, Version, Status, ReadyReasons

-----------------------------------------------------------------------------
(***************************************************************************)
(* The lists of Builds, from the informer's to the server's.               *)
(***************************************************************************)
BuildList == [Builds -> BuildStates]

\* The lists that may still be read.
Lists == {builds[i] : i \in DOMAIN builds}

\* Both ends of the history are lists.
LEMMA ListEnds ==
    ASSUME LogOK(builds, BuildList)
    PROVE  /\ Server \in BuildList /\ Cache \in BuildList
           /\ Server \in Lists /\ Cache \in Lists /\ Lists \subseteq BuildList
<1>1. Len(builds) \in Nat /\ Len(builds) > 0 /\ DOMAIN builds = 1 .. Len(builds)
  BY DEF LogOK
<1>2. \A i \in 1 .. Len(builds) : builds[i] \in BuildList
  BY DEF LogOK
<1>3. 1 \in 1 .. Len(builds) /\ Len(builds) \in 1 .. Len(builds)
  BY <1>1
<1> QED BY <1>1, <1>2, <1>3 DEF Lists, Server, Cache

\* A change of a Build makes a new list.
LEMMA ListsGrow ==
    ASSUME LogOK(builds, BuildList), NEW l \in BuildList, builds' = Append(builds, l)
    PROVE  LogOK(builds', BuildList) /\ Server' = l /\ Lists' = Lists \cup {l}
<1>1. LogOK(builds', BuildList) /\ Server' = l
  BY DEF LogOK, Server
<1>2. /\ DOMAIN builds = 1 .. Len(builds)
      /\ DOMAIN builds' = DOMAIN builds \cup {Len(builds) + 1}
      /\ \A i \in DOMAIN builds : builds'[i] = builds[i]
      /\ builds'[Len(builds) + 1] = l
  BY DEF LogOK
<1>3. Lists' = Lists \cup {l}
  BY <1>2 DEF Lists
<1> QED BY <1>1, <1>3

\* Delivery and restarts forget old lists.
LEMMA ListsShrink ==
    ASSUME LogOK(builds, BuildList),
           (Len(builds) > 1 /\ builds' = Tail(builds)) \/ builds' = <<Server>>
    PROVE  LogOK(builds', BuildList) /\ Server' = Server /\ Lists' \subseteq Lists
<1>1. CASE Len(builds) > 1 /\ builds' = Tail(builds)
  <2>1. /\ LogOK(builds', BuildList) /\ Len(builds') = Len(builds) - 1
        /\ builds'[Len(builds')] = builds[Len(builds)]
    BY <1>1 DEF LogOK
  <2>2. /\ DOMAIN builds = 1 .. Len(builds) /\ DOMAIN builds' = 1 .. (Len(builds) - 1)
        /\ \A i \in DOMAIN builds' : builds'[i] = builds[i + 1]
    BY <1>1, <2>1 DEF LogOK
  <2>3. Len(builds) \in Nat
    BY DEF LogOK
  <2>4. Lists' \subseteq Lists
    BY <2>2, <2>3 DEF Lists
  <2> QED BY <2>1, <2>4 DEF Server
<1>2. CASE builds' = <<Server>>
  <2>1. Server \in BuildList /\ Server \in Lists
    BY ListEnds
  <2>2. Lists' = {Server}
    BY <1>2 DEF Lists
  <2> QED BY <1>2, <2>1, <2>2 DEF LogOK, Server
<1> QED BY <1>1, <1>2

\* Nothing happened to the Builds.
LEMMA ListsStay ==
    ASSUME LogOK(builds, BuildList), builds' = builds
    PROVE  LogOK(builds', BuildList) /\ Server' = Server /\ Lists' = Lists
BY DEF Server, Lists

\* A list after another one: what has ended stays so until it is gone, and what is
\* gone stays gone.
Later(l, m) ==
    \A b \in Builds : m[b] = l[b] \/ l[b] = "open" \/ (l[b] \in Ended /\ m[b] = "gone")

\* What has ended in one way never ends in the other.
LEMMA StaysEnded ==
    ASSUME NEW l, NEW m, Later(l, m), NEW b \in Builds, NEW k \in Ended,
           l[b] \in {k, "gone"}
    PROVE  m[b] \in {k, "gone"}
BY DEF Later, Ended

\* Sets of Builds are finite, and the larger one has as many members.
LEMMA BuildsFinite ==
    ASSUME NEW S \in SUBSET Builds, NEW T \in SUBSET S
    PROVE  /\ IsFiniteSet(S) /\ Cardinality(S) \in Nat /\ Cardinality(T) \in Nat
           /\ Cardinality(T) <= Cardinality(S)
<1>1. NumBuilds \in Nat
  BY JobAssumption DEF JobAssumption
<1>2. IsFiniteSet(Builds)
  BY <1>1, FS_Interval DEF Builds
<1>3. IsFiniteSet(S) /\ IsFiniteSet(T)
  BY <1>2, FS_Subset
<1> QED BY <1>3, FS_Subset, FS_CardinalityType

\* Creation times are numbers, and the other sets are Builds.
LEMMA Times ==
    /\ \A b \in Builds : Born[b] \in Nat
    /\ WithTTL \subseteq Builds /\ Foreign \subseteq Builds
BY JobAssumption DEF JobAssumption

-----------------------------------------------------------------------------
(***************************************************************************)
(* Enough newer Builds.                                                    *)
(***************************************************************************)
\* Builds have creationTimestamps of their own.
Distinct == \A a, b \in Builds : a # b => Born[a] # Born[b]

\* Builds newer than b that have ended in the same way, or have been deleted, and
\* that this controller leaves alone as long as n are to be kept, or that are past
\* their TTL.
Newer(b, outcome, n) ==
    {c \in Spared(n) \cup (expired \ Foreign) :
        Born[c] > Born[b] /\ Server[c] \in {outcome, "gone"}}

\* Whatever limit up to this one there is, b is beyond it.
Enough(b, outcome, limit) ==
    Distinct => \A n \in 0 .. limit : Cardinality(Newer(b, outcome, n)) >= n

\* What makes up the newer Builds are Builds.
LEMMA NewerBuilds ==
    TypeOK => \A b, outcome, n : Newer(b, outcome, n) \subseteq Builds
BY Times DEF TypeOK, Newer, Spared

\* The same after a step.
LEMMA NewerBuildsNext ==
    TypeOK' => \A b, outcome, n : Newer(b, outcome, n)' \subseteq Builds
<1>1. TypeOK' => (\A b, outcome, n : Newer(b, outcome, n) \subseteq Builds)'
  BY NewerBuilds, PTL
<1> QED BY <1>1

\* As long as nothing is pruned, newer Builds only become more.
LEMMA EnoughStays ==
    ASSUME TypeOK, TypeOK', Later(Server, Server'), pruned' = pruned,
           expired \subseteq expired',
           NEW b \in Builds, NEW k \in Ended, NEW limit \in Nat, Enough(b, k, limit)
    PROVE  Enough(b, k, limit)'
<1> SUFFICES ASSUME Distinct, NEW n \in 0 .. limit
             PROVE  Cardinality(Newer(b, k, n)') >= n
  BY DEF Enough
<1>1. Cardinality(Newer(b, k, n)) >= n
  BY DEF Enough
<1>2. Newer(b, k, n)' \subseteq Builds
  BY NewerBuildsNext
<1>3. Newer(b, k, n) \subseteq Newer(b, k, n)'
  <2> SUFFICES ASSUME NEW c \in Newer(b, k, n) PROVE c \in Newer(b, k, n)'
    OBVIOUS
  <2>1. c \in Builds
    BY NewerBuilds
  <2>2. Server'[c] \in {k, "gone"}
    BY <2>1, StaysEnded DEF Newer
  <2> QED BY <2>2 DEF Newer, Spared
<1>4. /\ Cardinality(Newer(b, k, n)) <= Cardinality(Newer(b, k, n)')
      /\ Cardinality(Newer(b, k, n)) \in Nat /\ Cardinality(Newer(b, k, n)') \in Nat
  BY <1>2, <1>3, BuildsFinite
<1> QED BY <1>1, <1>4

\* When a Build is pruned that is past its TTL or itself beyond the limit, others
\* are beyond their limits as before: if it was one of the Builds newer than
\* another one, those newer than it are, too.
LEMMA EnoughAfterPrune ==
    ASSUME TypeOK, TypeOK', expired' = expired,
           NEW d \in Builds \ Foreign, NEW kd \in Ended, NEW lim \in Nat,
           Server[d] = kd, Server' = [Server EXCEPT ![d] = "gone"],
           pruned' = pruned \cup {<<d, lim>>},
           d \in expired \/ Enough(d, kd, lim),
           NEW b \in Builds, NEW k \in Ended, NEW limit \in Nat, Enough(b, k, limit)
    PROVE  Enough(b, k, limit)'
<1> SUFFICES ASSUME Distinct, NEW n \in 0 .. limit
             PROVE  Cardinality(Newer(b, k, n)') >= n
  BY DEF Enough
<1>1. Newer(b, k, n)' \subseteq Builds /\ Newer(b, k, n) \subseteq Builds
  BY NewerBuilds, NewerBuildsNext
<1>2. Server \in BuildList
  BY ListEnds DEF TypeOK, LogOK, BuildList
<1>3. \A c \in Builds : Server[c] \in {k, "gone"} => Server'[c] \in {k, "gone"}
  BY <1>2 DEF BuildList
<1>4. \A c \in Spared(n) : c # d \/ lim < n => c \in Spared(n)'
  BY DEF Spared
<1>5. \A c \in Newer(b, k, n) :
         c # d \/ lim < n \/ d \in expired => c \in Newer(b, k, n)'
  BY <1>1, <1>3, <1>4 DEF Newer
<1>6. PICK S \in SUBSET Newer(b, k, n)' : Cardinality(S) >= n
  <2>1. CASE d \notin Newer(b, k, n) \/ lim < n \/ d \in expired
    <3>1. Newer(b, k, n) \subseteq Newer(b, k, n)'
      BY <1>5, <2>1
    <3> QED BY <3>1 DEF Enough
  <2>2. CASE d \in Newer(b, k, n) /\ ~(lim < n) /\ d \notin expired
    <3>1. kd = k /\ Born[d] > Born[b]
      BY <2>2 DEF Newer, Ended
    <3>2. n \in 0 .. lim
      BY <2>2
    <3>3. Cardinality(Newer(d, k, n)) >= n
      BY <2>2, <3>1, <3>2 DEF Enough
    <3>4. Born[b] \in Nat /\ Born[d] \in Nat /\ \A c \in Builds : Born[c] \in Nat
      BY Times
    <3>5. Newer(d, k, n) \subseteq Builds
      BY NewerBuilds
    <3>6. \A c \in Newer(d, k, n) : c # d /\ c \in Newer(b, k, n)
      BY <3>1, <3>4, <3>5 DEF Newer
    <3>7. Newer(d, k, n) \subseteq Newer(b, k, n)'
      BY <1>5, <3>6
    <3> QED BY <3>3, <3>7
  <2> QED BY <2>1, <2>2
<1>7. /\ Cardinality(S) <= Cardinality(Newer(b, k, n)')
      /\ Cardinality(S) \in Nat /\ Cardinality(Newer(b, k, n)') \in Nat
  BY <1>1, BuildsFinite
<1> QED BY <1>6, <1>7

-----------------------------------------------------------------------------
(***************************************************************************)
(* The inductive invariant.                                                *)
(***************************************************************************)
\* A copy in use is a version.
CopyOK == pc # "idle" => cr \in Version

\* The server's list comes after every list that may still be read.
Onward == \A l \in Lists : Later(l, Server)

\* What was pruned is gone; and as long as a list still shows it, it is past its
\* TTL or beyond the limit under which it was pruned.
HistoryOK ==
    \A p \in pruned :
        /\ p[1] \in Builds /\ p[2] \in Nat
        /\ Server[p[1]] = "gone"
        /\ \A l \in Lists :
              l[p[1]] \in Ended => p[1] \in expired \/ Enough(p[1], l[p[1]], p[2])

\* A Build is beyond the limit that the pass under way has read.
BeyondLimit(b, outcome) == Enough(b, outcome, Limit(cr.spec, outcome))

\* What is to be pruned has ended, if it is not gone, and is past its TTL or beyond
\* its limit, whatever has happened since the list was read.
DoomedOK ==
    /\ pc # "prune" => doomed = NoDoomed
    /\ \A b \in doomed.expired :
          b \in expired /\ b \notin Foreign /\ Server[b] \in Ended \cup {"gone"}
    /\ \A k \in Ended : \A b \in doomed[k] :
          b \notin Foreign /\ Server[b] \in {k, "gone"} /\ BeyondLimit(b, k)

Consistent == TypeOK /\ CopyOK /\ Onward /\ HistoryOK /\ DoomedOK

\* The loop is well typed, and so is a copy in use.
LEMMA Parts ==
    ASSUME Consistent
    PROVE  /\ TypeOK /\ LoopOK(Version, Pcs)
           /\ Latest \in Version /\ Cached \in Version
           /\ pc # "idle" => cr \in Version
           /\ "idle" \in Pcs /\ Saves \subseteq Pcs
           /\ LogOK(builds, BuildList)
<1>1. LoopOK(Version, Pcs) /\ LogOK(builds, BuildList)
  BY DEF Consistent, TypeOK, LogOK, BuildList
<1> QED BY <1>1, LoopParts DEF Consistent, CopyOK, Pcs

\* TypeOK from its parts.
LEMMA Typed ==
    ASSUME LoopOK(Version, Pcs)', doomed' \in [DOMAIN NoDoomed -> SUBSET Builds],
           LogOK(builds', BuildList),
           expired' \subseteq WithTTL, pruned' \subseteq Builds \X Nat,
           atc' \in AtcJob, chain' \in BOOLEAN
    PROVE  TypeOK'
BY DEF TypeOK, LogOK, BuildList

\* Nothing to be pruned is a set of Builds for each reason, and so is any other
\* choice of them.
LEMMA DoomedType ==
    /\ DOMAIN NoDoomed = {"expired", "succeeded", "failed"}
    /\ \A S, T, U \in SUBSET Builds :
          [expired |-> S, succeeded |-> T, failed |-> U] \in [DOMAIN NoDoomed -> SUBSET Builds]
    /\ NoDoomed \in [DOMAIN NoDoomed -> SUBSET Builds]
    /\ \A k \in DOMAIN NoDoomed : NoDoomed[k] = {}
    /\ NoDoomed.expired = {} /\ NoDoomed.succeeded = {} /\ NoDoomed.failed = {}
BY DEF NoDoomed

\* Nothing to be pruned needs nothing.
LEMMA NoneDoomed ==
    ASSUME doomed' = NoDoomed
    PROVE  DoomedOK'
<1>1. \A k \in Ended : NoDoomed[k] = {}
  BY DoomedType DEF Ended
<1> QED BY <1>1, DoomedType DEF DoomedOK

\* A list after the server's comes after all that were.
LEMMA OnwardStays ==
    ASSUME Onward, Later(Server, Server'), Lists' \subseteq Lists \cup {Server'}
    PROVE  Onward'
<1> SUFFICES ASSUME NEW l \in Lists PROVE Later(l, Server')
  BY DEF Onward, Later
<1>1. Later(l, Server)
  BY DEF Onward
<1> QED BY <1>1 DEF Later, Ended

\* Any step but the beginning of a pruning and a deletion.
LEMMA QuietConsistent ==
    ASSUME Consistent, TypeOK', CopyOK', pruned' = pruned, expired \subseteq expired',
           Later(Server, Server'), Lists' \subseteq Lists \cup {Server'},
           \/ doomed' = NoDoomed
           \/ doomed' = doomed /\ (pc = "prune" => pc' = pc /\ cr'.spec = cr.spec)
    PROVE  Consistent'
<1>1. Onward'
  BY OnwardStays DEF Consistent
<1>2. HistoryOK'
  <2> SUFFICES ASSUME NEW p \in pruned
               PROVE  /\ p[1] \in Builds /\ p[2] \in Nat
                      /\ Server'[p[1]] = "gone"
                      /\ \A l \in Lists' :
                            l[p[1]] \in Ended
                               => p[1] \in expired' \/ Enough(p[1], l[p[1]], p[2])'
    BY DEF HistoryOK
  <2>1. p[1] \in Builds /\ p[2] \in Nat /\ Server[p[1]] = "gone"
    BY DEF Consistent, HistoryOK
  <2>2. Server'[p[1]] = "gone"
    BY <2>1 DEF Later, Ended
  <2>3. ASSUME NEW l \in Lists', l[p[1]] \in Ended
        PROVE  p[1] \in expired' \/ Enough(p[1], l[p[1]], p[2])'
    <3>1. l \in Lists
      BY <2>2, <2>3 DEF Ended
    <3>2. p[1] \in expired \/ Enough(p[1], l[p[1]], p[2])
      BY <2>3, <3>1 DEF Consistent, HistoryOK
    <3> DEFINE k == l[p[1]]
               b == p[1]
               n == p[2]
    <3>3. b \in Builds /\ k \in Ended /\ n \in Nat
      BY <2>1, <2>3
    <3>4. Enough(b, k, n) => Enough(b, k, n)'
      <4> HIDE DEF b, k, n
      <4> QED BY <3>3, EnoughStays DEF Consistent
    <3> QED BY <3>2, <3>4
  <2> QED BY <2>1, <2>2, <2>3
<1>3. DoomedOK'
  <2>1. CASE doomed' = NoDoomed
    BY <2>1, NoneDoomed
  <2>2. CASE doomed' = doomed /\ pc # "prune"
    BY <2>2, NoneDoomed DEF Consistent, DoomedOK
  <2>3. CASE doomed' = doomed /\ pc = "prune" /\ pc' = pc /\ cr'.spec = cr.spec
    <3>1. doomed.expired \subseteq Builds /\ \A k \in Ended : doomed[k] \subseteq Builds
      BY DoomedType DEF Consistent, TypeOK, Ended
    <3>2. \A b \in doomed.expired :
             b \in expired' /\ b \notin Foreign /\ Server'[b] \in Ended \cup {"gone"}
      BY <3>1, StaysEnded DEF Consistent, DoomedOK, Ended
    <3>3. ASSUME NEW k \in Ended, NEW b \in doomed[k]
          PROVE  b \notin Foreign /\ Server'[b] \in {k, "gone"} /\ BeyondLimit(b, k)'
      <4>1. b \in Builds /\ b \notin Foreign /\ Server[b] \in {k, "gone"}
        BY <3>1 DEF Consistent, DoomedOK
      <4>2. Server'[b] \in {k, "gone"}
        BY <4>1, StaysEnded
      <4>3. PICK n \in Nat : n = Limit(cr.spec, k)
        BY <2>3, VersionParts DEF Consistent, CopyOK
      <4>4. Enough(b, k, n)
        BY <4>3 DEF Consistent, DoomedOK, BeyondLimit, Enough
      <4>5. Enough(b, k, n)'
        BY <4>1, <4>4, EnoughStays DEF Consistent
      <4>6. n = Limit(cr'.spec, k)
        BY <2>3, <4>3
      <4>7. BeyondLimit(b, k)'
        BY <4>5, <4>6 DEF BeyondLimit, Enough
      <4> QED BY <4>1, <4>2, <4>7
    <3> QED BY <2>3, <3>2, <3>3 DEF DoomedOK
  <2> QED BY <2>1, <2>2, <2>3
<1> QED BY <1>1, <1>2, <1>3 DEF Consistent

\* A deletion in the middle of pruning: what is left to be pruned is as much beyond
\* its limit as before, and the deleted Build is gone for the rest of the history.
LEMMA PrunedConsistent ==
    ASSUME Consistent, TypeOK', CopyOK', pc = "prune", expired' = expired,
           NEW d \in Builds \ Foreign, NEW kd \in Ended, NEW lim \in Nat,
           Server[d] = kd, Server' = [Server EXCEPT ![d] = "gone"],
           Lists' \subseteq Lists \cup {Server'},
           pruned' = pruned \cup {<<d, lim>>},
           d \in expired \/ Enough(d, kd, lim),
           \/ doomed' = NoDoomed
           \/ /\ \A k \in DOMAIN NoDoomed : doomed'[k] \subseteq doomed[k]
              /\ pc' = "prune" /\ cr'.spec = cr.spec
    PROVE  Consistent'
<1>1. Server \in BuildList
  BY Parts, ListEnds
<1>2. Later(Server, Server') /\ Server'[d] = "gone"
  BY <1>1 DEF Later, BuildList
<1>3. Onward'
  BY <1>2, OnwardStays DEF Consistent
<1>4. \A b \in Builds, k \in Ended, n \in Nat : Enough(b, k, n) => Enough(b, k, n)'
  BY EnoughAfterPrune DEF Consistent
<1>5. HistoryOK'
  <2> SUFFICES ASSUME NEW p \in pruned'
               PROVE  /\ p[1] \in Builds /\ p[2] \in Nat
                      /\ Server'[p[1]] = "gone"
                      /\ \A l \in Lists' :
                            l[p[1]] \in Ended
                               => p[1] \in expired \/ Enough(p[1], l[p[1]], p[2])'
    BY DEF HistoryOK
  <2>1. PICK b, n : b = p[1] /\ n = p[2]
    OBVIOUS
  <2>2. CASE p \in pruned
    <3>1. b \in Builds /\ n \in Nat /\ Server[b] = "gone"
      BY <2>1, <2>2 DEF Consistent, HistoryOK
    <3>2. Server'[b] = "gone"
      BY <1>2, <3>1 DEF Later, Ended
    <3>3. ASSUME NEW l \in Lists', l[b] \in Ended
          PROVE  b \in expired \/ Enough(b, l[b], n)'
      <4>1. l \in Lists
        BY <3>2, <3>3 DEF Ended
      <4>2. b \in expired \/ Enough(b, l[b], n)
        BY <2>1, <2>2, <3>3, <4>1 DEF Consistent, HistoryOK
      <4> QED BY <1>4, <3>1, <3>3, <4>2
    <3> QED BY <2>1, <3>1, <3>2, <3>3
  <2>3. CASE p = <<d, lim>>
    <3>1. b = d /\ n = lim
      BY <2>1, <2>3
    <3>2. ASSUME NEW l \in Lists', l[b] \in Ended
          PROVE  b \in expired \/ Enough(b, l[b], n)'
      <4>1. l \in Lists
        BY <1>2, <3>1, <3>2 DEF Ended
      <4>2. Later(l, Server)
        BY <4>1 DEF Consistent, Onward
      <4>3. l[b] = kd
        BY <3>1, <3>2, <4>2 DEF Later, Ended
      <4> QED BY <1>4, <3>1, <4>3
    <3> QED BY <1>2, <2>1, <3>1, <3>2
  <2> QED BY <2>2, <2>3
<1>6. DoomedOK'
  <2>1. CASE doomed' = NoDoomed
    BY <2>1, NoneDoomed
  <2>2. CASE /\ \A k \in DOMAIN NoDoomed : doomed'[k] \subseteq doomed[k]
             /\ pc' = "prune" /\ cr'.spec = cr.spec
    <3>1. doomed.expired \subseteq Builds /\ \A k \in Ended : doomed[k] \subseteq Builds
      BY DoomedType DEF Consistent, TypeOK, Ended
    <3>2. /\ doomed'.expired \subseteq doomed.expired
          /\ \A k \in Ended : doomed'[k] \subseteq doomed[k]
      BY <2>2, DoomedType DEF Ended
    <3>3. \A b \in doomed'.expired :
             b \in expired' /\ b \notin Foreign /\ Server'[b] \in Ended \cup {"gone"}
      BY <1>2, <3>1, <3>2, StaysEnded DEF Consistent, DoomedOK, Ended
    <3>4. ASSUME NEW k \in Ended, NEW b \in doomed'[k]
          PROVE  b \notin Foreign /\ Server'[b] \in {k, "gone"} /\ BeyondLimit(b, k)'
      <4>1. b \in Builds /\ b \notin Foreign /\ Server[b] \in {k, "gone"}
        BY <3>1, <3>2 DEF Consistent, DoomedOK
      <4>2. Server'[b] \in {k, "gone"}
        BY <1>2, <4>1, StaysEnded
      <4>3. PICK n \in Nat : n = Limit(cr.spec, k)
        BY VersionParts DEF Consistent, CopyOK
      <4>4. Enough(b, k, n)
        BY <3>2, <4>3 DEF Consistent, DoomedOK, BeyondLimit, Enough
      <4>5. Enough(b, k, n)'
        BY <1>4, <4>1, <4>4
      <4>6. n = Limit(cr'.spec, k)
        BY <2>2, <4>3
      <4>7. BeyondLimit(b, k)'
        BY <4>5, <4>6 DEF BeyondLimit, Enough
      <4> QED BY <4>1, <4>2, <4>7
    <3> QED BY <2>2, <3>3, <3>4 DEF DoomedOK
  <2> QED BY <2>1, <2>2
<1> QED BY <1>3, <1>5, <1>6 DEF Consistent

\* What pruneBuilds picks from an old list is beyond the limit: the Builds it keeps
\* are spared, or one of them was pruned under this limit or a higher one and had
\* as many newer ones.
LEMMA BeyondIsBeyond ==
    ASSUME Consistent, NEW k \in Ended, NEW limit \in Nat,
           NEW D \in Beyond(Kept(Cache, k), limit), NEW b \in D
    PROVE  b \in Builds \ Foreign /\ Server[b] \in {k, "gone"} /\ Enough(b, k, limit)
<1> DEFINE S == Kept(Cache, k)
<1>1. /\ D \in SUBSET S /\ \A d \in D, c \in S \ D : Born[d] <= Born[c]
      /\ Cardinality(S \ D) = limit
  BY DEF Beyond
<1>2. \A c \in S : c \in Builds \ Foreign /\ Cache[c] = k /\ c \notin expired
  BY DEF Kept, Own, Expires
<1>3. Cache \in Lists /\ Later(Cache, Server)
  BY Parts, ListEnds DEF Consistent, Onward
<1>4. \A c \in S : Server[c] \in {k, "gone"}
  BY <1>2, <1>3, StaysEnded
<1>5. Enough(b, k, limit)
  <2> SUFFICES ASSUME Distinct, NEW n \in 0 .. limit
               PROVE  Cardinality(Newer(b, k, n)) >= n
    BY DEF Enough
  <2> HIDE DEF S
  <2>1. \A c \in S \ D : Born[c] > Born[b]
    <3> SUFFICES ASSUME NEW c \in S \ D PROVE Born[c] > Born[b]
      OBVIOUS
    <3>1. c \in Builds /\ b \in Builds /\ c # b /\ Born[b] <= Born[c]
      BY <1>1, <1>2
    <3>2. Born[c] \in Nat /\ Born[b] \in Nat /\ Born[c] # Born[b]
      BY <3>1, Times DEF Distinct
    <3> QED BY <3>1, <3>2
  <2>2. PICK T \in SUBSET Newer(b, k, n) : Cardinality(T) >= n
    <3>1. CASE S \ D \subseteq Spared(n)
      <4>1. S \ D \subseteq Newer(b, k, n)
        BY <1>4, <2>1, <3>1 DEF Newer
      <4> QED BY <1>1, <4>1
    <3>2. CASE ~(S \ D \subseteq Spared(n))
      <4>1. PICK c \in S \ D, p \in pruned : p[1] = c /\ ~(p[2] < n)
        BY <1>2, <3>2 DEF Spared
      <4>2. Enough(c, k, p[2]) /\ p[2] \in Nat
        BY <1>2, <1>3, <4>1 DEF Consistent, HistoryOK
      <4>3. n \in 0 .. p[2]
        BY <4>1, <4>2
      <4>4. Cardinality(Newer(c, k, n)) >= n
        BY <4>2, <4>3 DEF Enough
      <4>5. Newer(c, k, n) \subseteq Newer(b, k, n)
        <5>1. Newer(c, k, n) \subseteq Builds
          BY NewerBuilds DEF Consistent
        <5>2. Born[c] > Born[b] /\ c \in Builds /\ b \in Builds
          BY <1>1, <1>2, <2>1
        <5> QED BY <5>1, <5>2, Times DEF Newer
      <4> QED BY <4>4, <4>5
    <3> QED BY <3>1, <3>2
  <2>3. Newer(b, k, n) \subseteq Builds
    BY NewerBuilds DEF Consistent
  <2>4. /\ Cardinality(T) <= Cardinality(Newer(b, k, n))
        /\ Cardinality(T) \in Nat /\ Cardinality(Newer(b, k, n)) \in Nat
    BY <2>3, BuildsFinite
  <2> QED BY <2>2, <2>4
<1> QED BY <1>1, <1>2, <1>4, <1>5

-----------------------------------------------------------------------------
(***************************************************************************)
(* Each action keeps the invariant.                                        *)
(***************************************************************************)
\* A Job starts with Builds that nobody has pruned.
LEMMA InitConsistent == Init => Consistent
<1> SUFFICES ASSUME Init PROVE Consistent
  OBVIOUS
<1>1. PICK s \in Specs : LoopInit(Created(s))
  BY DEF Init
<1>2. "idle" \in Pcs
  BY DEF Pcs
<1>3. LoopOK(Version, Pcs) /\ pc = "idle"
  BY <1>1, <1>2, CreatedType, LoopInitOK DEF LoopInit
<1> DEFINE l == [b \in Builds |-> IF b \in Foreign THEN "succeeded" ELSE "open"]
<1>4. l \in BuildList
  BY DEF BuildList, BuildStates
<1>5. builds = <<l>>
  BY DEF Init
<1> HIDE DEF l
<1>6. LogOK(builds, BuildList) /\ Server = l /\ Lists = {l}
  BY <1>4, <1>5 DEF LogOK, Server, Lists
<1>7. doomed = NoDoomed /\ expired = {} /\ pruned = {} /\ atc \in AtcJob /\ chain \in BOOLEAN
  BY DEF Init, AtcJob
<1>8. TypeOK
  BY <1>3, <1>6, <1>7, DoomedType DEF TypeOK, LogOK, BuildList
<1>9. Onward
  BY <1>6 DEF Onward, Later
<1>10. HistoryOK
  BY <1>7 DEF HistoryOK
<1>11. DoomedOK
  <2>1. \A k \in Ended : NoDoomed[k] = {}
    BY DoomedType DEF Ended
  <2> QED BY <1>7, <2>1, DoomedType DEF DoomedOK
<1> QED BY <1>3, <1>8, <1>9, <1>10, <1>11 DEF Consistent, CopyOK

\* A step that leaves the Builds alone.
LEMMA NoBuildsConsistent ==
    ASSUME Consistent, LoopOK(Version, Pcs)', pc' # "idle" => cr' \in Version,
           UNCHANGED buildVars, atc' \in AtcJob, chain' \in BOOLEAN,
           \/ doomed' = NoDoomed
           \/ doomed' = doomed /\ (pc = "prune" => pc' = pc /\ cr'.spec = cr.spec)
    PROVE  Consistent'
<1>1. builds' = builds /\ expired' = expired /\ pruned' = pruned
  BY DEF buildVars
<1>2. LogOK(builds', BuildList) /\ Server' = Server /\ Lists' = Lists
  BY <1>1, Parts, ListsStay
<1>3. TypeOK'
  <2>1. doomed' \in [DOMAIN NoDoomed -> SUBSET Builds]
    BY DoomedType DEF Consistent, TypeOK
  <2>2. expired' \subseteq WithTTL /\ pruned' \subseteq Builds \X Nat
    BY <1>1 DEF Consistent, TypeOK
  <2> QED BY <1>2, <2>1, <2>2, Typed
<1>4. Later(Server, Server')
  BY <1>2 DEF Later
<1>5. CopyOK'
  BY DEF CopyOK
<1> QED BY <1>1, <1>2, <1>3, <1>4, <1>5, QuietConsistent

\* The first steps of a pass.
LEMMA StartConsistent ==
    ASSUME Consistent, StartNothing \/ StartSuspended \/ StartReady \/ StartNotReady
    PROVE  Consistent'
<1>1. /\ LoopOK(Version, Pcs) /\ Cached \in Version /\ atc \in AtcJob /\ chain \in BOOLEAN
  BY Parts DEF TypeOK
<1>2. CASE StartNothing
  <2>1. LoopOK(Version, Pcs)' /\ UNCHANGED <<pc, cr>>
    BY <1>1, <1>2, IgnoreLoop DEF StartNothing
  <2>2. UNCHANGED <<doomed, buildVars, atc, chain>>
    BY <1>2 DEF StartNothing, envVars
  <2> QED BY <1>1, <2>1, <2>2, Parts, NoBuildsConsistent
<1>3. ASSUME NEW v \in Version, NEW next \in Pcs, Take(v, next),
             UNCHANGED <<doomed, buildVars, envVars>>
      PROVE  Consistent'
  <2>1. LoopOK(Version, Pcs)' /\ cr' = v
    BY <1>1, <1>3, TakeLoop
  <2>2. pc = "idle"
    BY <1>3 DEF Take
  <2>3. UNCHANGED <<doomed, buildVars, atc, chain>>
    BY <1>3 DEF envVars
  <2> QED BY <1>1, <2>1, <2>2, <2>3, NoBuildsConsistent
<1>4. /\ setReady(Cached, "Suspended") \in Version
      /\ setReady(Cached, "PipelineNotReady") \in Version
  <2>1. "Suspended" \in ReadyReasons /\ "PipelineNotReady" \in ReadyReasons
    BY DEF ReadyReasons
  <2> QED BY <1>1, <2>1, SetReadyType
<1>5. {"saveSuspended", "pause", "owner", "saveNotReady"} \subseteq Pcs
  BY DEF Pcs, Saves
<1>6. CASE StartSuspended
  BY <1>3, <1>4, <1>5, <1>6 DEF StartSuspended
<1>7. CASE StartReady
  BY <1>1, <1>3, <1>5, <1>7 DEF StartReady
<1>8. CASE StartNotReady
  BY <1>3, <1>4, <1>5, <1>8 DEF StartNotReady
<1> QED BY <1>2, <1>6, <1>7, <1>8

\* A call to somebody else than the API server that deletes nothing.
LEMMA CallConsistent ==
    ASSUME Consistent, pc # "prune", NEW v \in Version, NEW next \in Pcs, Step(v, next),
           faults' = faults \/ \E kind : Fault(kind),
           UNCHANGED <<doomed, buildVars>>, atc' \in AtcJob, chain' \in BOOLEAN
    PROVE  Consistent'
<1>1. LoopOK(Version, Pcs)' /\ cr' = v
  BY Parts, StepLoop
<1> QED BY <1>1, NoBuildsConsistent

\* The owner reference, and the pause state.
LEMMA CallsConsistent ==
    ASSUME Consistent,
           SetOwner \/ OwnerMissing \/ Pause \/ PauseFails \/ FetchFails
    PROVE  Consistent'
<1>1. /\ LoopOK(Version, Pcs) /\ Latest \in Version /\ "idle" \in Pcs
      /\ pc # "idle" => cr \in Version
      /\ atc \in AtcJob /\ chain \in BOOLEAN
  BY Parts DEF TypeOK
<1>2. {"pause", "fetch", "saveFailed"} \subseteq Pcs
  BY DEF Pcs, Saves
<1>3. CASE SetOwner
  <2>1. cr \in Version /\ cr.status \in Status
    BY <1>1, <1>3, VersionParts DEF SetOwner
  <2> DEFINE v == [Latest EXCEPT !.owned = TRUE]
             w == [cr EXCEPT !.owned = TRUE]
  <2>2. v \in Version /\ w \in Version
    BY <1>1, <2>1 DEF Version
  <2>3. Update(v, w, "pause")
    BY <1>3 DEF SetOwner
  <2> HIDE DEF v, w
  <2>4. LoopOK(Version, Pcs)' /\ (Accepted(v, w, "pause") \/ Rejected)
    BY <1>1, <1>2, <2>2, <2>3, UpdateLoop
  <2>5. pc' # "idle" => cr' \in Version
    BY <2>2, <2>4 DEF Accepted, Rejected
  <2>6. UNCHANGED <<doomed, buildVars, atc, chain>> /\ pc # "prune"
    BY <1>3 DEF SetOwner, envVars
  <2> QED BY <1>1, <2>4, <2>5, <2>6, NoBuildsConsistent
<1>4. CASE OwnerMissing
  <2>1. cr \in Version /\ pc # "prune"
    BY <1>1, <1>4 DEF OwnerMissing
  <2>2. Step(cr, "pause") /\ UNCHANGED <<doomed, buildVars, atc, chain, faults>>
    BY <1>4 DEF OwnerMissing, envVars
  <2> QED BY <1>1, <1>2, <2>1, <2>2, CallConsistent
<1>5. AtcPauses /\ cr \in Version => atc' \in AtcJob
  <2>1. cr \in Version => cr.spec.paused \in BOOLEAN
    BY VersionParts DEF Spec_
  <2> QED BY <1>1, <2>1 DEF AtcPauses, AtcJob
<1>6. CASE Pause
  <2>1. cr \in Version /\ cr.spec.paused \in BOOLEAN /\ pc # "prune"
    BY <1>1, <1>6, VersionParts DEF Pause, Spec_
  <2> DEFINE v == [cr EXCEPT !.status.paused = Flag(cr.spec.paused)]
  <2>2. v \in Version
    <3>1. cr.status \in Status
      BY <2>1, VersionParts
    <3> QED BY <2>1, <3>1, WrittenType
  <2>3. Step(v, "fetch") /\ UNCHANGED <<doomed, buildVars, chain, faults>> /\ AtcPauses
    BY <1>6 DEF Pause
  <2> HIDE DEF v
  <2> QED BY <1>1, <1>2, <1>5, <2>1, <2>2, <2>3, CallConsistent
<1>7. CASE PauseFails
  <2>1. cr \in Version /\ pc # "prune"
    BY <1>1, <1>7 DEF PauseFails
  <2> DEFINE r == IF cr.spec.paused THEN "PauseFailed" ELSE "UnpauseFailed"
  <2>2. r \in ReadyReasons
    BY DEF ReadyReasons
  <2>3. /\ Step(setReady(cr, r), "saveFailed") /\ UNCHANGED <<doomed, buildVars, chain>>
        /\ UNCHANGED atc \/ AtcPauses
        /\ \E kind : Fault(kind)
    BY <1>7 DEF PauseFails
  <2> HIDE DEF r
  <2>4. setReady(cr, r) \in Version
    BY <2>1, <2>2, SetReadyType
  <2> QED BY <1>1, <1>2, <1>5, <2>1, <2>3, <2>4, CallConsistent
<1>8. CASE FetchFails
  <2>1. cr \in Version /\ pc # "prune"
    BY <1>1, <1>8 DEF FetchFails
  <2>2. FetchReason \in ReadyReasons
    BY DEF ReadyReasons, FetchReason
  <2>3. /\ Step(setReady(cr, FetchReason), "saveFailed")
        /\ UNCHANGED <<doomed, buildVars, atc, chain>>
        /\ faults' = faults \/ \E kind : Fault(kind)
    BY <1>8 DEF FetchFails, envVars
  <2>4. setReady(cr, FetchReason) \in Version
    BY <2>1, <2>2, SetReadyType
  <2> QED BY <1>1, <1>2, <2>1, <2>3, <2>4, CallConsistent
<1> QED BY <1>3, <1>4, <1>6, <1>7, <1>8

\* The fetch, and what pruneBuilds picks from its list.
LEMMA FetchConsistent ==
    ASSUME Consistent, Fetch
    PROVE  Consistent'
<1>1. cr \in Version /\ LoopOK(Version, Pcs) /\ LogOK(builds, BuildList)
  BY Parts DEF Fetch
<1>2. PICK s \in Beyond(Kept(Cache, "succeeded"), cr.spec.successLimit),
           f \in Beyond(Kept(Cache, "failed"), cr.spec.failLimit) :
         doomed' = [expired |-> Expires(Cache), succeeded |-> s, failed |-> f]
  BY DEF Fetch
<1>3. UNCHANGED <<builds, expired, pruned, atc, chain, faults>>
  BY DEF Fetch, buildVars, envVars
<1> DEFINE v == Fetched(cr)
<1>4. v \in Version /\ v.spec = cr.spec
  <2>1. atc.paused \in BOOLEAN /\ cr.status \in Status
    BY <1>1, VersionParts DEF Consistent, TypeOK, AtcJob
  <2> QED BY <1>1, <2>1, WrittenType DEF Fetched
<1>5. Step(v, "prune")
  BY DEF Fetch
<1> HIDE DEF v
<1>6. LoopOK(Version, Pcs)' /\ cr' = v /\ pc' = "prune"
  <2>1. "prune" \in Pcs
    BY DEF Pcs
  <2> QED BY <1>1, <1>3, <1>4, <1>5, <2>1, StepLoop
<1>7. LogOK(builds', BuildList) /\ Server' = Server /\ Lists' = Lists
  BY <1>1, <1>3, ListsStay
<1>8. /\ doomed'.expired = Expires(Cache)
      /\ doomed'.succeeded = s /\ doomed'.failed = f
  BY <1>2
<1>9. cr.spec.successLimit \in Nat /\ cr.spec.failLimit \in Nat
  BY <1>1, VersionParts
<1>10. \A b \in s : /\ b \in Builds \ Foreign /\ Server[b] \in {"succeeded", "gone"}
                    /\ Enough(b, "succeeded", cr.spec.successLimit)
  BY <1>9, BeyondIsBeyond DEF Ended
<1>11. \A b \in f : /\ b \in Builds \ Foreign /\ Server[b] \in {"failed", "gone"}
                    /\ Enough(b, "failed", cr.spec.failLimit)
  BY <1>9, BeyondIsBeyond DEF Ended
<1>12. \A b \in Expires(Cache) :
          b \in Builds \ Foreign /\ b \in expired /\ Server[b] \in Ended \cup {"gone"}
  <2>1. \A b \in Expires(Cache) : b \in Builds \ Foreign /\ b \in expired /\ Cache[b] \in Ended
    BY DEF Expires, Own
  <2>2. Later(Cache, Server)
    BY <1>1, ListEnds DEF Consistent, Onward
  <2> QED BY <2>1, <2>2, StaysEnded
<1>13. TypeOK'
  <2>1. Expires(Cache) \in SUBSET Builds /\ s \in SUBSET Builds /\ f \in SUBSET Builds
    BY <1>10, <1>11, <1>12
  <2>2. doomed' \in [DOMAIN NoDoomed -> SUBSET Builds]
    BY <1>2, <2>1, DoomedType
  <2> QED BY <1>3, <1>6, <1>7, <2>2, Typed DEF Consistent, TypeOK
<1>14. Onward'
  BY <1>7 DEF Consistent, Onward
<1>15. \A b, k, n : Enough(b, k, n) => Enough(b, k, n)'
  <2>1. \A b, k, n : Newer(b, k, n)' = Newer(b, k, n)
    BY <1>3, <1>7 DEF Newer, Spared
  <2> QED BY <2>1 DEF Enough
<1>16. HistoryOK'
  BY <1>3, <1>7, <1>15 DEF Consistent, HistoryOK
<1>17. DoomedOK'
  <2>1. ASSUME NEW k \in Ended, NEW b \in doomed'[k]
        PROVE  b \notin Foreign /\ Server'[b] \in {k, "gone"} /\ BeyondLimit(b, k)'
    <3>1. PICK n : n = Limit(cr.spec, k)
      OBVIOUS
    <3>2. b \in Builds \ Foreign /\ Server[b] \in {k, "gone"} /\ Enough(b, k, n)
      BY <1>8, <1>10, <1>11, <3>1 DEF Ended, Limit
    <3>3. Enough(b, k, n)' /\ n = Limit(cr'.spec, k)
      BY <1>4, <1>6, <1>15, <3>1, <3>2
    <3>4. BeyondLimit(b, k)'
      BY <3>3 DEF BeyondLimit, Enough
    <3> QED BY <1>7, <3>2, <3>4
  <2>2. \A b \in doomed'.expired :
           b \in expired' /\ b \notin Foreign /\ Server'[b] \in Ended \cup {"gone"}
    BY <1>3, <1>7, <1>8, <1>12
  <2> QED BY <1>6, <2>1, <2>2 DEF DoomedOK
<1>18. CopyOK'
  BY <1>4, <1>6 DEF CopyOK
<1> QED BY <1>13, <1>14, <1>16, <1>17, <1>18 DEF Consistent

\* The next Build to be deleted is one of those to be pruned, so it is past its TTL
\* or beyond the limit of the pass, unless it is gone.
LEMMA NextIsDoomed ==
    ASSUME Consistent, pc = "prune", NEW b \in NextDoomed, Server[b] # "gone"
    PROVE  /\ b \in Builds \ Foreign /\ Server[b] \in Ended
           /\ b \in expired \/ BeyondLimit(b, Server[b])
<1>1. b \in doomed.expired \/ \E k \in Ended : b \in doomed[k]
  <2>1. NextDoomed \subseteq doomed.expired \cup doomed["succeeded"] \cup doomed["failed"]
    BY DEF NextDoomed
  <2> QED BY <2>1 DEF Ended
<1>2. doomed.expired \subseteq Builds /\ \A k \in Ended : doomed[k] \subseteq Builds
  BY DoomedType DEF Consistent, TypeOK, Ended
<1>3. CASE b \in doomed.expired
  BY <1>2, <1>3 DEF Consistent, DoomedOK
<1>4. ASSUME NEW k \in Ended, b \in doomed[k]
      PROVE  /\ b \in Builds \ Foreign /\ Server[b] \in Ended
             /\ b \in expired \/ BeyondLimit(b, Server[b])
  <2>1. b \notin Foreign /\ Server[b] \in {k, "gone"} /\ BeyondLimit(b, k)
    BY <1>4 DEF Consistent, DoomedOK
  <2>2. Server[b] = k
    BY <2>1
  <2> QED BY <1>2, <1>4, <2>1, <2>2
<1> QED BY <1>1, <1>3, <1>4

\* What a Delete that took effect does.
LEMMA DeletesConsistent ==
    ASSUME Consistent, pc = "prune", NEW b \in NextDoomed, Deletes(b),
           LoopOK(Version, Pcs)', pc' # "idle" => cr' \in Version,
           doomed' \in [DOMAIN NoDoomed -> SUBSET Builds],
           UNCHANGED <<expired, atc, chain>>,
           \/ doomed' = NoDoomed
           \/ /\ \A k \in DOMAIN NoDoomed : doomed'[k] \subseteq doomed[k]
              /\ pc' = "prune" /\ cr'.spec = cr.spec
    PROVE  Consistent'
<1>1. PICK kd, lim : kd = Server[b] /\ lim = Limit(cr.spec, kd)
  OBVIOUS
<1>2. /\ b \in Builds \ Foreign /\ kd \in Ended
      /\ b \in expired \/ Enough(b, kd, lim)
  <2>1. Server[b] # "gone"
    BY DEF Deletes
  <2> QED BY <1>1, <2>1, NextIsDoomed DEF BeyondLimit, Enough
<1>3. lim \in Nat
  BY <1>1, Parts, VersionParts
<1> DEFINE l == [Server EXCEPT ![b] = "gone"]
<1>4. Server \in BuildList /\ l \in BuildList /\ LogOK(builds, BuildList)
  <2>1. Server \in BuildList /\ LogOK(builds, BuildList)
    BY Parts, ListEnds
  <2> QED BY <2>1 DEF BuildList, BuildStates
<1>5. /\ builds' = Append(builds, l)
      /\ pruned' = pruned \cup {<<b, lim>>}
  BY <1>1 DEF Deletes
<1> HIDE DEF l
<1>6. LogOK(builds', BuildList) /\ Server' = l /\ Lists' = Lists \cup {l}
  BY <1>4, <1>5, ListsGrow
<1>7. TypeOK'
  <2>1. pruned' \subseteq Builds \X Nat /\ expired' \subseteq WithTTL
    BY <1>2, <1>3, <1>5 DEF Consistent, TypeOK
  <2>2. atc' \in AtcJob /\ chain' \in BOOLEAN
    BY DEF Consistent, TypeOK
  <2> QED BY <1>6, <2>1, <2>2, Typed
<1>8. Server' = [Server EXCEPT ![b] = "gone"] /\ Lists' \subseteq Lists \cup {Server'}
  BY <1>6 DEF l
<1>9. CopyOK'
  BY DEF CopyOK
<1>10. expired' = expired
  OBVIOUS
<1> QED BY <1>1, <1>2, <1>3, <1>5, <1>7, <1>8, <1>9, <1>10, PrunedConsistent

\* The steps of pruneBuilds.
LEMMA PruneConsistent ==
    ASSUME Consistent, Prune \/ PruneFails \/ PruneDone
    PROVE  Consistent'
<1>1. /\ pc = "prune" /\ cr \in Version /\ LoopOK(Version, Pcs)
      /\ atc \in AtcJob /\ chain \in BOOLEAN
  <2>1. pc = "prune"
    BY DEF Prune, PruneFails, PruneDone
  <2> QED BY <2>1, Parts DEF TypeOK
<1>2. {"prune", "saveReady"} \subseteq Pcs
  BY DEF Pcs, Saves
<1>3. CASE Prune
  <2>1. PICK b \in NextDoomed :
            Deletes(b) /\ doomed' = [k \in DOMAIN doomed |-> doomed[k] \ {b}]
    BY <1>3 DEF Prune
  <2>2. Step(cr, "prune") /\ UNCHANGED <<expired, atc, chain, faults>>
    BY <1>3 DEF Prune, envVars
  <2>3. LoopOK(Version, Pcs)' /\ cr' = cr /\ pc' = "prune"
    BY <1>1, <1>2, <2>2, StepLoop
  <2>4. DOMAIN doomed = DOMAIN NoDoomed /\ \A k \in DOMAIN NoDoomed : doomed[k] \subseteq Builds
    BY DEF Consistent, TypeOK
  <2>5. /\ doomed' \in [DOMAIN NoDoomed -> SUBSET Builds]
        /\ \A k \in DOMAIN NoDoomed : doomed'[k] \subseteq doomed[k]
    <3> DEFINE g(k) == doomed[k] \ {b}
               D == DOMAIN NoDoomed
    <3>1. doomed' = [k \in D |-> g(k)]
      BY <2>1, <2>4
    <3>2. \A k \in D : g(k) \in SUBSET Builds /\ g(k) \subseteq doomed[k]
      BY <2>4
    <3> HIDE DEF g, D
    <3>3. doomed' \in [D -> SUBSET Builds] /\ \A k \in D : doomed'[k] \subseteq doomed[k]
      BY <3>1, <3>2
    <3> QED BY <3>3 DEF D
  <2> QED BY <1>1, <2>1, <2>2, <2>3, <2>5, DeletesConsistent
<1>4. setReady(cr, "Ready") \in Version /\ setReady(cr, "Ready").spec = cr.spec
  <2>1. "Ready" \in ReadyReasons
    BY DEF ReadyReasons
  <2> QED BY <1>1, <2>1, SetReadyType
<1>5. CASE PruneFails
  <2>1. PICK b \in NextDoomed :
            \/ UNCHANGED <<builds, pruned, faults>>
            \/ Fault("apiError") /\ UNCHANGED <<builds, pruned>>
            \/ Fault("apiLost") /\ Deletes(b)
    BY <1>5 DEF PruneFails
  <2>2. /\ Step(setReady(cr, "Ready"), "saveReady")
        /\ doomed' = NoDoomed /\ UNCHANGED <<expired, atc, chain>>
    BY <1>5 DEF PruneFails, envVars
  <2>3. faults' = faults \/ \E kind : Fault(kind)
    BY <2>1
  <2>4. LoopOK(Version, Pcs)' /\ cr' = setReady(cr, "Ready")
    BY <1>1, <1>2, <1>4, <2>2, <2>3, StepLoop
  <2>5. CASE UNCHANGED <<builds, pruned>>
    <3>1. UNCHANGED buildVars
      BY <2>2, <2>5 DEF buildVars
    <3> QED BY <1>1, <1>4, <2>2, <2>4, <3>1, NoBuildsConsistent
  <2>6. CASE Deletes(b)
    BY <1>1, <1>4, <2>2, <2>4, <2>6, DoomedType, DeletesConsistent
  <2> QED BY <2>1, <2>5, <2>6
<1>6. CASE PruneDone
  <2>1. /\ Step(setReady(cr, "Ready"), "saveReady") /\ doomed' = NoDoomed
        /\ UNCHANGED <<buildVars, atc, chain, faults>>
    BY <1>6 DEF PruneDone, envVars
  <2>2. LoopOK(Version, Pcs)' /\ cr' = setReady(cr, "Ready")
    BY <1>1, <1>2, <1>4, <2>1, StepLoop
  <2> QED BY <1>1, <1>4, <2>1, <2>2, NoBuildsConsistent
<1> QED BY <1>3, <1>5, <1>6

\* The status write.
LEMMA SaveStatusConsistent ==
    ASSUME Consistent, SaveStatus
    PROVE  Consistent'
<1>1. pc \in Saves /\ SaveAgain \in BOOLEAN /\ Save(SaveAgain, TRUE)
  BY DEF SaveStatus, SaveAgain
<1>2. pc # "idle" /\ pc # "prune"
  BY <1>1 DEF Saves
<1>3. [Latest EXCEPT !.status = cr.status] \in Version
  <2>1. cr.status \in Status /\ Latest \in Version
    BY <1>2, Parts, VersionParts
  <2> QED BY <2>1 DEF Version
<1>4. LoopOK(Version, Pcs)' /\ pc' = "idle"
  BY <1>1, <1>3, Parts, SaveLoop
<1>5. UNCHANGED <<doomed, buildVars, atc, chain>> /\ atc \in AtcJob /\ chain \in BOOLEAN
  BY DEF SaveStatus, envVars, Consistent, TypeOK
<1> QED BY <1>2, <1>4, <1>5, NoBuildsConsistent

-----------------------------------------------------------------------------
\* A Build of the Job ends or is deleted by somebody else.
LEMMA BuildMovesConsistent ==
    ASSUME Consistent, NEW b \in Builds, NEW from, NEW to \in BuildStates,
           BuildMoves(b, from, to), from = {"open"} \/ (from = Ended /\ to = "gone"),
           faults' = faults \/ \E kind : Fault(kind), UNCHANGED envVars
    PROVE  Consistent'
<1>1. /\ Server[b] \in from
      /\ UNCHANGED <<loopVars, edits>> /\ UNCHANGED <<doomed, expired, pruned>>
  BY DEF BuildMoves
<1>2. LoopOK(Version, Pcs)' /\ UNCHANGED <<fresh, pc, cr>>
  BY <1>1, Parts, OthersLoop
<1> DEFINE l == [Server EXCEPT ![b] = to]
<1>3. Server \in BuildList /\ l \in BuildList /\ LogOK(builds, BuildList)
  <2>1. Server \in BuildList /\ LogOK(builds, BuildList)
    BY Parts, ListEnds
  <2> QED BY <2>1 DEF BuildList
<1>4. Later(Server, l)
  BY <1>1, <1>3 DEF Later, BuildList
<1>5. builds' = Append(builds, l)
  BY DEF BuildMoves
<1> HIDE DEF l
<1>6. LogOK(builds', BuildList) /\ Server' = l /\ Lists' = Lists \cup {l}
  BY <1>3, <1>5, ListsGrow
<1>7. TypeOK'
  <2>1. /\ doomed' \in [DOMAIN NoDoomed -> SUBSET Builds] /\ expired' \subseteq WithTTL
        /\ pruned' \subseteq Builds \X Nat /\ atc' \in AtcJob /\ chain' \in BOOLEAN
    BY <1>1 DEF Consistent, TypeOK, envVars
  <2> QED BY <1>2, <1>6, <2>1, Typed
<1>8. CopyOK'
  BY <1>2 DEF Consistent, CopyOK
<1> QED BY <1>1, <1>2, <1>4, <1>6, <1>7, <1>8, QuietConsistent

\* The informer, the timers, restarts, and what users, the chain and the ATC do.
LEMMA EnvironmentConsistent ==
    ASSUME Consistent, Environment
    PROVE  Consistent'
<1>1. /\ LoopOK(Version, Pcs) /\ Latest \in Version /\ "idle" \in Pcs
      /\ pc # "idle" => cr \in Version
      /\ LogOK(builds, BuildList)
      /\ atc \in AtcJob /\ chain \in BOOLEAN
      /\ doomed \in [DOMAIN NoDoomed -> SUBSET Builds] /\ expired \subseteq WithTTL
      /\ pruned \subseteq Builds \X Nat
  BY Parts DEF TypeOK
<1>2. CASE Deliver \/ TimerFires
  <2>1. LoopOK(Version, Pcs)' /\ UNCHANGED <<pc, cr>>
    BY <1>1, <1>2, WakeLoop DEF Deliver, TimerFires
  <2>2. UNCHANGED <<doomed, buildVars, atc, chain>>
    BY <1>2 DEF Deliver, TimerFires, envVars
  <2> QED BY <1>1, <2>1, <2>2, NoBuildsConsistent
<1>3. ASSUME UNCHANGED <<log, timer, fresh, pc, cr, edits, faults>>, queued' = TRUE,
             Len(builds) > 1, builds' = Tail(builds),
             UNCHANGED <<doomed, expired, pruned, envVars>>
      PROVE  Consistent'
  <2>1. LogOK(builds', BuildList) /\ Server' = Server /\ Lists' \subseteq Lists
    BY <1>1, <1>3, ListsShrink
  <2>2. LoopOK(Version, Pcs)' /\ CopyOK'
    BY <1>1, <1>3 DEF LoopOK, CopyOK
  <2>3. TypeOK'
    BY <1>1, <1>3, <2>1, <2>2, Typed DEF envVars
  <2>4. Later(Server, Server')
    BY <2>1 DEF Later
  <2> QED BY <1>3, <2>1, <2>2, <2>3, <2>4, QuietConsistent
<1>4. CASE DeliverBuild
  BY <1>3, <1>4 DEF DeliverBuild
<1>5. CASE Crash
  <2>1. LoopOK(Version, Pcs)' /\ pc' = "idle"
    BY <1>1, <1>5, RestartLoop DEF Crash
  <2>2. /\ doomed' = NoDoomed /\ builds' = <<Server>>
        /\ UNCHANGED <<expired, pruned, atc, chain>>
    BY <1>5 DEF Crash, envVars
  <2>3. LogOK(builds', BuildList) /\ Server' = Server /\ Lists' \subseteq Lists
    BY <1>1, <2>2, ListsShrink
  <2>4. TypeOK'
    BY <1>1, <2>1, <2>2, <2>3, DoomedType, Typed
  <2>5. Later(Server, Server') /\ CopyOK'
    BY <2>1, <2>3 DEF Later, CopyOK
  <2> QED BY <2>2, <2>3, <2>4, <2>5, QuietConsistent
<1>6. ASSUME NEW v \in Version, UserWrites(v), UNCHANGED <<doomed, buildVars, envVars>>
      PROVE  Consistent'
  <2>1. LoopOK(Version, Pcs)' /\ UNCHANGED <<pc, cr>>
    BY <1>1, <1>6, UserLoop
  <2>2. UNCHANGED <<doomed, buildVars, atc, chain>>
    BY <1>6 DEF envVars
  <2> QED BY <1>1, <2>1, <2>2, NoBuildsConsistent
<1>7. CASE EditSpec
  <2>1. PICK s \in Spec_ : Edit(s)
    BY <1>7, SpecsAssumption DEF EditSpec, SpecsAssumption
  <2>2. UNCHANGED <<doomed, buildVars, envVars>>
    BY <1>7 DEF EditSpec
  <2>3. [Latest EXCEPT !.spec = s, !.gen = @ + 1] \in Version
    BY <1>1, UserVersions
  <2> QED BY <1>6, <2>1, <2>2, <2>3 DEF Edit
<1>8. CASE MarkDeleted
  <2>1. PICK life \in {"deleting", "gone"} : UserWrites([Latest EXCEPT !.life = life])
    BY <1>8 DEF MarkDeleted
  <2>2. [Latest EXCEPT !.life = life] \in Version
    BY <1>1 DEF Version
  <2> QED BY <1>6, <1>8, <2>1, <2>2 DEF MarkDeleted
<1>9. CASE BuildEnds
  <2>1. PICK b \in Builds, outcome \in Ended : BuildMoves(b, {"open"}, outcome)
    BY <1>9 DEF BuildEnds
  <2>2. outcome \in BuildStates
    BY DEF BuildStates, Ended
  <2> QED BY <1>9, <2>1, <2>2, BuildMovesConsistent DEF BuildEnds
<1>10. CASE BuildDeleted
  <2>1. PICK b \in Builds : BuildMoves(b, Ended, "gone")
    BY <1>10 DEF BuildDeleted
  <2>2. "gone" \in BuildStates
    BY DEF BuildStates
  <2> QED BY <1>10, <2>1, <2>2, BuildMovesConsistent DEF BuildDeleted
<1>11. CASE TTLRunsOut
  <2>1. expired \subseteq expired' /\ expired' \subseteq WithTTL
    BY <1>1, <1>11 DEF TTLRunsOut
  <2>2. /\ UNCHANGED <<loopVars, edits, faults>>
        /\ UNCHANGED <<doomed, builds, pruned, atc, chain>>
    BY <1>11 DEF TTLRunsOut, envVars
  <2>3. LoopOK(Version, Pcs)' /\ UNCHANGED <<pc, cr>>
    BY <1>1, <2>2, OthersLoop
  <2>4. LogOK(builds', BuildList) /\ Server' = Server /\ Lists' = Lists
    BY <1>1, <2>2, ListsStay
  <2>5. TypeOK'
    BY <1>1, <2>1, <2>2, <2>3, <2>4, Typed
  <2>6. Later(Server, Server') /\ CopyOK'
    BY <1>1, <2>3, <2>4 DEF Later, CopyOK
  <2> QED BY <2>1, <2>2, <2>3, <2>4, <2>5, <2>6, QuietConsistent
<1>12. CASE ChainBreaks \/ ChainHeals \/ JobLeaves \/ JobReturns \/ OthersPause
  <2>1. /\ UNCHANGED <<loopVars, edits>> /\ UNCHANGED <<doomed, buildVars>>
        /\ faults' = faults \/ \E kind : Fault(kind)
    BY <1>12 DEF ChainBreaks, ChainHeals, JobLeaves, JobReturns, OthersPause
  <2>2. atc' \in AtcJob /\ chain' \in BOOLEAN
    BY <1>1, <1>12
    DEF ChainBreaks, ChainHeals, JobLeaves, JobReturns, OthersPause, AtcJob
  <2>3. LoopOK(Version, Pcs)' /\ UNCHANGED <<pc, cr>>
    BY <1>1, <2>1, OthersLoop
  <2> QED BY <1>1, <2>1, <2>2, <2>3, NoBuildsConsistent
<1> QED BY <1>2, <1>4, <1>5, <1>7, <1>8, <1>9, <1>10, <1>11, <1>12 DEF Environment

\* Every step keeps the invariant.
LEMMA NextConsistent == Consistent /\ [Next]_vars => Consistent'
<1> SUFFICES ASSUME Consistent, [Next]_vars PROVE Consistent'
  OBVIOUS
<1>1. CASE Reconcile
  BY <1>1, StartConsistent, CallsConsistent, FetchConsistent, PruneConsistent,
     SaveStatusConsistent
  DEF Reconcile
<1>2. CASE Environment
  BY <1>2, EnvironmentConsistent
<1>3. CASE UNCHANGED vars
  <2>1. /\ UNCHANGED <<loopVars, edits, faults>>
        /\ UNCHANGED <<doomed, buildVars, atc, chain>>
    BY <1>3 DEF vars, envVars
  <2>2. LoopOK(Version, Pcs)' /\ UNCHANGED <<pc, cr>>
    BY <2>1, Parts, OthersLoop
  <2>3. atc \in AtcJob /\ chain \in BOOLEAN /\ (pc # "idle" => cr \in Version)
    BY Parts DEF TypeOK
  <2> QED BY <2>1, <2>2, <2>3, NoBuildsConsistent
<1> QED BY <1>1, <1>2, <1>3 DEF Next

-----------------------------------------------------------------------------
(***************************************************************************)
(* The theorems.                                                           *)
(***************************************************************************)
\* The invariant of JobReconciler's loop, its pruning and the Builds.
LEMMA AlwaysConsistent == Spec => []Consistent
BY InitConsistent, NextConsistent, PTL DEF Spec

\* All variables have their types, whatever the Builds, limits and faults.
THEOREM TypeCorrect == Spec => []TypeOK
<1>1. Consistent => TypeOK
  BY DEF Consistent
<1> QED BY <1>1, AlwaysConsistent, PTL

\* Only pruneBuilds adds to what was pruned, one Build at a time.
LEMMA OnlyPruning ==
    ASSUME Next, pruned' # pruned
    PROVE  /\ pc = "prune"
           /\ \E b \in NextDoomed : Deletes(b)
<1>1. CASE Prune \/ PruneFails
  BY <1>1 DEF Prune, PruneFails
<1>2. CASE ~(Prune \/ PruneFails)
  BY <1>2 DEF Next, Reconcile, Environment, StartNothing, StartSuspended, StartReady,
     StartNotReady, SetOwner, OwnerMissing, Pause, PauseFails, Fetch, FetchFails,
     PruneDone, SaveStatus, Deliver, DeliverBuild, TimerFires, Crash, EditSpec,
     MarkDeleted, BuildEnds, BuildDeleted, BuildMoves, TTLRunsOut, ChainBreaks,
     ChainHeals, JobLeaves, JobReturns, OthersPause, buildVars
<1> QED BY <1>1, <1>2

\* Only Builds of this Job that have ended are pruned, from a list however old and
\* with any creationTimestamps.
THEOREM PrunesOwnEnded ==
    Spec => [][\A p \in pruned' \ pruned : p[1] \notin Foreign /\ Server[p[1]] \in Ended]_vars
<1>1. ASSUME Consistent, [Next]_vars
      PROVE  [\A p \in pruned' \ pruned :
                 p[1] \notin Foreign /\ Server[p[1]] \in Ended]_vars
  <2> SUFFICES ASSUME Next, NEW p \in pruned' \ pruned
               PROVE  p[1] \notin Foreign /\ Server[p[1]] \in Ended
    BY <1>1
  <2>1. PICK b \in NextDoomed : Deletes(b)
    BY OnlyPruning
  <2>2. pc = "prune"
    BY OnlyPruning
  <2>3. p[1] = b /\ Server[b] # "gone"
    BY <2>1 DEF Deletes
  <2> QED BY <1>1, <2>2, <2>3, NextIsDoomed
<1> QED BY <1>1, AlwaysConsistent, PTL DEF Spec

\* A Build that pruneBuilds deletes is past its TTL, or as many newer ones of its
\* kind as are to be kept were spared or are past theirs: for any limits and edits
\* of them, any order of ends, any faults and a list that is behind by any number
\* of changes, if no two Builds are created in the same second.
THEOREM KeepsTheHistory ==
    ASSUME Distinct
    PROVE  Spec => PrunesOnlyHistory
<1>1. ASSUME Consistent, [Next]_vars
      PROVE  [\A p \in pruned' \ pruned :
                /\ p[1] \notin Foreign /\ Server[p[1]] \in Ended
                /\ \/ p[1] \in expired
                   \/ Cardinality(Successors(p[1], Spared(p[2]) \cup (expired \ Foreign)))
                          >= p[2]]_vars
  <2> SUFFICES ASSUME Next, NEW p \in pruned' \ pruned
               PROVE  /\ p[1] \notin Foreign /\ Server[p[1]] \in Ended
                      /\ \/ p[1] \in expired
                         \/ Cardinality(Successors(p[1],
                                                   Spared(p[2]) \cup (expired \ Foreign)))
                                >= p[2]
    BY <1>1
  <2>1. PICK b \in NextDoomed : Deletes(b)
    BY OnlyPruning
  <2>2. pc = "prune"
    BY OnlyPruning
  <2>3. PICK lim : lim = Limit(cr.spec, Server[b])
    OBVIOUS
  <2>4. p[1] = b /\ p[2] = lim /\ Server[b] # "gone"
    BY <2>1, <2>3 DEF Deletes
  <2>5. /\ b \in Builds \ Foreign /\ Server[b] \in Ended
        /\ b \in expired \/ Enough(b, Server[b], lim)
    BY <1>1, <2>2, <2>3, <2>4, NextIsDoomed DEF BeyondLimit
  <2>6. lim \in Nat
    BY <1>1, <2>2, <2>3, Parts, VersionParts
  <2> DEFINE S == Spared(lim) \cup (expired \ Foreign)
  <2>7. ASSUME Enough(b, Server[b], lim)
        PROVE  Cardinality(Successors(b, S)) >= lim
    <3>1. lim \in 0 .. lim
      BY <2>6
    <3>2. Cardinality(Newer(b, Server[b], lim)) >= lim
      BY <2>7, <3>1 DEF Enough
    <3>3. Newer(b, Server[b], lim) \subseteq Builds
      BY <1>1, NewerBuilds DEF Consistent
    <3>4. Newer(b, Server[b], lim) \subseteq Successors(b, S)
      <4> SUFFICES ASSUME NEW c \in Newer(b, Server[b], lim) PROVE c \in Successors(b, S)
        OBVIOUS
      <4>1. c \in S /\ Born[c] > Born[b] /\ Server[c] \in {Server[b], "gone"}
        BY DEF Newer
      <4>2. Born[c] \in Nat /\ Born[b] \in Nat
        BY <2>5, <3>3, Times
      <4>3. c # b /\ Born[c] >= Born[b]
        BY <4>1, <4>2
      <4> QED BY <4>1, <4>3 DEF Successors
    <3>5. Successors(b, S) \subseteq Builds
      BY <1>1, Times DEF Successors, Spared, Consistent, TypeOK
    <3>6. /\ Cardinality(Newer(b, Server[b], lim)) <= Cardinality(Successors(b, S))
          /\ Cardinality(Newer(b, Server[b], lim)) \in Nat
          /\ Cardinality(Successors(b, S)) \in Nat
      BY <3>4, <3>5, BuildsFinite
    <3> QED BY <2>6, <3>2, <3>6
  <2> QED BY <2>4, <2>5, <2>7
<1> QED BY <1>1, AlwaysConsistent, PTL DEF Spec, PrunesOnlyHistory

=============================================================================
