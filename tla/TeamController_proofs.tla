------------------------ MODULE TeamController_proofs ------------------------
(***************************************************************************)
(* Proofs about TeamController, for every set of team names, principals,   *)
(* specs and faults, every bound, an ATC that takes a repeated DestroyTeam *)
(* or refuses it, and with or without informer lag unless a theorem says   *)
(* otherwise.                                                              *)
(***************************************************************************)
EXTENDS TeamController, Reconciler_proofs

-----------------------------------------------------------------------------
(***************************************************************************)
(* Types of what Reconcile builds.                                         *)
(***************************************************************************)
\* The default name is a name, and specs are specs.
LEMMA Sets == "default" \in Names /\ Specs \subseteq Spec_
BY TeamAssumption, SpecsAssumption DEF TeamAssumption, SpecsAssumption

\* The parts of a version.
LEMMA VersionParts ==
    ASSUME NEW v \in Version
    PROVE  /\ v.spec \in Specs /\ v.status \in Status /\ v.gen \in Nat
           /\ v.spec.name \in Names /\ v.spec.roles \in Seq(TeamRole)
BY Sets DEF Version, Spec_

\* A Ready condition changes the status only.
LEMMA SetReadyType ==
    ASSUME NEW v \in Version, NEW r \in ReadyReasons
    PROVE  /\ setReady(v, r) \in Version
           /\ setReady(v, r).spec = v.spec /\ setReady(v, r).life = v.life
BY DEF setReady, Version, Status

\* What the writes of Reconcile change of a version.
LEMMA WrittenType ==
    ASSUME NEW v \in Version, NEW s \in Status
    PROVE  /\ [v EXCEPT !.fin = TRUE] \in Version
           /\ [v EXCEPT !.fin = TRUE].spec = v.spec
           /\ [v EXCEPT !.fin = TRUE].life = v.life
           /\ [v EXCEPT !.owned = TRUE] \in Version
           /\ [v EXCEPT !.owned = TRUE].spec = v.spec
           /\ [v EXCEPT !.owned = TRUE].life = v.life
           /\ [v EXCEPT !.status = s] \in Version
           /\ [v EXCEPT !.status = s].spec = v.spec
           /\ [v EXCEPT !.status = s].life = v.life
           /\ [v EXCEPT !.fin = FALSE, !.life = "gone"] \in Version
           /\ [v EXCEPT !.fin = FALSE, !.life = "gone"].spec = v.spec
           /\ [v EXCEPT !.fin = FALSE, !.life = "gone"].life = "gone"
BY DEF Version

\* What the writes of users change of it.
LEMMA UserVersions ==
    ASSUME NEW v \in Version, NEW s \in Specs, NEW life \in {"deleting", "gone"}
    PROVE  /\ [v EXCEPT !.spec = s, !.gen = @ + 1] \in Version
           /\ [v EXCEPT !.spec = s, !.gen = @ + 1].life = v.life
           /\ [v EXCEPT !.life = life, !.gen = @ + 1] \in Version
           /\ [v EXCEPT !.life = life, !.gen = @ + 1].spec = v.spec
           /\ [v EXCEPT !.life = life, !.gen = @ + 1].life = life
<1> DEFINE g == v.gen + 1
<1>1. g \in Nat
  BY DEF Version
<1> HIDE DEF g
<1>2. /\ [v EXCEPT !.spec = s, !.gen = g] \in Version
      /\ [v EXCEPT !.spec = s, !.gen = g].life = v.life
  BY <1>1 DEF Version
<1>3. /\ [v EXCEPT !.life = life, !.gen = g] \in Version
      /\ [v EXCEPT !.life = life, !.gen = g].spec = v.spec
      /\ [v EXCEPT !.life = life, !.gen = g].life = life
  BY <1>1 DEF Version
<1> QED BY <1>2, <1>3 DEF g

\* No team is a team.
LEMMA NoTeamType == NoTeam \in AtcTeam
<1>1. <<>> \in [{} -> [users : SUBSET Principals, groups : SUBSET Principals]]
  OBVIOUS
<1>2. <<>> \in Auth
  BY <1>1 DEF Auth
<1> QED BY <1>2 DEF NoTeam, AtcTeam

\* buildTeamAuth yields users and groups for some of the roles.
LEMMA TeamAuthType ==
    ASSUME NEW roles \in Seq(TeamRole)
    PROVE  buildTeamAuth(roles) \in Auth
<1> DEFINE of(r) == {roles[i] : i \in {j \in DOMAIN roles : roles[j].role = r}}
           granted(r) == [users  |-> UNION {t.users : t \in of(r)},
                          groups |-> UNION {t.groups : t \in of(r)}]
           D == {roles[i].role : i \in DOMAIN roles}
           S == [users : SUBSET Principals, groups : SUBSET Principals]
<1>1. \A i \in DOMAIN roles : roles[i] \in TeamRole
  OBVIOUS
<1>2. D \subseteq Roles
  BY <1>1 DEF TeamRole
<1>3. \A r : \A t \in of(r) : t \in TeamRole
  BY <1>1
<1>4. \A r : \A t \in of(r) : t.users \subseteq Principals /\ t.groups \subseteq Principals
  BY <1>3 DEF TeamRole
<1>5. \A r : granted(r) \in S
  <2> HIDE DEF of
  <2>1. \A r : UNION {t.users : t \in of(r)} \subseteq Principals
    BY <1>4, Zenon
  <2>2. \A r : UNION {t.groups : t \in of(r)} \subseteq Principals
    BY <1>4, Zenon
  <2> QED BY <2>1, <2>2
<1>6. [r \in D |-> granted(r)] \in [D -> S]
  BY <1>5
<1>7. [r \in D |-> granted(r)] \in Auth
  BY <1>2, <1>6 DEF Auth
<1> QED BY <1>7 DEF buildTeamAuth

-----------------------------------------------------------------------------
(***************************************************************************)
(* The inductive invariant.                                                *)
(***************************************************************************)
Deleting == {"delete", "finalize"}
Creating == {"addFinalizer", "owner", "resolve", "apply"}

\* Nothing is left to destroy for v.
Done(v) == v.spec.orphan \/ ~atc[v.spec.name].exists

\* What Reconcile's copy says: it is on the deleting path only for a Team that is
\* being deleted, on the creating path only for a live one; a copy that is not
\* stale speaks of the server's version, and on the deleting path, which writes
\* nothing before it removes the finalizer, the server then has had no version
\* since.
CopyOK ==
    pc # "idle" =>
        /\ cr \in Version
        /\ cr.life # "gone"
        /\ pc \in Deleting => cr.life = "deleting"
        /\ pc \in Creating => cr.life = "live"
        /\ cr.life = "deleting" => Latest.life # "live"
        /\ fresh => cr.spec = Latest.spec /\ cr.life = Latest.life
        /\ (fresh /\ pc \in Deleting) => Readable = {Latest}
        /\ pc = "finalize" => Done(cr)

\* No version that is deleted is followed by a live one.
NoRevival == Latest.life = "live" => \A v \in Readable : v.life = "live"

\* A Team that is gone had no finalizer when it was deleted, and then no version
\* being deleted can be read; or its finalizer let it go, and then none that was
\* live can, and a pass over an old version finds the team destroyed.
Over ==
    Latest.life = "gone" =>
        \/ /\ \A v \in Readable : v.life # "deleting"
           /\ pc \notin Deleting
        \/ /\ \A v \in Readable : v.life # "live" /\ (v.life = "deleting" => Done(v))
           /\ pc \notin Creating
           /\ pc \in Deleting => Done(cr)

Consistent == TypeOK /\ CopyOK /\ NoRevival /\ Over

\* The log holds versions, the latest among them.
LEMMA LatestReadable ==
    TypeOK => Latest \in Readable /\ Readable \subseteq Version
BY LoopParts DEF TypeOK

\* Reconcile goes on with the same version of the CR, or returns.
GoesOn ==
    \/ pc' = "idle"
    \/ /\ pc # "idle" /\ cr' \in Version
       /\ cr'.spec = cr.spec /\ cr'.life = cr.life
       /\ \/ pc' = pc \/ pc' \in Saves
          \/ pc \in Creating /\ pc' \in Creating
          \/ pc = "delete" /\ pc' = "finalize" /\ Done(cr)'

\* A call of Reconcile, or a step of somebody else, that deletes no Team and
\* creates a team for a live one only.
LEMMA GoesOnConsistent ==
    ASSUME Consistent, TypeOK', GoesOn,
           Latest'.life = Latest.life, Readable' \subseteq Readable \cup {Latest'},
           fresh' => fresh /\ Latest'.spec = Latest.spec,
           (fresh' /\ pc \in Deleting) => Latest' = Latest,
           (\A n \in Names : atc'[n].exists => atc[n].exists) \/ pc = "apply"
    PROVE  Consistent'
<1>1. Latest' \in Readable' /\ Readable' \subseteq Version /\ Readable \subseteq Version
  <2>1. TypeOK' => (Latest \in Readable /\ Readable \subseteq Version)'
    BY LatestReadable, PTL
  <2> QED BY <2>1, LatestReadable DEF Consistent
<1>2. pc # "apply" => \A v \in Version : Done(v) => Done(v)'
  BY VersionParts DEF Done
<1>3. CopyOK'
  <2> SUFFICES ASSUME pc' # "idle" PROVE CopyOK'
    BY DEF CopyOK
  <2>1. pc # "idle" /\ cr' \in Version /\ cr'.spec = cr.spec /\ cr'.life = cr.life
    BY DEF GoesOn
  <2>2. /\ pc' \in Deleting => pc \in Deleting
        /\ pc' \in Creating => pc \in Creating
        /\ pc' = "finalize" => Done(cr)' \/ pc = "finalize"
    BY DEF GoesOn, Deleting, Creating, Saves
  <2>3. pc = "finalize" => pc # "apply"
    OBVIOUS
  <2>4. pc' = "finalize" => Done(cr)'
    <3>1. pc = "finalize" => Done(cr)'
      BY <1>2, <2>1, <2>3 DEF Consistent, CopyOK, Done
    <3> QED BY <2>2, <3>1
  <2>5. (fresh' /\ pc' \in Deleting) => Readable' = {Latest'}
    BY <1>1, <2>1, <2>2 DEF Consistent, CopyOK
  <2> QED BY <2>1, <2>2, <2>4, <2>5 DEF Consistent, CopyOK
<1>4. NoRevival'
  BY DEF Consistent, NoRevival
<1>5. Over'
  <2> SUFFICES ASSUME Latest.life = "gone" PROVE Over'
    BY DEF Over
  <2>1. /\ pc' \in Deleting => pc \in Deleting /\ cr'.spec = cr.spec
        /\ pc' \in Creating => pc \in Creating
    BY DEF GoesOn, Deleting, Creating, Saves
  <2>2. CASE (\A v \in Readable : v.life # "deleting") /\ pc \notin Deleting
    BY <2>1, <2>2 DEF Over
  <2>3. CASE /\ \A v \in Readable : v.life # "live" /\ (v.life = "deleting" => Done(v))
             /\ pc \notin Creating
             /\ pc \in Deleting => Done(cr)
    <3>1. pc # "apply"
      BY <2>3 DEF Creating
    <3>2. \A v \in Readable' : v.life # "live" /\ (v.life = "deleting" => Done(v)')
      BY <1>1, <1>2, <2>3, <3>1
    <3>3. pc' \in Deleting => Done(cr)'
      <4>1. pc \in Deleting => cr \in Version
        BY DEF Consistent, CopyOK, Deleting
      <4> QED BY <1>2, <2>1, <2>3, <3>1, <4>1 DEF Done
    <3> QED BY <2>1, <2>3, <3>2, <3>3 DEF Over
  <2> QED BY <2>2, <2>3 DEF Consistent, Over
<1> QED BY <1>3, <1>4, <1>5 DEF Consistent

-----------------------------------------------------------------------------
(***************************************************************************)
(* The parts of the invariant that the actions start from, and the types   *)
(* of what they do to Concourse.                                           *)
(***************************************************************************)
\* The loop is well typed, and so is a copy in use.
LEMMA Parts ==
    ASSUME Consistent
    PROVE  /\ TypeOK /\ LoopOK(Version, Pcs)
           /\ Latest \in Version /\ Cached \in Version
           /\ Latest \in Readable /\ Cached \in Readable
           /\ pc # "idle" => cr \in Version
           /\ "idle" \in Pcs /\ Saves \subseteq Pcs
<1>1. LoopOK(Version, Pcs)
  BY DEF Consistent, TypeOK
<1> QED BY <1>1, LoopParts DEF Consistent, CopyOK, Pcs

\* A call changes at most one team.
LEMMA TeamCalls ==
    ASSUME TypeOK, NEW n \in Names, NEW t \in AtcTeam, atc' = [atc EXCEPT ![n] = t]
    PROVE  atc' \in [Names -> AtcTeam]
BY DEF TypeOK

\* TypeOK from its parts.
LEMMA Typed ==
    ASSUME LoopOK(Version, Pcs)', atc' \in [Names -> AtcTeam],
           instance' \in {"missing", "notReady", "ready"}, absentFails' \in AbsentFails
    PROVE  TypeOK'
BY DEF TypeOK

\* A controller starts with the Team its list returns.
LEMMA InitConsistent == Init => Consistent
<1> SUFFICES ASSUME Init PROVE Consistent
  OBVIOUS
<1>1. PICK s \in Specs, o \in BOOLEAN : LoopInit(Created(s, o))
  BY DEF Init
<1>2. Created(s, o) \in Version
  BY DEF Created, Version, Status, ReadyReasons
<1>3. "idle" \in Pcs
  BY DEF Pcs
<1>4. LoopOK(Version, Pcs) /\ Latest = Created(s, o) /\ Readable = {Created(s, o)}
  BY <1>1, <1>2, <1>3, LoopInitOK
<1>5. atc \in [Names -> AtcTeam]
  <2>1. \A n \in Names : [NoTeam EXCEPT !.exists = n = "main"] \in AtcTeam
    BY NoTeamType DEF AtcTeam
  <2> QED BY <2>1 DEF Init
<1>6. TypeOK
  BY <1>4, <1>5 DEF TypeOK, Init
<1>7. pc = "idle"
  BY <1>1 DEF LoopInit
<1>8. Latest.life = "live"
  BY <1>4 DEF Created
<1> QED BY <1>4, <1>6, <1>7, <1>8 DEF Consistent, CopyOK, NoRevival, Over

\* Reconcile takes a request: an old copy leads to the deleting path only if the
\* Team is being deleted, or its finalizer has let it go.
LEMMA TakeConsistent ==
    ASSUME Consistent, NEW v \in Version, NEW next \in Pcs, Take(v, next),
           v.spec = Cached.spec, v.life = Cached.life, v.life # "gone",
           next # "finalize",
           next \in Deleting => v.life = "deleting",
           next \in Creating => v.life = "live",
           UNCHANGED envVars
    PROVE  Consistent'
<1>1. /\ LoopOK(Version, Pcs)' /\ Latest' = Latest /\ Readable' = Readable
      /\ cr' = v /\ pc' = next
      /\ fresh' => Cached = Latest /\ Readable = {Latest}
  BY Parts, TakeLoop
<1>2. TypeOK'
  BY <1>1, Zenon DEF Consistent, TypeOK, envVars
<1>3. UNCHANGED atc
  BY DEF envVars
<1>4. CopyOK'
  <2>1. v.life = "deleting" => Latest.life # "live"
    BY Parts DEF Consistent, NoRevival
  <2>2. fresh' => v.spec = Latest.spec /\ v.life = Latest.life
    BY <1>1
  <2> QED BY <1>1, <2>1, <2>2 DEF CopyOK
<1>5. NoRevival'
  BY <1>1 DEF Consistent, NoRevival
<1>6. Over'
  <2> SUFFICES ASSUME Latest.life = "gone" PROVE Over'
    BY <1>1 DEF Over
  <2>1. CASE \A u \in Readable : u.life # "deleting"
    BY <1>1, <2>1, Parts DEF Over
  <2>2. CASE \A u \in Readable : u.life # "live" /\ (u.life = "deleting" => Done(u))
    <3>1. next \in Deleting => Done(v)
      BY <2>2, Parts DEF Done
    <3>2. next \notin Creating
      BY <2>2, Parts
    <3> QED BY <1>1, <1>3, <2>2, <3>1, <3>2 DEF Over, Done
  <2> QED BY <2>1, <2>2 DEF Consistent, Over
<1> QED BY <1>2, <1>4, <1>5, <1>6 DEF Consistent

\* The first steps of a pass.
LEMMA StartConsistent ==
    ASSUME Consistent, StartNothing \/ StartSuspended \/ StartDeleting \/ StartLive
    PROVE  Consistent'
<1>1. CASE StartNothing
  <2>1. /\ LoopOK(Version, Pcs)' /\ Latest' = Latest /\ Readable' = Readable
        /\ UNCHANGED <<fresh, pc, cr, envVars>>
    BY <1>1, Parts, IgnoreLoop DEF StartNothing
  <2>2. TypeOK'
    BY <2>1, Zenon DEF Consistent, TypeOK, envVars
  <2> QED BY <2>1, <2>2 DEF Consistent, CopyOK, NoRevival, Over, Done, envVars
<1>2. CASE StartSuspended
  <2>1. /\ setReady(Cached, "Suspended") \in Version
        /\ setReady(Cached, "Suspended").spec = Cached.spec
        /\ setReady(Cached, "Suspended").life = Cached.life
    BY Parts, SetReadyType DEF ReadyReasons
  <2> QED BY <1>2, <2>1, TakeConsistent, Parts
          DEF StartSuspended, Saves, Deleting, Creating
<1>3. CASE StartDeleting
  BY <1>3, TakeConsistent, Parts DEF StartDeleting, Pcs, Deleting, Creating
<1>4. CASE StartLive
  <2> DEFINE next == IF Cached.fin THEN "owner" ELSE "addFinalizer"
  <2>1. next \in Pcs /\ next \in Creating /\ next \notin Deleting
    BY DEF Pcs, Creating, Deleting
  <2>2. Take(Cached, next) /\ Cached.life = "live" /\ UNCHANGED envVars
    BY <1>4 DEF StartLive
  <2> HIDE DEF next
  <2> QED BY <2>1, <2>2, TakeConsistent, Parts DEF Deleting
<1> QED BY <1>1, <1>2, <1>3, <1>4

-----------------------------------------------------------------------------
(***************************************************************************)
(* The steps of a pass.                                                    *)
(***************************************************************************)
\* A call that is not to the API server.
LEMMA StepConsistent ==
    ASSUME Consistent, NEW v \in Version, NEW next \in Pcs, Step(v, next),
           faults' = faults \/ \E kind : Fault(kind),
           pc # "idle", v.spec = cr.spec, v.life = cr.life,
           \/ next \in Saves
           \/ pc \in Creating /\ next \in Creating
           \/ pc = "delete" /\ next = "finalize" /\ Done(cr)',
           atc' \in [Names -> AtcTeam], UNCHANGED <<instance, absentFails>>,
           (\A n \in Names : atc'[n].exists => atc[n].exists) \/ pc = "apply"
    PROVE  Consistent'
<1>1. /\ LoopOK(Version, Pcs)' /\ Latest' = Latest /\ Readable' = Readable
      /\ cr' = v /\ pc' = next /\ fresh' = fresh
  BY Parts, StepLoop
<1>2. TypeOK'
  BY <1>1, Typed DEF Consistent, TypeOK
<1>3. GoesOn
  BY <1>1 DEF GoesOn
<1> QED BY <1>1, <1>2, <1>3, GoesOnConsistent

\* DestroyTeam leaves nothing to destroy, and creates nothing.
LEMMA Destroyed ==
    ASSUME TypeOK, cr \in Version, Destroys
    PROVE  /\ atc' \in [Names -> AtcTeam]
           /\ \A n \in Names : atc'[n].exists => atc[n].exists
           /\ ~atc'[cr.spec.name].exists
<1>1. cr.spec.name \in Names /\ atc \in [Names -> AtcTeam]
  BY VersionParts DEF TypeOK
<1>2. atc' \in [Names -> AtcTeam]
  BY <1>1, NoTeamType, TeamCalls DEF Destroys
<1> QED BY <1>1, <1>2 DEF Destroys, NoTeam

\* deleteTeam and what Reconcile does with its result.
LEMMA DeleteConsistent ==
    ASSUME Consistent, DeleteOrphan \/ DeleteDestroys \/ DeleteFails
    PROVE  Consistent'
<1>1. pc = "delete" /\ pc # "idle" /\ cr \in Version /\ TypeOK
  BY Parts DEF DeleteOrphan, DeleteDestroys, DeleteFails
<1>2. "finalize" \in Pcs /\ "saveFailed" \in Pcs /\ "saveFailed" \in Saves
  BY DEF Pcs, Saves
<1>3. CASE DeleteOrphan
  <2>1. Step(cr, "finalize") /\ UNCHANGED <<envVars, faults>> /\ cr.spec.orphan
    BY <1>3 DEF DeleteOrphan
  <2>2. Done(cr)'
    BY <2>1 DEF Step, Done
  <2> QED BY <1>1, <1>2, <2>1, <2>2, StepConsistent DEF envVars, TypeOK
<1>4. CASE DeleteDestroys
  <2>1. Step(cr, "finalize") /\ UNCHANGED <<instance, absentFails, faults>> /\ Destroys
    BY <1>4 DEF DeleteDestroys
  <2>2. /\ atc' \in [Names -> AtcTeam] /\ ~atc'[cr.spec.name].exists
        /\ \A n \in Names : atc'[n].exists => atc[n].exists
    BY <1>1, <2>1, Destroyed
  <2>3. Done(cr)'
    BY <2>1, <2>2 DEF Step, Done
  <2> QED BY <1>1, <1>2, <2>1, <2>2, <2>3, StepConsistent
<1>5. CASE DeleteFails
  <2> DEFINE v == setReady(cr, "DeleteFailed")
  <2>1. v \in Version /\ v.spec = cr.spec /\ v.life = cr.life
    BY <1>1, SetReadyType DEF ReadyReasons
  <2>2. Step(v, "saveFailed") /\ UNCHANGED <<instance, absentFails>>
    BY <1>5 DEF DeleteFails, AfterDeleteFailed
  <2>3. /\ faults' = faults \/ \E kind : Fault(kind)
        /\ UNCHANGED atc \/ Destroys
    BY <1>5 DEF DeleteFails
  <2> HIDE DEF v
  <2>4. /\ atc' \in [Names -> AtcTeam]
        /\ \A n \in Names : atc'[n].exists => atc[n].exists
    BY <1>1, <2>3, Destroyed DEF TypeOK
  <2> QED BY <1>1, <1>2, <2>1, <2>2, <2>3, <2>4, StepConsistent
<1> QED BY <1>3, <1>4, <1>5

\* The finalizer lets a Team go that has nothing left to destroy; only the version
\* being deleted and the one that is gone can be read then.
LEMMA RemoveFinalizerConsistent ==
    ASSUME Consistent, RemoveFinalizer
    PROVE  Consistent'
<1> DEFINE v == [Latest EXCEPT !.fin = FALSE, !.life = "gone"]
<1>1. v \in Version /\ v.life = "gone"
  <2>1. [ready |-> "", readyGen |-> 0] \in Status
    BY DEF Status, ReadyReasons
  <2> QED BY <2>1, Parts, WrittenType
<1>2. pc = "finalize" /\ Finalize(FinalizeAgain) /\ FinalizeAgain \in BOOLEAN /\ UNCHANGED envVars
  BY DEF RemoveFinalizer, FinalizeAgain
<1>3. /\ LoopOK(Version, Pcs)' /\ cr' = NoCopy /\ pc' = "idle" /\ fresh' = FALSE
      /\ Readable' \subseteq Readable \cup {Latest'}
      /\ Latest' = Latest \/ (fresh /\ Latest' = v)
  BY <1>1, <1>2, Parts, FinalizeLoop
<1>4. TypeOK'
  BY <1>2, <1>3, Zenon DEF Consistent, TypeOK, envVars
<1>5. CopyOK'
  BY <1>3 DEF CopyOK
<1> HIDE DEF v
<1>6. CASE Latest' = Latest
  <2>1. GoesOn
    BY <1>3 DEF GoesOn
  <2> QED BY <1>2, <1>3, <1>4, <1>6, <2>1, GoesOnConsistent DEF envVars
<1>7. CASE fresh /\ Latest' = v
  <2>1. /\ Readable' \subseteq {Latest, v}
        /\ Latest.spec = cr.spec /\ Latest.life = "deleting" /\ Done(cr)
    BY <1>2, <1>3, <1>7 DEF Consistent, CopyOK, Deleting
  <2>2. Done(Latest)
    BY <2>1 DEF Done
  <2>3. \A u \in Readable' : u.life # "live" /\ (u.life = "deleting" => Done(u)')
    BY <1>1, <1>2, <2>1, <2>2 DEF Done, envVars
  <2>4. Over'
    BY <1>3, <2>3 DEF Over, Creating, Deleting
  <2>5. NoRevival'
    BY <1>1, <1>7 DEF NoRevival
  <2> QED BY <1>4, <1>5, <2>4, <2>5 DEF Consistent
<1> QED BY <1>3, <1>6, <1>7

\* A metadata Update of a live Team, which Reconcile goes on with if it was
\* accepted.
LEMMA MetaConsistent ==
    ASSUME Consistent, NEW v \in Version, NEW w \in Version, NEW next \in Creating,
           Update(v, w, next), pc \in Creating,
           v.spec = Latest.spec, v.life = Latest.life,
           w.spec = cr.spec, w.life = cr.life,
           UNCHANGED envVars
    PROVE  Consistent'
<1>1. /\ next \in Pcs /\ pc # "idle" /\ pc \notin Deleting
      /\ LoopOK(Version, Pcs) /\ "idle" \in Pcs
  BY Parts DEF Creating, Pcs, Deleting
<1>2. /\ LoopOK(Version, Pcs)' /\ (Latest' = Latest \/ (fresh /\ Latest' = v))
      /\ Readable' \subseteq Readable \cup {Latest'}
      /\ Accepted(v, w, next) \/ Rejected
  BY <1>1, UpdateLoop
<1>3. TypeOK'
  BY <1>2, Zenon DEF Consistent, TypeOK, envVars
<1>4. GoesOn /\ (fresh' => fresh /\ Latest'.spec = Latest.spec) /\ Latest'.life = Latest.life
  BY <1>1, <1>2 DEF GoesOn, Accepted, Rejected
<1> QED BY <1>1, <1>2, <1>3, <1>4, GoesOnConsistent DEF envVars

\* The finalizer is added and the owner set on live Teams.
LEMMA MetadataConsistent ==
    ASSUME Consistent, AddFinalizer \/ SetOwner
    PROVE  Consistent'
<1>1. [ready |-> "", readyGen |-> 0] \in Status
  BY DEF Status, ReadyReasons
<1>2. "owner" \in Creating /\ "resolve" \in Creating /\ "addFinalizer" \in Creating
  BY DEF Creating
<1>3. pc \in Creating /\ cr \in Version /\ Latest \in Version
  BY <1>2, Parts DEF AddFinalizer, SetOwner
<1>4. CASE AddFinalizer
  <2> DEFINE v == [Latest EXCEPT !.fin = TRUE]
             w == [cr EXCEPT !.fin = TRUE]
  <2>1. /\ v \in Version /\ v.spec = Latest.spec /\ v.life = Latest.life
        /\ w \in Version /\ w.spec = cr.spec /\ w.life = cr.life
    BY <1>1, <1>3, WrittenType
  <2>2. Update(v, w, "owner") /\ UNCHANGED envVars
    BY <1>4 DEF AddFinalizer
  <2> HIDE DEF v, w
  <2> QED BY <1>2, <1>3, <2>1, <2>2, MetaConsistent
<1>5. CASE SetOwner
  <2> DEFINE v == [Latest EXCEPT !.owned = TRUE]
             w == [cr EXCEPT !.owned = TRUE]
  <2>1. /\ v \in Version /\ v.spec = Latest.spec /\ v.life = Latest.life
        /\ w \in Version /\ w.spec = cr.spec /\ w.life = cr.life
    BY <1>1, <1>3, WrittenType
  <2>2. Update(v, w, "resolve") /\ UNCHANGED envVars
    BY <1>5 DEF SetOwner
  <2> HIDE DEF v, w
  <2> QED BY <1>2, <1>3, <2>1, <2>2, MetaConsistent
<1> QED BY <1>4, <1>5

\* The calls for a live Team that are not to the API server.
LEMMA LiveConsistent ==
    ASSUME Consistent, OwnerInPlace \/ Resolve \/ CreateOrUpdate \/ CreateOrUpdateFails
    PROVE  Consistent'
<1>1. /\ pc \in Creating /\ pc # "idle" /\ cr \in Version
      /\ atc \in [Names -> AtcTeam]
      /\ UNCHANGED <<instance, absentFails>>
  BY Parts DEF OwnerInPlace, Resolve, CreateOrUpdate, CreateOrUpdateFails,
               Creating, envVars, TypeOK
<1>2. /\ "resolve" \in Creating /\ "apply" \in Creating
      /\ Creating \subseteq Pcs /\ Saves \subseteq Pcs
      /\ "saveFailed" \in Saves /\ "saveReady" \in Saves
  BY DEF Creating, Saves, Pcs
<1>3. \A r \in ReadyReasons :
          /\ setReady(cr, r) \in Version
          /\ setReady(cr, r).spec = cr.spec /\ setReady(cr, r).life = cr.life
  BY <1>1, SetReadyType
<1>4. CreatesOrUpdates => atc' \in [Names -> AtcTeam]
  <2>1. [exists |-> TRUE, auth |-> buildTeamAuth(cr.spec.roles)] \in AtcTeam
    BY <1>1, VersionParts, TeamAuthType DEF AtcTeam
  <2> QED BY <1>1, <2>1, VersionParts DEF CreatesOrUpdates
<1>5. CASE OwnerInPlace
  <2>1. Step(cr, "resolve") /\ UNCHANGED <<atc, faults>>
    BY <1>5 DEF OwnerInPlace, envVars
  <2> QED BY <1>1, <1>2, <2>1, StepConsistent
<1>6. CASE Resolve
  <2>1. UNCHANGED <<atc, faults>>
    BY <1>6 DEF Resolve, envVars
  <2>2. CASE instance = "ready"
    BY <1>1, <1>2, <1>6, <2>1, <2>2, StepConsistent DEF Resolve
  <2>3. CASE instance # "ready"
    <3> DEFINE v == setReady(cr, "InstanceNotReady")
    <3>1. v \in Version /\ v.spec = cr.spec /\ v.life = cr.life
      BY <1>3 DEF ReadyReasons
    <3>2. Step(v, "saveFailed")
      BY <1>6, <2>3 DEF Resolve
    <3> HIDE DEF v
    <3> QED BY <1>1, <1>2, <2>1, <3>1, <3>2, StepConsistent
  <2> QED BY <2>2, <2>3
<1>7. CASE CreateOrUpdate
  <2> DEFINE v == setReady(cr, "Ready")
  <2>1. v \in Version /\ v.spec = cr.spec /\ v.life = cr.life
    BY <1>3 DEF ReadyReasons
  <2>2. Step(v, "saveReady") /\ faults' = faults /\ pc = "apply"
    BY <1>7 DEF CreateOrUpdate
  <2>3. atc' \in [Names -> AtcTeam]
    BY <1>4, <1>7 DEF CreateOrUpdate
  <2> HIDE DEF v
  <2> QED BY <1>1, <1>2, <2>1, <2>2, <2>3, StepConsistent
<1>8. CASE CreateOrUpdateFails
  <2> DEFINE v == setReady(cr, "CreateOrUpdateFailed")
  <2>1. v \in Version /\ v.spec = cr.spec /\ v.life = cr.life
    BY <1>3 DEF ReadyReasons
  <2>2. Step(v, "saveFailed") /\ (\E kind : Fault(kind)) /\ pc = "apply"
    BY <1>8 DEF CreateOrUpdateFails
  <2>3. atc' \in [Names -> AtcTeam]
    BY <1>1, <1>4, <1>8 DEF CreateOrUpdateFails
  <2> HIDE DEF v
  <2> QED BY <1>1, <1>2, <2>1, <2>2, <2>3, StepConsistent
<1> QED BY <1>5, <1>6, <1>7, <1>8

\* The status write deletes nothing.
LEMMA SaveStatusConsistent ==
    ASSUME Consistent, SaveStatus
    PROVE  Consistent'
<1> DEFINE v == [Latest EXCEPT !.status = cr.status]
<1>1. /\ pc \in Saves /\ pc # "idle" /\ cr \in Version /\ Latest \in Version
      /\ SaveAgain \in BOOLEAN /\ Save(SaveAgain, TRUE) /\ UNCHANGED envVars
  BY Parts DEF SaveStatus, Saves, SaveAgain
<1>2. v \in Version /\ v.life = Latest.life
  BY <1>1, VersionParts, WrittenType
<1>3. /\ LoopOK(Version, Pcs)' /\ cr' = NoCopy /\ pc' = "idle" /\ fresh' = FALSE
      /\ Readable' \subseteq Readable \cup {Latest'}
      /\ Latest' = Latest \/ (fresh /\ Latest' = v)
  BY <1>1, <1>2, Parts, SaveLoop
<1>4. TypeOK'
  BY <1>1, <1>3, Zenon DEF Consistent, TypeOK, envVars
<1> HIDE DEF v
<1>5. GoesOn
  BY <1>3 DEF GoesOn
<1> QED BY <1>1, <1>2, <1>3, <1>4, <1>5, GoesOnConsistent DEF envVars

-----------------------------------------------------------------------------
(***************************************************************************)
(* The environment.                                                        *)
(***************************************************************************)
\* The informer, the timers and restarts.
LEMMA ProcessConsistent ==
    ASSUME Consistent, Deliver \/ TimerFires \/ Crash
    PROVE  Consistent'
<1>1. UNCHANGED envVars
  BY DEF Deliver, TimerFires, Crash
<1>2. CASE Deliver \/ TimerFires
  <2>1. /\ LoopOK(Version, Pcs)' /\ Latest' = Latest /\ Readable' \subseteq Readable
        /\ UNCHANGED <<fresh, pc, cr, faults>>
    BY <1>2, Parts, WakeLoop DEF Deliver, TimerFires
  <2>2. TypeOK'
    BY <1>1, <2>1, Zenon DEF Consistent, TypeOK, envVars
  <2>3. GoesOn
    BY <2>1, Parts DEF GoesOn
  <2> QED BY <1>1, <2>1, <2>2, <2>3, GoesOnConsistent DEF envVars
<1>3. CASE Crash
  <2>1. /\ LoopOK(Version, Pcs)' /\ Latest' = Latest /\ Readable' \subseteq Readable
        /\ cr' = NoCopy /\ pc' = "idle" /\ fresh' = FALSE
    BY <1>3, Parts, RestartLoop DEF Crash
  <2>2. TypeOK'
    BY <1>1, <2>1, Zenon DEF Consistent, TypeOK, envVars
  <2>3. GoesOn
    BY <2>1 DEF GoesOn
  <2> QED BY <1>1, <2>1, <2>2, <2>3, GoesOnConsistent DEF envVars
<1> QED BY <1>2, <1>3

\* An edit of the spec.
LEMMA EditConsistent ==
    ASSUME Consistent, EditSpec
    PROVE  Consistent'
<1>1. PICK s \in Specs : Edit(s)
  BY DEF EditSpec
<1> DEFINE v == [Latest EXCEPT !.spec = s, !.gen = @ + 1]
<1>2. v \in Version /\ v.life = Latest.life
  BY Parts, UserVersions
<1>3. UserWrites(v) /\ UNCHANGED envVars
  BY <1>1 DEF Edit, EditSpec
<1> HIDE DEF v
<1>4. /\ LoopOK(Version, Pcs)' /\ Latest' = v /\ Readable' = Readable \cup {v}
      /\ fresh' = FALSE /\ UNCHANGED <<pc, cr, faults>>
  BY <1>2, <1>3, Parts, UserLoop
<1>5. TypeOK'
  BY <1>3, <1>4, Zenon DEF Consistent, TypeOK, envVars
<1>6. GoesOn
  BY <1>4, Parts DEF GoesOn
<1> QED BY <1>2, <1>3, <1>4, <1>5, <1>6, GoesOnConsistent DEF envVars

\* A deleted Team waits for its finalizer, or is gone.
LEMMA DeletedType ==
    ASSUME Latest \in Version
    PROVE  Deleted \in Version /\ Deleted.life \in {"deleting", "gone"}
<1> DEFINE life == IF Latest.fin THEN "deleting" ELSE "gone"
<1>1. life \in {"deleting", "gone"}
  OBVIOUS
<1>2. Deleted = [Latest EXCEPT !.life = life, !.gen = @ + 1]
  BY DEF Deleted
<1>3. Latest.spec \in Specs
  BY VersionParts
<1> HIDE DEF life
<1> QED BY <1>1, <1>2, <1>3, UserVersions

\* A live Team is deleted: no version being deleted can be read yet, and no pass is
\* on the deleting path.
LEMMA DeletedConsistent ==
    ASSUME Consistent, TypeOK', Latest.life = "live",
           Latest' = Deleted, Readable' = Readable \cup {Deleted},
           fresh' = FALSE, UNCHANGED <<pc, cr, atc>>
    PROVE  Consistent'
<1>1. Deleted.life \in {"deleting", "gone"}
  BY Parts, DeletedType
<1>2. \A v \in Readable : v.life = "live"
  BY DEF Consistent, NoRevival
<1>3. pc \notin Deleting
  BY DEF Consistent, CopyOK, Deleting
<1>4. CopyOK'
  BY <1>1 DEF Consistent, CopyOK, Done
<1>5. Over'
  BY <1>2, <1>3 DEF Over
<1>6. NoRevival'
  BY <1>1 DEF NoRevival
<1> QED BY <1>4, <1>5, <1>6 DEF Consistent

\* A user or the garbage collector deletes the Team.
LEMMA DeletionConsistent ==
    ASSUME Consistent, MarkDeleted \/ Collect
    PROVE  Consistent'
<1>1. Deleted \in Version
  BY Parts, DeletedType
<1>2. Latest.life = "live" /\ UNCHANGED envVars
  BY DEF MarkDeleted, Collect, envVars
<1>3. CASE MarkDeleted
  <2>1. /\ LoopOK(Version, Pcs)' /\ Latest' = Deleted /\ Readable' = Readable \cup {Deleted}
        /\ fresh' = FALSE /\ UNCHANGED <<pc, cr, faults>>
    <3>1. UserWrites(Deleted)
      BY <1>3 DEF MarkDeleted
    <3> QED BY <1>1, <3>1, Parts, UserLoop
  <2>2. TypeOK'
    BY <1>2, <2>1, Zenon DEF Consistent, TypeOK, envVars
  <2> QED BY <1>2, <2>1, <2>2, DeletedConsistent DEF envVars
<1>4. CASE Collect
  <2>1. /\ LogOK(log', Version) /\ Latest' = Deleted
        /\ Readable' = Readable \cup {Deleted}
    BY <1>1, <1>4, Parts, LoopParts, LogGrows DEF Collect
  <2>2. fresh' = FALSE /\ UNCHANGED <<queued, timer, pc, cr, edits, faults, envVars>>
    BY <1>4 DEF Collect
  <2>3. LoopOK(Version, Pcs)'
    BY <2>1, <2>2, Parts, Zenon DEF LoopOK, LogOK
  <2>4. TypeOK'
    BY <1>2, <2>3, Zenon DEF Consistent, TypeOK, envVars
  <2> QED BY <1>2, <2>1, <2>2, <2>4, DeletedConsistent DEF envVars
<1> QED BY <1>3, <1>4

\* The Instance, and other clients of the ATC, which create no team.
LEMMA OthersConsistent ==
    ASSUME Consistent, InstanceBreaks \/ InstanceHeals \/ OthersChange
    PROVE  Consistent'
<1>1. /\ UNCHANGED <<loopVars, edits, absentFails>>
      /\ faults' = faults \/ \E kind : Fault(kind)
  BY DEF InstanceBreaks, InstanceHeals, OthersChange
<1>2. /\ LoopOK(Version, Pcs)' /\ Latest' = Latest /\ Readable' = Readable
      /\ UNCHANGED <<fresh, pc, cr>>
  BY <1>1, Parts, OthersLoop
<1>3. instance' \in {"missing", "notReady", "ready"}
  BY DEF InstanceBreaks, InstanceHeals, OthersChange, Consistent, TypeOK
<1>4. atc' \in [Names -> AtcTeam] /\ \A n \in Names : atc'[n].exists => atc[n].exists
  <2>1. atc \in [Names -> AtcTeam]
    BY DEF Consistent, TypeOK
  <2>2. CASE OthersChange
    <3>1. PICK n \in Names, e \in BOOLEAN :
              /\ atc[n].exists
              /\ atc' = [atc EXCEPT ![n] = [NoTeam EXCEPT !.exists = e]]
      BY <2>2 DEF OthersChange
    <3>2. [NoTeam EXCEPT !.exists = e] \in AtcTeam
      BY NoTeamType DEF AtcTeam
    <3> HIDE DEF NoTeam
    <3>3. atc' \in [Names -> AtcTeam]
      BY <2>1, <3>1, <3>2
    <3> QED BY <2>1, <3>1, <3>3
  <2> QED BY <2>1, <2>2 DEF InstanceBreaks, InstanceHeals
<1>5. TypeOK'
  BY <1>1, <1>2, <1>3, <1>4, Typed DEF Consistent, TypeOK
<1>6. GoesOn
  BY <1>2, Parts DEF GoesOn
<1> QED BY <1>2, <1>4, <1>5, <1>6, GoesOnConsistent

-----------------------------------------------------------------------------
(***************************************************************************)
(* The theorems.                                                           *)
(***************************************************************************)
\* Every step keeps the invariant.
LEMMA NextConsistent == Consistent /\ [Next]_vars => Consistent'
<1> SUFFICES ASSUME Consistent, [Next]_vars PROVE Consistent'
  OBVIOUS
<1>1. CASE Reconcile
  BY <1>1, StartConsistent, DeleteConsistent, RemoveFinalizerConsistent,
     MetadataConsistent, LiveConsistent, SaveStatusConsistent DEF Reconcile
<1>2. CASE Environment
  BY <1>2, ProcessConsistent, EditConsistent, DeletionConsistent, OthersConsistent
  DEF Environment
<1>3. CASE UNCHANGED vars
  <2>1. /\ UNCHANGED <<log, queued, timer, fresh, pc, cr, edits, faults>>
        /\ UNCHANGED <<atc, instance, absentFails>>
    BY <1>3 DEF vars, loopVars, envVars
  <2>2. Latest' = Latest /\ Readable' = Readable
    BY <2>1 DEF Latest, Readable
  <2>3. TypeOK'
    BY <2>1, Zenon DEF Consistent, TypeOK, LoopOK
  <2> QED BY <2>1, <2>2, <2>3 DEF Consistent, CopyOK, NoRevival, Over, Done
<1> QED BY <1>1, <1>2, <1>3 DEF Next

\* The invariant holds in every reachable state.
LEMMA AlwaysConsistent == Spec => []Consistent
BY InitConsistent, NextConsistent, PTL DEF Spec

\* Every variable keeps its type.
THEOREM TypeCorrect == Spec => []TypeOK
<1>1. Consistent => TypeOK
  BY DEF Consistent
<1> QED BY <1>1, AlwaysConsistent, PTL

\* Only removing the finalizer of a Team takes it from "deleting" to "gone".
LEMMA GoneByFinalizer ==
    ASSUME Consistent, Next, Latest.life = "deleting", Latest'.life = "gone"
    PROVE  fresh /\ RemoveFinalizer
<1> SUFFICES ASSUME ~(fresh /\ RemoveFinalizer) PROVE FALSE
  OBVIOUS
<1>0. /\ LoopOK(Version, Pcs) /\ "idle" \in Pcs /\ Saves \subseteq Pcs
      /\ Latest \in Version /\ Cached \in Version
      /\ Latest' # Latest
  BY Parts
<1>1. CASE log' = log
  BY <1>0, <1>1 DEF Latest
<1>2. ASSUME RemoveFinalizer PROVE FALSE
  <2>1. [Latest EXCEPT !.fin = FALSE, !.life = "gone"] \in Version
    <3>1. [ready |-> "", readyGen |-> 0] \in Status
      BY DEF Status, ReadyReasons
    <3> QED BY <1>0, <3>1, WrittenType
  <2>2. Finalize(FinalizeAgain) /\ FinalizeAgain \in BOOLEAN
    BY <1>2 DEF RemoveFinalizer, FinalizeAgain
  <2> QED BY <1>0, <1>2, <2>1, <2>2, FinalizeLoop
<1>3. ASSUME AddFinalizer \/ SetOwner PROVE FALSE
  <2> DEFINE v == [Latest EXCEPT !.fin = TRUE]
             w == [Latest EXCEPT !.owned = TRUE]
  <2>1. v.life = Latest.life /\ w.life = Latest.life
    BY <1>0 DEF Version
  <2>2. \E u : log' = log \/ (log' = Append(log, u) /\ u \in {v, w})
    BY <1>3 DEF AddFinalizer, SetOwner, Update, APIUpdate, Store
  <2>3. v \in Version /\ w \in Version
    BY <1>0 DEF Version
  <2> HIDE DEF v, w
  <2> QED BY <1>0, <1>1, <2>1, <2>2, <2>3, LoopParts, LogGrows
<1>4. ASSUME SaveStatus PROVE FALSE
  <2> DEFINE v == [Latest EXCEPT !.status = cr.status]
  <2>1. v \in Version /\ v.life = Latest.life
    BY <1>0, <1>4, Parts, VersionParts, WrittenType DEF SaveStatus, Saves
  <2>2. \E again \in BOOLEAN : Save(again, TRUE)
    BY <1>4 DEF SaveStatus, SaveAgain
  <2>3. Latest' = Latest \/ Latest' = v
    BY <1>0, <2>1, <2>2, SaveLoop
  <2> HIDE DEF v
  <2> QED BY <1>0, <2>1, <2>3
<1>5. ASSUME EditSpec PROVE FALSE
  <2>1. PICK s \in Specs : Edit(s)
    BY <1>5 DEF EditSpec
  <2> DEFINE v == [Latest EXCEPT !.spec = s, !.gen = @ + 1]
  <2>2. UserWrites(v) /\ v \in Version /\ v.life = Latest.life
    BY <1>0, <2>1, UserVersions DEF Edit
  <2> HIDE DEF v
  <2> QED BY <1>0, <2>2, UserLoop
<1>6. ASSUME Deliver \/ TimerFires PROVE FALSE
  BY <1>0, <1>6, WakeLoop DEF Deliver, TimerFires
<1>7. ASSUME Crash PROVE FALSE
  BY <1>0, <1>7, RestartLoop DEF Crash
<1>8. ASSUME StartNothing \/ StartSuspended \/ StartDeleting \/ StartLive PROVE FALSE
  BY <1>1, <1>8 DEF StartNothing, StartSuspended, StartDeleting, StartLive, Ignore, Take
<1>9. ASSUME DeleteOrphan \/ DeleteDestroys \/ DeleteFails PROVE FALSE
  BY <1>1, <1>9 DEF DeleteOrphan, DeleteDestroys, DeleteFails, Step
<1>10. ASSUME OwnerInPlace \/ Resolve \/ CreateOrUpdate \/ CreateOrUpdateFails PROVE FALSE
  BY <1>1, <1>10 DEF OwnerInPlace, Resolve, CreateOrUpdate, CreateOrUpdateFails, Step
<1>11. ASSUME MarkDeleted \/ Collect PROVE FALSE
  BY <1>11 DEF MarkDeleted, Collect
<1>12. ASSUME InstanceBreaks \/ InstanceHeals \/ OthersChange PROVE FALSE
  BY <1>1, <1>12 DEF InstanceBreaks, InstanceHeals, OthersChange, loopVars
<1> QED BY <1>2, <1>3, <1>4, <1>5, <1>6, <1>7, <1>8, <1>9, <1>10, <1>11, <1>12
        DEF Next, Reconcile, Environment

\* "Deleting a Team CR deletes the Concourse team unless reclaimPolicy: Orphan":
\* the finalizer lets a Team go only after deleteTeam destroyed its team or the
\* policy kept it, and a copy that lets it go is the server's version, so that no
\* edit of the policy came in between.
THEOREM NothingStays == Spec => NothingLeftBehind
<1>1. ASSUME Consistent, [Next]_vars
      PROVE  [(/\ Latest.life = "deleting" /\ Latest'.life = "gone"
               /\ ~Latest.spec.orphan)
                 => ~atc[Latest.spec.name].exists]_vars
  <2> SUFFICES ASSUME Next, Latest.life = "deleting", Latest'.life = "gone",
                      ~Latest.spec.orphan
               PROVE  ~atc[Latest.spec.name].exists
    BY <1>1
  <2>1. fresh /\ pc = "finalize"
    BY <1>1, GoneByFinalizer DEF RemoveFinalizer
  <2>2. cr.spec = Latest.spec /\ Done(cr)
    BY <1>1, <2>1 DEF Consistent, CopyOK
  <2> QED BY <2>2 DEF Done
<1> QED BY <1>1, AlwaysConsistent, PTL DEF Spec, NothingLeftBehind

\* The operator destroys a team only for a Team that is being deleted, as its
\* policy says (deleteTeam); also with informer lag, because a pass over an old
\* version of a Team that is gone finds the team destroyed already.
THEOREM OnlyOnRequest == Spec => DestroyedOnRequest
<1>1. ASSUME Consistent, [Next]_vars
      PROVE  [\A n \in Names :
                (pc = "delete" /\ pc' # "delete" /\ atc[n].exists /\ ~atc'[n].exists)
                  => /\ Latest.life = "deleting"
                     /\ fresh => ~Latest.spec.orphan
                     /\ (fresh /\ n = "main") => Latest.spec.allowDestroy]_vars
  <2> SUFFICES ASSUME Next, NEW n \in Names, pc = "delete", pc' # "delete",
                      atc[n].exists, ~atc'[n].exists
               PROVE  /\ Latest.life = "deleting"
                      /\ fresh => ~Latest.spec.orphan
                      /\ (fresh /\ n = "main") => Latest.spec.allowDestroy
    BY <1>1
  <2>1. Destroys /\ ~cr.spec.orphan /\ ~Refuses(cr.spec)
    <3>1. DeleteDestroys \/ DeleteFails
      BY DEF Next, Reconcile, Environment, StartNothing, StartSuspended, StartDeleting,
             StartLive, DeleteOrphan, RemoveFinalizer, AddFinalizer, SetOwner,
             OwnerInPlace, Resolve, CreateOrUpdate, CreateOrUpdateFails, SaveStatus,
             Saves, Take, Ignore, envVars, Deliver, TimerFires, Crash, EditSpec,
             MarkDeleted, Collect, InstanceBreaks, InstanceHeals, OthersChange, loopVars
    <3> QED BY <3>1 DEF DeleteDestroys, DeleteFails
  <2>2. TypeOK /\ cr \in Version /\ Latest \in Version
    BY <1>1, Parts
  <2>3. n = cr.spec.name
    BY <2>1, <2>2, VersionParts DEF Destroys, TypeOK
  <2>4. ~Done(cr)
    BY <2>1, <2>3 DEF Done
  <2>5. /\ Latest.life # "live"
        /\ fresh => cr.spec = Latest.spec
    BY <1>1 DEF Consistent, CopyOK, Deleting
  <2>6. Latest.life # "gone"
    BY <1>1, <2>4 DEF Consistent, Over, Deleting
  <2>7. Latest.life = "deleting"
    BY <2>2, <2>5, <2>6 DEF Version
  <2> QED BY <2>1, <2>3, <2>5, <2>7 DEF Refuses
<1> QED BY <1>1, AlwaysConsistent, PTL DEF Spec, DestroyedOnRequest

=============================================================================
