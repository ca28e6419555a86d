--------------------------- MODULE TeamController ---------------------------
(***************************************************************************)
(* TeamReconciler (internal/controller/team_controller.go) for one Team:   *)
(* the Concourse team it creates and updates in every pass, and its        *)
(* finalizer, which destroys that team and needs a Ready Instance to do    *)
(* so.  The Team is owned by its Instance, so that the garbage collector   *)
(* deletes it once the Instance is gone.                                   *)
(***************************************************************************)
EXTENDS Reconciler

CONSTANTS
    Names,       \* names of Concourse teams
    Principals,  \* users and groups that roles are bound to
    Specs,       \* specs the Team is created with or edited to
    AbsentFails  \* does DestroyTeam fail for a team the ATC does not have?

AllFaults == {"crash", "atcError", "atcLost", "apiError", "apiLost",
              "instance", "others"}

Roles == {"owner", "member", "pipeline-operator", "viewer"}

\* TeamRole; roles are a list with one entry per role.
TeamRole == [role : Roles, users : SUBSET Principals, groups : SUBSET Principals]

ASSUME TeamAssumption ==
    /\ "default" \in Names
    /\ AbsentFails \subseteq BOOLEAN
    /\ FaultKinds \subseteq AllFaults

\* TeamSpec; name is "default" as long as teamName is unset.
Spec_ == [name : Names, roles : Seq(TeamRole), allowDestroy : BOOLEAN,
          orphan : BOOLEAN, suspend : BOOLEAN]

ASSUME SpecsAssumption == Specs \subseteq Spec_

ReadyReasons == {"", "Suspended", "DeleteFailed", "InstanceNotReady",
                 "CreateOrUpdateFailed", "Ready"}

\* TeamStatus: the Ready condition, True exactly for "Ready".
Status == [ready : ReadyReasons, readyGen : Nat]

Version == [life : {"live", "deleting", "gone"}, fin : BOOLEAN, owned : BOOLEAN,
            gen : Nat, spec : Specs, status : Status]

Created(s, o) == [life |-> "live", fin |-> FALSE, owned |-> o, gen |-> 0,
                  spec |-> s, status |-> [ready |-> "", readyGen |-> 0]]

\* atc.TeamAuth: users and groups by role.
Auth == UNION {[R -> [users : SUBSET Principals, groups : SUBSET Principals]] :
                  R \in SUBSET Roles}

\* A team the ATC has, or does not have.
AtcTeam == [exists : BOOLEAN, auth : Auth]

NoTeam == [exists |-> FALSE, auth |-> <<>>]

Saves == {"saveSuspended", "saveFailed", "saveReady"}

Pcs == {"idle", "delete", "finalize", "addFinalizer", "owner", "resolve", "apply"}
           \cup Saves

VARIABLES
    atc,         \* the ATC's teams by name
    instance,    \* the Instance: missing, not allowed or not Ready, Ready
    absentFails  \* the ATC's answer to DestroyTeam for no team, fixed

envVars == <<atc, instance, absentFails>>
vars    == <<loopVars, edits, faults, envVars>>

\* The types of all variables.
TypeOK ==
    /\ LoopOK(Version, Pcs)
    /\ atc \in [Names -> AtcTeam]
    /\ instance \in {"missing", "notReady", "ready"}
    /\ absentFails \in AbsentFails

Init ==
    /\ \E s \in Specs, o \in BOOLEAN : LoopInit(Created(s, o))
    /\ atc = [n \in Names |-> [NoTeam EXCEPT !.exists = n = "main"]]
    /\ instance = "ready" /\ absentFails \in AbsentFails

-----------------------------------------------------------------------------
(***************************************************************************)
(* Reconcile.                                                              *)
(***************************************************************************)
StartNothing ==
    /\ \/ Cached.life = "gone"
       \/ Cached.life = "deleting" /\ ~Cached.spec.suspend /\ ~Cached.fin
    /\ Ignore
    /\ UNCHANGED envVars

\* Suspend is looked at before deletion.
StartSuspended ==
    /\ Cached.life # "gone" /\ Cached.spec.suspend
    /\ Take(setReady(Cached, "Suspended"), "saveSuspended")
    /\ UNCHANGED envVars

StartDeleting ==
    /\ Cached.life = "deleting" /\ ~Cached.spec.suspend /\ Cached.fin
    /\ Take(Cached, "delete")
    /\ UNCHANGED envVars

StartLive ==
    /\ Cached.life = "live" /\ ~Cached.spec.suspend
    /\ Take(Cached, IF Cached.fin THEN "owner" ELSE "addFinalizer")
    /\ UNCHANGED envVars

MutRefuses(s) == FALSE

\* "refusing to destroy reserved team"
Refuses(s) == s.name = "main" /\ ~s.allowDestroy

\* deleteTeam keeps an orphaned team.
DeleteOrphan ==
    /\ pc = "delete" /\ cr.spec.orphan
    /\ Step(cr, "finalize")
    /\ UNCHANGED <<envVars, faults>>

\* DestroyTeam reaches the ATC.
Destroys == atc' = [atc EXCEPT ![cr.spec.name] = NoTeam]

DeleteDestroys ==
    /\ pc = "delete" /\ ~cr.spec.orphan /\ ~Refuses(cr.spec) /\ instance = "ready"
    /\ atc[cr.spec.name].exists \/ ~absentFails
    /\ Destroys
    /\ Step(cr, "finalize")
    /\ UNCHANGED <<instance, absentFails, faults>>

MutAfterDeleteFailed == "finalize"

MutAfterDeleteFailedPc == "requeue"

\* An error of deleteTeam keeps the finalizer.
AfterDeleteFailed == "saveFailed"

\* deleteTeam refuses, finds no client, or its request fails.
DeleteFails ==
    /\ pc = "delete" /\ ~cr.spec.orphan
    /\ \/ Refuses(cr.spec) /\ UNCHANGED <<atc, faults>>
       \/ ~Refuses(cr.spec) /\ instance # "ready" /\ UNCHANGED <<atc, faults>>
       \/ /\ ~Refuses(cr.spec) /\ instance = "ready"
          /\ \/ ~atc[cr.spec.name].exists /\ absentFails /\ UNCHANGED <<atc, faults>>
             \/ Fault("atcError") /\ UNCHANGED atc
             \/ Fault("atcLost") /\ Destroys
    /\ Step(setReady(cr, "DeleteFailed"), AfterDeleteFailed)
    /\ UNCHANGED <<instance, absentFails>>

MutFinalizeAgain == FALSE

\* "remove finalizer" errors are returned.
FinalizeAgain == TRUE

RemoveFinalizer ==
    /\ pc = "finalize"
    /\ Finalize(FinalizeAgain)
    /\ UNCHANGED envVars

AddFinalizer ==
    /\ pc = "addFinalizer"
    /\ Update([Latest EXCEPT !.fin = TRUE], [cr EXCEPT !.fin = TRUE], "owner")
    /\ UNCHANGED envVars

SetOwner ==
    /\ pc = "owner" /\ ~cr.owned /\ instance # "missing"
    /\ Update([Latest EXCEPT !.owned = TRUE], [cr EXCEPT !.owned = TRUE], "resolve")
    /\ UNCHANGED envVars

\* An Instance that cannot be read is no error here.
OwnerInPlace ==
    /\ pc = "owner" /\ (cr.owned \/ instance = "missing")
    /\ Step(cr, "resolve")
    /\ UNCHANGED <<envVars, faults>>

\* resolveInstanceForTeam
Resolve ==
    /\ pc = "resolve"
    /\ IF instance = "ready" THEN Step(cr, "apply")
                             ELSE Step(setReady(cr, "InstanceNotReady"), "saveFailed")
    /\ UNCHANGED <<envVars, faults>>

MutbuildTeamAuth(roles) ==
    [r \in {roles[i].role : i \in DOMAIN roles} |->
        [users  |-> UNION {roles[i].users : i \in {j \in DOMAIN roles : roles[j].role = r}},
         groups |-> UNION {roles[i].users : i \in {j \in DOMAIN roles : roles[j].role = r}}]]

\* buildTeamAuth collects the users and groups of each role.
buildTeamAuth(roles) ==
    LET of(r) == {roles[i] : i \in {j \in DOMAIN roles : roles[j].role = r}}
    IN  [r \in {roles[i].role : i \in DOMAIN roles} |->
            [users  |-> UNION {t.users : t \in of(r)},
             groups |-> UNION {t.groups : t \in of(r)}]]

CreatesOrUpdates ==
    atc' = [atc EXCEPT ![cr.spec.name] = [exists |-> TRUE,
                                          auth |-> buildTeamAuth(cr.spec.roles)]]

CreateOrUpdate ==
    /\ pc = "apply"
    /\ CreatesOrUpdates
    /\ Step(setReady(cr, "Ready"), "saveReady")
    /\ UNCHANGED <<instance, absentFails, faults>>

CreateOrUpdateFails ==
    /\ pc = "apply"
    /\ \/ Fault("atcError") /\ UNCHANGED atc
       \/ Fault("atcLost") /\ CreatesOrUpdates
    /\ Step(setReady(cr, "CreateOrUpdateFailed"), "saveFailed")
    /\ UNCHANGED <<instance, absentFails>>

\* A suspended Team comes back only if its save failed, any other after 30
\* seconds or 5 minutes.
SaveAgain == pc # "saveSuspended"

SaveStatus ==
    /\ pc \in Saves
    /\ Save(SaveAgain, TRUE)
    /\ UNCHANGED envVars

Reconcile ==
    \/ StartNothing \/ StartSuspended \/ StartDeleting \/ StartLive
    \/ DeleteOrphan \/ DeleteDestroys \/ DeleteFails \/ RemoveFinalizer
    \/ AddFinalizer \/ SetOwner \/ OwnerInPlace \/ Resolve
    \/ CreateOrUpdate \/ CreateOrUpdateFails \/ SaveStatus

-----------------------------------------------------------------------------
(***************************************************************************)
(* Users, the Instance, the garbage collector, other clients of the ATC.   *)
(***************************************************************************)
Deliver == DeliverVersion /\ UNCHANGED envVars

TimerFires == Fires /\ UNCHANGED envVars

Crash == Restart /\ UNCHANGED envVars

\* The CRD's rules admit setting a teamName that was unset.
EditSpec ==
    /\ \E s \in Specs : Latest.spec.name \in {"default", s.name} /\ Edit(s)
    /\ UNCHANGED envVars

Deleted == [Latest EXCEPT !.life = IF Latest.fin THEN "deleting" ELSE "gone",
                          !.gen = @ + 1]

MarkDeleted ==
    /\ Latest.life = "live"
    /\ UserWrites(Deleted)
    /\ UNCHANGED envVars

\* The garbage collector deletes what an Instance that is gone owned.
Collect ==
    /\ Latest.life = "live" /\ Latest.owned /\ instance = "missing"
    /\ log' = Append(log, Deleted) /\ fresh' = FALSE
    /\ UNCHANGED <<queued, timer, pc, cr, edits, faults, envVars>>

InstanceBreaks ==
    /\ instance = "ready" /\ Fault("instance")
    /\ instance' \in {"missing", "notReady"}
    /\ UNCHANGED <<loopVars, edits, atc, absentFails>>

InstanceHeals ==
    /\ instance # "ready" /\ instance' = "ready"
    /\ UNCHANGED <<loopVars, edits, faults, atc, absentFails>>

\* Somebody else takes the roles of a team away, or destroys it, with fly.
OthersChange ==
    /\ Fault("others")
    /\ \E n \in Names, e \in BOOLEAN :
          /\ atc[n].exists
          /\ atc' = [atc EXCEPT ![n] = [NoTeam EXCEPT !.exists = e]]
    /\ UNCHANGED <<loopVars, edits, instance, absentFails>>

Environment ==
    \/ Deliver \/ TimerFires \/ Crash \/ EditSpec \/ MarkDeleted
    \/ Collect \/ InstanceBreaks \/ InstanceHeals \/ OthersChange

Next == Reconcile \/ Environment

Spec == Init /\ [][Next]_vars

\* The controller's worker goroutine, the informer and the timers run.
Fairness == WF_vars(Reconcile) /\ WF_vars(Deliver) /\ WF_vars(TimerFires)

FairSpec == Spec /\ Fairness

-----------------------------------------------------------------------------
(***************************************************************************)
(* Properties.                                                             *)
(***************************************************************************)
\* "Deleting a Team CR deletes the Concourse team unless reclaimPolicy: Orphan.
\* Destroying the reserved main team also requires allowDestroy: true"
\* (README.md:68): when the finalizer lets a Team go whose policy is Delete, its
\* Concourse team is gone, whatever failed, got lost or was edited before
\* (Reconcile's handling of deleteTeam's errors).
NothingLeftBehind ==
    [][(/\ Latest.life = "deleting" /\ Latest'.life = "gone"
        /\ ~Latest.spec.orphan)
          => ~atc[Latest.spec.name].exists]_vars

\* The operator destroys a team only on behalf of a Team that is being deleted;
\* the reserved one only if the CR allows it, or did until a moment ago
\* (deleteTeam).
DestroyedOnRequest ==
    [][\A n \in Names :
          (pc = "delete" /\ pc' # "delete" /\ atc[n].exists /\ ~atc'[n].exists)
              => /\ Latest.life = "deleting"
                 /\ fresh => ~Latest.spec.orphan
                 /\ (fresh /\ n = "main") => Latest.spec.allowDestroy]_vars

Wanted == Latest.life = "live" /\ ~Latest.spec.suspend /\ instance = "ready"

Granted == atc[Latest.spec.name]

\* A Team that stays wanted ends up in the ATC with each role's users and groups
\* as the spec binds them, after faults, restarts and changes behind the
\* operator's back (CreateOrUpdate in every pass, buildTeamAuth).
RolesConverge ==
    <>[]Wanted =>
        <>[](/\ Granted.exists
             /\ \A i \in DOMAIN Latest.spec.roles :
                   LET t == Latest.spec.roles[i]
                   IN  /\ t.role \in DOMAIN Granted.auth
                       /\ t.users \subseteq Granted.auth[t.role].users
                       /\ t.groups \subseteq Granted.auth[t.role].groups
             /\ \A r \in DOMAIN Granted.auth :
                   \A u \in Granted.auth[r].users \cup Granted.auth[r].groups :
                       \E i \in DOMAIN Latest.spec.roles :
                          /\ Latest.spec.roles[i].role = r
                          /\ u \in Latest.spec.roles[i].users
                                       \cup Latest.spec.roles[i].groups)

\* The finalizer is not held up by suspend, by the reserved name or by the
\* Instance it needs.
MayGo ==
    /\ ~Latest.spec.suspend
    /\ Latest.spec.orphan \/ (~Refuses(Latest.spec) /\ instance = "ready")

\* A Team that stays deleted disappears once its Instance stays Ready, also when
\* the garbage collector deleted it because the Instance was gone and the
\* Instance came back, as long as the ATC takes a repeated DestroyTeam
\* (Reconcile's 30 second retries).
DeletionCompletes ==
    ~absentFails => []<>~(Latest.life = "deleting" /\ MayGo)
=============================================================================
