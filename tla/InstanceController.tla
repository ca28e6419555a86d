-------------------------- MODULE InstanceController --------------------------
(***************************************************************************)
(* InstanceReconciler (internal/controller/instance_controller.go) for one *)
(* Instance, the client cache every controller shares                      *)
(* (internal/concourse/client_cache.go), the credential Secret its clients *)
(* are built from (internal/concourse/auth.go), and the Team and Worker    *)
(* controllers as users of that cache (internal/controller/resolver.go).   *)
(*                                                                         *)
(* All threads run GetOrBuild: a locked lookup, an unlocked build from the *)
(* Secret, a locked Set.  A step of the module is one locked section, one  *)
(* request to Concourse or one call to the API server.                     *)
(***************************************************************************)
EXTENDS ApiServer

CONSTANTS
    Consumers,   \* controller threads that resolve a client for a Team or Worker
    Specs,       \* specs the Instance is created with or edited to
    Urls, Walls, \* the ATC URLs and the banner messages that occur in Specs
    MaxCred,     \* bound: credentials are numbered 1 .. MaxCred, in order of issue
    RevokeFirst, \* does a new credential replace the old one in the ATC at once?
    MaxEdits,    \* bound: user writes of the Instance
    None         \* a thread between two reconciles holds no Instance, no client

AllFaults == {"crash", "atcError", "atcLost", "apiError", "apiLost", "secret"}

Reconciler == "reconciler"

ASSUME InstanceAssumption ==
    /\ Reconciler \notin Consumers
    /\ "" \notin Walls
    /\ MaxCred \in Nat \ {0}
    /\ RevokeFirst \in BOOLEAN /\ InformerLag \in BOOLEAN
    /\ MaxEdits \in Nat /\ MaxFaults \in Nat
    /\ FaultKinds \subseteq AllFaults

Threads == Consumers \cup {Reconciler}

\* InstanceSpec. auth is FALSE only in an object stored before the CRD's
\* validation rule; wall is "" for nil; allowed says that the consumers'
\* namespaces are in allowedNamespaces.
Spec_ == [url : Urls, auth : BOOLEAN, wall : Walls \cup {""},
          suspend : BOOLEAN, allowed : BOOLEAN]

ASSUME SpecsAssumption == Specs \subseteq Spec_

ReadyReasons == {"", "Suspended", "InvalidSpec", "AuthFailed", "InfoFailed",
                 "WallFailed", "Ready"}

\* The error text in a condition's message: the request failed, or the ATC
\* refused the credential.
Causes == {"", "failed", "refused"}

\* InstanceStatus: the Ready condition (True exactly for "Ready"), what the
\* WorkersHealthy condition knows, and the recorded wall message.
\* authSecretGeneration is left out: Secrets have no generation, it is always 0.
Status == [ready : ReadyReasons, cause : Causes, readyGen : Nat,
           workers : {"", "unknown", "known"}, wall : Walls \cup {""}]

NoStatus == [ready |-> "", cause |-> "", readyGen |-> 0, workers |-> "",
             wall |-> ""]

\* known is history, not code: the credential that reads of the Secret returned
\* when this resourceVersion was written.
Version == [rv : Nat, life : {"live", "deleting", "gone"}, fin : BOOLEAN,
            gen : Nat, spec : Spec_, status : Status, known : 0 .. MaxCred]

Created(s, rv) == [rv |-> rv, life |-> "live", fin |-> FALSE, gen |-> 0,
                   spec |-> s, status |-> NoStatus, known |-> 1]

Creds == 1 .. MaxCred

\* A go-concourse client: the server it talks to, the credential it was built
\* from. A cache entry: the resourceVersion in its key, the client.
Client == [url : Urls, cred : Creds]
Entry  == [rv : Nat, client : Client]

VARIABLES
    th,        \* each thread: its next step, the Instance it read, its client
    cache,     \* Cache.store, the entries of this Instance
    secret,    \* the credential in the Secret as the operator reads it, from its
               \* informer's copy; 0 when it is not there
    issued,    \* the newest credential the ATC accepts
    oldest,    \* the oldest credential it accepts
    wall,      \* the banner of each ATC
    edits      \* user writes so far

crVars  == <<log, queued, timer>>
envVars == <<secret, issued, oldest, wall, edits>>
vars    == <<crVars, fresh, faults, th, cache, envVars>>

Pcs == {"idle", "finalize", "addFinalizer", "lookup", "build", "set",
        "call", "workers", "wall", "saveQuiet", "saveRetry"}

Idle == [pc |-> "idle", inst |-> None, cl |-> None]

Thread == [pc : Pcs, inst : Version \cup {None}, cl : Client \cup {None}]

\* The types of all variables.
TypeOK ==
    /\ log \in Seq(Version) /\ Len(log) > 0
    /\ queued \in BOOLEAN /\ timer \in BOOLEAN /\ fresh \in BOOLEAN
    /\ th \in [Threads -> Thread]
    /\ cache \subseteq Entry
    /\ secret \in Creds \cup {0} /\ issued \in Creds /\ oldest \in Creds
    /\ wall \in [Urls -> Walls \cup {""}]
    /\ edits \in 0 .. MaxEdits /\ faults \in 0 .. MaxFaults

Init ==
    /\ \E s \in Specs : log = <<Created(s, 1)>>
    /\ queued = TRUE /\ timer = FALSE /\ fresh = FALSE
    /\ th = [t \in Threads |-> Idle]
    /\ cache = {}
    /\ secret = 1 /\ issued = 1 /\ oldest = 1
    /\ wall = [u \in Urls |-> ""]
    /\ edits = 0 /\ faults = 0

-----------------------------------------------------------------------------
(***************************************************************************)
(* The client cache, run by every thread t.                                *)
(***************************************************************************)
At(t, pc) == th[t].pc = pc
Inst(t)   == th[t].inst

MutcacheKey(v) == v.gen

\* "{namespace}/{name}@{resourceVersion}"; one Instance has one prefix.
cacheKey(v) == v.rv

Step(t, pc) == th' = [th EXCEPT ![t].pc = pc]

Hits(t) == {e \in cache : e.rv = cacheKey(Inst(t))}

\* Cache.Get
LookupHit(t) ==
    /\ At(t, "lookup")
    /\ \E e \in Hits(t) :
          th' = [th EXCEPT ![t].pc = "call", ![t].cl = e.client]
    /\ UNCHANGED <<crVars, fresh, faults, cache, envVars>>

LookupMiss(t) ==
    /\ At(t, "lookup") /\ Hits(t) = {}
    /\ Step(t, "build")
    /\ UNCHANGED <<crVars, fresh, faults, cache, envVars>>

MutBuild(t) ==
    /\ At(t, "build")
    /\ th' = [th EXCEPT ![t].pc = "set",
                        ![t].cl = [url |-> Inst(t).spec.url, cred |-> secret]]
    /\ UNCHANGED <<crVars, fresh, faults, cache, envVars>>

\* BuildHTTPClient reads the Secret; NewConcourseClient adds the URL.
Build(t) ==
    /\ At(t, "build") /\ secret # 0
    /\ th' = [th EXCEPT ![t].pc = "set",
                        ![t].cl = [url |-> Inst(t).spec.url, cred |-> secret]]
    /\ UNCHANGED <<crVars, fresh, faults, cache, envVars>>

\* What the loop over the prefix "{namespace}/{name}@" leaves of this Instance's
\* entries. No other Instance shares the prefix: names contain no "/" or "@".
Evicted(v) == {}

\* Cache.Set
Set(t) ==
    /\ At(t, "set")
    /\ cache' = Evicted(Inst(t)) \cup
                   {[rv |-> cacheKey(Inst(t)), client |-> th[t].cl]}
    /\ Step(t, "call")
    /\ UNCHANGED <<crVars, fresh, faults, envVars>>

-----------------------------------------------------------------------------
(***************************************************************************)
(* Team and Worker controllers: resolveInstanceForTeam and Worker's own    *)
(* copy of it.                                                             *)
(***************************************************************************)
\* The Instance is read; it must admit the namespace and be Ready, at whatever
\* generation. Otherwise the consumer returns and retries.
Resolve(t) ==
    /\ At(t, "idle") /\ CacheRead
    /\ Cached.life # "gone" /\ Cached.spec.allowed /\ Cached.status.ready = "Ready"
    /\ th' = [th EXCEPT ![t].pc = "lookup", ![t].inst = Cached]
    /\ UNCHANGED <<crVars, fresh, faults, cache, envVars>>

\* The consumer calls Concourse with the client, or has none, and returns.
Use(t) ==
    /\ \/ At(t, "call")
       \/ At(t, "build") /\ secret = 0
    /\ th' = [th EXCEPT ![t] = Idle]
    /\ UNCHANGED <<crVars, fresh, faults, cache, envVars>>

Consumer(t) == Resolve(t) \/ LookupHit(t) \/ LookupMiss(t) \/ Build(t)
               \/ Set(t) \/ Use(t)

-----------------------------------------------------------------------------
(***************************************************************************)
(* InstanceReconciler.Reconcile.                                           *)
(***************************************************************************)
R == Reconciler
I == Inst(R)

\* setCondition(Ready, ...) at the copy's generation.
setCondition(v, reason, cause) ==
    [v EXCEPT !.status.ready = reason, !.status.cause = cause,
              !.status.readyGen = v.gen]

setReady(v, reason) == setCondition(v, reason, "")

\* Reconcile holds v and goes on with step pc.
Hold(v, pc) == th' = [th EXCEPT ![R].pc = pc, ![R].inst = v]

\* Reconcile returns; requeue covers RequeueAfter and a returned error.
Return(requeue) ==
    /\ th' = [th EXCEPT ![R] = Idle] /\ fresh' = FALSE
    /\ timer' = (timer \/ requeue)

Stamped(v) == [v EXCEPT !.rv = Latest.rv + 1, !.known = secret]

\* The server gives every changed version a new resourceVersion.
Write(v, res) == APIUpdate(IF v = Latest THEN v ELSE Stamped(v), res)

Start == At(R, "idle") /\ queued /\ CacheRead /\ queued' = FALSE

StartNothing ==
    /\ Start
    /\ \/ Cached.life = "gone"
       \/ Cached.life = "deleting" /\ ~Cached.spec.suspend /\ ~Cached.fin
    /\ UNCHANGED <<log, timer, fresh, faults, th, cache, envVars>>

\* handleInstanceLifecycle looks at suspend before deletion.
StartSuspended ==
    /\ Start /\ Cached.life # "gone" /\ Cached.spec.suspend
    /\ Hold(setReady(Cached, "Suspended"), "saveQuiet") /\ fresh' = (Len(log) = 1)
    /\ UNCHANGED <<log, timer, faults, cache, envVars>>

\* Evict comes first, then the Update that removes the finalizer.
StartDeleting ==
    /\ Start /\ Cached.life = "deleting"
    /\ ~Cached.spec.suspend /\ Cached.fin
    /\ cache' = Evicted(Cached)
    /\ Hold(Cached, "finalize") /\ fresh' = (Len(log) = 1)
    /\ UNCHANGED <<log, timer, faults, envVars>>

MutFinalizeRequeue(res) == FALSE

\* "remove finalizer" errors are returned.
FinalizeRequeue(res) == res # "ok"

\* The server removes a deleted object with its last finalizer.
RemoveFinalizer ==
    /\ At(R, "finalize")
    /\ \E res \in Results :
          /\ Write([Latest EXCEPT !.fin = FALSE, !.life = "gone"], res)
          /\ Return(FinalizeRequeue(res))
    /\ UNCHANGED <<queued, cache, envVars>>

\* Where Reconcile goes with an Instance that has its finalizer.
Checked(v) ==
    IF v.spec.auth THEN Hold(v, "lookup")
                   ELSE Hold(setReady(v, "InvalidSpec"), "saveQuiet")

StartLive ==
    /\ Start /\ Cached.life = "live" /\ ~Cached.spec.suspend
    /\ IF Cached.fin THEN Checked(Cached) ELSE Hold(Cached, "addFinalizer")
    /\ fresh' = (Len(log) = 1)
    /\ UNCHANGED <<log, timer, faults, cache, envVars>>

\* Update writes the answer back into the object: I becomes what is stored.
AddFinalizer ==
    /\ At(R, "addFinalizer")
    /\ \E res \in Results :
          /\ Write([Latest EXCEPT !.fin = TRUE], res)
          /\ IF res = "ok" THEN Checked(Latest') /\ UNCHANGED <<fresh, timer>>
                           ELSE Return(TRUE)
    /\ UNCHANGED <<queued, cache, envVars>>

\* BuildHTTPClient fails.
AuthFails ==
    /\ At(R, "build") /\ secret = 0
    /\ Hold(setReady(I, "AuthFailed"), "saveRetry")
    /\ UNCHANGED <<crVars, fresh, faults, cache, envVars>>

\* The ATC refuses the client's credential, or the request fails.
Refused == th[R].cl.cred < oldest

RequestFails(cause) ==
    \/ cause = "refused" /\ Refused /\ UNCHANGED faults
    \/ cause = "failed" /\ Fault("atcError")

GetInfo ==
    /\ At(R, "call") /\ ~Refused
    /\ Step(R, "workers")
    /\ UNCHANGED <<crVars, fresh, faults, cache, envVars>>

GetInfoFails ==
    /\ At(R, "call")
    /\ \E cause \in Causes :
          /\ RequestFails(cause)
          /\ Hold(setCondition(I, "InfoFailed", cause), "saveRetry")
    /\ UNCHANGED <<crVars, fresh, cache, envVars>>

ListWorkers ==
    /\ At(R, "workers") /\ ~Refused
    /\ Step(R, "wall")
    /\ UNCHANGED <<crVars, fresh, faults, cache, envVars>>

\* "Ready stays auth-only": Ready is set, the wall is not looked at.
ListWorkersFails ==
    /\ At(R, "workers") /\ \E cause \in Causes : RequestFails(cause)
    /\ Hold([setReady(I, "Ready") EXCEPT !.status.workers = "unknown"], "saveRetry")
    /\ UNCHANGED <<crVars, fresh, cache, envVars>>

MutWallDiffers(v) == v.spec.wall # "" /\ v.status.wall = ""

\* syncWall compares the spec with what the status records, not with the ATC.
WallDiffers(v) == v.spec.wall # v.status.wall

\* The status of a pass in which everything succeeded.
Healthy(v) == [setReady(v, "Ready") EXCEPT !.status.workers = "known"]

WallInPlace ==
    /\ At(R, "wall") /\ ~WallDiffers(I)
    /\ Hold(Healthy(I), "saveRetry")
    /\ UNCHANGED <<crVars, fresh, faults, cache, envVars>>

AtcWall(msg) == wall' = [wall EXCEPT ![th[R].cl.url] = msg]

\* SetWall, or ClearWall when the spec has none.
SyncWall ==
    /\ At(R, "wall") /\ WallDiffers(I) /\ ~Refused
    /\ AtcWall(I.spec.wall)
    /\ Hold([Healthy(I) EXCEPT !.status.wall = I.spec.wall], "saveRetry")
    /\ UNCHANGED <<crVars, fresh, faults, cache, secret, issued, oldest, edits>>

SyncWallFails ==
    /\ At(R, "wall") /\ WallDiffers(I)
    /\ \E cause \in Causes :
          /\ \/ RequestFails(cause) /\ UNCHANGED wall
             \/ /\ cause = "failed" /\ ~Refused /\ Fault("atcLost")
                /\ AtcWall(I.spec.wall)
          /\ Hold(setCondition(I, "WallFailed", cause), "saveRetry")
    /\ UNCHANGED <<crVars, fresh, cache, secret, issued, oldest, edits>>

MutSaveRequeue(res) == res # "ok"

\* "saveQuiet" comes back only when the write failed, "saveRetry" always, after
\* 30 seconds, the probe interval or a backoff.
SaveRequeue(res) == At(R, "saveRetry") \/ res # "ok"

\* Status().Update
Save ==
    /\ At(R, "saveQuiet") \/ At(R, "saveRetry")
    /\ \E res \in Results :
          /\ Write([Latest EXCEPT !.status = I.status], res)
          /\ Return(SaveRequeue(res))
    /\ UNCHANGED <<queued, cache, envVars>>

Reconcile ==
    \/ StartNothing \/ StartSuspended \/ StartDeleting \/ RemoveFinalizer
    \/ StartLive \/ AddFinalizer
    \/ LookupHit(R) \/ LookupMiss(R) \/ Build(R) \/ AuthFails \/ Set(R)
    \/ GetInfo \/ GetInfoFails \/ ListWorkers \/ ListWorkersFails
    \/ WallInPlace \/ SyncWall \/ SyncWallFails \/ Save

-----------------------------------------------------------------------------
(***************************************************************************)
(* The rest of the process, users, and Concourse.                          *)
(***************************************************************************)
Deliver ==
    /\ Len(log) > 1
    /\ log' = Tail(log) /\ queued' = TRUE
    /\ UNCHANGED <<timer, fresh, faults, th, cache, envVars>>

TimerFires ==
    /\ timer
    /\ timer' = FALSE /\ queued' = TRUE
    /\ UNCHANGED <<log, fresh, faults, th, cache, envVars>>

\* The process dies and its successor lists every CR again.
Crash ==
    /\ Fault("crash")
    /\ log' = <<Latest>> /\ queued' = TRUE /\ timer' = FALSE /\ fresh' = FALSE
    /\ th' = [t \in Threads |-> Idle] /\ cache' = {}
    /\ UNCHANGED envVars

UserWrites(v) ==
    /\ edits < MaxEdits /\ edits' = edits + 1
    /\ log' = Append(log, Stamped(v)) /\ fresh' = FALSE
    /\ UNCHANGED <<queued, timer, faults, th, cache, secret, issued, oldest, wall>>

EditSpec ==
    /\ Latest.life # "gone"
    /\ \E s \in Specs \ {Latest.spec} :
          s.auth /\ UserWrites([Latest EXCEPT !.spec = s, !.gen = @ + 1])

\* Deletion marks an object that has a finalizer, and removes one that has not.
Delete ==
    /\ Latest.life = "live"
    /\ UserWrites([Latest EXCEPT !.life = IF Latest.fin THEN "deleting" ELSE "gone",
                                 !.gen = @ + 1])

\* An Instance of the same name is created again.
Recreate ==
    /\ Latest.life = "gone"
    /\ \E s \in Specs : s.auth /\ UserWrites(Created(s, Latest.rv))

\* The Secret's informer has a new copy, and its watch enqueues the Instance
\* (mapSecretToInstance).
SecretChanges(c) ==
    /\ secret' = c /\ queued' = TRUE
    /\ UNCHANGED <<log, timer, fresh, th, cache, issued, oldest, wall, edits>>

\* The newest credential is written to the Secret.
RotateSecret ==
    secret # issued /\ SecretChanges(issued) /\ UNCHANGED faults

SecretDeleted == secret # 0 /\ Fault("secret") /\ SecretChanges(0)

\* The ATC is given a new credential, next to the old one or instead of it.
AtcIssues ==
    /\ issued < MaxCred /\ issued' = issued + 1
    /\ oldest' = IF RevokeFirst THEN issued' ELSE oldest
    /\ UNCHANGED <<crVars, fresh, faults, th, cache, secret, wall, edits>>

\* The old credential is dropped once the Secret has the new one.
AtcRevokes ==
    /\ oldest < secret /\ oldest' = secret
    /\ UNCHANGED <<crVars, fresh, faults, th, cache, secret, issued, wall, edits>>

Environment ==
    \/ Deliver \/ TimerFires \/ Crash
    \/ EditSpec \/ Delete \/ Recreate
    \/ RotateSecret \/ SecretDeleted \/ AtcIssues \/ AtcRevokes

Next == Reconcile \/ (\E t \in Consumers : Consumer(t)) \/ Environment

Spec == Init /\ [][Next]_vars

\* The controller's worker goroutine, the informer and the timers run.
Fairness == WF_vars(Reconcile) /\ WF_vars(Deliver) /\ WF_vars(TimerFires)

FairSpec == Spec /\ Fairness

-----------------------------------------------------------------------------
(***************************************************************************)
(* Properties.                                                             *)
(***************************************************************************)
\* A thread never talks to another server than the one named by the Instance
\* it read: whatever two threads did to the cache between its lookup and its
\* Set, a client found under a key was built from that version's URL
\* (cacheKey, GetOrBuild).
ClientMatches ==
    \A t \in Threads : At(t, "call") => th[t].cl.url = Inst(t).spec.url

\* "When the resourceVersion changes ... a new client is built"
\* (client_cache.go:30): after an edit, a status write or a recreation nobody
\* calls with a credential older than the one the operator read from the Secret at
\* that write, whoever had looked up, built or stored a client by then, or stored
\* it after the finalizer evicted (GetOrBuild, handleInstanceLifecycle).
ClientNotOlder ==
    \A t \in Threads : At(t, "call") => th[t].cl.cred >= Inst(t).known

Wanted == Latest.life = "live" /\ ~Latest.spec.suspend /\ Latest.spec.auth

\* A healthy, live Instance is always looked at again: between reconciles
\* there is a request, a timer or a version still to be delivered, so that the
\* periodic probe never stops (every return of Reconcile).
WakeupArmed ==
    At(R, "idle") /\ Wanted => queued \/ timer \/ Len(log) > 1

\* An Instance that stays deleted and not suspended disappears, through
\* conflicts, failed writes and restarts (handleInstanceLifecycle).
DeletionCompletes ==
    []<>~(Latest.life = "deleting" /\ ~Latest.spec.suspend)

\* The Secret holds a credential the ATC accepts.
SecretGood == secret >= oldest

\* An Instance whose Secret keeps holding a credential the ATC accepts becomes
\* Ready and stays so: "You do not need to annotate the Instance after rotating
\* credentials" (docs/architecture/client-cache.md).
CredentialsRecover ==
    <>[](Wanted /\ SecretGood) => <>[](Latest.status.ready = "Ready")

\* The ATC of an Instance that stays wanted ends up with the wall the spec
\* asks for (syncWall).
WallConverges ==
    \A u \in Urls, m \in Walls \cup {""} :
        <>[](/\ Wanted /\ SecretGood
             /\ Latest.spec.url = u /\ Latest.spec.wall = m)
            => <>[](wall[u] = m)
=============================================================================
