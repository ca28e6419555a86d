----------------------------- MODULE Reconciler -----------------------------
(***************************************************************************)
(* The loop that the Team, Worker, Resource and Job controllers run around *)
(* one custom resource: a request is taken from the queue, the CR is read, *)
(* calls are made, the status is saved and Reconcile returns, with or      *)
(* without asking to come back.  Users, the informer, the timers and       *)
(* restarts act between any two of its calls.                              *)
(*                                                                         *)
(* A controller's module extends this one and adds what it knows of        *)
(* Concourse; the operators here leave those variables to it.              *)
(***************************************************************************)
EXTENDS ApiServer

CONSTANT MaxEdits  \* bound: writes of users to the CR

VARIABLES
    pc,    \* the call Reconcile makes next, "idle" between reconciles
    cr,    \* Reconcile's local copy of the CR
    edits  \* writes of users so far

loopVars == <<log, queued, timer, fresh, pc, cr>>

ASSUME LoopAssumption ==
    InformerLag \in BOOLEAN /\ MaxEdits \in Nat /\ MaxFaults \in Nat

\* The local copy between two reconciles.
NoCopy == [life |-> "none"]

LoopOK(Version, Pcs) ==
    /\ log \in Seq(Version) /\ Len(log) > 0
    /\ queued \in BOOLEAN /\ timer \in BOOLEAN /\ fresh \in BOOLEAN
    /\ pc \in Pcs /\ cr \in Version \cup {NoCopy}
    /\ edits \in 0 .. MaxEdits /\ faults \in 0 .. MaxFaults

\* The CR v has just been created, by a user or before the operator started.
LoopInit(v) ==
    /\ log = <<v>> /\ queued = TRUE /\ timer = FALSE /\ fresh = FALSE
    /\ pc = "idle" /\ cr = NoCopy /\ edits = 0 /\ faults = 0

\* setCondition(Ready, ...) at the copy's generation; Status() says "True" for
\* the reasons that report success.
setReady(v, reason) == [v EXCEPT !.status.ready = reason,
                                 !.status.readyGen = v.gen]

-----------------------------------------------------------------------------
(***************************************************************************)
(* Steps of Reconcile.                                                     *)
(***************************************************************************)
\* Reconcile returns; again covers RequeueAfter and a returned error.
Return(again) ==
    /\ pc' = "idle" /\ cr' = NoCopy /\ fresh' = FALSE
    /\ timer' = (timer \/ again)

\* A request is taken, the CR read, and Reconcile goes on with v.
Take(v, next) ==
    /\ pc = "idle" /\ queued /\ CacheRead
    /\ queued' = FALSE
    /\ cr' = v /\ pc' = next /\ fresh' = (Len(log) = 1)
    /\ UNCHANGED <<log, timer, edits, faults>>

\* A request is taken, and the CR or what it refers to needs nothing.
Ignore ==
    /\ pc = "idle" /\ queued /\ CacheRead
    /\ queued' = FALSE
    /\ UNCHANGED <<log, timer, fresh, pc, cr, edits, faults>>

\* A call that is not to the API server; v is the copy after it.
Step(v, next) ==
    /\ cr' = v /\ pc' = next
    /\ UNCHANGED <<log, queued, timer, fresh, edits>>

\* An Update of the object's metadata to v; Reconcile goes on with w if it was
\* accepted and returns the error if not.
Update(v, w, next) ==
    /\ \E res \in Results :
          /\ APIUpdate(v, res)
          /\ IF res = "ok" THEN cr' = w /\ pc' = next /\ UNCHANGED <<timer, fresh>>
                           ELSE Return(TRUE)
    /\ UNCHANGED <<queued, edits>>

\* The Update that removes the last finalizer removes a deleted object.
Finalize(again) ==
    /\ \E res \in Results :
          /\ APIUpdate([Latest EXCEPT !.fin = FALSE, !.life = "gone"], res)
          /\ Return(res # "ok" /\ again)
    /\ UNCHANGED <<queued, edits>>

\* Status().Update, then the return: saved says whether Reconcile asks to come
\* back after the save worked, failed whether it does (or returns the error)
\* after it did not.
Save(saved, failed) ==
    /\ \E res \in Results :
          /\ APIUpdate([Latest EXCEPT !.status = cr.status], res)
          /\ Return(IF res = "ok" THEN saved ELSE failed)
    /\ UNCHANGED <<queued, edits>>

-----------------------------------------------------------------------------
(***************************************************************************)
(* The rest of the process, and users.                                     *)
(***************************************************************************)
\* The watch delivers the next version, which enqueues the CR.
DeliverVersion ==
    /\ Len(log) > 1
    /\ log' = Tail(log) /\ queued' = TRUE
    /\ UNCHANGED <<timer, fresh, pc, cr, edits, faults>>

Fires ==
    /\ timer
    /\ timer' = FALSE /\ queued' = TRUE
    /\ UNCHANGED <<log, fresh, pc, cr, edits, faults>>

\* The process dies and its successor lists every CR again.
Restart ==
    /\ Fault("crash")
    /\ log' = <<Latest>> /\ queued' = TRUE /\ timer' = FALSE
    /\ pc' = "idle" /\ cr' = NoCopy /\ fresh' = FALSE
    /\ UNCHANGED edits

UserWrites(v) ==
    /\ edits < MaxEdits /\ edits' = edits + 1
    /\ log' = Append(log, v) /\ fresh' = FALSE
    /\ UNCHANGED <<queued, timer, pc, cr, faults>>

Edit(s) ==
    /\ Latest.life # "gone" /\ s # Latest.spec
    /\ UserWrites([Latest EXCEPT !.spec = s, !.gen = @ + 1])
=============================================================================
