------------------------------ MODULE ApiServer ------------------------------
(***************************************************************************)
(* What one reconciler of the operator meets of Kubernetes: one custom     *)
(* resource as the API server stores it, the manager's informer cache that *)
(* answers every Get, optimistic locking, and the controller's work queue. *)
(* None of it is in this repository; it is modelled from how the           *)
(* controllers use the client (Get, Update, Status().Update) and from the  *)
(* results they return.  The controllers' modules extend this one.         *)
(***************************************************************************)
EXTENDS Naturals, Sequences

CONSTANTS
    InformerLag, \* may a read of the informer cache return an old version?
    FaultKinds,  \* the faults the environment may inject
    MaxFaults    \* bound: how many faults it injects

VARIABLES
    log,      \* versions of the CR: the informer's copy first, the server's last
    queued,   \* the work queue holds a request for the CR
    timer,    \* a delayed request (RequeueAfter or rate-limited retry) is due
    fresh,    \* the copy Reconcile holds has the server's resourceVersion
    faults    \* faults injected so far

Latest == log[Len(log)]
Cached == log[1]

\* r.Get from the manager's client, which answers from the informer cache.
CacheRead == InformerLag \/ Len(log) = 1

Fault(kind) ==
    /\ kind \in FaultKinds /\ faults < MaxFaults
    /\ faults' = faults + 1

\* The server stores version v; writing what it already has changes nothing.
Store(v) == log' = IF v = Latest THEN log ELSE Append(log, v)

Results == {"ok", "conflict", "error"}

\* An update under optimistic locking: it is refused when another writer was
\* first, and it may fail with or without having taken effect.
APIUpdate(v, res) ==
    \/ res = "ok" /\ fresh /\ Store(v) /\ UNCHANGED faults
    \/ res = "conflict" /\ ~fresh /\ Latest.life # "gone" /\ UNCHANGED <<log, faults>>
    \/ res = "error" /\ Latest.life = "gone" /\ UNCHANGED <<log, faults>>
    \/ res = "error" /\ Fault("apiError") /\ UNCHANGED log
    \/ res = "error" /\ fresh /\ Fault("apiLost") /\ Store(v)
=============================================================================
