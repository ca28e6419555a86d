-------------------------- MODULE Reconciler_proofs --------------------------
(***************************************************************************)
(* What the steps of Reconciler's loop do to the log and to Reconcile's    *)
(* copy, for any set of versions V and of control states P that a          *)
(* controller instantiates it with.  The proofs about the controllers cite *)
(* these lemmas instead of the definitions.                                *)
(***************************************************************************)
EXTENDS Reconciler, TLAPS

LogOK(l, V) == l \in Seq(V) /\ Len(l) > 0

\* The versions that may still be read.
Readable == {log[i] : i \in DOMAIN log}

\* The bounds are natural numbers.
LEMMA Bounds == MaxFaults \in Nat /\ MaxEdits \in Nat
BY LoopAssumption DEF LoopAssumption

\* The ends of a non-empty log are versions; read when the log has one version,
\* the informer's copy is the server's.
LEMMA LogEnds ==
    ASSUME NEW V, LogOK(log, V)
    PROVE  /\ Latest \in V /\ Cached \in V
           /\ Latest \in Readable /\ Cached \in Readable /\ Readable \subseteq V
           /\ Len(log) = 1 => Cached = Latest /\ Readable = {Latest}
           /\ Len(log) = 1 \/ Len(log) > 1
<1>1. Len(log) \in Nat /\ Len(log) > 0 /\ \A i \in 1 .. Len(log) : log[i] \in V
  BY DEF LogOK
<1>2. Len(log) = 1 \/ Len(log) > 1
  BY <1>1
<1>3. /\ DOMAIN log = 1 .. Len(log) /\ 1 \in DOMAIN log /\ Len(log) \in DOMAIN log
      /\ log[1] \in V /\ log[Len(log)] \in V
  BY <1>1 DEF LogOK
<1>4. Latest \in Readable /\ Cached \in Readable /\ Readable \subseteq V
  BY <1>1, <1>3 DEF Readable, Latest, Cached
<1>5. Len(log) = 1 => DOMAIN log = {1}
  BY <1>3
<1>6. Len(log) = 1 => Cached = Latest /\ Readable = {Latest}
  BY <1>5 DEF Readable, Latest, Cached
<1> QED BY <1>2, <1>3, <1>4, <1>6 DEF Latest, Cached

\* Nothing happened to the log.
LEMMA LogStays ==
    ASSUME NEW V, LogOK(log, V), log' = log
    PROVE  LogOK(log', V) /\ Latest' = Latest /\ Readable' = Readable
BY DEF Latest, Readable

\* An appended version is the latest one.
LEMMA LogGrows ==
    ASSUME NEW V, LogOK(log, V), NEW v \in V, log' = Append(log, v)
    PROVE  LogOK(log', V) /\ Latest' = v /\ Readable' = Readable \cup {v}
<1>1. LogOK(log', V) /\ Latest' = v
  BY DEF LogOK, Latest
<1>2. /\ DOMAIN log = 1 .. Len(log) /\ DOMAIN log' = DOMAIN log \cup {Len(log) + 1}
      /\ \A i \in DOMAIN log : log'[i] = log[i]
      /\ log'[Len(log) + 1] = v
  BY DEF LogOK
<1>3. Readable' = Readable \cup {v}
  BY <1>2 DEF Readable
<1> QED BY <1>1, <1>3

\* Delivery and restarts keep the latest version.
LEMMA LogShrinks ==
    ASSUME NEW V, LogOK(log, V),
           (Len(log) > 1 /\ log' = Tail(log)) \/ log' = <<Latest>>
    PROVE  LogOK(log', V) /\ Latest' = Latest /\ Readable' \subseteq Readable
<1>1. CASE Len(log) > 1 /\ log' = Tail(log)
  <2>1. LogOK(log', V) /\ Len(log') = Len(log) - 1 /\ log'[Len(log')] = log[Len(log)]
    BY <1>1 DEF LogOK
  <2>2. /\ DOMAIN log = 1 .. Len(log) /\ DOMAIN log' = 1 .. (Len(log) - 1)
        /\ \A i \in DOMAIN log' : log'[i] = log[i + 1]
    BY <1>1, <2>1 DEF LogOK
  <2>3. Len(log) \in Nat
    BY DEF LogOK
  <2>4. Readable' \subseteq Readable
    BY <2>2, <2>3 DEF Readable
  <2> QED BY <2>1, <2>4 DEF Latest
<1>2. CASE log' = <<Latest>>
  <2>1. log[Len(log)] \in V /\ Latest \in Readable
    BY LogEnds DEF Latest
  <2>2. Readable' = {Latest}
    BY <1>2 DEF Readable
  <2> QED BY <1>2, <2>1, <2>2 DEF LogOK, Latest
<1> QED BY <1>1, <1>2

\* A store leaves the version it was given as the latest one.
LEMMA StoreLatest ==
    ASSUME NEW V, LogOK(log, V), NEW v \in V, Store(v)
    PROVE  LogOK(log', V) /\ Latest' = v /\ Readable' \subseteq Readable \cup {Latest'}
<1>1. CASE v = Latest
  BY <1>1, LogStays DEF Store
<1>2. CASE v # Latest
  BY <1>2, LogGrows DEF Store
<1> QED BY <1>1, <1>2

\* A fault keeps the number of faults within its bound.
LEMMA FaultBounded ==
    ASSUME faults \in 0 .. MaxFaults, NEW kind, Fault(kind)
    PROVE  faults' \in 0 .. MaxFaults
BY Bounds DEF Fault

\* Whatever its result, an API update leaves either the old latest version or the
\* new one, and the new one only if the writer was up to date.
LEMMA UpdateLatest ==
    ASSUME NEW V, LogOK(log, V), NEW v \in V, NEW res, APIUpdate(v, res),
           faults \in 0 .. MaxFaults
    PROVE  /\ LogOK(log', V) /\ faults' \in 0 .. MaxFaults
           /\ Readable' \subseteq Readable \cup {Latest'}
           /\ Latest' = Latest \/ (fresh /\ Latest' = v)
           /\ res = "ok" => fresh /\ Latest' = v
<1>1. faults' = faults \/ \E kind : Fault(kind)
  BY DEF APIUpdate
<1>2. faults' \in 0 .. MaxFaults
  BY <1>1, FaultBounded
<1>3. (fresh /\ Store(v)) \/ (log' = log /\ res # "ok")
  BY DEF APIUpdate
<1>4. CASE fresh /\ Store(v)
  BY <1>2, <1>4, StoreLatest
<1>5. CASE log' = log /\ res # "ok"
  BY <1>2, <1>5, LogStays
<1> QED BY <1>3, <1>4, <1>5

-----------------------------------------------------------------------------
(***************************************************************************)
(* Type correctness of the loop.                                           *)
(***************************************************************************)
\* The parts of LoopOK.
LEMMA LoopParts ==
    ASSUME NEW V, NEW P, LoopOK(V, P)
    PROVE  /\ LogOK(log, V) /\ faults \in 0 .. MaxFaults /\ edits \in 0 .. MaxEdits
           /\ Latest \in V /\ Cached \in V
           /\ Latest \in Readable /\ Cached \in Readable /\ Readable \subseteq V
           /\ Len(log) = 1 => Cached = Latest /\ Readable = {Latest}
<1>1. LogOK(log, V) /\ faults \in 0 .. MaxFaults /\ edits \in 0 .. MaxEdits
  BY Zenon DEF LoopOK, LogOK
<1> QED BY <1>1, LogEnds

\* The loop starts well typed.
LEMMA LoopInitOK ==
    ASSUME NEW V, NEW P, "idle" \in P, NEW v \in V, LoopInit(v)
    PROVE  LoopOK(V, P) /\ Latest = v /\ Readable = {v}
<1>1. log = <<v>> /\ edits = 0 /\ faults = 0
  BY DEF LoopInit
<1>2. log \in Seq(V) /\ Len(log) > 0 /\ Latest = v
  BY <1>1 DEF Latest
<1>5. Readable = {v}
  BY <1>1 DEF Readable
<1>3. edits \in 0 .. MaxEdits /\ faults \in 0 .. MaxFaults
  BY <1>1, Bounds
<1>4. /\ queued \in BOOLEAN /\ timer \in BOOLEAN /\ fresh \in BOOLEAN
      /\ pc \in P /\ cr \in V \cup {NoCopy}
  BY Zenon DEF LoopInit
<1> QED BY <1>2, <1>3, <1>4, <1>5, Zenon DEF LoopOK

\* A pass begins: with the server's version if the copy is fresh.
LEMMA TakeLoop ==
    ASSUME NEW V, NEW P, LoopOK(V, P), NEW v \in V, NEW next \in P, Take(v, next)
    PROVE  /\ LoopOK(V, P)' /\ Latest' = Latest /\ faults' = faults
           /\ Readable' = Readable
           /\ cr' = v /\ pc' = next
           /\ fresh' => Cached = Latest /\ Readable = {Latest}
<1>1. LogOK(log, V) /\ (Len(log) = 1 => Cached = Latest /\ Readable = {Latest})
  BY LoopParts
<1>2. /\ UNCHANGED <<log, timer, edits, faults>> /\ queued' = FALSE
      /\ cr' = v /\ pc' = next /\ fresh' = (Len(log) = 1)
  BY DEF Take
<1>3. Latest' = Latest /\ Readable' = Readable
  BY <1>1, <1>2, LogStays
<1> QED BY <1>1, <1>2, <1>3, Zenon DEF LoopOK

\* A request is dropped.
LEMMA IgnoreLoop ==
    ASSUME NEW V, NEW P, LoopOK(V, P), Ignore
    PROVE  /\ LoopOK(V, P)' /\ Latest' = Latest /\ Readable' = Readable
           /\ UNCHANGED <<fresh, pc, cr, faults>>
<1>1. Latest' = Latest /\ Readable' = Readable
  BY LoopParts, LogStays DEF Ignore
<1> QED BY <1>1, Zenon DEF LoopOK, Ignore

\* A call to somebody else than the API server.
LEMMA StepLoop ==
    ASSUME NEW V, NEW P, LoopOK(V, P), NEW v \in V, NEW next \in P, Step(v, next),
           faults' = faults \/ \E kind : Fault(kind)
    PROVE  /\ LoopOK(V, P)' /\ Latest' = Latest /\ Readable' = Readable
           /\ cr' = v /\ pc' = next /\ fresh' = fresh
<1>1. Latest' = Latest /\ Readable' = Readable
  BY LoopParts, LogStays DEF Step
<1>2. faults' \in 0 .. MaxFaults
  BY LoopParts, FaultBounded
<1> QED BY <1>1, <1>2, Zenon DEF LoopOK, Step

\* Reconcile returns.
LEMMA ReturnLoop ==
    ASSUME NEW again \in BOOLEAN, Return(again), timer \in BOOLEAN
    PROVE  pc' = "idle" /\ cr' = NoCopy /\ fresh' = FALSE /\ timer' \in BOOLEAN
BY DEF Return

\* The two ways an Update ends, for Reconcile.
Accepted(v, w, next) == cr' = w /\ pc' = next /\ fresh /\ fresh' /\ Latest' = v
Rejected == cr' = NoCopy /\ pc' = "idle" /\ fresh' = FALSE

\* An accepted Update makes the server's version v and the copy w, and leaves the
\* copy as fresh as it was; after any other one the pass is over.
LEMMA UpdateLoop ==
    ASSUME NEW V, NEW P, LoopOK(V, P), "idle" \in P,
           NEW v \in V, NEW w \in V, NEW next \in P, Update(v, w, next)
    PROVE  /\ LoopOK(V, P)' /\ (Latest' = Latest \/ (fresh /\ Latest' = v))
           /\ Readable' \subseteq Readable \cup {Latest'}
           /\ Accepted(v, w, next) \/ Rejected
<1>1. PICK res \in Results :
          /\ APIUpdate(v, res)
          /\ IF res = "ok" THEN cr' = w /\ pc' = next /\ UNCHANGED <<timer, fresh>>
                           ELSE Return(TRUE)
  BY DEF Update
<1>2. UNCHANGED <<queued, edits>>
  BY DEF Update
<1>3. /\ LogOK(log', V) /\ faults' \in 0 .. MaxFaults
      /\ Readable' \subseteq Readable \cup {Latest'}
      /\ Latest' = Latest \/ (fresh /\ Latest' = v)
      /\ res = "ok" => fresh /\ Latest' = v
  BY <1>1, LoopParts, UpdateLatest
<1>4. CASE res = "ok"
  BY <1>1, <1>2, <1>3, <1>4, Zenon DEF LoopOK, LogOK, Accepted
<1>5. CASE res # "ok"
  <2>1. pc' = "idle" /\ cr' = NoCopy /\ fresh' = FALSE /\ timer' \in BOOLEAN
    BY <1>1, <1>5 DEF Return
  <2> QED BY <1>2, <1>3, <2>1, Zenon DEF LoopOK, LogOK, Rejected
<1> QED BY <1>4, <1>5

\* The Update that removes the finalizer ends the pass; the object is gone if it
\* changed anything.
LEMMA FinalizeLoop ==
    ASSUME NEW V, NEW P, LoopOK(V, P), "idle" \in P, NEW again \in BOOLEAN,
           [Latest EXCEPT !.fin = FALSE, !.life = "gone"] \in V, Finalize(again)
    PROVE  /\ LoopOK(V, P)' /\ cr' = NoCopy /\ pc' = "idle" /\ fresh' = FALSE
           /\ Readable' \subseteq Readable \cup {Latest'}
           /\ \/ Latest' = Latest
              \/ fresh /\ Latest' = [Latest EXCEPT !.fin = FALSE, !.life = "gone"]
<1> DEFINE v == [Latest EXCEPT !.fin = FALSE, !.life = "gone"]
<1>1. PICK res \in Results : APIUpdate(v, res) /\ Return(res # "ok" /\ again)
  BY DEF Finalize
<1>2. UNCHANGED <<queued, edits>>
  BY DEF Finalize
<1> HIDE DEF v
<1>3. /\ LogOK(log', V) /\ faults' \in 0 .. MaxFaults
      /\ Readable' \subseteq Readable \cup {Latest'}
      /\ Latest' = Latest \/ (fresh /\ Latest' = v)
  BY <1>1, LoopParts, UpdateLatest DEF v
<1>4. timer \in BOOLEAN
  BY Zenon DEF LoopOK
<1>5. pc' = "idle" /\ cr' = NoCopy /\ fresh' = FALSE /\ timer' \in BOOLEAN
  BY <1>1, <1>4, ReturnLoop
<1>6. LoopOK(V, P)'
  BY <1>2, <1>3, <1>5, Zenon DEF LoopOK, LogOK
<1> QED BY <1>3, <1>5, <1>6 DEF v

\* The status write ends the pass; it changes the status only.
LEMMA SaveLoop ==
    ASSUME NEW V, NEW P, LoopOK(V, P), "idle" \in P,
           NEW saved \in BOOLEAN, NEW failed \in BOOLEAN,
           [Latest EXCEPT !.status = cr.status] \in V, Save(saved, failed)
    PROVE  /\ LoopOK(V, P)' /\ cr' = NoCopy /\ pc' = "idle" /\ fresh' = FALSE
           /\ Readable' \subseteq Readable \cup {Latest'}
           /\ \/ Latest' = Latest
              \/ fresh /\ Latest' = [Latest EXCEPT !.status = cr.status]
<1> DEFINE v == [Latest EXCEPT !.status = cr.status]
<1>1. PICK res \in Results :
          APIUpdate(v, res) /\ Return(IF res = "ok" THEN saved ELSE failed)
  BY DEF Save
<1>2. UNCHANGED <<queued, edits>>
  BY DEF Save
<1> HIDE DEF v
<1>3. /\ LogOK(log', V) /\ faults' \in 0 .. MaxFaults
      /\ Readable' \subseteq Readable \cup {Latest'}
      /\ Latest' = Latest \/ (fresh /\ Latest' = v)
  BY <1>1, LoopParts, UpdateLatest DEF v
<1>4. timer \in BOOLEAN
  BY Zenon DEF LoopOK
<1>5. pc' = "idle" /\ cr' = NoCopy /\ fresh' = FALSE /\ timer' \in BOOLEAN
  BY <1>1, <1>4, ReturnLoop
<1>6. LoopOK(V, P)'
  BY <1>2, <1>3, <1>5, Zenon DEF LoopOK, LogOK
<1> QED BY <1>3, <1>5, <1>6 DEF v

-----------------------------------------------------------------------------
\* The informer and the timers change nothing Reconcile knows.
LEMMA WakeLoop ==
    ASSUME NEW V, NEW P, LoopOK(V, P), DeliverVersion \/ Fires
    PROVE  /\ LoopOK(V, P)' /\ Latest' = Latest /\ Readable' \subseteq Readable
           /\ UNCHANGED <<fresh, pc, cr, faults>>
<1>1. LogOK(log', V) /\ Latest' = Latest /\ Readable' \subseteq Readable
  BY LoopParts, LogShrinks, LogStays DEF DeliverVersion, Fires
<1>2. UNCHANGED <<fresh, pc, cr, edits, faults>>
  BY DEF DeliverVersion, Fires
<1>3. queued' \in BOOLEAN /\ timer' \in BOOLEAN
  BY Zenon DEF DeliverVersion, Fires, LoopOK
<1> QED BY <1>1, <1>2, <1>3, Zenon DEF LoopOK, LogOK

\* A restart forgets the copy, and no version of the server.
LEMMA RestartLoop ==
    ASSUME NEW V, NEW P, LoopOK(V, P), "idle" \in P, Restart
    PROVE  /\ LoopOK(V, P)' /\ Latest' = Latest /\ Readable' \subseteq Readable
           /\ cr' = NoCopy /\ pc' = "idle" /\ fresh' = FALSE
<1>1. /\ LogOK(log', V) /\ Latest' = Latest /\ faults' \in 0 .. MaxFaults
      /\ Readable' \subseteq Readable
  BY LoopParts, LogShrinks, FaultBounded DEF Restart
<1> QED BY <1>1, Zenon DEF LoopOK, LogOK, Restart

\* A write of a user makes every copy stale.
LEMMA UserLoop ==
    ASSUME NEW V, NEW P, LoopOK(V, P), NEW v \in V, UserWrites(v)
    PROVE  /\ LoopOK(V, P)' /\ Latest' = v /\ Readable' = Readable \cup {v}
           /\ fresh' = FALSE /\ UNCHANGED <<pc, cr, faults>>
<1>1. LogOK(log', V) /\ Latest' = v /\ Readable' = Readable \cup {v}
  BY LoopParts, LogGrows DEF UserWrites
<1>2. edits \in 0 .. MaxEdits /\ edits < MaxEdits /\ edits' = edits + 1
  BY LoopParts DEF UserWrites
<1>3. edits' \in 0 .. MaxEdits
  BY <1>2, Bounds
<1>4. fresh' = FALSE /\ UNCHANGED <<queued, timer, pc, cr, faults>>
  BY DEF UserWrites
<1> QED BY <1>1, <1>3, <1>4, Zenon DEF LoopOK, LogOK

\* What does not concern the loop leaves it as it is.
LEMMA OthersLoop ==
    ASSUME NEW V, NEW P, LoopOK(V, P), UNCHANGED <<loopVars, edits>>,
           faults' = faults \/ \E kind : Fault(kind)
    PROVE  /\ LoopOK(V, P)' /\ Latest' = Latest /\ Readable' = Readable
           /\ UNCHANGED <<fresh, pc, cr>>
<1>1. faults' \in 0 .. MaxFaults
  BY LoopParts, FaultBounded
<1>2. Latest' = Latest /\ Readable' = Readable
  BY LoopParts, LogStays DEF loopVars
<1> QED BY <1>1, <1>2, Zenon DEF LoopOK, loopVars

=============================================================================
