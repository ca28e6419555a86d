---------------------- MODULE InstanceController_proofs ----------------------
(***************************************************************************)
(* Proofs about InstanceController, for every set of consumers, specs,     *)
(* URLs and walls, every number of credentials, edits and faults, and with *)
(* or without informer lag.                                                *)
(***************************************************************************)
EXTENDS InstanceController, TLAPS

-----------------------------------------------------------------------------
(***************************************************************************)
(* The inductive invariant.  A resourceVersion belongs to one version of   *)
(* the Instance for good, so there is a function from resourceVersions to  *)
(* the facts of their versions that every version, every thread and every  *)
(* cache entry agrees with - also those of versions that the log has       *)
(* forgotten.  Credentials in the Secret only grow, unless it is missing,  *)
(* so what is built for a version is not older than the version.           *)
(***************************************************************************)
\* What is fixed with a resourceVersion: the URL, and the credential in the Secret
\* when it was written.
Facts == [url : Urls, known : 0 .. MaxCred]

\* The version v is not newer than the newest of l, and f has its facts.
VersionAgrees(f, l, v) ==
    /\ v \in Version /\ v.rv <= l[Len(l)].rv
    /\ v.spec.url = f[v.rv].url /\ v.known = f[v.rv].known

\* A thread x at work holds such a version, and the client it has built or found
\* is one for that version.
ThreadAgrees(f, l, x) ==
    x.pc # "idle" =>
        /\ VersionAgrees(f, l, x.inst)
        /\ x.pc \in {"set", "call"} =>
               /\ x.cl \in Client /\ x.cl.url = x.inst.spec.url
               /\ x.cl.cred >= x.inst.known

\* A cache entry holds a client for the version in its key.
EntryAgrees(f, l, e) ==
    /\ e.rv <= l[Len(l)].rv
    /\ e.client.url = f[e.rv].url /\ e.client.cred >= f[e.rv].known

Agreed(f, l, ts, c) ==
    /\ \A i \in 1 .. Len(l) : VersionAgrees(f, l, l[i])
    /\ \A t \in Threads : ThreadAgrees(f, l, ts[t])
    /\ \A e \in c : EntryAgrees(f, l, e)

\* No version was written under a credential newer than the one in the Secret s,
\* unless it is missing, or than the newest credential issued, i.
Dated(f, s, i) ==
    /\ s <= i
    /\ \A n \in Nat : f[n].known <= i /\ (s # 0 => f[n].known <= s)

\* One URL and one credential for each resourceVersion.
FactsFixed ==
    \E f \in [Nat -> Facts] : Agreed(f, log, th, cache) /\ Dated(f, secret, issued)

\* Reconcile is about to return without coming back only for an Instance that is
\* not to be looked at again, unless somebody has written since.
QuietOnPurpose ==
    At(R, "saveQuiet") /\ fresh => Latest.spec.suspend \/ ~Latest.spec.auth

-----------------------------------------------------------------------------
(***************************************************************************)
(* The version log, and what assignments do to a version.                  *)
(***************************************************************************)
LogOK(l) == l \in Seq(Version) /\ Len(l) > 0

\* The bounds are natural numbers.
LEMMA Bounds == MaxFaults \in Nat /\ MaxEdits \in Nat /\ MaxCred \in Nat \ {0}
BY InstanceAssumption DEF InstanceAssumption

\* Credentials are natural numbers up to the bound.
LEMMA CredTypes ==
    ASSUME secret \in Creds \cup {0}, issued \in Creds
    PROVE  secret \in 0 .. MaxCred /\ secret \in Nat /\ issued \in Nat
BY Bounds DEF Creds

\* The server's stamp on a version.
LEMMA StampedType ==
    ASSUME NEW v \in Version, Latest.rv \in Nat, secret \in 0 .. MaxCred
    PROVE  /\ Stamped(v) \in Version
           /\ Stamped(v).rv = Latest.rv + 1 /\ Stamped(v).known = secret
           /\ Stamped(v).life = v.life /\ Stamped(v).spec = v.spec
<1>1. Latest.rv + 1 \in Nat
  OBVIOUS
<1> QED BY <1>1 DEF Stamped, Version

\* The ends of a non-empty log are versions.
LEMMA LogEnds ==
    ASSUME NEW l, LogOK(l)
    PROVE  l[1] \in Version /\ l[Len(l)] \in Version
BY DEF LogOK

\* Appending a version makes it the latest one.
LEMMA LogAppend ==
    ASSUME NEW l, LogOK(l), NEW v \in Version
    PROVE  /\ LogOK(Append(l, v))
           /\ Len(Append(l, v)) = Len(l) + 1
           /\ \A i \in 1 .. Len(l) : Append(l, v)[i] = l[i]
           /\ Append(l, v)[Len(l) + 1] = v
BY DEF LogOK

\* Delivery drops the oldest version, and a restart all but the latest one.
LEMMA LogShrinks ==
    ASSUME NEW l, LogOK(l),
           NEW k, (Len(l) > 1 /\ k = Tail(l)) \/ k = <<l[Len(l)]>>
    PROVE  /\ LogOK(k) /\ k[Len(k)] = l[Len(l)]
           /\ \A i \in 1 .. Len(k) : \E j \in 1 .. Len(l) : k[i] = l[j]
<1>1. CASE Len(l) > 1 /\ k = Tail(l)
  <2>1. LogOK(k) /\ Len(k) = Len(l) - 1 /\ \A i \in 1 .. Len(k) : k[i] = l[i + 1]
    BY <1>1 DEF LogOK
  <2> QED BY <2>1 DEF LogOK
<1>2. CASE k = <<l[Len(l)]>>
  BY <1>2, LogEnds DEF LogOK
<1> QED BY <1>1, <1>2

\* A Ready condition changes the status only.
LEMMA SetConditionType ==
    ASSUME NEW v \in Version, NEW r \in ReadyReasons, NEW c \in Causes
    PROVE  /\ setCondition(v, r, c) \in Version /\ setReady(v, r) \in Version
           /\ setCondition(v, r, c).rv = v.rv /\ setReady(v, r).rv = v.rv
           /\ setCondition(v, r, c).spec = v.spec
           /\ setReady(v, r).spec = v.spec
           /\ setCondition(v, r, c).known = v.known /\ setReady(v, r).known = v.known
BY DEF setCondition, setReady, Version, Status, Causes

\* So do the last steps of a pass.
LEMMA HealthyType ==
    ASSUME NEW v \in Version
    PROVE  /\ Healthy(v) \in Version
           /\ Healthy(v).rv = v.rv /\ Healthy(v).spec = v.spec
           /\ Healthy(v).known = v.known
<1> DEFINE u == setReady(v, "Ready")
<1>1. "Ready" \in ReadyReasons /\ "" \in Causes
  BY DEF ReadyReasons, Causes
<1>2. u \in Version /\ u.rv = v.rv /\ u.spec = v.spec /\ u.known = v.known
  BY <1>1, SetConditionType
<1> HIDE DEF u
<1>3. LET h == [u EXCEPT !.status.workers = "known"]
      IN  h \in Version /\ h.rv = u.rv /\ h.spec = u.spec /\ h.known = u.known
  BY <1>2 DEF Version, Status
<1> QED BY <1>2, <1>3 DEF Healthy, u

\* The parts of a version.
LEMMA VersionParts ==
    ASSUME NEW v \in Version
    PROVE  /\ v.rv \in Nat /\ v.spec \in Spec_ /\ v.status \in Status
           /\ v.spec.url \in Urls /\ v.spec.wall \in Walls \cup {""}
           /\ v.known \in 0 .. MaxCred
BY DEF Version, Spec_

-----------------------------------------------------------------------------
(***************************************************************************)
(* Agreement is kept by what happens to the log.                           *)
(***************************************************************************)
\* A version of the log agrees with it.
LEMMA LogAgrees ==
    ASSUME NEW f, NEW l, LogOK(l), NEW ts, NEW c, Agreed(f, l, ts, c)
    PROVE  VersionAgrees(f, l, l[1]) /\ VersionAgrees(f, l, l[Len(l)])
BY DEF Agreed, LogOK

\* Forgetting old versions keeps the newest one.
LEMMA AgreedShrinks ==
    ASSUME NEW f, NEW ts, NEW c, NEW l, LogOK(l), Agreed(f, l, ts, c),
           NEW k, (Len(l) > 1 /\ k = Tail(l)) \/ k = <<l[Len(l)]>>
    PROVE  LogOK(k) /\ Agreed(f, k, ts, c)
<1>1. LogOK(k) /\ k[Len(k)] = l[Len(l)]
  BY LogShrinks
<1>2. \A i \in 1 .. Len(k) : \E j \in 1 .. Len(l) : k[i] = l[j]
  BY LogShrinks
<1>3. \A v : VersionAgrees(f, l, v) => VersionAgrees(f, k, v)
  BY <1>1 DEF VersionAgrees
<1>4. \A i \in 1 .. Len(k) : VersionAgrees(f, k, k[i])
  BY <1>2, <1>3 DEF Agreed
<1>5. \A t \in Threads : ThreadAgrees(f, k, ts[t])
  BY <1>3 DEF Agreed, ThreadAgrees
<1>6. \A e \in c : EntryAgrees(f, k, e)
  BY <1>1 DEF Agreed, EntryAgrees
<1> QED BY <1>1, <1>4, <1>5, <1>6 DEF Agreed

\* A new version has a resourceVersion nothing refers to yet.
LEMMA AgreedGrows ==
    ASSUME NEW f \in [Nat -> Facts], NEW ts, NEW c, c \subseteq Entry,
           NEW l, LogOK(l), Agreed(f, l, ts, c),
           NEW s \in Nat, NEW m \in Nat, Dated(f, s, m),
           NEW v \in Version, v.rv = l[Len(l)].rv + 1, v.known = s
    PROVE  /\ LogOK(Append(l, v))
           /\ \E g \in [Nat -> Facts] : Agreed(g, Append(l, v), ts, c) /\ Dated(g, s, m)
<1> DEFINE k == Append(l, v)
           n == l[Len(l)].rv
           x == [url |-> v.spec.url, known |-> v.known]
           g == [f EXCEPT ![n + 1] = x]
<1>1. /\ LogOK(k) /\ Len(k) = Len(l) + 1 /\ k[Len(k)] = v
      /\ \A i \in 1 .. Len(l) : k[i] = l[i]
      /\ Len(l) \in Nat /\ k[Len(l) + 1] = v
  BY LogAppend DEF LogOK
<1>2. n \in Nat /\ x \in Facts /\ x.url = v.spec.url /\ x.known = v.known
  BY LogEnds, VersionParts DEF Facts
<1> HIDE DEF x
<1>3. /\ g \in [Nat -> Facts] /\ g[n + 1] = x
      /\ \A j \in Nat : j # n + 1 => g[j] = f[j]
  BY <1>2
<1> HIDE DEF g, k
<1>4. \A w : VersionAgrees(f, l, w) => VersionAgrees(g, k, w)
  <2> SUFFICES ASSUME NEW w, VersionAgrees(f, l, w)
               PROVE  VersionAgrees(g, k, w)
    OBVIOUS
  <2>1. w \in Version /\ w.rv <= n
    BY DEF VersionAgrees
  <2>2. w.rv \in Nat /\ w.rv # n + 1
    <3>1. w.rv \in Nat /\ w.rv <= n /\ n \in Nat
      BY <1>2, <2>1, VersionParts
    <3> HIDE DEF n
    <3> QED BY <3>1
  <2>3. g[w.rv] = f[w.rv]
    BY <1>3, <2>2
  <2>4. k[Len(k)].rv = n + 1
    BY <1>1
  <2> HIDE DEF n
  <2>5. w.rv <= k[Len(k)].rv
    BY <1>2, <2>1, <2>2, <2>4
  <2> QED BY <2>1, <2>3, <2>5 DEF VersionAgrees
<1>5. VersionAgrees(g, k, v)
  BY <1>1, <1>2, <1>3 DEF VersionAgrees
<1>6. \A i \in 1 .. Len(k) : VersionAgrees(g, k, k[i])
  BY <1>1, <1>4, <1>5 DEF Agreed
<1>7. \A t \in Threads : ThreadAgrees(g, k, ts[t])
  BY <1>4 DEF Agreed, ThreadAgrees
<1>8. \A e \in c : EntryAgrees(g, k, e)
  <2> SUFFICES ASSUME NEW e \in c PROVE EntryAgrees(g, k, e)
    OBVIOUS
  <2>1. e.rv \in Nat /\ e.rv <= n /\ EntryAgrees(f, l, e)
    BY DEF Agreed, EntryAgrees, Entry
  <2>2. k[Len(k)].rv = n + 1
    BY <1>1
  <2> HIDE DEF n
  <2>3. g[e.rv] = f[e.rv] /\ e.rv <= k[Len(k)].rv
    BY <1>2, <1>3, <2>1, <2>2
  <2> QED BY <2>1, <2>3 DEF EntryAgrees
<1>9. Agreed(g, k, ts, c)
  BY <1>6, <1>7, <1>8 DEF Agreed
<1>10. Dated(g, s, m)
  <2>1. ASSUME NEW j \in Nat PROVE g[j].known <= m /\ (s # 0 => g[j].known <= s)
    <3>1. CASE j = n + 1
      BY <1>2, <1>3, <3>1 DEF Dated
    <3>2. CASE j # n + 1
      BY <1>3, <3>2 DEF Dated
    <3> QED BY <3>1, <3>2
  <2> QED BY <2>1 DEF Dated
<1> QED BY <1>1, <1>3, <1>9, <1>10 DEF k

\* Whatever becomes of a write, the log agrees with some function again; one that
\* was accepted is the latest version.
LEMMA AgreedWrite ==
    ASSUME NEW f \in [Nat -> Facts], NEW ts, NEW c, c \subseteq Entry,
           LogOK(log), faults \in 0 .. MaxFaults, Agreed(f, log, ts, c),
           secret \in Creds \cup {0}, issued \in Creds, Dated(f, secret, issued),
           NEW v \in Version, NEW res, Write(v, res)
    PROVE  /\ LogOK(log') /\ faults' \in 0 .. MaxFaults
           /\ \E g \in [Nat -> Facts] :
                 Agreed(g, log', ts, c) /\ Dated(g, secret, issued)
           /\ res = "ok" => /\ fresh
                            /\ Latest'.life = v.life /\ Latest'.spec = v.spec
<1> DEFINE w == IF v = Latest THEN v ELSE Stamped(v)
<1>0. secret \in 0 .. MaxCred /\ secret \in Nat /\ issued \in Nat
  BY CredTypes
<1>1. Latest \in Version /\ Latest.rv \in Nat /\ Latest = log[Len(log)]
  BY LogEnds, VersionParts DEF Latest
<1>2. /\ w \in Version /\ w.life = v.life /\ w.spec = v.spec
      /\ w = Latest \/ (w.rv = Latest.rv + 1 /\ w.known = secret)
  BY <1>0, <1>1, StampedType
<1>3. APIUpdate(w, res)
  BY DEF Write
<1> HIDE DEF w
<1>4. faults' = faults \/ (faults < MaxFaults /\ faults' = faults + 1)
  BY <1>3 DEF APIUpdate, Fault
<1>5. faults' \in 0 .. MaxFaults
  BY <1>4, Bounds
<1>6. (fresh /\ Store(w)) \/ (log' = log /\ res # "ok")
  BY <1>3 DEF APIUpdate, Fault
<1>7. CASE log' = log /\ res # "ok"
  BY <1>5, <1>7
<1>8. CASE fresh /\ log' = log /\ w = Latest
  BY <1>1, <1>2, <1>5, <1>8 DEF Latest
<1>9. CASE fresh /\ log' = Append(log, w) /\ w # Latest
  <2>1. LogOK(log') /\ \E g \in [Nat -> Facts] :
                           Agreed(g, log', ts, c) /\ Dated(g, secret, issued)
    BY <1>0, <1>1, <1>2, <1>9, AgreedGrows
  <2>2. Latest' = w
    BY <1>2, <1>9, LogAppend DEF Latest
  <2> QED BY <1>2, <1>5, <1>9, <2>1, <2>2
<1> QED BY <1>6, <1>7, <1>8, <1>9 DEF Store

-----------------------------------------------------------------------------
(***************************************************************************)
(* Agreement is kept by what happens to one thread.                        *)
(***************************************************************************)
\* Only the thread t moves.
Moves(t) ==
    th' \in [Threads -> Thread] /\ \A u \in Threads \ {t} : th'[u] = th[u]

\* It moves to a state that agrees.
LEMMA AgreedMoves ==
    ASSUME NEW t \in Threads, Moves(t),
           NEW g, NEW l, NEW c, Agreed(g, l, th, c), ThreadAgrees(g, l, th'[t])
    PROVE  Agreed(g, l, th', c)
<1>1. ASSUME NEW u \in Threads PROVE ThreadAgrees(g, l, th'[u])
  <2>1. CASE u = t
    BY <2>1
  <2>2. CASE u # t
    BY <2>2 DEF Agreed, Moves
  <2> QED BY <2>1, <2>2
<1> QED BY <1>1 DEF Agreed

\* A thread changes its next step.
LEMMA StepMoves ==
    ASSUME th \in [Threads -> Thread], NEW t \in Threads, NEW a \in Pcs,
           th' = [th EXCEPT ![t].pc = a]
    PROVE  /\ Moves(t) /\ th'[t].pc = a
           /\ th'[t].inst = th[t].inst /\ th'[t].cl = th[t].cl
BY DEF Thread, Moves

\* A thread gets a client.
LEMMA ClientMoves ==
    ASSUME th \in [Threads -> Thread], NEW t \in Threads, NEW a \in Pcs,
           NEW b \in Client, th' = [th EXCEPT ![t].pc = a, ![t].cl = b]
    PROVE  /\ Moves(t) /\ th'[t].pc = a
           /\ th'[t].inst = th[t].inst /\ th'[t].cl = b
BY DEF Thread, Moves

\* A thread goes on with a version.
LEMMA HoldMoves ==
    ASSUME th \in [Threads -> Thread], NEW t \in Threads, NEW a \in Pcs,
           NEW b \in Version, th' = [th EXCEPT ![t].pc = a, ![t].inst = b]
    PROVE  /\ Moves(t) /\ th'[t].pc = a
           /\ th'[t].inst = b /\ th'[t].cl = th[t].cl
BY DEF Thread, Moves

\* A thread is done.
LEMMA IdleMoves ==
    ASSUME th \in [Threads -> Thread], NEW t \in Threads, th' = [th EXCEPT ![t] = Idle]
    PROVE  Moves(t) /\ th'[t].pc = "idle"
BY DEF Thread, Moves, Idle, Pcs

-----------------------------------------------------------------------------
(***************************************************************************)
(* The steps keep type correctness and the agreement.                      *)
(***************************************************************************)
Consistent == TypeOK /\ FactsFixed

\* The parts of a consistent state, for a function f.
LEMMA ConsistentParts ==
    ASSUME TypeOK, NEW f, Agreed(f, log, th, cache)
    PROVE  /\ LogOK(log) /\ Latest \in Version /\ Cached \in Version
           /\ VersionAgrees(f, log, Latest) /\ VersionAgrees(f, log, Cached)
           /\ \A t \in Threads : ThreadAgrees(f, log, th[t])
           /\ R \in Threads
<1>1. LogOK(log)
  BY DEF TypeOK, LogOK
<1> QED BY <1>1, LogEnds, LogAgrees DEF Latest, Cached, Agreed, Threads, R

\* The initial state is consistent.
LEMMA InitConsistent == Init => Consistent
<1> SUFFICES ASSUME Init PROVE Consistent
  OBVIOUS
<1>1. PICK s \in Specs : log = <<Created(s, 1)>>
  BY DEF Init
<1> DEFINE v == Created(s, 1)
           f == [i \in Nat |-> [url |-> s.url, known |-> 1]]
<1>2. s \in Spec_
  BY SpecsAssumption DEF SpecsAssumption
<1>3. v \in Version /\ v.rv = 1 /\ v.spec = s /\ v.known = 1
  BY <1>2, Bounds DEF Created, Version, Status, NoStatus, ReadyReasons, Causes
<1>4. s.url \in Urls
  BY <1>2 DEF Spec_
<1>5. f \in [Nat -> Facts] /\ VersionAgrees(f, log, v) /\ Dated(f, secret, issued)
  <2>1. f \in [Nat -> Facts]
    BY <1>4, Bounds DEF Facts
  <2>2. Dated(f, secret, issued)
    <3>1. secret = 1 /\ issued = 1
      BY DEF Init
    <3> QED BY <3>1 DEF Dated
  <2> QED BY <1>1, <1>3, <1>4, <2>1, <2>2 DEF VersionAgrees
<1> HIDE DEF v, f
<1>6. log \in Seq(Version) /\ Len(log) = 1 /\ log[1] = v
  BY <1>1, <1>3 DEF v
<1>7. Agreed(f, log, th, cache)
  <2>1. \A i \in 1 .. Len(log) : VersionAgrees(f, log, log[i])
    BY <1>5, <1>6
  <2>2. \A t \in Threads : ThreadAgrees(f, log, th[t])
    BY DEF ThreadAgrees, Init, Idle
  <2> QED BY <2>1, <2>2 DEF Agreed, Init
<1>8. TypeOK
  <2>1. th \in [Threads -> Thread]
    BY DEF Init, Thread, Idle, Pcs
  <2>0. secret = 1 /\ issued = 1 /\ oldest = 1 /\ edits = 0 /\ faults = 0
    BY DEF Init
  <2>2. secret \in Creds /\ issued \in Creds /\ oldest \in Creds
    BY <2>0, Bounds DEF Creds
  <2>3. wall \in [Urls -> Walls \cup {""}]
    BY DEF Init
  <2>4. edits \in 0 .. MaxEdits /\ faults \in 0 .. MaxFaults
    BY <2>0, Bounds
  <2>5. queued \in BOOLEAN /\ timer \in BOOLEAN /\ fresh \in BOOLEAN /\ cache = {}
    BY DEF Init
  <2>6. Len(log) > 0 /\ cache \subseteq Entry
    BY <1>6, <2>5
  <2> QED BY <1>6, <2>1, <2>2, <2>3, <2>4, <2>5, <2>6, Zenon DEF TypeOK
<1> QED BY <1>5, <1>7, <1>8 DEF Consistent, FactsFixed

\* A thread moves, the log and the cache stay.
LEMMA MoveConsistent ==
    ASSUME TypeOK, NEW f \in [Nat -> Facts], Agreed(f, log, th, cache),
           Dated(f, secret, issued),
           NEW t \in Threads, Moves(t), ThreadAgrees(f, log, th'[t]),
           UNCHANGED <<log, cache, secret, issued>>
    PROVE  FactsFixed' /\ LogOK(log') /\ th' \in [Threads -> Thread]
<1>1. Agreed(f, log', th', cache')
  BY AgreedMoves
<1> QED BY <1>1 DEF FactsFixed, Moves, TypeOK, LogOK

\* A cache hit hands out the client that was stored under this resourceVersion.
LEMMA LookupConsistent ==
    ASSUME TypeOK, NEW f \in [Nat -> Facts], Agreed(f, log, th, cache),
           Dated(f, secret, issued),
           NEW t \in Threads, LookupHit(t) \/ LookupMiss(t)
    PROVE  Consistent'
<1>1. ThreadAgrees(f, log, th[t]) /\ th[t].pc = "lookup" /\ th \in [Threads -> Thread]
  BY ConsistentParts DEF LookupHit, LookupMiss, At, TypeOK
<1>2. Moves(t) /\ ThreadAgrees(f, log, th'[t])
  <2>1. CASE LookupHit(t)
    <3>1. PICK e \in Hits(t) : th' = [th EXCEPT ![t].pc = "call", ![t].cl = e.client]
      BY <2>1 DEF LookupHit
    <3>2. e \in cache /\ e.rv = th[t].inst.rv /\ e.client \in Client
      BY <3>1 DEF Hits, cacheKey, Inst, TypeOK, Entry
    <3>3. e.client.url = th[t].inst.spec.url /\ e.client.cred >= th[t].inst.known
      BY <1>1, <3>2 DEF Agreed, EntryAgrees, ThreadAgrees, VersionAgrees
    <3>4. /\ Moves(t) /\ th'[t].pc = "call"
          /\ th'[t].inst = th[t].inst /\ th'[t].cl = e.client
      BY <1>1, <3>1, <3>2, ClientMoves DEF Pcs
    <3> QED BY <1>1, <3>2, <3>3, <3>4 DEF ThreadAgrees
  <2>2. CASE LookupMiss(t)
    <3>1. Moves(t) /\ th'[t].pc = "build" /\ th'[t].inst = th[t].inst
      BY <1>1, <2>2, StepMoves DEF LookupMiss, Step, Pcs
    <3> QED BY <1>1, <3>1 DEF ThreadAgrees
  <2> QED BY <2>1, <2>2
<1>3. UNCHANGED <<crVars, fresh, faults, cache, envVars>>
  BY DEF LookupHit, LookupMiss
<1>4. FactsFixed' /\ LogOK(log') /\ th' \in [Threads -> Thread]
  BY <1>2, <1>3, MoveConsistent DEF crVars, envVars
<1> QED BY <1>3, <1>4 DEF Consistent, TypeOK, LogOK, crVars, envVars

\* A client is built from the URL of the version the thread holds.
LEMMA BuildConsistent ==
    ASSUME TypeOK, NEW f \in [Nat -> Facts], Agreed(f, log, th, cache),
           Dated(f, secret, issued),
           NEW t \in Threads, Build(t)
    PROVE  Consistent'
<1> DEFINE b == [url |-> Inst(t).spec.url, cred |-> secret]
<1>1. ThreadAgrees(f, log, th[t]) /\ th[t].pc = "build" /\ th \in [Threads -> Thread]
  BY ConsistentParts DEF Build, At, TypeOK
<1>2. th[t].inst \in Version /\ th[t].inst.spec.url \in Urls
  BY <1>1, VersionParts DEF ThreadAgrees, VersionAgrees
<1>3. b \in Client /\ b.url = th[t].inst.spec.url /\ b.cred >= th[t].inst.known
  <2>1. b \in Client /\ b.url = th[t].inst.spec.url /\ b.cred = secret /\ secret # 0
    BY <1>2 DEF Client, Build, TypeOK, Inst
  <2>2. th[t].inst.rv \in Nat /\ th[t].inst.known = f[th[t].inst.rv].known
    BY <1>1, <1>2, VersionParts DEF ThreadAgrees, VersionAgrees
  <2>3. f[th[t].inst.rv].known \in Nat /\ secret \in Nat
    BY <2>1, <2>2, Bounds DEF Facts, Client, Creds
  <2> QED BY <2>1, <2>2, <2>3 DEF Dated
<1>4. th' = [th EXCEPT ![t].pc = "set", ![t].cl = b]
  BY DEF Build
<1>5. UNCHANGED <<crVars, fresh, faults, cache, envVars>>
  BY DEF Build
<1> HIDE DEF b
<1>6. /\ Moves(t) /\ th'[t].pc = "set"
      /\ th'[t].inst = th[t].inst /\ th'[t].cl = b
  BY <1>1, <1>3, <1>4, ClientMoves DEF Pcs
<1>7. ThreadAgrees(f, log, th'[t])
  BY <1>1, <1>3, <1>6 DEF ThreadAgrees
<1>8. FactsFixed' /\ LogOK(log') /\ th' \in [Threads -> Thread]
  BY <1>5, <1>6, <1>7, MoveConsistent DEF crVars, envVars
<1> QED BY <1>5, <1>8 DEF Consistent, TypeOK, LogOK, crVars, envVars

\* Set stores it under the resourceVersion of that version.
LEMMA SetConsistent ==
    ASSUME TypeOK, NEW f \in [Nat -> Facts], Agreed(f, log, th, cache),
           Dated(f, secret, issued),
           NEW t \in Threads, Set(t)
    PROVE  Consistent'
<1> DEFINE e == [rv |-> cacheKey(Inst(t)), client |-> th[t].cl]
<1>1. ThreadAgrees(f, log, th[t]) /\ th[t].pc = "set" /\ th \in [Threads -> Thread]
  BY ConsistentParts DEF Set, At, TypeOK
<1>2. /\ VersionAgrees(f, log, th[t].inst)
      /\ th[t].cl \in Client /\ th[t].cl.url = th[t].inst.spec.url
      /\ th[t].cl.cred >= th[t].inst.known
  BY <1>1 DEF ThreadAgrees
<1>3. /\ th[t].inst.rv \in Nat /\ th[t].inst.spec.url = f[th[t].inst.rv].url
      /\ th[t].inst.known = f[th[t].inst.rv].known
  BY <1>2, VersionParts DEF VersionAgrees
<1>4. e \in Entry /\ EntryAgrees(f, log, e)
  BY <1>2, <1>3 DEF Entry, EntryAgrees, VersionAgrees, cacheKey, Inst
<1>5. cache' = {e} /\ Step(t, "call") /\ UNCHANGED <<crVars, fresh, faults, envVars>>
  BY DEF Set, Evicted
<1> HIDE DEF e
<1>6. Moves(t) /\ th'[t].pc = "call" /\ th'[t].inst = th[t].inst /\ th'[t].cl = th[t].cl
  BY <1>1, <1>5, StepMoves DEF Step, Pcs
<1>7. ThreadAgrees(f, log, th'[t])
  BY <1>2, <1>6 DEF ThreadAgrees
<1>8. Agreed(f, log, th', cache)
  BY <1>6, <1>7, AgreedMoves
<1>9. Agreed(f, log', th', cache')
  BY <1>4, <1>5, <1>8 DEF Agreed, crVars
<1>10. cache' \subseteq Entry /\ th' \in [Threads -> Thread]
  BY <1>4, <1>5, <1>6 DEF Moves
<1>11. UNCHANGED <<secret, issued>>
  BY <1>5 DEF envVars
<1> QED BY <1>5, <1>9, <1>10, <1>11 DEF Consistent, FactsFixed, TypeOK, crVars, envVars

\* Consumers start with a version of the log and end with nothing.
LEMMA ConsumerConsistent ==
    ASSUME TypeOK, NEW f \in [Nat -> Facts], Agreed(f, log, th, cache),
           Dated(f, secret, issued),
           NEW t \in Threads, Resolve(t) \/ Use(t)
    PROVE  Consistent'
<1>1. th \in [Threads -> Thread]
  BY DEF TypeOK
<1>2. Moves(t) /\ ThreadAgrees(f, log, th'[t])
  <2>1. CASE Resolve(t)
    <3>1. Cached \in Version /\ VersionAgrees(f, log, Cached)
      BY ConsistentParts
    <3>2. Moves(t) /\ th'[t].pc = "lookup" /\ th'[t].inst = Cached
      BY <1>1, <2>1, <3>1, HoldMoves DEF Resolve, Pcs
    <3> QED BY <3>1, <3>2 DEF ThreadAgrees
  <2>2. CASE Use(t)
    BY <1>1, <2>2, IdleMoves DEF Use, ThreadAgrees
  <2> QED BY <2>1, <2>2
<1>3. UNCHANGED <<crVars, fresh, faults, cache, envVars>>
  BY DEF Resolve, Use
<1>4. FactsFixed' /\ LogOK(log') /\ th' \in [Threads -> Thread]
  BY <1>2, <1>3, MoveConsistent DEF crVars, envVars
<1> QED BY <1>3, <1>4 DEF Consistent, TypeOK, LogOK, crVars, envVars

\* Reconcile goes on with a version that agrees.
LEMMA HoldAgrees ==
    ASSUME th \in [Threads -> Thread], NEW f, NEW l, NEW v, VersionAgrees(f, l, v),
           NEW a \in Pcs \ {"set", "call"}, Hold(v, a)
    PROVE  /\ Moves(R) /\ th'[R].pc = a /\ th'[R].inst = v
           /\ ThreadAgrees(f, l, th'[R])
<1>1. R \in Threads /\ v \in Version
  BY DEF Threads, R, VersionAgrees
<1>2. Moves(R) /\ th'[R].pc = a /\ th'[R].inst = v
  BY <1>1, HoldMoves DEF Hold
<1> QED BY <1>2 DEF ThreadAgrees

\* The first step of a pass.
LEMMA StartConsistent ==
    ASSUME TypeOK, NEW f \in [Nat -> Facts], Agreed(f, log, th, cache),
           Dated(f, secret, issued),
           StartNothing \/ StartSuspended \/ StartDeleting \/ StartLive
    PROVE  Consistent'
<1>1. /\ th \in [Threads -> Thread] /\ LogOK(log) /\ R \in Threads
      /\ Cached \in Version /\ VersionAgrees(f, log, Cached)
  BY ConsistentParts DEF TypeOK
<1>2. VersionAgrees(f, log, setReady(Cached, "Suspended"))
      /\ VersionAgrees(f, log, setReady(Cached, "InvalidSpec"))
  <2>1. "" \in Causes /\ "Suspended" \in ReadyReasons /\ "InvalidSpec" \in ReadyReasons
    BY DEF Causes, ReadyReasons
  <2> QED BY <1>1, <2>1, SetConditionType DEF VersionAgrees
<1>3. th' \in [Threads -> Thread] /\ Agreed(f, log, th', cache)
  <2>1. CASE StartNothing
    BY <1>1, <2>1 DEF StartNothing
  <2>2. CASE StartSuspended
    <3>1. Hold(setReady(Cached, "Suspended"), "saveQuiet")
      BY <2>2 DEF StartSuspended
    <3> QED BY <1>1, <1>2, <3>1, HoldAgrees, AgreedMoves DEF Pcs, Moves
  <2>3. CASE StartDeleting
    <3>1. Hold(Cached, "finalize")
      BY <2>3 DEF StartDeleting
    <3> QED BY <1>1, <3>1, HoldAgrees, AgreedMoves DEF Pcs, Moves
  <2>4. CASE StartLive
    <3>1. \/ Hold(Cached, "addFinalizer") \/ Hold(Cached, "lookup")
          \/ Hold(setReady(Cached, "InvalidSpec"), "saveQuiet")
      BY <2>4 DEF StartLive, Checked
    <3> QED BY <1>1, <1>2, <3>1, HoldAgrees, AgreedMoves DEF Pcs, Moves
  <2> QED BY <2>1, <2>2, <2>3, <2>4
<1>4. /\ UNCHANGED <<log, timer, faults, envVars>> /\ queued' = FALSE
      /\ cache' \in {{}, cache}
  BY DEF StartNothing, StartSuspended, StartDeleting, StartLive, Start, Evicted
<1>5. fresh' \in BOOLEAN
  BY DEF StartNothing, StartSuspended, StartDeleting, StartLive, TypeOK
<1>6. FactsFixed'
  BY <1>3, <1>4 DEF FactsFixed, Agreed, envVars
<1>7. cache' \subseteq Entry /\ log' \in Seq(Version) /\ Len(log') > 0
  BY <1>4 DEF TypeOK
<1> QED BY <1>3, <1>4, <1>5, <1>6, <1>7 DEF Consistent, TypeOK, envVars

\* The steps that only ask Concourse, and what they conclude.
Asks == \/ AuthFails \/ GetInfo \/ GetInfoFails \/ ListWorkers \/ ListWorkersFails
        \/ WallInPlace \/ SyncWall \/ SyncWallFails

\* They leave the Instance's spec and resourceVersion alone.
LEMMA AsksMoves ==
    ASSUME TypeOK, NEW f \in [Nat -> Facts], Agreed(f, log, th, cache),
           Dated(f, secret, issued), Asks
    PROVE  /\ Moves(R) /\ ThreadAgrees(f, log, th'[R])
           /\ th[R].pc # "idle" /\ th'[R].pc \in {"workers", "wall", "saveRetry"}
<1>1. th \in [Threads -> Thread] /\ R \in Threads /\ ThreadAgrees(f, log, th[R])
  BY ConsistentParts DEF TypeOK
<1>2. th[R].pc \in {"build", "call", "workers", "wall"}
  BY DEF Asks, AuthFails, GetInfo, GetInfoFails, ListWorkers, ListWorkersFails,
         WallInPlace, SyncWall, SyncWallFails, At
<1>3. I \in Version /\ VersionAgrees(f, log, I) /\ I = th[R].inst
  BY <1>1, <1>2 DEF ThreadAgrees, VersionAgrees, I, Inst
<1>4. \A v \in Version :
          v.rv = I.rv /\ v.spec = I.spec /\ v.known = I.known => VersionAgrees(f, log, v)
  BY <1>3 DEF VersionAgrees
<1>5. ASSUME Step(R, "workers") \/ Step(R, "wall")
      PROVE  /\ Moves(R) /\ ThreadAgrees(f, log, th'[R])
             /\ th'[R].pc \in {"workers", "wall", "saveRetry"}
  BY <1>1, <1>2, <1>5, StepMoves DEF Step, Pcs, ThreadAgrees
<1>6. ASSUME NEW v \in Version, v.rv = I.rv, v.spec = I.spec, v.known = I.known,
             Hold(v, "saveRetry")
      PROVE  /\ Moves(R) /\ ThreadAgrees(f, log, th'[R])
             /\ th'[R].pc \in {"workers", "wall", "saveRetry"}
  BY <1>1, <1>4, <1>6, HoldAgrees DEF Pcs
<1>7. \/ Step(R, "workers") \/ Step(R, "wall")
      \/ \E v \in Version : /\ v.rv = I.rv /\ v.spec = I.spec /\ v.known = I.known
                             /\ Hold(v, "saveRetry")
  <2>1. CASE GetInfo \/ ListWorkers
    BY <2>1 DEF GetInfo, ListWorkers
  <2>2. CASE AuthFails
    BY <1>3, <2>2, SetConditionType DEF AuthFails, ReadyReasons, Causes
  <2>3. CASE GetInfoFails
    BY <1>3, <2>3, SetConditionType DEF GetInfoFails, ReadyReasons
  <2>4. CASE ListWorkersFails
    <3> DEFINE u == setReady(I, "Ready")
               w == [u EXCEPT !.status.workers = "unknown"]
    <3>1. "Ready" \in ReadyReasons /\ "" \in Causes
      BY DEF ReadyReasons, Causes
    <3>2. u \in Version /\ u.rv = I.rv /\ u.spec = I.spec /\ u.known = I.known
      BY <1>3, <3>1, SetConditionType
    <3>3. Hold(w, "saveRetry")
      BY <2>4 DEF ListWorkersFails
    <3> HIDE DEF u
    <3>4. w \in Version /\ w.rv = u.rv /\ w.spec = u.spec /\ w.known = u.known
      BY <3>2 DEF Version, Status
    <3> QED BY <3>2, <3>3, <3>4
  <2>5. CASE WallInPlace
    BY <1>3, <2>5, HealthyType DEF WallInPlace
  <2>6. CASE SyncWall
    <3> DEFINE u == Healthy(I)
               w == [u EXCEPT !.status.wall = I.spec.wall]
    <3>1. u \in Version /\ u.rv = I.rv /\ u.spec = I.spec /\ u.known = I.known
      BY <1>3, HealthyType
    <3>2. I.spec.wall \in Walls \cup {""}
      BY <1>3, VersionParts
    <3>3. Hold(w, "saveRetry")
      BY <2>6 DEF SyncWall
    <3> HIDE DEF u
    <3>4. w \in Version /\ w.rv = u.rv /\ w.spec = u.spec /\ w.known = u.known
      BY <3>1, <3>2 DEF Version, Status
    <3> QED BY <3>1, <3>3, <3>4
  <2>7. CASE SyncWallFails
    BY <1>3, <2>7, SetConditionType DEF SyncWallFails, ReadyReasons
  <2> QED BY <2>1, <2>2, <2>3, <2>4, <2>5, <2>6, <2>7 DEF Asks
<1> QED BY <1>2, <1>5, <1>6, <1>7

\* A fault keeps the number of faults within its bound.
LEMMA FaultBounded ==
    ASSUME faults \in 0 .. MaxFaults, NEW kind, Fault(kind)
    PROVE  faults' \in 0 .. MaxFaults
BY Bounds DEF Fault

\* These steps touch neither the log nor the cache, and at most one wall.
LEMMA AsksConsistent ==
    ASSUME TypeOK, NEW f \in [Nat -> Facts], Agreed(f, log, th, cache),
           Dated(f, secret, issued), Asks
    PROVE  Consistent'
<1>1. UNCHANGED <<crVars, fresh, cache, secret, issued, oldest, edits>>
  BY DEF Asks, AuthFails, GetInfo, GetInfoFails, ListWorkers, ListWorkersFails,
         WallInPlace, SyncWall, SyncWallFails, envVars
<1>2. Moves(R) /\ ThreadAgrees(f, log, th'[R]) /\ R \in Threads
  BY AsksMoves, ConsistentParts
<1>3. FactsFixed' /\ LogOK(log') /\ th' \in [Threads -> Thread]
  BY <1>1, <1>2, MoveConsistent DEF crVars, envVars
<1>4. faults' \in 0 .. MaxFaults
  <2>1. faults' = faults \/ \E kind : Fault(kind)
    BY DEF Asks, AuthFails, GetInfo, GetInfoFails, ListWorkers, ListWorkersFails,
           WallInPlace, SyncWall, SyncWallFails, RequestFails
  <2> QED BY <2>1, FaultBounded DEF TypeOK
<1>5. wall' \in [Urls -> Walls \cup {""}]
  <2>1. wall' = wall \/ AtcWall(I.spec.wall)
    BY DEF Asks, AuthFails, GetInfo, GetInfoFails, ListWorkers, ListWorkersFails,
           WallInPlace, SyncWall, SyncWallFails, envVars
  <2>2. I.spec.wall \in Walls \cup {""}
    BY ConsistentParts, AsksMoves, VersionParts
       DEF ThreadAgrees, VersionAgrees, I, Inst
  <2> QED BY <2>1, <2>2 DEF AtcWall, TypeOK
<1> QED BY <1>1, <1>3, <1>4, <1>5, Zenon
        DEF Consistent, TypeOK, LogOK, crVars

\* The writes of Reconcile: the status, and the finalizer's end.
LEMMA WriteConsistent ==
    ASSUME TypeOK, NEW f \in [Nat -> Facts], Agreed(f, log, th, cache),
           Dated(f, secret, issued),
           Save \/ RemoveFinalizer
    PROVE  Consistent'
<1>1. /\ th \in [Threads -> Thread] /\ LogOK(log) /\ R \in Threads
      /\ Latest \in Version /\ ThreadAgrees(f, log, th[R])
      /\ cache \subseteq Entry /\ faults \in 0 .. MaxFaults
      /\ secret \in Creds \cup {0} /\ issued \in Creds
  BY ConsistentParts DEF TypeOK
<1>2. PICK v \in Version, res \in Results, again \in BOOLEAN : Write(v, res) /\ Return(again)
  <2>1. CASE Save
    <3>1. I \in Version
      BY <1>1, <2>1 DEF Save, At, I, Inst, ThreadAgrees, VersionAgrees
    <3>2. [Latest EXCEPT !.status = I.status] \in Version
      BY <1>1, <3>1 DEF Version
    <3> QED BY <2>1, <3>2 DEF Save, SaveRequeue
  <2>2. CASE RemoveFinalizer
    <3>1. [Latest EXCEPT !.fin = FALSE, !.life = "gone"] \in Version
      BY <1>1 DEF Version
    <3> QED BY <2>2, <3>1 DEF RemoveFinalizer, FinalizeRequeue
  <2> QED BY <2>1, <2>2
<1>3. /\ LogOK(log') /\ faults' \in 0 .. MaxFaults
      /\ \E g \in [Nat -> Facts] :
            Agreed(g, log', th, cache) /\ Dated(g, secret, issued)
  BY <1>1, <1>2, AgreedWrite
<1>4. PICK g \in [Nat -> Facts] :
          Agreed(g, log', th, cache) /\ Dated(g, secret, issued)
  BY <1>3
<1>5. Moves(R) /\ th'[R].pc = "idle"
  BY <1>1, <1>2, IdleMoves DEF Return
<1>6. Agreed(g, log', th', cache)
  BY <1>1, <1>4, <1>5, AgreedMoves DEF ThreadAgrees
<1>7. UNCHANGED <<queued, cache, envVars>> /\ fresh' = FALSE /\ timer' \in BOOLEAN
  BY <1>2 DEF Save, RemoveFinalizer, Return, TypeOK
<1>8. FactsFixed' /\ th' \in [Threads -> Thread]
  BY <1>4, <1>5, <1>6, <1>7 DEF FactsFixed, Moves, envVars
<1> QED BY <1>3, <1>7, <1>8 DEF Consistent, TypeOK, LogOK, envVars

\* After its Update, Reconcile goes on with what is stored.
LEMMA AddFinalizerConsistent ==
    ASSUME TypeOK, NEW f \in [Nat -> Facts], Agreed(f, log, th, cache),
           Dated(f, secret, issued), AddFinalizer
    PROVE  Consistent'
<1>1. /\ th \in [Threads -> Thread] /\ LogOK(log) /\ R \in Threads
      /\ Latest \in Version /\ cache \subseteq Entry /\ faults \in 0 .. MaxFaults
      /\ secret \in Creds \cup {0} /\ issued \in Creds
  BY ConsistentParts DEF TypeOK
<1> DEFINE v == [Latest EXCEPT !.fin = TRUE]
<1>2. v \in Version
  BY <1>1 DEF Version
<1>3. PICK res \in Results :
          /\ Write(v, res)
          /\ IF res = "ok" THEN Checked(Latest') /\ UNCHANGED <<fresh, timer>>
                           ELSE Return(TRUE)
  BY DEF AddFinalizer
<1> HIDE DEF v
<1>4. /\ LogOK(log') /\ faults' \in 0 .. MaxFaults
      /\ \E g \in [Nat -> Facts] :
            Agreed(g, log', th, cache) /\ Dated(g, secret, issued)
  BY <1>1, <1>2, <1>3, AgreedWrite
<1>5. PICK g \in [Nat -> Facts] :
          Agreed(g, log', th, cache) /\ Dated(g, secret, issued)
  BY <1>4
<1>6. VersionAgrees(g, log', Latest') /\ Latest' \in Version
  BY <1>4, <1>5, LogAgrees DEF Latest, VersionAgrees
<1>7. VersionAgrees(g, log', setReady(Latest', "InvalidSpec"))
  <2>1. "" \in Causes /\ "InvalidSpec" \in ReadyReasons
    BY DEF Causes, ReadyReasons
  <2> QED BY <1>6, <2>1, SetConditionType DEF VersionAgrees
<1>8. Moves(R) /\ ThreadAgrees(g, log', th'[R])
  <2>1. \/ Hold(Latest', "lookup") \/ Hold(setReady(Latest', "InvalidSpec"), "saveQuiet")
        \/ th' = [th EXCEPT ![R] = Idle]
    BY <1>3 DEF Checked, Return
  <2>2. CASE Hold(Latest', "lookup")
    BY <1>1, <1>6, <2>2, HoldAgrees DEF Pcs
  <2>3. CASE Hold(setReady(Latest', "InvalidSpec"), "saveQuiet")
    BY <1>1, <1>7, <2>3, HoldAgrees DEF Pcs
  <2>4. CASE th' = [th EXCEPT ![R] = Idle]
    BY <1>1, <2>4, IdleMoves DEF ThreadAgrees
  <2> QED BY <2>1, <2>2, <2>3, <2>4
<1>9. Agreed(g, log', th', cache)
  BY <1>1, <1>5, <1>8, AgreedMoves
<1>10. UNCHANGED <<queued, cache, envVars>>
  BY DEF AddFinalizer
<1>11. fresh' \in BOOLEAN /\ timer' \in BOOLEAN
  BY <1>3 DEF Return, TypeOK
<1>12. FactsFixed' /\ th' \in [Threads -> Thread]
  BY <1>5, <1>8, <1>9, <1>10 DEF FactsFixed, Moves, envVars
<1> QED BY <1>4, <1>10, <1>11, <1>12 DEF Consistent, TypeOK, LogOK, envVars

\* Users write new versions of the Instance.
LEMMA UserConsistent ==
    ASSUME TypeOK, NEW f \in [Nat -> Facts], Agreed(f, log, th, cache),
           Dated(f, secret, issued),
           EditSpec \/ Delete \/ Recreate
    PROVE  Consistent'
<1>1. LogOK(log) /\ Latest \in Version /\ Latest.rv \in Nat /\ Latest = log[Len(log)]
  BY ConsistentParts, VersionParts DEF Latest
<1>2. PICK v \in Version : UserWrites(v)
  <2>1. CASE EditSpec
    <3>1. PICK s \in Specs : UserWrites([Latest EXCEPT !.spec = s, !.gen = @ + 1])
      BY <2>1 DEF EditSpec
    <3>2. s \in Spec_ /\ Latest.gen + 1 \in Nat
      BY <1>1, SpecsAssumption DEF SpecsAssumption, Version
    <3>3. [Latest EXCEPT !.spec = s, !.gen = @ + 1] \in Version
      BY <1>1, <3>2 DEF Version
    <3> QED BY <3>1, <3>3
  <2>2. CASE Delete
    <3> DEFINE l == IF Latest.fin THEN "deleting" ELSE "gone"
               v == [Latest EXCEPT !.life = l, !.gen = @ + 1]
    <3>1. UserWrites(v)
      BY <2>2 DEF Delete
    <3>2. l \in {"live", "deleting", "gone"} /\ Latest.gen + 1 \in Nat
      BY <1>1 DEF Version
    <3> HIDE DEF l
    <3>3. v \in Version
      BY <1>1, <3>2 DEF Version
    <3> QED BY <3>1, <3>3
  <2>3. CASE Recreate
    <3>1. PICK s \in Specs : UserWrites(Created(s, Latest.rv))
      BY <2>3 DEF Recreate
    <3>2. s \in Spec_ /\ 1 \in 0 .. MaxCred /\ NoStatus \in Status
      BY SpecsAssumption, Bounds
         DEF SpecsAssumption, Status, NoStatus, ReadyReasons, Causes
    <3>3. Created(s, Latest.rv) \in Version
      BY <1>1, <3>2 DEF Created, Version
    <3> QED BY <3>1, <3>3
  <2> QED BY <2>1, <2>2, <2>3
<1> DEFINE w == Stamped(v)
<1>3. log' = Append(log, w) /\ edits < MaxEdits /\ edits' = edits + 1 /\ fresh' = FALSE
      /\ UNCHANGED <<queued, timer, faults, th, cache, secret, issued, oldest, wall>>
  BY <1>2 DEF UserWrites
<1> HIDE DEF w
<1>4. /\ w \in Version /\ w.rv = log[Len(log)].rv + 1 /\ w.known = secret
      /\ cache \subseteq Entry /\ secret \in Nat /\ issued \in Nat
  <2>0. secret \in Creds \cup {0} /\ issued \in Creds
    BY DEF TypeOK
  <2>1. secret \in 0 .. MaxCred /\ secret \in Nat /\ issued \in Nat
    BY <2>0, CredTypes
  <2>2. w \in Version /\ w.rv = Latest.rv + 1 /\ w.known = secret
    BY <1>1, <1>2, <2>1, StampedType DEF w
  <2> QED BY <1>1, <2>1, <2>2 DEF TypeOK
<1>5. LogOK(log') /\ FactsFixed'
  <2>1. PICK g \in [Nat -> Facts] :
            Agreed(g, Append(log, w), th, cache) /\ Dated(g, secret, issued)
    BY <1>1, <1>4, AgreedGrows
  <2> QED BY <1>1, <1>3, <1>4, <2>1, LogAppend DEF FactsFixed
<1>6. edits \in 0 .. MaxEdits
  BY DEF TypeOK
<1>7. edits' \in 0 .. MaxEdits
  BY <1>3, <1>6, Bounds
<1> QED BY <1>3, <1>5, <1>7, Zenon DEF Consistent, TypeOK, LogOK

\* The informer, the timers and restarts; the Secret and the ATC's credentials.
LEMMA RestConsistent ==
    ASSUME TypeOK, NEW f \in [Nat -> Facts], Agreed(f, log, th, cache),
           Dated(f, secret, issued),
           \/ Deliver \/ TimerFires \/ Crash
           \/ RotateSecret \/ SecretDeleted \/ AtcIssues \/ AtcRevokes
    PROVE  Consistent'
<1>1. LogOK(log) /\ faults \in 0 .. MaxFaults
  BY ConsistentParts DEF TypeOK
<1>2. CASE Deliver
  <2>1. LogOK(log') /\ Agreed(f, log', th, cache)
    BY <1>1, <1>2, AgreedShrinks DEF Deliver
  <2> QED BY <1>2, <2>1 DEF Deliver, Consistent, FactsFixed, TypeOK, LogOK, envVars
<1>3. CASE TimerFires
  BY <1>3 DEF TimerFires, Consistent, FactsFixed, TypeOK, envVars
<1>4. CASE Crash
  <2>1. LogOK(log') /\ Agreed(f, log', th, cache)
    BY <1>1, <1>4, AgreedShrinks DEF Crash, Latest
  <2>2. Agreed(f, log', th', cache')
    BY <1>4, <2>1 DEF Crash, Agreed, ThreadAgrees, Idle
  <2>3. faults' \in 0 .. MaxFaults
    BY <1>1, <1>4, FaultBounded DEF Crash
  <2>4. th' \in [Threads -> Thread]
    BY <1>4 DEF Crash, Thread, Idle, Pcs
  <2> QED BY <1>4, <2>1, <2>2, <2>3, <2>4
          DEF Crash, Consistent, FactsFixed, TypeOK, LogOK, envVars
<1>5. CASE RotateSecret \/ SecretDeleted
  <2>1. /\ UNCHANGED <<log, timer, fresh, th, cache, issued, oldest, wall, edits>>
        /\ queued' = TRUE /\ secret' \in {issued, 0}
    BY <1>5 DEF RotateSecret, SecretDeleted, SecretChanges
  <2>2. faults' \in 0 .. MaxFaults
    BY <1>1, <1>5, FaultBounded DEF RotateSecret, SecretDeleted
  <2>3. issued \in Nat /\ secret' \in Creds \cup {0}
    BY <2>1, CredTypes DEF TypeOK
  <2>4. Dated(f, secret', issued')
    BY <2>1, <2>3 DEF Dated
  <2> QED BY <2>1, <2>2, <2>3, <2>4 DEF Consistent, FactsFixed, TypeOK
<1>6. CASE AtcIssues \/ AtcRevokes
  <2>1. /\ UNCHANGED <<crVars, fresh, faults, th, cache, secret, wall, edits>>
    BY <1>6 DEF AtcIssues, AtcRevokes
  <2>2. issued' \in Creds
    <3>1. issued' = issued \/ (issued < MaxCred /\ issued' = issued + 1)
      BY <1>6 DEF AtcIssues, AtcRevokes
    <3>2. issued \in Creds
      BY DEF TypeOK
    <3> QED BY <3>1, <3>2, Bounds DEF Creds
  <2>3. oldest' \in Creds
    <3>1. CASE AtcIssues
      BY <2>2, <3>1 DEF AtcIssues, TypeOK
    <3>2. CASE AtcRevokes
      <4>1. oldest < secret /\ oldest' = secret /\ oldest \in Creds /\ secret \in Creds \cup {0}
        BY <3>2 DEF AtcRevokes, TypeOK
      <4> QED BY <4>1, Bounds DEF Creds
    <3> QED BY <1>6, <3>1, <3>2
  <2>4. Dated(f, secret', issued')
    <3>1. issued' = issued \/ issued' = issued + 1
      BY <1>6 DEF AtcIssues, AtcRevokes
    <3>2. secret \in Nat /\ issued \in Nat
      <4>1. secret \in Creds \cup {0} /\ issued \in Creds
        BY DEF TypeOK
      <4> QED BY <4>1, CredTypes
    <3>3. issued' \in Nat /\ issued' >= issued
      BY <3>1, <3>2
    <3>4. \A n \in Nat : f[n].known \in Nat
      BY Bounds DEF Facts
    <3> QED BY <2>1, <3>3, <3>4, <3>2 DEF Dated
  <2> QED BY <2>1, <2>2, <2>3, <2>4 DEF Consistent, FactsFixed, TypeOK, crVars
<1> QED BY <1>2, <1>3, <1>4, <1>5, <1>6

\* Every step keeps the state consistent.
LEMMA NextConsistent == Consistent /\ [Next]_vars => Consistent'
<1> SUFFICES ASSUME Consistent, [Next]_vars PROVE Consistent'
  OBVIOUS
<1>1. TypeOK
  BY DEF Consistent
<1>2. PICK f \in [Nat -> Facts] : Agreed(f, log, th, cache) /\ Dated(f, secret, issued)
  BY DEF Consistent, FactsFixed
<1>3. R \in Threads /\ Consumers \subseteq Threads
  BY DEF Threads, R
<1>4. ASSUME NEW t \in Threads,
             \/ LookupHit(t) \/ LookupMiss(t) \/ Build(t) \/ Set(t)
             \/ Resolve(t) \/ Use(t)
      PROVE  Consistent'
  BY <1>1, <1>2, <1>4, LookupConsistent, BuildConsistent, SetConsistent,
     ConsumerConsistent
<1>5. CASE Reconcile
  <2>1. CASE StartNothing \/ StartSuspended \/ StartDeleting \/ StartLive
    BY <1>1, <1>2, <2>1, StartConsistent
  <2>2. CASE RemoveFinalizer \/ Save
    BY <1>1, <1>2, <2>2, WriteConsistent
  <2>3. CASE AddFinalizer
    BY <1>1, <1>2, <2>3, AddFinalizerConsistent
  <2>4. CASE Asks
    BY <1>1, <1>2, <2>4, AsksConsistent
  <2>5. CASE LookupHit(R) \/ LookupMiss(R) \/ Build(R) \/ Set(R)
    BY <1>3, <1>4, <2>5
  <2> QED BY <1>5, <2>1, <2>2, <2>3, <2>4, <2>5 DEF Reconcile, Asks
<1>6. CASE \E t \in Consumers : Consumer(t)
  BY <1>3, <1>4, <1>6 DEF Consumer
<1>7. CASE Environment
  <2>1. CASE EditSpec \/ Delete \/ Recreate
    BY <1>1, <1>2, <2>1, UserConsistent
  <2>2. CASE \/ Deliver \/ TimerFires \/ Crash
             \/ RotateSecret \/ SecretDeleted \/ AtcIssues \/ AtcRevokes
    BY <1>1, <1>2, <2>2, RestConsistent
  <2> QED BY <1>7, <2>1, <2>2 DEF Environment
<1>8. CASE UNCHANGED vars
  BY <1>1, <1>2, <1>8 DEF vars, crVars, envVars, Consistent, FactsFixed, TypeOK
<1> QED BY <1>5, <1>6, <1>7, <1>8 DEF Next

-----------------------------------------------------------------------------
(***************************************************************************)
(* Theorems.                                                               *)
(***************************************************************************)
\* Every reachable state is consistent.
LEMMA AlwaysConsistent == Spec => []Consistent
BY InitConsistent, NextConsistent, PTL DEF Spec

\* All variables stay within their types: what threads pass to each other through
\* the cache and the log are versions and clients (Reconcile, Cache).
THEOREM TypeCorrect == Spec => []TypeOK
BY AlwaysConsistent, PTL DEF Consistent

\* No thread ever calls an ATC other than the one named by the Instance it read,
\* whatever number of threads share the cache (cacheKey, GetOrBuild).
THEOREM ClientsMatch == Spec => []ClientMatches
<1>1. Consistent => ClientMatches
  BY DEF Consistent, FactsFixed, Agreed, ThreadAgrees, ClientMatches, At, Inst
<1> QED BY <1>1, AlwaysConsistent, PTL

\* Nobody calls with a credential older than the one the operator read from the
\* Secret when the version it works on was written, whatever threads looked up, built and stored before,
\* whatever was evicted, deleted and created again, and however often credentials
\* change (cacheKey, GetOrBuild, handleInstanceLifecycle).
THEOREM ClientsNotOlder == Spec => []ClientNotOlder
<1>1. Consistent => ClientNotOlder
  BY DEF Consistent, FactsFixed, Agreed, ThreadAgrees, ClientNotOlder, At, Inst
<1> QED BY <1>1, AlwaysConsistent, PTL

-----------------------------------------------------------------------------
(***************************************************************************)
(* The periodic probe.                                                     *)
(***************************************************************************)
Armed == QuietOnPurpose /\ WakeupArmed

\* While Reconcile is between a start and a save, nothing is to be shown; a pass
\* that returns asks to come back unless the Instance is not wanted.
LEMMA PassArmed ==
    ASSUME th'[R].pc \notin {"idle", "saveQuiet"} \/ (th'[R].pc = "idle" /\ timer')
    PROVE  Armed'
BY DEF Armed, QuietOnPurpose, WakeupArmed, At, R

\* A pass starts.
LEMMA StartArmed ==
    ASSUME TypeOK, Armed,
           StartNothing \/ StartSuspended \/ StartDeleting \/ StartLive
    PROVE  Armed'
<1>1. th \in [Threads -> Thread] /\ R \in Threads /\ LogOK(log) /\ Cached \in Version
  BY LogEnds DEF TypeOK, Threads, R, LogOK, Cached
<1>2. Len(log) = 1 => Cached = Latest
  BY DEF Cached, Latest
<1>3. log' = log /\ Latest' = Latest
  BY DEF StartNothing, StartSuspended, StartDeleting, StartLive, Latest
<1>4. Len(log) \in Nat /\ Len(log) > 0
  BY <1>1 DEF LogOK
<1>5. ASSUME NEW v \in Version, NEW a \in Pcs, Hold(v, a) PROVE th'[R].pc = a
  BY <1>1, <1>5, HoldMoves DEF Hold
<1>6. setReady(Cached, "Suspended") \in Version /\ setReady(Cached, "InvalidSpec") \in Version
  <2>1. "" \in Causes /\ "Suspended" \in ReadyReasons /\ "InvalidSpec" \in ReadyReasons
    BY DEF Causes, ReadyReasons
  <2> QED BY <1>1, <2>1, SetConditionType
<1>7. CASE StartNothing
  <2>1. At(R, "idle") /\ th' = th /\ fresh' = fresh
    BY <1>7 DEF StartNothing, Start
  <2>2. th'[R].pc = "idle"
    BY <2>1 DEF At
  <2>3. Len(log) = 1 => Latest.life # "live"
    BY <1>2, <1>7 DEF StartNothing
  <2>4. Len(log) = 1 \/ Len(log) > 1
    BY <1>4
  <2>5. Latest'.life = "live" => Len(log') > 1
    BY <1>3, <2>3, <2>4
  <2> QED BY <2>2, <2>5 DEF Armed, QuietOnPurpose, WakeupArmed, At, R, Wanted
<1>8. CASE StartSuspended
  <2>1. th'[R].pc = "saveQuiet"
    BY <1>5, <1>6, <1>8 DEF StartSuspended, Pcs
  <2>2. fresh' => Latest'.spec.suspend
    BY <1>2, <1>3, <1>8 DEF StartSuspended
  <2> QED BY <2>1, <2>2 DEF Armed, QuietOnPurpose, WakeupArmed, At, R
<1>9. CASE StartDeleting
  <2>1. th'[R].pc = "finalize"
    BY <1>1, <1>5, <1>9 DEF StartDeleting, Pcs
  <2> QED BY <2>1, PassArmed
<1>10. CASE StartLive
  <2>1. CASE Cached.fin /\ ~Cached.spec.auth
    <3>1. th'[R].pc = "saveQuiet"
      BY <1>5, <1>6, <1>10, <2>1 DEF StartLive, Checked, Pcs
    <3>2. fresh' => ~Latest'.spec.auth
      BY <1>2, <1>3, <1>10, <2>1 DEF StartLive
    <3> QED BY <3>1, <3>2 DEF Armed, QuietOnPurpose, WakeupArmed, At, R
  <2>2. CASE ~(Cached.fin /\ ~Cached.spec.auth)
    <3>1. th'[R].pc \in {"lookup", "addFinalizer"}
      BY <1>1, <1>5, <1>10, <2>2 DEF StartLive, Checked, Pcs
    <3> QED BY <3>1, PassArmed
  <2> QED BY <2>1, <2>2
<1> QED BY <1>7, <1>8, <1>9, <1>10

\* Reconcile's writes: a pass that ends quietly has written an Instance that is
\* gone, suspended or without credentials.
LEMMA WriteArmed ==
    ASSUME TypeOK, Armed, NEW f \in [Nat -> Facts], Agreed(f, log, th, cache),
           Dated(f, secret, issued),
           Save \/ RemoveFinalizer \/ AddFinalizer
    PROVE  Armed'
<1>1. /\ th \in [Threads -> Thread] /\ R \in Threads /\ LogOK(log) /\ Latest \in Version
      /\ cache \subseteq Entry /\ faults \in 0 .. MaxFaults
      /\ secret \in Creds \cup {0} /\ issued \in Creds
      /\ ThreadAgrees(f, log, th[R])
  BY ConsistentParts DEF TypeOK
<1>2. ASSUME NEW v \in Version, NEW res, Write(v, res), res = "ok"
      PROVE  fresh /\ Latest'.life = v.life /\ Latest'.spec = v.spec
  BY <1>1, <1>2, AgreedWrite
<1>3. ASSUME NEW again, Return(again)
      PROVE  th'[R].pc = "idle" /\ timer' = (timer \/ again)
  BY <1>1, <1>3, IdleMoves DEF Return
<1>4. CASE Save
  <2>1. PICK res \in Results :
            /\ Write([Latest EXCEPT !.status = I.status], res)
            /\ Return(SaveRequeue(res))
    BY <1>4 DEF Save
  <2>2. CASE SaveRequeue(res)
    BY <1>3, <2>1, <2>2, PassArmed
  <2>3. CASE ~SaveRequeue(res)
    <3>1. res = "ok" /\ At(R, "saveQuiet")
      BY <1>4, <2>3 DEF SaveRequeue, Save
    <3>2. I \in Version
      BY <1>1, <3>1 DEF At, I, Inst, ThreadAgrees, VersionAgrees
    <3>3. /\ [Latest EXCEPT !.status = I.status] \in Version
          /\ [Latest EXCEPT !.status = I.status].spec = Latest.spec
      BY <1>1, <3>2 DEF Version
    <3>4. fresh /\ Latest'.spec = Latest.spec
      BY <1>2, <2>1, <3>1, <3>3
    <3>5. Latest'.spec.suspend \/ ~Latest'.spec.auth
      BY <3>1, <3>4 DEF Armed, QuietOnPurpose
    <3>6. th'[R].pc = "idle"
      BY <1>3, <2>1
    <3> QED BY <3>5, <3>6 DEF Armed, QuietOnPurpose, WakeupArmed, Wanted, At, R
  <2> QED BY <2>2, <2>3
<1>5. CASE RemoveFinalizer
  <2> DEFINE v == [Latest EXCEPT !.fin = FALSE, !.life = "gone"]
  <2>1. PICK res \in Results : Write(v, res) /\ Return(FinalizeRequeue(res))
    BY <1>5 DEF RemoveFinalizer
  <2>2. CASE res # "ok"
    BY <1>3, <2>1, <2>2, PassArmed DEF FinalizeRequeue
  <2>3. CASE res = "ok"
    <3>1. v \in Version /\ v.life = "gone"
      BY <1>1 DEF Version
    <3>2. Latest'.life = "gone" /\ th'[R].pc = "idle"
      BY <1>2, <1>3, <2>1, <2>3, <3>1
    <3> QED BY <3>2 DEF Armed, QuietOnPurpose, WakeupArmed, Wanted, At, R
  <2> QED BY <2>2, <2>3
<1>6. CASE AddFinalizer
  <2>1. PICK res \in Results :
            /\ Write([Latest EXCEPT !.fin = TRUE], res)
            /\ IF res = "ok" THEN Checked(Latest') /\ UNCHANGED <<fresh, timer>>
                             ELSE Return(TRUE)
    BY <1>6 DEF AddFinalizer
  <2>2. CASE res # "ok"
    BY <1>3, <2>1, <2>2, PassArmed
  <2>3. CASE res = "ok"
    <3>1. [Latest EXCEPT !.fin = TRUE] \in Version
      BY <1>1 DEF Version
    <3>2. LogOK(log')
      BY <1>1, <2>1, <3>1, AgreedWrite
    <3>3. Latest' \in Version
      BY <3>2, LogEnds DEF Latest
    <3>4. setReady(Latest', "InvalidSpec") \in Version
      <4>1. "" \in Causes /\ "InvalidSpec" \in ReadyReasons
        BY DEF Causes, ReadyReasons
      <4> QED BY <3>3, <4>1, SetConditionType
    <3>5. ASSUME NEW w \in Version, NEW a \in Pcs, Hold(w, a) PROVE th'[R].pc = a
      BY <1>1, <3>5, HoldMoves DEF Hold
    <3>6. th'[R].pc = "lookup" \/ (th'[R].pc = "saveQuiet" /\ ~Latest'.spec.auth)
      BY <2>1, <2>3, <3>3, <3>4, <3>5 DEF Checked, Pcs
    <3> QED BY <3>6 DEF Armed, QuietOnPurpose, WakeupArmed, At, R
  <2> QED BY <2>2, <2>3
<1> QED BY <1>4, <1>5, <1>6

\* Steps of others leave Reconcile where it is, and what they write arrives.
LEMMA OthersArmed ==
    ASSUME TypeOK, Armed, Environment \/ \E t \in Consumers : Consumer(t)
    PROVE  Armed'
<1>1. th \in [Threads -> Thread] /\ R \in Threads /\ LogOK(log)
  BY DEF TypeOK, Threads, R, LogOK
<1>2. CASE \E t \in Consumers : Consumer(t)
  <2>1. PICK t \in Consumers : Consumer(t)
    BY <1>2
  <2>2. t # R /\ t \in Threads
    BY InstanceAssumption DEF InstanceAssumption, R, Threads
  <2>3. th'[R] = th[R]
    BY <1>1, <2>1, <2>2
       DEF Consumer, Resolve, LookupHit, LookupMiss, Build, Set, Use, Step
  <2>4. UNCHANGED <<crVars, fresh>>
    BY <2>1 DEF Consumer, Resolve, LookupHit, LookupMiss, Build, Set, Use
  <2> QED BY <2>3, <2>4
          DEF Armed, QuietOnPurpose, WakeupArmed, Wanted, At, Latest, crVars
<1>3. CASE EditSpec \/ Delete \/ Recreate
  <2>1. PICK v : log' = Append(log, v) /\ fresh' = FALSE
    BY <1>3 DEF EditSpec, Delete, Recreate, UserWrites
  <2>2. Len(log') > 1
    BY <1>1, <2>1 DEF LogOK
  <2> QED BY <2>1, <2>2 DEF Armed, QuietOnPurpose, WakeupArmed
<1>4. CASE Deliver \/ Crash
  <2>1. queued' = TRUE /\ Latest' = Latest
    BY <1>1, <1>4, LogShrinks DEF Deliver, Crash, Latest
  <2>2. fresh' => fresh /\ th' = th
    BY <1>4 DEF Deliver, Crash
  <2> QED BY <2>1, <2>2 DEF Armed, QuietOnPurpose, WakeupArmed, At
<1>5. CASE TimerFires \/ RotateSecret \/ SecretDeleted \/ AtcIssues \/ AtcRevokes
  <2>1. UNCHANGED <<log, fresh, th>> /\ (UNCHANGED <<queued, timer>> \/ queued' = TRUE)
    BY <1>5 DEF TimerFires, RotateSecret, SecretDeleted, SecretChanges,
       AtcIssues, AtcRevokes, crVars
  <2> QED BY <2>1 DEF Armed, QuietOnPurpose, WakeupArmed, Wanted, At, Latest
<1> QED BY <1>2, <1>3, <1>4, <1>5 DEF Environment

\* A healthy, live Instance is always looked at again, whichever calls and writes
\* fail (every return of Reconcile).
THEOREM ProbeGoesOn == Spec => []WakeupArmed
<1>1. Init => Armed
  <2> SUFFICES ASSUME Init PROVE Armed
    OBVIOUS
  <2>1. queued = TRUE /\ fresh = FALSE
    BY DEF Init
  <2> QED BY <2>1 DEF Armed, QuietOnPurpose, WakeupArmed
<1>2. Consistent /\ Armed /\ [Next]_vars => Armed'
  <2> SUFFICES ASSUME Consistent, Armed, [Next]_vars PROVE Armed'
    OBVIOUS
  <2>1. TypeOK
    BY DEF Consistent
  <2>2. PICK f \in [Nat -> Facts] : Agreed(f, log, th, cache) /\ Dated(f, secret, issued)
    BY DEF Consistent, FactsFixed
  <2>3. th \in [Threads -> Thread] /\ R \in Threads
    BY <2>1 DEF TypeOK, Threads, R
  <2>4. CASE StartNothing \/ StartSuspended \/ StartDeleting \/ StartLive
    BY <2>1, <2>4, StartArmed
  <2>5. CASE RemoveFinalizer \/ Save \/ AddFinalizer
    BY <2>1, <2>2, <2>5, WriteArmed
  <2>6. CASE Asks
    BY <2>1, <2>2, <2>6, AsksMoves, PassArmed
  <2>7. CASE LookupHit(R) \/ LookupMiss(R) \/ Build(R) \/ Set(R)
    <3>1. th'[R].pc \in {"build", "set", "call"}
      BY <2>3, <2>7 DEF LookupHit, LookupMiss, Build, Set, Step, Thread
    <3> QED BY <3>1, PassArmed
  <2>8. CASE Environment \/ \E t \in Consumers : Consumer(t)
    BY <2>1, <2>8, OthersArmed
  <2>9. CASE UNCHANGED vars
    BY <2>9 DEF vars, crVars, Armed, QuietOnPurpose, WakeupArmed, Wanted, At, Latest
  <2> QED BY <2>4, <2>5, <2>6, <2>7, <2>8, <2>9 DEF Next, Reconcile, Asks
<1>3. Armed => WakeupArmed
  BY DEF Armed
<1> QED BY <1>1, <1>2, <1>3, AlwaysConsistent, PTL DEF Spec

=============================================================================
