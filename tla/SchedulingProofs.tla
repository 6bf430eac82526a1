--------------------------- MODULE SchedulingProofs ---------------------------
(***************************************************************************)
(* What the schedule workers preserve, for every number of workers,        *)
(* occurrences and manual triggers, every policy and every number of       *)
(* faults.  The invariants come in layers: types, then leases and attempts, *)
(* then the cursor; each layer uses the ones before it.                    *)
(***************************************************************************)
EXTENDS Scheduling, FiniteSetTheorems, TLAPS

Using == {"skipping", "start", "run", "free"}
Holding == Using \cup {"once", "settle"}
OnRun == Holding \cup {"skip", "claim"}
Paging == {"create", "advance"}
PCs == OnRun \cup Paging \cup {"idle", "cursor", "list", "look", "down"}

Leases == {"none", "live", "expired"}
RunStatus == {"none"} \cup OpenStatus \cup TerminalStatus
RunRecord == [at : Nat, status : RunStatus, attempts : Nat, lease : Leases]
TickRecord ==
  [pc : PCs, now : Nat, first : Nat, last : Nat, queue : SUBSET Keys, newest : SUBSET Keys,
   run : Keys \cup {NoKey}, token : Nat, ran : BOOLEAN]

WorkerTyped ==
  /\ worker \in [Workers -> TickRecord]
  /\ \A w \in Workers : worker[w].pc \in OnRun => worker[w].run \in Keys

TypedInv ==
  /\ schedule \in [status : ScheduleStatus, next : Nat, last : Nat]
  /\ current \subseteq Clients
  /\ runs \in [Keys -> RunRecord]
  /\ policy \in Policy
  /\ clock \in Nat
  /\ WorkerTyped
  /\ api \in {"creating", "driver", "idle"}
  /\ decided \in [Keys -> Nat]
  /\ stalled \in BOOLEAN

\* A lease goes with an active status, and only then; what does not exist was never tried.
LeaseShape ==
  \A r \in Keys : /\ runs[r].lease # "none" <=> runs[r].status \in ActiveStatus
                  /\ runs[r].status = "none" => runs[r].attempts = 0

\* A token is the number of an attempt that was made, and no two workers share one.
TokenInv ==
  /\ \A w \in Workers :
       IF worker[w].pc \in Holding
         THEN worker[w].token > 0 /\ worker[w].token <= runs[worker[w].run].attempts
         ELSE worker[w].token = 0
  /\ \A v, w \in Workers :
       v # w /\ worker[v].pc \in Holding /\ worker[w].pc \in Holding /\ worker[v].run = worker[w].run
         => worker[v].token # worker[w].token

\* Until a lease is lost, a worker that uses one owns it.
HonestInv == ~stalled => \A w \in Workers : worker[w].pc \in Using => Mine(w)

LeaseInv == LeaseShape /\ TokenInv /\ HonestInv /\ DecidedByNewest

\* How far a tick and the cursor can have come.
RangeInv ==
  /\ clock <= Horizon /\ (Once => clock <= 1)
  /\ schedule.next <= Horizon + 1 /\ schedule.last <= Horizon
  /\ (Once => schedule.next <= 1)
  /\ \A w \in Workers :
       LET t == worker[w]
       IN  /\ t.now <= clock
           /\ t.pc = "create" => 0 < t.first /\ t.first <= t.last /\ t.last <= t.now
           /\ t.pc = "advance" => 0 < t.last /\ t.first = t.last + 1 /\ t.last <= t.now
           /\ t.pc \notin Paging => t.first = 0 /\ t.last = 0

\* Every occurrence behind the cursor, or behind a worker's page, has its run.
BehindInv ==
  ~Latest =>
    \A o \in Occurrences :
      /\ o <= schedule.last \/ o < schedule.next => Known(o)
      /\ \A w \in Workers : worker[w].pc \in Paging /\ o < worker[w].first => Known(o)

\* What a client that knows the present revision knows about the cursor.
CursorInv ==
  /\ schedule.last <= IF schedule.next = 0 THEN 1 ELSE schedule.next
  /\ api = "creating" /\ Api \in current => schedule.next = 0
  /\ \A w \in Workers :
       w \in current => /\ At(w, "cursor") => schedule.next = 0
                        /\ worker[w].pc \in Paging => schedule.last <= worker[w].last

PageInv == RangeInv /\ BehindInv /\ CursorInv

-----------------------------------------------------------------------------
(* Types                                                                   *)

LEMMA OccurrenceKeys == Occurrences \subseteq Nat /\ Occurrences \subseteq Keys
BY StoreAssumption DEF Occurrences, Keys

LEMMA LastDueNat ==
  ASSUME TypedInv, NEW next \in Nat, NEW now \in Nat, IsDue(next, now)
  PROVE  /\ LastDue(next, now) \in Nat
         /\ next <= LastDue(next, now) /\ LastDue(next, now) <= now
<1>1. policy.page \in Nat /\ policy.page > 0
  BY DEF TypedInv, Policy
<1> DEFINE page == policy.page
<1>2. page \in Nat /\ page > 0
  BY <1>1
<1> HIDE DEF page
<1>3. next <= now
  BY DEF IsDue
<1> QED
  BY <1>2, <1>3 DEF LastDue, page

LEMMA FromTyped ==
  ASSUME TypedInv, NEW t \in TickRecord, NEW next \in Nat
  PROVE  /\ From(t, next) \in TickRecord
         /\ From(t, next).pc \in {"list", "create"}
         /\ From(t, next).run = t.run /\ From(t, next).token = t.token /\ From(t, next).now = t.now
<1>1. t.now \in Nat
  BY DEF TickRecord
<1>2. CASE ~IsDue(next, t.now)
  BY <1>2 DEF From, TickRecord, PCs
<1>3. CASE IsDue(next, t.now) /\ Jumps(next, t.now)
  BY <1>1, <1>3 DEF From, TickRecord, PCs, Paging
<1>4. CASE IsDue(next, t.now) /\ ~Jumps(next, t.now)
  <2>1. LastDue(next, t.now) \in Nat
    BY <1>1, <1>4, LastDueNat
  <2>2. From(t, next) = [t EXCEPT !.pc = "create", !.first = next, !.last = LastDue(next, t.now)]
    BY <1>4 DEF From
  <2> QED
    BY <2>1, <2>2 DEF TickRecord, PCs, Paging
<1> QED
  BY <1>2, <1>3, <1>4

LEMMA TypedInit == Init => TypedInv
<1> SUFFICES ASSUME Init PROVE TypedInv
  OBVIOUS
<1>1. runs \in [Keys -> RunRecord]
  BY DEF Init, StoreInit, NoRunYet, RunRecord, RunStatus, Leases
<1>2. Idle \in TickRecord /\ Idle.pc = "idle"
  BY DEF Idle, TickRecord, PCs
<1>3. worker \in [Workers -> TickRecord] /\ \A w \in Workers : worker[w].pc \notin OnRun
  BY <1>2 DEF Init, OnRun, Holding, Using
<1>4. policy \in Policy
  BY SchedulingAssumption DEF Init
<1> QED
  BY <1>1, <1>3, <1>4 DEF Init, StoreInit, TypedInv, WorkerTyped, ScheduleStatus, Clients

-----------------------------------------------------------------------------
(* A step of a worker keeps its tick well typed, whatever it does to it     *)

LEMMA UpdatesTyped ==
  ASSUME WorkerTyped, NEW w \in Workers, NEW t \in TickRecord, t.pc \in OnRun => t.run \in Keys, Updates(w, t)
  PROVE  WorkerTyped'
BY DEF WorkerTyped, Updates

LEMMA IdleTyped == Idle \in TickRecord /\ Idle.pc = "idle" /\ Idle.pc \notin OnRun
BY DEF Idle, TickRecord, PCs, OnRun, Holding, Using

LEMMA ContinueTyped ==
  ASSUME WorkerTyped, NEW w \in Workers, NEW t \in TickRecord, Continue(w, t)
  PROVE  WorkerTyped'
<1> DEFINE u == [t EXCEPT !.pc = "look", !.run = NoKey, !.token = 0]
<1>1. u \in TickRecord /\ u.pc \notin OnRun
  BY DEF TickRecord, PCs, OnRun, Holding, Using
<1>2. CASE t.queue = {}
  BY <1>2, IdleTyped, UpdatesTyped DEF Continue
<1>3. CASE t.queue # {}
  <2>1. Updates(w, u)
    BY <1>3 DEF Continue
  <2> HIDE DEF u
  <2> QED
    BY <1>1, <2>1, UpdatesTyped
<1> QED
  BY <1>2, <1>3

LEMMA GoesTyped ==
  ASSUME WorkerTyped, NEW w \in Workers, NEW pc \in PCs, pc \in OnRun => worker[w].run \in Keys, Goes(w, pc)
  PROVE  WorkerTyped'
BY DEF WorkerTyped, Goes, TickRecord

LEMMA MaterializedTyped ==
  ASSUME WorkerTyped, NEW w \in Workers, Materialized(w)
  PROVE  WorkerTyped'
<1> DEFINE t == [worker[w] EXCEPT !.pc = "list", !.first = 0, !.last = 0]
<1>1. t \in TickRecord /\ t.pc \notin OnRun
  BY DEF WorkerTyped, TickRecord, PCs, OnRun, Holding, Using
<1>2. Updates(w, t)
  BY DEF Materialized
<1> HIDE DEF t
<1> QED
  BY <1>1, <1>2, UpdatesTyped

LEMMA NextRunTyped ==
  ASSUME WorkerTyped, NEW w \in Workers, NextRun(w)
  PROVE  WorkerTyped'
BY ContinueTyped DEF WorkerTyped, NextRun

LEMMA GivesUpTyped ==
  ASSUME WorkerTyped, NEW w \in Workers, worker[w].pc \in OnRun, GivesUp(w)
  PROVE  WorkerTyped'
<1>1. worker[w].run \in Keys /\ "free" \in PCs
  BY DEF WorkerTyped, PCs, OnRun, Holding, Using
<1> QED
  BY <1>1, GoesTyped, NextRunTyped DEF GivesUp

\* What the store's writes keep, whoever makes them.
StoreTyped ==
  /\ schedule \in [status : ScheduleStatus, next : Nat, last : Nat]
  /\ current \subseteq Clients
  /\ runs \in [Keys -> RunRecord]
  /\ decided \in [Keys -> Nat]

LEMMA WritesTyped ==
  ASSUME StoreTyped, NEW d \in Clients, NEW s \in [status : ScheduleStatus, next : Nat, last : Nat],
         Write(d, s) \/ CompareAndSet(d, s)
  PROVE  /\ schedule' \in [status : ScheduleStatus, next : Nat, last : Nat]
         /\ current' \subseteq Clients
BY DEF StoreTyped, Write, CompareAndSet

LEMMA RunsTyped ==
  ASSUME StoreTyped, NEW r \in Keys, NEW at \in Nat, NEW status \in TerminalStatus,
         \/ CreateRun(r, at) \/ ClaimRun(r) \/ StartRun(r) \/ ReleaseRun(r) \/ CompleteRun(r, status) \/ Expires(r)
  PROVE  runs' \in [Keys -> RunRecord]
<1>1. runs[r] \in RunRecord /\ NoRunYet \in RunRecord
  BY DEF StoreTyped, RunRecord, NoRunYet, RunStatus, Leases
<1>2. CASE CreateRun(r, at)
  <2>1. [NoRunYet EXCEPT !.at = at, !.status = "pending"] \in RunRecord
    BY <1>1 DEF RunRecord, RunStatus, OpenStatus
  <2> QED
    BY <1>2, <2>1 DEF CreateRun, StoreTyped
<1>3. CASE ClaimRun(r)
  BY <1>1, <1>3 DEF ClaimRun, StoreTyped, RunRecord, RunStatus, OpenStatus, ActiveStatus, Leases
<1>4. CASE StartRun(r)
  BY <1>1, <1>4 DEF StartRun, StoreTyped, RunRecord, RunStatus, OpenStatus, ActiveStatus
<1>5. CASE ReleaseRun(r)
  BY <1>1, <1>5 DEF ReleaseRun, StoreTyped, RunRecord, RunStatus, OpenStatus, Leases
<1>6. CASE CompleteRun(r, status)
  BY <1>1, <1>6 DEF CompleteRun, StoreTyped, RunRecord, RunStatus, Leases
<1>7. CASE Expires(r)
  BY <1>1, <1>7 DEF Expires, StoreTyped, RunRecord, Leases
<1> QED
  BY <1>2, <1>3, <1>4, <1>5, <1>6, <1>7

LEMMA TypedStep == TypedInv /\ [Next]_vars => TypedInv'
<1> SUFFICES ASSUME TypedInv, [Next]_vars PROVE TypedInv'
  OBVIOUS
<1>s. StoreTyped /\ WorkerTyped
  BY DEF TypedInv, StoreTyped
<1>q. SUFFICES /\ StoreTyped' /\ WorkerTyped'
               /\ policy' \in Policy /\ clock' \in Nat
               /\ api' \in {"creating", "driver", "idle"} /\ stalled' \in BOOLEAN
  BY DEF TypedInv, StoreTyped
<1> USE DEF beside
<1>o. ASSUME UNCHANGED <<policy, clock, api, stalled>>
      PROVE  policy' \in Policy /\ clock' \in Nat /\ api' \in {"creating", "driver", "idle"} /\ stalled' \in BOOLEAN
  BY <1>o DEF TypedInv
<1>w. ASSUME NEW w \in Workers, Step(w) \/ HandlerThrows(w) \/ Crash(w)
      PROVE  StoreTyped' /\ WorkerTyped' /\ UNCHANGED <<policy, clock, api, stalled>>
  <2> DEFINE t == worker[w]
  <2>t. t \in TickRecord /\ (t.pc \in OnRun => t.run \in Keys)
    BY <1>s DEF WorkerTyped
  <2>f. t.now \in Nat /\ t.first \in Nat /\ t.last \in Nat /\ t.token \in Nat
    BY <2>t DEF TickRecord
  <2>d. w \in Clients
    BY DEF Clients
  <2>s. schedule.next \in Nat /\ schedule.last \in Nat /\ schedule.status \in ScheduleStatus
    BY <1>s DEF StoreTyped
  <2>1. CASE Tick(w)
    <3>1. [Idle EXCEPT !.now = clock] \in TickRecord
      BY IdleTyped DEF TypedInv, TickRecord
    <3> DEFINE n == [Idle EXCEPT !.now = clock]
    <3>2. n.run = NoKey /\ [n EXCEPT !.pc = "list"] \in TickRecord /\ [n EXCEPT !.pc = "cursor"] \in TickRecord
          /\ [n EXCEPT !.pc = "list"].pc \notin OnRun /\ [n EXCEPT !.pc = "cursor"].pc \notin OnRun
      BY <3>1 DEF TickRecord, PCs, OnRun, Holding, Using, Idle
    <3>3. From(n, schedule.next) \in TickRecord /\ From(n, schedule.next).pc \notin OnRun
      BY <3>1, <2>s, FromTyped DEF OnRun, Holding, Using
    <3> HIDE DEF n
    <3>4. \/ Updates(w, [n EXCEPT !.pc = "list"]) \/ Updates(w, [n EXCEPT !.pc = "cursor"])
          \/ Updates(w, From(n, schedule.next))
      BY <2>1 DEF Tick, n
    <3>5. WorkerTyped'
      BY <1>s, <3>2, <3>3, <3>4, UpdatesTyped
    <3> QED
      BY <1>s, <2>1, <2>d, <3>5 DEF Tick, StoreTyped, Reads
  <2>2. CASE SetCursor(w)
    <3>1. CASE w \in current
      <4>1. [schedule EXCEPT !.next = 1] \in [status : ScheduleStatus, next : Nat, last : Nat]
        BY <1>s DEF StoreTyped
      <4>2. From(t, 1) \in TickRecord /\ From(t, 1).pc \notin OnRun
        BY <2>t, FromTyped DEF OnRun, Holding, Using
      <4>3. WorkerTyped'
        BY <1>s, <2>2, <3>1, <4>2, UpdatesTyped DEF SetCursor
      <4> QED
        BY <1>s, <2>2, <2>d, <3>1, <4>1, <4>3, WritesTyped DEF SetCursor, StoreTyped
    <3>2. CASE w \notin current
      BY <1>s, <2>2, <3>2, MaterializedTyped DEF SetCursor, StoreTyped
    <3> QED
      BY <3>1, <3>2
  <2>3. CASE Create(w)
    <3>1. CASE MayCreate(t.first)
      <4> DEFINE u == [t EXCEPT !.first = t.first + 1, !.pc = IF t.first = t.last THEN "advance" ELSE "create"]
      <4>1. u \in TickRecord /\ u.pc \notin OnRun
        <5>1. t.first + 1 \in Nat /\ "advance" \in PCs \ OnRun /\ "create" \in PCs \ OnRun
          BY <2>f DEF PCs, Paging, OnRun, Holding, Using
        <5>2. [t EXCEPT !.first = t.first + 1, !.pc = "advance"] \in TickRecord
              /\ [t EXCEPT !.first = t.first + 1, !.pc = "create"] \in TickRecord
          BY <2>t, <5>1 DEF TickRecord
        <5> QED
          BY <5>1, <5>2, <2>t DEF TickRecord
      <4>2. Updates(w, u) /\ CreateRun(t.first, OccurrenceTime(t.first))
        BY <2>3, <3>1 DEF Create
      <4>3. runs' \in [Keys -> RunRecord]
        <5>1. OccurrenceTime(t.first) \in Nat
          BY <2>f DEF OccurrenceTime
        <5>2. [NoRunYet EXCEPT !.at = OccurrenceTime(t.first), !.status = "pending"] \in RunRecord
          BY <5>1 DEF NoRunYet, RunRecord, RunStatus, OpenStatus, Leases
        <5> QED
          BY <1>s, <4>2, <5>2 DEF CreateRun, StoreTyped
      <4> HIDE DEF u
      <4>4. WorkerTyped'
        BY <1>s, <4>1, <4>2, UpdatesTyped
      <4> QED
        BY <1>s, <2>3, <3>1, <4>3, <4>4 DEF Create, StoreTyped
    <3>2. CASE ~MayCreate(t.first)
      BY <1>s, <2>3, <3>2, MaterializedTyped DEF Create, StoreTyped, Forgets
    <3> QED
      BY <3>1, <3>2
  <2>4. CASE AdvanceCursor(w)
    <3>1. [schedule EXCEPT !.last = t.last, !.next = Following(t.last)] \in [status : ScheduleStatus, next : Nat, last : Nat]
      <4>1. Following(t.last) \in Nat
        BY <2>f DEF Following
      <4> QED
        BY <1>s, <2>f, <4>1 DEF StoreTyped
    <3> QED
      BY <1>s, <2>4, <2>d, <3>1, MaterializedTyped, WritesTyped DEF AdvanceCursor, StoreTyped
  <2>5. CASE List(w)
    <3>1. [t EXCEPT !.queue = {r \in Keys : runs[r].status \in OpenStatus /\ ~Leased(r)}] \in TickRecord
      BY <2>t DEF TickRecord
    <3> QED
      BY <1>s, <2>5, <3>1, ContinueTyped DEF List, StoreTyped, storeVars
  <2>6. CASE Look(w)
    <3>1. PICK r \in t.queue :
            LET a == [t EXCEPT !.queue = @ \ {r}]
                seen == [a EXCEPT !.newest = IF Latest THEN Newest(w) ELSE {}]
            IN  \/ Continue(w, a) \/ Continue(w, seen)
                \/ Updates(w, [seen EXCEPT !.pc = "skip", !.run = r])
                \/ Updates(w, [seen EXCEPT !.pc = "claim", !.run = r])
      BY <2>6 DEF Look
    <3> DEFINE a == [t EXCEPT !.queue = @ \ {r}]
               seen == [a EXCEPT !.newest = IF Latest THEN Newest(w) ELSE {}]
    <3>2. Newest(w) \subseteq Keys
      BY <2>t DEF Newest, TickRecord
    <3>3. r \in Keys /\ a \in TickRecord
      BY <2>t DEF TickRecord
    <3>4. seen \in TickRecord
      BY <3>2, <3>3 DEF TickRecord
    <3>5. Continue(w, a) \/ Continue(w, seen)
          \/ Updates(w, [seen EXCEPT !.pc = "skip", !.run = r])
          \/ Updates(w, [seen EXCEPT !.pc = "claim", !.run = r])
      BY <3>1
    <3> HIDE DEF a, seen
    <3>6. /\ [seen EXCEPT !.pc = "skip", !.run = r] \in TickRecord
          /\ [seen EXCEPT !.pc = "claim", !.run = r] \in TickRecord
          /\ [seen EXCEPT !.pc = "skip", !.run = r].run \in Keys
          /\ [seen EXCEPT !.pc = "claim", !.run = r].run \in Keys
      BY <3>3, <3>4 DEF TickRecord, PCs, OnRun
    <3>7. WorkerTyped'
      BY <1>s, <3>3, <3>4, <3>5, <3>6, ContinueTyped, UpdatesTyped
    <3> QED
      BY <1>s, <2>6, <3>7 DEF Look, StoreTyped, storeVars
  <2>7. CASE Claim(w)
    <3>1. t.pc \in OnRun /\ t.run \in Keys
      BY <2>7, <2>t DEF Claim, OnRun
    <3>2. CASE CanClaim(t.run)
      <4> DEFINE u == [t EXCEPT !.token = runs[t.run].attempts + 1, !.pc = IF @ = "skip" THEN "skipping" ELSE "start"]
      <4>1. runs[t.run].attempts \in Nat
        BY <1>s, <3>1 DEF StoreTyped, RunRecord
      <4>2. u \in TickRecord /\ u.run \in Keys
        <5>1. "skipping" \in PCs /\ "start" \in PCs /\ runs[t.run].attempts + 1 \in Nat
          BY <4>1 DEF PCs, OnRun, Holding, Using
        <5> HIDE DEF t
        <5>2. [t EXCEPT !.token = runs[t.run].attempts + 1, !.pc = "skipping"] \in TickRecord
          BY <2>t, <5>1 DEF TickRecord
        <5>3. [t EXCEPT !.token = runs[t.run].attempts + 1, !.pc = "start"] \in TickRecord
          BY <2>t, <5>1 DEF TickRecord
        <5>4. u \in TickRecord
          BY <5>2, <5>3 DEF t
        <5>5. u.run = t.run
          BY <2>t DEF TickRecord
        <5> QED
          BY <3>1, <5>4, <5>5
      <4>3. Updates(w, u) /\ ClaimRun(t.run)
        BY <1>s, <2>7, <2>t, <3>2 DEF Claim, Run, Updates, WorkerTyped, TickRecord
      <4> HIDE DEF u
      <4>4. runs' \in [Keys -> RunRecord] /\ WorkerTyped'
        BY <1>s, <3>1, <4>2, <4>3, UpdatesTyped, RunsTyped DEF TerminalStatus
      <4> QED
        BY <1>s, <2>7, <4>4 DEF Claim, StoreTyped
    <3>3. CASE ~CanClaim(t.run)
      BY <1>s, <2>7, <3>3, NextRunTyped DEF Claim, Run, StoreTyped
    <3> QED
      BY <3>2, <3>3
  <2>8. CASE ClaimTooLate(w) \/ Restart(w)
    BY <1>s, <2>8, IdleTyped, UpdatesTyped DEF ClaimTooLate, TickEnds, Restart, Updates, StoreTyped, storeVars
  <2>e. ASSUME NEW status \in TerminalStatus, t.pc \in OnRun, Terminates(w, status),
               UNCHANGED <<schedule, current>>
        PROVE  StoreTyped' /\ WorkerTyped'
    <3>1. runs' \in [Keys -> RunRecord] /\ decided' \in [Keys -> Nat]
      BY <1>s, <2>t, <2>f, <2>e, RunsTyped DEF Terminates, Run, StoreTyped
    <3>2. "once" \in PCs /\ t.run \in Keys
      BY <2>t, <2>e DEF PCs, OnRun, Holding
    <3>3. WorkerTyped'
      BY <1>s, <2>e, <3>2, GoesTyped, NextRunTyped DEF Terminates
    <3> QED
      BY <1>s, <2>e, <3>1, <3>3 DEF StoreTyped
  <2>9. CASE Skip(w)
    <3>1. t.pc \in OnRun
      BY <2>9 DEF Skip, At, OnRun, Holding, Using
    <3>2. CASE Mine(w) /\ Completable(Run(w), "skipped")
      BY <2>9, <2>e, <3>1, <3>2 DEF Skip, TerminalStatus
    <3>3. CASE ~(Mine(w) /\ Completable(Run(w), "skipped"))
      BY <1>s, <2>9, <3>3, IdleTyped, UpdatesTyped DEF Skip, TickEnds, StoreTyped
    <3> QED
      BY <2>9, <3>2, <3>3 DEF Skip
  <2>10. CASE Start(w)
    <3>1. t.pc \in OnRun /\ t.run \in Keys
      BY <2>10, <2>t DEF Start, At, OnRun, Holding, Using
    <3>2. CASE Mine(w) /\ schedule.status = "active"
      <4> DEFINE u == [t EXCEPT !.pc = "run", !.ran = TRUE]
      <4>1. u \in TickRecord /\ u.run \in Keys
        BY <2>t, <3>1 DEF TickRecord, PCs, OnRun, Holding, Using
      <4>2. Updates(w, u) /\ StartRun(t.run)
        BY <1>s, <2>10, <2>t, <3>2 DEF Start, Run, Updates, WorkerTyped, TickRecord
      <4> HIDE DEF u
      <4>3. runs' \in [Keys -> RunRecord] /\ WorkerTyped'
        BY <1>s, <3>1, <4>1, <4>2, UpdatesTyped, RunsTyped DEF TerminalStatus
      <4> QED
        BY <1>s, <2>10, <4>3 DEF Start, StoreTyped
    <3>3. CASE ~(Mine(w) /\ schedule.status = "active")
      BY <1>s, <2>10, <3>1, <3>3, GivesUpTyped DEF Start, StoreTyped
    <3> QED
      BY <3>2, <3>3
  <2>11. CASE Finish(w)
    <3>1. t.pc \in OnRun
      BY <2>11 DEF Finish, At, OnRun, Holding, Using
    <3>2. PICK status \in Results :
            \/ Terminates(w, status)
            \/ GivesUp(w) /\ UNCHANGED <<runs, decided>>
      BY <2>11 DEF Finish
    <3>3. status \in TerminalStatus
      BY SchedulingAssumption
    <3> QED
      BY <1>s, <2>11, <2>e, <3>1, <3>2, <3>3, GivesUpTyped DEF Finish, StoreTyped
  <2>12. CASE Release(w)
    <3>1. t.run \in Keys
      BY <2>12, <2>t DEF Release, At, OnRun, Holding, Using
    <3>2. runs' \in [Keys -> RunRecord]
      BY <1>s, <2>12, <3>1, RunsTyped DEF Release, Run, StoreTyped, TerminalStatus
    <3> QED
      BY <1>s, <2>12, <3>2, NextRunTyped DEF Release, StoreTyped
  <2>13. CASE ReadOnce(w)
    <3>1. "settle" \in PCs /\ t.run \in Keys
      BY <2>13, <2>t DEF ReadOnce, At, PCs, OnRun, Holding, Using
    <3> QED
      BY <1>s, <2>13, <2>d, <3>1, GoesTyped, NextRunTyped DEF ReadOnce, StoreTyped, Reads
  <2>14. CASE SettleOnce(w)
    <3>1. [schedule EXCEPT !.status = "completed"] \in [status : ScheduleStatus, next : Nat, last : Nat]
      BY <1>s DEF StoreTyped, ScheduleStatus
    <3> QED
      BY <1>s, <2>14, <2>d, <3>1, NextRunTyped, WritesTyped DEF SettleOnce, StoreTyped
  <2>15. CASE HandlerThrows(w)
    BY <1>s, <2>15, GivesUpTyped DEF HandlerThrows, StoreTyped, storeVars, At, OnRun, Holding, Using
  <2>16. CASE Crash(w)
    <3>1. [Idle EXCEPT !.pc = "down"] \in TickRecord /\ [Idle EXCEPT !.pc = "down"].pc \notin OnRun
      BY IdleTyped DEF TickRecord, PCs, OnRun, Holding, Using
    <3> QED
      BY <1>s, <2>16, <3>1, UpdatesTyped DEF Crash, StoreTyped, Forgets
  <2> QED
    BY <1>w, <2>1, <2>2, <2>3, <2>4, <2>5, <2>6, <2>7, <2>8, <2>9, <2>10, <2>11, <2>12, <2>13, <2>14, <2>15, <2>16
       DEF Step
<1>r. ASSUME NEW r \in Keys, LeaseEnds(r) \/ Stall(r)
      PROVE  StoreTyped' /\ WorkerTyped' /\ UNCHANGED <<policy, clock, api>> /\ stalled' \in BOOLEAN
  <2>1. runs' \in [Keys -> RunRecord]
    BY <1>s, <1>r, RunsTyped DEF LeaseEnds, Stall, TerminalStatus
  <2> QED
    BY <1>s, <1>r, <2>1 DEF LeaseEnds, Stall, StoreTyped, WorkerTyped, TypedInv
<1>d. CASE Due
  BY <1>s, <1>d DEF Due, StoreTyped, WorkerTyped, storeVars, TypedInv
<1>a. CASE SetFirst \/ RegisterDriver \/ \E s \in {"active", "paused", "deleted"} : ChangeStatus(s)
  <2>1. Api \in Clients /\ schedule \in [status : ScheduleStatus, next : Nat, last : Nat]
    BY <1>s DEF Clients, StoreTyped
  <2>2. CASE SetFirst
    <3>1. [schedule EXCEPT !.next = 1] \in [status : ScheduleStatus, next : Nat, last : Nat]
      BY <2>1
    <3> QED
      BY <1>s, <2>1, <2>2, <3>1, WritesTyped DEF SetFirst, StoreTyped, WorkerTyped, TypedInv
  <2>3. CASE RegisterDriver
    BY <1>s, <2>1, <2>3, WritesTyped DEF RegisterDriver, StoreTyped, WorkerTyped, TypedInv
  <2>4. ASSUME NEW s \in {"active", "paused", "deleted"}, ChangeStatus(s)
        PROVE  /\ StoreTyped' /\ WorkerTyped'
               /\ policy' \in Policy /\ clock' \in Nat
               /\ api' \in {"creating", "driver", "idle"} /\ stalled' \in BOOLEAN
    <3>1. [schedule EXCEPT !.status = s] \in [status : ScheduleStatus, next : Nat, last : Nat]
      BY <2>1 DEF ScheduleStatus
    <3> QED
      BY <1>s, <2>1, <2>4, <3>1, WritesTyped DEF ChangeStatus, StoreTyped, WorkerTyped, TypedInv
  <2> QED
    BY <1>a, <2>2, <2>3, <2>4
<1>t. ASSUME NEW r \in Triggers, Trigger(r)
      PROVE  StoreTyped' /\ WorkerTyped' /\ UNCHANGED <<policy, clock, api, stalled>>
  <2>1. r \in Keys /\ TriggerTime \in Nat
    BY DEF Keys, TriggerTime, TypedInv
  <2>2. runs' \in [Keys -> RunRecord]
    BY <1>s, <1>t, <2>1, RunsTyped DEF Trigger, TerminalStatus
  <2> QED
    BY <1>s, <1>t, <2>2 DEF Trigger, StoreTyped, WorkerTyped
<1>u. CASE UNCHANGED vars
  BY <1>s, <1>u DEF vars, storeVars, StoreTyped, WorkerTyped, TypedInv
<1> QED
  BY <1>o, <1>w, <1>r, <1>d, <1>a, <1>t, <1>u DEF Next, TypedInv

LEMMA Typed == Spec => []TypedInv
BY TypedInit, TypedStep, PTL DEF Spec

-----------------------------------------------------------------------------
(* What a worker's step can do to runs, attempts and its own hold on a run   *)

Lets(w) == worker'[w].pc \notin Holding /\ worker'[w].token = 0
Keeps(w) ==
  /\ worker[w].pc \in Holding /\ worker'[w].pc \in Holding
  /\ worker'[w].run = Run(w) /\ worker'[w].token = worker[w].token

Touches(w) ==
  /\ \/ Lets(w)
     \/ Keeps(w) /\ (worker'[w].pc \in Using => Mine(w))
  /\ UNCHANGED <<runs, decided>>

Creates(w) ==
  /\ Lets(w) /\ UNCHANGED decided
  /\ \E r, at \in Nat : CreateRun(r, at)

Claims(w) ==
  /\ worker[w].pc \notin Holding /\ Run(w) \in Keys
  /\ CanClaim(Run(w)) /\ ClaimRun(Run(w)) /\ UNCHANGED decided
  /\ worker'[w].pc \in Using /\ worker'[w].run = Run(w) /\ worker'[w].token = runs[Run(w)].attempts + 1

Starts(w) ==
  /\ worker[w].pc \in Using /\ Mine(w) /\ StartRun(Run(w)) /\ UNCHANGED decided
  /\ Keeps(w) /\ worker'[w].pc \in Using

Ends(w) ==
  /\ worker[w].pc \in Using /\ Mine(w)
  /\ \E status \in TerminalStatus : CompleteRun(Run(w), status)
  /\ decided' = [decided EXCEPT ![Run(w)] = worker[w].token]
  /\ Lets(w) \/ (Keeps(w) /\ worker'[w].pc \notin Using)

Releases(w) ==
  /\ worker[w].pc \in Using /\ Mine(w) /\ ReleaseRun(Run(w)) /\ UNCHANGED decided
  /\ Lets(w)

Kind(w) == Touches(w) \/ Creates(w) \/ Claims(w) \/ Starts(w) \/ Ends(w) \/ Releases(w)
Alone(w) == \A v \in Workers \ {w} : worker'[v] = worker[v]

LEMMA UpdatesAlone ==
  ASSUME WorkerTyped, NEW w \in Workers, NEW t, Updates(w, t)
  PROVE  Alone(w) /\ worker'[w] = t
BY DEF Alone, Updates, WorkerTyped

LEMMA ContinueLets ==
  ASSUME WorkerTyped, NEW w \in Workers, NEW t \in TickRecord, Continue(w, t)
  PROVE  Alone(w) /\ Lets(w)
<1>1. CASE t.queue = {}
  BY <1>1, UpdatesAlone DEF Continue, Lets, Idle, Holding, Using
<1>2. CASE t.queue # {}
  <2> DEFINE u == [t EXCEPT !.pc = "look", !.run = NoKey, !.token = 0]
  <2>1. u.pc = "look" /\ u.token = 0
    BY DEF TickRecord
  <2>2. Updates(w, u)
    BY <1>2 DEF Continue
  <2> HIDE DEF u
  <2> QED
    BY <2>1, <2>2, UpdatesAlone DEF Lets, Holding, Using
<1> QED
  BY <1>1, <1>2

LEMMA NextRunLets ==
  ASSUME WorkerTyped, NEW w \in Workers, NextRun(w)
  PROVE  Alone(w) /\ Lets(w)
BY ContinueLets DEF WorkerTyped, NextRun

LEMMA MaterializedLets ==
  ASSUME WorkerTyped, NEW w \in Workers, worker[w].token = 0, Materialized(w)
  PROVE  Alone(w) /\ Lets(w)
<1> DEFINE t == [worker[w] EXCEPT !.pc = "list", !.first = 0, !.last = 0]
<1>1. t.pc = "list" /\ t.token = 0
  BY DEF WorkerTyped, TickRecord
<1>2. Updates(w, t)
  BY DEF Materialized
<1> HIDE DEF t
<1> QED
  BY <1>1, <1>2, UpdatesAlone DEF Lets, Holding, Using

LEMMA GoesKeeps ==
  ASSUME WorkerTyped, NEW w \in Workers, worker[w].pc \in Holding, NEW pc \in Holding, Goes(w, pc)
  PROVE  Alone(w) /\ Keeps(w) /\ worker'[w].pc = pc
BY DEF WorkerTyped, Goes, Alone, Keeps, Run, TickRecord

LEMMA GivesUpTouches ==
  ASSUME WorkerTyped, NEW w \in Workers, worker[w].pc \in Using, GivesUp(w), UNCHANGED <<runs, decided>>
  PROVE  Alone(w) /\ Touches(w)
<1>1. worker[w].pc \in Holding /\ "free" \in Holding /\ "free" \in Using
  BY DEF Holding, Using
<1> QED
  BY <1>1, GoesKeeps, NextRunLets DEF GivesUp, Touches

LEMMA TerminatesEnds ==
  ASSUME WorkerTyped, NEW w \in Workers, worker[w].pc \in Using, Mine(w),
         NEW status \in TerminalStatus, Terminates(w, status)
  PROVE  Alone(w) /\ Ends(w)
<1>1. worker[w].pc \in Holding /\ "once" \in Holding /\ "once" \notin Using
  BY DEF Holding, Using
<1> QED
  BY <1>1, GoesKeeps, NextRunLets DEF Terminates, Ends

LEMMA WorkerStep ==
  ASSUME TypedInv, TokenInv, NEW w \in Workers, Step(w) \/ HandlerThrows(w) \/ Crash(w)
  PROVE  Alone(w) /\ Kind(w)
<1> DEFINE t == worker[w]
<1>s. WorkerTyped /\ t \in TickRecord
  BY DEF TypedInv, WorkerTyped
<1>k. t.pc \in Holding \/ t.token = 0
  BY DEF TokenInv
<1>f. t.now \in Nat /\ t.first \in Nat /\ t.last \in Nat /\ schedule.next \in Nat
  BY <1>s DEF TickRecord, TypedInv
<1> USE DEF storeVars, beside
<1>1. CASE Tick(w)
  <2> DEFINE n == [Idle EXCEPT !.now = clock]
  <2>1. n \in TickRecord /\ n.token = 0
    BY IdleTyped DEF TypedInv, TickRecord, Idle
  <2>2. [n EXCEPT !.pc = "list"].token = 0 /\ [n EXCEPT !.pc = "cursor"].token = 0
        /\ [n EXCEPT !.pc = "list"].pc = "list" /\ [n EXCEPT !.pc = "cursor"].pc = "cursor"
    BY <2>1 DEF TickRecord
  <2>3. From(n, schedule.next).token = 0 /\ From(n, schedule.next).pc \in {"list", "create"}
    BY <1>f, <2>1, FromTyped
  <2> HIDE DEF n
  <2>4. \/ Updates(w, [n EXCEPT !.pc = "list"]) \/ Updates(w, [n EXCEPT !.pc = "cursor"])
        \/ Updates(w, From(n, schedule.next))
    BY <1>1 DEF Tick, n
  <2>5. Alone(w) /\ Lets(w)
    BY <1>s, <2>2, <2>3, <2>4, UpdatesAlone DEF Lets, Holding, Using
  <2> QED
    BY <1>1, <2>5 DEF Tick, Kind, Touches
<1>2. CASE SetCursor(w)
  <2>1. t.token = 0
    BY <1>2, <1>k DEF SetCursor, At, Holding, Using
  <2>2. From(t, 1).token = 0 /\ From(t, 1).pc \in {"list", "create"}
    BY <1>s, <2>1, FromTyped
  <2>3. Alone(w) /\ Lets(w)
    BY <1>2, <1>s, <2>1, <2>2, UpdatesAlone, MaterializedLets DEF SetCursor, Lets, Holding, Using
  <2> QED
    BY <1>2, <2>3 DEF SetCursor, Kind, Touches
<1>3. CASE Create(w)
  <2>1. t.token = 0
    BY <1>3, <1>k DEF Create, At, Holding, Using
  <2>2. CASE MayCreate(t.first)
    <3> DEFINE u == [t EXCEPT !.first = t.first + 1, !.pc = IF t.first = t.last THEN "advance" ELSE "create"]
    <3>1. u.token = 0 /\ u.pc \in {"advance", "create"}
      BY <1>s, <2>1 DEF TickRecord
    <3>2. Updates(w, u) /\ CreateRun(t.first, OccurrenceTime(t.first))
      BY <1>3, <2>2 DEF Create
    <3>3. OccurrenceTime(t.first) \in Nat
      BY <1>f DEF OccurrenceTime
    <3> HIDE DEF u
    <3>4. Alone(w) /\ Lets(w)
      BY <1>s, <3>1, <3>2, UpdatesAlone DEF Lets, Holding, Using
    <3> QED
      BY <1>3, <1>f, <3>2, <3>3, <3>4 DEF Create, Kind, Creates
  <2>3. CASE ~MayCreate(t.first)
    BY <1>3, <1>s, <2>1, <2>3, MaterializedLets DEF Create, Kind, Touches
  <2> QED
    BY <2>2, <2>3
<1>4. CASE AdvanceCursor(w)
  <2>1. t.token = 0
    BY <1>4, <1>k DEF AdvanceCursor, At, Holding, Using
  <2> QED
    BY <1>4, <1>s, <2>1, MaterializedLets DEF AdvanceCursor, Kind, Touches
<1>5. CASE List(w)
  <2>1. [t EXCEPT !.queue = {r \in Keys : runs[r].status \in OpenStatus /\ ~Leased(r)}] \in TickRecord
    BY <1>s DEF TickRecord
  <2> QED
    BY <1>5, <1>s, <2>1, ContinueLets DEF List, Kind, Touches
<1>6. CASE Look(w)
  <2>1. t.token = 0
    BY <1>6, <1>k DEF Look, At, Holding, Using
  <2>2. PICK r \in t.queue :
          LET a == [t EXCEPT !.queue = @ \ {r}]
              seen == [a EXCEPT !.newest = IF Latest THEN Newest(w) ELSE {}]
          IN  \/ Continue(w, a) \/ Continue(w, seen)
              \/ Updates(w, [seen EXCEPT !.pc = "skip", !.run = r])
              \/ Updates(w, [seen EXCEPT !.pc = "claim", !.run = r])
    BY <1>6 DEF Look
  <2> DEFINE a == [t EXCEPT !.queue = @ \ {r}]
             seen == [a EXCEPT !.newest = IF Latest THEN Newest(w) ELSE {}]
  <2>3. a \in TickRecord /\ a.token = 0
    BY <1>s, <2>1 DEF TickRecord
  <2>4. Newest(w) \subseteq Keys
    BY <1>s DEF Newest, TickRecord
  <2>5. seen \in TickRecord /\ seen.token = 0
    BY <2>3, <2>4 DEF TickRecord
  <2>6. Continue(w, a) \/ Continue(w, seen)
        \/ Updates(w, [seen EXCEPT !.pc = "skip", !.run = r])
        \/ Updates(w, [seen EXCEPT !.pc = "claim", !.run = r])
    BY <2>2
  <2> HIDE DEF a, seen
  <2>7. /\ [seen EXCEPT !.pc = "skip", !.run = r].pc = "skip" /\ [seen EXCEPT !.pc = "skip", !.run = r].token = 0
        /\ [seen EXCEPT !.pc = "claim", !.run = r].pc = "claim" /\ [seen EXCEPT !.pc = "claim", !.run = r].token = 0
    BY <2>5 DEF TickRecord
  <2>8. Alone(w) /\ Lets(w)
    BY <1>s, <2>3, <2>5, <2>6, <2>7, ContinueLets, UpdatesAlone DEF Lets, Holding, Using
  <2> QED
    BY <1>6, <2>8 DEF Look, Kind, Touches
<1>7. CASE Claim(w)
  <2>1. t.pc \notin Holding /\ t.run \in Keys
    BY <1>7, <1>s DEF Claim, Holding, Using, OnRun, WorkerTyped
  <2>2. CASE CanClaim(t.run)
    <3> DEFINE pc == IF t.pc = "skip" THEN "skipping" ELSE "start"
    <3>1. pc \in Using
      BY DEF Using
    <3>2. worker' = [worker EXCEPT ![w].token = runs[t.run].attempts + 1, ![w].pc = pc]
      BY <1>7, <1>s, <2>2 DEF Claim, Run, WorkerTyped, TickRecord
    <3> HIDE DEF pc
    <3>3. Alone(w) /\ worker'[w].pc = pc /\ worker'[w].run = t.run /\ worker'[w].token = runs[t.run].attempts + 1
      BY <1>s, <3>2 DEF Alone, WorkerTyped, TickRecord
    <3> QED
      BY <1>7, <2>1, <2>2, <3>1, <3>3 DEF Claim, Run, Kind, Claims
  <2>3. CASE ~CanClaim(t.run)
    BY <1>7, <1>s, <2>3, NextRunLets DEF Claim, Run, Kind, Touches
  <2> QED
    BY <2>2, <2>3
<1>8. CASE ClaimTooLate(w) \/ Restart(w)
  <2>1. Updates(w, Idle)
    BY <1>8 DEF ClaimTooLate, TickEnds, Restart, Updates
  <2>2. Alone(w) /\ Lets(w)
    BY <1>s, <2>1, UpdatesAlone DEF Lets, Idle, Holding, Using
  <2> QED
    BY <1>8, <2>2 DEF ClaimTooLate, Restart, Kind, Touches
<1>9. CASE Skip(w)
  <2>1. t.pc \in Using /\ "skipped" \in TerminalStatus
    BY <1>9 DEF Skip, At, Using, TerminalStatus
  <2>2. CASE Mine(w) /\ Completable(Run(w), "skipped")
    BY <1>9, <1>s, <2>1, <2>2, TerminatesEnds DEF Skip, Kind
  <2>3. CASE ~(Mine(w) /\ Completable(Run(w), "skipped"))
    BY <1>9, <1>s, <2>3, UpdatesAlone DEF Skip, TickEnds, Kind, Touches, Lets, Idle, Holding, Using
  <2> QED
    BY <2>2, <2>3
<1>10. CASE Start(w)
  <2>1. t.pc \in Using
    BY <1>10 DEF Start, At, Using
  <2>2. CASE Mine(w) /\ schedule.status = "active"
    <3>1. worker' = [worker EXCEPT ![w].pc = "run", ![w].ran = TRUE] /\ StartRun(Run(w))
      BY <1>10, <2>2 DEF Start
    <3>2. Alone(w) /\ worker'[w].pc = "run" /\ worker'[w].run = t.run /\ worker'[w].token = t.token
      BY <1>s, <3>1 DEF Alone, WorkerTyped, TickRecord
    <3>3. t.pc \in Holding /\ "run" \in Holding /\ "run" \in Using
      BY <2>1 DEF Holding, Using
    <3> QED
      BY <1>10, <2>1, <2>2, <3>1, <3>2, <3>3 DEF Start, Kind, Starts, Keeps, Run
  <2>3. CASE ~(Mine(w) /\ schedule.status = "active")
    BY <1>10, <1>s, <2>1, <2>3, GivesUpTouches DEF Start, Kind
  <2> QED
    BY <2>2, <2>3
<1>11. CASE Finish(w)
  <2>1. t.pc \in Using
    BY <1>11 DEF Finish, At, Using
  <2>2. PICK status \in Results :
          \/ Mine(w) /\ Terminates(w, status)
          \/ GivesUp(w) /\ UNCHANGED <<runs, decided>>
    BY <1>11 DEF Finish
  <2>3. status \in TerminalStatus
    BY SchedulingAssumption
  <2> QED
    BY <1>s, <2>1, <2>2, <2>3, GivesUpTouches, TerminatesEnds DEF Kind
<1>12. CASE Release(w)
  <2>1. t.pc \in Using
    BY <1>12 DEF Release, At, Using
  <2> QED
    BY <1>12, <1>s, <2>1, NextRunLets DEF Release, Kind, Touches, Releases
<1>13. CASE ReadOnce(w)
  <2>1. t.pc \in Holding /\ "settle" \in Holding /\ "settle" \notin Using
    BY <1>13 DEF ReadOnce, At, Holding, Using
  <2> QED
    BY <1>13, <1>s, <2>1, GoesKeeps, NextRunLets DEF ReadOnce, Kind, Touches
<1>14. CASE SettleOnce(w)
  BY <1>14, <1>s, NextRunLets DEF SettleOnce, Kind, Touches
<1>15. CASE HandlerThrows(w)
  <2>1. t.pc \in Using
    BY <1>15 DEF HandlerThrows, At, Using
  <2> QED
    BY <1>15, <1>s, <2>1, GivesUpTouches DEF HandlerThrows, Kind
<1>16. CASE Crash(w)
  <2>1. [Idle EXCEPT !.pc = "down"].pc = "down" /\ [Idle EXCEPT !.pc = "down"].token = 0
    BY DEF Idle
  <2> QED
    BY <1>16, <1>s, <2>1, UpdatesAlone DEF Crash, Kind, Touches, Lets, Holding, Using
<1> QED
  BY <1>1, <1>2, <1>3, <1>4, <1>5, <1>6, <1>7, <1>8, <1>9, <1>10, <1>11, <1>12, <1>13, <1>14, <1>15, <1>16 DEF Step

-----------------------------------------------------------------------------
(* Leases and attempts                                                     *)

\* What CreateRun does to a run that exists: nothing.
LEMMA CreateKeeps ==
  ASSUME StoreTyped, NEW r, NEW at, CreateRun(r, at), NEW q \in Keys
  PROVE  \/ runs'[q] = runs[q]
         \/ ~Known(q) /\ runs'[q].status = "pending" /\ runs'[q].lease = "none" /\ runs'[q].attempts = 0
BY DEF StoreTyped, CreateRun, NoRunYet

LEMMA LeaseWorkerStep ==
  ASSUME TypedInv, LeaseInv, NEW w \in Workers, Alone(w), Kind(w), UNCHANGED stalled
  PROVE  LeaseInv'
<1>s. WorkerTyped /\ StoreTyped
  BY DEF TypedInv, StoreTyped
<1>t. /\ \A v \in Workers : worker[v].token \in Nat /\ (worker[v].pc \in Holding => worker[v].run \in Keys)
      /\ \A r \in Keys : runs[r].attempts \in Nat /\ runs[r].status \in RunStatus
  BY <1>s DEF WorkerTyped, StoreTyped, TickRecord, RunRecord, OnRun
<1>u. Using \subseteq Holding
  BY DEF Holding
<1>1. CASE Touches(w)
  <2>1. LeaseShape' /\ DecidedByNewest'
    BY <1>1 DEF Touches, LeaseInv, LeaseShape, DecidedByNewest
  <2>2. TokenInv'
    BY <1>1, <1>t DEF Touches, Lets, Keeps, Run, Alone, LeaseInv, TokenInv
  <2>3. HonestInv'
    BY <1>1, <1>u DEF Touches, Lets, Keeps, Run, Alone, LeaseInv, HonestInv, Mine, Owns, Leased
  <2> QED
    BY <2>1, <2>2, <2>3 DEF LeaseInv
<1>2. CASE Creates(w)
  <2>0. \A q \in Keys :
          \/ runs'[q] = runs[q]
          \/ ~Known(q) /\ runs'[q].status = "pending" /\ runs'[q].lease = "none" /\ runs'[q].attempts = 0
    BY <1>2, <1>s, CreateKeeps DEF Creates
  <2>1. LeaseShape' /\ DecidedByNewest'
    BY <1>2, <2>0 DEF Creates, LeaseInv, LeaseShape, DecidedByNewest, ActiveStatus, TerminalStatus, Known
  <2>2. \A v \in Workers : worker'[v].pc \in Holding => v # w /\ worker'[v] = worker[v]
    BY <1>2 DEF Creates, Lets, Alone
  <2>3. TokenInv'
    <3>1. \A q \in Keys : runs'[q].attempts = runs[q].attempts
      BY <2>0 DEF LeaseInv, LeaseShape, Known
    <3> QED
      BY <1>2, <1>t, <2>2, <3>1 DEF LeaseInv, TokenInv, Lets, Creates, Alone
  <2>4. HonestInv'
    BY <1>u, <1>t, <2>0, <2>2 DEF LeaseInv, HonestInv, Mine, Owns, Leased, Run, ActiveStatus, Known
  <2> QED
    BY <2>1, <2>3, <2>4 DEF LeaseInv
<1>3. CASE Claims(w)
  <2> DEFINE r == Run(w)
  <2>0. r \in Keys /\ ~Leased(r) /\ runs[r].status \in OpenStatus
        /\ runs' = [runs EXCEPT ![r] = [runs[r] EXCEPT !.status = "claimed", !.attempts = runs[r].attempts + 1, !.lease = "live"]]
    BY <1>3, <1>s DEF Claims, CanClaim, ClaimRun, StoreTyped, RunRecord
  <2>1. runs'[r].status = "claimed" /\ runs'[r].lease = "live" /\ runs'[r].attempts = runs[r].attempts + 1
        /\ \A q \in Keys \ {r} : runs'[q] = runs[q]
    BY <2>0, <1>s DEF StoreTyped, RunRecord
  <2>2. /\ worker'[w].pc \in Holding /\ worker'[w].run = r /\ worker'[w].token = runs[r].attempts + 1
        /\ \A v \in Workers \ {w} : worker'[v] = worker[v]
    BY <1>3, <1>u DEF Claims, Alone
  <2> HIDE DEF r
  <2>3. LeaseShape' /\ DecidedByNewest'
    BY <1>3, <2>0, <2>1 DEF Claims, LeaseInv, LeaseShape, DecidedByNewest, ActiveStatus, TerminalStatus
  <2>4. TokenInv'
    BY <1>t, <2>0, <2>1, <2>2 DEF LeaseInv, TokenInv
  <2>5. HonestInv'
    <3>1. ASSUME NEW v \in Workers \ {w}, ~stalled, worker[v].pc \in Using PROVE worker[v].run # r
      BY <3>1, <2>0 DEF LeaseInv, HonestInv, Mine, Owns, Run
    <3> QED
      BY <1>u, <1>t, <2>0, <2>1, <2>2, <3>1 DEF LeaseInv, HonestInv, Mine, Owns, Leased, Run, ActiveStatus
  <2> QED
    BY <2>3, <2>4, <2>5 DEF LeaseInv
<1>4. ASSUME worker[w].pc \in Using, Mine(w), Lets(w) \/ Keeps(w),
             Keeps(w) /\ worker'[w].pc \in Using => runs'[Run(w)].status \in ActiveStatus,
             runs'[Run(w)].attempts = runs[Run(w)].attempts, runs'[Run(w)].status # "none",
             runs'[Run(w)].status \in ActiveStatus => runs'[Run(w)].lease = "live",
             runs'[Run(w)].status \notin ActiveStatus => runs'[Run(w)].lease = "none",
             \A q \in Keys \ {Run(w)} : runs'[q] = runs[q] /\ decided'[q] = decided[q],
             runs'[Run(w)].status \in TerminalStatus => decided'[Run(w)] = worker[w].token
      PROVE  LeaseInv'
  <2>0. Run(w) \in Keys /\ worker[w].token = runs[Run(w)].attempts
    BY <1>4, <1>t, <1>u DEF Mine, Owns, Run
  <2>1. LeaseShape' /\ DecidedByNewest'
    BY <1>4, <2>0 DEF LeaseInv, LeaseShape, DecidedByNewest
  <2>2. \A q \in Keys : runs'[q].attempts = runs[q].attempts
    BY <1>4, <2>0
  <2>3. TokenInv'
    BY <1>4, <1>t, <2>2 DEF LeaseInv, TokenInv, Lets, Keeps, Alone, Run
  <2>4. HonestInv'
    <3>1. ASSUME NEW v \in Workers \ {w}, ~stalled, worker[v].pc \in Using PROVE worker[v].run # Run(w)
      BY <3>1, <1>4, <1>u, <2>0 DEF LeaseInv, HonestInv, TokenInv, Mine, Owns, Run
    <3>2. worker'[w].pc \in Using => worker'[w].run = Run(w) /\ worker'[w].token = worker[w].token
                                     /\ runs'[Run(w)].status \in ActiveStatus
      BY <1>4, <1>u DEF Lets, Keeps
    <3>3. ASSUME NEW v \in Workers, ~stalled, worker'[v].pc \in Using
          PROVE  /\ runs'[worker'[v].run].status \in ActiveStatus /\ runs'[worker'[v].run].lease = "live"
                 /\ runs'[worker'[v].run].attempts = worker'[v].token
      <4>1. CASE v = w
        BY <1>4, <2>0, <3>2, <3>3, <4>1
      <4>2. CASE v # w
        BY <1>4, <1>t, <1>u, <3>1, <3>3, <4>2 DEF Alone, LeaseInv, HonestInv, Mine, Owns, Leased, Run
      <4> QED
        BY <4>1, <4>2
    <3> QED
      BY <3>3 DEF HonestInv, Mine, Owns, Leased, Run
  <2> QED
    BY <2>1, <2>3, <2>4 DEF LeaseInv
<1>r. worker[w].pc \in Using => Run(w) \in Keys /\ runs[Run(w)] \in RunRecord
  BY <1>s, <1>t, <1>u DEF Run, StoreTyped
<1>5. CASE Starts(w)
  <2>1. /\ runs'[Run(w)].status = "running" /\ runs'[Run(w)].lease = runs[Run(w)].lease
        /\ runs'[Run(w)].attempts = runs[Run(w)].attempts
        /\ \A q \in Keys \ {Run(w)} : runs'[q] = runs[q]
    BY <1>5, <1>r, <1>s DEF Starts, StartRun, StoreTyped, RunRecord
  <2> QED
    BY <1>4, <1>5, <2>1 DEF Starts, Mine, Owns, Leased, ActiveStatus, TerminalStatus
<1>6. CASE Ends(w)
  <2>1. PICK status \in TerminalStatus : CompleteRun(Run(w), status)
    BY <1>6 DEF Ends
  <2>2. /\ runs'[Run(w)].status = status /\ runs'[Run(w)].lease = "none"
        /\ runs'[Run(w)].attempts = runs[Run(w)].attempts
        /\ \A q \in Keys \ {Run(w)} : runs'[q] = runs[q]
    BY <1>6, <1>r, <1>s, <2>1 DEF Ends, CompleteRun, StoreTyped, RunRecord
  <2>3. /\ decided'[Run(w)] = worker[w].token
        /\ \A q \in Keys \ {Run(w)} : decided'[q] = decided[q]
    BY <1>6, <1>r, <1>s DEF Ends, StoreTyped
  <2>4. status \notin ActiveStatus /\ status # "none"
    BY <2>1 DEF TerminalStatus, ActiveStatus
  <2> QED
    BY <1>4, <1>6, <1>u, <2>2, <2>3, <2>4 DEF Ends, Lets, Keeps
<1>7. CASE Releases(w)
  <2>1. /\ runs'[Run(w)].status = "pending" /\ runs'[Run(w)].lease = "none"
        /\ runs'[Run(w)].attempts = runs[Run(w)].attempts
        /\ \A q \in Keys \ {Run(w)} : runs'[q] = runs[q]
    BY <1>7, <1>r, <1>s DEF Releases, ReleaseRun, StoreTyped, RunRecord
  <2> QED
    BY <1>4, <1>7, <1>u, <2>1 DEF Releases, Lets, ActiveStatus, TerminalStatus, Keeps
<1> QED
  BY <1>1, <1>2, <1>3, <1>5, <1>6, <1>7 DEF Kind

LEMMA LeaseStep == TypedInv /\ LeaseInv /\ [Next]_vars => LeaseInv'
<1> SUFFICES ASSUME TypedInv, LeaseInv, [Next]_vars PROVE LeaseInv'
  OBVIOUS
<1>s. WorkerTyped /\ StoreTyped
  BY DEF TypedInv, StoreTyped
<1>1. ASSUME NEW w \in Workers, Step(w) \/ HandlerThrows(w) \/ Crash(w) PROVE LeaseInv'
  <2>1. UNCHANGED stalled
    BY <1>1 DEF Step, Tick, SetCursor, Create, AdvanceCursor, List, Look, Claim, ClaimTooLate, Skip, Start, Finish,
       Release, ReadOnce, SettleOnce, Restart, HandlerThrows, Crash, beside
  <2>2. TokenInv
    BY DEF LeaseInv
  <2> QED
    BY <1>1, <2>1, <2>2, WorkerStep, LeaseWorkerStep
<1>2. ASSUME NEW r \in Keys, LeaseEnds(r) \/ Stall(r) PROVE LeaseInv'
  <2>0. /\ runs'[r].lease = "expired" /\ runs'[r].status = runs[r].status /\ runs'[r].attempts = runs[r].attempts
        /\ \A q \in Keys \ {r} : runs'[q] = runs[q]
        /\ runs[r].status \in ActiveStatus
    BY <1>2, <1>s DEF LeaseEnds, Stall, Expires, Leased, StoreTyped, RunRecord
  <2>1. UNCHANGED <<worker, decided>>
    BY <1>2 DEF LeaseEnds, Stall, beside
  <2>2. LeaseShape' /\ DecidedByNewest'
    BY <2>0, <2>1 DEF LeaseInv, LeaseShape, DecidedByNewest
  <2>3. TokenInv'
    <3>1. \A q \in Keys : runs'[q].attempts = runs[q].attempts
      BY <2>0
    <3>2. \A w \in Workers : worker[w].pc \in Holding => worker[w].run \in Keys
      BY <1>s DEF WorkerTyped, OnRun
    <3> QED
      BY <2>1, <3>1, <3>2 DEF LeaseInv, TokenInv
  <2>4. HonestInv'
    <3>1. CASE Stall(r)
      BY <3>1 DEF Stall, HonestInv
    <3>2. CASE LeaseEnds(r)
      <4>1. UNCHANGED stalled
        BY <3>2 DEF LeaseEnds, beside
      <4>2. ASSUME NEW w \in Workers, Mine(w), Run(w) \in Keys PROVE Mine(w)'
        BY <2>0, <2>1, <3>2, <4>2 DEF LeaseEnds, Attended, Mine, Owns, Leased, Run
      <4>3. \A w \in Workers : worker[w].pc \in Using => Run(w) \in Keys
        BY <1>s DEF WorkerTyped, OnRun, Holding, Run
      <4> QED
        BY <2>1, <4>1, <4>2, <4>3 DEF LeaseInv, HonestInv
    <3> QED
      BY <1>2, <3>1, <3>2
  <2> QED
    BY <2>2, <2>3, <2>4 DEF LeaseInv
<1>3. ASSUME NEW r \in Triggers, Trigger(r) PROVE LeaseInv'
  <2>0. \A q \in Keys :
          \/ runs'[q] = runs[q]
          \/ ~Known(q) /\ runs'[q].status = "pending" /\ runs'[q].lease = "none" /\ runs'[q].attempts = 0
    BY <1>3, <1>s, CreateKeeps DEF Trigger
  <2>1. UNCHANGED <<worker, decided, stalled>>
    BY <1>3 DEF Trigger
  <2>2. LeaseShape' /\ DecidedByNewest'
    BY <2>0, <2>1 DEF LeaseInv, LeaseShape, DecidedByNewest, ActiveStatus, TerminalStatus
  <2>3. TokenInv'
    <3>1. \A q \in Keys : runs'[q].attempts = runs[q].attempts
      BY <2>0 DEF LeaseInv, LeaseShape, Known
    <3>2. \A w \in Workers : worker[w].pc \in Holding => worker[w].run \in Keys
      BY <1>s DEF WorkerTyped, OnRun
    <3> QED
      BY <2>1, <3>1, <3>2 DEF LeaseInv, TokenInv
  <2>4. HonestInv'
    <3>1. \A w \in Workers : worker[w].pc \in Using => worker[w].run \in Keys
      BY <1>s DEF WorkerTyped, OnRun, Holding
    <3> QED
      BY <2>0, <2>1, <3>1 DEF LeaseInv, HonestInv, Mine, Owns, Leased, Run, ActiveStatus, Known
  <2> QED
    BY <2>2, <2>3, <2>4 DEF LeaseInv
<1>4. CASE UNCHANGED <<runs, worker, decided, stalled>>
  BY <1>4 DEF LeaseInv, LeaseShape, TokenInv, HonestInv, DecidedByNewest, Mine, Owns, Leased, Run
<1>5. Due \/ SetFirst \/ RegisterDriver \/ (\E s \in {"active", "paused", "deleted"} : ChangeStatus(s)) \/ UNCHANGED vars
      => UNCHANGED <<runs, worker, decided, stalled>>
  BY DEF Due, SetFirst, RegisterDriver, ChangeStatus, vars, storeVars
<1> QED
  BY <1>1, <1>2, <1>3, <1>4, <1>5 DEF Next

LEMMA LeaseInit == Init => LeaseInv
<1> SUFFICES ASSUME Init PROVE LeaseInv
  OBVIOUS
<1>1. /\ \A w \in Workers : worker[w].pc = "idle" /\ worker[w].token = 0
      /\ \A r \in Keys : runs[r].status = "none" /\ runs[r].lease = "none" /\ runs[r].attempts = 0
  BY DEF Init, StoreInit, Idle, NoRunYet
<1> QED
  BY <1>1 DEF LeaseInv, LeaseShape, TokenInv, HonestInv, DecidedByNewest, ActiveStatus, TerminalStatus, Holding, Using

LEMMA Leasing == Spec => []LeaseInv
BY LeaseInit, LeaseStep, Typed, PTL DEF Spec

\* The attempt that made a run terminal is its newest one, over every takeover of a
\* lease (completeRun behind requireOwnedActiveRun).
THEOREM DecidedByNewestHolds == Spec => []DecidedByNewest
<1>1. LeaseInv => DecidedByNewest
  BY DEF LeaseInv
<1> QED
  BY <1>1, Leasing, PTL

\* Two handlers work on one run only after a lease was lost: the workers' own calls,
\* crashes and restarts never bring it about.
THEOREM OverlapNeedsStallHolds == Spec => []OverlapNeedsStall
<1>1. TypedInv /\ LeaseInv => OverlapNeedsStall
  <2> SUFFICES ASSUME TypedInv, LeaseInv, ~stalled, NEW v \in Workers, NEW w \in Workers,
                      v # w, At(v, "run"), At(w, "run"), Run(v) = Run(w)
               PROVE  FALSE
    BY DEF OverlapNeedsStall, TypedInv
  <2>1. worker[v].pc \in Using /\ worker[w].pc \in Using
    BY DEF At, Using
  <2>2. worker[v].token = runs[Run(v)].attempts /\ worker[w].token = runs[Run(w)].attempts
    BY <2>1 DEF LeaseInv, HonestInv, Mine, Owns
  <2>3. worker[v].token # worker[w].token
    BY <2>1 DEF LeaseInv, TokenInv, Holding, Run
  <2> QED
    BY <2>2, <2>3
<1> QED
  BY <1>1, Typed, Leasing, PTL

-----------------------------------------------------------------------------
(* maxConcurrency                                                          *)

LEMMA KeysFinite == IsFiniteSet(Keys)
<1>1. Horizon \in Int /\ 1 \in Int /\ IsFiniteSet(Triggers)
  BY StoreAssumption
<1>2. IsFiniteSet(1..Horizon)
  BY <1>1, FS_Interval
<1> QED
  BY <1>1, <1>2, FS_Union DEF Keys, Occurrences

LeasedRuns == {r \in Keys : Leased(r)}

LEMMA FewerLeased ==
  ASSUME ConcurrencyCap, \A r \in Keys : Leased(r)' => Leased(r)
  PROVE  ConcurrencyCap'
<1>1. IsFiniteSet(LeasedRuns)
  BY KeysFinite, FS_Subset DEF LeasedRuns
<1>2. LeasedRuns' \subseteq LeasedRuns
  BY DEF LeasedRuns
<1>3. Cardinality(LeasedRuns') <= Cardinality(LeasedRuns) /\ Cardinality(LeasedRuns) \in Nat /\ Cardinality(LeasedRuns') \in Nat
  BY <1>1, <1>2, FS_Subset, FS_CardinalityType
<1>4. MaxConcurrency \in Nat
  BY StoreAssumption
<1> QED
  BY <1>3, <1>4 DEF ConcurrencyCap, LeasedRuns

LEMMA CapStep == TypedInv /\ LeaseInv /\ ConcurrencyCap /\ [Next]_vars => ConcurrencyCap'
<1> SUFFICES ASSUME TypedInv, LeaseInv, ConcurrencyCap, [Next]_vars PROVE ConcurrencyCap'
  OBVIOUS
<1>s. StoreTyped /\ WorkerTyped /\ TokenInv
  BY DEF TypedInv, StoreTyped, LeaseInv
<1>0. CASE UNCHANGED runs
  BY <1>0, FewerLeased DEF Leased
<1>1. ASSUME NEW w \in Workers, Kind(w) PROVE ConcurrencyCap'
  <2>r. worker[w].pc \in Using => Run(w) \in Keys
    BY <1>s DEF WorkerTyped, OnRun, Holding, Run
  <2>1. CASE Touches(w)
    BY <1>0, <2>1 DEF Touches
  <2>2. CASE Creates(w)
    <3>1. \A q \in Keys : runs'[q] = runs[q] \/ runs'[q].lease = "none"
      BY <1>s, <2>2, CreateKeeps DEF Creates
    <3> QED
      BY <3>1, FewerLeased DEF Leased
  <2>3. CASE Claims(w)
    <3> DEFINE r == Run(w)
               others == {q \in Keys \ {r} : Leased(q)}
    <3>1. r \in Keys /\ Cardinality(others) < MaxConcurrency
      BY <2>3 DEF Claims, CanClaim
    <3>2. \A q \in Keys \ {r} : Leased(q)' <=> Leased(q)
      BY <1>s, <2>3 DEF Claims, ClaimRun, StoreTyped, Leased
    <3>3. LeasedRuns' = others \/ LeasedRuns' = others \cup {r}
      BY <3>1, <3>2 DEF LeasedRuns
    <3>4. IsFiniteSet(others) /\ r \notin others
      BY KeysFinite, FS_Subset
    <3> HIDE DEF others, r
    <3>5. Cardinality(others \cup {r}) = Cardinality(others) + 1
      BY <3>4, FS_AddElement
    <3>6. Cardinality(others) \in Nat /\ MaxConcurrency \in Nat
      BY <3>4, FS_CardinalityType, StoreAssumption
    <3> QED
      BY <3>1, <3>3, <3>5, <3>6 DEF ConcurrencyCap, LeasedRuns
  <2>4. CASE Starts(w)
    <3>1. \A q \in Keys : Leased(q)' => Leased(q)
      BY <1>s, <2>r, <2>4 DEF Starts, StartRun, Mine, Owns, StoreTyped, Leased
    <3> QED
      BY <3>1, FewerLeased
  <2>5. CASE Ends(w) \/ Releases(w)
    <3>1. \A q \in Keys : runs'[q] = runs[q] \/ runs'[q].lease = "none"
      BY <1>s, <2>r, <2>5 DEF Ends, Releases, CompleteRun, ReleaseRun, StoreTyped, RunRecord
    <3> QED
      BY <3>1, FewerLeased DEF Leased
  <2> QED
    BY <1>1, <2>1, <2>2, <2>3, <2>4, <2>5 DEF Kind
<1>2. ASSUME NEW r \in Keys, LeaseEnds(r) \/ Stall(r) PROVE ConcurrencyCap'
  <2>1. \A q \in Keys : runs'[q] = runs[q] \/ runs'[q].lease = "expired"
    BY <1>2, <1>s DEF LeaseEnds, Stall, Expires, StoreTyped, RunRecord
  <2> QED
    BY <2>1, FewerLeased DEF Leased
<1>3. ASSUME NEW r \in Triggers, Trigger(r) PROVE ConcurrencyCap'
  <2>1. \A q \in Keys : runs'[q] = runs[q] \/ runs'[q].lease = "none"
    BY <1>3, <1>s, CreateKeeps DEF Trigger
  <2> QED
    BY <2>1, FewerLeased DEF Leased
<1>4. Due \/ SetFirst \/ RegisterDriver \/ (\E s \in {"active", "paused", "deleted"} : ChangeStatus(s)) \/ UNCHANGED vars
      => UNCHANGED runs
  BY DEF Due, SetFirst, RegisterDriver, ChangeStatus, vars, storeVars
<1> QED
  BY <1>s, <1>0, <1>1, <1>2, <1>3, <1>4, WorkerStep DEF Next

LEMMA CapInit == Init => ConcurrencyCap
<1> SUFFICES ASSUME Init PROVE ConcurrencyCap
  OBVIOUS
<1>1. {r \in Keys : Leased(r)} = {}
  BY DEF Init, StoreInit, NoRunYet, Leased, ActiveStatus
<1> QED
  BY <1>1, FS_EmptySet, StoreAssumption DEF ConcurrencyCap

\* No more runs than maxConcurrency have a live lease, though a worker counts them
\* in one call and claims in another: the claim counts again.
THEOREM ConcurrencyCapHolds == Spec => []ConcurrencyCap
BY CapInit, CapStep, Typed, Leasing, PTL DEF Spec

-----------------------------------------------------------------------------
(* The cursor                                                              *)

KnownStays == \A r \in Keys : Known(r) => Known(r)'

\* A step that leaves the cursor alone and does not page.
Apart(w) ==
  /\ worker'[w].pc \notin Paging /\ worker'[w].pc # "cursor"
  /\ worker'[w].first = 0 /\ worker'[w].last = 0 /\ worker'[w].now <= clock
  /\ schedule'.next = schedule.next /\ schedule'.last = schedule.last
  /\ current' \subseteq current \cup {w}

LEMMA KindKeepsKnown ==
  ASSUME TypedInv, NEW w \in Workers, Kind(w)
  PROVE  KnownStays
<1>s. StoreTyped /\ (worker[w].pc \in Using => Run(w) \in Keys)
  BY DEF TypedInv, StoreTyped, WorkerTyped, OnRun, Holding, Run
<1>1. CASE Touches(w)
  BY <1>1 DEF Touches, KnownStays, Known
<1>2. CASE Creates(w)
  BY <1>2, <1>s, CreateKeeps DEF Creates, KnownStays, Known
<1>3. CASE Claims(w)
  BY <1>3, <1>s DEF Claims, ClaimRun, StoreTyped, RunRecord, KnownStays, Known
<1>4. CASE Starts(w)
  BY <1>4, <1>s DEF Starts, StartRun, StoreTyped, RunRecord, KnownStays, Known
<1>5. CASE Ends(w)
  <2>1. PICK status \in TerminalStatus : CompleteRun(Run(w), status)
    BY <1>5 DEF Ends
  <2>2. status # "none"
    BY DEF TerminalStatus
  <2> QED
    BY <1>5, <1>s, <2>1, <2>2 DEF Ends, CompleteRun, StoreTyped, RunRecord, KnownStays, Known
<1>6. CASE Releases(w)
  BY <1>6, <1>s DEF Releases, ReleaseRun, StoreTyped, RunRecord, KnownStays, Known
<1> QED
  BY <1>1, <1>2, <1>3, <1>4, <1>5, <1>6 DEF Kind

LEMMA ContinueApart ==
  ASSUME TypedInv, NEW w \in Workers, NEW t \in TickRecord, t.first = 0, t.last = 0, t.now <= clock,
         Continue(w, t), schedule'.next = schedule.next, schedule'.last = schedule.last,
         current' \subseteq current \cup {w}
  PROVE  Apart(w)
<1>0. WorkerTyped /\ clock >= 0
  BY DEF TypedInv
<1>1. CASE t.queue = {}
  BY <1>0, <1>1, UpdatesAlone DEF Continue, Apart, Idle, Paging
<1>2. CASE t.queue # {}
  <2> DEFINE u == [t EXCEPT !.pc = "look", !.run = NoKey, !.token = 0]
  <2>1. u.pc = "look" /\ u.first = 0 /\ u.last = 0 /\ u.now = t.now
    BY DEF TickRecord
  <2>2. Updates(w, u)
    BY <1>2 DEF Continue
  <2> HIDE DEF u
  <2> QED
    BY <1>0, <2>1, <2>2, UpdatesAlone DEF Apart, Paging
<1> QED
  BY <1>1, <1>2

LEMMA RunStepApart ==
  ASSUME TypedInv, RangeInv, NEW w \in Workers,
         \/ List(w) \/ Look(w) \/ Claim(w) \/ ClaimTooLate(w) \/ Skip(w) \/ Start(w) \/ Finish(w)
         \/ Release(w) \/ ReadOnce(w) \/ SettleOnce(w) \/ Restart(w) \/ HandlerThrows(w) \/ Crash(w)
  PROVE  Apart(w)
<1> DEFINE t == worker[w]
           same == schedule'.next = schedule.next /\ schedule'.last = schedule.last /\ current' \subseteq current \cup {w}
<1>s. WorkerTyped /\ t \in TickRecord /\ clock \in Nat
  BY DEF TypedInv, WorkerTyped
<1>f. t.now <= clock /\ (t.pc \notin Paging => t.first = 0 /\ t.last = 0)
  BY DEF RangeInv
<1> USE DEF storeVars, beside
<1>i. ASSUME NEW u, Updates(w, u), u.pc \in {"idle", "down"}, u.first = 0, u.last = 0, u.now = 0, same
      PROVE  Apart(w)
  <2>1. worker'[w] = u
    BY <1>i, <1>s, UpdatesAlone
  <2> QED
    BY <1>i, <1>s, <2>1 DEF Apart, Paging
<1>j. ASSUME Updates(w, Idle) \/ Updates(w, [Idle EXCEPT !.pc = "down"]), same PROVE Apart(w)
  <2>1. Idle.pc = "idle" /\ Idle.first = 0 /\ Idle.last = 0 /\ Idle.now = 0
    BY DEF Idle
  <2>2. /\ [Idle EXCEPT !.pc = "down"].pc = "down" /\ [Idle EXCEPT !.pc = "down"].first = 0
        /\ [Idle EXCEPT !.pc = "down"].last = 0 /\ [Idle EXCEPT !.pc = "down"].now = 0
    BY DEF Idle
  <2> QED
    BY <1>i, <1>j, <2>1, <2>2
<1>n. ASSUME NextRun(w), t.pc \notin Paging, same PROVE Apart(w)
  BY <1>n, <1>s, <1>f, ContinueApart DEF NextRun
<1>g. ASSUME NEW pc \in OnRun, Goes(w, pc), t.pc \notin Paging, same PROVE Apart(w)
  <2>1. worker'[w].pc = pc /\ worker'[w].first = t.first /\ worker'[w].last = t.last /\ worker'[w].now = t.now
    BY <1>g, <1>s DEF Goes, WorkerTyped, TickRecord
  <2> QED
    BY <1>g, <1>f, <2>1 DEF Apart, OnRun, Holding, Using, Paging
<1>u. ASSUME GivesUp(w), t.pc \notin Paging, same PROVE Apart(w)
  BY <1>u, <1>g, <1>n DEF GivesUp, OnRun, Holding, Using
<1>e. ASSUME NEW status, Terminates(w, status), t.pc \notin Paging, same PROVE Apart(w)
  BY <1>e, <1>g, <1>n DEF Terminates, OnRun, Holding
<1>1. CASE List(w)
  <2>1. [t EXCEPT !.queue = {r \in Keys : runs[r].status \in OpenStatus /\ ~Leased(r)}] \in TickRecord
    BY <1>s DEF TickRecord
  <2>2. t.pc \notin Paging
    BY <1>1 DEF List, At, Paging
  <2>3. [t EXCEPT !.queue = {r \in Keys : runs[r].status \in OpenStatus /\ ~Leased(r)}].first = 0
        /\ [t EXCEPT !.queue = {r \in Keys : runs[r].status \in OpenStatus /\ ~Leased(r)}].last = 0
        /\ [t EXCEPT !.queue = {r \in Keys : runs[r].status \in OpenStatus /\ ~Leased(r)}].now <= clock
    BY <1>s, <1>f, <2>2 DEF TickRecord
  <2> QED
    BY <1>1, <2>1, <2>3, ContinueApart DEF List
<1>2. CASE Look(w)
  <2>1. t.pc \notin Paging
    BY <1>2 DEF Look, At, Paging
  <2>2. PICK r \in t.queue :
          LET a == [t EXCEPT !.queue = @ \ {r}]
              seen == [a EXCEPT !.newest = IF Latest THEN Newest(w) ELSE {}]
          IN  \/ Continue(w, a) \/ Continue(w, seen)
              \/ Updates(w, [seen EXCEPT !.pc = "skip", !.run = r])
              \/ Updates(w, [seen EXCEPT !.pc = "claim", !.run = r])
    BY <1>2 DEF Look
  <2> DEFINE a == [t EXCEPT !.queue = @ \ {r}]
             seen == [a EXCEPT !.newest = IF Latest THEN Newest(w) ELSE {}]
  <2>3. a \in TickRecord /\ a.first = 0 /\ a.last = 0 /\ a.now <= clock
    BY <1>s, <1>f, <2>1 DEF TickRecord
  <2>4. Newest(w) \subseteq Keys
    BY <1>s DEF Newest, TickRecord
  <2>5. seen \in TickRecord /\ seen.first = 0 /\ seen.last = 0 /\ seen.now <= clock
    BY <2>3, <2>4 DEF TickRecord
  <2>6. Continue(w, a) \/ Continue(w, seen)
        \/ Updates(w, [seen EXCEPT !.pc = "skip", !.run = r])
        \/ Updates(w, [seen EXCEPT !.pc = "claim", !.run = r])
    BY <2>2
  <2> HIDE DEF a, seen
  <2>7. ASSUME NEW pc \in {"skip", "claim"}, Updates(w, [seen EXCEPT !.pc = pc, !.run = r])
        PROVE  /\ worker'[w].pc = pc /\ worker'[w].first = 0 /\ worker'[w].last = 0 /\ worker'[w].now <= clock
    <3>1. worker'[w] = [seen EXCEPT !.pc = pc, !.run = r]
      BY <1>s, <2>7, UpdatesAlone
    <3> QED
      BY <2>5, <3>1 DEF TickRecord
  <2>8. UNCHANGED <<schedule, current>>
    BY <1>2 DEF Look
  <2> QED
    BY <2>3, <2>5, <2>6, <2>7, <2>8, ContinueApart DEF Apart, Paging
<1>3. CASE Claim(w)
  <2>1. t.pc \notin Paging
    BY <1>3 DEF Claim, Paging
  <2>2. CASE CanClaim(Run(w))
    <3>1. /\ worker'[w].pc \in {"skipping", "start"} /\ worker'[w].first = t.first
          /\ worker'[w].last = t.last /\ worker'[w].now = t.now
      BY <1>3, <1>s, <2>2 DEF Claim, WorkerTyped, TickRecord
    <3> QED
      BY <1>3, <1>f, <2>1, <3>1 DEF Claim, Apart, Paging
  <2> QED
    BY <1>3, <1>n, <2>1, <2>2 DEF Claim
<1>4. CASE ClaimTooLate(w) \/ Restart(w) \/ Crash(w)
  BY <1>4, <1>j DEF ClaimTooLate, Restart, TickEnds, Crash, Forgets, Updates
<1>5. CASE Skip(w)
  BY <1>5, <1>e, <1>j DEF Skip, TickEnds, At, Paging
<1>6. CASE Start(w)
  <2>1. t.pc \notin Paging
    BY <1>6 DEF Start, At, Paging
  <2>2. CASE Mine(w) /\ schedule.status = "active"
    <3>1. worker'[w].pc = "run" /\ worker'[w].first = t.first /\ worker'[w].last = t.last /\ worker'[w].now = t.now
      BY <1>6, <1>s, <2>2 DEF Start, WorkerTyped, TickRecord
    <3> QED
      BY <1>6, <1>f, <2>1, <3>1 DEF Start, Apart, Paging
  <2> QED
    BY <1>6, <1>u, <2>1, <2>2 DEF Start
<1>7. CASE Finish(w)
  BY <1>7, <1>e, <1>u DEF Finish, At, Paging
<1>8. CASE Release(w)
  BY <1>8, <1>n DEF Release, At, Paging
<1>9. CASE ReadOnce(w)
  BY <1>9, <1>g, <1>n DEF ReadOnce, Reads, At, Paging, OnRun, Holding
<1>10. CASE SettleOnce(w)
  <2>1. same
    BY <1>10 DEF SettleOnce, CompareAndSet, TypedInv
  <2> QED
    BY <1>10, <1>n, <2>1 DEF SettleOnce, At, Paging
<1>11. CASE HandlerThrows(w)
  BY <1>11, <1>u DEF HandlerThrows, At, Paging
<1> QED
  BY <1>1, <1>2, <1>3, <1>4, <1>5, <1>6, <1>7, <1>8, <1>9, <1>10, <1>11

LEMMA ApartPage ==
  ASSUME TypedInv, PageInv, NEW w \in Workers, Alone(w), Apart(w), KnownStays, UNCHANGED <<policy, clock, api>>
  PROVE  PageInv'
<1>1. RangeInv'
  BY DEF PageInv, RangeInv, Apart, Alone, Once, Paging
<1>2. BehindInv'
  BY OccurrenceKeys DEF PageInv, BehindInv, Apart, Alone, KnownStays, Latest
<1>3. CursorInv'
  <2>1. Api # w
    BY StoreAssumption
  <2> QED
    BY <2>1 DEF PageInv, CursorInv, Apart, Alone, At
<1> QED
  BY <1>1, <1>2, <1>3 DEF PageInv

LEMMA FromRange ==
  ASSUME TypedInv, NEW t \in TickRecord, t.first = 0, t.last = 0, NEW next \in Nat
  PROVE  LET u == From(t, next)
         IN  /\ u.now = t.now
             /\ u.pc = "list" => u.first = 0 /\ u.last = 0
             /\ u.pc = "create" => /\ next # 0 /\ next <= u.first /\ u.first <= u.last /\ u.last <= t.now
                                   /\ ~Latest => u.first = next
<1>1. t.now \in Nat
  BY DEF TickRecord
<1>2. CASE ~IsDue(next, t.now)
  BY <1>2 DEF From, TickRecord
<1>3. CASE IsDue(next, t.now) /\ Jumps(next, t.now)
  BY <1>1, <1>3 DEF From, TickRecord, Jumps, IsDue
<1>4. CASE IsDue(next, t.now) /\ ~Jumps(next, t.now)
  <2>1. LastDue(next, t.now) \in Nat /\ next <= LastDue(next, t.now) /\ LastDue(next, t.now) <= t.now
    BY <1>1, <1>4, LastDueNat
  <2>2. From(t, next) = [t EXCEPT !.pc = "create", !.first = next, !.last = LastDue(next, t.now)]
    BY <1>4 DEF From
  <2> QED
    BY <1>4, <2>1, <2>2 DEF TickRecord, IsDue
<1> QED
  BY <1>2, <1>3, <1>4

LEMMA MaterializedApart ==
  ASSUME TypedInv, RangeInv, NEW w \in Workers, Materialized(w)
  PROVE  /\ Alone(w) /\ worker'[w].pc = "list" /\ worker'[w].first = 0 /\ worker'[w].last = 0
         /\ worker'[w].now <= clock
<1> DEFINE t == [worker[w] EXCEPT !.pc = "list", !.first = 0, !.last = 0]
<1>1. t.pc = "list" /\ t.first = 0 /\ t.last = 0 /\ t.now = worker[w].now
  BY DEF TypedInv, WorkerTyped, TickRecord
<1>2. Updates(w, t)
  BY DEF Materialized
<1> HIDE DEF t
<1> QED
  BY <1>1, <1>2, UpdatesAlone DEF TypedInv, RangeInv

LEMMA PageWorkerStep ==
  ASSUME TypedInv, LeaseInv, PageInv, NEW w \in Workers, Step(w) \/ HandlerThrows(w) \/ Crash(w)
  PROVE  PageInv' /\ schedule'.last >= schedule.last
<1> DEFINE t == worker[w]
<1>s. WorkerTyped /\ StoreTyped /\ t \in TickRecord /\ clock \in Nat /\ Horizon \in Nat
  BY StoreAssumption DEF TypedInv, WorkerTyped, StoreTyped
<1>n. /\ schedule.next \in Nat /\ schedule.last \in Nat
      /\ t.now \in Nat /\ t.first \in Nat /\ t.last \in Nat
      /\ \A v \in Workers : worker[v].now \in Nat /\ worker[v].first \in Nat /\ worker[v].last \in Nat
  BY <1>s DEF WorkerTyped, StoreTyped, TickRecord
<1>a. Alone(w) /\ KnownStays
  BY WorkerStep, KindKeepsKnown DEF LeaseInv
<1>b. UNCHANGED <<policy, clock, api>>
  BY DEF Step, Tick, SetCursor, Create, AdvanceCursor, List, Look, Claim, ClaimTooLate, Skip, Start, Finish,
     Release, ReadOnce, SettleOnce, Restart, HandlerThrows, Crash, beside
<1>c. (Once' <=> Once) /\ (Latest' <=> Latest)
  BY <1>b DEF Once, Latest
<1>d. Api # w
  BY StoreAssumption
<1>p. ASSUME Apart(w) PROVE PageInv' /\ schedule'.last >= schedule.last
  BY <1>a, <1>b, <1>n, <1>p, ApartPage DEF Apart
<1>m. ASSUME Materialized(w), schedule' = schedule, current' \subseteq current \cup {w}
      PROVE  PageInv' /\ schedule'.last >= schedule.last
  <2>1. Apart(w)
    BY <1>m, MaterializedApart DEF PageInv, Apart, Paging
  <2> QED
    BY <1>p, <2>1
<1>1. CASE Tick(w)
  <2> DEFINE n == [Idle EXCEPT !.now = clock]
  <2>1. n \in TickRecord /\ n.first = 0 /\ n.last = 0 /\ n.now = clock
    BY IdleTyped, <1>s DEF TickRecord, Idle
  <2> DEFINE l == [n EXCEPT !.pc = "list"]
             c == [n EXCEPT !.pc = "cursor"]
             f == From(n, schedule.next)
  <2>2. /\ l.pc = "list" /\ l.first = 0 /\ l.last = 0 /\ l.now = clock
        /\ c.pc = "cursor" /\ c.first = 0 /\ c.last = 0 /\ c.now = clock
    BY <2>1 DEF TickRecord
  <2>3. /\ f.pc \in {"list", "create"} /\ f.now = clock /\ f \in TickRecord
        /\ f.pc = "list" => f.first = 0 /\ f.last = 0
        /\ f.pc = "create" => /\ schedule.next # 0 /\ schedule.next <= f.first /\ f.first <= f.last /\ f.last <= clock
                              /\ ~Latest => f.first = schedule.next
    BY <1>n, <2>1, FromTyped, FromRange
  <2>4. /\ schedule' = schedule /\ runs' = runs
        /\ \/ worker'[w] = l /\ UNCHANGED current
           \/ worker'[w] = c /\ schedule.next = 0 /\ Reads(w)
           \/ worker'[w] = f /\ (IF f.pc = "create" THEN Reads(w) ELSE UNCHANGED current)
    BY <1>1, <1>s, UpdatesAlone DEF Tick
  <2>7. f.first \in Nat /\ f.last \in Nat
    BY <2>3 DEF TickRecord
  <2> HIDE DEF n, l, c, f
  <2>5. CASE worker'[w] = l \/ (worker'[w] = f /\ f.pc = "list")
    <3>1. Apart(w)
      BY <1>s, <2>2, <2>3, <2>4, <2>5 DEF Apart, Paging, Reads
    <3> QED
      BY <1>p, <3>1
  <2>6. CASE worker'[w] = c /\ schedule.next = 0 /\ Reads(w)
    <3>1. RangeInv'
      BY <1>a, <1>b, <1>c, <1>s, <2>2, <2>4, <2>6 DEF PageInv, RangeInv, Alone, Paging
    <3>2. BehindInv'
      BY <1>a, <1>c, <2>2, <2>4, <2>6, OccurrenceKeys DEF PageInv, BehindInv, Alone, Paging, KnownStays
    <3>3. CursorInv'
      BY <1>a, <1>b, <1>d, <2>2, <2>4, <2>6 DEF PageInv, CursorInv, Alone, Paging, Reads, At
    <3> QED
      BY <1>n, <2>4, <3>1, <3>2, <3>3 DEF PageInv
  <2>8. CASE worker'[w] = f /\ f.pc = "create" /\ Reads(w)
    <3>1. RangeInv'
      BY <1>a, <1>b, <1>c, <1>n, <1>s, <2>3, <2>4, <2>7, <2>8 DEF PageInv, RangeInv, Alone, Paging
    <3>2. BehindInv'
      BY <1>a, <1>c, <2>3, <2>4, <2>8, OccurrenceKeys DEF PageInv, BehindInv, Alone, Paging, KnownStays
    <3>3. CursorInv'
      <4>1. schedule.last <= f.last
        BY <1>n, <2>3, <2>7, <2>8 DEF PageInv, CursorInv
      <4> QED
        BY <1>a, <1>b, <1>d, <2>4, <2>8, <4>1 DEF PageInv, CursorInv, Alone, Reads, At
    <3> QED
      BY <1>n, <2>4, <3>1, <3>2, <3>3 DEF PageInv
  <2> QED
    BY <2>3, <2>4, <2>5, <2>6, <2>8
<1>2. CASE SetCursor(w)
  <2>0. At(w, "cursor") /\ t.first = 0 /\ t.last = 0 /\ t.now <= clock
    BY <1>2 DEF SetCursor, At, PageInv, RangeInv, Paging
  <2>1. CASE w \in current
    <3> DEFINE f == From(t, 1)
    <3>1. schedule.next = 0 /\ schedule.last <= 1
      BY <2>0, <2>1 DEF PageInv, CursorInv
    <3>2. /\ f.pc \in {"list", "create"} /\ f.now = t.now /\ f \in TickRecord
          /\ f.pc = "list" => f.first = 0 /\ f.last = 0
          /\ f.pc = "create" => /\ 1 <= f.first /\ f.first <= f.last /\ f.last <= t.now
                                /\ ~Latest => f.first = 1
      BY <1>s, <2>0, FromTyped, FromRange
    <3>3. worker'[w] = f /\ schedule'.next = 1 /\ schedule'.last = schedule.last /\ current' = {w} /\ runs' = runs
      BY <1>2, <1>s, <2>1, UpdatesAlone DEF SetCursor, Write, StoreTyped
    <3>4. f.first \in Nat /\ f.last \in Nat
      BY <3>2 DEF TickRecord
    <3> HIDE DEF f
    <3>5. RangeInv'
      BY <1>a, <1>b, <1>c, <1>n, <1>s, <2>0, <3>2, <3>3, <3>4 DEF PageInv, RangeInv, Alone, Paging
    <3>6. BehindInv'
      <4>1. \A o \in Occurrences : o \in Nat /\ o >= 1 /\ o \in Keys
        BY <1>s DEF Occurrences, Keys
      <4> QED
        BY <1>a, <1>c, <3>2, <3>3, <4>1 DEF PageInv, BehindInv, Alone, Paging, KnownStays
    <3>7. CursorInv'
      BY <1>d, <1>n, <3>1, <3>2, <3>3, <3>4 DEF CursorInv, At, Paging
    <3> QED
      BY <1>n, <3>3, <3>5, <3>6, <3>7 DEF PageInv
  <2>2. CASE w \notin current
    BY <1>2, <1>m, <2>2 DEF SetCursor
  <2> QED
    BY <2>1, <2>2
<1>3. CASE Create(w)
  <2>0. 0 < t.first /\ t.first <= t.last /\ t.last <= t.now /\ t.now <= clock /\ clock <= Horizon
    BY <1>3 DEF Create, At, PageInv, RangeInv
  <2>1. CASE MayCreate(t.first)
    <3> DEFINE u == [t EXCEPT !.first = t.first + 1, !.pc = IF t.first = t.last THEN "advance" ELSE "create"]
    <3>1. /\ u.first = t.first + 1 /\ u.last = t.last /\ u.now = t.now
          /\ u.pc = IF t.first = t.last THEN "advance" ELSE "create"
      BY <1>s DEF TickRecord
    <3>2. worker'[w] = u /\ CreateRun(t.first, OccurrenceTime(t.first)) /\ UNCHANGED <<schedule, current>>
      BY <1>3, <1>s, <2>1, UpdatesAlone DEF Create
    <3> HIDE DEF u
    <3>3. t.first \in Occurrences
      BY <1>n, <1>s, <2>0 DEF Occurrences
    <3>4. runs'[t.first].status # "none"
      BY <1>s, <3>2, <3>3, OccurrenceKeys DEF CreateRun, Known, NoRunYet, StoreTyped
    <3>5. RangeInv'
      BY <1>a, <1>b, <1>c, <1>n, <1>s, <2>0, <3>1, <3>2 DEF PageInv, RangeInv, Alone, Paging
    <3>6. BehindInv'
      <4>1. t.pc \in Paging
        BY <1>3 DEF Create, At, Paging
      <4>2. ASSUME ~Latest, NEW o \in Occurrences, o < t.first + 1 PROVE Known(o)'
        <5>1. CASE o = t.first
          BY <3>4, <5>1 DEF Known
        <5>2. CASE o # t.first
          <6>1. o < t.first
            BY <1>n, <4>2, <5>2, OccurrenceKeys
          <6> QED
            BY <1>a, <4>1, <4>2, <6>1, OccurrenceKeys DEF PageInv, BehindInv, KnownStays
        <5> QED
          BY <5>1, <5>2
      <4> QED
        BY <1>a, <1>c, <3>1, <3>2, <4>2, OccurrenceKeys DEF PageInv, BehindInv, Alone, KnownStays
    <3>7. CursorInv'
      <4>1. t.pc \in Paging /\ u.pc \in Paging
        BY <1>3, <3>1 DEF Create, At, Paging
      <4> QED
        BY <1>a, <1>b, <3>1, <3>2, <4>1 DEF PageInv, CursorInv, Alone, At, Paging
    <3> QED
      BY <1>n, <3>2, <3>5, <3>6, <3>7 DEF PageInv
  <2>2. CASE ~MayCreate(t.first)
    BY <1>3, <1>m, <2>2 DEF Create, Forgets
  <2> QED
    BY <2>1, <2>2
<1>4. CASE AdvanceCursor(w)
  <2>0. /\ 0 < t.last /\ t.first = t.last + 1 /\ t.last <= t.now /\ t.now <= clock /\ clock <= Horizon
        /\ (Once => clock <= 1) /\ t.pc \in Paging
    BY <1>4 DEF AdvanceCursor, At, PageInv, RangeInv, Paging
  <2>1. CASE w \in current
    <3>1. /\ schedule'.last = t.last /\ schedule'.next = Following(t.last) /\ current' = {} /\ runs' = runs
          /\ worker'[w].pc = "list" /\ worker'[w].first = 0 /\ worker'[w].last = 0 /\ worker'[w].now <= clock
      BY <1>4, <1>s, <2>1, MaterializedApart DEF AdvanceCursor, CompareAndSet, StoreTyped, PageInv
    <3>2. (schedule'.next = 0 /\ Once) \/ (schedule'.next = t.last + 1 /\ ~Once)
      BY <3>1 DEF Following, Once
    <3>3. RangeInv'
      BY <1>a, <1>b, <1>c, <1>n, <1>s, <2>0, <3>1, <3>2 DEF PageInv, RangeInv, Alone, Paging
    <3>4. BehindInv'
      <4>1. ASSUME ~Latest, NEW o \in Occurrences, o <= schedule'.last \/ o < schedule'.next PROVE Known(o)'
        <5>1. o < t.first
          BY <1>n, <2>0, <3>1, <3>2, <4>1, OccurrenceKeys
        <5> QED
          BY <1>a, <2>0, <4>1, <5>1, OccurrenceKeys DEF PageInv, BehindInv, KnownStays
      <4> QED
        BY <1>a, <1>c, <3>1, <4>1, OccurrenceKeys DEF PageInv, BehindInv, Alone, Paging, KnownStays
    <3>5. CursorInv'
      BY <1>n, <1>s, <2>0, <3>1, <3>2 DEF CursorInv
    <3>6. schedule.last <= t.last
      BY <2>0, <2>1 DEF PageInv, CursorInv
    <3> QED
      BY <1>n, <3>1, <3>3, <3>4, <3>5, <3>6 DEF PageInv
  <2>2. CASE w \notin current
    BY <1>4, <1>m, <2>2 DEF AdvanceCursor, CompareAndSet
  <2> QED
    BY <2>1, <2>2
<1> QED
  BY <1>p, <1>1, <1>2, <1>3, <1>4, RunStepApart DEF Step, PageInv

LEMMA PageStep == TypedInv /\ LeaseInv /\ PageInv /\ [Next]_vars => PageInv' /\ schedule'.last >= schedule.last
<1> SUFFICES ASSUME TypedInv, LeaseInv, PageInv, [Next]_vars PROVE PageInv' /\ schedule'.last >= schedule.last
  OBVIOUS
<1>s. StoreTyped /\ clock \in Nat /\ schedule.next \in Nat /\ schedule.last \in Nat /\ Horizon \in Nat
  BY StoreAssumption DEF TypedInv, StoreTyped
<1>1. ASSUME NEW w \in Workers, Step(w) \/ HandlerThrows(w) \/ Crash(w)
      PROVE  PageInv' /\ schedule'.last >= schedule.last
  BY <1>1, PageWorkerStep
<1>2. ASSUME UNCHANGED <<schedule, current, worker, policy, clock, api>>, KnownStays
      PROVE  PageInv' /\ schedule'.last >= schedule.last
  <2>1. RangeInv' /\ CursorInv'
    BY <1>2 DEF PageInv, RangeInv, CursorInv, Once, At
  <2>2. BehindInv'
    BY <1>2, OccurrenceKeys DEF PageInv, BehindInv, Latest, KnownStays
  <2> QED
    BY <1>2, <1>s, <2>1, <2>2 DEF PageInv
<1>3. ASSUME NEW r \in Keys, LeaseEnds(r) \/ Stall(r) PROVE PageInv' /\ schedule'.last >= schedule.last
  <2>1. KnownStays
    BY <1>s, <1>3 DEF LeaseEnds, Stall, Expires, StoreTyped, RunRecord, KnownStays, Known
  <2> QED
    BY <1>2, <1>3, <2>1 DEF LeaseEnds, Stall, beside
<1>4. ASSUME NEW r \in Triggers, Trigger(r) PROVE PageInv' /\ schedule'.last >= schedule.last
  <2>1. KnownStays
    BY <1>s, <1>4, CreateKeeps DEF Trigger, KnownStays, Known
  <2> QED
    BY <1>2, <1>4, <2>1 DEF Trigger
<1>5. CASE Due
  <2>0. UNCHANGED <<schedule, current, worker, runs, policy, api>> /\ clock' = clock + 1 /\ clock < Horizon
        /\ (Once => clock < 1) /\ (Once' <=> Once)
    BY <1>5 DEF Due, storeVars, Once
  <2>1. RangeInv'
    <3>1. \A v \in Workers : worker[v].now \in Nat
      BY DEF TypedInv, WorkerTyped, TickRecord
    <3> QED
      BY <1>s, <2>0, <3>1 DEF PageInv, RangeInv
  <2>2. BehindInv' /\ CursorInv'
    BY <2>0 DEF PageInv, BehindInv, CursorInv, Latest, Known, At
  <2> QED
    BY <1>s, <2>0, <2>1, <2>2 DEF PageInv
<1>6. ASSUME UNCHANGED <<runs, worker, policy, clock>>,
             schedule'.last = schedule.last, schedule'.next = schedule.next \/ (schedule.next = 0 /\ schedule'.next = 1),
             current' \subseteq {Api} \/ (UNCHANGED <<schedule, current>>),
             api' # "creating"
      PROVE  PageInv' /\ schedule'.last >= schedule.last
  <2>1. RangeInv'
    BY <1>6, <1>s DEF PageInv, RangeInv, Once
  <2>2. BehindInv'
    <3>1. \A o \in Occurrences : o \in Nat /\ o >= 1
      BY <1>s DEF Occurrences
    <3> QED
      BY <1>6, <1>s, <3>1 DEF PageInv, BehindInv, Latest, Known
  <2>3. CursorInv'
    <3>1. Api \notin Workers
      BY StoreAssumption
    <3> QED
      BY <1>6, <1>s, <3>1 DEF PageInv, CursorInv, At
  <2> QED
    BY <1>6, <1>s, <2>1, <2>2, <2>3 DEF PageInv
<1>7. CASE SetFirst
  <2>1. Api \in current => schedule.next = 0
    BY <1>7 DEF SetFirst, PageInv, CursorInv
  <2> QED
    BY <1>6, <1>7, <1>s, <2>1 DEF SetFirst, Write, StoreTyped
<1>8. CASE RegisterDriver
  BY <1>6, <1>8, <1>s DEF RegisterDriver, CompareAndSet
<1>9. ASSUME NEW s \in {"active", "paused", "deleted"}, ChangeStatus(s)
      PROVE  PageInv' /\ schedule'.last >= schedule.last
  BY <1>6, <1>9, <1>s DEF ChangeStatus, Write, StoreTyped
<1>10. CASE UNCHANGED vars
  BY <1>2, <1>10 DEF vars, storeVars, KnownStays, Known
<1> QED
  BY <1>1, <1>3, <1>4, <1>5, <1>7, <1>8, <1>9, <1>10 DEF Next

LEMMA PageInit == Init => PageInv
<1> SUFFICES ASSUME Init PROVE PageInv
  OBVIOUS
<1>1. /\ schedule.next = 0 /\ schedule.last = 0 /\ current = {Api} /\ clock = 0
      /\ \A w \in Workers : worker[w] = Idle
  BY DEF Init, StoreInit
<1>2. Idle.pc = "idle" /\ Idle.now = 0 /\ Idle.first = 0 /\ Idle.last = 0
  BY DEF Idle
<1>3. Horizon \in Nat /\ Api \notin Workers
  BY StoreAssumption
<1>4. RangeInv
  BY <1>1, <1>2, <1>3 DEF RangeInv, Paging
<1>5. BehindInv
  <2>1. \A o \in Occurrences : o \in Nat /\ o >= 1
    BY <1>3 DEF Occurrences
  <2> QED
    BY <1>1, <1>2, <2>1 DEF BehindInv, Paging
<1>6. CursorInv
  BY <1>1, <1>3 DEF CursorInv
<1> QED
  BY <1>4, <1>5, <1>6 DEF PageInv

LEMMA Page == Spec => []PageInv
BY PageInit, PageStep, Typed, Leasing, PTL DEF Spec

\* The cursor, and every page of occurrences, stay inside the horizon; a lease goes
\* with an active run.
THEOREM TypeOKHolds == Spec => []TypeOK
<1>1. TypedInv /\ LeaseInv /\ PageInv => TypeOK
  <2> SUFFICES ASSUME TypedInv, LeaseInv, PageInv PROVE TypeOK
    OBVIOUS
  <2>1. StoreTypeOK
    <3>1. \A r \in Keys : /\ runs[r].status \in RunStatus
                          /\ runs[r].lease # "none" <=> runs[r].status \in ActiveStatus
                          /\ runs[r].status = "pending" => runs[r].lease = "none"
      BY DEF TypedInv, RunRecord, LeaseInv, LeaseShape, ActiveStatus
    <3>2. schedule.next \in 0..Horizon + 1 /\ schedule.last \in 0..Horizon
      BY StoreAssumption DEF TypedInv, PageInv, RangeInv
    <3> QED
      BY <3>1, <3>2 DEF StoreTypeOK, RunStatus, TypedInv
  <2>2. clock \in 0..Horizon
    BY StoreAssumption DEF TypedInv, PageInv, RangeInv
  <2>3. ASSUME NEW w \in Workers
        PROVE  /\ worker[w].run \in Keys \cup {NoKey} /\ worker[w].queue \subseteq Keys
               /\ worker[w].last \in 0..Horizon /\ worker[w].first \in 0..worker[w].last + 1
    <3>1. worker[w] \in TickRecord
      BY DEF TypedInv, WorkerTyped
    <3>2. worker[w].first \in Nat /\ worker[w].last \in Nat /\ worker[w].now \in Nat /\ clock \in Nat /\ Horizon \in Nat
      BY <3>1, StoreAssumption DEF TickRecord, TypedInv
    <3> QED
      BY <3>1, <3>2 DEF TickRecord, PageInv, RangeInv, Paging
  <2> QED
    BY <2>1, <2>2, <2>3 DEF TypeOK
<1> QED
  BY <1>1, Typed, Leasing, Page, PTL

\* No occurrence behind the cursor is without its run, whoever paused, resumed,
\* crashed or raced between the page of runs and the write of the cursor.
THEOREM NothingDroppedHolds == Spec => []NothingDropped
<1>1. PageInv => NothingDropped
  BY DEF PageInv, BehindInv, NothingDropped
<1> QED
  BY <1>1, Page, PTL

\* No step takes the last occurrence back: the compare-and-set refuses a worker that
\* read the cursor before another one moved it.
THEOREM CursorAdvancesHolds == Spec => CursorAdvances
<1>1. TypedInv /\ LeaseInv /\ PageInv /\ [Next]_vars => [schedule'.last >= schedule.last]_vars
  BY PageStep
<1> QED
  BY <1>1, Typed, Leasing, Page, PTL DEF Spec, CursorAdvances

=============================================================================
