----------------------------- MODULE Scheduling -----------------------------
(***************************************************************************)
(* Local schedule workers over one store                                   *)
(* (packages/node/src/scheduling/local-schedule-driver.ts) beside the      *)
(* schedule service (packages/server/src/services/schedules.ts).           *)
(*                                                                         *)
(* A tick turns due occurrences into runs, moves the schedule's cursor and *)
(* then works through the open runs.  A worker awaits each store call, so  *)
(* every call is a step of its own.  The clock counts occurrences.         *)
(***************************************************************************)
EXTENDS ScheduleStore

CONSTANTS
  Policies,  \* kind of timing, catch-up policy and maxOccurrencesPerSchedulePerTick
  Grace,     \* policy.misfireGraceSeconds, in occurrences
  Results,   \* statuses the handler may report
  MaxEvents, \* bound: calls of the service, crashes, stalls and handlers that throw
  NoKey

Policy == [kind : {"once", "cron"}, catchUp : {"skip", "latest"}, page : Nat \ {0}]

ASSUME SchedulingAssumption ==
  /\ Policies \subseteq Policy
  /\ Grace \in Nat /\ MaxEvents \in Nat
  /\ Results \subseteq TerminalStatus
  /\ NoKey \notin Keys

VARIABLES
  policy,    \* kind, catchUp and page, set with the schedule and its workers
  clock,     \* the last occurrence that is due
  worker,    \* each worker's tick
  api,       \* the step a call of the service has come to
  decided,   \* history: the attempt that made a run terminal
  stalled,   \* history: a worker lost the lease it was using
  events     \* events so far

vars == <<storeVars, policy, clock, worker, api, decided, stalled, events>>

Idle == [pc |-> "idle", now |-> 0, first |-> 0, last |-> 0, queue |-> {}, newest |-> {},
         run |-> NoKey, token |-> 0, ran |-> FALSE]

Init ==
  /\ StoreInit
  /\ policy \in Policies
  /\ clock = 0
  /\ worker = [w \in Workers |-> Idle]
  /\ api = "creating"
  /\ decided = [r \in Keys |-> 0]
  /\ stalled = FALSE
  /\ events = 0

Once == policy.kind = "once"
Latest == policy.catchUp = "latest"
Following(o) == IF Once THEN 0 ELSE o + 1

At(w, pc) == worker[w].pc = pc
Goes(w, pc) == worker' = [worker EXCEPT ![w].pc = pc]

\* A manual trigger comes between two occurrences.
OccurrenceTime(o) == 2 * o
TriggerTime == 2 * clock + 1

Event == events < MaxEvents /\ events' = events + 1

beside == <<policy, clock, api, stalled, events>>

-----------------------------------------------------------------------------
(* Materialization                                                         *)

\* Mutant: an occurrence is due after its time.
IsDue_Strict(next, now) == next # 0 /\ next < now

IsDue(next, now) == next # 0 /\ next <= now

LastDue(next, now) ==
  IF Once THEN next ELSE IF next + policy.page <= now THEN next + policy.page - 1 ELSE now

\* "latest" jumps over a backlog larger than a page.
Jumps(next, now) == Latest /\ ~Once /\ next + policy.page <= now

\* On from the cursor to the page of due occurrences, or to the open runs.
From(t, next) ==
  IF ~IsDue(next, t.now) THEN [t EXCEPT !.pc = "list"]
  ELSE IF Jumps(next, t.now) THEN [t EXCEPT !.pc = "create", !.first = t.now, !.last = t.now]
  ELSE [t EXCEPT !.pc = "create", !.first = next, !.last = LastDue(next, t.now)]

Updates(w, t) == worker' = [worker EXCEPT ![w] = t]
Materialized(w) == Updates(w, [worker[w] EXCEPT !.pc = "list", !.first = 0, !.last = 0])

\* The schedule is listed with its cursor and revision.
Tick(w) ==
  /\ At(w, "idle")
  /\ LET t == [Idle EXCEPT !.now = clock]
         listed == From(t, schedule.next)
     IN  \/ /\ schedule.status # "active"
            /\ Updates(w, [t EXCEPT !.pc = "list"]) /\ UNCHANGED current
         \/ /\ schedule.status = "active" /\ schedule.next = 0
            /\ Updates(w, [t EXCEPT !.pc = "cursor"]) /\ Reads(w)
         \/ /\ schedule.status = "active" /\ schedule.next # 0
            /\ Updates(w, listed)
            /\ IF listed.pc = "create" THEN Reads(w) ELSE UNCHANGED current
  /\ UNCHANGED <<schedule, runs, decided, beside>>

\* No next occurrence: the first one after the schedule's creation.
SetCursor(w) ==
  /\ At(w, "cursor")
  /\ IF w \in current
       THEN Write(w, [schedule EXCEPT !.next = 1]) /\ Updates(w, From(worker[w], 1))
       ELSE Materialized(w) /\ UNCHANGED <<schedule, current>>
  /\ UNCHANGED <<runs, decided, beside>>

\* One run of the page, oldest first; a refused one ends the page.
Create(w) ==
  /\ At(w, "create")
  /\ LET o == worker[w].first
     IN  IF MayCreate(o)
           THEN /\ CreateRun(o, OccurrenceTime(o))
                /\ Updates(w, [worker[w] EXCEPT !.first = o + 1, !.pc = IF o = worker[w].last THEN "advance" ELSE "create"])
                /\ UNCHANGED current
           ELSE Materialized(w) /\ Forgets(w) /\ UNCHANGED runs
  /\ UNCHANGED <<schedule, decided, beside>>

\* Mutant: the next occurrence is the first one after the present time.
AdvanceCursor_FromNow(w) ==
  /\ At(w, "advance")
  /\ CompareAndSet(w, [schedule EXCEPT !.last = worker[w].last, !.next = Following(clock)])
  /\ Materialized(w)
  /\ UNCHANGED <<runs, decided, beside>>

AdvanceCursor(w) ==
  /\ At(w, "advance")
  /\ CompareAndSet(w, [schedule EXCEPT !.last = worker[w].last, !.next = Following(worker[w].last)])
  /\ Materialized(w)
  /\ UNCHANGED <<runs, decided, beside>>

-----------------------------------------------------------------------------
(* Runs, oldest first                                                      *)

\* On to the next listed run; the tick ends with the last one.
Continue(w, t) ==
  Updates(w, IF t.queue = {} THEN Idle
             ELSE [t EXCEPT !.pc = "look", !.run = NoKey, !.token = 0])

List(w) ==
  /\ At(w, "list")
  /\ Continue(w, [worker[w] EXCEPT !.queue = {r \in Keys : runs[r].status \in OpenStatus /\ ~Leased(r)}])
  /\ UNCHANGED <<storeVars, decided, beside>>

\* The newest run, read once a tick under "latest".
Newest(w) ==
  IF worker[w].newest # {} THEN worker[w].newest
  ELSE {r \in Keys : Known(r) /\ \A q \in Keys : Known(q) => runs[q].at <= runs[r].at}

Expired(w, r) == worker[w].now > runs[r].at \div 2 + Grace
Superseded(w, r) == Latest /\ r \notin Newest(w)

Look(w) ==
  /\ At(w, "look")
  /\ \E r \in worker[w].queue :
       /\ \A q \in worker[w].queue : runs[r].at <= runs[q].at
       /\ LET t == [worker[w] EXCEPT !.queue = @ \ {r}]
              seen == [t EXCEPT !.newest = IF Latest THEN Newest(w) ELSE {}]
              full == Cardinality({q \in Keys : Leased(q)}) >= MaxConcurrency
          IN  \/ /\ schedule.status # "active"
                 /\ Continue(w, t)
              \/ /\ schedule.status = "active" /\ (Expired(w, r) \/ Superseded(w, r))
                 /\ Updates(w, [seen EXCEPT !.pc = "skip", !.run = r])
              \/ /\ schedule.status = "active" /\ ~Expired(w, r) /\ ~Superseded(w, r)
                 /\ IF full THEN Continue(w, seen) ELSE Updates(w, [seen EXCEPT !.pc = "claim", !.run = r])
  /\ UNCHANGED <<storeVars, decided, beside>>

Run(w) == worker[w].run
Mine(w) == Owns(Run(w), worker[w].token)
NextRun(w) == Continue(w, worker[w])
TickEnds(w) == Updates(w, Idle)

\* releaseRun does nothing for a lease that is lost.
GivesUp(w) == IF Mine(w) THEN Goes(w, "free") ELSE NextRun(w)

Claim(w) ==
  /\ worker[w].pc \in {"skip", "claim"}
  /\ IF CanClaim(Run(w))
       THEN /\ ClaimRun(Run(w))
            /\ worker' = [worker EXCEPT ![w].token = runs[Run(w)].attempts + 1,
                                        ![w].pc = IF @ = "skip" THEN "skipping" ELSE "start"]
       ELSE NextRun(w) /\ UNCHANGED runs
  /\ UNCHANGED <<schedule, current, decided, beside>>

\* A lease counts from the start of the tick: after a long handler it would be
\* over before it is taken, and the store refuses it.
ClaimTooLate(w) ==
  /\ worker[w].pc \in {"skip", "claim"} /\ worker[w].ran
  /\ TickEnds(w)
  /\ UNCHANGED <<storeVars, decided, beside>>

Terminates(w, status) ==
  /\ CompleteRun(Run(w), status)
  /\ decided' = [decided EXCEPT ![Run(w)] = worker[w].token]
  /\ IF Once THEN Goes(w, "once") ELSE NextRun(w)

\* A lease lost before the skip ends the tick with the conflict.
Skip(w) ==
  /\ At(w, "skipping")
  /\ IF Mine(w) /\ Completable(Run(w), "skipped")
       THEN Terminates(w, "skipped")
       ELSE TickEnds(w) /\ UNCHANGED <<runs, decided>>
  /\ UNCHANGED <<schedule, current, beside>>

\* Only while the schedule is still active.
Start(w) ==
  /\ At(w, "start")
  /\ IF Mine(w) /\ schedule.status = "active"
       THEN /\ StartRun(Run(w))
            /\ worker' = [worker EXCEPT ![w].pc = "run", ![w].ran = TRUE]
       ELSE GivesUp(w) /\ UNCHANGED runs
  /\ UNCHANGED <<schedule, current, decided, beside>>

\* The handler returns; a completion the store refuses releases the run.
Finish(w) ==
  /\ At(w, "run")
  /\ \E status \in Results :
       IF Mine(w) /\ Completable(Run(w), status)
         THEN Terminates(w, status)
         ELSE GivesUp(w) /\ UNCHANGED <<runs, decided>>
  /\ UNCHANGED <<schedule, current, beside>>

Release(w) ==
  /\ At(w, "free")
  /\ IF Mine(w) THEN ReleaseRun(Run(w)) ELSE UNCHANGED runs
  /\ NextRun(w)
  /\ UNCHANGED <<schedule, current, decided, beside>>

\* completeOnceSchedule: any terminal run of a one-time schedule completes it.
ReadOnce(w) ==
  /\ At(w, "once")
  /\ IF schedule.status = "active"
       THEN Goes(w, "settle") /\ Reads(w)
       ELSE NextRun(w) /\ UNCHANGED current
  /\ UNCHANGED <<schedule, runs, decided, beside>>

SettleOnce(w) ==
  /\ At(w, "settle")
  /\ CompareAndSet(w, [schedule EXCEPT !.status = "completed"])
  /\ NextRun(w)
  /\ UNCHANGED <<runs, decided, beside>>

-----------------------------------------------------------------------------
(* Time, faults and leases                                                 *)

HandlerThrows(w) ==
  /\ At(w, "run") /\ Event
  /\ GivesUp(w)
  /\ UNCHANGED <<storeVars, policy, clock, api, decided, stalled>>

Crash(w) ==
  /\ ~At(w, "down") /\ Event
  /\ Updates(w, [Idle EXCEPT !.pc = "down"])
  /\ Forgets(w)
  /\ UNCHANGED <<schedule, runs, policy, clock, api, decided, stalled>>

Restart(w) ==
  /\ At(w, "down")
  /\ worker' = [worker EXCEPT ![w] = Idle]
  /\ UNCHANGED <<storeVars, decided, beside>>

Attended(r) == \E w \in Workers : Run(w) = r /\ worker[w].token = runs[r].attempts
Expires(r) == runs' = [runs EXCEPT ![r].lease = "expired"]

\* The lease of a worker that died.
LeaseEnds(r) ==
  /\ Leased(r) /\ ~Attended(r)
  /\ Expires(r)
  /\ UNCHANGED <<schedule, current, worker, decided, beside>>

\* A worker too slow for its heartbeat, or whose heartbeat failed.
Stall(r) ==
  /\ Leased(r) /\ Attended(r) /\ Event
  /\ Expires(r)
  /\ stalled' = TRUE
  /\ UNCHANGED <<schedule, current, worker, policy, clock, api, decided>>

Due ==
  /\ clock < Horizon /\ (Once => clock < 1)
  /\ clock' = clock + 1
  /\ UNCHANGED <<storeVars, policy, worker, api, decided, stalled, events>>

-----------------------------------------------------------------------------
(* The schedule service                                                    *)

\* create: the row exists, its first occurrence follows with the next write.
SetFirst ==
  /\ api = "creating"
  /\ IF Api \in current
       THEN Write(Api, [schedule EXCEPT !.next = 1]) /\ api' = "driver"
       ELSE api' = "idle" /\ UNCHANGED <<schedule, current>>
  /\ UNCHANGED <<runs, worker, policy, clock, decided, stalled, events>>

\* pause, resume, delete: the status first, the driver's answer after it.
ChangeStatus(status) ==
  /\ api = "idle" /\ Event
  /\ MayBecome(schedule.status, status)
  /\ Write(Api, [schedule EXCEPT !.status = status])
  /\ api' = "driver"
  /\ UNCHANGED <<runs, worker, policy, clock, decided, stalled>>

RegisterDriver ==
  /\ api = "driver"
  /\ CompareAndSet(Api, schedule)
  /\ api' = "idle"
  /\ UNCHANGED <<runs, worker, policy, clock, decided, stalled, events>>

Trigger(r) ==
  /\ schedule.status = "active" /\ ~Known(r) /\ Event
  /\ CreateRun(r, TriggerTime)
  /\ UNCHANGED <<schedule, current, worker, policy, clock, api, decided, stalled>>

-----------------------------------------------------------------------------

Step(w) ==
  \/ Tick(w) \/ SetCursor(w) \/ Create(w) \/ AdvanceCursor(w)
  \/ List(w) \/ Look(w) \/ Claim(w) \/ ClaimTooLate(w)
  \/ Skip(w) \/ Start(w) \/ Finish(w) \/ Release(w)
  \/ ReadOnce(w) \/ SettleOnce(w) \/ Restart(w)

Next ==
  \/ \E w \in Workers : Step(w) \/ HandlerThrows(w) \/ Crash(w)
  \/ \E r \in Keys : LeaseEnds(r) \/ Stall(r)
  \/ Due
  \/ SetFirst \/ RegisterDriver
  \/ \E s \in {"active", "paused", "deleted"} : ChangeStatus(s)
  \/ \E r \in Triggers : Trigger(r)

Spec == Init /\ [][Next]_vars

\* Workers poll and handlers return; a lease nobody renews runs out.
FairSpec ==
  /\ Spec
  /\ \A w \in Workers : WF_vars(Step(w))
  /\ \A r \in Keys : WF_vars(LeaseEnds(r))

-----------------------------------------------------------------------------

TypeOK ==
  /\ StoreTypeOK
  /\ clock \in 0..Horizon
  /\ \A w \in Workers : /\ worker[w].run \in Keys \cup {NoKey}
                        /\ worker[w].queue \subseteq Keys
                        /\ worker[w].last \in 0..Horizon /\ worker[w].first \in 0..worker[w].last + 1

\* The cursor never passes an occurrence that has no run: two workers, a pause or
\* a crash between the page of runs and the cursor lose none of them.
NothingDropped ==
  \A o \in Occurrences : ~Latest /\ (o <= schedule.last \/ o < schedule.next) => Known(o)

\* The cursor does not go back: a worker that read it before another one moved it
\* on changes nothing.
CursorAdvances == [][schedule'.last >= schedule.last]_vars

\* maxConcurrency holds across workers that counted before either had claimed.
ConcurrencyCap == Cardinality({r \in Keys : Leased(r)}) <= MaxConcurrency

\* Two handlers only ever work on one run when a worker lost its lease.
OverlapNeedsStall ==
  \A v, w \in Workers :
    v # w /\ At(v, "run") /\ At(w, "run") /\ Run(v) = Run(w) => stalled

\* A run is decided once, by its newest attempt: a worker whose lease was taken
\* over cannot complete what another one works on.
DecidedByNewest ==
  \A r \in Keys : runs[r].status \in TerminalStatus => decided[r] = runs[r].attempts

\* Every run of a schedule that stays active ends, over crashed and stalled
\* workers and handlers that throw.
RunsSettle ==
  \A r \in Keys :
    Known(r) /\ schedule.status = "active" ~> runs[r].status \in TerminalStatus \/ schedule.status # "active"

\* Without catch-up to the latest, every occurrence that comes due gets its run.
DueRuns ==
  \A o \in Occurrences :
    clock >= o /\ ~Latest /\ schedule.status = "active" ~> Known(o) \/ schedule.status # "active"
=============================================================================
