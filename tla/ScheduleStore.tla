---------------------------- MODULE ScheduleStore ----------------------------
(***************************************************************************)
(* One schedule, its runs and their leases                                 *)
(* (packages/core/src/scheduling/store.ts, state-machine.ts; the same      *)
(* operations over SQLite in packages/node/src/scheduling/                 *)
(* sqlite-schedule-store.ts).                                              *)
(*                                                                         *)
(* Each store call is one transaction.  A run is named by its idempotency  *)
(* key: the occurrence it is for, or the caller's key of a manual trigger. *)
(* A schedule's revision is only ever compared for equality, so what is    *)
(* kept is who has read the present one.                                   *)
(***************************************************************************)
EXTENDS Naturals, FiniteSets

CONSTANTS
  Horizon,        \* bound: occurrences 1..Horizon
  Triggers,       \* idempotency keys of manual triggers
  Workers,        \* local schedule workers
  Api,            \* the schedule service
  MaxConcurrency  \* policy.maxConcurrency

Occurrences == 1..Horizon
Keys == Occurrences \cup Triggers
Clients == Workers \cup {Api}

ASSUME StoreAssumption ==
  /\ Horizon \in Nat \ {0} /\ MaxConcurrency \in Nat \ {0}
  /\ Triggers \cap Nat = {} /\ IsFiniteSet(Triggers)
  /\ Api \notin Workers

VARIABLES
  schedule,  \* status, nextOccurrenceAt, lastOccurrenceAt; 0 is no occurrence
  current,   \* the clients that know the present revision
  runs       \* occurrenceAt, status, attempts and lease of each run

storeVars == <<schedule, current, runs>>

ScheduleStatus == {"active", "paused", "completed", "deleted"}
ActiveStatus == {"claimed", "running"}
OpenStatus == ActiveStatus \cup {"pending"}
TerminalStatus == {"succeeded", "failed", "skipped", "cancelled"}

NoRunYet == [at |-> 0, status |-> "none", attempts |-> 0, lease |-> "none"]

StoreInit ==
  /\ schedule = [status |-> "active", next |-> 0, last |-> 0]
  /\ current = {Api}
  /\ runs = [r \in Keys |-> NoRunYet]

-----------------------------------------------------------------------------
(* The schedule: every write makes a new revision                          *)

Write(d, s) == schedule' = s /\ current' = {d}

Reads(d) == current' = current \cup {d}
Forgets(d) == current' = current \ {d}

\* expectedRevision, as the last thing a client does: a conflict writes nothing.
CompareAndSet(d, s) ==
  IF d \in current THEN schedule' = s /\ current' = {} ELSE UNCHANGED <<schedule, current>>

MayBecome(from, to) ==
  \/ from = "active" /\ to \in {"paused", "completed", "deleted"}
  \/ from = "paused" /\ to \in {"active", "completed", "deleted"}
  \/ from = "completed" /\ to = "deleted"

-----------------------------------------------------------------------------
(* Runs                                                                    *)

Known(r) == runs[r].status # "none"
Leased(r) == runs[r].status \in ActiveStatus /\ runs[r].lease = "live"

\* A known key is answered with its run; a new one needs an active schedule.
MayCreate(r) == Known(r) \/ schedule.status = "active"

CreateRun(r, at) ==
  runs' = IF Known(r) THEN runs ELSE [runs EXCEPT ![r] = [NoRunYet EXCEPT !.at = at, !.status = "pending"]]

\* Mutant: the worker counted the active runs already.
CanClaim_Uncounted(r) ==
  /\ schedule.status = "active"
  /\ runs[r].status \in OpenStatus /\ ~Leased(r)

\* Mutant: a run that has started is not looked at again.
CanClaim_PendingOnly(r) ==
  /\ schedule.status = "active"
  /\ runs[r].status = "pending"
  /\ Cardinality({q \in Keys \ {r} : Leased(q)}) < MaxConcurrency

\* Mutant: a lease protects a run that is claimed, not one that has started.
CanClaim_TakesRunning(r) ==
  /\ schedule.status = "active"
  /\ runs[r].status \in OpenStatus /\ (runs[r].status = "claimed" => ~Leased(r))
  /\ Cardinality({q \in Keys \ {r} : Leased(q)}) < MaxConcurrency

CanClaim(r) ==
  /\ schedule.status = "active"
  /\ runs[r].status \in OpenStatus /\ ~Leased(r)
  /\ Cardinality({q \in Keys \ {r} : Leased(q)}) < MaxConcurrency

\* The number of the attempt stands for the fresh lease token.
ClaimRun(r) ==
  runs' = [runs EXCEPT ![r].status = "claimed", ![r].attempts = @ + 1, ![r].lease = "live"]

\* Mutant: any live lease of the run will do.
Owns_AnyLease(r, token) == Leased(r)

Owns(r, token) == Leased(r) /\ runs[r].attempts = token

StartRun(r) == runs' = [runs EXCEPT ![r].status = "running"]

\* Mutant: the released run keeps the lease.
ReleaseRun_Leased(r) == runs' = [runs EXCEPT ![r].status = "pending"]

ReleaseRun(r) == runs' = [runs EXCEPT ![r].status = "pending", ![r].lease = "none"]
CompleteRun(r, status) == runs' = [runs EXCEPT ![r].status = status, ![r].lease = "none"]

\* SCHEDULE_RUN_STATUS_TRANSITIONS: a run that has started cannot be skipped.
Completable(r, status) ==
  \/ runs[r].status = "claimed" /\ status \in {"failed", "skipped", "cancelled"}
  \/ runs[r].status = "running" /\ status \in {"succeeded", "failed", "cancelled"}

StoreTypeOK ==
  /\ schedule.status \in ScheduleStatus
  /\ current \subseteq Clients
  /\ schedule.next \in 0..Horizon + 1 /\ schedule.last \in 0..Horizon
  /\ \A r \in Keys : /\ runs[r].status \in {"none"} \cup OpenStatus \cup TerminalStatus
                     /\ runs[r].lease # "none" <=> runs[r].status \in ActiveStatus
                     /\ runs[r].status = "pending" => runs[r].lease = "none"
=============================================================================
