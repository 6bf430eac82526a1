---------------------------- MODULE RunDelivery ----------------------------
(***************************************************************************)
(* Durable delivery of one run: attempts that execute it under a renewable *)
(* lease with a heartbeat (executeOwnedRun), reconcilers that finish what  *)
(* a dead attempt left (reconcileInterruptedRun), the cancellation route,  *)
(* and followers that replay the journal and its live tail.                *)
(***************************************************************************)
EXTENDS Naturals, FiniteSets, Functions, FiniteSetsExt

CONSTANTS
  Owners,         \* execution attempts, each with its own lease token
  Reconcilers,    \* readers that reconcile while they follow
  Followers,
  Cancellers,     \* cancellation requests
  Stores,         \* kinds of event store a host may have, see store
  MaxChunks,      \* bound: response events an attempt writes
  MaxActors,      \* bound: attempts, cancellations and followers that take part
  MaxFaults,      \* bound: crashes, stalls and failed calls of the store
  PromptTerminal, \* TRUE: a terminal event is written within the lease renewed for it
  None

ASSUME DeliveryAssumption ==
  /\ None \notin Owners \cup Reconcilers
  /\ Owners \cap Reconcilers = {}
  /\ Stores \subseteq {"transactional", "sql"}
  /\ MaxChunks \in Nat /\ MaxActors \in Nat /\ MaxFaults \in Nat
  /\ PromptTerminal \in BOOLEAN

VARIABLES
  store,     \* "sql" allocates a sequence and inserts the event in two statements
  lease,     \* the row of the lease: holder, and whether it is still live
  last,      \* the last sequence allocated
  events,    \* the journal: sequence -> event
  cancel,    \* a cancellation request is stored
  proc,      \* who may write the journal: phase, event being written, its sequence
  flag,      \* what each attempt knows of itself
  chunks,    \* response events each attempt has started to write
  canceller, \* progress of each cancellation request
  follower,  \* phase and cursor of each follower
  faults

journal == <<last, events>>
vars == <<store, lease, last, events, cancel, proc, flag, chunks, canceller, follower, faults>>

Beat(o) == <<"heartbeat", o>>
Beats == {Beat(o) : o \in Owners}
Writers == Owners \cup Reconcilers \cup Beats

ASSUME BeatAssumption == Beats \cap (Owners \cup Reconcilers) = {}

Terminal == {"interrupted", "heartbeat failed", "failed", "cancelled", "completed"}
Event == {"accepted", "started", "chunk", "cancelling"} \cup Terminal

NoLease == [holder |-> None, live |-> FALSE]
Is(phase) == [pc |-> phase, id |-> "accepted", seq |-> 0]
Writing(id) == [pc |-> "append", id |-> id, seq |-> 0]

At(w, phase) == proc[w].pc = phase
Goes(w, phase) == proc' = [proc EXCEPT ![w] = Is(phase)]
Writes(w, id) == proc' = [proc EXCEPT ![w] = Writing(id)]
Knows(o, what) == what \in flag[o]
Learns(o, what) == flag' = [flag EXCEPT ![o] = @ \cup {what}]

Init ==
  /\ store \in Stores
  /\ lease = NoLease
  /\ last = 0 /\ events = << >>
  /\ cancel = FALSE
  /\ proc = [w \in Writers |-> Is("idle")]
  /\ flag = [o \in Owners |-> {}]
  /\ chunks = [o \in Owners |-> 0]
  /\ canceller = [c \in Cancellers |-> "idle"]
  /\ follower = [f \in Followers |-> [pc |-> "idle", cursor |-> 0]]
  /\ faults = 0

\* The bound on what takes part in a behaviour.
Room ==
  Cardinality({o \in Owners : ~At(o, "idle")}) + Cardinality({c \in Cancellers : canceller[c] # "idle"})
    + Cardinality({f \in Followers : follower[f].pc # "idle"}) < MaxActors

-----------------------------------------------------------------------------
(* The journal                                                             *)

Ids == Range(events)
Ended == Ids \cap Terminal # {}

\* Readers refuse a history whose first event is not number 1.
Readable == events = << >> \/ 1 \in DOMAIN events

\* run.accepted alone does not count as a start.
Started == Ids \ {"accepted"} # {}

\* An event with a stable identity is written once; chunks get a new one.
Known(id) == id # "chunk" /\ id \in Ids

\* Where the writer goes once its event is in the journal.
AfterAppend(w, id) ==
  IF w \in Beats THEN "done"
  ELSE CASE id = "accepted" -> "claim"
         [] id = "started"  -> "fence"
         [] id \in {"cancelling", "chunk"}      -> "produce"
         [] id \in {"interrupted", "cancelled"} -> "clear"
         [] OTHER           -> "release"

Written(w) == Goes(w, AfterAppend(w, proc[w].id))

\* The event takes its place in the journal.
Puts(n, id) ==
  events' = [k \in DOMAIN events \cup {n} |-> IF k \in DOMAIN events THEN events[k] ELSE id]

\* append: the lookup of the identity, and the sequence of a new event.
Allocate(w) ==
  /\ At(w, "append") /\ proc[w].seq = 0
  /\ IF Known(proc[w].id)
       THEN Written(w) /\ UNCHANGED journal
       ELSE /\ last' = last + 1
            /\ IF store = "transactional"
                 THEN Written(w) /\ Puts(last + 1, proc[w].id)
                 ELSE /\ proc' = [proc EXCEPT ![w].seq = last + 1]
                      /\ UNCHANGED events
  /\ UNCHANGED <<store, lease, cancel, flag, chunks, canceller, follower, faults>>

\* append: the insertion, which gives way to an event with the same identity.
Insert(w) ==
  /\ At(w, "append") /\ proc[w].seq > 0
  /\ IF Known(proc[w].id) THEN UNCHANGED events ELSE Puts(proc[w].seq, proc[w].id)
  /\ Written(w)
  /\ UNCHANGED <<store, lease, last, cancel, flag, chunks, canceller, follower, faults>>

-----------------------------------------------------------------------------
(* The lease                                                               *)

Holds(w) == lease.holder = w /\ lease.live

\* A claim succeeds without a lease and over an expired one.
CanClaim == ~lease.live
Claims(w) == lease' = [holder |-> w, live |-> TRUE]

\* release does not look at the expiry, only at the owner and its token.
Releases(w) == lease' = IF lease.holder = w THEN NoLease ELSE lease

Lapse == lease' = [lease EXCEPT !.live = FALSE]

\* Nobody will renew the lease any more.
Unattended ==
  \/ lease.holder \in Owners /\ \/ proc[lease.holder].pc \in {"dead", "done"}
                                \/ At(lease.holder, "produce") /\ At(Beat(lease.holder), "done")
  \/ lease.holder \in Reconcilers /\ At(lease.holder, "idle")

Expire ==
  /\ lease.live /\ Unattended
  /\ Lapse
  /\ UNCHANGED <<store, journal, cancel, proc, flag, chunks, canceller, follower, faults>>

-----------------------------------------------------------------------------
(* executeOwnedRun                                                         *)

kept == <<store, journal, chunks, canceller, follower, faults>>

\* A new attempt, with a new lease token; which one never matters.
NewAttempt(o) == o = CHOOSE p \in Owners : At(p, "idle")

\* A continuation first checks that nothing was admitted and records run.accepted;
\* an original request claims at once.
Request(o) ==
  /\ At(o, "idle") /\ NewAttempt(o) /\ Room
  /\ \/ Goes(o, "claim")
     \/ /\ Readable /\ ~Started
        /\ lease.holder = None \/ lease.live
        /\ Writes(o, "accepted")
  /\ UNCHANGED <<kept, lease, cancel, flag>>

Claim(o) ==
  /\ At(o, "claim")
  /\ IF CanClaim THEN Claims(o) /\ Goes(o, "inspect")
                 ELSE Goes(o, "done") /\ UNCHANGED lease
  /\ UNCHANGED <<kept, cancel, flag>>

\* inspectOwnedRunHistory, under the lease.
Inspect(o) ==
  /\ At(o, "inspect")
  /\ IF ~Readable \/ Ended
       THEN Goes(o, "release") /\ UNCHANGED flag
       ELSE /\ Goes(o, "admit")
            /\ IF Started THEN Learns(o, "started before") ELSE UNCHANGED flag
  /\ UNCHANGED <<kept, lease, cancel>>

\* A run that was started before is never executed again.
Admit(o) ==
  /\ At(o, "admit")
  /\ IF Holds(o)
       THEN /\ Writes(o, IF Knows(o, "started before") THEN "interrupted" ELSE "started")
            /\ UNCHANGED flag
       ELSE Goes(o, "release") /\ Learns(o, "lost")
  /\ UNCHANGED <<kept, lease, cancel>>

\* Mutant: the lease is not looked at again after run.started.
Fence_Skipped(o) ==
  /\ At(o, "fence")
  /\ Goes(o, "check") /\ Learns(o, "admitted")
  /\ UNCHANGED <<kept, lease, cancel>>

\* The admission fence: whoever replaced the lease meanwhile wins.
Fence(o) ==
  /\ At(o, "fence")
  /\ IF Holds(o) THEN Goes(o, "check") /\ Learns(o, "admitted")
                 ELSE Goes(o, "release") /\ UNCHANGED flag
  /\ UNCHANGED <<kept, lease, cancel>>

\* The producer starts, aborted at once if the run was cancelled before; the
\* heartbeat only runs beside a producer that was not.
StartProducer(o) ==
  /\ At(o, "check")
  /\ IF cancel
       THEN Writes(o, "cancelling") /\ Learns(o, "cancelled")
       ELSE /\ proc' = [proc EXCEPT ![o] = Is("produce"), ![Beat(o)] = Is("wait")]
            /\ UNCHANGED flag
  /\ UNCHANGED <<kept, lease, cancel>>

WriteChunk(o) ==
  /\ At(o, "produce")
  /\ chunks[o] < MaxChunks
  /\ chunks' = [chunks EXCEPT ![o] = @ + 1]
  /\ Writes(o, "chunk")
  /\ UNCHANGED <<store, journal, lease, cancel, flag, canceller, follower, faults>>

Aborted(o) == flag[o] \cap {"cancelled", "lost", "heartbeat failed"} # {}

ProducerEnds(o) ==
  /\ At(o, "produce")
  /\ Goes(o, "drain")
  /\ \/ UNCHANGED flag
     \/ Learns(o, "failed")
  /\ UNCHANGED <<kept, lease, cancel>>

\* Mutant: the heartbeat is told to stop, and not waited for.
Drain_NoWait(o) ==
  /\ At(o, "drain")
  /\ Goes(o, "decide")
  /\ UNCHANGED <<kept, lease, cancel, flag>>

\* stopAndDrainHeartbeat waits for a heartbeat that is under way.
Drain(o) ==
  /\ At(o, "drain")
  /\ proc[Beat(o)].pc \in {"idle", "wait", "done"}
  /\ proc' = [proc EXCEPT ![o] = Is("decide"), ![Beat(o)] = Is("done")]
  /\ UNCHANGED <<kept, lease, cancel, flag>>

Outcome(o) ==
  IF Knows(o, "heartbeat failed") THEN "heartbeat failed"
  ELSE IF Knows(o, "cancelled") THEN "cancelled"
  ELSE IF Knows(o, "failed") THEN "failed" ELSE "completed"

\* The lease is renewed before the terminal event is written.
Decide(o) ==
  /\ At(o, "decide")
  /\ IF ~Knows(o, "lost") /\ Holds(o)
       THEN Writes(o, Outcome(o)) /\ UNCHANGED flag
       ELSE Goes(o, "release") /\ Learns(o, "lost")
  /\ UNCHANGED <<kept, lease, cancel>>

ClearCancellation(w) ==
  /\ At(w, "clear")
  /\ cancel' = FALSE
  /\ Goes(w, "release")
  /\ UNCHANGED <<kept, lease, flag>>

Release(w) ==
  /\ At(w, "release")
  /\ Releases(w)
  /\ Goes(w, IF w \in Owners THEN "done" ELSE "idle")
  /\ UNCHANGED <<kept, cancel, flag>>

-----------------------------------------------------------------------------
(* The heartbeat                                                           *)

\* Mutant: the heartbeat only renews.
BeatWakes_OnlyRenews(o) ==
  /\ At(Beat(o), "wait")
  /\ proc[o].pc \in {"produce", "append"}
  /\ Goes(Beat(o), "renew") /\ UNCHANGED flag
  /\ UNCHANGED <<kept, lease, cancel>>

BeatWakes(o) ==
  /\ At(Beat(o), "wait")
  /\ proc[o].pc \in {"produce", "append"}
  /\ IF cancel THEN Writes(Beat(o), "cancelling") /\ Learns(o, "cancelled")
               ELSE Goes(Beat(o), "renew") /\ UNCHANGED flag
  /\ UNCHANGED <<kept, lease, cancel>>

BeatRenews(o) ==
  /\ At(Beat(o), "renew")
  /\ IF Holds(o) THEN Goes(Beat(o), "wait") /\ UNCHANGED flag
                 ELSE Goes(Beat(o), "done") /\ Learns(o, "lost")
  /\ UNCHANGED <<kept, lease, cancel>>

-----------------------------------------------------------------------------
(* reconcileInterruptedRun                                                 *)

\* Mutant: a run whose lease was released is left alone.
Orphaned_ExpiredOnly == ~lease.live /\ lease.holder # None

\* A started run without a live lease, or a claim that expired before the start.
Orphaned == ~lease.live /\ (Started \/ lease.holder # None)

Notice(r) ==
  /\ At(r, "idle")
  /\ Readable /\ ~Ended
  /\ Orphaned
  /\ Goes(r, "claim")
  /\ UNCHANGED <<kept, lease, cancel, flag>>

\* Mutant: the reconciler goes ahead without the recovery lease.
ReconcilerClaims_Unfenced(r) ==
  /\ At(r, "claim")
  /\ IF CanClaim THEN Claims(r) ELSE UNCHANGED lease
  /\ Writes(r, "interrupted")
  /\ UNCHANGED <<kept, cancel, flag>>

ReconcilerClaims(r) ==
  /\ At(r, "claim")
  /\ IF CanClaim THEN Claims(r) /\ Goes(r, "inspect")
                 ELSE Goes(r, "idle") /\ UNCHANGED lease
  /\ UNCHANGED <<kept, cancel, flag>>

ReconcilerInspects(r) ==
  /\ At(r, "inspect")
  /\ IF ~Readable \/ Ended THEN Goes(r, "release") ELSE Goes(r, "renew")
  /\ UNCHANGED <<kept, lease, cancel, flag>>

ReconcilerRenews(r) ==
  /\ At(r, "renew")
  /\ IF Holds(r) THEN Writes(r, "interrupted") ELSE Goes(r, "release")
  /\ UNCHANGED <<kept, lease, cancel, flag>>

-----------------------------------------------------------------------------
(* The cancellation route: request, then look again for a terminal event   *)

CancelStep(c, from, to, stored) ==
  /\ canceller[c] = from
  /\ from = "idle" => Room
  /\ canceller' = [canceller EXCEPT ![c] = to]
  /\ cancel' = stored
  /\ UNCHANGED <<store, journal, lease, proc, flag, chunks, follower, faults>>

Cancel(c) ==
  \/ Readable /\ Ended /\ CancelStep(c, "idle", "done", FALSE)
  \/ Readable /\ ~Ended /\ CancelStep(c, "idle", "request", cancel)
  \/ CancelStep(c, "request", "recheck", TRUE)
  \/ Readable /\ CancelStep(c, "recheck", "done", IF Ended THEN FALSE ELSE cancel)

-----------------------------------------------------------------------------
(* followRunEvents: pages after the cursor until a terminal event          *)

Follows(f, to) ==
  /\ follower' = [follower EXCEPT ![f] = to]
  /\ UNCHANGED <<store, journal, lease, cancel, proc, flag, chunks, canceller, faults>>

\* A history without its first event is answered with "no longer retained".
Follow(f) ==
  /\ follower[f].pc = "idle" /\ Room
  /\ Readable
  /\ Follows(f, [pc |-> "following", cursor |-> 0])

\* Mutant: off by one behind the cursor.
Tail_OffByOne(f) == {n \in DOMAIN events : n > follower[f].cursor + 1}

Tail(f) == {n \in DOMAIN events : n > follower[f].cursor}
TailEnds(f) == {n \in Tail(f) : events[n] \in Terminal}

ReadPage(f) ==
  /\ follower[f].pc = "following"
  /\ Tail(f) # {}
  /\ Follows(f, IF TailEnds(f) # {} THEN [pc |-> "ended", cursor |-> Min(TailEnds(f))]
                                    ELSE [pc |-> "following", cursor |-> Max(Tail(f))])

-----------------------------------------------------------------------------
(* Faults                                                                  *)

Fault == faults < MaxFaults /\ faults' = faults + 1
faultKept == <<store, journal, cancel, chunks, canceller, follower>>

\* The holder has renewed its lease and is writing a terminal event.
Concluding(w) == At(w, "append") /\ proc[w].id \in Terminal

\* The holder is too slow to renew its lease in time.
Stall ==
  /\ Fault
  /\ lease.live /\ ~Unattended
  /\ PromptTerminal => ~Concluding(lease.holder)
  /\ Lapse
  /\ UNCHANGED <<faultKept, proc, flag>>

\* A call of the store throws: the lease is released on the way out, except
\* that an error of the producer is one of its outcomes.
OwnerFails(o) ==
  /\ Fault
  /\ proc[o].pc \in {"inspect", "admit", "append", "fence", "check", "decide", "clear"}
  /\ CASE proc[o].id = "chunk"    -> Goes(o, "drain") /\ Learns(o, "failed")
       [] proc[o].id = "accepted" /\ At(o, "append") -> Goes(o, "done") /\ UNCHANGED flag
       [] OTHER                   -> Goes(o, "release") /\ UNCHANGED flag
  /\ UNCHANGED <<faultKept, lease>>

\* The release fails: the lease stays until it expires.
ReleaseFails(w) ==
  /\ Fault
  /\ At(w, "release")
  /\ Goes(w, IF w \in Owners THEN "done" ELSE "idle")
  /\ UNCHANGED <<faultKept, lease, flag>>

HeartbeatFails(o) ==
  /\ Fault
  /\ proc[Beat(o)].pc \in {"renew", "append"}
  /\ Goes(Beat(o), "done")
  /\ Learns(o, "heartbeat failed")
  /\ UNCHANGED <<faultKept, lease>>

Crash(o) ==
  /\ Fault
  /\ proc[o].pc \notin {"idle", "done", "dead"}
  /\ proc' = [proc EXCEPT ![o] = Is("dead"), ![Beat(o)] = Is("done")]
  /\ UNCHANGED <<faultKept, lease, flag>>

ReconcilerCrash(r) ==
  /\ Fault
  /\ ~At(r, "idle")
  /\ Goes(r, "idle")
  /\ UNCHANGED <<faultKept, lease, flag>>

-----------------------------------------------------------------------------

Append(w) == Allocate(w) \/ Insert(w)

\* What an attempt does without waiting for its producer.
OwnerStep(o) ==
  \/ Claim(o) \/ Inspect(o) \/ Admit(o) \/ Append(o) \/ Fence(o) \/ StartProducer(o)
  \/ Drain(o) \/ Decide(o) \/ ClearCancellation(o) \/ Release(o)

BeatStep(o) == BeatWakes(o) \/ BeatRenews(o) \/ Append(Beat(o))

ReconcilerStep(r) ==
  \/ Notice(r) \/ ReconcilerClaims(r) \/ ReconcilerInspects(r) \/ ReconcilerRenews(r)
  \/ Append(r) \/ ClearCancellation(r) \/ Release(r)

FollowerStep(f) == Follow(f) \/ ReadPage(f)

Next ==
  \/ \E o \in Owners : \/ Request(o) \/ OwnerStep(o) \/ WriteChunk(o) \/ ProducerEnds(o)
                       \/ BeatStep(o) \/ OwnerFails(o) \/ HeartbeatFails(o) \/ Crash(o)
  \/ \E r \in Reconcilers : ReconcilerStep(r) \/ ReconcilerCrash(r)
  \/ \E w \in Owners \cup Reconcilers : ReleaseFails(w)
  \/ \E c \in Cancellers : Cancel(c)
  \/ \E f \in Followers : FollowerStep(f)
  \/ Expire \/ Stall

Spec == Init /\ [][Next]_vars

\* A process that lives executes its next step, an abandoned lease runs out,
\* readers poll.  Nothing forces a producer to end or a request to come.
Fairness ==
  /\ \A o \in Owners : WF_vars(OwnerStep(o)) /\ WF_vars(BeatStep(o))
  /\ \A r \in Reconcilers : WF_vars(ReconcilerStep(r))
  /\ \A f \in Followers : WF_vars(FollowerStep(f))
  /\ WF_vars(Expire)

FairSpec == Spec /\ Fairness

-----------------------------------------------------------------------------

Phase == {"idle", "append", "claim", "inspect", "admit", "fence", "check", "produce", "drain",
          "decide", "clear", "release", "wait", "renew", "done", "dead"}

Flag == {"started before", "admitted", "lost", "failed", "cancelled", "heartbeat failed"}

TypeOK ==
  /\ store \in Stores
  /\ lease \in [holder : Owners \cup Reconcilers \cup {None}, live : BOOLEAN]
  /\ last \in Nat
  /\ DOMAIN events \subseteq 1..last /\ Ids \subseteq Event
  /\ cancel \in BOOLEAN
  /\ proc \in [Writers -> [pc : Phase, id : Event, seq : 0..last]]
  /\ flag \in [Owners -> SUBSET Flag]
  /\ chunks \in [Owners -> 0..MaxChunks]
  /\ canceller \in [Cancellers -> {"idle", "request", "recheck", "done"}]
  /\ follower \in [Followers -> [pc : {"idle", "following", "ended"}, cursor : 0..last]]
  /\ faults \in 0..MaxFaults

Admitted == {o \in Owners : Knows(o, "admitted")}

\* Whatever leases, crashes and retries do, one attempt at most is admitted to
\* execute the run, never one whose run already ended, and the run ends once.
Run == INSTANCE DurableRun WITH
         Outcomes <- Terminal, producers <- Admitted, outcomes <- Ids \cap Terminal
ImplementsRun == Run!Spec

\* No run is declared over while the attempt that holds its lease still works.
LiveOwnerIsSpared ==
  \A o \in Owners : proc[o].pc \in {"produce", "drain", "decide"} /\ Holds(o) => ~Ended

\* What every state satisfies: well-typed leases, programs and journal, and
\* no owner at work on a run that somebody else has ended.
DeliveryInv == TypeOK /\ LiveOwnerIsSpared

\* No other attempt of the run has begun.
Alone(o) == \A p \in Owners \ {o} : At(p, "idle")

\* Where an attempt writes the run's outcome; a reconciler only interrupts.
OutcomeAt == {n \in DOMAIN events : events[n] \in Terminal \ {"interrupted"}}

\* The outcome that the only attempt of a run writes is the last event of the
\* journal, with either store: neither the attempt's own heartbeat nor a
\* reconciler places anything behind it, so no follower is past it when it
\* appears.
OutcomeIsLast ==
  (\E o \in Owners : Alone(o)) => \A n \in OutcomeAt : \A m \in DOMAIN events : m <= n

\* With a transactional store every run that started ends, if no producer
\* hangs: a dead owner's run is finished by whoever follows it.
ProducersReturn == \A o \in Owners : []<>(~At(o, "produce"))

StartedRunsEnd == ProducersReturn => ((store = "transactional" /\ Started) ~> Ended)

\* Every follower of a run that ended stops: with a transactional store, and
\* with the other one where the run's only attempt wrote the outcome.
EndsInOrder ==
  \/ store = "transactional" /\ Ended
  \/ OutcomeAt # {} /\ \E o \in Owners : Alone(o)

FollowersStop ==
  \A f \in Followers :
    (EndsInOrder /\ follower[f].pc = "following") ~> follower[f].pc = "ended"

\* A cancellation reaches the producer at the next heartbeat.
CancellationArrives ==
  \A o \in Owners :
    (cancel /\ At(o, "produce")) ~> (Aborted(o) \/ proc[o].pc \notin {"produce", "append"} \/ ~cancel)
=============================================================================
