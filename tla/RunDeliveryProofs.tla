--------------------------- MODULE RunDeliveryProofs ---------------------------
(***************************************************************************)
(* Durable delivery is sound for any number of attempts, reconcilers,      *)
(* followers, cancellations and faults.                                    *)
(*                                                                         *)
(* The lease alone does not exclude: it lapses under its holder, who goes  *)
(* on.  What excludes is that a holder looks at the journal after it has   *)
(* claimed, that a lease once lost is never live again for the same claim, *)
(* and that the lease is looked at again before a producer starts and      *)
(* before an outcome is written (LeaseInv).                                *)
(***************************************************************************)
EXTENDS RunDelivery, TLAPS, WellFoundedInduction

USE DeliveryAssumption

Actors == Owners \cup Reconcilers

-----------------------------------------------------------------------------
(* The inductive invariant.                                                *)

\* Past the inspection that follows the claim, before an outcome is written.
WorkingIn(p) ==
  \/ p.pc \in {"admit", "fence", "check", "produce", "drain", "decide", "renew"}
  \/ p.pc = "append" /\ p.id # "accepted"

ConcludingIn(p) == p.pc = "append" /\ p.id \in Terminal

\* On the way to the admission of the run's first producer.
AdmittingIn(p, known) ==
  \/ p.pc = "admit" /\ "started before" \notin known
  \/ p.pc = "append" /\ p.id = "started"
  \/ p.pc = "fence"

\* What programs do not tell by their types: nothing is carried beyond a write,
\* a heartbeat only records a cancellation, sequences are reserved once.
Tidy ==
  /\ \A w \in Writers : proc[w].pc # "append" => proc[w] = Is(proc[w].pc)
  /\ \A w \in Beats : proc[w].pc \in {"idle", "wait", "renew", "done", "append"}
  /\ \A w \in Beats : proc[w].pc = "append" => proc[w].id = "cancelling"
  /\ \A w \in Writers : proc[w].seq > 0 =>
       /\ store = "sql"
       /\ proc[w].seq \notin DOMAIN events
       /\ \A v \in Writers : v # w => proc[v].seq # proc[w].seq

\* A holder that works sees a run that nobody has ended, and a holder on the
\* way to the first producer a run that nobody was admitted to.
LeaseInv ==
  /\ \A w \in Actors : ConcludingIn(proc[w]) => Holds(w)
  /\ \A w \in Actors : WorkingIn(proc[w]) /\ Holds(w) => ~Ended
  /\ \A o \in Owners : AdmittingIn(proc[o], flag[o]) /\ Holds(o) => Admitted = {}
  /\ \A o \in Owners : proc[o].pc = "fence" => "started" \in Ids
  /\ Admitted # {} => "started" \in Ids

IInv == TypeOK /\ Tidy /\ LeaseInv

-----------------------------------------------------------------------------
(* The journal.                                                            *)

LEMMA Joins ==
  ASSUME NEW n, NEW id, Puts(n, id)
  PROVE  /\ DOMAIN events' = DOMAIN events \cup {n}
         /\ \A k \in DOMAIN events : events'[k] = events[k]
         /\ n \notin DOMAIN events => events'[n] = id
         /\ Ids \subseteq Ids' /\ Ids' \subseteq Ids \cup {id}
BY DEF Puts, Ids, Range

\* Nobody but the one who concludes ends the run.
LEMMA SameEnd == ASSUME UNCHANGED events PROVE Ids' = Ids /\ Ended' = Ended
BY DEF Ids, Ended

LEMMA JoinsEnd ==
  ASSUME Ids \subseteq Ids', NEW id, Ids' \subseteq Ids \cup {id}, id \notin Terminal PROVE Ended' = Ended
BY DEF Ended

-----------------------------------------------------------------------------
(* What an action does to the programs.                                    *)

ProcType == [Writers -> [pc : Phase, id : Event, seq : 0..last]]

LEMMA WritersKnown ==
  /\ Owners \subseteq Writers /\ Reconcilers \subseteq Writers
  /\ \A o \in Owners : Beat(o) \in Writers /\ Beat(o) \in Beats /\ Beat(o) \notin Actors
  /\ \A o, p \in Owners : Beat(o) = Beat(p) => o = p
  /\ \A w \in Beats : \E o \in Owners : w = Beat(o)
  /\ \A o \in Owners : o \notin Reconcilers /\ o \notin Beats
  /\ \A r \in Reconcilers : r \notin Owners /\ r \notin Beats
BY BeatAssumption DEF Writers, Beats, Actors, Beat

LEMMA IsTyped ==
  /\ \A phase \in Phase : /\ Is(phase) \in [pc : Phase, id : Event, seq : 0..0]
                          /\ Is(phase).pc = phase /\ Is(phase).id = "accepted" /\ Is(phase).seq = 0
  /\ \A id \in Event : /\ Writing(id) \in [pc : Phase, id : Event, seq : 0..0]
                       /\ Writing(id).pc = "append" /\ Writing(id).id = id /\ Writing(id).seq = 0
BY DEF Is, Writing, Phase, Event

\* A writer takes a step of its own.
Moves(w, rec) ==
  /\ proc'[w] = rec
  /\ \A v \in Writers : v # w => proc'[v] = proc[v]

LEMMA Replaced ==
  ASSUME TypeOK, NEW w \in Writers, NEW rec, proc' = [proc EXCEPT ![w] = rec] PROVE Moves(w, rec)
BY DEF TypeOK, Moves

LEMMA GoesMoves ==
  ASSUME TypeOK, NEW w \in Writers, NEW phase, Goes(w, phase) PROVE Moves(w, Is(phase))
BY Replaced DEF Goes

LEMMA WritesMoves ==
  ASSUME TypeOK, NEW w \in Writers, NEW id, Writes(w, id) PROVE Moves(w, Writing(id))
BY Replaced DEF Writes

\* What an attempt knows of itself only grows.
LEMMA LearnsMore ==
  ASSUME TypeOK, NEW o \in Owners, NEW what \in Flag, Learns(o, what)
  PROVE  /\ flag' \in [Owners -> SUBSET Flag]
         /\ \A p \in Owners : flag[p] \subseteq flag'[p]
         /\ \A p \in Owners : flag'[p] = IF p = o THEN flag[p] \cup {what} ELSE flag[p]
         /\ what # "admitted" => Admitted' = Admitted
BY DEF TypeOK, Learns, Admitted, Knows

-----------------------------------------------------------------------------
(* The lease excludes.                                                     *)

Advance == Run!Next \/ UNCHANGED <<Admitted, Ids \cap Terminal>>

\* What a step that ends nothing and admits nobody may do to w.
Allowed(w) ==
  LET q == proc'[w]
  IN  /\ WorkingIn(q) /\ Holds(w)' => Holds(w) /\ (WorkingIn(proc[w]) \/ ~Ended)
      /\ ConcludingIn(q) => Holds(w)'
      /\ w \in Owners /\ AdmittingIn(q, flag'[w]) /\ Holds(w)'
           => Holds(w) /\ (AdmittingIn(proc[w], flag[w]) \/ "started" \notin Ids)
      /\ w \in Owners /\ q.pc = "fence" => "started" \in Ids'

LEMMA AllowedKeeps ==
  ASSUME IInv, Ids \subseteq Ids', Ids' \cap Terminal = Ids \cap Terminal, Admitted' = Admitted,
         \A w \in Actors : Allowed(w)
  PROVE  LeaseInv' /\ Advance
<1>1. Ended' = Ended
  BY DEF Ended
<1> QED  BY <1>1 DEF IInv, LeaseInv, Allowed, Advance, Actors

\* Whoever does not move, while the lease is not his or stays with him.
LEMMA StillAllowed ==
  ASSUME IInv, NEW w \in Actors, proc'[w] = proc[w], w \in Owners => flag[w] \subseteq flag'[w], Ids \subseteq Ids',
         Holds(w)' => Holds(w), ConcludingIn(proc[w]) /\ Holds(w) => Holds(w)'
  PROVE  Allowed(w)
BY DEF IInv, LeaseInv, Allowed, AdmittingIn

\* One writer moves, nothing else happens.
LEMMA MoveKeeps ==
  ASSUME IInv, NEW w \in Writers, NEW rec, Moves(w, rec), UNCHANGED <<lease, events>>,
         Admitted' = Admitted, \A p \in Owners : flag[p] \subseteq flag'[p],
         w \in Actors => Allowed(w)
  PROVE  LeaseInv' /\ Advance
<1>1. Ids' = Ids
  BY DEF Ids
<1>2. ASSUME NEW v \in Actors, v # w PROVE Allowed(v)
  <2>1. proc'[v] = proc[v] /\ Holds(v)' = Holds(v)
    BY <1>2 DEF Moves, Actors, Writers, Holds
  <2> QED  BY <1>1, <2>1, StillAllowed
<1>3. \A v \in Actors : Allowed(v)
  BY <1>2
<1> QED  BY <1>1, <1>3, AllowedKeeps

\* Whoever comes to rest.
LEMMA RestAllowed ==
  ASSUME NEW w \in Actors, ~WorkingIn(proc'[w]) PROVE Allowed(w)
BY DEF Allowed, WorkingIn, ConcludingIn, AdmittingIn, Terminal

Onward(p) ==
  \/ p.pc \in {"check", "produce", "drain", "decide"}
  \/ p.pc = "append" /\ p.id \in {"chunk", "cancelling"}

\* Whoever goes on working without looking at the lease or the journal.
LEMMA WorkAllowed ==
  ASSUME NEW w \in Actors, WorkingIn(proc[w]), UNCHANGED lease, Onward(proc'[w])
  PROVE  Allowed(w)
BY DEF Allowed, Onward, ConcludingIn, AdmittingIn, Terminal, Holds

Quiet == UNCHANGED <<lease, events>> /\ Admitted' = Admitted /\ \A p \in Owners : flag[p] \subseteq flag'[p]

LEMMA RestKeeps ==
  ASSUME IInv, NEW w \in Writers, NEW phase, Moves(w, Is(phase)), Quiet,
         phase \in {"idle", "claim", "inspect", "clear", "release", "wait", "done", "dead"} \/ w \in Beats
  PROVE  LeaseInv' /\ Advance
<1>1. ASSUME w \in Actors PROVE Allowed(w)
  <2>1. ~WorkingIn(proc'[w])
    BY <1>1, WritersKnown DEF Moves, WorkingIn, Is, Actors
  <2> QED  BY <1>1, <2>1, RestAllowed
<1> QED  BY <1>1, MoveKeeps DEF Quiet

LEMMA WorkKeeps ==
  ASSUME IInv, NEW w \in Writers, NEW rec, Moves(w, rec), Quiet, w \in Actors => WorkingIn(proc[w]), Onward(rec)
  PROVE  LeaseInv' /\ Advance
<1>1. w \in Actors => Allowed(w)
  BY WorkAllowed DEF Moves, Quiet
<1> QED  BY <1>1, MoveKeeps DEF Quiet

LEMMA FlagsKept == ASSUME UNCHANGED flag PROVE Admitted' = Admitted /\ \A p \in Owners : flag[p] \subseteq flag'[p]
BY DEF Admitted, Knows

\* The attempt.
LEMMA OwnerKeeps ==
  ASSUME IInv, NEW o \in Owners,
         \/ Request(o) \/ Claim(o) \/ Inspect(o) \/ Admit(o) \/ Fence(o) \/ StartProducer(o) \/ WriteChunk(o)
         \/ ProducerEnds(o) \/ Drain(o) \/ Decide(o)
  PROVE  LeaseInv' /\ Advance
<1>i. TypeOK /\ LeaseInv
  BY DEF IInv
<1> USE <1>i
<1>0. o \in Writers /\ o \in Actors /\ o \notin Reconcilers
  BY WritersKnown DEF Actors
<1>l. ASSUME NEW what \in Flag \ {"admitted"}, Learns(o, what) PROVE Admitted' = Admitted /\ \A p \in Owners : flag[p] \subseteq flag'[p]
  BY <1>l, LearnsMore
<1>1. CASE Request(o)
  <2>1. UNCHANGED <<lease, events, flag>> /\ (Goes(o, "claim") \/ Writes(o, "accepted"))
    BY <1>1 DEF Request, kept, journal
  <2>2. Quiet
    BY <2>1, FlagsKept DEF Quiet
  <2>3. CASE Goes(o, "claim")
    <3>1. Moves(o, Is("claim"))
      BY <1>0, <2>3, GoesMoves
    <3> QED  BY <1>0, <2>2, <3>1, RestKeeps
  <2>4. CASE Writes(o, "accepted")
    <3>1. Moves(o, Writing("accepted"))
      BY <1>0, <2>4, WritesMoves
    <3>2. ~WorkingIn(proc'[o])
      BY <3>1 DEF WorkingIn, Writing, Moves
    <3>3. Allowed(o)
      BY <1>0, <3>2, RestAllowed
    <3> QED  BY <1>0, <2>2, <3>1, <3>3, MoveKeeps DEF Quiet
  <2> QED  BY <2>1, <2>3, <2>4
<1>2. CASE Claim(o)
  <2>1. UNCHANGED <<events, flag>>
    BY <1>2 DEF Claim, kept, journal
  <2>2. CASE CanClaim
    <3>1. Moves(o, Is("inspect")) /\ lease' = [holder |-> o, live |-> TRUE]
      BY <1>0, <1>2, <2>2, GoesMoves DEF Claim, Claims
    <3>2. Ids' = Ids /\ Admitted' = Admitted /\ \A p \in Owners : flag[p] \subseteq flag'[p]
      BY <2>1, FlagsKept DEF Ids
    <3>3. ASSUME NEW w \in Actors, w # o PROVE Allowed(w)
      <4>1. proc'[w] = proc[w] /\ ~Holds(w) /\ ~Holds(w)'
        BY <2>2, <3>1, <3>3 DEF Moves, Actors, Writers, Holds, CanClaim
      <4> QED  BY <3>2, <4>1, StillAllowed
    <3>4. Allowed(o)
      <4>1. ~WorkingIn(proc'[o])
        BY <3>1 DEF Moves, WorkingIn, Is
      <4> QED  BY <1>0, <4>1, RestAllowed
    <3> QED  BY <3>2, <3>3, <3>4, AllowedKeeps
  <2>3. CASE ~CanClaim
    <3>1. Moves(o, Is("done")) /\ UNCHANGED lease
      BY <1>0, <1>2, <2>3, GoesMoves DEF Claim
    <3> QED  BY <1>0, <2>1, <3>1, RestKeeps, FlagsKept DEF Quiet
  <2> QED  BY <2>2, <2>3
<1>3. CASE Inspect(o)
  <2>1. UNCHANGED <<events, lease>>
    BY <1>3 DEF Inspect, kept, journal
  <2>2. CASE ~Readable \/ Ended
    <3>1. Moves(o, Is("release")) /\ UNCHANGED flag
      BY <1>0, <1>3, <2>2, GoesMoves DEF Inspect
    <3> QED  BY <1>0, <2>1, <3>1, RestKeeps, FlagsKept DEF Quiet
  <2>3. CASE ~(~Readable \/ Ended)
    <3>1. Moves(o, Is("admit")) /\ proc'[o] = Is("admit")
      BY <1>0, <1>3, <2>3, GoesMoves DEF Inspect, Moves
    <3>2. Quiet /\ (Started => "started before" \in flag'[o])
      <4>1. CASE Started
        <5>1. Learns(o, "started before") /\ "started before" \in Flag \ {"admitted"}
          BY <1>3, <2>3, <4>1 DEF Inspect, Flag
        <5>2. "started before" \in flag'[o]
          BY <5>1 DEF TypeOK, Learns
        <5> QED  BY <1>l, <2>1, <5>1, <5>2 DEF Quiet
      <4>2. CASE ~Started
        BY <1>3, <2>1, <2>3, <4>2, FlagsKept DEF Inspect, Quiet
      <4> QED  BY <4>1, <4>2
    <3>3. Allowed(o)
      <4>1. proc'[o].pc = "admit"
        BY <3>1 DEF Is
      <4>2. WorkingIn(proc'[o]) /\ Holds(o)' => Holds(o) /\ ~Ended
        BY <2>1, <2>3 DEF Holds
      <4>3. ~ConcludingIn(proc'[o])
        BY <4>1 DEF ConcludingIn
      <4>4. AdmittingIn(proc'[o], flag'[o]) /\ Holds(o)' => Holds(o) /\ "started" \notin Ids
        <5>1. ~Started => "started" \notin Ids
          BY DEF Started
        <5>2. AdmittingIn(proc'[o], flag'[o]) => "started before" \notin flag'[o]
          BY <4>1 DEF AdmittingIn
        <5> QED  BY <2>1, <3>2, <5>1, <5>2 DEF Holds
      <4>5. Allowed(o) <=>
              /\ WorkingIn(proc'[o]) /\ Holds(o)' => Holds(o) /\ (WorkingIn(proc[o]) \/ ~Ended)
              /\ ConcludingIn(proc'[o]) => Holds(o)'
              /\ o \in Owners /\ AdmittingIn(proc'[o], flag'[o]) /\ Holds(o)'
                   => Holds(o) /\ (AdmittingIn(proc[o], flag[o]) \/ "started" \notin Ids)
              /\ o \in Owners /\ proc'[o].pc = "fence" => "started" \in Ids'
        BY DEF Allowed
      <4> QED  BY <4>1, <4>2, <4>3, <4>4, <4>5
    <3> QED  BY <1>0, <3>1, <3>2, <3>3, MoveKeeps DEF Quiet
  <2> QED  BY <2>2, <2>3
<1>4. CASE Admit(o)
  <2>0. proc[o].pc = "admit"
    BY <1>4 DEF Admit, At
  <2>1. UNCHANGED <<events, lease>>
    BY <1>4 DEF Admit, kept, journal
  <2>2. CASE Holds(o)
    <3> DEFINE id == IF Knows(o, "started before") THEN "interrupted" ELSE "started"
    <3>1. Moves(o, Writing(id)) /\ UNCHANGED flag
      BY <1>0, <1>4, <2>2, WritesMoves DEF Admit
    <3>2. proc'[o].pc = "append" /\ proc'[o].id = id
      <4> HIDE DEF id
      <4>1. proc'[o] = Writing(id)
        BY <3>1 DEF Moves
      <4> QED  BY <4>1 DEF Writing
    <3>3. Allowed(o)
      BY <2>0, <2>1, <2>2, <3>1, <3>2 DEF Allowed, WorkingIn, ConcludingIn, AdmittingIn, Holds, Knows, Terminal
    <3> QED  BY <1>0, <2>1, <3>1, <3>3, MoveKeeps, FlagsKept
  <2>3. CASE ~Holds(o)
    <3>1. Moves(o, Is("release")) /\ Learns(o, "lost")
      BY <1>0, <1>4, <2>3, GoesMoves DEF Admit
    <3> QED  BY <1>0, <1>l, <2>1, <3>1, RestKeeps DEF Quiet, Flag
  <2> QED  BY <2>2, <2>3
<1>5. CASE Fence(o)
  <2>0. proc[o].pc = "fence" /\ AdmittingIn(proc[o], flag[o]) /\ WorkingIn(proc[o]) /\ "started" \in Ids
    BY <1>5 DEF Fence, At, AdmittingIn, WorkingIn, LeaseInv
  <2>1. UNCHANGED <<events, lease>> /\ Ids' = Ids /\ Ended' = Ended
    BY <1>5, SameEnd DEF Fence, kept, journal
  <2>2. CASE Holds(o)
    <3>1. Moves(o, Is("check")) /\ Learns(o, "admitted")
      BY <1>0, <1>5, <2>2, GoesMoves DEF Fence
    <3>2. Admitted = {} /\ ~Ended
      BY <1>0, <2>0, <2>2 DEF LeaseInv
    <3>3. Admitted' = {o}
      <4>1. "admitted" \in Flag
        BY DEF Flag
      <4>2. \A p \in Owners : flag'[p] = IF p = o THEN flag[p] \cup {"admitted"} ELSE flag[p]
        BY <3>1, <4>1, LearnsMore
      <4> QED  BY <3>2, <4>2 DEF Admitted, Knows
    <3>4. Run!Next
      BY <2>1, <3>2, <3>3 DEF Run!Next, Run!Produce, Ended
    <3>5. \A w \in Actors : w # o => proc'[w] = proc[w] /\ ~Holds(w)'
      BY <2>1, <2>2, <3>1 DEF Moves, Actors, Writers, Holds
    <3>6. proc'[o].pc = "check"
      BY <3>1 DEF Moves, Is
    <3>7. LeaseInv'
      BY <2>0, <2>1, <2>2, <3>2, <3>5, <3>6 DEF LeaseInv, Actors, WorkingIn, ConcludingIn, AdmittingIn, Holds
    <3> QED  BY <3>4, <3>7 DEF Advance
  <2>3. CASE ~Holds(o)
    <3>1. Moves(o, Is("release")) /\ UNCHANGED flag
      BY <1>0, <1>5, <2>3, GoesMoves DEF Fence
    <3> QED  BY <1>0, <2>1, <3>1, RestKeeps, FlagsKept DEF Quiet
  <2> QED  BY <2>2, <2>3
<1>6. CASE StartProducer(o)
  <2>0. WorkingIn(proc[o])
    BY <1>6 DEF StartProducer, At, WorkingIn
  <2>1. UNCHANGED <<events, lease>> /\ Ids' = Ids
    BY <1>6 DEF StartProducer, kept, journal, Ids
  <2>2. CASE cancel
    <3>1. Moves(o, Writing("cancelling")) /\ Learns(o, "cancelled")
      BY <1>0, <1>6, <2>2, WritesMoves DEF StartProducer
    <3>2. Quiet
      BY <1>l, <2>1, <3>1 DEF Quiet, Flag
    <3>3. Onward(Writing("cancelling"))
      BY DEF Writing, Onward
    <3> QED  BY <1>0, <2>0, <3>1, <3>2, <3>3, WorkKeeps
  <2>3. CASE ~cancel
    <3>1. proc' = [proc EXCEPT ![o] = Is("produce"), ![Beat(o)] = Is("wait")] /\ UNCHANGED flag
      BY <1>6, <2>3 DEF StartProducer
    <3>2. \A w \in Actors : proc'[w] = IF w = o THEN Is("produce") ELSE proc[w]
      BY <3>1, WritersKnown DEF TypeOK, Actors
    <3>3. ASSUME NEW w \in Actors PROVE Allowed(w)
      <4>1. CASE w = o
        <5>1. Onward(proc'[w])
          BY <3>2, <4>1 DEF Is, Onward
        <5> QED  BY <2>0, <2>1, <4>1, <5>1, WorkAllowed
      <4>2. CASE w # o
        BY <2>1, <3>1, <3>2, <4>2, StillAllowed DEF Holds
      <4> QED  BY <4>1, <4>2
    <3> QED  BY <2>1, <3>1, <3>3, FlagsKept, AllowedKeeps
  <2> QED  BY <2>2, <2>3
<1>7. CASE WriteChunk(o)
  <2>1. Moves(o, Writing("chunk")) /\ UNCHANGED <<events, lease, flag>> /\ WorkingIn(proc[o])
    BY <1>0, <1>7, WritesMoves DEF WriteChunk, journal, At, WorkingIn
  <2>2. Onward(Writing("chunk"))
    BY DEF Writing, Onward
  <2> QED  BY <1>0, <2>1, <2>2, WorkKeeps, FlagsKept DEF Quiet
<1>8. CASE ProducerEnds(o)
  <2>1. Moves(o, Is("drain")) /\ UNCHANGED <<events, lease>> /\ WorkingIn(proc[o])
    BY <1>0, <1>8, GoesMoves DEF ProducerEnds, kept, journal, At, WorkingIn
  <2>2. Quiet
    BY <1>8, <1>l, <2>1, FlagsKept DEF ProducerEnds, Quiet, Flag
  <2>3. Onward(Is("drain"))
    BY DEF Is, Onward
  <2> QED  BY <1>0, <2>1, <2>2, <2>3, WorkKeeps
<1>9. CASE Drain(o)
  <2>1. UNCHANGED <<events, lease, flag>> /\ Ids' = Ids /\ WorkingIn(proc[o])
    BY <1>9 DEF Drain, kept, journal, Ids, At, WorkingIn
  <2>2. \A w \in Actors : proc'[w] = IF w = o THEN Is("decide") ELSE proc[w]
    BY <1>9, WritersKnown DEF Drain, TypeOK, Actors
  <2>3. ASSUME NEW w \in Actors PROVE Allowed(w)
    <3>1. CASE w = o
      <4>1. Onward(proc'[w])
        BY <2>2, <3>1 DEF Is, Onward
      <4> QED  BY <2>1, <3>1, <4>1, WorkAllowed
    <3>2. CASE w # o
      BY <2>1, <2>2, <3>2, StillAllowed DEF Holds
    <3> QED  BY <3>1, <3>2
  <2> QED  BY <2>1, <2>3, FlagsKept, AllowedKeeps
<1>10. CASE Decide(o)
  <2>0. proc[o].pc = "decide" /\ WorkingIn(proc[o])
    BY <1>10 DEF Decide, At, WorkingIn
  <2>1. UNCHANGED <<events, lease>>
    BY <1>10 DEF Decide, kept, journal
  <2>2. CASE ~Knows(o, "lost") /\ Holds(o)
    <3>1. Moves(o, Writing(Outcome(o))) /\ UNCHANGED flag
      BY <1>0, <1>10, <2>2, WritesMoves DEF Decide
    <3>2. proc'[o].pc = "append" /\ proc'[o].id = Outcome(o)
      <4> DEFINE id == Outcome(o)
      <4> HIDE DEF id
      <4>1. proc'[o] = Writing(id)
        BY <3>1 DEF Moves, id
      <4>2. proc'[o].pc = "append" /\ proc'[o].id = id
        BY <4>1 DEF Writing
      <4> QED  BY <4>2 DEF id
    <3>3. Outcome(o) \in Terminal
      BY DEF Outcome, Terminal
    <3>4. Allowed(o)
      BY <2>0, <2>1, <2>2, <3>1, <3>2, <3>3 DEF Allowed, AdmittingIn, Holds, Terminal
    <3> QED  BY <1>0, <2>1, <3>1, <3>4, MoveKeeps, FlagsKept
  <2>3. CASE ~(~Knows(o, "lost") /\ Holds(o))
    <3>1. Moves(o, Is("release")) /\ Learns(o, "lost")
      BY <1>0, <1>10, <2>3, GoesMoves DEF Decide
    <3> QED  BY <1>0, <1>l, <2>1, <3>1, RestKeeps DEF Quiet, Flag
  <2> QED  BY <2>2, <2>3
<1> QED  BY <1>1, <1>2, <1>3, <1>4, <1>5, <1>6, <1>7, <1>8, <1>9, <1>10

-----------------------------------------------------------------------------
(* The journal steps.                                                      *)

After(w) == Is(AfterAppend(w, proc[w].id))

\* What writing comes to: a sequence is reserved, the event is already there, or
\* it takes its place.
Reserves(w) ==
  /\ proc[w].seq = 0 /\ store = "sql"
  /\ last' = last + 1 /\ UNCHANGED events
  /\ proc' = [proc EXCEPT ![w].seq = last + 1]

Finds(w) == Known(proc[w].id) /\ UNCHANGED <<last, events>> /\ Moves(w, After(w)) /\ Written(w)

Places(w, n) ==
  /\ n \notin DOMAIN events /\ Puts(n, proc[w].id) /\ Moves(w, After(w)) /\ Written(w)
  /\ \/ proc[w].seq = 0 /\ n = last + 1 /\ last' = last + 1
     \/ proc[w].seq > 0 /\ n = proc[w].seq /\ last' = last

LEMMA AppendEffect ==
  ASSUME TypeOK, Tidy, NEW w \in Writers, Append(w)
  PROVE  /\ proc[w].pc = "append"
         /\ UNCHANGED <<store, lease, cancel, flag, chunks, canceller, follower, faults>>
         /\ Reserves(w) \/ Finds(w) \/ \E n \in Nat : Places(w, n)
<1>0. ASSUME Written(w) PROVE Moves(w, After(w))
  BY <1>0, GoesMoves DEF Written, After
<1>1. CASE Allocate(w)
  <2>1. proc[w].pc = "append" /\ proc[w].seq = 0
        /\ UNCHANGED <<store, lease, cancel, flag, chunks, canceller, follower, faults>>
    BY <1>1 DEF Allocate, At
  <2>2. CASE Known(proc[w].id)
    <3>1. Written(w) /\ UNCHANGED <<last, events>>
      BY <1>1, <2>2 DEF Allocate, journal
    <3> QED  BY <1>0, <2>1, <2>2, <3>1 DEF Finds
  <2>3. CASE ~Known(proc[w].id) /\ store = "transactional"
    <3>1. Written(w) /\ Puts(last + 1, proc[w].id) /\ last' = last + 1
      BY <1>1, <2>3 DEF Allocate
    <3>2. last + 1 \notin DOMAIN events /\ last + 1 \in Nat
      BY DEF TypeOK
    <3>3. Places(w, last + 1)
      BY <1>0, <2>1, <3>1, <3>2 DEF Places
    <3> QED  BY <2>1, <3>2, <3>3
  <2>4. CASE ~Known(proc[w].id) /\ store # "transactional"
    <3>1. store = "sql"
      BY <2>4 DEF TypeOK
    <3>2. last' = last + 1 /\ UNCHANGED events /\ proc' = [proc EXCEPT ![w].seq = last + 1]
      BY <1>1, <2>4 DEF Allocate
    <3> QED  BY <2>1, <3>1, <3>2 DEF Reserves
  <2> QED  BY <2>2, <2>3, <2>4
<1>2. CASE Insert(w)
  <2>1. proc[w].pc = "append" /\ proc[w].seq > 0 /\ Written(w) /\ last' = last
        /\ UNCHANGED <<store, lease, cancel, flag, chunks, canceller, follower, faults>>
    BY <1>2 DEF Insert, At
  <2>2. CASE Known(proc[w].id)
    <3>1. UNCHANGED <<last, events>>
      BY <1>2, <2>1, <2>2 DEF Insert
    <3> QED  BY <1>0, <2>1, <2>2, <3>1 DEF Finds
  <2>3. CASE ~Known(proc[w].id)
    <3>1. Puts(proc[w].seq, proc[w].id)
      BY <1>2, <2>3 DEF Insert
    <3>2. proc[w].seq \notin DOMAIN events /\ proc[w].seq \in Nat
      BY <2>1 DEF Tidy, TypeOK
    <3>3. Places(w, proc[w].seq)
      BY <1>0, <2>1, <3>1, <3>2 DEF Places
    <3> QED  BY <2>1, <3>2, <3>3
  <2> QED  BY <2>2, <2>3
<1> QED  BY <1>1, <1>2 DEF Append

\* Where the writer goes depends on the event.
LEMMA Afterwards ==
  ASSUME TypeOK, NEW w \in Writers
  PROVE  /\ AfterAppend(w, proc[w].id) \in {"done", "claim", "fence", "produce", "clear", "release"}
         /\ proc[w].id \in Terminal /\ w \notin Beats => AfterAppend(w, proc[w].id) \in {"clear", "release"}
         /\ AfterAppend(w, proc[w].id) = "fence" => proc[w].id = "started"
         /\ AfterAppend(w, proc[w].id) = "produce" => proc[w].id \in {"chunk", "cancelling"}
         /\ w \in Beats => AfterAppend(w, proc[w].id) = "done"
<1>1. ASSUME NEW id \in Event
      PROVE  /\ AfterAppend(w, id) \in {"done", "claim", "fence", "produce", "clear", "release"}
             /\ id \in Terminal /\ w \notin Beats => AfterAppend(w, id) \in {"clear", "release"}
             /\ AfterAppend(w, id) = "fence" => id = "started"
             /\ AfterAppend(w, id) = "produce" => id \in {"chunk", "cancelling"}
             /\ w \in Beats => AfterAppend(w, id) = "done"
  <2>1. CASE w \in Beats
    BY <2>1 DEF AfterAppend
  <2>2. CASE w \notin Beats
    <3>1. \/ id = "accepted" /\ AfterAppend(w, id) = "claim"
          \/ id = "started" /\ AfterAppend(w, id) = "fence"
          \/ id \in {"cancelling", "chunk"} /\ AfterAppend(w, id) = "produce"
          \/ id \in {"interrupted", "cancelled"} /\ AfterAppend(w, id) = "clear"
          \/ id \in {"heartbeat failed", "failed", "completed"} /\ AfterAppend(w, id) = "release"
      <4>1. CASE id = "accepted"
        BY <2>2, <4>1 DEF AfterAppend
      <4>2. CASE id = "started"
        BY <2>2, <4>2 DEF AfterAppend
      <4>3. CASE id \in {"cancelling", "chunk"}
        BY <2>2, <4>3 DEF AfterAppend
      <4>4. CASE id \in {"interrupted", "cancelled"}
        BY <2>2, <4>4 DEF AfterAppend
      <4>5. CASE id \in {"heartbeat failed", "failed", "completed"}
        BY <2>2, <4>5 DEF AfterAppend
      <4> QED  BY <4>1, <4>2, <4>3, <4>4, <4>5 DEF Event, Terminal
    <3> QED  BY <2>2, <3>1 DEF Terminal
  <2> QED  BY <2>1, <2>2
<1>2. proc[w].id \in Event
  BY DEF TypeOK
<1> QED  BY <1>1, <1>2

LEMMA AfterAllowed ==
  ASSUME IInv, NEW w \in Actors, proc[w].pc = "append", proc'[w] = After(w), UNCHANGED <<lease, flag>>,
         proc[w].id \in Ids'
  PROVE  Allowed(w)
<1> DEFINE to == AfterAppend(w, proc[w].id)
<1>1. /\ to \in {"done", "claim", "fence", "produce", "clear", "release"}
      /\ to = "fence" => proc[w].id = "started"
      /\ to = "produce" => proc[w].id \in {"chunk", "cancelling"}
  BY Afterwards DEF IInv, Writers, Actors
<1>2. proc'[w].pc = to
  <2> HIDE DEF to
  <2> QED  BY DEF After, Is, to
<1> HIDE DEF to
<1>3. CASE to = "fence"
  BY <1>1, <1>2, <1>3 DEF Allowed, WorkingIn, ConcludingIn, AdmittingIn, Holds
<1>4. CASE to = "produce"
  <2>1. Onward(proc'[w]) /\ WorkingIn(proc[w])
    BY <1>1, <1>2, <1>4 DEF Onward, WorkingIn
  <2> QED  BY <2>1, WorkAllowed
<1>5. CASE to \notin {"fence", "produce"}
  <2>1. ~WorkingIn(proc'[w])
    BY <1>1, <1>2, <1>5 DEF WorkingIn
  <2> QED  BY <2>1, RestAllowed
<1> QED  BY <1>3, <1>4, <1>5

LEMMA AppendKeeps ==
  ASSUME IInv, NEW w \in Writers, Append(w)
  PROVE  LeaseInv' /\ Advance
<1>i. TypeOK /\ Tidy /\ LeaseInv
  BY DEF IInv
<1>0. proc[w].pc = "append" /\ UNCHANGED <<lease, flag>>
  BY <1>i, AppendEffect
<1>f. Admitted' = Admitted /\ \A p \in Owners : flag[p] \subseteq flag'[p]
  BY <1>0, FlagsKept
<1>o. ASSUME NEW v \in Actors, v # w, \A u \in Writers : u # w => proc'[u] = proc[u], Ids \subseteq Ids'
      PROVE  Allowed(v)
  <2>1. proc'[v] = proc[v] /\ Holds(v)' = Holds(v)
    BY <1>0, <1>o DEF Actors, Writers, Holds
  <2> QED  BY <1>f, <1>o, <2>1, StillAllowed
<1>1. CASE Reserves(w)
  <2>1. /\ \A u \in Writers : u # w => proc'[u] = proc[u]
        /\ proc'[w].pc = proc[w].pc /\ proc'[w].id = proc[w].id
    BY <1>1, <1>i DEF Reserves, TypeOK
  <2>2. Ids' = Ids
    BY <1>1 DEF Reserves, Ids
  <2>3. ASSUME w \in Actors PROVE Allowed(w)
    <3>1. WorkingIn(proc'[w]) = WorkingIn(proc[w]) /\ ConcludingIn(proc'[w]) = ConcludingIn(proc[w])
      BY <2>1 DEF WorkingIn, ConcludingIn
    <3>2. \A known : AdmittingIn(proc'[w], known) = AdmittingIn(proc[w], known)
      BY <2>1 DEF AdmittingIn
    <3>3. Holds(w)' = Holds(w)
      BY <1>0 DEF Holds
    <3> QED  BY <1>i, <1>0, <2>1, <2>2, <2>3, <3>1, <3>2, <3>3 DEF Allowed, LeaseInv
  <2>4. \A v \in Actors : Allowed(v)
    BY <1>o, <2>1, <2>2, <2>3
  <2> QED  BY <1>f, <2>2, <2>4, AllowedKeeps
<1>2. CASE Finds(w)
  <2>1. Moves(w, After(w)) /\ Ids' = Ids /\ proc[w].id \in Ids'
    BY <1>2 DEF Finds, Known, Ids
  <2>2. w \in Actors => Allowed(w)
    BY <1>0, <2>1, AfterAllowed DEF Moves
  <2>3. \A v \in Actors : Allowed(v)
    BY <1>o, <2>1, <2>2 DEF Moves
  <2> QED  BY <1>f, <2>1, <2>3, AllowedKeeps
<1>3. ASSUME NEW n \in Nat, Places(w, n) PROVE LeaseInv' /\ Advance
  <2>1. Moves(w, After(w)) /\ Puts(n, proc[w].id) /\ n \notin DOMAIN events
    BY <1>3 DEF Places
  <2>2. Ids \subseteq Ids' /\ Ids' \subseteq Ids \cup {proc[w].id} /\ proc[w].id \in Ids'
    <3>1. n \in DOMAIN events' /\ events'[n] = proc[w].id
      BY <2>1 DEF Puts
    <3>2. proc[w].id \in Ids'
      BY <3>1 DEF Ids, Range
    <3> QED  BY <2>1, <3>2, Joins
  <2>3. CASE proc[w].id \notin Terminal
    <3>1. Ids' \cap Terminal = Ids \cap Terminal
      BY <2>2, <2>3
    <3>2. w \in Actors => Allowed(w)
      BY <1>0, <2>1, <2>2, AfterAllowed DEF Moves
    <3>3. \A v \in Actors : Allowed(v)
      BY <1>o, <2>1, <2>2, <3>2 DEF Moves
    <3> QED  BY <1>f, <2>2, <3>1, <3>3, AllowedKeeps
  <2>4. CASE proc[w].id \in Terminal
    <3>1. w \in Actors /\ w \notin Beats
      BY <1>0, <1>i, <2>4 DEF Tidy, Terminal, Writers, Actors
    <3>2. Holds(w) /\ ~Ended
      BY <1>0, <1>i, <2>4, <3>1 DEF LeaseInv, ConcludingIn, WorkingIn, Terminal
    <3>3. Run!Next
      <4>1. Ids \cap Terminal = {} /\ Ids' \cap Terminal = {proc[w].id}
        BY <2>2, <2>4, <3>2 DEF Ended
      <4> QED  BY <1>f, <2>4, <4>1 DEF Run!Next, Run!End
    <3>4. ASSUME NEW v \in Actors, v # w PROVE proc'[v] = proc[v] /\ ~Holds(v)' /\ ~Holds(v)
      BY <1>0, <2>1, <3>2, <3>4 DEF Moves, Holds, Actors, Writers
    <3>5. proc'[w].pc \in {"clear", "release"}
      <4>1. AfterAppend(w, proc[w].id) \in {"clear", "release"}
        BY <1>i, <2>4, <3>1, Afterwards
      <4> QED  BY <2>1, <4>1 DEF Moves, After, Is
    <3>6. ~WorkingIn(proc'[w]) /\ ~ConcludingIn(proc'[w])
      BY <3>5 DEF WorkingIn, ConcludingIn
    <3>7. \A known : ~AdmittingIn(proc'[w], known)
      BY <3>5 DEF AdmittingIn
    <3>8. Admitted' # {} => "started" \in Ids'
      BY <1>f, <1>i, <2>2 DEF LeaseInv
    <3>9. \A o \in Owners : proc'[o].pc = "fence" => "started" \in Ids'
      BY <1>i, <2>2, <3>4, <3>5 DEF LeaseInv, Actors
    <3>10. \A v \in Actors : ~ConcludingIn(proc'[v]) /\ ~(WorkingIn(proc'[v]) /\ Holds(v)')
      BY <1>i, <3>4, <3>6 DEF LeaseInv
    <3>11. \A o \in Owners : ~(AdmittingIn(proc'[o], flag'[o]) /\ Holds(o)')
      BY <3>4, <3>7 DEF Actors
    <3>12. LeaseInv'
      BY <3>8, <3>9, <3>10, <3>11 DEF LeaseInv
    <3> QED  BY <3>3, <3>12 DEF Advance
  <2> QED  BY <2>3, <2>4
<1> QED  BY <1>i, <1>1, <1>2, <1>3, AppendEffect

-----------------------------------------------------------------------------
(* The other steps.                                                        *)

\* Nobody moves and nobody gains the lease.
LEMMA StillKeeps ==
  ASSUME IInv, UNCHANGED <<events, proc, flag>>,
         \A w \in Actors : Holds(w)' => Holds(w),
         \A w \in Actors : ConcludingIn(proc[w]) /\ Holds(w) => Holds(w)'
  PROVE  LeaseInv' /\ Advance
<1>1. Ids' = Ids /\ Admitted' = Admitted
  BY DEF Ids, Admitted, Knows
<1>2. \A w \in Actors : Allowed(w)
  BY <1>1, StillAllowed
<1> QED  BY <1>1, <1>2, AllowedKeeps

\* Cancellations and followers only read the journal.
LEMMA OthersKeep ==
  ASSUME IInv, UNCHANGED <<journal, lease, proc, flag>> PROVE LeaseInv' /\ Advance
<1>1. \A w \in Actors : Holds(w)' = Holds(w)
  BY DEF Holds
<1> QED  BY <1>1, StillKeeps DEF journal

\* The lease of whoever concludes does not run out, the others may lose theirs.
LEMMA LapseKeeps ==
  ASSUME IInv, PromptTerminal, Expire \/ Stall PROVE LeaseInv' /\ Advance
<1>1. UNCHANGED <<events, proc, flag>> /\ Lapse
  BY DEF Expire, Stall, faultKept, journal
<1>2. \A w \in Actors : ~Holds(w)'
  BY <1>1 DEF Lapse, Holds, IInv, TypeOK
<1>3. ASSUME NEW w \in Actors, ConcludingIn(proc[w]), Holds(w) PROVE FALSE
  <2>1. lease.holder = w /\ proc[w].pc = "append"
    BY <1>3 DEF Holds, ConcludingIn
  <2>2. ~Unattended
    BY <2>1 DEF Unattended, At
  <2>3. ~Expire
    BY <2>2 DEF Expire
  <2>4. ~Concluding(lease.holder)
    BY <2>3 DEF Stall
  <2> QED  BY <1>3, <2>1, <2>4 DEF Concluding, ConcludingIn, At
<1> QED  BY <1>1, <1>2, <1>3, StillKeeps

\* A heartbeat neither writes an outcome nor holds the lease itself.
LEMMA BeatKeeps ==
  ASSUME IInv, NEW o \in Owners, BeatWakes(o) \/ BeatRenews(o) \/ HeartbeatFails(o) PROVE LeaseInv' /\ Advance
<1>i. TypeOK
  BY DEF IInv
<1>0. Beat(o) \in Writers /\ Beat(o) \notin Actors
  BY WritersKnown
<1>1. UNCHANGED <<lease, events>>
  BY DEF BeatWakes, BeatRenews, HeartbeatFails, kept, faultKept, journal
<1>2. Admitted' = Admitted /\ \A p \in Owners : flag[p] \subseteq flag'[p]
  <2>1. ASSUME NEW what \in Flag \ {"admitted"}, Learns(o, what)
        PROVE  Admitted' = Admitted /\ \A p \in Owners : flag[p] \subseteq flag'[p]
    BY <1>i, <2>1, LearnsMore
  <2>2. UNCHANGED flag \/ \E what \in Flag \ {"admitted"} : Learns(o, what)
    BY DEF BeatWakes, BeatRenews, HeartbeatFails, Flag
  <2> QED  BY <2>1, <2>2, FlagsKept
<1>3. \E rec : Moves(Beat(o), rec)
  <2>1. ASSUME NEW phase, Goes(Beat(o), phase) PROVE \E rec : Moves(Beat(o), rec)
    BY <1>i, <1>0, <2>1, GoesMoves
  <2>2. ASSUME NEW id, Writes(Beat(o), id) PROVE \E rec : Moves(Beat(o), rec)
    BY <1>i, <1>0, <2>2, WritesMoves
  <2>3. (\E phase : Goes(Beat(o), phase)) \/ (\E id : Writes(Beat(o), id))
    BY DEF BeatWakes, BeatRenews, HeartbeatFails
  <2> QED  BY <2>1, <2>2, <2>3
<1> QED  BY <1>0, <1>1, <1>2, <1>3, MoveKeeps

\* The end of an attempt or of a reconciliation.
LEMMA EndKeeps ==
  ASSUME IInv, NEW w \in Actors, ClearCancellation(w) \/ Release(w) \/ ReleaseFails(w) PROVE LeaseInv' /\ Advance
<1>i. TypeOK /\ LeaseInv /\ w \in Writers
  BY DEF IInv, Actors, Writers
<1>0. UNCHANGED <<events, flag>>
  BY DEF ClearCancellation, Release, ReleaseFails, kept, faultKept, journal
<1>f. Admitted' = Admitted /\ \A p \in Owners : flag[p] \subseteq flag'[p]
  BY <1>0, FlagsKept
<1>1. CASE ClearCancellation(w)
  <2>1. Moves(w, Is("release")) /\ UNCHANGED lease
    BY <1>1, <1>i, GoesMoves DEF ClearCancellation
  <2> QED  BY <1>0, <1>f, <1>i, <2>1, RestKeeps DEF Quiet
<1>2. CASE ReleaseFails(w)
  <2>1. Moves(w, Is(IF w \in Owners THEN "done" ELSE "idle")) /\ UNCHANGED lease
    BY <1>2, <1>i, GoesMoves DEF ReleaseFails
  <2>2. CASE w \in Owners
    BY <1>0, <1>f, <1>i, <2>1, <2>2, RestKeeps DEF Quiet
  <2>3. CASE w \notin Owners
    BY <1>0, <1>f, <1>i, <2>1, <2>3, RestKeeps DEF Quiet
  <2> QED  BY <2>2, <2>3
<1>3. CASE Release(w)
  <2>1. Moves(w, Is(IF w \in Owners THEN "done" ELSE "idle")) /\ Releases(w)
    BY <1>3, <1>i, GoesMoves DEF Release
  <2>2. ~WorkingIn(proc'[w])
    BY <2>1 DEF Moves, Is, WorkingIn
  <2>3. Allowed(w)
    BY <2>2, RestAllowed
  <2>4. ASSUME NEW v \in Actors, v # w PROVE Allowed(v)
    <3>1. proc'[v] = proc[v] /\ Holds(v)' = Holds(v)
      BY <2>1, <2>4 DEF Moves, Actors, Writers, Holds, Releases, NoLease
    <3>2. Ids' = Ids
      BY <1>0 DEF Ids
    <3> QED  BY <1>f, <3>1, <3>2, StillAllowed
  <2>5. Ids' = Ids
    BY <1>0 DEF Ids
  <2> QED  BY <1>f, <2>3, <2>4, <2>5, AllowedKeeps
<1> QED  BY <1>1, <1>2, <1>3

\* The reconciler holds a lease of its own and looks at the journal after it got it.
LEMMA ReconcilerKeeps ==
  ASSUME IInv, NEW r \in Reconcilers,
         Notice(r) \/ ReconcilerClaims(r) \/ ReconcilerInspects(r) \/ ReconcilerRenews(r) \/ ReconcilerCrash(r)
  PROVE  LeaseInv' /\ Advance
<1>i. TypeOK /\ LeaseInv /\ r \in Writers /\ r \in Actors /\ r \notin Owners
  BY WritersKnown DEF IInv, Actors
<1>0. UNCHANGED <<events, flag>>
  BY DEF Notice, ReconcilerClaims, ReconcilerInspects, ReconcilerRenews, ReconcilerCrash, kept, faultKept, journal
<1>f. Admitted' = Admitted /\ \A p \in Owners : flag[p] \subseteq flag'[p]
  BY <1>0, FlagsKept
<1>d. Ids' = Ids
  BY <1>0 DEF Ids
<1>r. ASSUME NEW phase \in {"idle", "claim", "release"}, Goes(r, phase), UNCHANGED lease PROVE LeaseInv' /\ Advance
  <2>1. Moves(r, Is(phase))
    BY <1>i, <1>r, GoesMoves
  <2> QED  BY <1>0, <1>f, <1>i, <1>r, <2>1, RestKeeps DEF Quiet
<1>1. CASE Notice(r) \/ ReconcilerCrash(r)
  <2>1. UNCHANGED lease /\ \E phase \in {"idle", "claim", "release"} : Goes(r, phase)
    BY <1>1 DEF Notice, ReconcilerCrash
  <2> QED  BY <1>r, <2>1
<1>2. CASE ReconcilerClaims(r)
  <2>1. CASE CanClaim
    <3>1. Moves(r, Is("inspect")) /\ lease' = [holder |-> r, live |-> TRUE]
      BY <1>2, <1>i, <2>1, GoesMoves DEF ReconcilerClaims, Claims
    <3>2. ASSUME NEW v \in Actors, v # r PROVE Allowed(v)
      <4>1. proc'[v] = proc[v] /\ ~Holds(v) /\ ~Holds(v)'
        BY <2>1, <3>1, <3>2 DEF Moves, Actors, Writers, Holds, CanClaim
      <4> QED  BY <1>d, <1>f, <4>1, StillAllowed
    <3>3. ~WorkingIn(proc'[r])
      BY <3>1 DEF Moves, WorkingIn, Is
    <3>4. Allowed(r)
      BY <1>i, <3>3, RestAllowed
    <3> QED  BY <1>d, <1>f, <3>2, <3>4, AllowedKeeps
  <2>2. CASE ~CanClaim
    <3>1. UNCHANGED lease /\ \E phase \in {"idle", "claim", "release"} : Goes(r, phase)
      BY <1>2, <2>2 DEF ReconcilerClaims
    <3> QED  BY <1>r, <3>1
  <2> QED  BY <2>1, <2>2
<1>3. CASE ReconcilerInspects(r)
  <2>0. UNCHANGED lease
    BY <1>3 DEF ReconcilerInspects
  <2>1. CASE ~Readable \/ Ended
    <3>1. \E phase \in {"idle", "claim", "release"} : Goes(r, phase)
      BY <1>3, <2>1 DEF ReconcilerInspects
    <3> QED  BY <1>r, <2>0, <3>1
  <2>2. CASE ~(~Readable \/ Ended)
    <3>1. Moves(r, Is("renew"))
      BY <1>3, <1>i, <2>2, GoesMoves DEF ReconcilerInspects
    <3>2. proc'[r].pc = "renew"
      BY <3>1 DEF Moves, Is
    <3>3. Allowed(r)
      BY <1>i, <2>0, <2>2, <3>2 DEF Allowed, ConcludingIn, Holds
    <3> QED  BY <1>0, <1>f, <1>i, <2>0, <3>1, <3>3, MoveKeeps
  <2> QED  BY <2>1, <2>2
<1>4. CASE ReconcilerRenews(r)
  <2>0. UNCHANGED lease /\ proc[r].pc = "renew"
    BY <1>4 DEF ReconcilerRenews, At
  <2>1. CASE ~Holds(r)
    <3>1. \E phase \in {"idle", "claim", "release"} : Goes(r, phase)
      BY <1>4, <2>1 DEF ReconcilerRenews
    <3> QED  BY <1>r, <2>0, <3>1
  <2>2. CASE Holds(r)
    <3>1. Moves(r, Writing("interrupted"))
      BY <1>4, <1>i, <2>2, WritesMoves DEF ReconcilerRenews
    <3>2. WorkingIn(proc[r]) /\ proc'[r].pc = "append"
      BY <2>0, <3>1 DEF Moves, Writing, WorkingIn
    <3>3. Allowed(r)
      BY <1>i, <2>0, <2>2, <3>2 DEF Allowed, Holds
    <3> QED  BY <1>0, <1>f, <1>i, <2>0, <3>1, <3>3, MoveKeeps
  <2> QED  BY <2>1, <2>2
<1> QED  BY <1>1, <1>2, <1>3, <1>4

\* Calls of the store that fail, and crashes.
LEMMA FailureKeeps ==
  ASSUME IInv, NEW o \in Owners, OwnerFails(o) \/ Crash(o) PROVE LeaseInv' /\ Advance
<1>i. TypeOK /\ Tidy /\ LeaseInv /\ o \in Writers /\ o \in Actors
  BY WritersKnown DEF IInv, Actors
<1>0. UNCHANGED <<events, lease>>
  BY DEF OwnerFails, Crash, faultKept, journal
<1>1. CASE OwnerFails(o)
  <2>1. CASE proc[o].id = "chunk"
    <3>1. Moves(o, Is("drain"))
      BY <1>1, <1>i, <2>1, GoesMoves DEF OwnerFails
    <3>2. WorkingIn(proc[o])
      <4>1. proc[o].pc # "append" => proc[o] = Is(proc[o].pc)
        BY <1>i DEF Tidy
      <4>2. proc[o].pc = "append"
        BY <2>1, <4>1 DEF Is
      <4> QED  BY <2>1, <4>2 DEF WorkingIn
    <3>3. \E what \in Flag \ {"admitted"} : Learns(o, what)
      BY <1>1, <2>1 DEF OwnerFails, Flag
    <3>4. Quiet
      <4>1. ASSUME NEW what \in Flag \ {"admitted"}, Learns(o, what)
            PROVE  Admitted' = Admitted /\ \A p \in Owners : flag[p] \subseteq flag'[p]
        BY <1>i, <4>1, LearnsMore
      <4> QED  BY <1>0, <3>3, <4>1 DEF Quiet
    <3>5. Onward(Is("drain"))
      BY DEF Is, Onward
    <3> QED  BY <1>i, <3>1, <3>2, <3>4, <3>5, WorkKeeps
  <2>2. CASE proc[o].id # "chunk"
    <3>1. UNCHANGED flag /\ \E phase \in {"done", "release"} : Goes(o, phase)
      <4>1. CASE proc[o].id = "accepted" /\ At(o, "append")
        BY <1>1, <2>2, <4>1 DEF OwnerFails
      <4>2. CASE ~(proc[o].id = "accepted" /\ At(o, "append"))
        BY <1>1, <2>2, <4>2 DEF OwnerFails
      <4> QED  BY <4>1, <4>2
    <3>2. \E phase \in {"done", "release"} : Moves(o, Is(phase))
      BY <1>i, <3>1, GoesMoves
    <3> QED  BY <1>0, <1>i, <3>1, <3>2, RestKeeps, FlagsKept DEF Quiet
  <2> QED  BY <2>1, <2>2
<1>2. CASE Crash(o)
  <2>1. \A w \in Actors : proc'[w] = IF w = o THEN Is("dead") ELSE proc[w]
    BY <1>2, <1>i, WritersKnown DEF Crash, TypeOK, Actors
  <2>2. UNCHANGED flag /\ Ids' = Ids
    BY <1>0, <1>2 DEF Crash, Ids
  <2>3. ASSUME NEW w \in Actors PROVE Allowed(w)
    <3>1. CASE w = o
      <4>1. ~WorkingIn(proc'[w])
        BY <2>1, <3>1 DEF WorkingIn, Is
      <4> QED  BY <4>1, RestAllowed
    <3>2. CASE w # o
      BY <1>0, <2>1, <2>2, <3>2, StillAllowed DEF Holds
    <3> QED  BY <3>1, <3>2
  <2> QED  BY <2>2, <2>3, FlagsKept, AllowedKeeps
<1> QED  BY <1>1, <1>2

-----------------------------------------------------------------------------
(* Types, and what the programs keep in order.                             *)

ProgramType(n) == [pc : Phase, id : Event, seq : 0..n]
LeaseType == [holder : Owners \cup Reconcilers \cup {None}, live : BOOLEAN]
BeatPhase == {"idle", "wait", "renew", "done"}

\* A program that carries nothing, or an event that has no sequence yet.
Sound(w, rec) ==
  /\ rec \in ProgramType(0)
  /\ rec.pc # "append" => rec = Is(rec.pc)
  /\ w \in Beats => rec.pc \in BeatPhase \/ (rec.pc = "append" /\ rec.id = "cancelling")

LEMMA IsSound ==
  ASSUME NEW w, NEW phase \in Phase \ {"append"}, w \in Beats => phase \in BeatPhase PROVE Sound(w, Is(phase))
<1>1. Is(phase) \in ProgramType(0) /\ Is(phase).pc = phase
  BY DEF Is, ProgramType, Event
<1> QED  BY <1>1 DEF Sound

LEMMA WritingSound ==
  ASSUME NEW w, NEW id \in Event, w \in Beats => id = "cancelling" PROVE Sound(w, Writing(id))
<1>1. Writing(id) \in ProgramType(0) /\ Writing(id).pc = "append" /\ Writing(id).id = id
  BY DEF Writing, ProgramType, Phase
<1> QED  BY <1>1 DEF Sound

\* Programs stay in order when some of them take a sound step.
LEMMA SoundStep ==
  ASSUME TypeOK, Tidy, UNCHANGED <<store, last, events>>, DOMAIN proc' = Writers, proc' = [w \in Writers |-> proc'[w]],
         \A w \in Writers : proc'[w] = proc[w] \/ Sound(w, proc'[w])
  PROVE  proc' \in [Writers -> ProgramType(last')] /\ Tidy'
<1>0. \A w \in Writers : proc[w] \in ProgramType(last)
  BY DEF TypeOK, ProgramType
<1>1. ASSUME NEW rec \in ProgramType(0) PROVE rec \in ProgramType(last') /\ rec.seq = 0
  BY DEF ProgramType, TypeOK
<1>2. \A w \in Writers : proc'[w] \in ProgramType(last')
  BY <1>0, <1>1 DEF Sound
<1>3. \A w \in Writers : proc'[w] = proc[w] \/ proc'[w].seq = 0
  BY <1>1 DEF Sound
<1>4. \A w \in Writers : proc'[w].pc # "append" => proc'[w] = Is(proc'[w].pc)
  BY DEF Sound, Tidy
<1>5. ASSUME NEW w \in Beats
      PROVE  /\ proc'[w].pc \in {"idle", "wait", "renew", "done", "append"}
             /\ proc'[w].pc = "append" => proc'[w].id = "cancelling"
  <2>1. w \in Writers
    BY DEF Writers
  <2> QED  BY <2>1 DEF Sound, Tidy, BeatPhase
<1>6. ASSUME NEW w \in Writers, proc'[w].seq > 0
      PROVE  /\ store' = "sql" /\ proc'[w].seq \notin DOMAIN events'
             /\ \A v \in Writers : v # w => proc'[v].seq # proc'[w].seq
  <2>1. proc'[w] = proc[w]
    BY <1>3, <1>6
  <2>2. \A v \in Writers : v # w => proc'[v].seq # proc'[w].seq
    BY <1>3, <1>6, <2>1 DEF Tidy
  <2> QED  BY <1>6, <2>1, <2>2 DEF Tidy
<1>7. Tidy'
  BY <1>4, <1>5, <1>6 DEF Tidy
<1> QED  BY <1>2, <1>7

Ways(w) ==
  \/ \E phase \in Phase \ {"append"} : Goes(w, phase) /\ (w \in Beats => phase \in BeatPhase)
  \/ \E id \in Event : Writes(w, id) /\ (w \in Beats => id = "cancelling")

LEMMA WaysSound ==
  ASSUME TypeOK, Tidy, NEW w \in Writers, Ways(w), UNCHANGED <<store, last, events>>
  PROVE  proc' \in [Writers -> ProgramType(last')] /\ Tidy'
<1>1. ASSUME NEW rec, proc' = [proc EXCEPT ![w] = rec], Sound(w, rec)
      PROVE  proc' \in [Writers -> ProgramType(last')] /\ Tidy'
  <2>1. DOMAIN proc' = Writers /\ proc' = [v \in Writers |-> proc'[v]]
    BY <1>1 DEF TypeOK
  <2>2. \A v \in Writers : proc'[v] = IF v = w THEN rec ELSE proc[v]
    BY <1>1 DEF TypeOK
  <2> QED  BY <1>1, <2>1, <2>2, SoundStep
<1>2. ASSUME NEW phase \in Phase \ {"append"}, Goes(w, phase), w \in Beats => phase \in BeatPhase
      PROVE  proc' \in [Writers -> ProgramType(last')] /\ Tidy'
  BY <1>1, <1>2, IsSound DEF Goes
<1>3. ASSUME NEW id \in Event, Writes(w, id), w \in Beats => id = "cancelling"
      PROVE  proc' \in [Writers -> ProgramType(last')] /\ Tidy'
  BY <1>1, <1>3, WritingSound DEF Writes
<1> QED  BY <1>2, <1>3 DEF Ways

\* Two programs of one attempt step together.
LEMMA PairSound ==
  ASSUME TypeOK, Tidy, NEW o \in Owners, NEW a, NEW b, proc' = [proc EXCEPT ![o] = a, ![Beat(o)] = b],
         Sound(o, a), Sound(Beat(o), b), UNCHANGED <<store, last, events>>
  PROVE  proc' \in [Writers -> ProgramType(last')] /\ Tidy'
<1>1. DOMAIN proc' = Writers /\ proc' = [v \in Writers |-> proc'[v]]
  BY DEF TypeOK
<1>2. \A v \in Writers : proc'[v] = IF v = Beat(o) THEN b ELSE IF v = o THEN a ELSE proc[v]
  BY WritersKnown DEF TypeOK
<1> QED  BY <1>1, <1>2, SoundStep

Notes == UNCHANGED flag \/ \E o \in Owners, what \in Flag : Learns(o, what)
Leases(w) == UNCHANGED lease \/ (w \in Actors /\ Claims(w)) \/ Releases(w)

LEMMA NotesTyped == ASSUME TypeOK, Notes PROVE flag' \in [Owners -> SUBSET Flag]
<1>1. ASSUME NEW o \in Owners, NEW what \in Flag, Learns(o, what) PROVE flag' \in [Owners -> SUBSET Flag]
  BY <1>1, LearnsMore
<1> QED  BY <1>1 DEF Notes, TypeOK

LEMMA LeasesTyped == ASSUME TypeOK, NEW w \in Writers, Leases(w) PROVE lease' \in LeaseType
<1>1. lease \in LeaseType /\ NoLease \in LeaseType /\ (w \in Actors => [holder |-> w, live |-> TRUE] \in LeaseType)
  BY DEF TypeOK, NoLease, LeaseType, Actors
<1> QED  BY <1>1 DEF Leases, Claims, Releases

\* What is left of the type invariant.
LEMMA Assembled ==
  ASSUME TypeOK, UNCHANGED <<store, last, events, canceller, follower>>,
         proc' \in [Writers -> ProgramType(last')], lease' \in LeaseType, flag' \in [Owners -> SUBSET Flag],
         cancel' \in BOOLEAN, chunks' \in [Owners -> 0..MaxChunks], faults' \in 0..MaxFaults
  PROVE  TypeOK'
<1>1. proc' \in [Writers -> [pc : Phase, id : Event, seq : 0..last']]
  BY DEF ProgramType
<1>2. lease' \in [holder : Owners \cup Reconcilers \cup {None}, live : BOOLEAN]
  BY DEF LeaseType
<1>3. Ids' = Ids
  BY DEF Ids
<1>4. DOMAIN events' \subseteq 1..last' /\ Ids' \subseteq Event /\ last' \in Nat /\ store' \in Stores
  BY <1>3 DEF TypeOK
<1>5. /\ canceller' \in [Cancellers -> {"idle", "request", "recheck", "done"}]
      /\ follower' \in [Followers -> [pc : {"idle", "following", "ended"}, cursor : 0..last']]
  BY DEF TypeOK
<1> QED  BY <1>1, <1>2, <1>4, <1>5 DEF TypeOK

\* One writer takes a step that leaves the journal alone.
LEMMA StepTyped ==
  ASSUME TypeOK, Tidy, NEW w \in Writers, Ways(w), Notes, Leases(w),
         UNCHANGED <<store, last, events, canceller, follower>>,
         cancel' \in BOOLEAN, chunks' \in [Owners -> 0..MaxChunks], faults' \in 0..MaxFaults
  PROVE  TypeOK' /\ Tidy'
<1>1. proc' \in [Writers -> ProgramType(last')] /\ Tidy'
  BY WaysSound
<1>2. lease' \in LeaseType /\ flag' \in [Owners -> SUBSET Flag]
  BY LeasesTyped, NotesTyped
<1> QED  BY <1>1, <1>2, Assembled

\* What most steps leave alone.
Frame == UNCHANGED <<store, last, events, canceller, follower, cancel, chunks>> /\ faults' \in 0..MaxFaults

LEMMA FrameTyped ==
  ASSUME TypeOK, Tidy, NEW w \in Writers, Ways(w), Notes, Leases(w), Frame PROVE TypeOK' /\ Tidy'
BY StepTyped DEF Frame, TypeOK

LEMMA Counted == ASSUME TypeOK, Fault PROVE faults' \in 0..MaxFaults
BY DEF TypeOK, Fault

\* The attempt's own steps.
LEMMA OwnerTyped ==
  ASSUME TypeOK, Tidy, NEW o \in Owners,
         \/ Request(o) \/ Claim(o) \/ Inspect(o) \/ Admit(o) \/ Fence(o) \/ StartProducer(o) \/ WriteChunk(o)
         \/ ProducerEnds(o) \/ Drain(o) \/ Decide(o) \/ OwnerFails(o) \/ Crash(o)
  PROVE  TypeOK' /\ Tidy'
<1>0. o \in Writers /\ o \notin Beats /\ o \in Actors /\ Beat(o) \in Writers /\ Beat(o) \in Beats
  BY WritersKnown DEF Actors
<1>f. ASSUME UNCHANGED <<kept, cancel>> PROVE Frame
  BY <1>f DEF Frame, kept, journal, TypeOK
<1>g. ASSUME NEW phase \in Phase \ {"append"}, Goes(o, phase) PROVE Ways(o)
  BY <1>0, <1>g DEF Ways
<1>w. ASSUME NEW id \in Event, Writes(o, id) PROVE Ways(o)
  BY <1>0, <1>w DEF Ways
<1>n. ASSUME NEW what \in Flag, Learns(o, what) PROVE Notes
  BY <1>n DEF Notes
<1>1. CASE Request(o)
  <2>1. Ways(o)
    BY <1>1, <1>g, <1>w DEF Request, Phase, Event
  <2> QED  BY <1>0, <1>1, <1>f, <2>1, FrameTyped DEF Request, Notes, Leases
<1>2. CASE Claim(o)
  <2>1. Ways(o) /\ Leases(o)
    BY <1>0, <1>2, <1>g DEF Claim, Phase, Leases
  <2> QED  BY <1>0, <1>2, <1>f, <2>1, FrameTyped DEF Claim, Notes
<1>3. CASE Inspect(o)
  <2>1. Ways(o) /\ Notes
    BY <1>0, <1>3, <1>g, <1>n DEF Inspect, Phase, Flag, Notes
  <2> QED  BY <1>0, <1>3, <1>f, <2>1, FrameTyped DEF Inspect, Leases
<1>4. CASE Admit(o)
  <2>1. Ways(o) /\ Notes
    BY <1>0, <1>4, <1>g, <1>w, <1>n DEF Admit, Phase, Event, Terminal, Flag, Notes
  <2> QED  BY <1>0, <1>4, <1>f, <2>1, FrameTyped DEF Admit, Leases
<1>5. CASE Fence(o)
  <2>1. Ways(o) /\ Notes
    BY <1>0, <1>5, <1>g, <1>n DEF Fence, Phase, Flag, Notes
  <2> QED  BY <1>0, <1>5, <1>f, <2>1, FrameTyped DEF Fence, Leases
<1>6. CASE StartProducer(o)
  <2>1. CASE cancel
    <3>1. Ways(o) /\ Notes
      BY <1>0, <1>6, <1>w, <1>n, <2>1 DEF StartProducer, Event, Flag, Notes
    <3> QED  BY <1>0, <1>6, <1>f, <3>1, FrameTyped DEF StartProducer, Leases
  <2>2. CASE ~cancel
    <3>1. proc' = [proc EXCEPT ![o] = Is("produce"), ![Beat(o)] = Is("wait")] /\ UNCHANGED <<flag, lease, kept, cancel>>
      BY <1>6, <2>2 DEF StartProducer
    <3>2. Sound(o, Is("produce")) /\ Sound(Beat(o), Is("wait"))
      BY <1>0, IsSound DEF Phase, BeatPhase
    <3>3. proc' \in [Writers -> ProgramType(last')] /\ Tidy'
      BY <3>1, <3>2, PairSound DEF kept, journal
    <3> QED  BY <3>1, <3>3, Assembled DEF kept, journal, TypeOK, LeaseType
  <2> QED  BY <2>1, <2>2
<1>7. CASE WriteChunk(o)
  <2>1. Ways(o)
    BY <1>7, <1>w DEF WriteChunk, Event
  <2>2. chunks' \in [Owners -> 0..MaxChunks]
    BY <1>7 DEF WriteChunk, TypeOK
  <2> QED  BY <1>0, <1>7, <2>1, <2>2, StepTyped DEF WriteChunk, journal, Notes, Leases, TypeOK
<1>8. CASE ProducerEnds(o)
  <2>1. Ways(o) /\ Notes
    BY <1>0, <1>8, <1>g, <1>n DEF ProducerEnds, Phase, Flag, Notes
  <2> QED  BY <1>0, <1>8, <1>f, <2>1, FrameTyped DEF ProducerEnds, Leases
<1>9. CASE Drain(o)
  <2>1. proc' = [proc EXCEPT ![o] = Is("decide"), ![Beat(o)] = Is("done")] /\ UNCHANGED <<flag, lease, kept, cancel>>
    BY <1>9 DEF Drain
  <2>2. Sound(o, Is("decide")) /\ Sound(Beat(o), Is("done"))
    BY <1>0, IsSound DEF Phase, BeatPhase
  <2>3. proc' \in [Writers -> ProgramType(last')] /\ Tidy'
    BY <2>1, <2>2, PairSound DEF kept, journal
  <2> QED  BY <2>1, <2>3, Assembled DEF kept, journal, TypeOK, LeaseType
<1>10. CASE Decide(o)
  <2>1. Outcome(o) \in Event
    BY DEF Outcome, Event, Terminal
  <2>2. Ways(o) /\ Notes
    BY <1>0, <1>10, <1>g, <1>w, <1>n, <2>1 DEF Decide, Phase, Flag, Notes
  <2> QED  BY <1>0, <1>10, <1>f, <2>2, FrameTyped DEF Decide, Leases
<1>11. CASE OwnerFails(o)
  <2>1. Frame /\ Leases(o)
    BY <1>11, Counted DEF OwnerFails, faultKept, journal, Frame, Leases
  <2>2. \/ Goes(o, "drain") /\ Learns(o, "failed")
        \/ (Goes(o, "done") \/ Goes(o, "release")) /\ UNCHANGED flag
    BY <1>11 DEF OwnerFails
  <2>3. Ways(o) /\ Notes
    BY <1>g, <1>n, <2>2 DEF Phase, Flag, Notes
  <2> QED  BY <1>0, <2>1, <2>3, FrameTyped
<1>12. CASE Crash(o)
  <2>1. proc' = [proc EXCEPT ![o] = Is("dead"), ![Beat(o)] = Is("done")] /\ UNCHANGED <<flag, lease, faultKept>>
    BY <1>12 DEF Crash
  <2>2. Sound(o, Is("dead")) /\ Sound(Beat(o), Is("done"))
    BY <1>0, IsSound DEF Phase, BeatPhase
  <2>3. proc' \in [Writers -> ProgramType(last')] /\ Tidy'
    BY <2>1, <2>2, PairSound DEF faultKept, journal
  <2>4. faults' \in 0..MaxFaults
    BY <1>12, Counted DEF Crash
  <2> QED  BY <2>1, <2>3, <2>4, Assembled DEF faultKept, journal, TypeOK, LeaseType
<1> QED  BY <1>1, <1>2, <1>3, <1>4, <1>5, <1>6, <1>7, <1>8, <1>9, <1>10, <1>11, <1>12

\* The heartbeat, the reconciler and the end of both.
LEMMA OtherTyped ==
  ASSUME TypeOK, Tidy,
         \/ \E o \in Owners : BeatWakes(o) \/ BeatRenews(o) \/ HeartbeatFails(o)
         \/ \E r \in Reconcilers :
              Notice(r) \/ ReconcilerClaims(r) \/ ReconcilerInspects(r) \/ ReconcilerRenews(r) \/ ReconcilerCrash(r)
         \/ \E w \in Actors : ClearCancellation(w) \/ Release(w) \/ ReleaseFails(w)
  PROVE  TypeOK' /\ Tidy'
<1>f. ASSUME UNCHANGED <<kept, cancel>> PROVE Frame
  BY <1>f DEF Frame, kept, journal, TypeOK
<1>c. ASSUME Fault, UNCHANGED faultKept PROVE Frame
  BY <1>c, Counted DEF Frame, faultKept, journal
<1>1. ASSUME NEW o \in Owners, BeatWakes(o) \/ BeatRenews(o) \/ HeartbeatFails(o) PROVE TypeOK' /\ Tidy'
  <2>1. Beat(o) \in Writers /\ Beat(o) \in Beats
    BY WritersKnown
  <2>2. Ways(Beat(o))
    <3>1. ASSUME NEW phase \in BeatPhase, Goes(Beat(o), phase) PROVE Ways(Beat(o))
      BY <3>1 DEF Ways, BeatPhase, Phase
    <3>2. ASSUME Writes(Beat(o), "cancelling") PROVE Ways(Beat(o))
      BY <3>2 DEF Ways, Event
    <3>3. Writes(Beat(o), "cancelling") \/ \E phase \in BeatPhase : Goes(Beat(o), phase)
      BY <1>1 DEF BeatWakes, BeatRenews, HeartbeatFails, BeatPhase
    <3> QED  BY <3>1, <3>2, <3>3
  <2>3. Notes
    BY <1>1 DEF BeatWakes, BeatRenews, HeartbeatFails, Notes, Flag
  <2>4. Frame /\ Leases(Beat(o))
    BY <1>1, <1>c, <1>f DEF BeatWakes, BeatRenews, HeartbeatFails, Leases
  <2> QED  BY <2>1, <2>2, <2>3, <2>4, FrameTyped
<1>2. ASSUME NEW r \in Reconcilers,
             Notice(r) \/ ReconcilerClaims(r) \/ ReconcilerInspects(r) \/ ReconcilerRenews(r) \/ ReconcilerCrash(r)
      PROVE  TypeOK' /\ Tidy'
  <2>1. r \in Writers /\ r \notin Beats /\ r \in Actors
    BY WritersKnown DEF Actors
  <2>2. Ways(r)
    <3>1. ASSUME NEW phase \in Phase \ {"append"}, Goes(r, phase) PROVE Ways(r)
      BY <2>1, <3>1 DEF Ways
    <3>2. ASSUME Writes(r, "interrupted") PROVE Ways(r)
      BY <2>1, <3>2 DEF Ways, Event, Terminal
    <3>3. Writes(r, "interrupted") \/ \E phase \in Phase \ {"append"} : Goes(r, phase)
      BY <1>2 DEF Notice, ReconcilerClaims, ReconcilerInspects, ReconcilerRenews, ReconcilerCrash, Phase
    <3> QED  BY <3>1, <3>2, <3>3
  <2>3. Notes /\ Leases(r)
    BY <1>2, <2>1 DEF Notice, ReconcilerClaims, ReconcilerInspects, ReconcilerRenews, ReconcilerCrash, Notes, Leases
  <2>4. Frame
    BY <1>2, <1>c, <1>f DEF Notice, ReconcilerClaims, ReconcilerInspects, ReconcilerRenews, ReconcilerCrash
  <2> QED  BY <2>1, <2>2, <2>3, <2>4, FrameTyped
<1>3. ASSUME NEW w \in Actors, ClearCancellation(w) \/ Release(w) \/ ReleaseFails(w) PROVE TypeOK' /\ Tidy'
  <2>1. w \in Writers /\ w \notin Beats
    BY WritersKnown DEF Actors
  <2>2. Ways(w)
    <3>1. ASSUME NEW phase \in Phase \ {"append"}, Goes(w, phase) PROVE Ways(w)
      BY <2>1, <3>1 DEF Ways
    <3>2. \E phase \in Phase \ {"append"} : Goes(w, phase)
      BY <1>3 DEF ClearCancellation, Release, ReleaseFails, Phase
    <3> QED  BY <3>1, <3>2
  <2>3. Notes /\ Leases(w)
    BY <1>3 DEF ClearCancellation, Release, ReleaseFails, Notes, Leases
  <2>4. CASE ReleaseFails(w) \/ Release(w)
    <3>1. Frame
      BY <1>c, <1>f, <2>4 DEF Release, ReleaseFails
    <3> QED  BY <2>1, <2>2, <2>3, <3>1, FrameTyped
  <2>5. CASE ClearCancellation(w)
    BY <2>1, <2>2, <2>3, <2>5, StepTyped DEF ClearCancellation, kept, journal, TypeOK
  <2> QED  BY <1>3, <2>4, <2>5
<1> QED  BY <1>1, <1>2, <1>3

\* The journal: a sequence reserved belongs to one writer until its event is in place.
LEMMA AppendTyped ==
  ASSUME TypeOK, Tidy, NEW w \in Writers, Append(w) PROVE TypeOK' /\ Tidy'
<1>0. /\ proc[w].pc = "append"
      /\ UNCHANGED <<store, lease, cancel, flag, chunks, canceller, follower, faults>>
  BY AppendEffect
<1>1. CASE Reserves(w)
  <2>1. last' = last + 1 /\ UNCHANGED events /\ store = "sql" /\ proc' = [proc EXCEPT ![w].seq = last + 1]
    BY <1>1 DEF Reserves
  <2>2. proc' \in [Writers -> [pc : Phase, id : Event, seq : 0..last']]
    BY <2>1 DEF TypeOK
  <2>3. /\ \A v \in Writers : v # w => proc'[v] = proc[v]
        /\ proc'[w].pc = proc[w].pc /\ proc'[w].id = proc[w].id /\ proc'[w].seq = last + 1
    BY <2>1 DEF TypeOK
  <2>4. last + 1 \notin DOMAIN events /\ \A v \in Writers : proc[v].seq \in 0..last
    BY DEF TypeOK
  <2>5. last \in Nat /\ \A v \in Writers : proc[v].seq # last + 1
    BY <2>4 DEF TypeOK
  <2>6. \A v \in Writers : proc'[v].pc # "append" => proc'[v] = Is(proc'[v].pc)
    BY <1>0, <2>3 DEF Tidy
  <2>7. ASSUME NEW v \in Beats
        PROVE  /\ proc'[v].pc \in {"idle", "wait", "renew", "done", "append"}
               /\ proc'[v].pc = "append" => proc'[v].id = "cancelling"
    BY <2>3 DEF Tidy, Writers
  <2>8. ASSUME NEW v \in Writers, proc'[v].seq > 0
        PROVE  /\ store' = "sql" /\ proc'[v].seq \notin DOMAIN events'
               /\ \A u \in Writers : u # v => proc'[u].seq # proc'[v].seq
    BY <1>0, <2>1, <2>3, <2>4, <2>5, <2>8 DEF Tidy
  <2>9. Tidy'
    BY <2>6, <2>7, <2>8 DEF Tidy
  <2>10. follower' \in [Followers -> [pc : {"idle", "following", "ended"}, cursor : 0..last']]
    BY <1>0, <2>1 DEF TypeOK
  <2>11. Ids' = Ids /\ DOMAIN events' \subseteq 1..last' /\ last' \in Nat
    BY <2>1 DEF TypeOK, Ids
  <2>12. TypeOK'
    BY <1>0, <2>2, <2>10, <2>11 DEF TypeOK
  <2> QED  BY <2>9, <2>12
<1>2. CASE Finds(w)
  <2>1. Ways(w)
    <3>1. AfterAppend(w, proc[w].id) \in Phase \ {"append"} /\ (w \in Beats => AfterAppend(w, proc[w].id) \in BeatPhase)
      BY Afterwards DEF Phase, BeatPhase
    <3> QED  BY <1>2, <3>1 DEF Finds, Written, Ways
  <2>2. Notes /\ Leases(w)
    BY <1>0 DEF Notes, Leases
  <2> QED  BY <1>0, <1>2, <2>1, <2>2, FrameTyped DEF Finds, Frame, TypeOK
<1>3. ASSUME NEW n \in Nat, Places(w, n) PROVE TypeOK' /\ Tidy'
  <2>1. n \notin DOMAIN events /\ Puts(n, proc[w].id) /\ proc' = [proc EXCEPT ![w] = After(w)]
    BY <1>3 DEF Places, Written, Goes, After
  <2>2. n \in 1..last' /\ last' \in Nat /\ last <= last' /\ (\A v \in Writers : v # w => proc[v].seq # n)
    <3>1. last \in Nat /\ \A v \in Writers : proc[v].seq \in 0..last
      BY DEF TypeOK
    <3>2. CASE proc[w].seq = 0 /\ n = last + 1 /\ last' = last + 1
      BY <3>1, <3>2
    <3>3. CASE proc[w].seq > 0 /\ n = proc[w].seq /\ last' = last
      BY <3>1, <3>3 DEF Tidy
    <3> QED  BY <1>3, <3>2, <3>3 DEF Places
  <2>3. Ids' \subseteq Event
    <3>1. Ids' \subseteq Ids \cup {proc[w].id}
      BY <2>1, Joins
    <3> QED  BY <3>1 DEF TypeOK
  <2>4. DOMAIN events' = DOMAIN events \cup {n}
    BY <2>1 DEF Puts
  <2>5. After(w) \in ProgramType(0) /\ Sound(w, After(w))
    <3>1. AfterAppend(w, proc[w].id) \in Phase \ {"append"} /\ (w \in Beats => AfterAppend(w, proc[w].id) \in BeatPhase)
      BY Afterwards DEF Phase, BeatPhase
    <3>2. Sound(w, After(w))
      BY <3>1, IsSound DEF After
    <3> QED  BY <3>2 DEF Sound
  <2>6. After(w).seq = 0
    BY <2>5 DEF ProgramType
  <2>7. proc' \in [Writers -> [pc : Phase, id : Event, seq : 0..last']]
    <3>1. After(w) \in [pc : Phase, id : Event, seq : 0..last']
      BY <2>2, <2>5 DEF ProgramType
    <3>2. \A v \in Writers : proc[v] \in [pc : Phase, id : Event, seq : 0..last']
      BY <2>2 DEF TypeOK
    <3> QED  BY <2>1, <3>1, <3>2 DEF TypeOK
  <2>8. \A v \in Writers : proc'[v] = IF v = w THEN After(w) ELSE proc[v]
    BY <2>1 DEF TypeOK
  <2>9. \A v \in Writers : proc'[v].pc # "append" => proc'[v] = Is(proc'[v].pc)
    BY <2>5, <2>8 DEF Tidy, Sound
  <2>10. ASSUME NEW v \in Beats
         PROVE  /\ proc'[v].pc \in {"idle", "wait", "renew", "done", "append"}
                /\ proc'[v].pc = "append" => proc'[v].id = "cancelling"
    BY <2>5, <2>8 DEF Tidy, Sound, Writers, BeatPhase
  <2>11. ASSUME NEW v \in Writers, proc'[v].seq > 0
         PROVE  /\ store' = "sql" /\ proc'[v].seq \notin DOMAIN events'
                /\ \A u \in Writers : u # v => proc'[u].seq # proc'[v].seq
    <3>1. v # w /\ proc'[v] = proc[v]
      BY <2>6, <2>8, <2>11
    <3>2. store' = "sql" /\ proc[v].seq \notin DOMAIN events'
      BY <1>0, <2>2, <2>4, <2>11, <3>1 DEF Tidy
    <3>3. \A u \in Writers : u # v => proc'[u].seq # proc'[v].seq
      BY <2>6, <2>8, <2>11, <3>1 DEF Tidy
    <3> QED  BY <3>1, <3>2, <3>3
  <2>12. Tidy'
    BY <2>9, <2>10, <2>11 DEF Tidy
  <2>13. follower' \in [Followers -> [pc : {"idle", "following", "ended"}, cursor : 0..last']]
    BY <1>0, <2>2 DEF TypeOK
  <2>14. DOMAIN events' \subseteq 1..last'
    BY <2>2, <2>4 DEF TypeOK
  <2>15. TypeOK'
    BY <1>0, <2>2, <2>3, <2>7, <2>13, <2>14 DEF TypeOK
  <2> QED  BY <2>12, <2>15
<1> QED  BY <1>1, <1>2, <1>3, AppendEffect

-----------------------------------------------------------------------------
(* A page has a first and a last event.                                    *)

LEMMA LeastNat == ASSUME NEW T, T \subseteq Nat, T # {} PROVE \E m \in T : \A n \in T : m <= n
<1> DEFINE less == {ss \in Nat \X Nat : ss[1] < ss[2]}
<1>1. IsWellFoundedOn(less, Nat)
  BY NatLessThanWellFounded DEF OpToRel
<1>2. PICK m \in T : \A n \in T : ~ (<<n, m>> \in less)
  <2> HIDE DEF less
  <2> QED  BY <1>1, WFMin
<1>3. \A n \in T : ~ (n < m)
  BY <1>2
<1> QED  BY <1>3

LEMMA MinIn == ASSUME NEW T, T \subseteq Nat, T # {} PROVE Min(T) \in T
<1>1. \E m \in T : \A n \in T : m <= n
  BY LeastNat
<1> QED  BY <1>1 DEF Min

LEMMA MaxIn == ASSUME NEW k \in Nat, NEW T, T \subseteq 0..k, T # {} PROVE Max(T) \in T
<1> DEFINE D == {k - n : n \in T}
<1>1. D \subseteq Nat /\ D # {}
  <2>1. \A n \in T : k - n \in Nat
    OBVIOUS
  <2>2. D \subseteq Nat
    BY <2>1
  <2> QED  BY <2>2
<1>2. PICK d \in D : \A e \in D : d <= e
  <2> HIDE DEF D
  <2> QED  BY <1>1, LeastNat
<1>3. PICK m \in T : d = k - m
  OBVIOUS
<1>4. \A n \in T : m >= n
  <2>1. \A n \in T : k - m <= k - n
    BY <1>2, <1>3
  <2> QED  BY <2>1
<1> QED  BY <1>4 DEF Max

\* Cancellations and followers do not touch the programs.
LEMMA ReadersTyped ==
  ASSUME TypeOK, Tidy, (\E c \in Cancellers : Cancel(c)) \/ (\E f \in Followers : FollowerStep(f)) PROVE TypeOK' /\ Tidy'
<1>1. UNCHANGED <<store, last, events, lease, proc, flag, chunks, faults>>
  BY DEF Cancel, CancelStep, FollowerStep, Follow, ReadPage, Follows, journal
<1>2. Tidy'
  BY <1>1 DEF Tidy
<1>3. ASSUME NEW c \in Cancellers, Cancel(c) PROVE TypeOK'
  <2>1. UNCHANGED follower /\ \E to \in {"request", "recheck", "done"} : canceller' = [canceller EXCEPT ![c] = to]
    BY <1>3 DEF Cancel, CancelStep
  <2>2. canceller' \in [Cancellers -> {"idle", "request", "recheck", "done"}]
    BY <2>1 DEF TypeOK
  <2>3. cancel' \in BOOLEAN
    BY <1>3 DEF Cancel, CancelStep, TypeOK
  <2>4. Ids' = Ids
    BY <1>1 DEF Ids
  <2> QED  BY <1>1, <2>1, <2>2, <2>3, <2>4 DEF TypeOK
<1>4. ASSUME NEW f \in Followers, FollowerStep(f) PROVE TypeOK'
  <2>1. UNCHANGED <<canceller, cancel>>
    BY <1>4 DEF FollowerStep, Follow, ReadPage, Follows
  <2>2. ASSUME NEW row \in [pc : {"idle", "following", "ended"}, cursor : 0..last], Follows(f, row)
        PROVE  follower' \in [Followers -> [pc : {"idle", "following", "ended"}, cursor : 0..last]]
    BY <2>2 DEF Follows, TypeOK
  <2>3. ASSUME Follow(f) PROVE follower' \in [Followers -> [pc : {"idle", "following", "ended"}, cursor : 0..last]]
    <3>1. [pc |-> "following", cursor |-> 0] \in [pc : {"idle", "following", "ended"}, cursor : 0..last]
      BY DEF TypeOK
    <3> QED  BY <2>2, <2>3, <3>1 DEF Follow
  <2>4. ASSUME ReadPage(f) PROVE follower' \in [Followers -> [pc : {"idle", "following", "ended"}, cursor : 0..last]]
    <3>1. Tail(f) # {} /\ Tail(f) \subseteq 0..last /\ TailEnds(f) \subseteq Tail(f) /\ last \in Nat
      BY <2>4 DEF ReadPage, Tail, TailEnds, TypeOK
    <3>2. Max(Tail(f)) \in 0..last
      BY <3>1, MaxIn
    <3>3. TailEnds(f) # {} => Min(TailEnds(f)) \in 0..last
      BY <3>1, MinIn
    <3>4. \A k \in 0..last, pc \in {"following", "ended"} :
            [pc |-> pc, cursor |-> k] \in [pc : {"idle", "following", "ended"}, cursor : 0..last]
      OBVIOUS
    <3>5. CASE TailEnds(f) # {}
      <4>1. Follows(f, [pc |-> "ended", cursor |-> Min(TailEnds(f))])
        BY <2>4, <3>5 DEF ReadPage
      <4> QED  BY <2>2, <3>3, <3>4, <3>5, <4>1
    <3>6. CASE TailEnds(f) = {}
      <4>1. Follows(f, [pc |-> "following", cursor |-> Max(Tail(f))])
        BY <2>4, <3>6 DEF ReadPage
      <4> QED  BY <2>2, <3>2, <3>4, <4>1
    <3> QED  BY <3>5, <3>6
  <2>5. follower' \in [Followers -> [pc : {"idle", "following", "ended"}, cursor : 0..last']]
    BY <1>1, <1>4, <2>3, <2>4 DEF FollowerStep
  <2>6. Ids' = Ids
    BY <1>1 DEF Ids
  <2> QED  BY <1>1, <2>1, <2>5, <2>6 DEF TypeOK
<1> QED  BY <1>2, <1>3, <1>4

LEMMA LapseTyped == ASSUME TypeOK, Tidy, Expire \/ Stall PROVE TypeOK' /\ Tidy'
<1>1. UNCHANGED <<store, last, events, canceller, follower, cancel, chunks, proc, flag>> /\ Lapse
  BY DEF Expire, Stall, faultKept, journal
<1>2. faults' \in 0..MaxFaults
  BY Counted DEF Expire, Stall, TypeOK
<1>3. lease' \in LeaseType
  BY <1>1 DEF Lapse, TypeOK, LeaseType
<1>4. proc' \in [Writers -> ProgramType(last')] /\ flag' \in [Owners -> SUBSET Flag] /\ cancel' \in BOOLEAN
      /\ chunks' \in [Owners -> 0..MaxChunks]
  BY <1>1 DEF TypeOK, ProgramType
<1>5. Tidy'
  BY <1>1 DEF Tidy
<1> QED  BY <1>1, <1>2, <1>3, <1>4, <1>5, Assembled

-----------------------------------------------------------------------------
(* The steps of the specification, by who takes them.                      *)

LEMMA NextCases ==
  ASSUME Next
  PROVE  \/ \E w \in Writers : Append(w)
         \/ \E o \in Owners :
              \/ Request(o) \/ Claim(o) \/ Inspect(o) \/ Admit(o) \/ Fence(o) \/ StartProducer(o) \/ WriteChunk(o)
              \/ ProducerEnds(o) \/ Drain(o) \/ Decide(o)
         \/ \E o \in Owners : OwnerFails(o) \/ Crash(o)
         \/ \E o \in Owners : BeatWakes(o) \/ BeatRenews(o) \/ HeartbeatFails(o)
         \/ \E r \in Reconcilers :
              Notice(r) \/ ReconcilerClaims(r) \/ ReconcilerInspects(r) \/ ReconcilerRenews(r) \/ ReconcilerCrash(r)
         \/ \E w \in Actors : ClearCancellation(w) \/ Release(w) \/ ReleaseFails(w)
         \/ (\E c \in Cancellers : Cancel(c)) \/ (\E f \in Followers : FollowerStep(f))
         \/ Expire \/ Stall
BY WritersKnown DEF Next, OwnerStep, BeatStep, ReconcilerStep, Actors

LEMMA NextTyped == ASSUME TypeOK, Tidy, Next PROVE TypeOK' /\ Tidy'
<1>1. ASSUME NEW w \in Writers, Append(w) PROVE TypeOK' /\ Tidy'
  BY <1>1, AppendTyped
<1>2. ASSUME NEW o \in Owners,
             \/ Request(o) \/ Claim(o) \/ Inspect(o) \/ Admit(o) \/ Fence(o) \/ StartProducer(o) \/ WriteChunk(o)
             \/ ProducerEnds(o) \/ Drain(o) \/ Decide(o)
      PROVE  TypeOK' /\ Tidy'
  BY <1>2, OwnerTyped
<1>3. ASSUME NEW o \in Owners, OwnerFails(o) \/ Crash(o) PROVE TypeOK' /\ Tidy'
  BY <1>3, OwnerTyped
<1> QED  BY <1>1, <1>2, <1>3, OtherTyped, ReadersTyped, LapseTyped, NextCases

LEMMA NextKeeps == ASSUME IInv, PromptTerminal, Next PROVE LeaseInv' /\ Advance
<1>1. ASSUME NEW w \in Writers, Append(w) PROVE LeaseInv' /\ Advance
  BY <1>1, AppendKeeps
<1>2. ASSUME NEW o \in Owners,
             \/ Request(o) \/ Claim(o) \/ Inspect(o) \/ Admit(o) \/ Fence(o) \/ StartProducer(o) \/ WriteChunk(o)
             \/ ProducerEnds(o) \/ Drain(o) \/ Decide(o)
      PROVE  LeaseInv' /\ Advance
  BY <1>2, OwnerKeeps
<1>3. ASSUME NEW o \in Owners, OwnerFails(o) \/ Crash(o) PROVE LeaseInv' /\ Advance
  BY <1>3, FailureKeeps
<1>4. ASSUME NEW o \in Owners, BeatWakes(o) \/ BeatRenews(o) \/ HeartbeatFails(o) PROVE LeaseInv' /\ Advance
  BY <1>4, BeatKeeps
<1>5. ASSUME NEW r \in Reconcilers,
             Notice(r) \/ ReconcilerClaims(r) \/ ReconcilerInspects(r) \/ ReconcilerRenews(r) \/ ReconcilerCrash(r)
      PROVE  LeaseInv' /\ Advance
  BY <1>5, ReconcilerKeeps
<1>6. ASSUME NEW w \in Actors, ClearCancellation(w) \/ Release(w) \/ ReleaseFails(w) PROVE LeaseInv' /\ Advance
  BY <1>6, EndKeeps
<1>7. ASSUME (\E c \in Cancellers : Cancel(c)) \/ (\E f \in Followers : FollowerStep(f)) PROVE LeaseInv' /\ Advance
  <2>1. UNCHANGED <<journal, lease, proc, flag>>
    BY <1>7 DEF Cancel, CancelStep, FollowerStep, Follow, ReadPage, Follows
  <2> QED  BY <2>1, OthersKeep
<1> QED  BY <1>1, <1>2, <1>3, <1>4, <1>5, <1>6, <1>7, LapseKeeps, NextCases

LEMMA StuttersKeep == ASSUME UNCHANGED vars PROVE /\ TypeOK => TypeOK'
                                                  /\ Tidy => Tidy'
                                                  /\ IInv => LeaseInv' /\ Advance
<1>1. ASSUME IInv PROVE LeaseInv' /\ Advance
  BY <1>1, OthersKeep DEF vars, journal
<1>2. TypeOK => TypeOK'
  BY DEF vars, journal, TypeOK, Ids
<1>3. Tidy => Tidy'
  BY DEF vars, journal, Tidy
<1> QED  BY <1>1, <1>2, <1>3

LEMMA InitKept == ASSUME Init PROVE IInv
<1>1. \A w \in Writers : proc[w] = Is("idle")
  BY DEF Init
<1>2. Ids = {} /\ DOMAIN events = {}
  BY DEF Init, Ids, Range
<1>3. Is("idle").pc = "idle" /\ Is("idle").seq = 0 /\ Is("idle") \in [pc : Phase, id : Event, seq : 0..last]
  BY DEF Init, Is, Phase, Event
<1>4. TypeOK
  <2>1. lease \in [holder : Owners \cup Reconcilers \cup {None}, live : BOOLEAN]
    BY DEF Init, NoLease
  <2>2. proc \in [Writers -> [pc : Phase, id : Event, seq : 0..last]]
    BY <1>3 DEF Init
  <2>3. follower \in [Followers -> [pc : {"idle", "following", "ended"}, cursor : 0..last]]
    BY DEF Init
  <2>4. flag \in [Owners -> SUBSET Flag] /\ chunks \in [Owners -> 0..MaxChunks] /\ faults \in 0..MaxFaults
        /\ canceller \in [Cancellers -> {"idle", "request", "recheck", "done"}]
    BY DEF Init
  <2>5. store \in Stores /\ last \in Nat /\ cancel \in BOOLEAN
    BY DEF Init
  <2>6. DOMAIN events \subseteq 1..last /\ Ids \subseteq Event
    BY <1>2
  <2> QED  BY <2>1, <2>2, <2>3, <2>4, <2>5, <2>6 DEF TypeOK
<1>5. Tidy
  BY <1>1, <1>3, WritersKnown DEF Tidy, Writers
<1>6. Admitted = {}
  BY DEF Init, Admitted, Knows
<1>7. LeaseInv
  BY <1>1, <1>3, <1>6 DEF LeaseInv, WorkingIn, ConcludingIn, AdmittingIn, Actors, Writers
<1> QED  BY <1>4, <1>5, <1>7 DEF IInv

-----------------------------------------------------------------------------
(* The order of the journal: what the only attempt of a run writes last.   *)

\* While a heartbeat may be under way beside the producer.
Beating(p) == p.pc \in {"produce", "drain"} \/ (p.pc = "append" /\ p.id = "chunk")

Still == {"idle", "done"}
Over == {"clear", "release", "done", "dead"}

\* The heartbeat rests before the producer starts and after it was drained, and
\* reconcilers only interrupt.
PairInv ==
  /\ \A o \in Owners : ~Beating(proc[o]) => proc[Beat(o)].pc \in Still
  /\ \A r \in Reconcilers : proc[r].pc = "append" => proc[r].id = "interrupted"

\* The only attempt writes its outcome behind all that is there, and then
\* nothing more.
LastInv ==
  \A o \in Owners : Alone(o) =>
    /\ OutcomeAt # {} => proc[o].pc \in Over
    /\ \A n \in OutcomeAt : \A m \in DOMAIN events : m <= n
    /\ ConcludingIn(proc[o]) /\ proc[o].seq > 0 => \A m \in DOMAIN events : m < proc[o].seq

OrderInv == PairInv /\ LastInv

\* Programs go on without writing.
Proceeds ==
  /\ UNCHANGED events
  /\ \A o \in Owners : \/ proc'[o] = proc[o]
                       \/ /\ proc'[o].seq = 0 /\ proc'[o].pc # "idle"
                          /\ proc[o].pc \in Over => proc'[o].pc \in Over

LEMMA ProceedsKeeps == ASSUME LastInv, Proceeds PROVE LastInv'
<1> SUFFICES ASSUME NEW o \in Owners, Alone(o)'
             PROVE  /\ OutcomeAt' # {} => proc'[o].pc \in Over
                    /\ \A n \in OutcomeAt' : \A m \in DOMAIN events' : m <= n
                    /\ ConcludingIn(proc'[o]) /\ proc'[o].seq > 0 => \A m \in DOMAIN events' : m < proc'[o].seq
  BY DEF LastInv
<1>1. Alone(o)
  BY DEF Alone, At, Proceeds
<1>2. OutcomeAt' = OutcomeAt /\ DOMAIN events' = DOMAIN events
  BY DEF Proceeds, OutcomeAt
<1>3. OutcomeAt' # {} => proc'[o].pc \in Over
  BY <1>1, <1>2 DEF LastInv, Proceeds
<1>4. ConcludingIn(proc'[o]) /\ proc'[o].seq > 0 => \A m \in DOMAIN events' : m < proc'[o].seq
  BY <1>1, <1>2 DEF LastInv, Proceeds
<1> QED  BY <1>1, <1>2, <1>3, <1>4 DEF LastInv

\* What w may become without writing.
May(w, rec) ==
  /\ rec.seq = 0
  /\ w \in Owners => /\ rec.pc # "idle" /\ (proc[w].pc \in Over => rec.pc \in Over)
                     /\ ~Beating(rec) => ~Beating(proc[w])
  /\ w \in Beats => rec.pc \in Still \/ proc[w].pc \notin Still
  /\ w \in Reconcilers => (rec.pc = "append" => rec.id = "interrupted")

LEMMA MayKeeps ==
  ASSUME OrderInv, NEW w \in Writers, NEW rec, Moves(w, rec), May(w, rec), UNCHANGED events PROVE OrderInv'
<1>1. Proceeds
  BY DEF Proceeds, Moves, May, Writers
<1>2. ASSUME NEW o \in Owners, ~Beating(proc'[o]) PROVE proc'[Beat(o)].pc \in Still
  <2>1. ~Beating(proc[o])
    BY <1>2 DEF Moves, May, Writers
  <2>2. proc[Beat(o)].pc \in Still
    BY <2>1 DEF OrderInv, PairInv
  <2> QED  BY <2>2, WritersKnown DEF Moves, May
<1>3. ASSUME NEW r \in Reconcilers, proc'[r].pc = "append" PROVE proc'[r].id = "interrupted"
  BY <1>3 DEF Moves, May, Writers, OrderInv, PairInv
<1> QED  BY <1>1, <1>2, <1>3, ProceedsKeeps DEF OrderInv, PairInv

LEMMA GoesKeeps ==
  ASSUME TypeOK, OrderInv, NEW w \in Writers, NEW phase \in Phase, Goes(w, phase), May(w, Is(phase)), UNCHANGED events
  PROVE  OrderInv'
BY GoesMoves, MayKeeps

LEMMA WritesKeeps ==
  ASSUME TypeOK, OrderInv, NEW w \in Writers, NEW id \in Event, Writes(w, id), May(w, Writing(id)), UNCHANGED events
  PROVE  OrderInv'
BY WritesMoves, MayKeeps

\* Two programs of an attempt move together, and its heartbeat comes to rest or
\* its producer starts.
LEMMA PairKeeps ==
  ASSUME TypeOK, OrderInv, NEW o \in Owners, NEW a, NEW b, proc' = [proc EXCEPT ![o] = a, ![Beat(o)] = b],
         a.seq = 0, a.pc # "idle", proc[o].pc \in Over => a.pc \in Over, Beating(a) \/ b.pc \in Still, UNCHANGED events
  PROVE  OrderInv'
<1>1. \A v \in Writers : proc'[v] = IF v = Beat(o) THEN b ELSE IF v = o THEN a ELSE proc[v]
  BY WritersKnown DEF TypeOK
<1>2. proc'[o] = a /\ \A p \in Owners : p # o => proc'[p] = proc[p] /\ proc'[Beat(p)] = proc[Beat(p)]
  <2>1. Beat(o) # o /\ \A p \in Owners : Beat(o) # p /\ Beat(p) # o /\ (p # o => Beat(p) # Beat(o))
    BY WritersKnown DEF Actors
  <2> QED  BY <1>1, <2>1, WritersKnown
<1>3. proc'[Beat(o)] = b /\ \A r \in Reconcilers : proc'[r] = proc[r]
  BY <1>1, WritersKnown
<1>4. Proceeds
  BY <1>2 DEF Proceeds
<1>5. PairInv'
  BY <1>2, <1>3 DEF OrderInv, PairInv
<1> QED  BY <1>4, <1>5, ProceedsKeeps DEF OrderInv

\* An owner that goes on, an idle one that begins or one that has not begun to
\* execute.
LEMMA OwnerMay ==
  ASSUME NEW w \in Owners, NEW rec, rec.seq = 0, rec.pc # "idle", proc[w].pc \notin Over \/ rec.pc \in Over,
         Beating(rec) \/ ~Beating(proc[w])
  PROVE  May(w, rec)
BY WritersKnown DEF May

LEMMA OwnerOrders ==
  ASSUME TypeOK, OrderInv, NEW o \in Owners,
         \/ Request(o) \/ Claim(o) \/ Inspect(o) \/ Admit(o) \/ Fence(o) \/ StartProducer(o) \/ WriteChunk(o)
         \/ ProducerEnds(o) \/ Drain(o) \/ Decide(o)
  PROVE  OrderInv'
<1>0. o \in Writers /\ UNCHANGED events
  BY WritersKnown DEF Request, Claim, Inspect, Admit, Fence, StartProducer, WriteChunk, ProducerEnds, Drain, Decide, kept, journal
<1>1. ASSUME NEW phase \in Phase \ {"append", "idle"}, Goes(o, phase), proc[o].pc \notin Over,
             phase = "drain" \/ proc[o].pc \notin {"produce", "drain", "append"}
      PROVE  OrderInv'
  <2>1. Is(phase).pc = phase /\ Is(phase).seq = 0
    BY DEF Is
  <2>2. May(o, Is(phase))
    BY <1>1, <2>1, OwnerMay DEF Beating
  <2> QED  BY <1>0, <1>1, <2>2, GoesKeeps
<1>2. ASSUME NEW id \in Event, Writes(o, id), proc[o].pc \notin Over,
             id = "chunk" \/ proc[o].pc \notin {"produce", "drain", "append"}
      PROVE  OrderInv'
  <2>1. Writing(id).pc = "append" /\ Writing(id).id = id /\ Writing(id).seq = 0
    BY DEF Writing
  <2>2. May(o, Writing(id))
    BY <1>2, <2>1, OwnerMay DEF Beating
  <2> QED  BY <1>0, <1>2, <2>2, WritesKeeps
<1>3. CASE Request(o)
  BY <1>1, <1>2, <1>3 DEF Request, At, Phase, Event, Over
<1>4. CASE Claim(o) \/ Inspect(o) \/ Fence(o) \/ ProducerEnds(o)
  BY <1>1, <1>4 DEF Claim, Inspect, Fence, ProducerEnds, At, Phase, Over
<1>5. CASE Admit(o)
  BY <1>1, <1>2, <1>5 DEF Admit, At, Phase, Event, Terminal, Over
<1>6. CASE StartProducer(o)
  <2>1. proc[o].pc = "check"
    BY <1>6 DEF StartProducer, At
  <2>2. CASE Writes(o, "cancelling")
    BY <1>2, <2>1, <2>2 DEF Event, Over
  <2>3. CASE proc' = [proc EXCEPT ![o] = Is("produce"), ![Beat(o)] = Is("wait")]
    <3>1. Is("produce").pc = "produce" /\ Is("produce").seq = 0
      BY DEF Is
    <3> QED  BY <1>0, <2>1, <2>3, <3>1, PairKeeps DEF Beating, Over
  <2> QED  BY <1>6, <2>2, <2>3 DEF StartProducer
<1>7. CASE WriteChunk(o)
  BY <1>2, <1>7 DEF WriteChunk, At, Event, Over
<1>8. CASE Drain(o)
  <2>1. proc' = [proc EXCEPT ![o] = Is("decide"), ![Beat(o)] = Is("done")] /\ proc[o].pc = "drain"
    BY <1>8 DEF Drain, At
  <2>2. Is("decide").pc = "decide" /\ Is("decide").seq = 0 /\ Is("done").pc = "done"
    BY DEF Is
  <2> QED  BY <1>0, <2>1, <2>2, PairKeeps DEF Still, Over
<1>9. CASE Decide(o)
  <2>1. Outcome(o) \in Event
    BY DEF Outcome, Event, Terminal
  <2> QED  BY <1>1, <1>2, <1>9, <2>1 DEF Decide, At, Phase, Over
<1> QED  BY <1>3, <1>4, <1>5, <1>6, <1>7, <1>8, <1>9

LEMMA FailureOrders ==
  ASSUME TypeOK, Tidy, OrderInv, NEW o \in Owners, OwnerFails(o) \/ Crash(o) PROVE OrderInv'
<1>0. o \in Writers /\ UNCHANGED events
  BY WritersKnown DEF OwnerFails, Crash, faultKept, journal
<1>1. CASE OwnerFails(o)
  <2>1. ASSUME NEW phase \in {"drain", "done", "release"}, Goes(o, phase),
               proc[o].pc \notin Over \/ phase # "drain", phase = "drain" \/ ~Beating(proc[o])
        PROVE  OrderInv'
    <3>1. Is(phase).pc = phase /\ Is(phase).seq = 0
      BY DEF Is
    <3>2. May(o, Is(phase))
      BY <2>1, <3>1, OwnerMay DEF Beating, Over
    <3> QED  BY <1>0, <2>1, <3>2, GoesKeeps DEF Phase
  <2>2. proc[o].pc \in {"inspect", "admit", "append", "fence", "check", "decide", "clear"}
    BY <1>1 DEF OwnerFails
  <2>3. CASE proc[o].id = "chunk"
    <3>1. proc[o].pc = "append"
      <4>1. proc[o].pc # "append" => proc[o] = Is(proc[o].pc)
        BY <1>0 DEF Tidy
      <4>2. \A phase : Is(phase).id = "accepted"
        BY DEF Is
      <4> QED  BY <2>3, <4>1, <4>2
    <3> QED  BY <1>1, <2>1, <2>3, <3>1 DEF OwnerFails, Over
  <2>4. CASE proc[o].id # "chunk"
    BY <1>1, <2>1, <2>2, <2>4 DEF OwnerFails, Beating
  <2> QED  BY <2>3, <2>4
<1>2. CASE Crash(o)
  <2>1. proc' = [proc EXCEPT ![o] = Is("dead"), ![Beat(o)] = Is("done")]
    BY <1>2 DEF Crash
  <2>2. Is("dead").pc = "dead" /\ Is("dead").seq = 0 /\ Is("done").pc = "done"
    BY DEF Is
  <2> QED  BY <1>0, <2>1, <2>2, PairKeeps DEF Still, Over
<1> QED  BY <1>1, <1>2

LEMMA BeatOrders ==
  ASSUME TypeOK, OrderInv, NEW o \in Owners, BeatWakes(o) \/ BeatRenews(o) \/ HeartbeatFails(o) PROVE OrderInv'
<1>0. Beat(o) \in Writers /\ Beat(o) \notin Owners /\ Beat(o) \notin Reconcilers /\ UNCHANGED events
  BY WritersKnown DEF Actors, BeatWakes, BeatRenews, HeartbeatFails, kept, faultKept, journal
<1>1. proc[Beat(o)].pc \notin Still
  BY DEF BeatWakes, BeatRenews, HeartbeatFails, At, Still
<1>2. ASSUME NEW rec, rec.seq = 0 PROVE May(Beat(o), rec)
  BY <1>0, <1>1, <1>2 DEF May
<1>3. ASSUME NEW phase \in {"renew", "wait", "done"}, Goes(Beat(o), phase) PROVE OrderInv'
  <2>1. Is(phase).seq = 0
    BY DEF Is
  <2> QED  BY <1>0, <1>2, <1>3, <2>1, GoesKeeps DEF Phase
<1>4. ASSUME Writes(Beat(o), "cancelling") PROVE OrderInv'
  <2>1. Writing("cancelling").seq = 0
    BY DEF Writing
  <2> QED  BY <1>0, <1>2, <1>4, <2>1, WritesKeeps DEF Event
<1> QED  BY <1>3, <1>4 DEF BeatWakes, BeatRenews, HeartbeatFails

LEMMA ReconcilerOrders ==
  ASSUME TypeOK, OrderInv, NEW r \in Reconcilers,
         Notice(r) \/ ReconcilerClaims(r) \/ ReconcilerInspects(r) \/ ReconcilerRenews(r) \/ ReconcilerCrash(r)
  PROVE  OrderInv'
<1>0. r \in Writers /\ r \notin Owners /\ r \notin Beats /\ UNCHANGED events
  BY WritersKnown DEF Notice, ReconcilerClaims, ReconcilerInspects, ReconcilerRenews, ReconcilerCrash, kept, faultKept, journal
<1>1. ASSUME NEW phase \in Phase \ {"append"}, Goes(r, phase) PROVE OrderInv'
  <2>1. Is(phase).pc = phase /\ Is(phase).seq = 0
    BY DEF Is
  <2> QED  BY <1>0, <1>1, <2>1, GoesKeeps DEF May
<1>2. ASSUME Writes(r, "interrupted") PROVE OrderInv'
  <2>1. Writing("interrupted").id = "interrupted" /\ Writing("interrupted").seq = 0
    BY DEF Writing
  <2> QED  BY <1>0, <1>2, <2>1, WritesKeeps DEF May, Event, Terminal
<1> QED  BY <1>1, <1>2 DEF Notice, ReconcilerClaims, ReconcilerInspects, ReconcilerRenews, ReconcilerCrash, Phase

LEMMA EndOrders ==
  ASSUME TypeOK, OrderInv, NEW w \in Actors, ClearCancellation(w) \/ Release(w) \/ ReleaseFails(w) PROVE OrderInv'
<1>0. w \in Writers /\ w \notin Beats /\ UNCHANGED events /\ proc[w].pc \in {"clear", "release"}
  BY WritersKnown DEF Actors, ClearCancellation, Release, ReleaseFails, At, kept, faultKept, journal
<1>1. ASSUME NEW phase \in {"release", "done", "idle"}, Goes(w, phase), w \in Owners => phase # "idle" PROVE OrderInv'
  <2>1. Is(phase).pc = phase /\ Is(phase).seq = 0
    BY DEF Is
  <2>2. May(w, Is(phase))
    BY <1>0, <1>1, <2>1 DEF May, Beating, Over
  <2> QED  BY <1>0, <1>1, <2>2, GoesKeeps DEF Phase
<1> QED  BY <1>1 DEF ClearCancellation, Release, ReleaseFails

\* Nothing is placed behind the outcome of an attempt that is alone: it has
\* drained its heartbeat, and a reconciler that writes has seen no outcome.
LEMMA AppendOrders == ASSUME IInv, OrderInv, NEW w \in Writers, Append(w) PROVE OrderInv'
<1> USE DEF IInv
<1>0. proc[w].pc = "append" /\ (Reserves(w) \/ Finds(w) \/ \E n \in Nat : Places(w, n))
  BY AppendEffect
<1>1. CASE Reserves(w)
  <2> DEFINE rec == [proc[w] EXCEPT !.seq = last + 1]
  <2>1. rec.pc = proc[w].pc /\ rec.id = proc[w].id /\ rec.seq = last + 1
    BY DEF TypeOK
  <2>a. proc' = [proc EXCEPT ![w].seq = last + 1]
    BY <1>1 DEF Reserves
  <2>b. Moves(w, rec)
    BY <2>a DEF TypeOK, Moves
  <2> HIDE DEF rec
  <2>2. \A v \in Writers : proc'[v].pc = proc[v].pc /\ proc'[v].id = proc[v].id /\ (v # w => proc'[v] = proc[v])
    BY <2>1, <2>b DEF Moves
  <2>3. PairInv'
    BY <2>2, WritersKnown DEF OrderInv, PairInv, Beating
  <2>4. \A m \in DOMAIN events : m < last + 1
    BY DEF TypeOK
  <2>5. OutcomeAt' = OutcomeAt /\ events' = events
    BY <1>1 DEF Reserves, OutcomeAt
  <2>6. \A o \in Owners : Alone(o)' => Alone(o)
    BY <2>2, WritersKnown DEF Alone, At
  <2>7. \A o \in Owners : proc'[o].pc = proc[o].pc /\ (proc'[o] = proc[o] \/ proc'[o].seq = last + 1)
    BY <2>1, <2>2, <2>b, WritersKnown DEF Moves
  <2>8. LastInv'
    BY <2>4, <2>5, <2>6, <2>7 DEF OrderInv, LastInv
  <2> QED  BY <2>3, <2>8 DEF OrderInv
<1>2. /\ After(w).seq = 0 /\ After(w).pc # "append" /\ After(w).pc # "idle"
      /\ w \in Owners => (proc[w].id = "chunk" => After(w).pc = "produce") /\ (proc[w].id \in Terminal => After(w).pc \in Over)
      /\ w \in Beats => After(w).pc = "done"
  <2>1. After(w).seq = 0 /\ After(w).pc = AfterAppend(w, proc[w].id)
    BY DEF After, Is
  <2>2. w \in Owners /\ proc[w].id = "chunk" => AfterAppend(w, proc[w].id) = "produce"
    BY WritersKnown DEF AfterAppend
  <2> QED  BY <2>1, <2>2, Afterwards, WritersKnown DEF Over
<1>3. May(w, After(w))
  <2>1. w \in Owners => /\ proc[w].pc \notin Over
                        /\ ~Beating(After(w)) => ~Beating(proc[w])
    BY <1>0, <1>2 DEF Beating, Over
  <2> QED  BY <1>2, <2>1 DEF May, Still
<1>4. CASE Finds(w)
  BY <1>3, <1>4, MayKeeps DEF Finds
<1>5. ASSUME NEW n \in Nat, Places(w, n) PROVE OrderInv'
  <2>1. /\ n \notin DOMAIN events /\ DOMAIN events' = DOMAIN events \cup {n} /\ events'[n] = proc[w].id
        /\ \A k \in DOMAIN events : events'[k] = events[k]
        /\ Moves(w, After(w))
    <3>1. n \notin DOMAIN events /\ Puts(n, proc[w].id) /\ Moves(w, After(w))
      BY <1>5 DEF Places
    <3>2. events' = [k \in DOMAIN events \cup {n} |-> IF k \in DOMAIN events THEN events[k] ELSE proc[w].id]
      BY <3>1 DEF Puts
    <3> QED  BY <3>1, <3>2
  <2>2. PairInv'
    <3>1. ASSUME NEW o \in Owners, ~Beating(proc'[o]) PROVE proc'[Beat(o)].pc \in Still
      <4>1. proc[Beat(o)].pc \in Still
        BY <1>3, <2>1, <3>1 DEF Moves, May, Writers, OrderInv, PairInv
      <4> QED  BY <1>3, <2>1, <4>1, WritersKnown DEF Moves, May
    <3>2. ASSUME NEW r \in Reconcilers, proc'[r].pc = "append" PROVE proc'[r].id = "interrupted"
      BY <1>3, <2>1, <3>2 DEF Moves, May, Writers, OrderInv, PairInv
    <3> QED  BY <3>1, <3>2 DEF PairInv
  <2>3. OutcomeAt' = IF proc[w].id \in Terminal \ {"interrupted"} THEN OutcomeAt \cup {n} ELSE OutcomeAt
    BY <2>1 DEF OutcomeAt
  <2>4. OutcomeAt # {} => Ended
    BY DEF OutcomeAt, Ended, Ids, Range
  <2>5. ASSUME NEW o \in Owners, Alone(o)'
        PROVE  /\ OutcomeAt' # {} => proc'[o].pc \in Over
               /\ \A k \in OutcomeAt' : \A m \in DOMAIN events' : m <= k
               /\ ConcludingIn(proc'[o]) /\ proc'[o].seq > 0 => \A m \in DOMAIN events' : m < proc'[o].seq
    <3>1. Alone(o)
      BY <1>2, <2>1, <2>5 DEF Alone, At, Moves, Writers
    <3>2. \A p \in Owners : p # o => proc[p].pc = "idle" /\ proc[Beat(p)].pc \in Still
      BY <3>1 DEF Alone, At, OrderInv, PairInv, Beating
    <3>3. CASE w = o
      <4>1. OutcomeAt = {}
        BY <1>0, <3>1, <3>3 DEF OrderInv, LastInv, Over
      <4>2. proc'[o].pc # "append"
        BY <1>2, <2>1, <3>3 DEF Moves
      <4>3. CASE proc[w].id \in Terminal \ {"interrupted"}
        <5>1. \A m \in DOMAIN events : m < n
          <6>1. \A m \in DOMAIN events : m < last + 1
            BY DEF TypeOK
          <6> QED  BY <1>0, <1>5, <3>1, <3>3, <4>3, <6>1 DEF Places, OrderInv, LastInv, ConcludingIn
        <5>2. DOMAIN events \subseteq Nat
          BY DEF TypeOK
        <5>3. proc'[o].pc \in Over
          BY <1>2, <2>1, <3>3, <4>3 DEF Moves
        <5> QED  BY <2>1, <2>3, <4>1, <4>2, <4>3, <5>1, <5>2, <5>3 DEF ConcludingIn
      <4> QED  BY <2>3, <4>1, <4>2, <4>3 DEF ConcludingIn
    <3>4. CASE w = Beat(o)
      <4>1. Beating(proc[o])
        BY <1>0, <3>4 DEF OrderInv, PairInv, Still
      <4>2. proc'[o] = proc[o] /\ proc[w].id = "cancelling"
        BY <1>0, <2>1, <3>4, WritersKnown DEF Moves, Tidy
      <4>3. OutcomeAt = {} /\ ~ConcludingIn(proc[o])
        BY <3>1, <4>1 DEF OrderInv, LastInv, Beating, Over, ConcludingIn, Terminal
      <4> QED  BY <2>3, <4>2, <4>3 DEF Terminal
    <3>5. CASE w \in Reconcilers
      <4>1. proc'[o] = proc[o] /\ proc[w].id = "interrupted" /\ o # w
        BY <1>0, <2>1, <3>5, WritersKnown DEF Moves, OrderInv, PairInv
      <4>2. Holds(w) /\ ~Ended
        BY <1>0, <3>5, <4>1 DEF LeaseInv, Actors, ConcludingIn, WorkingIn, Terminal
      <4>3. ~ConcludingIn(proc[o])
        BY <4>1, <4>2 DEF LeaseInv, Actors, Holds
      <4> QED  BY <2>3, <2>4, <4>1, <4>2, <4>3
    <3>6. w \in Owners \/ w \in Reconcilers \/ \E p \in Owners : w = Beat(p)
      BY WritersKnown DEF Writers
    <3> QED  BY <1>0, <3>2, <3>3, <3>4, <3>5, <3>6 DEF Still
  <2> QED  BY <2>2, <2>5 DEF OrderInv, LastInv
<1> QED  BY <1>0, <1>1, <1>4, <1>5

LEMMA OrderKept == ASSUME IInv, OrderInv, [Next]_vars PROVE OrderInv'
<1> USE DEF IInv
<1>1. ASSUME UNCHANGED <<proc, events>> PROVE OrderInv'
  BY <1>1 DEF OrderInv, PairInv, LastInv, Alone, At, OutcomeAt
<1>2. ASSUME (\E c \in Cancellers : Cancel(c)) \/ (\E f \in Followers : FollowerStep(f)) \/ Expire \/ Stall \/ UNCHANGED vars
      PROVE  OrderInv'
  BY <1>1, <1>2 DEF Cancel, CancelStep, FollowerStep, Follow, ReadPage, Follows, Expire, Stall, faultKept, journal, vars
<1> QED
  BY <1>2, NextCases, AppendOrders, OwnerOrders, FailureOrders, BeatOrders, ReconcilerOrders, EndOrders

-----------------------------------------------------------------------------
(* The theorems.                                                           *)

\* Every state is well typed, and programs, leases and reserved sequences stay in order.
THEOREM DeliveryTyped == Spec => [](TypeOK /\ Tidy)
<1>1. Init => TypeOK /\ Tidy
  BY InitKept DEF IInv
<1>2. TypeOK /\ Tidy /\ [Next]_vars => (TypeOK /\ Tidy)'
  BY NextTyped, StuttersKeep
<1> QED  BY <1>1, <1>2, PTL DEF Spec

\* With a lease renewed for as long as an outcome takes to be written, what a
\* working holder sees of the run is true: LeaseInv holds in every state.
THEOREM DeliveryKept == ASSUME PromptTerminal PROVE Spec => []IInv
<1>1. Init => IInv
  BY InitKept
<1>2. IInv /\ [Next]_vars => IInv'
  BY NextTyped, NextKeeps, StuttersKeep DEF IInv
<1> QED  BY <1>1, <1>2, PTL DEF Spec

\* No run is declared over while the attempt that holds its lease still works.
THEOREM LiveOwnersSpared == ASSUME PromptTerminal PROVE Spec => []DeliveryInv
<1>1. IInv => DeliveryInv
  BY DEF IInv, DeliveryInv, LiveOwnerIsSpared, LeaseInv, WorkingIn, Actors
<1> QED  BY <1>1, DeliveryKept, PTL

\* One attempt at most is admitted to execute the run, never one whose run
\* already ended, and the run ends once (DurableRun).
THEOREM OneProducerOneOutcome == ASSUME PromptTerminal PROVE Spec => ImplementsRun
<1>1. Init => Run!Init
  <2>1. ASSUME Init PROVE Admitted = {} /\ Ids = {}
    BY <2>1 DEF Init, Admitted, Knows, Ids, Range
  <2> QED  BY <2>1 DEF Run!Init
<1>2. IInv /\ [Next]_vars => [Run!Next]_<<Admitted, Ids \cap Terminal>>
  BY NextKeeps, StuttersKeep DEF Advance
<1> QED  BY <1>1, <1>2, DeliveryKept, PTL DEF Spec, ImplementsRun, Run!Spec

\* With either kind of store the outcome that a run's only attempt writes is the
\* last event of the journal, over heartbeats, reconcilers, stalls and crashes.
THEOREM OutcomeComesLast == ASSUME PromptTerminal PROVE Spec => []OutcomeIsLast
<1>1. Init => IInv /\ OrderInv
  <2> SUFFICES ASSUME Init PROVE OrderInv
    BY InitKept
  <2>1. \A w \in Writers : proc[w].pc = "idle" /\ proc[w].seq = 0
    BY DEF Init, Is
  <2>2. OutcomeAt = {}
    BY DEF Init, OutcomeAt
  <2> QED  BY <2>1, <2>2, WritersKnown DEF OrderInv, PairInv, LastInv, Still
<1>2. IInv /\ OrderInv /\ [Next]_vars => (IInv /\ OrderInv)'
  BY NextTyped, NextKeeps, StuttersKeep, OrderKept DEF IInv
<1>3. IInv /\ OrderInv => OutcomeIsLast
  BY DEF OrderInv, LastInv, OutcomeIsLast
<1> QED  BY <1>1, <1>2, <1>3, PTL DEF Spec
=============================================================================
