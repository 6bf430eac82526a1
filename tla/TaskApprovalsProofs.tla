-------------------------- MODULE TaskApprovalsProofs --------------------------
(***************************************************************************)
(* Consent is for one piece of work and a Task that waits can be answered, *)
(* for any gates, batches, timeouts, users, edits, reloads and crashes.    *)
(*                                                                         *)
(* A batch is the authority of at most one Task, the one it was asked for  *)
(* (AuthorityInv); it is granted to one Run and ends with that attempt     *)
(* (ConsentInv).  Whoever decides has read a batch its Task was waiting    *)
(* for, with all that the batch was asked about (MindInv).                 *)
(***************************************************************************)
EXTENDS TaskApprovals, TaskStoreProofs

USE ApprovalAssumption

-----------------------------------------------------------------------------
(* The inductive invariant.                                                *)

Hook == {"task:spawn", "task:complete"}
Waiting == "awaiting_approval"
Deciders == Users \cup Timers

AuthorityRec == [batch : Batches \cup {NoBatch}, phase : Phase \cup {"none"},
                 revision : 0..MaxRevision, run : Runs \cup {NoRun}]
BatchRec(hook) == [hook : {hook}, task : Tasks, input : Nat, world : Nat, answer : [GatesOf(hook) -> Answer]]
DispatchRec == [pc : {"idle", "checking", "started", "over"}, input : Nat]
ConsentRec == [batch : Batches \cup {NoBatch}, input : Nat, world : Nat]

TypedInv ==
  /\ authority \in [Tasks -> AuthorityRec]
  /\ requests \in [Batches -> {NoRequests} \cup BatchRec("task:spawn") \cup BatchRec("task:complete")]
  /\ input \in [Tasks -> Nat] /\ rejections \in [Tasks -> 0..MaxRevisions] /\ world \in Nat
  /\ \A t \in Tasks : input[t] <= bounds.edits + rejections[t]
  /\ dispatch \in [Runs -> DispatchRec] /\ consent \in [Runs -> ConsentRec]
  /\ DOMAIN mind = Deciders
  /\ timers \subseteq Timers
  /\ bounds \in [edits : 0..MaxEdits, crashes : 0..MaxCrashes]

\* A batch is the authority of the Task it was asked for.
AuthorityInv ==
  \A t \in Tasks :
    IF authority[t].batch = NoBatch
      THEN authority[t] = NoAuthority
      ELSE /\ authority[t].phase \in Phase
           /\ requests[authority[t].batch].hook # "none"
           /\ requests[authority[t].batch].task = t

Undecided(answers) ==
  /\ \A g \in DOMAIN answers : answers[g] = "pending" \/ Accepted(g, answers[g])
  /\ \E g \in DOMAIN answers : answers[g] = "pending"

\* Who waits for an approval has the authority to, and somebody can answer.
WaitingInv ==
  \A t \in Tasks : tasks[t].status = Waiting =>
    Valid(t) /\ authority[t].batch # NoBatch /\ Undecided(requests[authority[t].batch].answer)

\* What a Run was started on was asked about it, accepted and granted to it alone.
Consented(r) ==
  LET b == consent[r].batch
  IN  /\ b \in Batches /\ runs[r].status # "absent"
      /\ requests[b].hook = "task:spawn" /\ requests[b].task = runs[r].task
      /\ requests[b].input = consent[r].input /\ requests[b].world = consent[r].world
      /\ AllAccepted(requests[b].answer)
      /\ \A t \in Tasks : authority[t].batch = b => authority[t].phase = "claimed" /\ authority[t].run = r
      /\ \A q \in Runs \ {r} : consent[q].batch # b

ConsentInv == SpawnGates # {} => \A r \in Runs : consent[r] # NoConsent => Consented(r)

\* Whoever decides has read a request that was open, and all it is about.
Reads(m) ==
  /\ m.batch \in Batches /\ requests[m.batch].hook # "none"
  /\ m.task = requests[m.batch].task /\ m.input = requests[m.batch].input
  /\ m.authority.batch = m.batch /\ m.authority.phase = "waiting"
  /\ m.row.status = Waiting
  /\ m.authority.revision = m.row.revision /\ m.authority.run = m.row.active
  /\ m.gate \in DOMAIN m.answer /\ m.answer[m.gate] = "pending"

MindInv == \A d \in Deciders : mind[d] # NotRead => Reads(mind[d])

IInv == StoreInv /\ TypedInv /\ AuthorityInv /\ WaitingInv /\ ConsentInv /\ MindInv

-----------------------------------------------------------------------------
(* What a step does to authorities, batches and consents.                  *)

\* The answers of batch c change, nothing else does.
AnswersAt(c) ==
  \A b \in Batches :
    /\ b # c => requests'[b] = requests[b]
    /\ requests'[b].hook = requests[b].hook /\ requests'[b].task = requests[b].task
    /\ requests'[b].input = requests[b].input /\ requests'[b].world = requests[b].world

Others(t) == \A u \in Tasks \ {t} : authority'[u] = authority[u] /\ tasks'[u] = tasks[u]

Rests ==
  /\ authority' = authority /\ requests' = requests /\ consent' = consent
  /\ \A t \in Tasks : tasks'[t].status = Waiting => tasks'[t] = tasks[t]

\* t is asked about with the new batch b.
Suspends(t, b) ==
  /\ requests[b].hook = "none" /\ Others(t) /\ consent' = consent
  /\ authority'[t].batch = b /\ authority'[t].phase = "waiting"
  /\ authority'[t].revision = tasks'[t].revision /\ authority'[t].run = tasks'[t].active
  /\ tasks'[t].status = Waiting
  /\ requests'[b].hook # "none" /\ requests'[b].task = t /\ Undecided(requests'[b].answer)
  /\ \A a \in Batches \ {b} : requests'[a] = requests[a]

\* One answer more, and the next one awaited.
Answered(t, b) ==
  /\ tasks' = tasks /\ authority' = authority /\ consent' = consent
  /\ authority[t].batch = b /\ authority[t].phase = "waiting"
  /\ AnswersAt(b) /\ Undecided(requests'[b].answer)

\* t no longer waits: its batch is granted, used or dropped.
Settles(t) ==
  /\ Others(t) /\ consent' = consent /\ tasks'[t].status # Waiting
  /\ \/ authority'[t] = NoAuthority
     \/ /\ authority[t].batch # NoBatch /\ authority'[t].batch = authority[t].batch
        /\ authority[t].phase # "claimed" /\ authority'[t].phase \in Phase
  /\ \/ requests' = requests
     \/ /\ authority[t].phase = "waiting" /\ authority[t].batch # NoBatch
        /\ AnswersAt(authority[t].batch)

\* The agent of r is started on the batch that r was granted.
Started(r) ==
  /\ tasks' = tasks /\ runs' = runs /\ authority' = authority /\ requests' = requests
  /\ \A q \in Runs \ {r} : consent'[q] = consent[q]
  /\ SpawnGates # {} => \E t \in Tasks : \E b \in Batches :
       /\ t = runs[r].task /\ b = authority[t].batch
       /\ authority[t].phase = "claimed" /\ authority[t].run = r /\ runs[r].status # "absent"
       /\ requests[b].hook = "task:spawn" /\ AllAccepted(requests[b].answer)
       /\ consent'[r].batch = b
       /\ consent'[r].input = requests[b].input /\ consent'[r].world = requests[b].world

Move ==
  \/ Rests
  \/ \E t \in Tasks : Settles(t)
  \/ \E t \in Tasks : \E b \in Batches : Suspends(t, b) \/ Answered(t, b)
  \/ \E r \in Runs : Started(r)

BatchesKept ==
  \A b \in Batches : requests[b].hook # "none" =>
    /\ requests'[b].hook = requests[b].hook /\ requests'[b].task = requests[b].task
    /\ requests'[b].input = requests[b].input /\ requests'[b].world = requests[b].world

LEMMA MoveKeepsBatches == ASSUME Move PROVE BatchesKept
<1>1. ASSUME NEW t \in Tasks, NEW b \in Batches, Suspends(t, b) PROVE BatchesKept
  BY <1>1 DEF Suspends, BatchesKept
<1> QED  BY <1>1 DEF Move, Rests, Settles, Answered, Started, AnswersAt, BatchesKept

LEMMA AuthorityKnown ==
  ASSUME IInv, NEW t \in Tasks, authority[t].batch # NoBatch
  PROVE  /\ authority[t].batch \in Batches /\ authority[t].phase \in Phase
         /\ requests[authority[t].batch].hook # "none" /\ requests[authority[t].batch].task = t
BY DEF IInv, TypedInv, AuthorityRec, AuthorityInv

LEMMA AuthorityAges == ASSUME IInv, Move PROVE AuthorityInv'
<1> USE ApprovalAssumption DEF AuthorityInv
<1>1. AuthorityInv /\ BatchesKept
  BY MoveKeepsBatches DEF IInv
<1>2. ASSUME authority' = authority PROVE AuthorityInv'
  BY <1>1, <1>2, AuthorityKnown DEF BatchesKept
<1>3. ASSUME NEW t \in Tasks, Settles(t) PROVE AuthorityInv'
  <2>1. ASSUME NEW u \in Tasks, authority'[u].batch # NoBatch
        PROVE  /\ authority'[u].phase \in Phase /\ authority'[u].batch = authority[u].batch
               /\ authority[u].batch # NoBatch
    BY <1>1, <1>3, <2>1, AuthorityKnown DEF Settles, Others, NoAuthority
  <2>2. ASSUME NEW u \in Tasks, authority'[u].batch = NoBatch PROVE authority'[u] = NoAuthority
    BY <1>1, <1>3, <2>2 DEF Settles, Others
  <2> QED  BY <1>1, <2>1, <2>2, AuthorityKnown DEF BatchesKept
<1>4. ASSUME NEW t \in Tasks, NEW b \in Batches, Suspends(t, b) PROVE AuthorityInv'
  <2>1. ASSUME NEW u \in Tasks, u # t PROVE authority'[u] = authority[u]
    BY <1>4, <2>1 DEF Suspends, Others
  <2>2. authority'[t].batch # NoBatch /\ authority'[t].phase \in Phase
    BY <1>4 DEF Suspends, Phase
  <2>3. requests'[authority'[t].batch].hook # "none" /\ requests'[authority'[t].batch].task = t
    BY <1>4 DEF Suspends
  <2> QED  BY <1>1, <2>1, <2>2, <2>3, AuthorityKnown DEF BatchesKept
<1> QED  BY <1>2, <1>3, <1>4 DEF Move, Rests, Answered, Started

\* A batch asks about one Task.
LEMMA BatchIsOf ==
  ASSUME IInv, NEW t \in Tasks, NEW u \in Tasks, authority[t].batch = authority[u].batch, authority[t].batch # NoBatch
  PROVE  t = u
BY AuthorityKnown

LEMMA WaitingAges == ASSUME IInv, Move PROVE WaitingInv'
<1>1. WaitingInv
  BY DEF IInv
<1>2. ASSUME NEW t \in Tasks, tasks[t].status = Waiting, tasks'[t] = tasks[t], authority'[t] = authority[t],
             Undecided(requests'[authority[t].batch].answer)
      PROVE  Valid(t)' /\ authority'[t].batch # NoBatch /\ Undecided(requests'[authority'[t].batch].answer)
  BY <1>1, <1>2 DEF WaitingInv, Valid
<1>3. CASE Rests
  BY <1>1, <1>2, <1>3 DEF Rests, WaitingInv
<1>4. ASSUME NEW t \in Tasks, Settles(t) PROVE WaitingInv'
  <2>1. ASSUME NEW u \in Tasks, tasks'[u].status = Waiting
        PROVE  /\ u # t /\ tasks'[u] = tasks[u] /\ authority'[u] = authority[u]
    BY <1>4, <2>1 DEF Settles, Others
  <2>2. ASSUME NEW u \in Tasks, tasks'[u].status = Waiting
        PROVE  Undecided(requests'[authority[u].batch].answer)
    <3>1. Undecided(requests[authority[u].batch].answer) /\ authority[u].batch # NoBatch
      BY <1>1, <2>1, <2>2 DEF WaitingInv
    <3>2. requests'[authority[u].batch] = requests[authority[u].batch]
      BY <1>4, <2>1, <2>2, <3>1, BatchIsOf, AuthorityKnown DEF Settles, AnswersAt
    <3> QED  BY <3>1, <3>2
  <2> QED  BY <1>2, <2>1, <2>2 DEF WaitingInv
<1>5. ASSUME NEW t \in Tasks, NEW b \in Batches, Answered(t, b) PROVE WaitingInv'
  <2>1. ASSUME NEW u \in Tasks, tasks[u].status = Waiting
        PROVE  Undecided(requests'[authority[u].batch].answer)
    <3>1. Undecided(requests[authority[u].batch].answer) /\ authority[u].batch # NoBatch
      BY <1>1, <2>1 DEF WaitingInv
    <3>2. CASE authority[u].batch = b
      BY <1>5, <3>2 DEF Answered
    <3>3. CASE authority[u].batch # b
      BY <1>5, <3>1, <3>3, AuthorityKnown DEF Answered, AnswersAt
    <3> QED  BY <3>2, <3>3
  <2> QED  BY <1>2, <1>5, <2>1 DEF Answered, WaitingInv
<1>6. ASSUME NEW t \in Tasks, NEW b \in Batches, Suspends(t, b) PROVE WaitingInv'
  <2>1. ASSUME NEW u \in Tasks, tasks'[u].status = Waiting, u # t
        PROVE  Valid(u)' /\ authority'[u].batch # NoBatch /\ Undecided(requests'[authority'[u].batch].answer)
    <3>1. tasks'[u] = tasks[u] /\ authority'[u] = authority[u]
      BY <1>6, <2>1 DEF Suspends, Others
    <3>2. Undecided(requests[authority[u].batch].answer) /\ authority[u].batch # NoBatch
      BY <1>1, <2>1, <3>1 DEF WaitingInv
    <3>3. requests'[authority[u].batch] = requests[authority[u].batch]
      BY <1>6, <3>2, AuthorityKnown DEF Suspends
    <3> QED  BY <1>2, <2>1, <3>1, <3>2, <3>3
  <2>2. /\ authority'[t].batch # NoBatch /\ authority'[t].phase = "waiting"
        /\ authority'[t].revision = tasks'[t].revision /\ authority'[t].run = tasks'[t].active
        /\ tasks'[t].status = Waiting /\ Undecided(requests'[authority'[t].batch].answer)
    BY <1>6 DEF Suspends
  <2>3. Valid(t)'
    BY <2>2 DEF Valid, StatusIn, Phase, Waiting
  <2> QED  BY <2>1, <2>2, <2>3 DEF WaitingInv
<1>7. ASSUME NEW r \in Runs, Started(r) PROVE WaitingInv'
  BY <1>1, <1>2, <1>7 DEF Started, WaitingInv
<1> QED  BY <1>3, <1>4, <1>5, <1>6, <1>7 DEF Move

\* What belongs to the consent of r alone, while the authorities change.
LEMMA ConsentLasts ==
  ASSUME IInv, SpawnGates # {}, RunsAge, BatchesKept, NEW r \in Runs, consent[r] # NoConsent,
         consent' = consent, requests'[consent[r].batch].answer = requests[consent[r].batch].answer,
         \A t \in Tasks : authority'[t].batch = consent[r].batch => authority'[t] = authority[t]
  PROVE  Consented(r)'
<1> DEFINE b == consent[r].batch
<1>1. /\ b \in Batches /\ runs[r].status # "absent"
      /\ requests[b].hook = "task:spawn" /\ requests[b].task = runs[r].task
      /\ requests[b].input = consent[r].input /\ requests[b].world = consent[r].world
      /\ AllAccepted(requests[b].answer)
      /\ \A t \in Tasks : authority[t].batch = b => authority[t].phase = "claimed" /\ authority[t].run = r
      /\ \A q \in Runs \ {r} : consent[q].batch # b
  BY DEF IInv, ConsentInv, Consented
<1>2. /\ requests'[b].hook = requests[b].hook /\ requests'[b].task = requests[b].task
      /\ requests'[b].input = requests[b].input /\ requests'[b].world = requests[b].world
  BY <1>1 DEF BatchesKept
<1>3. runs'[r].status # "absent" /\ runs'[r].task = runs[r].task
  BY <1>1 DEF RunsAge
<1>4. consent'[r].batch = b
  OBVIOUS
<1>5. /\ requests'[b].hook = "task:spawn" /\ requests'[b].task = runs'[r].task
      /\ requests'[b].input = consent'[r].input /\ requests'[b].world = consent'[r].world
      /\ AllAccepted(requests'[b].answer)
  BY <1>1, <1>2, <1>3
<1>6. \A t \in Tasks : authority'[t].batch = b => authority'[t].phase = "claimed" /\ authority'[t].run = r
  BY <1>1
<1>7. \A q \in Runs \ {r} : consent'[q].batch # b
  BY <1>1
<1> QED  BY <1>1, <1>3, <1>4, <1>5, <1>6, <1>7 DEF Consented

\* A batch with a consent is granted to its Run, or over.
LEMMA ConsentedBatch ==
  ASSUME IInv, SpawnGates # {}, NEW r \in Runs, consent[r] # NoConsent
  PROVE  /\ consent[r].batch \in Batches /\ requests[consent[r].batch].hook # "none"
         /\ \A t \in Tasks : authority[t].batch = consent[r].batch =>
              authority[t].phase = "claimed" /\ authority[t].run = r
BY DEF IInv, ConsentInv, Consented

LEMMA ConsentAges == ASSUME IInv, Move, RunsAge PROVE ConsentInv'
<1> SUFFICES ASSUME SpawnGates # {}, NEW r \in Runs, consent'[r] # NoConsent PROVE Consented(r)'
  BY DEF ConsentInv
<1>1. BatchesKept
  BY MoveKeepsBatches
<1> DEFINE b == consent[r].batch
<1>2. CASE Rests
  BY <1>1, <1>2, ConsentLasts DEF Rests
<1>3. ASSUME NEW t \in Tasks, Settles(t) PROVE Consented(r)'
  <2>1. consent' = consent /\ consent[r] # NoConsent
    BY <1>3 DEF Settles
  <2>2. /\ b \in Batches
        /\ \A u \in Tasks : authority[u].batch = b => authority[u].phase = "claimed"
    BY <2>1, ConsentedBatch
  <2>3. requests'[b].answer = requests[b].answer
    BY <1>3, <2>2 DEF Settles, AnswersAt
  <2>4. ASSUME NEW u \in Tasks, authority'[u].batch = b PROVE authority'[u] = authority[u]
    <3>1. b # NoBatch
      BY <2>2
    <3>2. CASE u = t
      BY <1>3, <2>2, <2>4, <3>1, <3>2 DEF Settles, NoAuthority
    <3>3. CASE u # t
      BY <1>3, <3>3 DEF Settles, Others
    <3> QED  BY <3>2, <3>3
  <2> QED  BY <1>1, <2>1, <2>3, <2>4, ConsentLasts
<1>4. ASSUME NEW t \in Tasks, NEW c \in Batches, Suspends(t, c) PROVE Consented(r)'
  <2>1. consent' = consent /\ consent[r] # NoConsent
    BY <1>4 DEF Suspends
  <2>2. b \in Batches /\ b # c
    BY <1>4, <2>1, ConsentedBatch DEF Suspends
  <2>3. requests'[b].answer = requests[b].answer
    BY <1>4, <2>2 DEF Suspends
  <2>4. ASSUME NEW u \in Tasks, authority'[u].batch = b PROVE authority'[u] = authority[u]
    BY <1>4, <2>2, <2>4 DEF Suspends, Others
  <2> QED  BY <1>1, <2>1, <2>3, <2>4, ConsentLasts
<1>5. ASSUME NEW t \in Tasks, NEW c \in Batches, Answered(t, c) PROVE Consented(r)'
  <2>1. consent' = consent /\ consent[r] # NoConsent /\ authority' = authority
    BY <1>5 DEF Answered
  <2>2. b \in Batches /\ b # c
    BY <1>5, <2>1, ConsentedBatch DEF Answered
  <2>3. requests'[b].answer = requests[b].answer
    BY <1>5, <2>2 DEF Answered, AnswersAt
  <2> QED  BY <1>1, <2>1, <2>3, ConsentLasts
<1>6. ASSUME NEW s \in Runs, Started(s) PROVE Consented(r)'
  <2> PICK t \in Tasks, c \in Batches :
         /\ t = runs[s].task /\ c = authority[t].batch
         /\ authority[t].phase = "claimed" /\ authority[t].run = s /\ runs[s].status # "absent"
         /\ requests[c].hook = "task:spawn" /\ AllAccepted(requests[c].answer)
         /\ consent'[s].batch = c
         /\ consent'[s].input = requests[c].input /\ consent'[s].world = requests[c].world
    BY <1>6 DEF Started
  <2>1. /\ runs' = runs /\ authority' = authority /\ requests' = requests
        /\ \A q \in Runs \ {s} : consent'[q] = consent[q]
    BY <1>6 DEF Started
  <2>2. requests[c].task = t /\ \A u \in Tasks : authority[u].batch = c => u = t
    BY AuthorityKnown
  <2>3. ASSUME NEW q \in Runs, q # s PROVE consent[q].batch # c
    BY <2>3, ConsentedBatch DEF NoConsent
  <2>4. CASE r = s
    <3>1. \A u \in Tasks : authority'[u].batch = c => authority'[u].phase = "claimed" /\ authority'[u].run = r
      BY <2>1, <2>2, <2>4
    <3>2. \A q \in Runs \ {r} : consent'[q].batch # c
      BY <2>1, <2>3, <2>4
    <3>3. /\ requests'[c].hook = "task:spawn" /\ requests'[c].task = runs'[r].task /\ runs'[r].status # "absent"
          /\ requests'[c].input = consent'[r].input /\ requests'[c].world = consent'[r].world
          /\ AllAccepted(requests'[c].answer) /\ consent'[r].batch = c
      BY <2>1, <2>2, <2>4
    <3> QED  BY <3>1, <3>2, <3>3 DEF Consented
  <2>5. CASE r # s
    <3>1. consent'[r] = consent[r] /\ consent[r] # NoConsent
      BY <2>1, <2>5
    <3>2. Consented(r)
      BY <3>1 DEF IInv, ConsentInv
    <3>3. \A q \in Runs \ {r} : consent'[q].batch # b
      BY <2>1, <2>3, <2>5, <3>2 DEF Consented
    <3> QED  BY <2>1, <3>1, <3>2, <3>3 DEF Consented
  <2> QED  BY <2>4, <2>5
<1> QED  BY <1>2, <1>3, <1>4, <1>5, <1>6 DEF Move

-----------------------------------------------------------------------------
(* What those who decide know.                                             *)

\* d goes on, forgets, or reads an open request.
MindStep ==
  /\ DOMAIN mind' = Deciders
  /\ \A d \in Deciders :
       \/ mind'[d] = mind[d] \/ mind'[d] = NotRead
       \/ \E b \in Batches : \E g : Open(b, g) /\ mind'[d] = Read(requests[b].task, b, g)

LEMMA MindAges == ASSUME IInv, BatchesKept, MindStep PROVE MindInv'
<1> SUFFICES ASSUME NEW d \in Deciders, mind'[d] # NotRead PROVE Reads(mind[d])'
  BY DEF MindInv
<1>1. ASSUME NEW m, Reads(m), m = mind'[d] PROVE Reads(mind[d])'
  BY <1>1 DEF Reads, BatchesKept
<1>2. CASE mind'[d] = mind[d]
  BY <1>1, <1>2 DEF IInv, MindInv
<1>3. ASSUME NEW b \in Batches, NEW g, Open(b, g), mind'[d] = Read(requests[b].task, b, g)
      PROVE  Reads(mind[d])'
  <2> DEFINE t == requests[b].task
             m == Read(t, b, g)
  <2>1. /\ requests[b].hook # "none" /\ authority[t].phase = "waiting" /\ authority[t].batch = b
        /\ requests[b].input = input[t] /\ tasks[t].status = StatusIn("waiting")
        /\ authority[t].revision = tasks[t].revision /\ authority[t].run = tasks[t].active
        /\ g \in DOMAIN requests[b].answer /\ requests[b].answer[g] = "pending"
    BY <1>3 DEF Open, Waits, Obsolete, Valid, SameInput
  <2>2. StatusIn("waiting") = Waiting
    BY DEF StatusIn, Waiting
  <2>3. /\ m.batch = b /\ m.gate = g /\ m.task = t /\ m.row = tasks[t] /\ m.authority = authority[t]
        /\ m.input = input[t] /\ m.answer = requests[b].answer
    BY DEF Read
  <2> HIDE DEF m
  <2>4. Reads(m)
    BY <2>1, <2>2, <2>3 DEF Reads
  <2>5. m = mind'[d]
    BY <1>3 DEF m
  <2> QED  BY <1>1, <2>4, <2>5
<1> QED  BY <1>2, <1>3 DEF MindStep

\* A decision is about what is stored, and nobody else has decided.
LEMMA DecideFacts ==
  ASSUME IInv, NEW d \in Deciders, MayDecide(d), NEW m, m = mind[d]
  PROVE  /\ m.task \in Tasks /\ m.batch \in Batches /\ requests[m.batch].task = m.task
         /\ authority[m.task].batch = m.batch /\ authority[m.task].phase = "waiting" /\ m.batch # NoBatch
         /\ tasks[m.task].status = Waiting /\ m.row = tasks[m.task]
         /\ m.input = input[m.task] /\ requests[m.batch].input = m.input
         /\ m.rejections = rejections[m.task] /\ m.answer = requests[m.batch].answer
         /\ m.gate \in DOMAIN m.answer /\ m.answer[m.gate] = "pending"
         /\ requests[m.batch].hook \in Hook
         /\ requests[m.batch] \in BatchRec(requests[m.batch].hook)
         /\ Undecided(m.answer)
<1>1. Reads(m) /\ m = Read(m.task, m.batch, m.gate)
  BY DEF IInv, MindInv, MayDecide, Has, Fresh
<1>2. m.batch \in Batches /\ requests[m.batch].hook # "none"
  BY <1>1 DEF Reads
<1>3. /\ requests[m.batch].hook \in Hook
      /\ requests[m.batch] \in BatchRec(requests[m.batch].hook)
  BY <1>2 DEF IInv, TypedInv, BatchRec, NoRequests, Hook
<1>4. m.task = requests[m.batch].task /\ m.task \in Tasks
  BY <1>1, <1>3 DEF Reads, BatchRec
<1>5. /\ m.row = tasks[m.task] /\ m.authority = authority[m.task] /\ m.input = input[m.task]
      /\ m.rejections = rejections[m.task] /\ m.answer = requests[m.batch].answer
  BY <1>1 DEF Read
<1>6. /\ authority[m.task].batch = m.batch /\ authority[m.task].phase = "waiting"
      /\ tasks[m.task].status = Waiting /\ requests[m.batch].input = m.input
      /\ m.gate \in DOMAIN m.answer /\ m.answer[m.gate] = "pending"
  BY <1>1, <1>5 DEF Reads
<1>7. Undecided(m.answer) /\ m.batch # NoBatch
  BY <1>4, <1>5, <1>6, <1>2 DEF IInv, WaitingInv
<1> QED  BY <1>2, <1>3, <1>4, <1>5, <1>6, <1>7


-----------------------------------------------------------------------------
(* Every step is such a move.                                              *)

Good == StoreEffect /\ Move /\ MindStep /\ TypedInv'

LEMMA Types ==
  ASSUME IInv
  PROVE  /\ StoreInv /\ tasks \in [Tasks -> TaskRow] /\ runs \in [Runs -> RunRow]
         /\ authority \in [Tasks -> AuthorityRec]
         /\ requests \in [Batches -> {NoRequests} \cup BatchRec("task:spawn") \cup BatchRec("task:complete")]
         /\ input \in [Tasks -> Nat] /\ rejections \in [Tasks -> 0..MaxRevisions] /\ world \in Nat
         /\ \A t \in Tasks : input[t] <= bounds.edits + rejections[t]
         /\ dispatch \in [Runs -> DispatchRec] /\ consent \in [Runs -> ConsentRec]
         /\ DOMAIN mind = Deciders /\ timers \subseteq Timers
         /\ bounds \in [edits : 0..MaxEdits, crashes : 0..MaxCrashes]
BY DEF IInv, TypedInv, StoreInv, StoreTypeOK

LEMMA MindSame == ASSUME IInv, mind' = mind PROVE MindStep
BY Types DEF MindStep

LEMMA MindForgets == ASSUME IInv, NEW d \in Deciders, Forgets(d) PROVE MindStep
BY Types DEF MindStep, Forgets

LEMMA MindLooks ==
  ASSUME IInv, NEW d \in Deciders, NEW b \in Batches, NEW g, Open(b, g), Looks(d, b, g) PROVE MindStep
<1>1. mind' = [mind EXCEPT ![d] = Read(requests[b].task, b, g)] /\ DOMAIN mind = Deciders
  BY Types DEF Looks
<1>2. DOMAIN mind' = Deciders
  BY <1>1
<1>3. \A e \in Deciders : mind'[e] = IF e = d THEN Read(requests[b].task, b, g) ELSE mind[e]
  BY <1>1
<1> QED  BY <1>2, <1>3 DEF MindStep

LEMMA Unmoved == ASSUME UNCHANGED <<storeVars, approvalVars, consent>> PROVE StoreEffect /\ Move
BY DEF StoreEffect, Move, Rests, approvalVars, storeVars

LEMMA DispatchTyped ==
  ASSUME IInv, NEW r \in Runs, NEW pc \in {"checking", "started", "over"}, Dispatches(r, pc)
  PROVE  dispatch' \in [Runs -> DispatchRec]
<1>1. dispatch' = [dispatch EXCEPT ![r] = [dispatch[r] EXCEPT !.pc = pc]]
  BY DEF Dispatches
<1>2. dispatch \in [Runs -> DispatchRec] /\ dispatch[r] \in DispatchRec
  BY Types
<1>3. [dispatch[r] EXCEPT !.pc = pc] \in DispatchRec
  BY <1>2 DEF DispatchRec
<1> QED  BY <1>1, <1>2, <1>3

LEMMA AuthorityTyped ==
  ASSUME IInv, NEW t \in Tasks, NEW b \in Batches, NEW phase \in Phase, NEW run \in Runs \cup {NoRun},
         RevisionLeft(t), Grants(t, b, phase, run)
  PROVE  /\ authority' \in [Tasks -> AuthorityRec]
         /\ authority'[t].batch = b /\ authority'[t].phase = phase /\ authority'[t].run = run
         /\ authority'[t].revision = tasks[t].revision + 1
         /\ \A u \in Tasks : u # t => authority'[u] = authority[u]
<1> DEFINE rec == [batch |-> b, phase |-> phase, revision |-> tasks[t].revision + 1, run |-> run]
<1>1. authority \in [Tasks -> AuthorityRec] /\ tasks[t].revision \in 0..MaxRevision
  BY Types DEF TaskRow
<1>2. tasks[t].revision + 1 \in 0..MaxRevision
  BY <1>1, MaxRevisionAssumption DEF RevisionLeft
<1>3. rec \in AuthorityRec
  BY <1>2 DEF AuthorityRec
<1>4. /\ rec.batch = b /\ rec.phase = phase /\ rec.run = run /\ rec.revision = tasks[t].revision + 1
      /\ authority' = [authority EXCEPT ![t] = rec]
  BY DEF Grants
<1> HIDE DEF rec
<1>5. authority'[t] = rec /\ \A u \in Tasks : u # t => authority'[u] = authority[u]
  BY <1>1, <1>4
<1>6. authority' \in [Tasks -> AuthorityRec]
  BY <1>1, <1>3, <1>4
<1> QED  BY <1>4, <1>5, <1>6

LEMMA Revoked ==
  ASSUME IInv, NEW t \in Tasks, Revokes(t)
  PROVE  /\ authority' \in [Tasks -> AuthorityRec] /\ authority'[t] = NoAuthority
         /\ \A u \in Tasks : u # t => authority'[u] = authority[u]
<1>1. NoAuthority \in AuthorityRec
  BY MaxRevisionAssumption DEF NoAuthority, AuthorityRec
<1> QED  BY <1>1, Types DEF Revokes

LEMMA SuspendMoves ==
  ASSUME IInv, NEW t \in Tasks, NEW b \in Batches, NEW hook \in Hook, NEW read \in Nat,
         GatesOf(hook) # {}, Suspend(t, b, hook, read), consent' = consent
  PROVE  /\ StoreEffect /\ Move
         /\ authority' \in [Tasks -> AuthorityRec]
         /\ requests' \in [Batches -> {NoRequests} \cup BatchRec("task:spawn") \cup BatchRec("task:complete")]
         /\ timers' \subseteq Timers
<1> DEFINE answers == [g \in GatesOf(hook) |-> "pending"]
           rec == [hook |-> hook, task |-> t, input |-> read, world |-> world, answer |-> answers]
<1>1. /\ requests[b].hook = "none" /\ MutateTransition(t, RefOf(tasks[t]), Waiting)
      /\ Grants(t, b, "waiting", NoRun) /\ requests' = [requests EXCEPT ![b] = rec]
      /\ timers' = timers \cup ({b} \X (GatesOf(hook) \cap Timed))
  BY DEF Suspend, Waiting
<1>2. Waiting \in TaskStatus /\ Waiting \in ReleasingStatus
  BY DEF Waiting, TaskStatus, ReleasingStatus
<1>3. StoreEffect
  BY <1>1, <1>2, Types, MutateTransitionIsEffect
<1>4. Ends(t, Waiting) /\ RevisionLeft(t)
  BY <1>1, <1>2, Types, MutateRow
<1>5. /\ authority' \in [Tasks -> AuthorityRec]
      /\ authority'[t].batch = b /\ authority'[t].phase = "waiting" /\ authority'[t].run = NoRun
      /\ authority'[t].revision = tasks[t].revision + 1
      /\ \A u \in Tasks : u # t => authority'[u] = authority[u]
  <2>1. "waiting" \in Phase
    BY DEF Phase
  <2> QED  BY <1>1, <1>4, <2>1, AuthorityTyped
<1>6. answers \in [GatesOf(hook) -> Answer] /\ Undecided(answers)
  BY DEF Answer, Undecided
<1> HIDE DEF answers
<1>7. rec \in BatchRec(hook) /\ rec.hook = hook /\ rec.task = t /\ rec.answer = answers
  BY <1>6, Types DEF BatchRec
<1> HIDE DEF rec
<1>8. requests' \in [Batches -> {NoRequests} \cup BatchRec("task:spawn") \cup BatchRec("task:complete")]
  BY <1>1, <1>7, Types DEF Hook
<1>9. requests'[b] = rec /\ \A a \in Batches \ {b} : requests'[a] = requests[a]
  BY <1>1, Types
<1>10. Suspends(t, b)
  <2>1. Others(t)
    BY <1>4, <1>5 DEF Others, Ends
  <2>2. requests'[b].hook # "none" /\ requests'[b].task = t /\ Undecided(requests'[b].answer)
    BY <1>6, <1>7, <1>9 DEF Hook
  <2>3. authority'[t].revision = tasks'[t].revision /\ authority'[t].run = tasks'[t].active /\ tasks'[t].status = Waiting
    BY <1>4, <1>5 DEF Ends
  <2> QED  BY <1>1, <1>5, <1>9, <2>1, <2>2, <2>3 DEF Suspends
<1>11. timers' \subseteq Timers
  BY <1>1, Types DEF Timers
<1> QED  BY <1>3, <1>5, <1>8, <1>10, <1>11 DEF Move

LEMMA ClaimIsGood == ASSUME IInv, NEW t \in Tasks, NEW r \in Runs, ClaimTask(t, r) PROVE Good
<1>1. /\ Claim(t, RefOf(tasks[t]), r)
      /\ dispatch' = [dispatch EXCEPT ![r] = [pc |-> "checking", input |-> input[t]]]
      /\ UNCHANGED <<requests, input, consent, timers, rejections, world, mind, up, bounds>>
  BY DEF ClaimTask, decisionsKept
<1>2. StoreEffect
  BY <1>1 DEF StoreEffect
<1>3. /\ tasks'[t].status = "in_progress" /\ \A u \in Tasks : u # t => tasks'[u] = tasks[u]
      /\ RevisionLeft(t)
  BY <1>1, Types, Claimed DEF RevisionLeft
<1>4. MindStep
  BY <1>1, MindSame
<1>5. dispatch' \in [Runs -> DispatchRec]
  BY <1>1, Types DEF DispatchRec
<1>6. authority' \in [Tasks -> AuthorityRec] /\ Settles(t)
  <2>1. CASE authority' = authority /\ authority[t] = NoAuthority
    BY <1>1, <1>3, <2>1, Types DEF Settles, Others, Waiting
  <2>2. CASE Revokes(t)
    BY <1>1, <1>3, <2>2, Revoked DEF Settles, Others, Waiting
  <2>3. CASE authority[t].phase = "ready" /\ Grants(t, authority[t].batch, "claimed", r)
    <3>1. authority[t].batch # NoBatch
      BY <2>3 DEF IInv, AuthorityInv, NoAuthority
    <3>2. authority[t].batch \in Batches /\ "claimed" \in Phase
      BY <3>1, AuthorityKnown DEF Phase
    <3>3. /\ authority' \in [Tasks -> AuthorityRec]
          /\ authority'[t].batch = authority[t].batch /\ authority'[t].phase = "claimed"
          /\ \A u \in Tasks : u # t => authority'[u] = authority[u]
      BY <1>3, <2>3, <3>2, AuthorityTyped
    <3> QED  BY <1>1, <1>3, <2>3, <3>1, <3>2, <3>3 DEF Settles, Others, Waiting
  <2> QED  BY <2>1, <2>2, <2>3 DEF ClaimTask
<1>7. TypedInv'
  BY <1>1, <1>5, <1>6, Types DEF TypedInv
<1> QED  BY <1>2, <1>4, <1>6, <1>7 DEF Good, Move

LEMMA CheckSpawnIsGood == ASSUME IInv, NEW r \in Runs, CheckSpawn(r) PROVE Good
<1> DEFINE t == TaskOf(r)
<1>1. /\ Checking(r) /\ StillActive(r) /\ UNCHANGED <<input, rejections, world, mind, up, bounds>>
  BY DEF CheckSpawn, decisionsKept
<1>2. runs[r].status = "running" /\ t \in Tasks
  BY <1>1, Types DEF StillActive, TaskOf, StoreInv, RowsAreRooted
<1>3. MindStep
  BY <1>1, MindSame
<1>4. dispatch[r].input \in Nat
  BY Types DEF DispatchRec
<1>5. CASE /\ SpawnGates = {} \/ Authorized(r)
           /\ Starts(r) /\ UNCHANGED <<storeVars, approvalVars, timers>>
  <2> DEFINE rec == [batch |-> authority[t].batch, input |-> dispatch[r].input, world |-> world]
  <2>1. /\ consent' = [consent EXCEPT ![r] = rec] /\ Dispatches(r, "started")
        /\ tasks' = tasks /\ runs' = runs /\ authority' = authority /\ requests' = requests /\ timers' = timers
    BY <1>5 DEF Starts, storeVars, approvalVars
  <2>2. /\ rec \in ConsentRec /\ rec.batch = authority[t].batch
        /\ rec.input = dispatch[r].input /\ rec.world = world
    BY <1>2, <1>4, Types DEF ConsentRec, AuthorityRec
  <2> HIDE DEF rec
  <2>3. consent' \in [Runs -> ConsentRec] /\ consent'[r] = rec /\ \A q \in Runs \ {r} : consent'[q] = consent[q]
    BY <2>1, <2>2, Types
  <2>4. ASSUME SpawnGates # {}
        PROVE  \E u \in Tasks : \E b \in Batches :
                 /\ u = runs[r].task /\ b = authority[u].batch
                 /\ authority[u].phase = "claimed" /\ authority[u].run = r /\ runs[r].status # "absent"
                 /\ requests[b].hook = "task:spawn" /\ AllAccepted(requests[b].answer)
                 /\ consent'[r].batch = b
                 /\ consent'[r].input = requests[b].input /\ consent'[r].world = requests[b].world
    <3>1. /\ authority[t].phase = "claimed" /\ Valid(t)
          /\ requests[authority[t].batch].hook = "task:spawn"
          /\ requests[authority[t].batch].world = world
          /\ requests[authority[t].batch].input = dispatch[r].input
          /\ AllAccepted(requests[authority[t].batch].answer)
      BY <1>5, <2>4 DEF Authorized
    <3>2. authority[t].batch # NoBatch
      BY <1>2, <3>1 DEF IInv, AuthorityInv, NoAuthority
    <3>3. authority[t].batch \in Batches
      BY <1>2, <3>2, AuthorityKnown
    <3>4. authority[t].run = r
      BY <1>1, <3>1 DEF Valid, StillActive
    <3> QED  BY <1>2, <2>2, <2>3, <3>1, <3>3, <3>4 DEF TaskOf
  <2>5. Started(r)
    BY <2>1, <2>3, <2>4 DEF Started
  <2>6. StoreEffect
    BY <2>1 DEF StoreEffect, storeVars
  <2>7. dispatch' \in [Runs -> DispatchRec]
    BY <2>1, DispatchTyped
  <2>8. TypedInv'
    BY <1>1, <2>1, <2>3, <2>7, Types DEF TypedInv
  <2> QED  BY <1>3, <2>5, <2>6, <2>8 DEF Good, Move
<1>6. CASE /\ SpawnGates # {}
           /\ \E b \in Batches : Suspend(TaskOf(r), b, "task:spawn", dispatch[r].input)
           /\ Dispatches(r, "over") /\ UNCHANGED consent
  <2> PICK b \in Batches : Suspend(t, b, "task:spawn", dispatch[r].input)
    BY <1>6
  <2>1. "task:spawn" \in Hook /\ GatesOf("task:spawn") # {}
    BY <1>6 DEF Hook, GatesOf
  <2>2. /\ StoreEffect /\ Move
        /\ authority' \in [Tasks -> AuthorityRec]
        /\ requests' \in [Batches -> {NoRequests} \cup BatchRec("task:spawn") \cup BatchRec("task:complete")]
        /\ timers' \subseteq Timers
    BY <1>2, <1>4, <1>6, <2>1, SuspendMoves
  <2>3. dispatch' \in [Runs -> DispatchRec]
    BY <1>6, DispatchTyped
  <2>4. TypedInv'
    BY <1>1, <1>6, <2>2, <2>3, Types DEF TypedInv
  <2> QED  BY <1>3, <2>2, <2>4 DEF Good
<1> QED  BY <1>5, <1>6 DEF CheckSpawn


LEMMA OutcomeIsGood ==
  ASSUME IInv, NEW r \in Runs, NEW outcome \in RunOutcome, CompleteRun(r, outcome), Dispatches(r, "over"),
         UNCHANGED <<approvalVars, input, consent, timers, decisionsKept>>
  PROVE  Good
<1>1. tasks' = tasks /\ UNCHANGED <<authority, requests, input, consent, timers, rejections, world, mind, up, bounds>>
  BY DEF CompleteRun, approvalVars, decisionsKept
<1>2. StoreEffect
  BY DEF StoreEffect, OutcomeWrite
<1>3. Rests
  BY <1>1 DEF Rests
<1>4. MindStep
  BY <1>1, MindSame
<1>5. dispatch' \in [Runs -> DispatchRec]
  BY DispatchTyped
<1>6. TypedInv'
  BY <1>1, <1>5, Types DEF TypedInv
<1> QED  BY <1>2, <1>3, <1>4, <1>6 DEF Good, Move

LEMMA RunMovesAreGood ==
  ASSUME IInv, NEW r \in Runs,
         SpawnConflict(r) \/ SpawnAbandoned(r) \/ (\E o \in {"completed", "failed"} : RunEnds(r, o))
  PROVE  Good
<1>1. CASE SpawnConflict(r)
  <2>1. "failed" \in RunOutcome
    BY DEF RunOutcome
  <2> QED  BY <1>1, <2>1, OutcomeIsGood DEF SpawnConflict
<1>2. CASE SpawnAbandoned(r)
  <2>1. /\ UNCHANGED <<storeVars, approvalVars, consent>> /\ Dispatches(r, "over")
        /\ UNCHANGED <<authority, requests, input, consent, timers, rejections, world, mind, up, bounds>>
    BY <1>2 DEF SpawnAbandoned, approvalVars, decisionsKept
  <2>2. dispatch' \in [Runs -> DispatchRec]
    BY <2>1, DispatchTyped
  <2>3. TypedInv'
    BY <2>1, <2>2, Types DEF TypedInv
  <2> QED  BY <2>1, <2>3, Unmoved, MindSame DEF Good
<1>3. ASSUME NEW o \in {"completed", "failed"}, RunEnds(r, o) PROVE Good
  <2>1. o \in RunOutcome
    BY DEF RunOutcome
  <2> QED  BY <1>3, <2>1, OutcomeIsGood DEF RunEnds
<1> QED  BY <1>1, <1>2, <1>3

\* A status is written that nobody waits in.
LEMMA StatusRests ==
  ASSUME IInv, NEW t \in Tasks, NEW new \in {"review", "failed", "done"}, MutateTransition(t, RefOf(tasks[t]), new),
         UNCHANGED <<authority, requests, consent>>
  PROVE  StoreEffect /\ Move
<1>1. new \in TaskStatus /\ new \notin ReleasingStatus /\ new # Waiting
  BY DEF TaskStatus, ReleasingStatus, Waiting
<1>2. StoreEffect
  BY <1>1, Types, MutateTransitionIsEffect
<1>3. Sets(t, new)
  BY <1>1, Types, MutateRow
<1>4. Rests
  BY <1>1, <1>3 DEF Rests, Sets
<1> QED  BY <1>2, <1>4 DEF Move

LEMMA CollectIsGood == ASSUME IInv, NEW t \in Tasks, Collect(t) PROVE Good
<1>1. UNCHANGED <<authority, requests, input, dispatch, consent, timers, rejections, world, mind, up, bounds>>
  BY DEF Collect, approvalVars, hostVars, decisionsKept
<1>2. \E new \in {"review", "failed", "done"} : MutateTransition(t, RefOf(tasks[t]), new)
  BY DEF Collect
<1>3. TypedInv'
  BY <1>1, Types DEF TypedInv
<1> QED  BY <1>1, <1>2, <1>3, StatusRests, MindSame DEF Good

LEMMA CheckCompleteIsGood == ASSUME IInv, NEW t \in Tasks, CheckComplete(t) PROVE Good
<1>1. UNCHANGED <<input, dispatch, consent, rejections, world, mind, up, bounds>>
  BY DEF CheckComplete, hostVars, decisionsKept
<1>2. MindStep
  BY <1>1, MindSame
<1>3. CASE MutateTransition(t, RefOf(tasks[t]), "done") /\ UNCHANGED <<approvalVars, timers>>
  <2>1. UNCHANGED <<authority, requests, timers>>
    BY <1>3 DEF approvalVars
  <2>2. StoreEffect /\ Move
    BY <1>1, <1>3, <2>1, StatusRests
  <2>3. TypedInv'
    BY <1>1, <2>1, Types DEF TypedInv
  <2> QED  BY <1>2, <2>2, <2>3 DEF Good
<1>4. ASSUME CompleteGates # {}, NEW b \in Batches, Suspend(t, b, "task:complete", input[t]) PROVE Good
  <2>1. "task:complete" \in Hook /\ GatesOf("task:complete") # {} /\ input[t] \in Nat
    BY <1>4, Types DEF Hook, GatesOf
  <2>2. /\ StoreEffect /\ Move
        /\ authority' \in [Tasks -> AuthorityRec]
        /\ requests' \in [Batches -> {NoRequests} \cup BatchRec("task:spawn") \cup BatchRec("task:complete")]
        /\ timers' \subseteq Timers
    BY <1>1, <1>4, <2>1, SuspendMoves
  <2>3. TypedInv'
    BY <1>1, <2>2, Types DEF TypedInv
  <2> QED  BY <1>2, <2>2, <2>3 DEF Good
<1> QED  BY <1>3, <1>4 DEF CheckComplete

\* An attempt ends, and the authority with it.
LEMMA RevocationSettles ==
  ASSUME IInv, NEW t \in Tasks, NEW status \in TaskStatus \ {Waiting}, Ends(t, status), Revokes(t), consent' = consent,
         requests' = requests \/ (authority[t].phase = "waiting" /\ authority[t].batch # NoBatch /\ AnswersAt(authority[t].batch))
  PROVE  Settles(t) /\ authority' \in [Tasks -> AuthorityRec]
BY Revoked DEF Ends, Settles, Others

LEMMA KillIsGood == ASSUME IInv, NEW t \in Tasks, Kill(t) PROVE Good
<1>1. /\ tasks[t].status \notin TerminalStatus /\ Cancel(t, RefOf(tasks[t])) /\ Revokes(t)
      /\ UNCHANGED <<requests, input, dispatch, consent, timers, rejections, world, mind, up, bounds>>
  BY DEF Kill, hostVars, decisionsKept
<1>2. StoreEffect
  BY <1>1, Types, CancelIsEffect
<1>3. \E status \in TerminalStatus : Ends(t, status)
  BY <1>1, Types, CancelRow
<1>4. TerminalStatus \subseteq TaskStatus \ {Waiting}
  BY DEF TerminalStatus, TaskStatus, Waiting
<1>5. Settles(t) /\ authority' \in [Tasks -> AuthorityRec]
  BY <1>1, <1>3, <1>4, RevocationSettles
<1>6. TypedInv'
  BY <1>1, <1>5, Types DEF TypedInv
<1> QED  BY <1>1, <1>2, <1>5, <1>6, MindSame DEF Good, Move

LEMMA RecoverIsGood == ASSUME IInv, NEW t \in Tasks, Recover(t) PROVE Good
<1>1. /\ Requeue(t, RefOf(tasks[t]), FALSE, TRUE) /\ Revokes(t)
      /\ dispatch[tasks[t].active].pc \in {"checking", "started"} /\ tasks[t].status = "in_progress"
      /\ Dispatches(tasks[t].active, "over")
      /\ UNCHANGED <<requests, input, consent, timers, rejections, world, mind, up, bounds>>
  BY DEF Recover, decisionsKept
<1>2. StoreEffect
  BY <1>1, Types, RequeueIsEffect
<1>3. Ends(t, "pending") /\ LiveRun(t)
  BY <1>1, Types, RequeueRow DEF CanRequeue
<1>4. "pending" \in TaskStatus \ {Waiting}
  BY DEF TaskStatus, Waiting
<1>5. Settles(t) /\ authority' \in [Tasks -> AuthorityRec]
  BY <1>1, <1>3, <1>4, RevocationSettles
<1>6. tasks[t].active \in Runs
  BY <1>3, Types DEF LiveRun, TaskRow
<1>7. dispatch' \in [Runs -> DispatchRec]
  BY <1>1, <1>6, DispatchTyped
<1>8. TypedInv'
  BY <1>1, <1>5, <1>7, Types DEF TypedInv
<1> QED  BY <1>1, <1>2, <1>5, <1>8, MindSame DEF Good, Move

-----------------------------------------------------------------------------
(* Decisions.                                                              *)

LEMMA AnswersTyped ==
  ASSUME IInv, NEW d \in Deciders, MayDecide(d), NEW m, m = mind[d],
         NEW new \in Answer, NEW rejecting \in BOOLEAN, Answers(m, new, rejecting)
  PROVE  /\ requests' \in [Batches -> {NoRequests} \cup BatchRec("task:spawn") \cup BatchRec("task:complete")]
         /\ AnswersAt(m.batch) /\ requests'[m.batch].answer = AnswersWith(m, new, rejecting)
<1> DEFINE answers == AnswersWith(m, new, rejecting)
           hook == requests[m.batch].hook
           rec == [requests[m.batch] EXCEPT !.answer = answers]
<1>1. /\ m.batch \in Batches /\ hook \in Hook /\ requests[m.batch] \in BatchRec(hook)
      /\ m.answer = requests[m.batch].answer
  BY DecideFacts
<1>2. m.answer \in [GatesOf(hook) -> Answer]
  BY <1>1 DEF BatchRec
<1>3. "rejected" \in Answer
  BY DEF Answer
<1>4. answers \in [GatesOf(hook) -> Answer]
  BY <1>2, <1>3 DEF AnswersWith
<1>5. requests' = [requests EXCEPT ![m.batch] = rec]
  BY DEF Answers
<1> HIDE DEF answers
<1>6. /\ rec \in BatchRec(hook) /\ rec.answer = answers /\ rec.hook = requests[m.batch].hook
      /\ rec.task = requests[m.batch].task /\ rec.input = requests[m.batch].input
      /\ rec.world = requests[m.batch].world
  BY <1>1, <1>4 DEF BatchRec
<1> HIDE DEF rec
<1>7. requests'[m.batch] = rec /\ \A b \in Batches : b # m.batch => requests'[b] = requests[b]
  BY <1>1, <1>5, Types
<1>8. AnswersAt(m.batch)
  BY <1>6, <1>7 DEF AnswersAt
<1>9. requests' \in [Batches -> {NoRequests} \cup BatchRec("task:spawn") \cup BatchRec("task:complete")]
  <2>1. rec \in BatchRec("task:spawn") \cup BatchRec("task:complete")
    BY <1>1, <1>6 DEF Hook
  <2> QED  BY <1>1, <1>5, <2>1, Types
<1> QED  BY <1>6, <1>7, <1>8, <1>9 DEF answers

LEMMA GrantMoves ==
  ASSUME IInv, NEW d \in Deciders, MayDecide(d), NEW m, m = mind[d],
         NEW new \in {"approved", "timeout"}, Accepted(m.gate, new), Grant(m, new), consent' = consent
  PROVE  /\ StoreEffect /\ Move /\ input' = input
         /\ authority' \in [Tasks -> AuthorityRec]
         /\ requests' \in [Batches -> {NoRequests} \cup BatchRec("task:spawn") \cup BatchRec("task:complete")]
<1> DEFINE t == m.task
           answers == AnswersWith(m, new, FALSE)
<1>1. /\ t \in Tasks /\ m.batch \in Batches /\ authority[t].batch = m.batch /\ authority[t].phase = "waiting"
      /\ m.batch # NoBatch /\ m.row = tasks[t] /\ Undecided(m.answer)
      /\ requests[m.batch].hook \in Hook
  BY DecideFacts
<1>2. /\ requests' \in [Batches -> {NoRequests} \cup BatchRec("task:spawn") \cup BatchRec("task:complete")]
      /\ AnswersAt(m.batch) /\ requests'[m.batch].answer = answers
  <2>1. new \in Answer /\ FALSE \in BOOLEAN /\ Answers(m, new, FALSE)
    BY DEF Grant, Answer
  <2> QED  BY <2>1, AnswersTyped
<1>3. input' = input
  BY DEF Grant
<1>4. CASE ~AllAccepted(answers) /\ UNCHANGED <<storeVars, authority>>
  <2>1. DOMAIN answers = DOMAIN m.answer /\ \A g \in DOMAIN answers : answers[g] = IF g = m.gate THEN new ELSE m.answer[g]
    BY DEF AnswersWith
  <2>2. \A g \in DOMAIN answers : answers[g] = "pending" \/ Accepted(g, answers[g])
    BY <1>1, <2>1 DEF Undecided
  <2>3. Undecided(answers)
    BY <1>4, <2>2 DEF Undecided, AllAccepted
  <2>4. Answered(t, m.batch)
    BY <1>1, <1>2, <1>4, <2>3 DEF Answered, storeVars
  <2>5. StoreEffect
    BY <1>4 DEF StoreEffect
  <2> QED  BY <1>1, <1>2, <1>3, <1>4, <2>4, <2>5, Types DEF Move
<1>5. CASE MutateTransition(t, RefOf(m.row), "done") /\ Revokes(t)
  <2>1. "done" \in TaskStatus /\ "done" \notin ReleasingStatus /\ "done" # Waiting
    BY DEF TaskStatus, ReleasingStatus, Waiting
  <2>2. StoreEffect /\ Sets(t, "done")
    BY <1>1, <1>5, <2>1, Types, MutateTransitionIsEffect, MutateRow
  <2>3. Settles(t) /\ authority' \in [Tasks -> AuthorityRec]
    BY <1>1, <1>2, <1>5, <2>1, <2>2, Revoked DEF Settles, Others, Sets
  <2> QED  BY <1>1, <1>2, <1>3, <2>2, <2>3 DEF Move
<1>6. CASE Requeue(t, RefOf(m.row), FALSE, FALSE) /\ Grants(t, m.batch, "ready", NoRun)
  <2>1. StoreEffect
    BY <1>1, <1>6, Types, RequeueIsEffect
  <2>2. Ends(t, "pending") /\ RevisionLeft(t)
    BY <1>1, <1>6, Types, RequeueRow
  <2>3. "ready" \in Phase /\ "pending" # Waiting
    BY DEF Phase, Waiting
  <2>4. /\ authority' \in [Tasks -> AuthorityRec]
        /\ authority'[t].batch = m.batch /\ authority'[t].phase = "ready"
        /\ \A u \in Tasks : u # t => authority'[u] = authority[u]
    BY <1>1, <1>6, <2>2, <2>3, AuthorityTyped
  <2>5. Settles(t)
    BY <1>1, <1>2, <2>2, <2>3, <2>4 DEF Settles, Others, Ends
  <2> QED  BY <1>1, <1>2, <1>3, <2>1, <2>4, <2>5 DEF Move
<1> QED  BY <1>4, <1>5, <1>6 DEF Grant


LEMMA ApproveIsGood == ASSUME IInv, NEW u \in Users, Approve(u) PROVE Good
<1> DEFINE m == mind[u]
<1>1. /\ MayDecide(u) /\ Grant(m, "approved") /\ timers' = timers \ {<<m.batch, m.gate>>} /\ Forgets(u)
      /\ UNCHANGED <<rejections, world, dispatch, consent, up, bounds>>
  BY DEF Approve, hostVars
<1>2. u \in Deciders /\ Accepted(m.gate, "approved")
  BY DEF Deciders, Accepted
<1>3. /\ StoreEffect /\ Move /\ input' = input
      /\ authority' \in [Tasks -> AuthorityRec]
      /\ requests' \in [Batches -> {NoRequests} \cup BatchRec("task:spawn") \cup BatchRec("task:complete")]
  BY <1>1, <1>2, GrantMoves
<1>4. MindStep
  BY <1>1, <1>2, MindForgets
<1>5. timers' \subseteq Timers
  BY <1>1, Types
<1>6. TypedInv'
  BY <1>1, <1>3, <1>4, <1>5, Types DEF TypedInv, MindStep
<1> QED  BY <1>3, <1>4, <1>6 DEF Good

LEMMA RejectIsGood == ASSUME IInv, NEW u \in Users, Reject(u) PROVE Good
<1> DEFINE m == mind[u]
           t == m.task
<1>1. /\ MayDecide(u) /\ m.rejections < MaxRevisions /\ Answers(m, "rejected", TRUE)
      /\ Requeue(t, RefOf(m.row), FALSE, FALSE) /\ Revokes(t)
      /\ input' = [input EXCEPT ![t] = @ + 1] /\ rejections' = [rejections EXCEPT ![t] = @ + 1]
      /\ timers' = timers \ ({m.batch} \X Timed) /\ Forgets(u)
      /\ UNCHANGED <<world, dispatch, consent, up, bounds>>
  BY DEF Reject, MayReject, hostVars
<1>2. u \in Deciders /\ "rejected" \in Answer /\ TRUE \in BOOLEAN
  BY DEF Deciders, Answer
<1>3. /\ t \in Tasks /\ m.batch \in Batches /\ authority[t].batch = m.batch /\ authority[t].phase = "waiting"
      /\ m.batch # NoBatch /\ m.row = tasks[t] /\ m.rejections = rejections[t]
  BY <1>1, <1>2, DecideFacts
<1>4. /\ requests' \in [Batches -> {NoRequests} \cup BatchRec("task:spawn") \cup BatchRec("task:complete")]
      /\ AnswersAt(m.batch)
  BY <1>1, <1>2, AnswersTyped
<1>5. StoreEffect /\ Ends(t, "pending")
  BY <1>1, <1>3, Types, RequeueIsEffect, RequeueRow
<1>6. "pending" \in TaskStatus \ {Waiting}
  BY DEF TaskStatus, Waiting
<1>7. Settles(t) /\ authority' \in [Tasks -> AuthorityRec]
  BY <1>1, <1>3, <1>4, <1>5, <1>6, RevocationSettles
<1>8. MindStep
  BY <1>1, <1>2, MindForgets
<1>9. input' \in [Tasks -> Nat] /\ rejections' \in [Tasks -> 0..MaxRevisions]
  BY <1>1, <1>3, Types
<1>10. ASSUME NEW v \in Tasks PROVE input'[v] <= bounds'.edits + rejections'[v]
  <2>1. /\ input[v] \in Nat /\ rejections[v] \in Nat /\ bounds.edits \in Nat
        /\ input[v] <= bounds.edits + rejections[v] /\ bounds' = bounds
    BY <1>1, Types
  <2>2. CASE v = t
    <3>1. input'[v] = input[v] + 1 /\ rejections'[v] = rejections[v] + 1
      BY <1>1, <2>2, Types
    <3> QED  BY <2>1, <3>1
  <2>3. CASE v # t
    <3>1. input'[v] = input[v] /\ rejections'[v] = rejections[v]
      BY <1>1, <2>3, Types
    <3> QED  BY <2>1, <3>1
  <2> QED  BY <2>2, <2>3
<1>11. TypedInv'
  BY <1>1, <1>4, <1>7, <1>8, <1>9, <1>10, Types DEF TypedInv, MindStep
<1> QED  BY <1>3, <1>5, <1>7, <1>8, <1>11 DEF Good, Move

\* What is cancelled before it is over, fails.
LEMMA CancelFails ==
  ASSUME StoreInv, NEW t \in Tasks, NEW ref, Cancel(t, ref), tasks[t].status \notin TerminalStatus
  PROVE  Ends(t, "failed")
BY EndsRow DEF Cancel

LEMMA TimerDecidesIsGood == ASSUME IInv, NEW d \in Timers, TimerDecides(d) PROVE Good
<1> DEFINE m == mind[d]
           t == m.task
<1>1. /\ MayDecide(d) /\ timers' = timers \ {d} /\ Forgets(d)
      /\ UNCHANGED <<rejections, world, dispatch, consent, up, bounds>>
  BY DEF TimerDecides, timerKept, hostVars
<1>2. d \in Deciders
  BY DEF Deciders
<1>3. MindStep
  BY <1>1, <1>2, MindForgets
<1>4. timers' \subseteq Timers
  BY <1>1, Types
<1>5. CASE m.gate \in Lenient /\ Grant(m, "timeout")
  <2>1. Accepted(m.gate, "timeout")
    BY <1>5 DEF Accepted
  <2>2. /\ StoreEffect /\ Move /\ input' = input
        /\ authority' \in [Tasks -> AuthorityRec]
        /\ requests' \in [Batches -> {NoRequests} \cup BatchRec("task:spawn") \cup BatchRec("task:complete")]
    BY <1>1, <1>2, <1>5, <2>1, GrantMoves
  <2>3. TypedInv'
    BY <1>1, <1>3, <1>4, <2>2, Types DEF TypedInv, MindStep
  <2> QED  BY <1>3, <2>2, <2>3 DEF Good
<1>6. CASE Answers(m, "timeout", TRUE) /\ Cancel(t, RefOf(m.row)) /\ Revokes(t) /\ UNCHANGED input
  <2>1. "timeout" \in Answer /\ TRUE \in BOOLEAN
    BY DEF Answer
  <2>2. /\ t \in Tasks /\ authority[t].batch = m.batch /\ authority[t].phase = "waiting"
        /\ m.batch # NoBatch /\ m.row = tasks[t] /\ tasks[t].status = Waiting
    BY <1>1, <1>2, DecideFacts
  <2>3. /\ requests' \in [Batches -> {NoRequests} \cup BatchRec("task:spawn") \cup BatchRec("task:complete")]
        /\ AnswersAt(m.batch)
    BY <1>1, <1>2, <1>6, <2>1, AnswersTyped
  <2>4. Waiting \notin TerminalStatus /\ "failed" \in TaskStatus \ {Waiting}
    BY DEF Waiting, TerminalStatus, TaskStatus
  <2>5. StoreEffect /\ Ends(t, "failed")
    BY <1>6, <2>2, <2>4, Types, CancelIsEffect, CancelFails
  <2>6. Settles(t) /\ authority' \in [Tasks -> AuthorityRec]
    BY <1>1, <1>6, <2>2, <2>3, <2>4, <2>5, RevocationSettles
  <2>7. TypedInv'
    BY <1>1, <1>3, <1>4, <1>6, <2>3, <2>6, Types DEF TypedInv, MindStep
  <2> QED  BY <1>3, <2>2, <2>5, <2>6, <2>7 DEF Good, Move
<1> QED  BY <1>5, <1>6 DEF TimerDecides

-----------------------------------------------------------------------------
(* Steps that leave rows, authorities, batches and consents alone.         *)

LEMMA ReadersAreGood ==
  ASSUME IInv, \/ \E u \in Users : UserGivesUp(u)
               \/ \E u \in Users, b \in Batches, g \in Gates : UserLooks(u, b, g)
               \/ \E d \in Timers : TimerFires(d[1], d[2]) \/ TimerConflicts(d)
  PROVE  Good
<1>1. /\ UNCHANGED <<storeVars, approvalVars, consent>>
      /\ UNCHANGED <<authority, requests, input, dispatch, consent, rejections, world, up, bounds>>
  BY DEF UserGivesUp, UserLooks, TimerFires, TimerConflicts, timerKept, approvalVars, hostVars
<1>2. timers' \subseteq Timers
  BY Types DEF UserGivesUp, UserLooks, TimerFires, TimerConflicts
<1>3. ASSUME NEW u \in Users, UserGivesUp(u) PROVE MindStep
  BY <1>3, MindForgets DEF UserGivesUp, Deciders
<1>4. ASSUME NEW u \in Users, NEW b \in Batches, NEW g \in Gates, UserLooks(u, b, g) PROVE MindStep
  BY <1>4, MindLooks DEF UserLooks, Deciders
<1>5. ASSUME NEW d \in Timers, TimerFires(d[1], d[2]) PROVE MindStep
  <2>1. d[1] \in Batches /\ d = <<d[1], d[2]>> /\ d \in Deciders
    BY DEF Timers, Deciders
  <2>2. CASE Open(d[1], d[2]) /\ Looks(<<d[1], d[2]>>, d[1], d[2])
    <3>1. Looks(d, d[1], d[2])
      BY <2>1, <2>2
    <3> QED  BY <2>1, <2>2, <3>1, MindLooks
  <2>3. CASE mind' = mind
    BY <2>3, MindSame
  <2> QED  BY <1>5, <2>2, <2>3 DEF TimerFires
<1>6. ASSUME NEW d \in Timers, TimerConflicts(d) PROVE MindStep
  BY <1>6, MindForgets DEF TimerConflicts, Deciders
<1>7. MindStep
  BY <1>3, <1>4, <1>5, <1>6
<1>8. TypedInv'
  BY <1>1, <1>2, <1>7, Types DEF TypedInv, MindStep
<1> QED  BY <1>1, <1>7, <1>8, Unmoved DEF Good

LEMMA EditIsGood == ASSUME IInv, NEW t \in Tasks, Edit(t) PROVE Good
<1>1. /\ UNCHANGED <<storeVars, approvalVars, consent>> /\ bounds.edits < MaxEdits
      /\ UNCHANGED <<authority, requests, dispatch, consent, timers, rejections, world, mind, up>>
      /\ input' = [input EXCEPT ![t] = @ + 1]
      /\ bounds' = [bounds EXCEPT !.edits = @ + 1]
  BY DEF Edit, approvalVars, hostVars
<1>2. /\ bounds' \in [edits : 0..MaxEdits, crashes : 0..MaxCrashes] /\ bounds'.edits = bounds.edits + 1
      /\ input' \in [Tasks -> Nat]
  BY <1>1, Types
<1>3. ASSUME NEW v \in Tasks PROVE input'[v] <= bounds'.edits + rejections'[v]
  <2>1. /\ input[v] \in Nat /\ rejections[v] \in Nat /\ bounds.edits \in Nat
        /\ input[v] <= bounds.edits + rejections[v] /\ rejections'[v] = rejections[v]
    BY <1>1, Types
  <2>2. input'[v] = input[v] + 1 \/ input'[v] = input[v]
    BY <1>1, Types
  <2> QED  BY <1>2, <2>1, <2>2
<1>4. TypedInv'
  BY <1>1, <1>2, <1>3, Types DEF TypedInv
<1> QED  BY <1>1, <1>4, Unmoved, MindSame DEF Good

LEMMA HostIsGood == ASSUME IInv, Crash \/ Restart \/ Reload \/ UNCHANGED vars PROVE Good
<1>1. /\ UNCHANGED <<storeVars, approvalVars, consent>>
      /\ UNCHANGED <<authority, requests, input, dispatch, consent, rejections>>
  BY DEF Crash, Restart, Reload, vars, approvalVars, hostVars
<1>2. MindStep
  <2>1. CASE mind' = mind
    BY <2>1, MindSame
  <2>2. CASE mind' = [d \in Users \cup Timers |-> NotRead]
    BY <2>2 DEF MindStep, Deciders
  <2> QED  BY <2>1, <2>2 DEF Crash, Restart, Reload, vars
<1>3. timers' \subseteq Timers
  BY Types DEF Crash, Restart, Reload, vars
<1>4. world' \in Nat
  BY Types DEF Crash, Restart, Reload, vars
<1>5. bounds' \in [edits : 0..MaxEdits, crashes : 0..MaxCrashes] /\ bounds'.edits = bounds.edits
  <2>1. CASE bounds' = bounds
    BY <2>1, Types
  <2>2. CASE bounds.crashes < MaxCrashes /\ bounds' = [bounds EXCEPT !.crashes = @ + 1]
    BY <2>2, Types
  <2> QED  BY <2>1, <2>2 DEF Crash, Restart, Reload, vars
<1>6. TypedInv'
  BY <1>1, <1>2, <1>3, <1>4, <1>5, Types DEF TypedInv, MindStep
<1> QED  BY <1>1, <1>2, <1>6, Unmoved DEF Good

LEMMA StepIsGood == ASSUME IInv, [Next]_vars PROVE Good
BY ClaimIsGood, CheckSpawnIsGood, RunMovesAreGood, CollectIsGood, CheckCompleteIsGood, RecoverIsGood, KillIsGood,
   ApproveIsGood, RejectIsGood, TimerDecidesIsGood, ReadersAreGood, EditIsGood, HostIsGood
   DEF Next, Host, People, Timer

LEMMA StepKept == ASSUME IInv, [Next]_vars PROVE IInv' /\ GoodStep
<1>1. StoreEffect /\ Move /\ MindStep /\ TypedInv'
  BY StepIsGood DEF Good
<1>2. GoodStep /\ RunsAge
  BY <1>1, Types, EffectKeepsStore, EffectAges
<1>3. StoreInv'
  BY <1>2 DEF GoodStep
<1>4. AuthorityInv' /\ WaitingInv' /\ ConsentInv' /\ MindInv'
  BY <1>1, <1>2, AuthorityAges, WaitingAges, ConsentAges, MindAges, MoveKeepsBatches
<1> QED  BY <1>1, <1>2, <1>3, <1>4 DEF IInv

LEMMA InitKept == ASSUME Init PROVE IInv
<1>1. /\ \A t \in Tasks : tasks[t] = [status |-> "pending", revision |-> 0, active |-> NoRun, retries |-> 0]
      /\ \A r \in Runs : runs[r] = AbsentRun
      /\ tasks \in [Tasks -> TaskRow] /\ runs \in [Runs -> RunRow]
  BY MaxRevisionAssumption DEF Init, AbsentTask, AbsentRun, TaskRow, RunRow, TaskStatus
<1>2. StoreInv
  BY <1>1, NoTaskAssumption DEF StoreInv, StoreTypeOK, OwnerAgrees, Consistent, RunningIsOwned, PendingIsUnowned,
     RowsAreRooted, AbsentRun
<1>3. NoAuthority \in AuthorityRec /\ NoConsent \in ConsentRec /\ NoAuthority.batch = NoBatch
  BY MaxRevisionAssumption DEF NoAuthority, AuthorityRec, NoConsent, ConsentRec
<1>4. TypedInv
  <2>1. /\ authority \in [Tasks -> AuthorityRec] /\ consent \in [Runs -> ConsentRec]
        /\ requests \in [Batches -> {NoRequests} \cup BatchRec("task:spawn") \cup BatchRec("task:complete")]
    BY <1>3 DEF Init
  <2>2. /\ input \in [Tasks -> Nat] /\ rejections \in [Tasks -> 0..MaxRevisions] /\ world \in Nat
        /\ bounds = [edits |-> 0, crashes |-> 0]
        /\ \A t \in Tasks : input[t] = 0 /\ rejections[t] = 0
    BY DEF Init
  <2>3. dispatch \in [Runs -> DispatchRec] /\ DOMAIN mind = Deciders /\ timers \subseteq Timers
    BY DEF Init, DispatchRec, Deciders
  <2>4. bounds \in [edits : 0..MaxEdits, crashes : 0..MaxCrashes] /\ bounds.edits = 0
    BY <2>2
  <2> QED  BY <2>1, <2>2, <2>3, <2>4 DEF TypedInv
<1>5. AuthorityInv
  BY <1>3 DEF Init, AuthorityInv
<1>6. WaitingInv
  BY <1>1 DEF WaitingInv, Waiting
<1>7. ConsentInv
  BY DEF Init, ConsentInv
<1>8. MindInv
  BY DEF Init, MindInv, Deciders
<1> QED  BY <1>2, <1>4, <1>5, <1>6, <1>7, <1>8 DEF IInv

-----------------------------------------------------------------------------
(* The theorems.                                                           *)

\* A batch is the authority of one Task, a consent belongs to one Run, and who
\* decides has read what is stored or will be refused: for any gates, users,
\* edits, reloads and crashes.
THEOREM ApprovalsKept == Spec => []IInv
<1>1. Init => IInv
  BY InitKept
<1>2. IInv /\ [Next]_vars => IInv'
  BY StepKept
<1> QED  BY <1>1, <1>2, PTL DEF Spec

\* The agent of a Run is only started on a batch in which every gate accepted
\* what it runs with, and that batch starts no other Run.
THEOREM ConsentIsBound == Spec => []ConsentIsForThisRun
<1>1. IInv => ConsentIsForThisRun
  BY DEF IInv, ConsentInv, Consented, ConsentIsForThisRun
<1> QED  BY <1>1, ApprovalsKept, PTL

\* A Task that waits for an approval and was not edited since it was asked about
\* has an open request that can be decided, whatever was answered, timed out or
\* lost before; and no answer it has got stands in the way of the others.
THEOREM WaitingCanBeAnswered == Spec => []ApprovalsInv
<1>1. ASSUME IInv PROVE TypeOK
  <2>1. StoreTypeOK /\ timers \subseteq Timers
    BY <1>1, Types DEF StoreTypeOK
  <2>2. ASSUME NEW t \in Tasks
        PROVE  /\ authority[t].batch \in Batches \cup {NoBatch} /\ authority[t].phase \in Phase \cup {"none"}
               /\ authority[t].run \in Runs \cup {NoRun} /\ rejections[t] \in 0..MaxRevisions
    BY <1>1, Types DEF AuthorityRec
  <2>3. ASSUME NEW t \in Tasks PROVE input[t] \in 0..MaxEdits + rejections[t]
    <3>1. /\ input[t] \in Nat /\ rejections[t] \in Nat /\ bounds.edits \in Nat /\ bounds.edits <= MaxEdits
          /\ MaxEdits \in Nat /\ input[t] <= bounds.edits + rejections[t]
      BY <1>1, Types
    <3> QED  BY <3>1
  <2>4. ASSUME NEW b \in Batches PROVE Range(requests[b].answer) \subseteq Answer
    <3>1. CASE requests[b] = NoRequests
      BY <3>1 DEF NoRequests, Range
    <3>2. ASSUME NEW hook, requests[b] \in BatchRec(hook) PROVE Range(requests[b].answer) \subseteq Answer
      BY <3>2 DEF BatchRec, Range
    <3> QED  BY <1>1, <3>1, <3>2, Types
  <2> QED  BY <1>1, <2>1, <2>2, <2>3, <2>4, Types DEF TypeOK, StoreTypeOK
<1>2. ASSUME IInv PROVE WaitingIsAnswerable
  <2> SUFFICES ASSUME NEW t \in Tasks, tasks[t].status = Waiting,
                      NEW b, b = authority[t].batch
               PROVE  /\ SameInput(t) => \E g \in DOMAIN requests[b].answer : Open(b, g)
                      /\ \A g \in DOMAIN requests[b].answer :
                           requests[b].answer[g] = "pending" \/ Accepted(g, requests[b].answer[g])
    BY DEF WaitingIsAnswerable, Waiting
  <2>1. Valid(t) /\ b # NoBatch /\ Undecided(requests[b].answer)
    BY <1>2 DEF IInv, WaitingInv
  <2>2. requests[b].hook # "none" /\ requests[b].task = t
    BY <1>2, <2>1 DEF IInv, AuthorityInv
  <2>3. authority[t].phase = "waiting"
    BY <2>1 DEF Valid, StatusIn, Phase, Waiting
  <2>4. SameInput(t) => Waits(b)
    BY <2>1, <2>2, <2>3 DEF Waits, Obsolete
  <2> QED  BY <2>1, <2>4 DEF Undecided, Open
<1> QED  BY <1>1, <1>2, ApprovalsKept, PTL DEF ApprovalsInv


\* What DoneIsApproved says of a step.
DoneStep ==
  \A t \in Tasks : tasks[t].status # "done" /\ tasks'[t].status = "done" /\ CompleteGates # {} =>
    \E b \in Batches : /\ requests[b].hook = "task:complete" /\ requests[b].task = t
                       /\ requests[b].input = input[t]
                       /\ AllAccepted(requests'[b].answer)

NoneDone == \A t \in Tasks : tasks'[t].status = "done" => tasks[t].status = "done"

LEMMA GrantDone ==
  ASSUME IInv, NEW d \in Deciders, MayDecide(d), NEW m, m = mind[d],
         NEW new \in {"approved", "timeout"}, Grant(m, new)
  PROVE  NoneDone \/ DoneStep
<1> DEFINE t == m.task
           answers == AnswersWith(m, new, FALSE)
<1>1. /\ t \in Tasks /\ m.batch \in Batches /\ requests[m.batch].task = t /\ m.row = tasks[t]
      /\ requests[m.batch].input = input[t] /\ requests[m.batch].hook \in Hook
  BY DecideFacts
<1>2. requests'[m.batch].answer = answers
  <2>1. new \in Answer /\ FALSE \in BOOLEAN /\ Answers(m, new, FALSE)
    BY DEF Grant, Answer
  <2> QED  BY <2>1, AnswersTyped
<1>3. CASE UNCHANGED storeVars
  BY <1>3 DEF NoneDone, storeVars
<1>4. CASE /\ AllAccepted(answers) /\ requests[m.batch].hook = "task:complete"
           /\ MutateTransition(t, RefOf(m.row), "done")
  <2>1. "done" \notin ReleasingStatus
    BY DEF ReleasingStatus
  <2>2. Sets(t, "done")
    BY <1>1, <1>4, <2>1, Types, MutateRow
  <2>3. \A u \in Tasks : tasks[u].status # "done" /\ tasks'[u].status = "done" => u = t
    BY <2>2 DEF Sets
  <2> QED  BY <1>1, <1>2, <1>4, <2>3 DEF DoneStep
<1>5. CASE Requeue(t, RefOf(m.row), FALSE, FALSE)
  BY <1>1, <1>5, Types, RequeueRow DEF NoneDone, Ends
<1> QED  BY <1>3, <1>4, <1>5 DEF Grant

LEMMA SuspendDone ==
  ASSUME IInv, NEW t \in Tasks, NEW b, NEW hook, NEW read, Suspend(t, b, hook, read) PROVE NoneDone
<1>1. MutateTransition(t, RefOf(tasks[t]), Waiting) /\ Waiting \in ReleasingStatus /\ Waiting # "done"
  BY DEF Suspend, Waiting, ReleasingStatus
<1>2. Ends(t, Waiting)
  BY <1>1, Types, MutateRow
<1> QED  BY <1>1, <1>2 DEF Ends, NoneDone

LEMMA StepDone == ASSUME IInv, [Next]_vars PROVE DoneStep
<1>1. NoneDone => DoneStep
  BY DEF NoneDone, DoneStep
<1>2. ASSUME tasks' = tasks PROVE NoneDone
  BY <1>2 DEF NoneDone
<1>3. ASSUME NEW t \in Tasks, NEW r \in Runs, ClaimTask(t, r) PROVE NoneDone
  BY <1>3, Types, Claimed DEF ClaimTask, NoneDone
<1>4. ASSUME NEW r \in Runs, CheckSpawn(r) PROVE NoneDone
  <2>1. CASE UNCHANGED storeVars
    BY <2>1, <1>2 DEF storeVars
  <2>2. ASSUME NEW b \in Batches, Suspend(TaskOf(r), b, "task:spawn", dispatch[r].input) PROVE NoneDone
    <3>1. TaskOf(r) \in Tasks
      BY <1>4, Types DEF CheckSpawn, StillActive, TaskOf, StoreInv, RowsAreRooted
    <3> QED  BY <2>2, <3>1, SuspendDone
  <2> QED  BY <1>4, <2>1, <2>2 DEF CheckSpawn
<1>5. ASSUME NEW r \in Runs, SpawnConflict(r) \/ SpawnAbandoned(r) \/ (\E o \in {"completed", "failed"} : RunEnds(r, o))
      PROVE  NoneDone
  BY <1>2, <1>5 DEF SpawnConflict, SpawnAbandoned, RunEnds, CompleteRun, storeVars
<1>6. ASSUME NEW t \in Tasks, Collect(t) PROVE NoneDone
  <2>1. ASSUME NEW new \in {"review", "failed"}, MutateTransition(t, RefOf(tasks[t]), new) PROVE NoneDone
    <3>1. new \notin ReleasingStatus /\ new # "done"
      BY DEF ReleasingStatus
    <3> QED  BY <2>1, <3>1, Types, MutateRow DEF Sets, NoneDone
  <2> QED  BY <1>6, <2>1 DEF Collect
<1>7. ASSUME NEW t \in Tasks, CheckComplete(t) PROVE DoneStep
  <2>1. CASE CompleteGates = {}
    BY <2>1 DEF DoneStep
  <2>2. ASSUME NEW b \in Batches, Suspend(t, b, "task:complete", input[t]) PROVE DoneStep
    BY <1>1, <2>2, SuspendDone
  <2> QED  BY <1>7, <2>1, <2>2 DEF CheckComplete
<1>8. ASSUME NEW t \in Tasks, Recover(t) PROVE NoneDone
  BY <1>8, Types, RequeueRow DEF Recover, Ends, NoneDone
<1>9. ASSUME NEW t \in Tasks, Kill(t) PROVE NoneDone
  BY <1>9, Types, CancelFails DEF Kill, Ends, NoneDone
<1>10. ASSUME NEW u \in Users, Approve(u) PROVE DoneStep
  BY <1>1, <1>10, GrantDone DEF Approve, Deciders
<1>11. ASSUME NEW u \in Users, Reject(u) PROVE NoneDone
  <2>1. u \in Deciders /\ MayDecide(u) /\ Requeue(mind[u].task, RefOf(mind[u].row), FALSE, FALSE)
    BY <1>11 DEF Reject, Deciders
  <2>2. mind[u].task \in Tasks
    BY <2>1, DecideFacts
  <2> QED  BY <2>1, <2>2, Types, RequeueRow DEF Ends, NoneDone
<1>12. ASSUME NEW d \in Timers, TimerDecides(d) PROVE DoneStep
  <2>1. d \in Deciders /\ MayDecide(d)
    BY <1>12 DEF TimerDecides, Deciders
  <2>2. CASE Grant(mind[d], "timeout")
    BY <1>1, <2>1, <2>2, GrantDone
  <2>3. CASE Cancel(mind[d].task, RefOf(mind[d].row))
    <3>1. mind[d].task \in Tasks /\ tasks[mind[d].task].status \notin TerminalStatus
      BY <2>1, DecideFacts DEF Waiting, TerminalStatus
    <3>2. Ends(mind[d].task, "failed")
      BY <2>3, <3>1, Types, CancelFails
    <3> QED  BY <1>1, <3>2 DEF Ends, NoneDone
  <2> QED  BY <1>12, <2>2, <2>3 DEF TimerDecides
<1>13. ASSUME \/ \E u \in Users : UserGivesUp(u)
              \/ \E u \in Users, b \in Batches, g \in Gates : UserLooks(u, b, g)
              \/ \E d \in Timers : TimerFires(d[1], d[2]) \/ TimerConflicts(d)
              \/ \E t \in Tasks : Edit(t)
              \/ Crash \/ Restart \/ Reload \/ UNCHANGED vars
       PROVE  NoneDone
  BY <1>2, <1>13 DEF UserGivesUp, UserLooks, TimerFires, TimerConflicts, Edit, Crash, Restart, Reload, vars, storeVars
<1> QED
  BY <1>1, <1>3, <1>4, <1>5, <1>6, <1>7, <1>8, <1>9, <1>10, <1>11, <1>12, <1>13 DEF Next, Host, People, Timer

\* An edit between the last approval's reads and its commit does not slip
\* through, nor does an approval of another Task or of an older batch.
THEOREM CompletionIsApproved == Spec => DoneIsApproved
<1>1. IInv /\ [Next]_vars => DoneStep
  BY StepDone
<1>2. IInv /\ [Next]_vars => [DoneStep]_vars
  BY <1>1
<1> QED  BY <1>2, ApprovalsKept, PTL DEF Spec, DoneIsApproved, DoneStep

\* Gates, approvals and recovery use the store as exclusive attempts.
THEOREM ApprovalsAttempts == Spec => Attempts!Spec
<1>1. Init => Attempts!Init
  BY DEF Init, AbsentTask, AbsentRun, Attempts!Init, genOf, liveOf, tokenOf, endedOf, RunningRunsOf, RunsOf, RunOutcome
<1>2. IInv /\ [Next]_vars => [Attempts!Next]_(Attempts!attemptVars)
  BY StepKept DEF GoodStep
<1> QED  BY <1>1, <1>2, ApprovalsKept, PTL DEF Spec, Attempts!Spec
=============================================================================
