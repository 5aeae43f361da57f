-------------------------- MODULE SourceDigestProofs --------------------------
(***************************************************************************)
(* Theorems about SourceDigest, for every number of sources, schedulers,   *)
(* requests and workers and every value of the intervals.                  *)
(***************************************************************************)
EXTENDS SourceDigest, TLAPS

Events == [status : {"none", "pending", "processing", "completed", "failed",
                     "expired"},
           owner : Workers \cup {None}, live : BOOLEAN, stored : BOOLEAN,
           result : BOOLEAN]

ScheduleStates == [pc : {"idle", "decide", "insert"},
                   source : Sources \cup {None}, asked : Int]

RequestStates == [pc : {"idle", "insert", "lock", "commit"},
                  source : Sources \cup {None}, asked : Int,
                  answer : {"none", "event", "refused", "failed"}]

Enqueuings == SUBSET [manual : BOOLEAN, asked : Int, at : Int]

(* The variables the locks are about have their shape.                     *)
Shape ==
    /\ now \in Int
    /\ nextAt \in [Sources -> Int]
    /\ enqueued \in [Sources -> Enqueuings]
    /\ event \in [Sources -> Events]
    /\ sched \in [Schedulers -> ScheduleStates]
    /\ trig \in [Triggers -> RequestStates]

(* A transaction of the scheduler is about one source, which was due when  *)
(* it was claimed, and which no other transaction has locked.              *)
RowLocks ==
    /\ \A p \in Schedulers :
         /\ sched[p].pc = "idle" => sched[p].source = None
         /\ sched[p].pc # "idle" => /\ sched[p].source \in Sources
                                    /\ nextAt[sched[p].source] <= now
                                    /\ nextAt[sched[p].source] <= NextAt(sched[p])
    /\ \A p, r \in Schedulers :
         sched[p].source = sched[r].source /\ sched[p].pc # "idle" => p = r
    /\ \A q \in Triggers : trig[q].pc # "idle" => trig[q].source \in Sources
    /\ \A p \in Schedulers, q \in Triggers :
         trig[q].pc = "commit" => sched[p].source # trig[q].source

(* Only an event that is processed has an owner.                           *)
OwnedIsProcessing ==
    \A s \in Sources : event[s].owner # None => event[s].status = "processing"

(* next_summary_at is at least an interval after the last enqueueing.      *)
LastBehind ==
    \A s \in Sources : \A e \in enqueued[s] : e.asked + CronInterval <= nextAt[s]

IInv == /\ Shape
        /\ RowLocks
        /\ OwnedIsProcessing
        /\ LastBehind
        /\ SchedulerInsertsFreely

------------------------------------------------------------------------------
(* The initial state satisfies the inductive invariant.                    *)
LEMMA InitIInv == Init => IInv
<1> USE DigestAssumption
<1> SUFFICES ASSUME Init PROVE IInv
  OBVIOUS
<1>1. Shape
  BY DEF Init, Shape, Events, Enqueuings, ScheduleStates, RequestStates, NoTx,
     NoRequest
<1>2. RowLocks /\ SchedulerInsertsFreely
  BY DEF Init, RowLocks, SchedulerInsertsFreely, NoTx, NoRequest
<1>3. OwnedIsProcessing /\ LastBehind
  BY DEF Init, OwnedIsProcessing, LastBehind
<1> QED
  BY <1>1, <1>2, <1>3 DEF IInv

(* A step that leaves the events, the transactions and next_summary_at     *)
(* alone preserves the invariant, and so does the clock.                   *)
LEMMA Frame ==
    ASSUME IInv, UNCHANGED <<nextAt, enqueued, event, sched, trig>>,
           now' = now \/ (now < MaxTime /\ now' = now + 1)
    PROVE  IInv'
<1> USE DigestAssumption DEF IInv
<1>1. Shape'
  BY DEF Shape
<1>2. RowLocks'
  BY DEF RowLocks, Shape
<1> QED
  BY <1>1, <1>2 DEF OwnedIsProcessing, LastBehind, SchedulerInsertsFreely,
     Active

(* What a step of the events may do: keep their shape, give an owner only  *)
(* to a processed one, and leave an inactive event of a source inactive.   *)
EventStep ==
    /\ event' \in [Sources -> Events]
    /\ OwnedIsProcessing'
    /\ \A s \in Sources : Active(s)' => Active(s)

(* A step of the event pool and the reaper preserves the invariant.        *)
LEMMA FrameEvents ==
    ASSUME IInv, EventStep, UNCHANGED <<now, nextAt, enqueued, sched, trig>>
    PROVE  IInv'
<1> USE DEF IInv
<1>1. Shape'
  BY DEF Shape, EventStep
<1>2. RowLocks' /\ LastBehind'
  BY DEF RowLocks, LastBehind
<1>3. SchedulerInsertsFreely'
  BY DEF SchedulerInsertsFreely, EventStep, RowLocks
<1> QED
  BY <1>1, <1>2, <1>3 DEF EventStep

(* One event is replaced: it is inactive unless it was active before, and  *)
(* has an owner only if it is processed.                                   *)
LEMMA ReplaceEvent ==
    ASSUME IInv, NEW s \in Sources, NEW e \in Events,
           event' = [event EXCEPT ![s] = e],
           e.owner # None => e.status = "processing",
           e.status \in {"pending", "processing"} => Active(s)
    PROVE  EventStep
BY DEF IInv, Shape, EventStep, OwnedIsProcessing, Active

(* An event with one column written anew is an event.                      *)
LEMMA EventFields ==
    ASSUME NEW e \in Events
    PROVE  /\ \A v \in {"none", "pending", "processing", "completed", "failed",
                        "expired"} : [e EXCEPT !.status = v] \in Events
           /\ \A v \in Workers \cup {None} : [e EXCEPT !.owner = v] \in Events
           /\ \A v \in BOOLEAN : /\ [e EXCEPT !.live = v] \in Events
                                 /\ [e EXCEPT !.stored = v] \in Events
                                 /\ [e EXCEPT !.result = v] \in Events
BY DEF Events

------------------------------------------------------------------------------
(* The scheduler.                                                          *)

(* The claim: the source is due, and no transaction has its row.           *)
LEMMA ClaimDueStep ==
    ASSUME IInv, NEW p \in Schedulers, ClaimDueCumulative(p)
    PROVE  IInv'
<1> USE DigestAssumption DEF IInv
<1>1. PICK s \in Sources :
        /\ Due(s) /\ ~RowLocked(s)
        /\ sched' = [sched EXCEPT ![p] = [pc |-> "decide", source |-> s,
                                          asked |-> now]]
  BY DEF ClaimDueCumulative
<1>2. UNCHANGED <<now, nextAt, enqueued, event, trig>>
  BY DEF ClaimDueCumulative, tables
<1>3. Shape'
  BY <1>1, <1>2 DEF Shape, ScheduleStates
<1>4. /\ \A r \in Schedulers : sched[r].source # s
      /\ \A q \in Triggers : trig[q].pc = "commit" => trig[q].source # s
      /\ nextAt[s] <= now /\ nextAt[s] <= now + CronInterval
  BY <1>1 DEF RowLocked, Due, Shape
<1>5. /\ sched'[p] = [pc |-> "decide", source |-> s, asked |-> now]
      /\ \A r \in Schedulers \ {p} : sched'[r] = sched[r]
  BY <1>1 DEF Shape
<1>6. RowLocks'
  BY <1>2, <1>4, <1>5 DEF RowLocks, NextAt
<1>7. OwnedIsProcessing' /\ LastBehind' /\ SchedulerInsertsFreely'
  BY <1>2, <1>5 DEF OwnedIsProcessing, LastBehind, SchedulerInsertsFreely,
     Active
<1> QED
  BY <1>3, <1>6, <1>7

(* A transaction of the scheduler ends: at most the row and the event of   *)
(* its own source change.                                                  *)
LEMMA ScheduleEnds ==
    ASSUME IInv, NEW p \in Schedulers, sched[p].pc # "idle",
           sched' = [sched EXCEPT ![p] = NoTx],
           UNCHANGED <<now, trig>>,
           nextAt' \in [Sources -> Int], enqueued' \in [Sources -> Enqueuings],
           event' \in [Sources -> Events],
           \A s \in Sources \ {sched[p].source} :
               /\ nextAt'[s] = nextAt[s]
               /\ enqueued'[s] = enqueued[s]
               /\ event'[s] = event[s],
           OwnedIsProcessing', LastBehind'
    PROVE  IInv'
<1> USE DigestAssumption DEF IInv
<1>1. Shape'
  BY DEF Shape, NoTx, ScheduleStates
<1>2. /\ sched'[p] = NoTx
      /\ \A r \in Schedulers \ {p} :
           /\ sched'[r] = sched[r]
           /\ sched[r].source # sched[p].source
  BY DEF Shape, RowLocks
<1>3. RowLocks'
  BY <1>2 DEF RowLocks, NoTx
<1>4. SchedulerInsertsFreely'
  BY <1>2 DEF SchedulerInsertsFreely, RowLocks, NoTx, Active
<1> QED
  BY <1>1, <1>3, <1>4

(* A rollback of the scheduler, by an error or as a deadlock victim.       *)
LEMMA ScheduleAborted ==
    ASSUME IInv, NEW p \in Schedulers, sched[p].pc # "idle",
           sched' = [sched EXCEPT ![p] = NoTx],
           UNCHANGED <<now, nextAt, enqueued, event, trig>>
    PROVE  IInv'
<1>1. /\ nextAt' \in [Sources -> Int]
      /\ enqueued' \in [Sources -> Enqueuings]
      /\ event' \in [Sources -> Events]
  BY DEF IInv, Shape
<1>2. OwnedIsProcessing' /\ LastBehind'
  BY DEF IInv, OwnedIsProcessing, LastBehind
<1> QED
  BY <1>1, <1>2, ScheduleEnds

(* maybeEnqueueSourceEvent up to the INSERT, or the bump alone.            *)
LEMMA DecideStep ==
    ASSUME IInv, NEW p \in Schedulers, Decide(p)
    PROVE  IInv'
<1> USE DigestAssumption DEF IInv
<1> DEFINE s == sched[p].source
<1>1. /\ sched[p].pc = "decide" /\ s \in Sources
      /\ sched[p].asked \in Int /\ nextAt[s] <= NextAt(sched[p])
      /\ nextAt \in [Sources -> Int] /\ enqueued \in [Sources -> Enqueuings]
  BY DEF Decide, RowLocks, Shape, ScheduleStates
<1>2. UNCHANGED <<now, enqueued, event, trig>>
  BY DEF Decide
<1>3. CASE /\ ~Active(s)
           /\ sched' = [sched EXCEPT ![p].pc = "insert"]
           /\ UNCHANGED nextAt
  <2>1. Shape'
    BY <1>1, <1>2, <1>3 DEF Shape, ScheduleStates
  <2>2. /\ sched'[p].pc = "insert" /\ sched'[p].source = s
        /\ sched'[p].asked = sched[p].asked
        /\ \A r \in Schedulers \ {p} : sched'[r] = sched[r]
    BY <1>3 DEF Shape, ScheduleStates
  <2>3. RowLocks'
    BY <1>1, <1>2, <1>3, <2>2 DEF RowLocks, NextAt
  <2>4. SchedulerInsertsFreely'
    BY <1>2, <1>3, <2>2 DEF SchedulerInsertsFreely, Active
  <2>5. OwnedIsProcessing' /\ LastBehind'
    BY <1>2, <1>3 DEF OwnedIsProcessing, LastBehind
  <2> QED
    BY <2>1, <2>3, <2>4, <2>5
<1>4. CASE /\ sched' = [sched EXCEPT ![p] = NoTx]
           /\ nextAt' = [nextAt EXCEPT ![s] = NextAt(sched[p])]
  <2>1. /\ nextAt' \in [Sources -> Int] /\ enqueued' \in [Sources -> Enqueuings]
        /\ event' \in [Sources -> Events]
        /\ \A t \in Sources \ {s} : nextAt'[t] = nextAt[t]
    BY <1>1, <1>2, <1>4 DEF Shape, NextAt
  <2>2. OwnedIsProcessing'
    BY <1>2 DEF OwnedIsProcessing
  <2>3. LastBehind'
    BY <1>1, <1>2, <1>4 DEF LastBehind, NextAt, Enqueuings
  <2> QED
    BY <1>1, <1>2, <1>4, <2>1, <2>2, <2>3, ScheduleEnds
<1> QED
  BY <1>3, <1>4 DEF Decide

(* The event a use case inserts: it waits, and nobody has it.              *)
LEMMA EnqueuedStep ==
    ASSUME IInv, NEW s \in Sources, NEW x, NEW manual, Enqueue(s, x, manual)
    PROVE  /\ event' \in [Sources -> Events]
           /\ OwnedIsProcessing'
           /\ \A t \in Sources \ {s} : event'[t] = event[t]
BY DigestAssumption DEF IInv, Shape, Enqueue, Events, OwnedIsProcessing

(* The INSERT and the commit of the scheduler.                             *)
LEMMA EnqueueDueStep ==
    ASSUME IInv, NEW p \in Schedulers, EnqueueDue(p)
    PROVE  IInv'
<1> USE DigestAssumption DEF IInv
<1> DEFINE s == sched[p].source
<1>1. /\ sched[p].pc = "insert" /\ s \in Sources /\ ~Active(s)
      /\ sched[p].asked \in Int /\ nextAt[s] <= NextAt(sched[p])
      /\ nextAt \in [Sources -> Int] /\ enqueued \in [Sources -> Enqueuings]
  BY DEF EnqueueDue, RowLocks, Shape, ScheduleStates, SchedulerInsertsFreely
<1>2. /\ Enqueue(s, sched[p], FALSE) /\ UNCHANGED <<now, trig>>
      /\ nextAt' = [nextAt EXCEPT ![s] = NextAt(sched[p])]
      /\ enqueued' = [enqueued EXCEPT ![s] =
                        {[manual |-> FALSE, asked |-> sched[p].asked, at |-> now]}]
      /\ sched' = [sched EXCEPT ![p] = NoTx]
  BY <1>1 DEF EnqueueDue, Enqueue
<1>3. /\ nextAt' \in [Sources -> Int] /\ enqueued' \in [Sources -> Enqueuings]
      /\ \A t \in Sources \ {s} : /\ nextAt'[t] = nextAt[t]
                                  /\ enqueued'[t] = enqueued[t]
      /\ LastBehind'
  BY <1>1, <1>2 DEF LastBehind, NextAt, Enqueuings, Shape
<1>4. /\ event' \in [Sources -> Events]
      /\ OwnedIsProcessing'
      /\ \A t \in Sources \ {s} : event'[t] = event[t]
  BY <1>1, <1>2, EnqueuedStep
<1> QED
  BY <1>1, <1>2, <1>3, <1>4, ScheduleEnds

(* A failing statement of the scheduler.                                   *)
LEMMA ScheduleFailsStep ==
    ASSUME IInv, NEW p \in Schedulers, ScheduleFails(p)
    PROVE  IInv'
BY ScheduleAborted DEF ScheduleFails, tables

------------------------------------------------------------------------------
(* The trigger.                                                            *)

(* A request takes a step in which it gets no lock on the row.             *)
LEMMA RequestStep ==
    ASSUME IInv, NEW q \in Triggers, NEW t \in RequestStates,
           trig' = [trig EXCEPT ![q] = t],
           t.pc # "commit",
           t.pc # "idle" => t.source \in Sources,
           UNCHANGED <<now, nextAt, enqueued, event, sched>>
    PROVE  IInv'
<1> USE DigestAssumption DEF IInv
<1>1. Shape'
  BY DEF Shape
<1>2. /\ trig'[q] = t
      /\ \A r \in Triggers \ {q} : trig'[r] = trig[r]
  BY DEF Shape
<1>3. RowLocks'
  BY <1>2 DEF RowLocks
<1>4. OwnedIsProcessing' /\ LastBehind' /\ SchedulerInsertsFreely'
  BY DEF OwnedIsProcessing, LastBehind, SchedulerInsertsFreely, Active
<1> QED
  BY <1>1, <1>3, <1>4

(* A request ends.                                                         *)
LEMMA AnswerStep ==
    ASSUME IInv, NEW q \in Triggers,
           NEW answer \in {"none", "event", "refused", "failed"},
           Answer(q, answer), UNCHANGED <<now, nextAt, enqueued, event, sched>>
    PROVE  IInv'
<1> DEFINE t == [NoRequest EXCEPT !.answer = answer]
<1>1. t \in RequestStates /\ t.pc = "idle"
  BY DEF NoRequest, RequestStates
<1>2. trig' = [trig EXCEPT ![q] = t]
  BY DEF Answer
<1> HIDE DEF t
<1> QED
  BY <1>1, <1>2, RequestStep

(* The look for an active event.                                           *)
LEMMA AskStep ==
    ASSUME IInv, NEW q \in Triggers, Ask(q)
    PROVE  IInv'
<1> USE DigestAssumption
<1>1. PICK s \in Sources :
        trig' = [trig EXCEPT ![q] =
                   IF Active(s)
                   THEN [NoRequest EXCEPT !.answer = "event"]
                   ELSE [pc |-> "insert", source |-> s,
                         asked |-> now, answer |-> "none"]]
  BY DEF Ask
<1>2. UNCHANGED <<now, nextAt, enqueued, event, sched>>
  BY DEF Ask, tables
<1>3. CASE Active(s)
  <2>1. Answer(q, "event")
    BY <1>1, <1>3 DEF Answer
  <2> QED
    BY <1>2, <2>1, AnswerStep
<1>4. CASE ~Active(s)
  <2> DEFINE t == [pc |-> "insert", source |-> s, asked |-> now,
                   answer |-> "none"]
  <2>1. t \in RequestStates /\ t.pc = "insert" /\ t.source = s
    BY DEF RequestStates, IInv, Shape
  <2>2. trig' = [trig EXCEPT ![q] = t]
    BY <1>1, <1>4
  <2> HIDE DEF t
  <2> QED
    BY <1>2, <2>1, <2>2, RequestStep
<1> QED
  BY <1>3, <1>4

(* The INSERT of the trigger.                                              *)
LEMMA TriggerInsertStep ==
    ASSUME IInv, NEW q \in Triggers, TriggerInsert(q)
    PROVE  IInv'
<1>1. UNCHANGED <<now, nextAt, enqueued, event, sched>>
  BY DEF TriggerInsert, tables
<1>2. CASE Answer(q, "refused")
  BY <1>1, <1>2, AnswerStep
<1>3. CASE trig' = [trig EXCEPT ![q].pc = "lock"]
  <2> DEFINE t == [trig[q] EXCEPT !.pc = "lock"]
  <2>1. t \in RequestStates /\ t.pc = "lock" /\ t.source \in Sources
    BY DEF TriggerInsert, IInv, Shape, RowLocks, RequestStates
  <2>2. trig' = [trig EXCEPT ![q] = t]
    BY <1>3
  <2> HIDE DEF t
  <2> QED
    BY <1>1, <2>1, <2>2, RequestStep
<1> QED
  BY <1>2, <1>3 DEF TriggerInsert

(* The row lock of the foreign key: no scheduler has the row.              *)
LEMMA TriggerLockStep ==
    ASSUME IInv, NEW q \in Triggers, TriggerLock(q)
    PROVE  IInv'
<1> USE DigestAssumption DEF IInv
<1>1. UNCHANGED <<now, nextAt, enqueued, event, sched>>
  BY DEF TriggerLock, tables
<1>2. /\ trig[q].source \in Sources
      /\ \A p \in Schedulers : sched[p].source # trig[q].source
  BY DEF TriggerLock, RowLocks, RowLocked
<1>3. Shape' /\ trig'[q].source = trig[q].source
  BY <1>1 DEF TriggerLock, Shape, RequestStates
<1>4. \A r \in Triggers \ {q} : trig'[r] = trig[r]
  BY DEF TriggerLock, Shape
<1>5. RowLocks'
  BY <1>1, <1>2, <1>3, <1>4 DEF RowLocks
<1>6. OwnedIsProcessing' /\ LastBehind' /\ SchedulerInsertsFreely'
  BY <1>1 DEF OwnedIsProcessing, LastBehind, SchedulerInsertsFreely, Active
<1> QED
  BY <1>3, <1>5, <1>6

(* The bump and the commit of the trigger.                                 *)
LEMMA TriggerCommitStep ==
    ASSUME IInv, NEW q \in Triggers, TriggerCommit(q)
    PROVE  IInv'
<1> USE DigestAssumption DEF IInv
<1> DEFINE s == trig[q].source
<1>1. /\ s \in Sources /\ trig[q].asked \in Int
      /\ \A p \in Schedulers : sched[p].source # s
      /\ Enqueue(s, trig[q], TRUE) /\ Answer(q, "event") /\ UNCHANGED <<now, sched>>
      /\ nextAt' = [nextAt EXCEPT ![s] = NextAt(trig[q])]
      /\ enqueued' = [enqueued EXCEPT ![s] =
                        {[manual |-> TRUE, asked |-> trig[q].asked, at |-> now]}]
  BY DEF TriggerCommit, Enqueue, RowLocks, Shape, RequestStates
<1>2. /\ event' \in [Sources -> Events]
      /\ OwnedIsProcessing'
      /\ \A t \in Sources \ {s} : event'[t] = event[t]
  BY <1>1, EnqueuedStep
<1>3. /\ trig' \in [Triggers -> RequestStates]
      /\ trig'[q].pc = "idle"
      /\ \A r \in Triggers \ {q} : trig'[r] = trig[r]
  BY <1>1 DEF Answer, Shape, RequestStates, NoRequest
<1>4. /\ nextAt' \in [Sources -> Int] /\ enqueued' \in [Sources -> Enqueuings]
      /\ \A t \in Sources \ {s} : nextAt'[t] = nextAt[t]
      /\ LastBehind'
  BY <1>1 DEF LastBehind, NextAt, Enqueuings, Shape
<1>5. Shape'
  BY <1>1, <1>2, <1>3, <1>4 DEF Shape
<1>6. RowLocks'
  BY <1>1, <1>3, <1>4 DEF RowLocks
<1>7. SchedulerInsertsFreely'
  BY <1>1, <1>2 DEF SchedulerInsertsFreely, RowLocks, Active
<1> QED
  BY <1>2, <1>4, <1>5, <1>6, <1>7

(* A failing statement of the trigger.                                     *)
LEMMA TriggerFailsStep ==
    ASSUME IInv, NEW q \in Triggers, TriggerFails(q)
    PROVE  IInv'
BY AnswerStep DEF TriggerFails, tables

(* PostgreSQL aborts one of two transactions.                              *)
LEMMA DeadlockStep ==
    ASSUME IInv, NEW p \in Schedulers, NEW q \in Triggers, Deadlock(p, q)
    PROVE  IInv'
<1>1. UNCHANGED <<now, nextAt, enqueued, event>> /\ sched[p].pc # "idle"
  BY DEF Deadlock, tables
<1>2. CASE sched' = [sched EXCEPT ![p] = NoTx] /\ UNCHANGED trig
  BY <1>1, <1>2, ScheduleAborted
<1>3. CASE Answer(q, "refused") /\ UNCHANGED sched
  BY <1>1, <1>3, AnswerStep
<1> QED
  BY <1>2, <1>3 DEF Deadlock

------------------------------------------------------------------------------
(* The events.                                                             *)

(* A claim takes an active event.                                          *)
LEMMA ClaimStep ==
    ASSUME IInv, NEW w \in Workers, Claim(w)
    PROVE  IInv'
<1>1. PICK s \in Sources :
        /\ Active(s)
        /\ event' = [event EXCEPT ![s].status = "processing",
                                  ![s].owner = w, ![s].live = TRUE]
  BY DEF Claim
<1> DEFINE a == [event[s] EXCEPT !.status = "processing"]
           b == [a EXCEPT !.owner = w]
           c == [b EXCEPT !.live = TRUE]
<1>2. event[s] \in Events
  BY DEF IInv, Shape
<1>3. a \in Events
  BY <1>2, EventFields
<1>4. b \in Events
  BY <1>3, EventFields
<1>5. c \in Events
  BY <1>4, EventFields
<1>6. c.status = "processing"
  BY <1>2 DEF Events
<1>7. event' = [event EXCEPT ![s] = c]
  BY <1>1
<1> HIDE DEF a, b, c
<1>8. EventStep
  BY <1>1, <1>5, <1>6, <1>7, ReplaceEvent
<1> QED
  BY <1>8, FrameEvents DEF Claim

(* The end of a lease changes no status.                                   *)
LEMMA LeaseRunsOutStep ==
    ASSUME IInv, NEW s \in Sources, LeaseRunsOut(s)
    PROVE  IInv'
<1> DEFINE a == [event[s] EXCEPT !.live = FALSE]
<1>1. event[s] \in Events
  BY DEF IInv, Shape
<1>2. a \in Events
  BY <1>1, EventFields
<1>3. a.status = event[s].status /\ a.owner = event[s].owner
  BY <1>1 DEF Events
<1>4. event' = [event EXCEPT ![s] = a]
  BY DEF LeaseRunsOut
<1> HIDE DEF a
<1>5. EventStep
  BY <1>2, <1>3, <1>4, ReplaceEvent DEF IInv, OwnedIsProcessing, Active
<1> QED
  BY <1>5, FrameEvents DEF LeaseRunsOut, processes

(* The reaper ends an event.                                               *)
LEMMA ReapStep ==
    ASSUME IInv, NEW s \in Sources, Reap(s)
    PROVE  IInv'
<1> DEFINE a == [event[s] EXCEPT !.status = "failed"]
           b == [a EXCEPT !.owner = None]
<1>1. event[s] \in Events
  BY DEF IInv, Shape
<1>2. a \in Events
  BY <1>1, EventFields
<1>3. b \in Events
  BY <1>2, EventFields
<1>4. b.status = "failed" /\ b.owner = None
  BY <1>1 DEF Events
<1>5. event' = [event EXCEPT ![s] = b]
  BY DEF Reap
<1> HIDE DEF a, b
<1>6. EventStep
  BY <1>3, <1>4, <1>5, ReplaceEvent
<1> QED
  BY <1>6, FrameEvents DEF Reap, processes

(* A worker writes a verdict only on an event it owns.                     *)
LEMMA OwnerIsActive ==
    ASSUME IInv, NEW w \in Workers, NEW s \in Sources, event[s].owner = w
    PROVE  Active(s)
BY DigestAssumption DEF IInv, OwnedIsProcessing, Active

(* A step that leaves the events alone.                                    *)
LEMMA SameEvents ==
    ASSUME IInv, UNCHANGED event
    PROVE  EventStep
BY DEF IInv, Shape, EventStep, OwnedIsProcessing, Active

(* The digest is saved; the status of the event stays.                     *)
LEMMA SaveStep ==
    ASSUME IInv, NEW w \in Workers, Save(w)
    PROVE  IInv'
<1> DEFINE s == run[w].source
<1>1. event' = [event EXCEPT ![s].stored = @ \/ event[s].owner = w]
  BY DEF Save
<1>2. CASE s \in Sources
  <2> DEFINE v == event[s].stored \/ event[s].owner = w
             a == [event[s] EXCEPT !.stored = v]
  <2>1. event[s] \in Events
    BY <1>2 DEF IInv, Shape
  <2>2. v \in BOOLEAN
    BY <2>1 DEF Events
  <2>3. event' = [event EXCEPT ![s] = a]
    BY <1>1
  <2> HIDE DEF v
  <2>4. /\ a \in Events
        /\ a.status = event[s].status /\ a.owner = event[s].owner
    BY <2>1, <2>2, EventFields DEF Events
  <2> HIDE DEF a
  <2> QED
    <3>1. EventStep
      BY <1>2, <2>3, <2>4, ReplaceEvent DEF IInv, OwnedIsProcessing, Active
    <3> QED
      BY <3>1, FrameEvents DEF Save
<1>3. CASE s \notin Sources
  <2>1. event' = event
    BY <1>1, <1>3 DEF IInv, Shape
  <2> QED
    BY <2>1, SameEvents, FrameEvents DEF Save
<1> QED
  BY <1>2, <1>3

(* The verdict, or the retry, of a run.                                    *)
LEMMA FinalizeStep ==
    ASSUME IInv, NEW w \in Workers, Finalize(w)
    PROVE  IInv'
<1> DEFINE s == run[w].source
<1>1. PICK status \in {"pending", "failed", "completed"} :
        event' = IF event[s].owner = w /\ event[s].live
                 THEN [event EXCEPT ![s] = [event[s] EXCEPT
                         !.status = status, !.owner = None, !.live = FALSE,
                         !.result = run[w].pc = "saved"]]
                 ELSE event
  BY DEF Finalize
<1>2. CASE s \in Sources /\ event[s].owner = w /\ event[s].live
  <2> DEFINE v == run[w].pc = "saved"
             a == [event[s] EXCEPT !.status = status]
             b == [a EXCEPT !.owner = None]
             c == [b EXCEPT !.live = FALSE]
             d == [c EXCEPT !.result = v]
  <2>1. event[s] \in Events /\ v \in BOOLEAN
    BY <1>2 DEF IInv, Shape
  <2>2. a \in Events
    BY <2>1, EventFields
  <2>3. b \in Events
    BY <2>2, EventFields
  <2>4. c \in Events
    BY <2>3, EventFields
  <2>5. d \in Events
    BY <2>1, <2>4, EventFields
  <2>6. d.owner = None
    BY <2>1 DEF Events
  <2>7. event' = [event EXCEPT ![s] = d]
    BY <1>1, <1>2
  <2> HIDE DEF a, b, c, d, v
  <2>8. EventStep
    BY <1>2, <2>5, <2>6, <2>7, ReplaceEvent, OwnerIsActive
  <2> QED
    BY <2>8, FrameEvents DEF Finalize
<1>3. CASE ~(s \in Sources /\ event[s].owner = w /\ event[s].live)
  <2>1. event' = event
    BY <1>1, <1>3 DEF IInv, Shape
  <2> QED
    BY <2>1, SameEvents, FrameEvents DEF Finalize
<1> QED
  BY <1>2, <1>3

(* The verdict on an event past its TTL.                                   *)
LEMMA ExpireStep ==
    ASSUME IInv, NEW w \in Workers, Expire(w)
    PROVE  IInv'
<1> DEFINE s == run[w].source
<1>1. event' = IF event[s].owner = w /\ event[s].live
               THEN [event EXCEPT ![s].status = "expired",
                                  ![s].owner = None, ![s].live = FALSE]
               ELSE event
  BY DEF Expire
<1>2. CASE s \in Sources /\ event[s].owner = w /\ event[s].live
  <2> DEFINE a == [event[s] EXCEPT !.status = "expired"]
             b == [a EXCEPT !.owner = None]
             c == [b EXCEPT !.live = FALSE]
  <2>1. event[s] \in Events
    BY <1>2 DEF IInv, Shape
  <2>2. a \in Events
    BY <2>1, EventFields
  <2>3. b \in Events
    BY <2>2, EventFields
  <2>4. c \in Events
    BY <2>3, EventFields
  <2>5. c.owner = None
    BY <2>1 DEF Events
  <2>6. event' = [event EXCEPT ![s] = c]
    BY <1>1, <1>2
  <2> HIDE DEF a, b, c
  <2>7. EventStep
    BY <1>2, <2>4, <2>5, <2>6, ReplaceEvent, OwnerIsActive
  <2> QED
    BY <2>7, FrameEvents DEF Expire
<1>3. CASE ~(s \in Sources /\ event[s].owner = w /\ event[s].live)
  <2>1. event' = event
    BY <1>1, <1>3 DEF IInv, Shape
  <2> QED
    BY <2>1, SameEvents, FrameEvents DEF Expire
<1> QED
  BY <1>2, <1>3

------------------------------------------------------------------------------
(* Every step preserves the inductive invariant.                           *)
LEMMA NextIInv == IInv /\ [Next]_vars => IInv'
<1> SUFFICES ASSUME IInv, [Next]_vars PROVE IInv'
  OBVIOUS
<1>1. CASE Tick \/ UNCHANGED vars
  BY <1>1, Frame DEF Tick, tables, processes, vars
<1>2. ASSUME NEW p \in Posts, StampPost(p) \/ CommitPost(p) PROVE IInv'
  BY <1>2, Frame DEF StampPost, CommitPost, tables, processes
<1>3. ASSUME NEW p \in Schedulers, Scheduler(p) \/ ScheduleFails(p) PROVE IInv'
  BY <1>3, ClaimDueStep, DecideStep, EnqueueDueStep, ScheduleFailsStep
     DEF Scheduler
<1>4. ASSUME NEW q \in Triggers, Trigger(q) PROVE IInv'
  BY <1>4, AskStep, TriggerInsertStep, TriggerLockStep, TriggerCommitStep,
     TriggerFailsStep DEF Trigger
<1>5. ASSUME NEW p \in Schedulers, NEW q \in Triggers, Deadlock(p, q) PROVE IInv'
  BY <1>5, DeadlockStep
<1>6. ASSUME NEW s \in Sources, LeaseRunsOut(s) \/ Reap(s) PROVE IInv'
  BY <1>6, LeaseRunsOutStep, ReapStep
<1>7. ASSUME NEW w \in Workers, Claim(w) \/ Finalize(w) \/ Expire(w) \/ Save(w)
      PROVE  IInv'
  BY <1>7, ClaimStep, FinalizeStep, ExpireStep, SaveStep
<1>8. ASSUME NEW w \in Workers,
             Begin(w) \/ Collect(w) \/ Generate(w) \/ Abandon(w)
      PROVE  IInv'
  BY <1>8, Frame DEF Begin, Collect, Generate, Abandon, tables
<1> QED
  BY <1>1, <1>2, <1>3, <1>4, <1>5, <1>6, <1>7, <1>8 DEF Next, ProcessSourceEvent

(* The inductive invariant holds in every reachable state.                 *)
LEMMA Invariance == Spec => []IInv
BY InitIInv, NextIInv, PTL DEF Spec

(* However many schedulers and requests there are, the scheduler's INSERT  *)
(* never meets the unique index: the lock on the row of the source it      *)
(* claimed keeps every other transaction from committing an event.         *)
THEOREM InsertsFreely == Spec => []SchedulerInsertsFreely
<1>1. IInv => SchedulerInsertsFreely
  BY DEF IInv
<1> QED
  BY <1>1, Invariance, PTL

(* Whatever the order of ticks and requests, when the scheduler goes to    *)
(* enqueue an event the transaction that enqueued the last one, by itself  *)
(* or by hand, read its clock a cron interval ago or more (FM-06, OQ-02):  *)
(* every enqueueing sets next_summary_at to an interval after its reading, *)
(* and a bump without an event only moves it on.                           *)
THEOREM KeepsApart == Spec => []ScheduledApart
<1>1. ASSUME IInv, NEW p \in Schedulers, sched[p].pc = "insert",
             NEW e \in enqueued[sched[p].source]
      PROVE  e.asked + CronInterval <= now
  <2>1. sched[p].source \in Sources /\ nextAt[sched[p].source] <= now
    BY <1>1 DEF IInv, RowLocks
  <2>2. e.asked + CronInterval <= nextAt[sched[p].source]
    BY <1>1, <2>1 DEF IInv, LastBehind
  <2>3. e.asked \in Int /\ now \in Int /\ nextAt[sched[p].source] \in Int
    BY <1>1, <2>1 DEF IInv, Shape, Enqueuings
  <2> QED
    BY <2>1, <2>2, <2>3, DigestAssumption
<1>2. IInv => ScheduledApart
  BY <1>1 DEF ScheduledApart
<1> QED
  BY <1>2, Invariance, PTL

===============================================================================
