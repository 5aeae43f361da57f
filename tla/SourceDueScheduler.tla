-------------------------- MODULE SourceDueScheduler --------------------------
(***************************************************************************)
(* The rounds of SourceDueScheduler under a clock that never stops: who is *)
(* served when some due sources have no posts, and when requests by hand,  *)
(* failing statements and PostgreSQL's deadlocks come in between.          *)
(*                                                                         *)
(* The transactions are those of SourceDigest. Of the digests only what    *)
(* the scheduler reads is kept: whether a source has an active event, and  *)
(* whether it has posts that no digest covers.                             *)
(*                                                                         *)
(* Every time is relative to the clock. The code compares a time with the  *)
(* clock and, when it is past, with other times, so of the past only the   *)
(* order is kept: Tick counts the past times down to 0, -1, -2 without     *)
(* gaps. That leaves finitely many states and needs no bound on the clock. *)
(***************************************************************************)
EXTENDS Integers, FiniteSets

CONSTANTS
    Sources,       \* sources of type telegram_group
    Schedulers,    \* processes that run SourceDueScheduler
    Triggers,      \* clients that request summaries by hand, again and again
    None,          \* no source
    CronInterval,  \* summary.cron.interval
    MaxFaults      \* bound of the model on the statements that fail

ASSUME DueAssumption ==
    /\ IsFiniteSet(Sources) /\ IsFiniteSet(Schedulers) /\ IsFiniteSet(Triggers)
    /\ None \notin Sources
    /\ CronInterval \in Nat \ {0}
    /\ MaxFaults \in Nat

VARIABLES
    nextAt,   \* nextAt[s]: next_summary_at, or created_at while it is NULL
    active,   \* active[s]: s has a pending or processing event
    fresh,    \* fresh[s]: s has a post since its last digest
    sched,    \* sched[p]: the loop of a scheduler and its transaction
    trig,     \* trig[q]: the call of TriggerSourceSummarize
    faults    \* how many statements have failed

vars == <<nextAt, active, fresh, sched, trig, faults>>

------------------------------------------------------------------------------
Asleep == [pc |-> "asleep", source |-> None, next |-> 0]
Drains == [pc |-> "claim", source |-> None, next |-> 0]
NoCall == [pc |-> "idle", source |-> None, next |-> 0]

(* The row of s is locked by a transaction, or the index entry of s is.    *)
RowLocked(s) ==
    \/ \E p \in Schedulers : sched[p].source = s
    \/ \E q \in Triggers : trig[q].source = s /\ trig[q].pc = "commit"
IndexLocked(s) ==
    \E q \in Triggers : trig[q].source = s /\ trig[q].pc \in {"lock", "commit"}

(* A new source has next_summary_at NULL: it is due from its creation on.  *)
Init ==
    /\ nextAt \in [Sources -> 1 - Cardinality(Sources) .. 0]
    /\ active = [s \in Sources |-> FALSE]
    /\ fresh = [s \in Sources |-> FALSE]
    /\ sched = [p \in Schedulers |-> Asleep]
    /\ trig = [q \in Triggers |-> NoCall]
    /\ faults = 0

------------------------------------------------------------------------------
(* The environment.                                                        *)

(* The times of the rows, and those that transactions are going to write.  *)
Pending ==
    { nextAt[s] : s \in Sources }
      \cup { sched[p].next : p \in { x \in Schedulers : sched[x].source # None } }
      \cup { trig[q].next : q \in { x \in Triggers : trig[x].source # None } }

(* A unit of time passes for the time t.                                   *)
Passed(t) == IF t > 1 THEN t - 1
             ELSE 0 - Cardinality({ u \in Pending : t < u /\ u <= 1 })

Tick ==
    /\ nextAt' = [s \in Sources |-> Passed(nextAt[s])]
    /\ sched' = [p \in Schedulers |->
                   IF sched[p].source = None THEN sched[p]
                   ELSE [sched[p] EXCEPT !.next = Passed(@)]]
    /\ trig' = [q \in Triggers |->
                  IF trig[q].source = None THEN trig[q]
                  ELSE [trig[q] EXCEPT !.next = Passed(@)]]
    /\ UNCHANGED <<active, fresh, faults>>

(* PostUsecase.Create commits a post of s.                                 *)
PostComes(s) ==
    /\ fresh' = [fresh EXCEPT ![s] = TRUE]
    /\ UNCHANGED <<nextAt, active, sched, trig, faults>>

(* The event of s leaves the queue; its digest, if it made one, may cover  *)
(* all posts that have come.                                               *)
EventEnds(s) ==
    /\ active[s]
    /\ active' = [active EXCEPT ![s] = FALSE]
    /\ \E left \in {fresh[s], FALSE} : fresh' = [fresh EXCEPT ![s] = left]
    /\ UNCHANGED <<nextAt, sched, trig, faults>>

------------------------------------------------------------------------------
(* The scheduler: run, tick and ScheduleNextCumulative.                    *)

Ends(p) == sched' = [sched EXCEPT ![p] = Asleep]

(* time.After(pollInterval)                                                *)
Wake(p) ==
    /\ sched[p].pc = "asleep"
    /\ sched' = [sched EXCEPT ![p] = Drains]
    /\ UNCHANGED <<nextAt, active, fresh, trig, faults>>

Claimable == { s \in Sources : nextAt[s] <= 0 /\ ~RowLocked(s) }

(* Mutant: no ORDER BY next_summary_at.                                    *)
ClaimAnyDue(p) ==
    /\ sched[p].pc = "claim"
    /\ IF Claimable = {} THEN Ends(p)
       ELSE \E s \in Claimable :
              sched' = [sched EXCEPT ![p] = [pc |-> "decide", source |-> s,
                                             next |-> CronInterval]]
    /\ UNCHANGED <<nextAt, active, fresh, trig, faults>>

(* The longest due source that nobody has locked, or the end of the round. *)
ClaimDueCumulative(p) ==
    /\ sched[p].pc = "claim"
    /\ IF Claimable = {} THEN Ends(p)
       ELSE \E s \in Claimable :
              /\ \A t \in Claimable : nextAt[s] <= nextAt[t]
              /\ sched' = [sched EXCEPT ![p] = [pc |-> "decide", source |-> s,
                                                next |-> CronInterval]]
    /\ UNCHANGED <<nextAt, active, fresh, trig, faults>>

(* maybeEnqueueSourceEvent, up to its INSERT.                              *)
Decide(p) ==
    /\ sched[p].pc = "decide"
    /\ LET s == sched[p].source IN
         sched' = [sched EXCEPT ![p].pc =
                     IF ~active[s] /\ fresh[s] THEN "insert" ELSE "skip"]
    /\ UNCHANGED <<nextAt, active, fresh, trig, faults>>

(* Mutant: the bump adds the interval to what the claim returned.          *)
SkipBumpsTwice(p) ==
    /\ sched[p].pc = "skip"
    /\ nextAt' = [nextAt EXCEPT ![sched[p].source] =
                     sched[p].next + CronInterval]
    /\ Ends(p)
    /\ UNCHANGED <<active, fresh, trig, faults>>

(* Only the bump is committed, and the round is over.                      *)
Skip(p) ==
    /\ sched[p].pc = "skip"
    /\ nextAt' = [nextAt EXCEPT ![sched[p].source] = sched[p].next]
    /\ Ends(p)
    /\ UNCHANGED <<active, fresh, trig, faults>>

(* Mutant: the INSERT goes through the shared client, so its foreign key    *)
(* waits for the lock of the scheduler's own transaction.                  *)
EnqueueDueElsewhere(p) ==
    /\ sched[p].pc = "insert"
    /\ LET s == sched[p].source IN
         /\ ~IndexLocked(s) /\ ~RowLocked(s)
         /\ sched' = [sched EXCEPT ![p] = Drains]
         /\ active' = [active EXCEPT ![s] = TRUE]
         /\ nextAt' = [nextAt EXCEPT ![s] = sched[p].next]
    /\ UNCHANGED <<fresh, trig, faults>>

(* The INSERT and the commit; the round goes on. A unique violation aborts *)
(* the transaction, the bump included, and ends the round.                 *)
EnqueueDue(p) ==
    /\ sched[p].pc = "insert"
    /\ LET s == sched[p].source IN
         /\ ~IndexLocked(s)
         /\ IF active[s] THEN Ends(p) /\ UNCHANGED <<nextAt, active>>
            ELSE /\ sched' = [sched EXCEPT ![p] = Drains]
                 /\ active' = [active EXCEPT ![s] = TRUE]
                 /\ nextAt' = [nextAt EXCEPT ![s] = sched[p].next]
    /\ UNCHANGED <<fresh, trig, faults>>

(* A statement fails: rollback, and an error ends the round.               *)
ScheduleFails(p) ==
    /\ faults < MaxFaults
    /\ sched[p].pc # "asleep"
    /\ Ends(p)
    /\ faults' = faults + 1
    /\ UNCHANGED <<nextAt, active, fresh, trig>>

------------------------------------------------------------------------------
(* The trigger: TriggerSourceSummarize.                                    *)

Answered(q) == trig' = [trig EXCEPT ![q] = NoCall]

(* With an active event the request is answered at once.                   *)
Ask(q) ==
    /\ trig[q] = NoCall
    /\ \E s \in Sources :
         /\ ~active[s]
         /\ trig' = [trig EXCEPT ![q] = [pc |-> "insert", source |-> s,
                                         next |-> CronInterval]]
    /\ UNCHANGED <<nextAt, active, fresh, sched, faults>>

TriggerInsert(q) ==
    /\ trig[q].pc = "insert"
    /\ ~IndexLocked(trig[q].source)
    /\ IF active[trig[q].source] THEN Answered(q)
       ELSE trig' = [trig EXCEPT ![q].pc = "lock"]
    /\ UNCHANGED <<nextAt, active, fresh, sched, faults>>

(* The foreign key of the inserted event locks the row of the source.      *)
TriggerLock(q) ==
    /\ trig[q].pc = "lock"
    /\ ~RowLocked(trig[q].source)
    /\ trig' = [trig EXCEPT ![q].pc = "commit"]
    /\ UNCHANGED <<nextAt, active, fresh, sched, faults>>

TriggerCommit(q) ==
    /\ trig[q].pc = "commit"
    /\ active' = [active EXCEPT ![trig[q].source] = TRUE]
    /\ nextAt' = [nextAt EXCEPT ![trig[q].source] = trig[q].next]
    /\ Answered(q)
    /\ UNCHANGED <<fresh, sched, faults>>

TriggerFails(q) ==
    /\ faults < MaxFaults
    /\ trig[q].pc # "idle"
    /\ Answered(q)
    /\ faults' = faults + 1
    /\ UNCHANGED <<nextAt, active, fresh, sched>>

(* The scheduler holds the row and waits for the index entry, the trigger  *)
(* holds the entry and waits for the row: PostgreSQL aborts one of them.   *)
Deadlock(p, q) ==
    /\ sched[p].pc = "insert"
    /\ trig[q].pc = "lock"
    /\ sched[p].source = trig[q].source
    /\ \/ Ends(p) /\ UNCHANGED trig
       \/ Answered(q) /\ UNCHANGED sched
    /\ UNCHANGED <<nextAt, active, fresh, faults>>

------------------------------------------------------------------------------
ScheduleNextCumulative(p) ==
    ClaimDueCumulative(p) \/ Decide(p) \/ Skip(p) \/ EnqueueDue(p)

TriggerSourceSummarize(q) ==
    TriggerInsert(q) \/ TriggerLock(q) \/ TriggerCommit(q)

Next ==
    \/ Tick
    \/ \E s \in Sources : PostComes(s) \/ EventEnds(s)
    \/ \E p \in Schedulers :
         Wake(p) \/ ScheduleNextCumulative(p) \/ ScheduleFails(p)
    \/ \E q \in Triggers :
         Ask(q) \/ TriggerSourceSummarize(q) \/ TriggerFails(q)
    \/ \E p \in Schedulers, q \in Triggers : Deadlock(p, q)

(* The clock goes on, a scheduler wakes up after every sleep, a statement  *)
(* that waits for nothing returns, and PostgreSQL finds a deadlock; either *)
(* side may lose each of them. When the transaction that a statement waits *)
(* for ends, PostgreSQL wakes the statement up: others may take the lock   *)
(* of a source before it, but not each time (SF). Nobody has to send a     *)
(* request, to write a post or to end an event.                            *)
Fairness ==
    /\ WF_vars(Tick)
    /\ \A p \in Schedulers : /\ WF_vars(Wake(p))
                             /\ WF_vars(ScheduleNextCumulative(p))
    /\ \A q \in Triggers : WF_vars(TriggerSourceSummarize(q))
    /\ \A p \in Schedulers, q \in Triggers : WF_vars(Deadlock(p, q))
    /\ \A s \in Sources :
         /\ \A p \in Schedulers : SF_vars(sched[p].source = s /\ EnqueueDue(p))
         /\ \A q \in Triggers : SF_vars(trig[q].source = s /\ TriggerLock(q))

Spec == Init /\ [][Next]_vars /\ Fairness

------------------------------------------------------------------------------
(* Properties.                                                             *)

(* Each source and each transaction has one time.                          *)
Times == 0 - Cardinality(Sources) - Cardinality(Schedulers)
           - Cardinality(Triggers) .. CronInterval

(* Every variable keeps its shape, and no time is further ahead than one   *)
(* interval of the scheduler.                                              *)
TypeOK ==
    /\ nextAt \in [Sources -> Times]
    /\ active \in [Sources -> BOOLEAN]
    /\ fresh \in [Sources -> BOOLEAN]
    /\ sched \in [Schedulers ->
         [pc : {"asleep", "claim", "decide", "insert", "skip"},
          source : Sources \cup {None}, next : Times]]
    /\ trig \in [Triggers -> [pc : {"idle", "insert", "lock", "commit"},
                              source : Sources \cup {None}, next : Times]]
    /\ faults \in 0 .. MaxFaults

(* No source starves: one that has posts gets an event, however often due  *)
(* sources without posts end the rounds of the schedulers before it, and   *)
(* whoever loses the deadlocks between schedulers and requests.            *)
PostsGetAnEvent ==
    \A s \in Sources : (fresh[s] /\ ~active[s]) ~> (active[s] \/ ~fresh[s])

(* A scheduler that waits for the event a request has inserted gets on:    *)
(* the request commits, is rolled back, or loses the deadlock.             *)
SchedulerGetsOn ==
    \A p \in Schedulers : (sched[p].pc = "insert") ~> (sched[p].pc # "insert")

===============================================================================
