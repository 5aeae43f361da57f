----------------------------- MODULE SourceDigest -----------------------------
(***************************************************************************)
(* Digests of cumulative sources: the scheduler that enqueues a            *)
(* summarize_source event when next_summary_at is due, the trigger of the  *)
(* API that does the same by hand, and the handler that digests the posts  *)
(* between the last digest and now.                                        *)
(*                                                                         *)
(* The lease protocol of the events is SummaryOutbox's. Here a worker      *)
(* claims an event that waits, or one whose lease is over, and only the    *)
(* worker that claimed it last can write its status.                       *)
(*                                                                         *)
(* Two locks of PostgreSQL order the transactions: that of the sources row *)
(* (FOR UPDATE by the scheduler; FOR KEY SHARE by the foreign key of an    *)
(* inserted event, then the UPDATE of the bump), and that of the entry in  *)
(* the unique index of active events, which makes a second INSERT wait for *)
(* the end of the transaction of the first. Both are held to the end of    *)
(* the transaction, so they follow from where the transactions are.        *)
(***************************************************************************)
EXTENDS Integers, FiniteSets

CONSTANTS
    Sources,       \* sources of type telegram_group
    Posts,         \* the posts that may come
    SourceOf,      \* posts.source_id
    Schedulers,    \* processes that run SourceDueScheduler
    Triggers,      \* the requests by hand that come, each of them once
    Workers,       \* workers of the event pool
    None,          \* no source, no worker
    CronInterval,  \* summary.cron.interval
    MaxWindow,     \* summary.cumulative.max_window
    MaxTime        \* bound of the model on the clock

ASSUME DigestAssumption ==
    /\ SourceOf \in [Posts -> Sources]
    /\ None \notin Sources \cup Workers
    /\ CronInterval \in Nat \ {0}
    /\ MaxWindow \in Nat \ {0}
    /\ MaxTime \in Nat

VARIABLES
    now,         \* the clock
    nextAt,      \* nextAt[s]: sources.next_summary_at; 0 is NULL
    event,       \* event[s]: the newest summarize_source event of s
    post,        \* post[p]: its created_at, and whether it is committed
    digests,     \* digests[s]: the summaries of s that have no post, each
                 \* with its posts and those of its window it left out
    sched,       \* sched[p]: the transaction of ScheduleNextCumulative
    trig,        \* trig[q]: the call of TriggerSourceSummarize
    run,         \* run[w]: the call of ProcessSourceEvent
    enqueued,    \* history: enqueued[s]: the last transaction that enqueued
                 \* an event of s: whether it was that of a request by
                 \* hand, when it read its clock, and when it committed
    overlapped   \* history: sources claimed while an older run went on

tables    == <<nextAt, event, digests, enqueued>>
processes == <<sched, trig, run>>
vars == <<now, nextAt, event, post, digests, sched, trig, run,
          enqueued, overlapped>>

------------------------------------------------------------------------------
Active(s) == event[s].status \in {"pending", "processing"}

NoRun     == [pc |-> "idle", source |-> None, from |-> 0, to |-> 0,
              posts |-> {}, left |-> {}]
NoTx      == [pc |-> "idle", source |-> None, asked |-> 0]
NoRequest == [pc |-> "idle", source |-> None, asked |-> 0, answer |-> "none"]

(* created_at of the last digest; no post is older than 0.                 *)
LastAt(s) ==
    IF digests[s] = {} THEN 0
    ELSE (CHOOSE d \in digests[s] : \A x \in digests[s] : x.at <= d.at).at

(* List with created_at in [from, to), and what it does not see yet.       *)
Committed(s, from, to) ==
    { p \in Posts : /\ SourceOf[p] = s /\ post[p].state = "committed"
                    /\ from <= post[p].at /\ post[p].at < to }
Uncommitted(s, from, to) ==
    { p \in Posts : /\ SourceOf[p] = s /\ post[p].state = "stamped"
                    /\ from <= post[p].at /\ post[p].at < to }

(* The row of s is locked by a transaction, or the index entry of s is.    *)
RowLocked(s) ==
    \/ \E p \in Schedulers : sched[p].source = s
    \/ \E q \in Triggers : trig[q].source = s /\ trig[q].pc = "commit"
IndexLocked(s) ==
    \E q \in Triggers : trig[q].source = s /\ trig[q].pc \in {"lock", "commit"}

Init ==
    /\ now = 0
    /\ nextAt = [s \in Sources |-> 0]
    /\ event = [s \in Sources |-> [status |-> "none", owner |-> None,
                                   live |-> FALSE, stored |-> FALSE,
                                   result |-> FALSE]]
    /\ post = [p \in Posts |-> [state |-> "unborn", at |-> 0]]
    /\ digests = [s \in Sources |-> {}]
    /\ sched = [p \in Schedulers |-> NoTx]
    /\ trig = [q \in Triggers |-> NoRequest]
    /\ run = [w \in Workers |-> NoRun]
    /\ enqueued = [s \in Sources |-> {}]
    /\ overlapped = {}

------------------------------------------------------------------------------
(* The environment.                                                        *)

Tick ==
    /\ now < MaxTime
    /\ now' = now + 1
    /\ UNCHANGED <<tables, post, processes, overlapped>>

(* PostUsecase.Create takes created_at from its clock ...                  *)
StampPost(p) ==
    /\ post[p].state = "unborn"
    /\ post' = [post EXCEPT ![p] = [state |-> "stamped", at |-> now]]
    /\ UNCHANGED <<now, tables, processes, overlapped>>

(* ... and commits the post later. No event: the source is cumulative.     *)
CommitPost(p) ==
    /\ post[p].state = "stamped"
    /\ post' = [post EXCEPT ![p].state = "committed"]
    /\ UNCHANGED <<now, tables, processes, overlapped>>

------------------------------------------------------------------------------
(* The scheduler: ScheduleNextCumulative, called until it returns false.   *)

Due(s) == nextAt[s] <= now

(* Mutant: no FOR UPDATE SKIP LOCKED.                                      *)
ClaimDueUnlocked(p) ==
    /\ sched[p].pc = "idle"
    /\ \E s \in Sources :
         /\ Due(s)
         /\ \A t \in Sources : Due(t) => nextAt[s] <= nextAt[t]
         /\ sched' = [sched EXCEPT ![p] = [pc |-> "decide", source |-> s,
                                           asked |-> now]]
    /\ UNCHANGED <<now, tables, post, trig, run, overlapped>>

(* ClaimDueCumulative: the longest due source nobody has locked. The bump  *)
(* that follows stays in the transaction until it commits.                 *)
ClaimDueCumulative(p) ==
    /\ sched[p].pc = "idle"
    /\ \E s \in Sources :
         /\ Due(s) /\ ~RowLocked(s)
         /\ \A t \in Sources :
              Due(t) /\ ~RowLocked(t) => nextAt[s] <= nextAt[t]
         /\ sched' = [sched EXCEPT ![p] = [pc |-> "decide", source |-> s,
                                           asked |-> now]]
    /\ UNCHANGED <<now, tables, post, trig, run, overlapped>>

(* What the transaction x writes into next_summary_at.                     *)
NextAt(x) == x.asked + CronInterval

(* Mutant: the bump adds the interval to what the claim returned.          *)
DecideBumpsTwice(p) ==
    /\ sched[p].pc = "decide"
    /\ LET s == sched[p].source IN
         IF ~Active(s) /\ Committed(s, LastAt(s), now) # {}
         THEN /\ sched' = [sched EXCEPT ![p].pc = "insert"]
              /\ UNCHANGED nextAt
         ELSE /\ sched' = [sched EXCEPT ![p] = NoTx]
              /\ nextAt' = [nextAt EXCEPT ![s] = NextAt(sched[p]) + CronInterval]
    /\ UNCHANGED <<now, event, digests, enqueued, post, trig, run, overlapped>>

(* maybeEnqueueSourceEvent: with an active event, or without a post since  *)
(* the last digest, only the bump is committed.                            *)
Decide(p) ==
    /\ sched[p].pc = "decide"
    /\ LET s == sched[p].source IN
         IF ~Active(s) /\ Committed(s, LastAt(s), now) # {}
         THEN /\ sched' = [sched EXCEPT ![p].pc = "insert"]
              /\ UNCHANGED nextAt
         ELSE /\ sched' = [sched EXCEPT ![p] = NoTx]
              /\ nextAt' = [nextAt EXCEPT ![s] = NextAt(sched[p])]
    /\ UNCHANGED <<now, event, digests, enqueued, post, trig, run, overlapped>>

(* The transaction x commits an event.                                     *)
Enqueue(s, x, manual) ==
    /\ enqueued' = [enqueued EXCEPT ![s] =
                      {[manual |-> manual, asked |-> x.asked, at |-> now]}]
    /\ event' = [event EXCEPT ![s] = [status |-> "pending", owner |-> None,
                                      live |-> FALSE, stored |-> FALSE,
                                      result |-> FALSE]]

(* The INSERT and the commit. On a unique violation the error is swallowed *)
(* but the transaction is aborted: its COMMIT is a rollback.               *)
EnqueueDue(p) ==
    /\ sched[p].pc = "insert"
    /\ LET s == sched[p].source IN
         /\ ~IndexLocked(s)
         /\ IF Active(s)
            THEN UNCHANGED <<event, nextAt, enqueued>>
            ELSE /\ Enqueue(s, sched[p], FALSE)
                 /\ nextAt' = [nextAt EXCEPT ![s] = NextAt(sched[p])]
    /\ sched' = [sched EXCEPT ![p] = NoTx]
    /\ UNCHANGED <<now, digests, post, trig, run, overlapped>>

(* A statement fails, or the process dies: rollback.                       *)
ScheduleFails(p) ==
    /\ sched[p].pc # "idle"
    /\ sched' = [sched EXCEPT ![p] = NoTx]
    /\ UNCHANGED <<now, tables, post, trig, run, overlapped>>

------------------------------------------------------------------------------
(* The trigger: TriggerSourceSummarize.                                    *)

(* The look for an active event is outside of the transaction.             *)
Ask(q) ==
    /\ trig[q] = NoRequest
    /\ \E s \in Sources :
         trig' = [trig EXCEPT ![q] =
                    IF Active(s)
                    THEN [NoRequest EXCEPT !.answer = "event"]
                    ELSE [pc |-> "insert", source |-> s,
                          asked |-> now, answer |-> "none"]]
    /\ UNCHANGED <<now, tables, post, sched, run, overlapped>>

Answer(q, answer) ==
    trig' = [trig EXCEPT ![q] = [NoRequest EXCEPT !.answer = answer]]

(* outboxRepo.Save: the index entry first; ErrSummaryAlreadyProcessing     *)
(* when another event is active by now.                                    *)
TriggerInsert(q) ==
    /\ trig[q].pc = "insert"
    /\ ~IndexLocked(trig[q].source)
    /\ IF Active(trig[q].source) THEN Answer(q, "refused")
       ELSE trig' = [trig EXCEPT ![q].pc = "lock"]
    /\ UNCHANGED <<now, tables, post, sched, run, overlapped>>

(* The foreign key of the inserted event locks the row of the source.      *)
TriggerLock(q) ==
    /\ trig[q].pc = "lock"
    /\ ~RowLocked(trig[q].source)
    /\ trig' = [trig EXCEPT ![q].pc = "commit"]
    /\ UNCHANGED <<now, tables, post, sched, run, overlapped>>

(* Mutant: the trigger only enqueues (OQ-02, first variant).               *)
TriggerCommitUnbumped(q) ==
    /\ trig[q].pc = "commit"
    /\ Enqueue(trig[q].source, trig[q], TRUE)
    /\ Answer(q, "event")
    /\ UNCHANGED <<now, nextAt, digests, post, sched, run, overlapped>>

(* BumpNextSummaryAt and the commit.                                       *)
TriggerCommit(q) ==
    /\ trig[q].pc = "commit"
    /\ Enqueue(trig[q].source, trig[q], TRUE)
    /\ nextAt' = [nextAt EXCEPT ![trig[q].source] = NextAt(trig[q])]
    /\ Answer(q, "event")
    /\ UNCHANGED <<now, digests, post, sched, run, overlapped>>

TriggerFails(q) ==
    /\ trig[q].pc # "idle"
    /\ Answer(q, "failed")
    /\ UNCHANGED <<now, tables, post, sched, run, overlapped>>

(* The scheduler holds the row and waits for the index entry, the trigger  *)
(* holds the entry and waits for the row: PostgreSQL aborts one of them.   *)
Deadlock(p, q) ==
    /\ sched[p].pc = "insert"
    /\ trig[q].pc = "lock"
    /\ sched[p].source = trig[q].source
    /\ \/ sched' = [sched EXCEPT ![p] = NoTx] /\ UNCHANGED trig
       \/ Answer(q, "refused") /\ UNCHANGED sched
    /\ UNCHANGED <<now, tables, post, run, overlapped>>

------------------------------------------------------------------------------
(* The event pool and ProcessSourceEvent.                                  *)

Claim(w) ==
    /\ run[w].pc = "idle"
    /\ \E s \in Sources :
         /\ Active(s) /\ ~event[s].live
         /\ event' = [event EXCEPT ![s].status = "processing",
                                   ![s].owner = w, ![s].live = TRUE]
         /\ run' = [run EXCEPT ![w] = [NoRun EXCEPT !.pc = "window",
                                                    !.source = s]]
         /\ overlapped' = IF \E v \in Workers : run[v].source = s
                          THEN overlapped \cup {s} ELSE overlapped
    /\ UNCHANGED <<now, nextAt, digests, post, sched, trig, enqueued>>

LeaseRunsOut(s) ==
    /\ event[s].live
    /\ event' = [event EXCEPT ![s].live = FALSE]
    /\ UNCHANGED <<now, nextAt, digests, enqueued, post, processes, overlapped>>

(* The reaper fails an event nobody holds.                                 *)
Reap(s) ==
    /\ event[s].status = "processing" /\ ~event[s].live
    /\ event' = [event EXCEPT ![s].status = "failed", ![s].owner = None]
    /\ UNCHANGED <<now, nextAt, digests, enqueued, post, processes, overlapped>>

WindowStart(s) ==
    IF LastAt(s) > now - MaxWindow THEN LastAt(s) ELSE now - MaxWindow

(* Mutant: the last digest does not bound the window.                      *)
BeginAtMaxWindow(w) ==
    /\ run[w].pc = "window"
    /\ run' = [run EXCEPT ![w] = [run[w] EXCEPT !.pc = "collect",
                 !.from = now - MaxWindow, !.to = now]]
    /\ UNCHANGED <<now, tables, post, sched, trig, overlapped>>

(* Mutant: the lower bound of the window is exclusive.                     *)
BeginAfterLast(w) ==
    /\ run[w].pc = "window"
    /\ run' = [run EXCEPT ![w] = [run[w] EXCEPT !.pc = "collect",
                 !.from = WindowStart(run[w].source) + 1, !.to = now]]
    /\ UNCHANGED <<now, tables, post, sched, trig, overlapped>>

(* The last digest and the clock give the window.                          *)
Begin(w) ==
    /\ run[w].pc = "window"
    /\ run' = [run EXCEPT ![w] = [run[w] EXCEPT !.pc = "collect",
                 !.from = WindowStart(run[w].source), !.to = now]]
    /\ UNCHANGED <<now, tables, post, sched, trig, overlapped>>

(* collectWindowPosts: the newest posts that fit, at least one of them. The *)
(* sizes of the posts are arbitrary, so any newest part may be what fits.  *)
Collect(w) ==
    /\ run[w].pc = "collect"
    /\ LET s == run[w].source
           window == Committed(s, run[w].from, run[w].to)
       IN  \/ /\ window = {}
              /\ run' = [run EXCEPT ![w].pc = "empty"]
           \/ \E kept \in SUBSET window \ {{}} :
                /\ \A p \in kept, r \in window \ kept : post[r].at <= post[p].at
                /\ run' = [run EXCEPT ![w] = [run[w] EXCEPT
                     !.pc = "generate", !.posts = kept,
                     !.left = (window \ kept) \cup
                              Uncommitted(s, run[w].from, run[w].to)]]
    /\ UNCHANGED <<now, tables, post, sched, trig, overlapped>>

(* summarizeWithLLMRetry, and every failing read before it.                *)
Generate(w) ==
    /\ run[w].pc = "generate"
    /\ \E pc \in {"save", "failed"} : run' = [run EXCEPT ![w].pc = pc]
    /\ UNCHANGED <<now, tables, post, sched, trig, overlapped>>

(* summaryRepo.Save with created_at = time.Now(), whoever owns the event.  *)
(* When the answer is lost the handler reports an error.                   *)
Save(w) ==
    /\ run[w].pc = "save"
    /\ LET s == run[w].source IN
         /\ digests' = [digests EXCEPT ![s] = @ \cup
              {[at |-> now, to |-> run[w].to, posts |-> run[w].posts,
                left |-> run[w].left]}]
         /\ event' = [event EXCEPT ![s].stored =
                        @ \/ event[s].owner = w]
    /\ \E pc \in {"saved", "failed"} :
         run' = [run EXCEPT ![w] = [NoRun EXCEPT !.pc = pc,
                                                 !.source = run[w].source]]
    /\ UNCHANGED <<now, nextAt, post, sched, trig, enqueued, overlapped>>

(* finalize: the status by which the event leaves 'processing', if the     *)
(* worker still has it.                                                    *)
Finalize(w) ==
    /\ run[w].pc \in {"saved", "empty", "failed"}
    /\ LET s == run[w].source IN
         \E status \in IF run[w].pc = "failed" THEN {"pending", "failed"}
                       ELSE {"completed"} :
           event' = IF event[s].owner = w /\ event[s].live
                    THEN [event EXCEPT ![s] = [event[s] EXCEPT
                            !.status = status, !.owner = None, !.live = FALSE,
                            !.result = run[w].pc = "saved"]]
                    ELSE event
    /\ run' = [run EXCEPT ![w] = NoRun]
    /\ UNCHANGED <<now, nextAt, digests, enqueued, post, sched, trig, overlapped>>

(* Expired by its TTL: a verdict before anything is read.                  *)
Expire(w) ==
    /\ run[w].pc = "window"
    /\ LET s == run[w].source IN
         event' = IF event[s].owner = w /\ event[s].live
                  THEN [event EXCEPT ![s].status = "expired",
                                     ![s].owner = None, ![s].live = FALSE]
                  ELSE event
    /\ run' = [run EXCEPT ![w] = NoRun]
    /\ UNCHANGED <<now, nextAt, digests, enqueued, post, sched, trig, overlapped>>

(* The process dies, the context of the handler is cancelled, a deadline   *)
(* ends it, or finalize fails: nothing is written.                         *)
Abandon(w) ==
    /\ run[w].pc # "idle"
    /\ run' = [run EXCEPT ![w] = NoRun]
    /\ UNCHANGED <<now, tables, post, sched, trig, overlapped>>

------------------------------------------------------------------------------
Scheduler(p) == ClaimDueCumulative(p) \/ Decide(p) \/ EnqueueDue(p)

Trigger(q) == \/ Ask(q) \/ TriggerInsert(q) \/ TriggerLock(q)
              \/ TriggerCommit(q) \/ TriggerFails(q)

ProcessSourceEvent(w) == Begin(w) \/ Collect(w) \/ Generate(w) \/ Save(w)

Next ==
    \/ Tick
    \/ \E p \in Posts : StampPost(p) \/ CommitPost(p)
    \/ \E p \in Schedulers : Scheduler(p) \/ ScheduleFails(p)
    \/ \E q \in Triggers : Trigger(q)
    \/ \E p \in Schedulers, q \in Triggers : Deadlock(p, q)
    \/ \E s \in Sources : LeaseRunsOut(s) \/ Reap(s)
    \/ \E w \in Workers :
         \/ Claim(w) \/ ProcessSourceEvent(w)
         \/ Finalize(w) \/ Expire(w) \/ Abandon(w)

Spec == Init /\ [][Next]_vars

------------------------------------------------------------------------------
(* Properties.                                                             *)

Digest == [at : 0 .. MaxTime, to : 0 .. MaxTime, posts : SUBSET Posts,
           left : SUBSET Posts]

Times == 0 .. MaxTime + CronInterval

(* Every variable keeps its shape (the columns of sources, summary_events, *)
(* posts and summaries, and the locals of the three use cases).            *)
TypeOK ==
    /\ now \in 0 .. MaxTime
    /\ nextAt \in [Sources -> Times]
    /\ event \in [Sources ->
         [status : {"none", "pending", "processing", "completed", "failed",
                    "expired"},
          owner : Workers \cup {None}, live : BOOLEAN, stored : BOOLEAN,
          result : BOOLEAN]]
    /\ post \in [Posts -> [state : {"unborn", "stamped", "committed"},
                           at : 0 .. MaxTime]]
    /\ digests \in [Sources -> SUBSET Digest]
    /\ sched \in [Schedulers -> [pc : {"idle", "decide", "insert"},
                                 source : Sources \cup {None},
                                 asked : 0 .. MaxTime]]
    /\ trig \in [Triggers ->
         [pc : {"idle", "insert", "lock", "commit"},
          source : Sources \cup {None}, asked : 0 .. MaxTime,
          answer : {"none", "event", "refused", "failed"}]]
    /\ run \in [Workers ->
         [pc : {"idle", "window", "collect", "generate", "save", "saved",
                "empty", "failed"},
          source : Sources \cup {None}, from : Int, to : 0 .. MaxTime,
          posts : SUBSET Posts, left : SUBSET Posts]]
    /\ enqueued \in [Sources -> SUBSET [manual : BOOLEAN, asked : 0 .. MaxTime,
                                         at : 0 .. MaxTime]]
    /\ overlapped \subseteq Sources

(* The scheduler's INSERT never meets the unique index of active events:   *)
(* the lock on the row of the source keeps every other transaction from    *)
(* committing an event between its look for one and its INSERT. The error  *)
(* maybeEnqueueSourceEvent swallows, in a transaction PostgreSQL would     *)
(* have aborted, does not arise.                                           *)
SchedulerInsertsFreely ==
    \A p \in Schedulers : sched[p].pc = "insert" => ~Active(sched[p].source)

(* A post is in one digest at most, whatever failed, crashed, was retried  *)
(* or triggered by hand, as long as no run of the source overlapped        *)
(* another: each window starts where, or after, the one before ended.      *)
DigestsDisjoint ==
    \A s \in Sources \ overlapped : \A d, e \in digests[s] :
        d # e => d.posts \cap e.posts = {}

(* Only known gaps lose a post: one that is older than some digest and in  *)
(* none was created while that digest was being written, was not committed *)
(* when it was collected, did not fit, or was older than max_window. A     *)
(* digest that fails, expires or is abandoned loses nothing.               *)
OnlyGapsLosePosts ==
    \A s \in Sources : \A p \in Posts :
      LET at == post[p].at
          later == { d \in digests[s] : at < d.at }
          first == { d \in later : \A e \in later : d.at <= e.at }
      IN  /\ SourceOf[p] = s
          /\ post[p].state = "committed"
          /\ later # {}
          /\ \A d \in digests[s] : p \notin d.posts
          => \E d \in first :
               \/ d.to <= at
               \/ p \in d.left
               \/ at < d.to - MaxWindow

(* When the scheduler goes to enqueue an event, the transaction that       *)
(* enqueued the one before, its own or that of a request by hand, read its *)
(* clock at least one cron.interval ago (FM-06, OQ-02). The distance is    *)
(* from that reading: from the commit of the event before, the interval is *)
(* shorter by as long as the transaction took (see FullIntervalApart).     *)
ScheduledApart ==
    \A p \in Schedulers :
      sched[p].pc = "insert" =>
        \A e \in enqueued[sched[p].source] : e.asked + CronInterval <= now

------------------------------------------------------------------------------
(* What a comment of the code says, and the code does not do.              *)

(* TriggerSourceSummarize: the next scheduled event lands a full           *)
(* cron.interval after the one that was requested by hand.                 *)
FullIntervalApart ==
    \A p \in Schedulers :
      sched[p].pc = "insert" =>
        \A e \in enqueued[sched[p].source] :
          e.manual => e.at + CronInterval <= now

===============================================================================
