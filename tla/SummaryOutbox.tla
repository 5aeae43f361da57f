---------------------------- MODULE SummaryOutbox ----------------------------
(***************************************************************************)
(* The summary outbox: the summary_events table, the pool of workers that  *)
(* claim its rows under a lease, the heartbeat that extends the lease, the *)
(* handler of a summarize_post event, and the reaper of stuck events.      *)
(*                                                                         *)
(* Event e is the summarize_post event of one post, and that post is also  *)
(* called e: posts are created together with their event, once.            *)
(*                                                                         *)
(* Time is relative. lockedFor is locked_until - now(), retryIn is what is *)
(* left until next_attempt_at, age is now() - created_at; Tick moves all   *)
(* of them. Each saturates where the code stops telling values apart       *)
(* (lockedFor below -Grace, retryIn at 0, age above EventTTL), so time is  *)
(* unbounded although the state space is finite.                           *)
(*                                                                         *)
(* Every guarded UPDATE is one step: PostgreSQL locks the row, and the     *)
(* WHERE clause is evaluated again on the version it locked. FOR UPDATE    *)
(* SKIP LOCKED makes ClaimOne pass over rows another transaction holds, so *)
(* any eligible row may be the one it takes.                               *)
(***************************************************************************)
EXTENDS Integers, FiniteSets

CONSTANTS
    Events,       \* summarize_post events (and their posts)
    Workers,      \* worker ids; an id is unique to one start of a process
    Mortal,       \* the workers whose process may be stopped or may crash
    NoWorker,     \* locked_by IS NULL
    NoEvent,      \* the event of a worker that has none
    LeaseTTL,     \* summary.worker.lease_ttl
    Grace,        \* summary.reaper.grace
    MaxAttempts,  \* summary.worker.max_attempts
    EventTTL,     \* summary.outbox.event_ttl
    Backoff,      \* RetryPolicy.CalculateBackoff, attempt by attempt
    AttemptCap    \* bound of the model on attempt_count: no claim beyond it

ASSUME ConstantsAssumption ==
    /\ NoWorker \notin Workers
    /\ NoEvent \notin Events
    /\ Mortal \subseteq Workers
    /\ LeaseTTL \in Nat \ {0}
    /\ Grace \in Nat
    /\ MaxAttempts \in Nat \ {0}
    /\ EventTTL \in Nat
    /\ AttemptCap \in Nat \ {0}
    /\ Backoff \in [1 .. AttemptCap -> Nat]

VARIABLES
    row,         \* row[e]: the summary_events row of event e
    posts,       \* the posts that exist
    summaries,   \* summaries[e]: summaries of post e, named by their attempt
    worker,      \* worker[w]: what the goroutine of worker w holds
    reaping,     \* events a reaper has listed and not yet tried to fail
    overlapped   \* history: events claimed while an older attempt still ran

vars == <<row, posts, summaries, worker, reaping, overlapped>>

------------------------------------------------------------------------------
Terminal == {"completed", "failed", "expired"}
Statuses == {"absent", "pending", "processing"} \cup Terminal
Attempts == 1 .. AttemptCap

(* "check", "generate" and "save" are the steps of ProcessPostEvent; the   *)
(* other activities name what the handler returned to finalize.            *)
Handling == {"check", "generate", "save"}
Returned == {"ok", "expired", "transient", "rejected", "notFound",
             "timeout", "cancelled"}
Busy     == Handling \cup Returned
Places   == {"idle", "claiming", "stopped"} \cup Busy

Runs(w, e) == worker[w].pc \in Busy /\ worker[w].event = e

(* The guard of ExtendLease, FinalizeWithLease and MarkForRetry.           *)
OwnsLease(w, e) ==
    /\ row[e].status = "processing"
    /\ row[e].lockedBy = w
    /\ row[e].lockedFor > 0

(* The WHERE clause of ListLeaseExpired.                                   *)
ExpiredPastGrace(e) ==
    /\ row[e].status = "processing"
    /\ row[e].lockedFor < -Grace

(* Mutant: the UPDATE trusts the list and only looks at the status.        *)
MayFailAsListed(e) == row[e].status = "processing"

(* The guard of FailExpired, evaluated when the UPDATE runs.               *)
MayFail(e) == ExpiredPastGrace(e) /\ row[e].attempts >= MaxAttempts

(* Mutant: a lost lease is not claimed again.                              *)
EligiblePendingOnly ==
    { e \in Events : /\ row[e].status = "pending" /\ row[e].retryIn = 0
                     /\ row[e].attempts < AttemptCap }

(* Mutant: locked_until is not compared.                                   *)
EligibleAnyLease ==
    { e \in Events : /\ \/ row[e].status = "pending" /\ row[e].retryIn = 0
                        \/ row[e].status = "processing"
                     /\ row[e].attempts < AttemptCap }

(* The WHERE clause of ClaimOne. It does not look at attempt_count; the    *)
(* last conjunct is the bound of the model.                                *)
Eligible ==
    { e \in Events :
        /\ \/ row[e].status = "pending" /\ row[e].retryIn = 0
           \/ row[e].status = "processing" /\ row[e].lockedFor < 0
        /\ row[e].attempts < AttemptCap }

(* Mutant: off by one.                                                     *)
ShouldRetryOneMore(attempt) == attempt <= MaxAttempts

(* RetryPolicy.ShouldRetry for an error IsTransientError accepts.          *)
ShouldRetry(attempt) == attempt < MaxAttempts

NewRow == [status |-> "absent", lockedBy |-> NoWorker, lockedFor |-> 0,
           attempts |-> 0, retryIn |-> 0, age |-> 0, summary |-> 0]

IdleWorker == [pc |-> "idle", event |-> NoEvent, attempt |-> 0,
               summary |-> 0, cancelled |-> FALSE, stopping |-> FALSE]

Init ==
    /\ row = [e \in Events |-> NewRow]
    /\ posts = {}
    /\ summaries = [e \in Events |-> {}]
    /\ worker = [w \in Workers |-> IdleWorker]
    /\ reaping = {}
    /\ overlapped = {}

------------------------------------------------------------------------------
(* The environment: posts come and go, time passes.                        *)

(* PostUsecase.Create of a self-contained source: the post and its pending *)
(* event are one transaction, and only for a post that was not known.      *)
CreatePost(e) ==
    /\ row[e].status = "absent"
    /\ row' = [row EXCEPT ![e].status = "pending"]
    /\ posts' = posts \cup {e}
    /\ UNCHANGED <<summaries, worker, reaping, overlapped>>

(* Mutant: summary_events.summary_id is no foreign key.                    *)
DeletePostAnyTime(e) ==
    /\ e \in posts
    /\ posts' = posts \ {e}
    /\ summaries' = [summaries EXCEPT ![e] = {}]
    /\ UNCHANGED <<row, worker, reaping, overlapped>>

(* Deleting a post deletes its summaries (ON DELETE CASCADE), unless the   *)
(* event refers to one of them: that foreign key has no action, so the     *)
(* whole DELETE fails.                                                     *)
DeletePost(e) ==
    /\ e \in posts
    /\ row[e].summary = 0
    /\ posts' = posts \ {e}
    /\ summaries' = [summaries EXCEPT ![e] = {}]
    /\ UNCHANGED <<row, worker, reaping, overlapped>>

Later(r) ==
    [r EXCEPT !.lockedFor = IF r.lockedBy = NoWorker \/ r.lockedFor < -Grace
                            THEN r.lockedFor ELSE r.lockedFor - 1,
              !.retryIn   = IF r.retryIn = 0 THEN 0 ELSE r.retryIn - 1,
              !.age       = IF r.status = "absent" \/ r.age > EventTTL
                            THEN r.age ELSE r.age + 1]

Tick ==
    /\ row' = [e \in Events |-> Later(row[e])]
    /\ UNCHANGED <<posts, summaries, worker, reaping, overlapped>>

------------------------------------------------------------------------------
(* The worker loop: runWorker.                                             *)

Goto(w, pc) == worker' = [worker EXCEPT ![w].pc = pc]

(* The worker is back at the top of its loop.                              *)
Release(w) ==
    worker' = [worker EXCEPT
                 ![w] = [IdleWorker EXCEPT !.stopping = worker[w].stopping]]

(* isRunning is evaluated before the claim, not together with it.          *)
CheckRunning(w) ==
    /\ worker[w].pc = "idle"
    /\ Goto(w, IF worker[w].stopping THEN "stopped" ELSE "claiming")
    /\ UNCHANGED <<row, posts, summaries, reaping, overlapped>>

(* Mutant: locked_by = COALESCE(locked_by, $2).                            *)
ClaimedKeepsOwner(w, e) ==
    [row EXCEPT ![e] = [row[e] EXCEPT
        !.status = "processing",
        !.lockedBy = IF @ = NoWorker THEN w ELSE @,
        !.lockedFor = LeaseTTL,
        !.attempts = @ + 1]]

(* Mutant: only a failure counts as an attempt, not the claim.             *)
ClaimedUncounted(w, e) ==
    [row EXCEPT ![e] = [row[e] EXCEPT !.status = "processing",
                                      !.lockedBy = w,
                                      !.lockedFor = LeaseTTL]]

Claimed(w, e) ==
    [row EXCEPT ![e] = [row[e] EXCEPT !.status = "processing",
                                      !.lockedBy = w,
                                      !.lockedFor = LeaseTTL,
                                      !.attempts = row[e].attempts + 1]]

ClaimOne(w, e) ==
    /\ worker[w].pc = "claiming"
    /\ e \in Eligible
    /\ row' = Claimed(w, e)
    /\ worker' = [worker EXCEPT ![w] = [worker[w] EXCEPT
                    !.pc = "check", !.event = e,
                    !.attempt = row[e].attempts + 1]]
    /\ overlapped' = IF \E v \in Workers : Runs(v, e)
                     THEN overlapped \cup {e} ELSE overlapped
    /\ UNCHANGED <<posts, summaries, reaping>>

(* ErrNoEventAvailable, or an error of the statement: sleep and try again. *)
ClaimNothing(w) ==
    /\ worker[w].pc = "claiming"
    /\ Release(w)
    /\ UNCHANGED <<row, posts, summaries, reaping, overlapped>>

(* The claim committed but its answer was lost (connection reset, context  *)
(* cancelled by Stop): the row is leased to a worker that does not run it. *)
ClaimUnanswered(w, e) ==
    /\ worker[w].pc = "claiming"
    /\ e \in Eligible
    /\ row' = Claimed(w, e)
    /\ Release(w)
    /\ UNCHANGED <<posts, summaries, reaping, overlapped>>

(* The heartbeat goroutine of a claim: extend the live lease, or, once it  *)
(* is lost, cancel the context of the handler. Any other error is logged.  *)
Heartbeat(w) ==
    /\ worker[w].pc \in Busy
    /\ ~worker[w].cancelled
    /\ LET e == worker[w].event IN
         IF OwnsLease(w, e)
         THEN /\ row' = [row EXCEPT ![e].lockedFor = LeaseTTL]
              /\ UNCHANGED worker
         ELSE /\ worker' = [worker EXCEPT ![w].cancelled = TRUE]
              /\ UNCHANGED row
    /\ UNCHANGED <<posts, summaries, reaping, overlapped>>

------------------------------------------------------------------------------
(* The handler: ProcessPostEvent.                                          *)

(* Mutant: no look at the summaries the post already has.                  *)
CheckEventAnew(w) ==
    /\ worker[w].pc = "check"
    /\ LET e == worker[w].event IN
         Goto(w, IF row[e].age > EventTTL THEN "expired"
                 ELSE IF worker[w].cancelled THEN "cancelled"
                 ELSE IF e \in posts THEN "generate" ELSE "notFound")
    /\ UNCHANGED <<row, posts, summaries, reaping, overlapped>>

(* Event TTL, the summaries the post already has, the post itself.         *)
CheckEvent(w) ==
    /\ worker[w].pc = "check"
    /\ LET e == worker[w].event IN
         \/ /\ row[e].age > EventTTL
            /\ Goto(w, "expired")
         \/ /\ row[e].age <= EventTTL
            /\ worker[w].cancelled
            /\ Goto(w, "cancelled")
         \/ /\ row[e].age <= EventTTL
            /\ ~worker[w].cancelled
            /\ \/ \E s \in summaries[e] :
                    worker' = [worker EXCEPT ![w] = [worker[w] EXCEPT
                                 !.pc = "ok", !.summary = s]]
               \/ /\ summaries[e] = {}
                  /\ Goto(w, IF e \in posts THEN "generate" ELSE "notFound")
    /\ UNCHANGED <<row, posts, summaries, reaping, overlapped>>

(* summarizeWithLLMRetry: a text, or the error of the last LLM attempt: a  *)
(* network failure or 5xx ("transient"), a 4xx answer ("rejected"), or the *)
(* provider's own timeout, which wraps context.DeadlineExceeded.           *)
Generate(w) ==
    /\ worker[w].pc = "generate"
    /\ \E pc \in IF worker[w].cancelled THEN {"cancelled"}
                 ELSE {"save", "transient", "rejected", "timeout"} :
         Goto(w, pc)
    /\ UNCHANGED <<row, posts, summaries, reaping, overlapped>>

(* summaryRepo.Save: a plain INSERT, not guarded by the lease. It fails on *)
(* the foreign key when the post is gone.                                  *)
SaveSummary(w) ==
    /\ worker[w].pc = "save"
    /\ ~worker[w].cancelled
    /\ LET e == worker[w].event IN
         /\ e \in posts
         /\ summaries' = [summaries EXCEPT ![e] = @ \cup {worker[w].attempt}]
         /\ worker' = [worker EXCEPT ![w] = [worker[w] EXCEPT
                         !.pc = "ok", !.summary = worker[w].attempt]]
    /\ UNCHANGED <<row, posts, reaping, overlapped>>

(* The INSERT reports an error, and may have committed all the same. When  *)
(* the context was cancelled the error is context.Canceled, or the         *)
(* driver's own "canceling statement", which counts as transient.          *)
SaveSummaryFails(w) ==
    /\ worker[w].pc = "save"
    /\ LET e == worker[w].event IN
         \/ UNCHANGED summaries
         \/ /\ e \in posts
            /\ summaries' = [summaries EXCEPT ![e] = @ \cup {worker[w].attempt}]
    /\ \/ worker[w].cancelled /\ Goto(w, "cancelled")
       \/ Goto(w, "transient")
    /\ UNCHANGED <<row, posts, reaping, overlapped>>

(* A read of the handler fails: a transient error.                         *)
ReadFails(w) ==
    /\ worker[w].pc = "check"
    /\ row[worker[w].event].age <= EventTTL
    /\ Goto(w, "transient")
    /\ UNCHANGED <<row, posts, summaries, reaping, overlapped>>

------------------------------------------------------------------------------
(* finalize: what becomes of the event when the handler has returned.      *)

Unlocked(r) == [r EXCEPT !.lockedBy = NoWorker, !.lockedFor = 0]

(* Mutant: the UPDATE is by id alone.                                      *)
FinalizeById(w, e, status, summary) ==
    row' = IF summary = 0 \/ summary \in summaries[e]
           THEN [row EXCEPT ![e] =
                   [Unlocked(row[e]) EXCEPT
                      !.status = status,
                      !.summary = IF summary = 0 THEN @ ELSE summary]]
           ELSE row

(* Nothing is written without the lease, nor when summary_id would refer   *)
(* to a summary that is gone (the foreign key): both end in a log line.    *)
FinalizeWithLease(w, e, status, summary) ==
    row' = IF OwnsLease(w, e) /\ (summary = 0 \/ summary \in summaries[e])
           THEN [row EXCEPT ![e] =
                   [Unlocked(row[e]) EXCEPT
                      !.status = status,
                      !.summary = IF summary = 0 THEN @ ELSE summary]]
           ELSE row

(* Mutant: locked_by stays set.                                            *)
MarkForRetryLocked(w, e, delay) ==
    row' = IF OwnsLease(w, e)
           THEN [row EXCEPT ![e].status = "pending", ![e].retryIn = delay]
           ELSE row

(* Mutant: the delay counts from created_at.                               *)
MarkForRetryFromCreation(w, e, delay) ==
    row' = IF OwnsLease(w, e)
           THEN [row EXCEPT ![e] = [Unlocked(row[e]) EXCEPT
                                      !.status = "pending",
                                      !.retryIn = delay - row[e].age]]
           ELSE row

MarkForRetry(w, e, delay) ==
    row' = IF OwnsLease(w, e)
           THEN [row EXCEPT ![e] = [Unlocked(row[e]) EXCEPT
                                      !.status = "pending",
                                      !.retryIn = delay]]
           ELSE row

(* writeTerminal: the handler's result is final.                           *)
Finalize(w) ==
    /\ LET e == worker[w].event IN
         \/ /\ worker[w].pc = "ok"
            /\ FinalizeWithLease(w, e, "completed", worker[w].summary)
         \/ /\ worker[w].pc = "expired"
            /\ FinalizeWithLease(w, e, "expired", 0)
         \/ /\ worker[w].pc = "notFound"
            /\ FinalizeWithLease(w, e, "failed", 0)
         \/ /\ worker[w].pc \in {"transient", "rejected"}
            /\ ~ShouldRetry(worker[w].attempt)
            /\ FinalizeWithLease(w, e, "failed", 0)
    /\ Release(w)
    /\ UNCHANGED <<posts, summaries, reaping, overlapped>>

(* The event goes back to the queue. IsTransientError accepts every error  *)
(* but a few sentinels, a 4xx answer of the LLM included.                  *)
Retry(w) ==
    /\ worker[w].pc \in {"transient", "rejected"}
    /\ ShouldRetry(worker[w].attempt)
    /\ MarkForRetry(w, worker[w].event, Backoff[worker[w].attempt])
    /\ Release(w)
    /\ UNCHANGED <<posts, summaries, reaping, overlapped>>

(* A cancelled handler, or one that ended with a deadline error, leaves    *)
(* the event to the expiry of its lease.                                   *)
Abandon(w) ==
    /\ worker[w].pc \in {"cancelled", "timeout"}
    /\ Release(w)
    /\ UNCHANGED <<row, posts, summaries, reaping, overlapped>>

(* The final UPDATE fails; the error is logged and the event stays leased. *)
FinalizeFails(w) ==
    /\ worker[w].pc \in Returned \ {"cancelled", "timeout"}
    /\ Release(w)
    /\ UNCHANGED <<row, posts, summaries, reaping, overlapped>>

------------------------------------------------------------------------------
(* Shutdown and crash of the process of a worker.                          *)

(* Stop closes stopCh; the worker notices at the top of its loop.          *)
Stop(w) ==
    /\ w \in Mortal
    /\ worker[w].pc # "stopped"
    /\ ~worker[w].stopping
    /\ worker' = [worker EXCEPT ![w].stopping = TRUE]
    /\ UNCHANGED <<row, posts, summaries, reaping, overlapped>>

(* graceful_timeout has passed: Stop cancels the context of the pool.      *)
GracefulTimeout(w) ==
    /\ worker[w].stopping
    /\ worker[w].pc \in Busy
    /\ ~worker[w].cancelled
    /\ worker' = [worker EXCEPT ![w].cancelled = TRUE]
    /\ UNCHANGED <<row, posts, summaries, reaping, overlapped>>

(* The process dies. Its worker ids never come back.                       *)
Crash(w) ==
    /\ w \in Mortal
    /\ worker[w].pc # "stopped"
    /\ worker' = [worker EXCEPT ![w] = [IdleWorker EXCEPT !.pc = "stopped"]]
    /\ UNCHANGED <<row, posts, summaries, reaping, overlapped>>

------------------------------------------------------------------------------
(* The reaper: ReapStuckEvents lists, then fails the events one by one.    *)
(* reaping holds what the reapers of all processes have listed.            *)

ListLeaseExpired ==
    LET stuck == { e \in Events : /\ ExpiredPastGrace(e)
                                  /\ row[e].attempts >= MaxAttempts } IN
    /\ stuck \ reaping # {}
    /\ reaping' = reaping \cup stuck
    /\ UNCHANGED <<row, posts, summaries, worker, overlapped>>

FailExpired(e) ==
    /\ e \in reaping
    /\ row' = IF MayFail(e)
              THEN [row EXCEPT ![e] = [Unlocked(row[e]) EXCEPT
                                         !.status = "failed"]]
              ELSE row
    /\ reaping' = reaping \ {e}
    /\ UNCHANGED <<posts, summaries, worker, overlapped>>

(* FailExpired returned an error, or the reaper's process is gone: the     *)
(* rest of the list is dropped.                                            *)
ReaperGivesUp ==
    /\ reaping # {}
    /\ reaping' = {}
    /\ UNCHANGED <<row, posts, summaries, worker, overlapped>>

------------------------------------------------------------------------------
Handler(w) == \/ CheckEvent(w) \/ Generate(w)
              \/ SaveSummary(w) \/ SaveSummaryFails(w) \/ ReadFails(w)

Next ==
    \/ Tick
    \/ \E e \in Events : CreatePost(e) \/ DeletePost(e)
    \/ \E w \in Workers :
         \/ CheckRunning(w)
         \/ \E e \in Events : ClaimOne(w, e) \/ ClaimUnanswered(w, e)
         \/ ClaimNothing(w)
         \/ Heartbeat(w)
         \/ Handler(w)
         \/ Finalize(w) \/ Retry(w) \/ Abandon(w) \/ FinalizeFails(w)
         \/ Stop(w) \/ GracefulTimeout(w) \/ Crash(w)
    \/ ListLeaseExpired
    \/ \E e \in Events : FailExpired(e)
    \/ ReaperGivesUp

Spec == Init /\ [][Next]_vars

------------------------------------------------------------------------------
(* Properties.                                                             *)

Rows == [status : Statuses, lockedBy : Workers \cup {NoWorker},
         lockedFor : Int, attempts : 0 .. AttemptCap, retryIn : Nat,
         age : Nat, summary : 0 .. AttemptCap]

WorkerStates == [pc : Places, event : Events \cup {NoEvent},
                 attempt : 0 .. AttemptCap, summary : 0 .. AttemptCap,
                 cancelled : BOOLEAN, stopping : BOOLEAN]

(* Every variable keeps its shape: rows, worker states, and sets of known  *)
(* events and of attempts (the columns of summary_events, the locals of    *)
(* processEvent).                                                          *)
TypeOK ==
    /\ row \in [Events -> Rows]
    /\ posts \subseteq Events
    /\ summaries \in [Events -> SUBSET Attempts]
    /\ worker \in [Workers -> WorkerStates]
    /\ reaping \subseteq Events
    /\ overlapped \subseteq Events

(* Every UPDATE that leaves 'processing' clears both lock columns.         *)
LockColumns ==
    \A e \in Events :
        /\ (row[e].status = "processing") <=> (row[e].lockedBy # NoWorker)
        /\ row[e].lockedBy = NoWorker => row[e].lockedFor = 0

(* A worker that runs something runs an event that has a row, and carries  *)
(* an attempt that was counted.                                            *)
RunsExist ==
    \A w \in Workers : worker[w].pc \in Busy =>
        /\ worker[w].event \in Events
        /\ row[worker[w].event].status # "absent"
        /\ worker[w].attempt \in 1 .. row[worker[w].event].attempts

(* A row is locked exactly while it is processing, and a worker runs only  *)
(* events that exist, in an attempt the row has counted, whether or not it *)
(* still holds the lock (ClaimOne, FinalizeWithLease, MarkForRetry,        *)
(* FailExpired).                                                           *)
LockedWhileProcessing == LockColumns /\ RunsExist

(* Fencing: whatever runs of an event are still going on, however many     *)
(* leases were lost, the one whose worker the row names is the run of the  *)
(* latest attempt, and no two runs have the same attempt number. locked_by *)
(* alone is enough to tell the owner because a worker runs one event at a  *)
(* time.                                                                   *)
LatestAttemptOwns ==
    \A e \in Events : \A v, w \in Workers :
        Runs(w, e) =>
            /\ worker[w].attempt \in 1 .. row[e].attempts
            /\ row[e].lockedBy = w => worker[w].attempt = row[e].attempts
            /\ Runs(v, e) /\ v # w => worker[v].attempt # worker[w].attempt

(* The retry budget: an event that waits in the queue still has an attempt *)
(* left, so ClaimOne never starts an exhausted event from 'pending'.       *)
PendingHasBudget ==
    \A e \in Events :
        row[e].status = "pending" => row[e].attempts < MaxAttempts

(* A completed event refers to a summary that exists, of a post that       *)
(* exists: the check of summary_id when the event is finalized and the     *)
(* refusal to delete a summary an event refers to make up for the summary  *)
(* and the event being written in two transactions.                        *)
CompletedIsSummarized ==
    \A e \in Events :
        row[e].status = "completed" => /\ row[e].summary \in summaries[e]
                                       /\ e \in posts

(* FM-05: repeating an event creates no second summary, whatever crashed,  *)
(* failed, timed out or was retried, as long as no claim started while an  *)
(* older run of the event was still going on.                              *)
RepeatedRunsReuseSummary ==
    \A e \in Events \ overlapped : Cardinality(summaries[e]) <= 1

(* Only two things take an event out of 'processing': the run of its       *)
(* latest attempt, in the worker that holds the live lease, or a reaper,   *)
(* and then the lease is over for longer than the grace and no attempt is  *)
(* left when the write happens, not only when the row was listed (FM-08).  *)
ResolvedByLatestAttempt ==
    [][ \A e \in Events :
          row[e].status = "processing" /\ row'[e].status # "processing" =>
             \/ \E w \in Workers :
                   /\ Runs(w, e) /\ ~Runs(w, e)'
                   /\ worker[w].attempt = row[e].attempts
                   /\ row[e].lockedFor > 0
             \/ /\ row'[e].status = "failed"
                /\ row[e].lockedFor < -Grace
                /\ row[e].attempts >= MaxAttempts ]_vars

(* A verdict is final: no late worker, retry, heartbeat or reaper touches  *)
(* an event that is completed, failed or expired.                          *)
VerdictIsFinal ==
    [][ \A e \in Events :
          row[e].status \in Terminal =>
             /\ row'[e].status = row[e].status
             /\ row'[e].summary = row[e].summary
             /\ row'[e].attempts = row[e].attempts
             /\ row'[e].lockedBy = NoWorker ]_vars

(* The outbox implements the life cycle EventLifecycle states: forget      *)
(* workers, leases and clocks, and every step is one of its steps.         *)
Lifecycle == INSTANCE EventLifecycle WITH
    status <- [e \in Events |-> row[e].status],
    tries  <- [e \in Events |-> row[e].attempts],
    result <- [e \in Events |-> row[e].summary],
    stored <- summaries

ImplementsLifecycle == Lifecycle!Spec

------------------------------------------------------------------------------
(* What the documents of the feature say, and the code does not do.        *)

(* CON-02, MET-02: at most one summary of a post, ever.                    *)
OneSummaryPerPost ==
    \A e \in Events : Cardinality(summaries[e]) <= 1

==============================================================================
