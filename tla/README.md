# A TLA+ verification of feedium

feedium collects posts from RSS feeds, web pages and Telegram, lets an LLM
summarise them, scores the summaries against the interests of its user and
serves a ranked feed. All of its state is in PostgreSQL; several processes, each
with several goroutines, may work on it at the same time. There is no message
broker: work is queued in two outbox tables, `summary_events` and
`score_events`, whose rows workers claim under a lease.

This directory holds TLA+ models of that core, the TLC runs that check them and
TLAPS proofs about them. Paths below are relative to `src/internal/` unless
they start with `src/`.

## 1. Inventory

| component | state it keeps | operations | what is hard | what makes it correct |
|---|---|---|---|---|
| **Summary outbox** (`biz/summary_usecase.go`, `data/summary_outbox_repo.go`, `task/event_worker_pool.go`) | `summary_events` (status, lease owner and end, attempt count, next attempt, summary id), `summaries` | claim, heartbeat, handle, finalize, mark for retry, stop | a lease that runs out under a running worker, a lost answer, a crash between summary and event, shutdown | only the latest attempt decides; a verdict is final; a completed event has a summary; every event gets a verdict |
| **Stuck event reaper** (`task/stuck_event_reaper.go`, `ReapStuckEvents`) | the list it has read | list, fail one by one | the list is old when used | it fails only events whose lease and budget are over at the time of the write |
| **Retry policy** (`biz/summary_retry.go`) | none | `CalculateBackoff`, `ShouldRetry` | overflow, off by one | capped exponential delay; an attempt left whenever an event waits |
| **Digests of cumulative sources** (`ScheduleNextCumulative`, `TriggerSourceSummarize`, `ProcessSourceEvent`, `task/source_due_scheduler.go`) | `sources.next_summary_at`, `summaries` without post, `summary_events` of type summarize_source | schedule a due source, trigger by hand, digest the window | scheduler against trigger, a window that is read before and closed after the LLM call, a swallowed unique violation, row lock against index entry | one active event per source; no post in two digests; a post is lost only in known gaps; no due source starves |
| **Post ingestion** (`biz/post.go`, `biz/collect.go`, `data/post_repo.go`) | `posts` | create with event, update, delete | re-collection, racing collectors, a source that vanishes | one post and one event per external id |
| **Score outbox** (`biz/score.go`, `data/score_outbox_repo.go`, `task/score_event_worker_pool.go`) | `score_events`, `scores` | enqueue due and scored entities, claim, score, finalize, reap | as the summary outbox; a second table's state decides what is due | one score per entity, computed from its current inputs in the end |
| **Interests** (`biz/interest.go`, `data/interest_repo.go`) | `interests` | create, update, delete, each followed by a re-scoring of everything | the write and the enqueueing are not in one transaction; active events hide entities from the re-scoring | after the last change every score reflects the interests |
| **Embedding cache** (`data/post_embedding_repo.go`, `resolveVector`) | `post_embeddings` | reuse or recompute | a stale vector | a vector is used only for its text and model |
| **Ranked feed, reactions** (`biz/feed.go`, `data/score_repo.go`, `data/reaction_repo.go`, the feed page `src/ui/src/views/FeedView.tsx`) | `scores`, `post_reactions`; on the page the list, the token, the filter and calls in flight | list a page, react; load, load more, filter, mark and roll back | cursor and order use different columns; rows that move between two pages; answers that overtake each other | paging ends and shows every row once; a mark is the stored reaction |
| **Window collection** (`collectWindowPosts`, `truncateUTF8`) | none | collect newest posts up to a size | boundaries of sizes, runes and pages, posts that change between two pages | newest posts in order, within the size, cut only if there is nothing else |
| **Collectors** (`task/rss_collector.go`, `web_collector.go`, `telegram_collector.go`, `biz/collect.go` and the fetchers) | the page of sources of a tick, the Telegram session | list, fetch, create; receive, resolve, create | an error in the middle of a batch, a broken source, lost messages, restart | what is offered is stored in the end; a source that fails does not stop the others |
| **Sources, services, server, clients** (`biz/source.go`, `service/`, `server/`, `src/cmd/`, other views of `src/ui/`) | `sources` | requests | a source that goes while it is collected | one statement each |
| **LLM providers and router** (`data/llm_*.go`, `anthropic_provider.go`) | none | one HTTP call | error classification | an error is retried iff that can help |

Interactions: collectors call `CollectUsecase`, which calls `PostUsecase.Create`;
that writes the post and, for a self-contained source, its `summary_events` row in
one transaction. The source scheduler (and the trigger of the API) writes the rows
of cumulative sources. Workers claim rows of both kinds; their handlers read posts,
call the LLM and write `summaries`. The score scheduler reads `summaries` and
`scores` and writes `score_events`; its workers read interests, use the embedding
cache and write `scores`, which the feed joins with posts and reactions. Reapers
run beside both pools.

## 2. Modules

| module | what it is |
|---|---|
| `SummaryOutbox` | the lease protocol of `summary_events`: posts with their events, workers, heartbeats, the summarize_post handler, finalization, shutdown, crash, reaper |
| `EventLifecycle` | abstract specification: what the outbox promises of an event, without workers, leases or clocks |
| `SummaryOutboxTimed` | `SummaryOutbox` with the timing its configuration counts on, a bounded number of faults, and fairness |
| `SummaryOutboxProofs` | theorems about `SummaryOutbox` and their proofs |
| `SummaryOutboxTimedProofs` | theorems about `SummaryOutboxTimed`, on top of those |
| `RetryPolicy` | `CalculateBackoff` on integers of bounded width |
| `SourceDigest` | cumulative sources: scheduler, trigger, their transactions and locks, the digest handler and its window |
| `SourceDigestProofs` | theorems about the locks of `SourceDigest` |
| `DigestWindowProofs` | theorems about the windows of `SourceDigest`: which posts a digest holds and which it loses |
| `SourceDueScheduler` | the rounds of the scheduler under a clock that never stops, with requests, failing statements and deadlocks: who is served |
| `CollectWindow` | the input of a digest: `collectWindowPosts` page by page, while posts change |
| `ScoreOutbox` | scoring: `score_events`, due scheduler, workers, embedding cache, reaper, interest requests |
| `ScoreLifecycle` | abstract specification: what scoring promises of events and scores, without workers, leases, scheduler or cache |
| `ScoreOutboxProofs` | theorems about `ScoreOutbox`, its refinement among them |
| `Ingest` | how material becomes posts: collectors, Telegram session, clients, `PostUsecase.Create` |
| `IngestProofs` | theorems about `Ingest` |
| `Feed` | the ranked feed: the query, the reactions, and the page with its overlapping calls |
| `FeedProofs` | theorems about `Feed` |
| `MCSummaryOutbox`, `MCSummaryOutboxTimed`, `MCSourceDigest`, `MCSourceDueScheduler`, `MCScoreOutbox`, `MCIngest`, `MCFeed` | instances for TLC |
| `MCAlgorithms` | `RetryPolicy` and `CollectWindow` side by side for TLC |
| `AlgorithmsProofs` | theorems about both algorithms |

Each module covers its part of the database. They meet at the tables: `Ingest` writes
the events `SummaryOutbox` and `SourceDigest` work off, these write the summaries that
are `Summarize` in `ScoreOutbox`, whose scores are `Upsert` in `Feed`; `CollectWindow`
is the step `Collect` of `SourceDigest` in detail.

### SummaryOutbox and the code

| variable | stands for |
|---|---|
| `row[e]` | the columns `status`, `locked_by`, `locked_until`, `attempt_count`, `next_attempt_at`, `created_at`, `summary_id` of a row, times relative to now |
| `posts`, `summaries` | the tables; a summary is named by the attempt that wrote it |
| `worker[w]` | where the goroutine of worker `w` is, the event and attempt number it was handed by `ClaimOne`, the id its handler returned, whether its context is cancelled, whether `stopCh` is closed |
| `reaping` | what `ListLeaseExpired` returned to the reapers and they have not worked off |
| `overlapped` | history: events claimed while an older run of them was still going on |

| action | code |
|---|---|
| `CreatePost`, `DeletePost` | `PostUsecase.Create` (post and event, one transaction), `postRepo.Delete` with its foreign keys |
| `CheckRunning`, `ClaimOne`, `ClaimNothing`, `ClaimUnanswered` | the loop of `runWorker`; the last is a claim whose answer is lost |
| `Heartbeat` | one tick of `startHeartbeat` |
| `CheckEvent`, `Generate`, `SaveSummary`, `SaveSummaryFails`, `ReadFails` | `ProcessPostEvent`, cut at every point where another process may come between |
| `Finalize`, `Retry`, `Abandon`, `FinalizeFails` | the branches of `finalize` |
| `Stop`, `GracefulTimeout`, `Crash` | `Stop` and the death of the process |
| `ListLeaseExpired`, `FailExpired`, `ReaperGivesUp` | `ReapStuckEvents` |
| `Tick` | time passes |

A statement is one step. `ClaimOne` may take any eligible row: `SKIP LOCKED` makes
it pass over rows of other transactions, so the order of its `ORDER BY` is no
guarantee. Times are relative and saturate where the code stops telling values
apart, so no bound on time is needed. The only bound of the model is `AttemptCap`,
the number of claims of one event: `attempt_count` grows without limit in the code.
What the LLM says is reduced to the five outcomes `finalize` tells apart.

### EventLifecycle

Status, number of tries, result, posts and summaries. An event is enqueued with its
post, tried any number of times, requeued only while it has budget, and given up or
completed once, the latter with a summary that exists then; a post whose summary is
a result cannot be deleted. `SummaryOutbox!ImplementsLifecycle` is the refinement:
worker and lease steps are stutters.

### SummaryOutboxTimed

`SummaryOutbox` lets time pass at any moment, so a lease can always run out. Real
deployments have a lease (5 minutes) far longer than a heartbeat interval (1 minute)
and a statement. `Urgent(w)` says that worker `w` is about to do something short, and
an `Ordinary` tick waits for it. Whatever breaks this is a `Fault`, and `MaxFaults`
bounds their number.

### SourceDigest and the code

| variable | stands for |
|---|---|
| `now` | the clock, shared by all processes and the database |
| `nextAt[s]` | `sources.next_summary_at`, 0 for NULL |
| `event[s]` | the newest summarize_source event: status, `locked_by`, whether its lease is live, whether an attempt stored a digest (history), whether `summary_id` is set |
| `post[p]` | `created_at`, and whether the transaction that creates it has committed |
| `digests[s]` | the source's rows of `summaries` without post: `created_at`, the end of the window, the posts in it and those of the window it left out |
| `sched[p]`, `trig[q]`, `run[w]` | where a call of `ScheduleNextCumulative`, `TriggerSourceSummarize`, `ProcessSourceEvent` is, with its locals |
| `enqueued`, `overlapped` | history: of the last transaction that enqueued an event of the source, whether it was a request by hand, when it read its clock and when it committed; sources whose runs overlapped |

| action | code |
|---|---|
| `ClaimDueCumulative`, `Decide`, `EnqueueDue`, `ScheduleFails` | `ScheduleNextCumulative` with `maybeEnqueueSourceEvent`; the bump shows when the transaction commits |
| `Ask`, `TriggerInsert`, `TriggerLock`, `TriggerCommit`, `TriggerFails` | `TriggerSourceSummarize`: the look outside of the transaction, the INSERT, its foreign key, the bump |
| `Deadlock` | PostgreSQL aborts one of two transactions that wait for each other |
| `StampPost`, `CommitPost` | `PostUsecase.Create`: `created_at` first, the commit later |
| `Claim`, `LeaseRunsOut`, `Reap` | the lease protocol, reduced: an event may be claimed, or reaped, when its lease is over |
| `Begin`, `Collect`, `Generate`, `Save` | `ProcessSourceEvent`: last digest and window, `collectWindowPosts`, the LLM, the INSERT |
| `Finalize`, `Expire`, `Abandon` | the branches of `finalize` for these events |

No variable stands for a lock: PostgreSQL holds row locks and index entries to the end
of a transaction, so `RowLocked` and `IndexLocked` follow from where the transactions
are. The scheduler takes the row (`FOR UPDATE`) and then the index entry, the trigger the
entry and then the row (`FOR KEY SHARE` by the foreign key, then the bump). That is
why the scheduler never meets the unique violation it is prepared for, and why the two
can deadlock. Transactions that create posts hold the row in `FOR KEY SHARE` for a
moment too, which only makes a tick pass over a source; they are left out.

The sizes of posts are abstracted: any newest part of the window may be what fits into
`max_input_chars`. A window is read in one step; the code reads pages of 500 posts.
`Claim`, `Reap` and `Finalize` allow more than the code (no backoff, grace, budget), so
the safety properties do not depend on these.

### SourceDueScheduler and the code

The transactions are those of `SourceDigest`, with the same locks; the digests behind them are
reduced to what the scheduler reads of them.

| variable | stands for |
|---|---|
| `nextAt[s]` | `next_summary_at` relative to the clock, or `created_at` while it is NULL, as in the ORDER BY |
| `active[s]`, `fresh[s]` | the source has a pending or processing event; it has posts since its last digest |
| `sched[p]` | the loop of a scheduler: asleep, in a round, in a transaction, with the next time it will write |
| `trig[q]` | a call of `TriggerSourceSummarize`; a client asks again and again |
| `faults` | the fault budget |

| action | code |
|---|---|
| `Wake` | the end of the sleep of `run` (`task/source_due_scheduler.go`) |
| `ClaimDueCumulative`, `Decide`, `Skip`, `EnqueueDue`, `ScheduleFails` | `ScheduleNextCumulative` and what `tick` does with its result: after an event the round goes on, after a bump alone, an error or no due source it ends |
| `Ask`, `TriggerInsert`, `TriggerLock`, `TriggerCommit`, `TriggerFails`, `Deadlock` | as in `SourceDigest`; a fault takes from the budget, a deadlock does not |
| `PostComes`, `EventEnds` | a post is committed; the event of a source is over, with or without a digest |
| `Tick` | time passes |

The clock has no bound. A time that is past is only ever compared with the clock and with other
times, so `Tick` keeps of the past times their order and nothing else. A source may come due,
be bumped and come due again for ever, which is what starvation takes.

### CollectWindow and the code

`created`, `text`, `rows` are the posts, `limit` is `max_input_chars`, `cursor` the page
token, `parts` the slice `newestFirst`, `reading` says that the loop goes on, `stable` is
history: rows nobody touched since the first page. `ReadPage` is one turn of the loop: a
page of `List` and the loop over its items; `Insert`, `Delete`, `Change` are other
requests between two pages. A text is the sequence of the byte lengths of its runes, so
that `truncateUTF8` has something to cut between.

### ScoreOutbox and the code

| variable | stands for |
|---|---|
| `text[e]` | which summary of a post, or which digest, is the latest: `ScorePost` reads it |
| `interests`, `written` | `interests`, each named by the request that wrote it last; how many writes there were (history) |
| `event[e]` | the last row of `score_events` of a post or a digest: status, attempts, `locked_by`, whether its lease is live |
| `score[e]`, `vector[e]` | the rows of `scores` and `post_embeddings`: what they were computed from |
| `due` | candidates of a tick that are not inserted yet |
| `request[q]`, `run[w]` | where a call of `InterestUsecase`, or `ScorePost` in worker `w`, is, with its locals |
| `missed`, `faults` | history: entities whose re-scoring was lost, with the reason in the action that adds them; the fault budget |

| action | code |
|---|---|
| `Summarize` | the summary outbox saves a summary |
| `ListDue`, `InsertDue`, `TickFails` | `EnqueueDue`: the query and one INSERT per candidate, no transaction |
| `WriteInterest`, `ListScored`, `CommitRescore`, `RescoreRejected`, `RescoreFails` | `InterestUsecase`: the write outside of the transaction, then the transaction |
| `Claim`, `ReadInput`, `ReadInterests`, `GetVector`, `StoreVector`, `StoreScore`, `HandlerError`, `HandlerCancelled` | `ClaimOne` and `ScorePost`, one step per statement or call; the last is an error that wraps a cancellation or a deadline, after which `finalize` writes nothing |
| `Complete`, `Retry`, `Fail`, `Abandon`, `FinalizeFails` | the branches of `finalize` |
| `Stop`, `Expire`, `LoseLease`, `Reap` | shutdown or crash, leases without a clock, the reaper |

The lease protocol is the one of `SummaryOutbox`, where it has its clock; here a lease is
held while its worker works, unless a fault loses it. The delay of a retry is left out:
an event may be claimed at once, which only adds behaviours. The value of a score is what
went into it, so that *stale* and *mixed* can be told; the arithmetic is not modelled.

### ScoreLifecycle

Summaries, interests, and for each entity the status and the tries of its last event,
whether the current try has stored a score (`scored`), and the score. What has a summary is
enqueued unless its event is active, tried any number of times, requeued only while it
has budget, given up, or completed, the latter only once its own try has stored a score. A
score is of a summary that is there, is never removed, mixes no models, and has the
interests in force if it is of their last write. It may be written at any time after an
event was enqueued, because the upsert of the code does not look at the lease.
`ScoreOutbox!ImplementsScoring` is the refinement: `scored` holds the entities whose event is
locked by a worker that is done with it (`StoredAt`), and the steps of the scheduler's
queries, the cache, the leases and the reads of a run are stutters.

### Ingest and the code

| variable | stands for |
|---|---|
| `source`, `post` | the tables |
| `announced`, `written` | how many summarize_post events, and how many rows of `posts`, were ever inserted for an item (history) |
| `published`, `offer` | what has appeared; what a feed or page shows now, newest first |
| `session`, `inbox`, `excused` | the Telegram session, the messages it has received and not handed over; messages a fault met (history) |
| `run[p]` | what a collector, a message handler or a caller of `CreatePost` is doing: the sources left on the page, the page token, the items left in the batch |

| action | code |
|---|---|
| `Tick`, `ListSources`, `ListFails` | `collectAllOfType` |
| `Fetch`, `FetchBroken`, `FetchFails` | the fetchers, `FilterTextItems`, and the one retry of `collectWithRetry` |
| `Take`, `Resolve` | `handle` and `resolve` of the Telegram collector |
| `CreatePost`, `GetSource`, `SavePost`, `Reread`, `SaveOrphan`, `SaveRefused`, `CreateFails` | `PostUsecase.Create` for all of them, and what `CollectItems` does with each result; after a conflict the row is read again and may be gone |
| `Publish`, `AddSource`, `DeleteSource`, `DeletePost` | the world and other requests |
| `SessionEnds`, `Restart` | the session returns; the process starts anew |

### Feed and the code

| variable | stands for |
|---|---|
| `value`, `signal` | `scores`, `post_reactions` |
| `filter`, `items`, `token`, `loading` | the state of the component `FeedView` |
| `load[c]`, `react[c]` | calls in flight: waiting, or served with the answer under way |
| `since`, `muddled` | history: whether the list was asked for alone, with which likes, and what was scored since; posts whose reaction met another call |

| action | code |
|---|---|
| `Refresh`, `ChooseFilter`, `LoadMore`, `Answer`, `LoadFails` | `load` |
| `React`, `ReactDone`, `ReactFails` | `handleReact` with its optimistic mark and its rollback |
| `ServeLoad`, `ServeReact` | `ListRanked`, `reactionRepo.Upsert` |
| `Upsert` | a score worker stores a score |

Posts and digests are rows of one query under one key, as in the code; scores are
integers on a scale on which the like boost is one of the numbers.

## 3. Runs

| run | module and configuration | question | result |
|---|---|---|---|
| outbox | `MCSummaryOutbox` | do the lease and the reaper keep an event consistent whatever happens | holds, 361,990 states |
| outbox_timed | `MCSummaryOutboxTimed` | does every event reach a verdict; does the heartbeat do its work | holds, 88,418 states |
| digest | `MCSourceDigest.cfg` | is a post in two digests, or in none, when runs fail, crash, overlap and posts commit late; do schedulers and requests by hand keep apart | holds, 831,411 states |
| due_rounds | `MCSourceDueScheduler` | does every source with posts get an event, whatever else is due and whoever loses a deadlock | holds, 60,564 states |
| algorithms | `MCAlgorithms` | is the delay min(base * 2^(attempt-1), max), overflow included; is the input of a digest the newest posts that fit | holds, 93,608 states |
| score | `MCScoreOutbox.cfg` | is a score made of things that belong together; is a stale score on its way, or lost for a known reason; is everything scored; is `ScoreLifecycle` implemented | holds, 564,322 states |
| ingest | `MCIngest` | one event per post; is what is offered stored; which messages are lost | holds, 194,040 states |
| feed | `MCFeed.cfg` | does paging end; do the pages make up the feed; is a mark what is stored | holds, 4,591,939 states |
| duplicates | `MCSummaryOutboxDuplicates.cfg` | at most one summary of a post (CON-02, MET-02 of FT-007) | violated |
| digest_apart | `MCSourceDigestApart.cfg` | a full interval between an event requested by hand and the next scheduled one (`biz/summary_usecase.go:68`) | violated |
| rescore | `MCScoreOutboxRescore.cfg` | an interest and its re-scoring commit atomically (`biz/interest.go:97`) | violated |
| feed_pages | `MCFeedPages.cfg` | two pages have neither duplicates nor gaps (SC-02 of FT-020) | violated |

**Bounds.** One event: rows of `summary_events` share nothing but the workers, a
worker holds one at a time, and the theorems of section 4 are for any number. Two
workers: one to lose a lease and one to take it over; `w2` may stop and crash, `w1`
stays, so that something is left to recover. `LeaseTTL` 2 and `Grace` 1 leave room
for live, expired and reapable leases, `MaxAttempts` 2 for a first, a last and an
exhausted attempt, `EventTTL` 6 for an event that expires after a retry, `AttemptCap`
4 for two claims beyond the budget. The backoff is computed by `RetryPolicy`.
In the timed run no behavior reaches `AttemptCap` 8: three faults cost at most that
many extra claims, so the bound cuts nothing off the liveness property.
The algorithms run takes all bases and caps of 6 bits and 8 attempts, past the width;
and three posts with every order of times inside and before the window, texts of one narrow,
one wide and two runes, limits below, at and above what fits, pages of one post and one change
between two pages. Both algorithms end, so deadlock is not checked there.

The digest run has one source, two posts (one before and one in or after a gap; two in
one window, of which one may not fit), two workers that may overlap, two schedulers and a
request by hand, and time up to 3 with `MaxWindow` 2, so that a window may be cut by it.
All of these at once are too many states, so the configuration has a constraint on steps, `Bound`:
either no request has come and one scheduler is at work at a time (`Calm`; in the last instant
one process altogether), or one post has come, one worker is at work and it is not the last instant
(`Small`). The first is where windows, posts, late commits and overlapping runs meet, the second where
transactions meet: two schedulers on one source, a request against either of them, an event
that fails, expires or is completed in between. The run checks safety only, for which a constraint
cuts behaviors and makes none up, and all of its properties are proved without any bound in
section 4. Posts, workers and schedulers are symmetric. After the last instant nothing has to
happen, so deadlock is not checked. The digest_apart run has one of each and no constraint.

The due_rounds run has no bound on time. Two sources are enough for one that has no posts,
comes due again and again and ends the round each time, and one that waits behind it; a scheduler
and a client that asks again and again meet in every order, deadlocks included, and one more
statement may fail. Liveness with two schedulers was too large to check.

The score run has a post and a digest, a worker that stays and one of another model that
may stop, two clients that write interests, each with a model of its own, a `ScanLimit` of 1, below the
number of scored entities, two attempts and one fault: a lease that is lost, a failing statement or
a tick that ends early. The post may be summarized twice. `Surroundings` bounds what meets: either the
second summary of the post or the second client's interest comes, which give a cached vector of another
text or another model, and then there is no digest and `w2` does not stop; or neither comes. It is
a conjunct of the three actions that bring these about, on which there is no fairness, so it takes
no fair step away. A system with nothing due and nothing requested rests, so deadlock is not
checked. The rescore run has two requests and no fault at all.

The ingest run has four sources: a feed that fails every time, a feed behind it that is
added later, a page whose article the database refuses, and a Telegram group. With one source
per page of the listing, every boundary of `collectAllOfType` is met. One
fault and one deletion or addition; a client and a message handler race with the collectors.

The feed run has a post and a digest, two scores one boost apart, a filter that selects
everything and one that does not, pages of one row, two overlapping calls of `load` and
two of reactions, two clicks, one new score and one fault. Every pair of calls can be answered in
either order. The calls are symmetric.

**Fairness** (outbox_timed): time passes when nobody is urgent; every worker that can
take a step of its loop takes one (goroutines are scheduled, statements return), its
heartbeat ticks, and a reaper works off what it has listed. Nothing is assumed of
the environment: not that posts are created, that the LLM answers well, or that a
reaper lists anything at all. `w1` neither crashes nor stops. Weak fairness is enough,
because a worker's step stays enabled until it is taken.

**Fairness** (due_rounds): the clock goes on, a scheduler wakes up after every sleep, a
statement that waits for nothing returns, and PostgreSQL finds a deadlock (`Deadlock` has weak
fairness, either side may be its victim, each time anew). Strong fairness is assumed of the two
statements that wait for another transaction, the INSERT of the scheduler and the foreign key
of a request, for each source: when the transaction they wait for ends, PostgreSQL wakes them, so
others may get the lock first, but not each time. It does not rule deadlocks out: in a deadlock
neither statement is enabled. Nothing is assumed of posts, of requests and of the end of an event.

**Fairness** (score): the scheduler ticks for ever and goes through its list, workers
go on with what they claimed and claim while there is something, and a lease nobody
extends expires. Nothing is assumed of the order in which rows are listed or claimed
(there is no ORDER BY that would give it) nor of the interest requests.

**Fairness** (ingest): the collectors tick for ever and go on with a tick, and the session
hands over every message it has received. Nothing is assumed of the world, of clients and of
restarts. The feed run checks safety only: nothing makes a user click.

**What the violated runs show.**
- *duplicates*: `w1` checks for summaries, its lease runs out during the LLM call, `w2`
  claims, checks and saves, `w1` saves too. The insert (`biz/summary_usecase.go:166`) is
  not guarded by the lease and no unique index of `summaries` stops it. The heartbeat
  makes it rare (`LeaseHeldWithoutFault`), and `RepeatedRunsReuseSummary` shows that
  overlap is the only cause.
- *digest_apart*: a request by hand computes the next time before its transaction
  (`biz/summary_usecase.go:88`). What passes until the commit (the wait for an index entry
  or a row lock) is missing from the interval, and the scheduler enqueues by that much too early.
  `ScheduledApart` says what holds instead: the interval counts from the reading of the clock.
- *rescore*: the query for scored posts (`data/score_outbox_repo.go:234`) does not exclude the
  scores of digests. Their NULL `post_id` is scanned as the zero UUID, the INSERT of its
  event violates the foreign key, and the transaction is rolled back. The interest stays,
  because `interestRepo` writes it through the shared client.
- *feed_pages*: rows are ordered by value plus the like boost, the cursor compares the
  value alone. `PagesMakeTheFeed` shows that a like, overlapping calls of `load` and a new score
  of the row itself are the only causes. The implementation plan of FT-020 notes the
  asymmetry as an open question (OQ-02).

**Disagreements and losses without a run**, seen in the models:
- The window of a digest ends at the time taken before the posts are read, its `created_at` is
  taken after the LLM call, and the next window starts there: a post created while the LLM works
  is in neither. FT-005 prescribes these bounds (spec.md:177); the loss is the first of the gaps
  `OnlyGapsLosePosts` names.
- `ClaimOne` (`data/summary_outbox_repo.go:114`) does not look at `attempt_count`: a run
  that ends without finalizing leaves a processing row that is claimed once more as soon as its
  lease is over, a grace before the reaper would fail it (FM-01 and FM-03 of FT-007
  speak of at most max_attempts).
- `finalize` (`task/event_worker_pool.go:250`) takes `context.DeadlineExceeded` for a
  cancelled pool, and the provider's own timeout wraps that error (REQ-05 of FT-007 wants a
  delayed retry).
- `IsTransientError` (`biz/summary_retry.go:74`) accepts everything but six sentinels, so
  a 4xx answer of the provider is retried (FM-04).
- The loser of a race of two triggers gets `ErrSummaryAlreadyProcessing` instead of the
  winner's event (`biz/summary_usecase.go:93`); against the scheduler it may also be the victim of
  the deadlock.
- When a digest is stored but its answer is lost, the repetition finds no posts and
  completes the event without `summary_id` (`biz/summary_usecase.go:215`).
- `isRunning` and `ClaimOne` are two steps, so a worker may claim one event after `Stop`
  (EC-06 of FT-007 excludes it).
- The comment at `biz/collect.go:28` speaks of the items since the previous cycle; the RSS
  fetcher returns the whole feed every time, and `ON CONFLICT` sorts it out.
- An item the database refuses ends the batch of its source at every tick: what stands
  behind it is not stored (`Offered` excludes it).
- A Telegram session that ends with an error is not started again before the process is.
- A second click on a mark clears the mark but sends the same signal, so the reaction
  stays stored; the rollback of a failed click clears a mark that was there before it.
- Calls of `load` are not sequenced and share `loading`: the answer of an earlier filter may
  replace the list.

## 4. Proofs

`SummaryOutboxProofs` proves, for any number of events and workers and any
configuration that meets `ConstantsAssumption`:

| theorem | statement |
|---|---|
| `TypeCorrect` | `Spec => []TypeOK` |
| `LocksAgree` | `Spec => []LockedWhileProcessing` (lock columns and status agree; a worker runs only an event with a row, in an attempt the row has counted) |
| `Fencing` | `Spec => []LatestAttemptOwns` |
| `RetryBudget` | `Spec => []PendingHasBudget` |
| `CompletionIsBacked` | `Spec => []CompletedIsSummarized` |
| `Resolution` | `Spec => ResolvedByLatestAttempt` |
| `Finality` | `Spec => VerdictIsFinal` |
| `Refinement` | `Spec => ImplementsLifecycle` |
| `Reuse` | `Spec => []RepeatedRunsReuseSummary` |

They rest on one inductive invariant, `IInv`: the invariants above with three facts
they need and that no run lists as properties. A worker that runs something
runs an event, and what it will write as a result is a summary's name (`RunsAreKnown`). Attempt
numbers only grow and a claim takes a fresh one, so two runs of one event never have
the same number and the run of the owner has the largest: that is why `locked_by`,
without the attempt number, is enough as a fencing token. And a result refers to a
summary of a post that exists (`DataIsAnchored`), which `DeletePost` keeps because it
refuses to delete a post whose event has a result, and `FinalizeWithLease` because the
foreign key checks the summary. Each of the parts is preserved by a lemma of its own
(`NextRunsKnown`, `NextLatestOwns`, `NextAnchored`, `NextCompleted`), with one step per
action; `RowSteps` lists the ways a step may change a row and is shared by them, by the
action properties and by the refinement.

`Reuse` has an invariant of its own on top of it, `ReuseInv`: while no claim overlaps a run,
an event has one run at a time, the run that is past `CheckEvent` and may still insert has
found no summary, and so there is never a second one. A claim that overlaps puts the event into
`overlapped`, and nothing else touches that set (`OverlapSteps`).

`SummaryOutboxTimedProofs` proves, for any number of events and workers, any configuration that
meets `ConstantsAssumption` and any bound of faults:

| theorem | statement |
|---|---|
| `TimedImplementsOutbox` | `TimedSpec => Spec` |
| `LeaseIsHeld` | `TimedSpec => []LeaseHeldWithoutFault` |

A timed step is a step of `SummaryOutbox`, so all theorems above hold of `SummaryOutboxTimed`.
`CalmInv` strengthens the second: until the first fault every run owns its event under a live
lease and no claim has overlapped a run. It is inductive because time does not pass while a
worker is between two statements or a heartbeat is due that would save its lease (`Urgent`),
and an event under a live lease is not claimed. From the empty `overlapped` and `Reuse`
follows that there is one summary at most.

Assumed: the constants' types, that worker ids never come back (a process draws a new
UUID), and that each statement is atomic.

`SourceDigestProofs` proves, for any number of sources, schedulers, requests and workers
and any intervals that meet `DigestAssumption`:

| theorem | statement |
|---|---|
| `InsertsFreely` | `Spec => []SchedulerInsertsFreely` |
| `KeepsApart` | `Spec => []ScheduledApart` |

Its `IInv` says what the locks give: no two transactions of schedulers, and no scheduler
and committing request, are about the same source (`RowLocks`), so a source stays due and
without an active event from the look to the INSERT; only a processed event has an owner
(`OwnedIsProcessing`), so a late verdict cannot make an event active again; and
`next_summary_at` is at least an interval after the time at which the last transaction that
enqueued an event read its clock (`LastBehind`). The three groups of lemmas follow the three groups of actions.

`DigestWindowProofs` builds on it, for any number of posts as well:

| theorem | statement |
|---|---|
| `TypeCorrect` | `Spec => []TypeOK` |
| `WindowsDisjoint` | `Spec => []DigestsDisjoint` |
| `GapsExplained` | `Spec => []OnlyGapsLosePosts` |

`DigestsDisjoint` is not inductive: what a run is about to store is nowhere in it. `PoolInv`
follows the window from the last digest to the next one. A digest is stored after its window has
ended and holds posts from before that end (`DigestsInOrder`). The window of a run starts at
some digest, where `max_window` cuts it, or at the beginning (`WindowIsKnown`); what the run
carries is all of that window, taken or left out (`WindowIsCollected`), and stays so because
a post that is created later is stamped after the window's end. If the source never
overlapped, the run is its only one and starts at or after every digest (`WindowFollows`), so
what it stores is disjoint from them (`StoredIsDisjoint`). And a post with no digest after it is
in the window, or one of the three gaps, of the digest that is stored next
(`StoredAccounts`); from then on that digest is the first after the post (`GapsAreKnown`), also
when runs overlap. `TypeOK` needs `Bounded` in addition: nothing is planned further ahead than an
interval after the clock.

`ScoreOutboxProofs` proves, for any number of entities, workers, models and interest
requests and any limit that meets `ScoreAssumption`:

| theorem | statement |
|---|---|
| `TypeCorrect` | `Spec => []TypeOK` |
| `ScoresAreCoherent` | `Spec => []ScoreIsCoherent` |
| `StaleScoresExplained` | `Spec => []StaleScoreExplained` |
| `Refinement` | `Spec => ImplementsScoring` |

A score is coherent because what a worker carries is (`RunIsCoherent`): the models are compared
when the interests are read, and the vector is either the hit or the one just computed.
For staleness the invariant dates scores, runs and requests by `written`. A score of the
last date has the interests in force (`WritesAreCounted`); a score of an earlier date
belongs to an entity that is in `missed`, has an active event, or is covered by the one
request that wrote last, which has listed it or is still to (`WritesAreRequested`,
`LastWriteReaches`); and a run of the last date leaves a score of the last date unless another
run overwrites it (`FreshRunsScore`).

The refinement needs one more invariant, `RunsAreKnown`: what a worker runs has an event
and a summary at least as new as the one it read, and a run that is done has left a
score. With it every action has a lemma that gives its abstract step: `EnqueueSimulation` (the
inserts of the scheduler and of an interest request, any number in one step), `ClaimSimulation`,
`StoreSimulation`, `EndSimulation` (the four verdicts) and `ForgetSimulation` (a run that ends
without one); `StoredFrame` says when a step leaves `scored` alone.

`FeedProofs` proves, for any ids, scores, boost, filters, page size and number of calls:

| theorem | statement |
|---|---|
| `TypeCorrect` | `Spec => []TypeOK` |
| `CursorsDescend` | `Spec => []CursorDescends` |
| `MarksAreStored` | `Spec => []MarkIsStored` |
| `PagesAreTheFeed` | `Spec => []PagesMakeTheFeed` |

`MarkInv` says that a post that is not muddled has at most one reaction in flight and then no call
of the feed, that a served reaction is stored and that the cards agree with it. `PageInv`
says that while the list was asked for alone and no like was seen, there is at most one call
of the feed, no like is stored, a served page holds every row between its cursors once
(`PageHolds`), and the list holds every row down to its token (`ListHolds`). Without likes
the order of the rows is the order of the cursor, which is the lemma the rest hangs on.

`IngestProofs` proves, for any finite set of sources, any items and processes and any number
of faults and edits:

| theorem | statement |
|---|---|
| `OneEventPerInsertedPost` | `Spec => []OneEventPerPost` |
| `WritersHoldTheirItems` | `Spec => []TypeOK` |

The first needs the types of the counters only. `TypeOK` says of a process that reads the source
of a post or writes one that its items have text and belong to that source, and that is not
inductive: `TypeInv` adds that a feed offers items of its own source (`Offers`) and that
a process that fetches has a source and one that resolves is a handler with one message
(`Sound`). `FilterKeeps` (what `FilterTextItems` returns is of the same source and has text)
is by induction over its loop; `NextToken` says that a page that is not the whole listing
has a last source, because a listing that is not empty has a first one and is finite.

`AlgorithmsProofs` proves, for every width, base, cap and attempt, and for every table of
posts, limit, page size and number of changes:

| theorem | statement |
|---|---|
| `BackoffIsExponential` | `Spec => []CappedExponential` |
| `WindowInvariant` | `Spec => []WindowInv` |
| `InputAlwaysFits` | `Spec => []InputFits` |
| `CutIsNewest` | `Spec => []OnlyNewestIsCut` |
| `InputIsTheNewest` | `Spec => []InputIsNewest` |

The algorithms are loops, and the models write them as recursive functions. What holds of each
turn is proved by induction in a form the provers can use: over the set of the numbers
it holds for (`Induct`, from the fact that < is well-founded on the naturals). That such a
function exists at all is proved first, by the same induction (`Recursion`, `SumExists`, `WayBackExists`,
`VisitsExist`).

For the delay, `DelayIs` says that after i turns the loop either holds base * 2^i, not above
the cap, or has given up because that product is above it; a doubling that leaves the range
comes back smaller than what was doubled (`WrapDouble`), which is what the loop looks at.

For the window, `WindowInv` is inductive: the parts stand in the order of the table
(`PartsSorted`), the cursor is the last of them (`CursorIsLast`), every post that nobody
changed and that is not behind the last part is among them (`StableIsTaken`), and while there was no change at all
they are exactly the first posts of the window (`QuietPrefix`); `QuietEnd` says why the reading
ended. `InputIsNewest` follows from these and is not inductive alone: that a later page
leaves no gap is known only through the cursor. A page is walked by `GatherEnds`, its order by
`NewestFirstSorted`, and its end by `BehindIsRest`.

Only model-checked: liveness (`EveryEventGetsVerdict`, `PostsGetAnEvent`, `SchedulerGetsOn`,
`EverySummaryIsScored`, `OfferedIsCollected`, `MessagesAreKept`), which is
out of the prover's reach. Every invariant and every safety property of a step that a run checks is a
theorem.

## 5. Plan

1. An abstract specification of `SourceDigest`: posts flow into at most one digest.
2. The read marks of the feed page in several tabs, which overwrite each other's set in the
   local storage.

## 6. Not modelled

Of the implementation's lines about two thirds are generated (`ent/`, `api/`, `conf/`,
wire) and have no logic of their own; what is left holds, beside the parts above, mocks,
configuration, the command line client, rendering in the web UI, the translation of
requests (`service/`, `server/`), and the parsing of HTML, RSS, Telegram messages and
provider replies. None of it keeps state between steps or meets another actor, so the models cover
a small share of the lines and most of the state changes.

Also left out:
- Texts, embeddings and their arithmetic; the value of a score is what it was computed from.
- Deleting a whole source in `SummaryOutbox` and `SourceDigest`. A source with posts
  cannot be deleted (`posts.source_id` is ON DELETE RESTRICT), one without posts takes its
  digests and events with it (CASCADE). `Ingest` has the deletion.
- Deleting posts while the feed page is open or while they are scored (CASCADE removes score and event).
- The read marks of the feed page (`FeedView.tsx`, the hook `useReadPosts`) and the other views, which load a list as
  the feed page does.
- Telegram's login and session storage (one write of a file that is not atomic), the
  retry and flood waits inside the Telegram library, the command line's settings.
- The choice of an LLM provider: it is static and its errors are those of `Generate`.
- Skewed clocks. All processes share one clock in the models; `MarkForRetry` gets its time
  from the process and compares it with the database's.
