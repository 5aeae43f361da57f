------------------------- MODULE SummaryOutboxProofs -------------------------
(***************************************************************************)
(* Theorems about SummaryOutbox, for every number of events and workers    *)
(* and every value of the constants.                                       *)
(***************************************************************************)
EXTENDS SummaryOutbox, FiniteSetTheorems, TLAPS

(* A worker that runs something runs an event, and what it is about to     *)
(* write as summary_id is the name of a summary.                           *)
RunsAreKnown ==
    \A w \in Workers :
        /\ worker[w].pc \in Busy => worker[w].event \in Events
        /\ worker[w].pc = "ok" => worker[w].summary \in Attempts

(* Summaries belong to posts that exist, and an event without a row has no *)
(* attempt yet.                                                            *)
DataIsAnchored ==
    \A e \in Events : /\ summaries[e] # {} => e \in posts
                      /\ row[e].status = "absent" => row[e].attempts = 0

IInv == /\ TypeOK
        /\ LockColumns
        /\ RunsAreKnown
        /\ LatestAttemptOwns
        /\ PendingHasBudget
        /\ DataIsAnchored
        /\ CompletedIsSummarized

------------------------------------------------------------------------------
(* The initial state satisfies the inductive invariant.                    *)
LEMMA InitIInv == Init => IInv
<1> USE ConstantsAssumption
<1> SUFFICES ASSUME Init PROVE IInv
  OBVIOUS
<1>1. TypeOK
  BY DEF Init, TypeOK, NewRow, IdleWorker, Rows, WorkerStates, Statuses,
         Terminal, Places, Attempts
<1>2. \A w \in Workers : worker[w].pc \notin Busy
  BY DEF Init, IdleWorker, Busy, Handling, Returned
<1>3. QED
  BY <1>1, <1>2 DEF Init, IInv, LockColumns, RunsAreKnown, Runs,
     LatestAttemptOwns, PendingHasBudget, DataIsAnchored,
     CompletedIsSummarized, NewRow, Busy, Handling, Returned

(* Records a step builds: a row that is older, locked or unlocked, and the *)
(* state of a worker that is back at the top of its loop.                  *)
LEMMA LaterIsRow == ASSUME NEW r \in Rows PROVE Later(r) \in Rows
<1> USE ConstantsAssumption DEF Rows
<1>1. (IF r.lockedBy = NoWorker \/ r.lockedFor < -Grace
       THEN r.lockedFor ELSE r.lockedFor - 1) \in Int
  OBVIOUS
<1>2. (IF r.retryIn = 0 THEN 0 ELSE r.retryIn - 1) \in Nat
  OBVIOUS
<1>3. (IF r.status = "absent" \/ r.age > EventTTL
       THEN r.age ELSE r.age + 1) \in Nat
  OBVIOUS
<1> QED
  BY <1>1, <1>2, <1>3 DEF Later

(* A row with one column written anew is a row.                            *)
LEMMA RowFields ==
    ASSUME NEW r \in Rows
    PROVE  /\ \A v \in Statuses : [r EXCEPT !.status = v] \in Rows
           /\ \A v \in Workers \cup {NoWorker} : [r EXCEPT !.lockedBy = v] \in Rows
           /\ \A v \in Int : [r EXCEPT !.lockedFor = v] \in Rows
           /\ \A v \in 0 .. AttemptCap : [r EXCEPT !.attempts = v] \in Rows
           /\ \A v \in Nat : [r EXCEPT !.retryIn = v] \in Rows
           /\ \A v \in 0 .. AttemptCap : [r EXCEPT !.summary = v] \in Rows
BY DEF Rows

(* A worker with one local written anew is a worker.                       *)
LEMMA WorkerFields ==
    ASSUME NEW s \in WorkerStates
    PROVE  /\ \A v \in Places : [s EXCEPT !.pc = v] \in WorkerStates
           /\ \A v \in Events \cup {NoEvent} : [s EXCEPT !.event = v] \in WorkerStates
           /\ \A v \in 0 .. AttemptCap : [s EXCEPT !.attempt = v] \in WorkerStates
           /\ \A v \in 0 .. AttemptCap : [s EXCEPT !.summary = v] \in WorkerStates
           /\ \A v \in BOOLEAN : [s EXCEPT !.cancelled = v] \in WorkerStates
           /\ \A v \in BOOLEAN : [s EXCEPT !.stopping = v] \in WorkerStates
BY DEF WorkerStates

(* A row without its lock is a row.                                        *)
LEMMA UnlockedIsRow == ASSUME NEW r \in Rows PROVE Unlocked(r) \in Rows
<1> DEFINE q == [r EXCEPT !.lockedBy = NoWorker]
<1>1. q \in Rows
  BY RowFields
<1> HIDE DEF q
<1>2. [q EXCEPT !.lockedFor = 0] \in Rows
  BY <1>1, RowFields
<1> QED
  BY <1>2 DEF Unlocked, q

(* A worker at the top of its loop.                                        *)
LEMMA IdleIsState ==
    ASSUME NEW pc \in Places, NEW s \in BOOLEAN
    PROVE  /\ IdleWorker \in WorkerStates
           /\ [IdleWorker EXCEPT !.pc = pc] \in WorkerStates
           /\ [IdleWorker EXCEPT !.stopping = s] \in WorkerStates
<1>1. 0 \in 0 .. AttemptCap
  BY ConstantsAssumption
<1> QED
  BY <1>1 DEF IdleWorker, WorkerStates, Places

(* The end of a run leaves workers with their shape.                       *)
LEMMA ReleaseTyped ==
    ASSUME TypeOK, NEW w \in Workers, Release(w)
    PROVE  worker' \in [Workers -> WorkerStates]
<1>1. worker[w].stopping \in BOOLEAN
  BY DEF TypeOK, WorkerStates
<1>2. [IdleWorker EXCEPT !.stopping = worker[w].stopping] \in WorkerStates
  BY <1>1, IdleIsState DEF Places
<1> QED
  BY <1>2 DEF Release, TypeOK

(* So does a step inside a run.                                            *)
LEMMA GotoTyped ==
    ASSUME TypeOK, NEW w \in Workers, NEW pc \in Places, Goto(w, pc)
    PROVE  worker' \in [Workers -> WorkerStates]
BY DEF Goto, TypeOK, WorkerStates

(* A claim leaves rows with their shape, and its number in bounds.         *)
LEMMA ClaimedTyped ==
    ASSUME TypeOK, NEW w \in Workers, NEW e \in Eligible
    PROVE  /\ Claimed(w, e) \in [Events -> Rows]
           /\ row[e].attempts + 1 \in Attempts
<1>1. e \in Events /\ row[e] \in Rows /\ row[e].attempts + 1 \in Attempts
  BY ConstantsAssumption DEF Eligible, TypeOK, Rows, Attempts
<1> DEFINE n == row[e].attempts + 1
           a == [row[e] EXCEPT !.status = "processing"]
           b == [a EXCEPT !.lockedBy = w]
           c == [b EXCEPT !.lockedFor = LeaseTTL]
           d == [c EXCEPT !.attempts = n]
<1>2. a \in Rows
  BY <1>1, RowFields DEF Statuses
<1>3. n \in 0 .. AttemptCap
  BY <1>1 DEF Attempts
<1> HIDE DEF n, a
<1>4. b \in Rows
  BY <1>2, RowFields
<1> HIDE DEF b
<1>5. c \in Rows
  BY <1>4, RowFields, ConstantsAssumption
<1> HIDE DEF c
<1>6. d \in Rows
  BY <1>3, <1>5, RowFields
<1>7. Claimed(w, e) = [row EXCEPT ![e] = d]
  BY DEF Claimed, a, b, c, d, n
<1> HIDE DEF d
<1> QED
  BY <1>1, <1>6, <1>7 DEF TypeOK

(* A worker that runs an event holds the number of an attempt.             *)
LEMMA BusyFacts ==
    ASSUME IInv, NEW w \in Workers, worker[w].pc \in Busy
    PROVE  /\ worker[w].event \in Events
           /\ worker[w].attempt \in Attempts
           /\ worker[w].attempt <= row[worker[w].event].attempts
<1>1. worker[w].event \in Events
  BY DEF IInv, RunsAreKnown
<1>2. row[worker[w].event].attempts \in 0 .. AttemptCap
  BY <1>1 DEF IInv, TypeOK, Rows
<1>3. worker[w].attempt \in 1 .. row[worker[w].event].attempts
  BY <1>1 DEF IInv, LatestAttemptOwns, Runs
<1> QED
  BY <1>1, <1>2, <1>3, ConstantsAssumption DEF Attempts

(* Every step keeps the types.                                             *)
LEMMA NextTypeOK == IInv /\ [Next]_vars => TypeOK'
<1> SUFFICES ASSUME IInv, [Next]_vars PROVE TypeOK'
  OBVIOUS
<1>t. TypeOK
  BY DEF IInv
<1>1. CASE Tick
  BY <1>1, <1>t, LaterIsRow DEF Tick, TypeOK
<1>2. ASSUME NEW e \in Events, CreatePost(e) PROVE TypeOK'
  BY <1>2, <1>t DEF CreatePost, TypeOK, Rows, Statuses
<1>3. ASSUME NEW e \in Events, DeletePost(e) PROVE TypeOK'
  BY <1>3, <1>t DEF DeletePost, TypeOK
<1>4. ASSUME NEW w \in Workers, CheckRunning(w) PROVE TypeOK'
  <2>1. \E pc \in Places : Goto(w, pc)
    BY <1>4 DEF CheckRunning, Places
  <2> QED
    BY <1>4, <1>t, <2>1, GotoTyped DEF CheckRunning, TypeOK
<1>5. ASSUME NEW w \in Workers, ClaimNothing(w) PROVE TypeOK'
  BY <1>5, <1>t, ReleaseTyped DEF ClaimNothing, TypeOK
<1>6. ASSUME NEW w \in Workers, NEW e \in Events, ClaimOne(w, e) PROVE TypeOK'
  <2>1. row' \in [Events -> Rows] /\ row[e].attempts + 1 \in Attempts
    BY <1>6, <1>t, ClaimedTyped DEF ClaimOne
  <2> DEFINE n == row[e].attempts + 1
             a == [worker[w] EXCEPT !.pc = "check"]
             b == [a EXCEPT !.event = e]
             c == [b EXCEPT !.attempt = n]
  <2>2. n \in 0 .. AttemptCap
    BY <2>1 DEF Attempts
  <2>3. a \in WorkerStates
    BY <1>t, WorkerFields DEF TypeOK, Places, Busy, Handling
  <2>4. worker' = [worker EXCEPT ![w] = c]
    BY <1>6 DEF ClaimOne
  <2> HIDE DEF n, a
  <2>5. b \in WorkerStates
    BY <2>3, WorkerFields
  <2> HIDE DEF b
  <2>6. c \in WorkerStates
    BY <2>2, <2>5, WorkerFields
  <2> HIDE DEF c
  <2> QED
    BY <1>6, <1>t, <2>1, <2>4, <2>6 DEF ClaimOne, TypeOK
<1>7. ASSUME NEW w \in Workers, NEW e \in Events, ClaimUnanswered(w, e)
      PROVE  TypeOK'
  BY <1>7, <1>t, ClaimedTyped, ReleaseTyped DEF ClaimUnanswered, TypeOK
<1>8. ASSUME NEW w \in Workers, Heartbeat(w) PROVE TypeOK'
  <2>1. CASE OwnsLease(w, worker[w].event)
    <3>0. worker[w].event \in Events
      BY <1>8, BusyFacts DEF Heartbeat
    <3>1. row' \in [Events -> Rows]
      BY <1>8, <1>t, <2>1, <3>0, RowFields, ConstantsAssumption
         DEF Heartbeat, TypeOK
    <3> QED
      BY <1>8, <1>t, <2>1, <3>1 DEF Heartbeat, TypeOK
  <2>2. CASE ~OwnsLease(w, worker[w].event)
    BY <1>8, <1>t, <2>2 DEF Heartbeat, TypeOK, WorkerStates
  <2> QED
    BY <2>1, <2>2
<1>9. ASSUME NEW w \in Workers, CheckEvent(w) \/ Generate(w) \/ ReadFails(w)
      PROVE  TypeOK'
  <2>1. CASE \E pc \in Places : Goto(w, pc)
    BY <1>9, <1>t, <2>1, GotoTyped DEF CheckEvent, Generate, ReadFails, TypeOK
  <2>2. ASSUME NEW s \in summaries[worker[w].event],
               worker' = [worker EXCEPT ![w] = [worker[w] EXCEPT
                                          !.pc = "ok", !.summary = s]],
               CheckEvent(w)
        PROVE  TypeOK'
    <3>1. worker[w].event \in Events
      BY <2>2, BusyFacts DEF CheckEvent, Busy, Handling
    <3>2. s \in 0 .. AttemptCap
      BY <1>t, <3>1 DEF TypeOK, Attempts
    <3> DEFINE a == [worker[w] EXCEPT !.pc = "ok"]
               b == [a EXCEPT !.summary = s]
    <3>3. a \in WorkerStates
      BY <1>t, WorkerFields DEF TypeOK, Places, Busy, Returned
    <3>4. worker' = [worker EXCEPT ![w] = b]
      BY <2>2
    <3> HIDE DEF a
    <3>5. b \in WorkerStates
      BY <3>2, <3>3, WorkerFields
    <3> HIDE DEF b
    <3> QED
      BY <1>t, <2>2, <3>4, <3>5 DEF TypeOK, CheckEvent
  <2>3. CASE CheckEvent(w)
    BY <2>1, <2>2, <2>3 DEF CheckEvent, Places, Busy, Handling, Returned
  <2>4. CASE Generate(w) \/ ReadFails(w)
    BY <2>1, <2>4 DEF Generate, ReadFails, Places, Busy, Handling, Returned
  <2> QED
    BY <1>9, <2>3, <2>4
<1>10. ASSUME NEW w \in Workers, SaveSummary(w) \/ SaveSummaryFails(w)
       PROVE  TypeOK'
  <2>1. worker[w].event \in Events /\ worker[w].attempt \in Attempts
    BY <1>10, BusyFacts DEF SaveSummary, SaveSummaryFails, Busy, Handling
  <2>2. summaries' \in [Events -> SUBSET Attempts]
    BY <1>10, <1>t, <2>1 DEF SaveSummary, SaveSummaryFails, TypeOK
  <2>3. worker[w].attempt \in 0 .. AttemptCap
    BY <2>1 DEF Attempts
  <2>4. worker' \in [Workers -> WorkerStates]
    <3>1. CASE SaveSummary(w)
      BY <3>1, <1>t, <2>3
         DEF SaveSummary, TypeOK, WorkerStates, Places, Busy, Returned
    <3>2. CASE SaveSummaryFails(w)
      BY <3>2, <1>t, GotoTyped DEF SaveSummaryFails, Places, Busy, Returned
    <3> QED
      BY <1>10, <3>1, <3>2
  <2> QED
    BY <1>10, <1>t, <2>2, <2>4 DEF SaveSummary, SaveSummaryFails, TypeOK
<1>11. ASSUME NEW w \in Workers, Finalize(w) PROVE TypeOK'
  <2>1. worker[w].event \in Events
    BY <1>11, BusyFacts DEF Finalize, Busy, Returned
  <2>2. Unlocked(row[worker[w].event]) \in Rows
    BY <1>t, <2>1, UnlockedIsRow DEF TypeOK
  <2>3. ASSUME NEW st \in Statuses, NEW sm \in 0 .. AttemptCap,
               FinalizeWithLease(w, worker[w].event, st, sm)
        PROVE  row' \in [Events -> Rows]
    <3>1. [Unlocked(row[worker[w].event]) EXCEPT
             !.status = st, !.summary = IF sm = 0 THEN @ ELSE sm] \in Rows
      BY <2>2, <2>3 DEF Rows
    <3> QED
      BY <1>t, <2>1, <2>3, <3>1 DEF FinalizeWithLease, TypeOK
  <2>4. 0 \in 0 .. AttemptCap /\ worker[w].summary \in 0 .. AttemptCap
    BY <1>t, ConstantsAssumption DEF TypeOK, WorkerStates
  <2>5. row' \in [Events -> Rows]
    BY <1>11, <2>3, <2>4 DEF Finalize, Statuses, Terminal
  <2> QED
    BY <1>11, <1>t, <2>5, ReleaseTyped DEF Finalize, TypeOK
<1>12. ASSUME NEW w \in Workers, Retry(w) PROVE TypeOK'
  <2>1. worker[w].event \in Events /\ worker[w].attempt \in Attempts
    BY <1>12, BusyFacts DEF Retry, Busy, Returned
  <2>2. Unlocked(row[worker[w].event]) \in Rows
    BY <1>t, <2>1, UnlockedIsRow DEF TypeOK
  <2>3. Backoff[worker[w].attempt] \in Nat
    BY <2>1, ConstantsAssumption DEF Attempts
  <2>4. [Unlocked(row[worker[w].event]) EXCEPT
           !.status = "pending", !.retryIn = Backoff[worker[w].attempt]] \in Rows
    BY <2>2, <2>3 DEF Rows, Statuses
  <2>5. row' \in [Events -> Rows]
    BY <1>12, <1>t, <2>1, <2>4 DEF Retry, MarkForRetry, TypeOK
  <2> QED
    BY <1>12, <1>t, <2>5, ReleaseTyped DEF Retry, TypeOK
<1>13. ASSUME NEW w \in Workers, Abandon(w) \/ FinalizeFails(w) PROVE TypeOK'
  BY <1>13, <1>t, ReleaseTyped DEF Abandon, FinalizeFails, TypeOK
<1>14. ASSUME NEW w \in Workers, Stop(w) \/ GracefulTimeout(w) PROVE TypeOK'
  <2>1. /\ [worker[w] EXCEPT !.stopping = TRUE] \in WorkerStates
        /\ [worker[w] EXCEPT !.cancelled = TRUE] \in WorkerStates
    BY <1>t, WorkerFields DEF TypeOK
  <2> QED
    BY <1>14, <1>t, <2>1 DEF Stop, GracefulTimeout, TypeOK
<1>15. ASSUME NEW w \in Workers, Crash(w) PROVE TypeOK'
  BY <1>15, <1>t, IdleIsState DEF Crash, TypeOK, Places
<1>16. CASE ListLeaseExpired \/ ReaperGivesUp
  BY <1>16, <1>t DEF ListLeaseExpired, ReaperGivesUp, TypeOK
<1>17. ASSUME NEW e \in Events, FailExpired(e) PROVE TypeOK'
  <2>1. [Unlocked(row[e]) EXCEPT !.status = "failed"] \in Rows
    BY <1>t, UnlockedIsRow DEF TypeOK, Rows, Statuses, Terminal
  <2> QED
    BY <1>17, <1>t, <2>1 DEF FailExpired, TypeOK
<1>18. CASE UNCHANGED vars
  BY <1>18, <1>t DEF vars, TypeOK
<1> QED
  BY <1>1, <1>2, <1>3, <1>4, <1>5, <1>6, <1>7, <1>8, <1>9, <1>10, <1>11,
     <1>12, <1>13, <1>14, <1>15, <1>16, <1>17, <1>18 DEF Next, Handler

------------------------------------------------------------------------------
(* What a step may do to the row of an event: leave it (but for the        *)
(* clocks), create it, lease it, let its owner resolve it, fail it.        *)
Kept(e) ==
    /\ row'[e].status = row[e].status
    /\ row'[e].lockedBy = row[e].lockedBy
    /\ row'[e].attempts = row[e].attempts
    /\ row'[e].summary = row[e].summary
    /\ row[e].lockedBy = NoWorker => row'[e].lockedFor = row[e].lockedFor

Created(e) ==
    /\ CreatePost(e)
    /\ row[e].status = "absent"
    /\ row'[e].status = "pending"
    /\ row'[e].lockedBy = row[e].lockedBy
    /\ row'[e].lockedFor = row[e].lockedFor
    /\ row'[e].attempts = row[e].attempts
    /\ row'[e].summary = row[e].summary

Leased(w, e) ==
    /\ e \in Eligible
    /\ ClaimOne(w, e) \/ (ClaimUnanswered(w, e) /\ worker'[w].pc = "idle")
    /\ row'[e].status = "processing"
    /\ row'[e].lockedBy = w
    /\ row'[e].attempts = row[e].attempts + 1
    /\ row'[e].summary = row[e].summary

Resolved(w, e) ==
    /\ OwnsLease(w, e)
    /\ Runs(w, e)
    /\ worker'[w].pc = "idle"
    /\ row'[e].lockedBy = NoWorker
    /\ row'[e].lockedFor = 0
    /\ row'[e].attempts = row[e].attempts
    /\ UNCHANGED <<posts, summaries>>
    /\ \/ /\ row'[e].status = "pending" /\ ShouldRetry(worker[w].attempt)
          /\ row'[e].summary = row[e].summary
       \/ /\ row'[e].status \in {"failed", "expired"}
          /\ row'[e].summary = row[e].summary
       \/ /\ row'[e].status = "completed"
          /\ row'[e].summary \in summaries[e]

Failed(e) ==
    /\ MayFail(e)
    /\ row'[e].status = "failed"
    /\ row'[e].lockedBy = NoWorker
    /\ row'[e].lockedFor = 0
    /\ row'[e].attempts = row[e].attempts
    /\ row'[e].summary = row[e].summary

(* The steps that write rows.                                              *)
LEMMA RowWriters ==
    ASSUME [Next]_vars
    PROVE  \/ UNCHANGED row
           \/ Tick
           \/ \E e \in Events : CreatePost(e) \/ FailExpired(e)
           \/ \E w \in Workers : \/ Heartbeat(w) \/ Finalize(w) \/ Retry(w)
                                 \/ \E e \in Events : \/ ClaimOne(w, e)
                                                      \/ ClaimUnanswered(w, e)
<1>1. ASSUME NEW w \in Workers, Handler(w) PROVE UNCHANGED row
  BY <1>1 DEF Handler, CheckEvent, Generate, SaveSummary, SaveSummaryFails,
     ReadFails
<1>2. ASSUME NEW w \in Workers,
             \/ CheckRunning(w) \/ ClaimNothing(w) \/ Abandon(w)
             \/ FinalizeFails(w) \/ Stop(w) \/ GracefulTimeout(w) \/ Crash(w)
      PROVE  UNCHANGED row
  BY <1>2 DEF CheckRunning, ClaimNothing, Abandon, FinalizeFails, Stop,
     GracefulTimeout, Crash
<1>3. ASSUME NEW e \in Events, DeletePost(e) PROVE UNCHANGED row
  BY <1>3 DEF DeletePost
<1>4. CASE ListLeaseExpired \/ ReaperGivesUp
  BY <1>4 DEF ListLeaseExpired, ReaperGivesUp
<1>5. CASE UNCHANGED vars
  BY <1>5 DEF vars
<1> QED
  BY <1>1, <1>2, <1>3, <1>4, <1>5 DEF Next

(* Leaving the loop's body leaves the run.                                 *)
LEMMA ReleaseIdles ==
    ASSUME TypeOK, NEW w \in Workers, Release(w)
    PROVE  worker'[w].pc = "idle"
BY DEF Release, TypeOK, IdleWorker

(* What a step does to a row is one of five things.                        *)
LEMMA RowSteps ==
    ASSUME IInv, [Next]_vars, NEW e \in Events
    PROVE  \/ Kept(e) \/ Created(e) \/ Failed(e)
           \/ \E w \in Workers : Leased(w, e) \/ Resolved(w, e)
<1>t. TypeOK /\ row[e] \in Rows
  BY DEF IInv, TypeOK
<1>1. CASE UNCHANGED row
  BY <1>1 DEF Kept
<1>2. CASE Tick
  BY <1>2, <1>t DEF Tick, Later, Kept, Rows
<1>3. ASSUME NEW f \in Events, CreatePost(f) PROVE Kept(e) \/ Created(e)
  BY <1>3, <1>t DEF CreatePost, Kept, Created, TypeOK, Rows
<1>4. ASSUME NEW f \in Events, FailExpired(f) PROVE Kept(e) \/ Failed(e)
  <2>1. CASE f = e /\ MayFail(e)
    <3>1. row'[e] = [Unlocked(row[e]) EXCEPT !.status = "failed"]
      BY <1>4, <1>t, <2>1 DEF FailExpired, TypeOK
    <3> QED
      BY <1>t, <2>1, <3>1 DEF Failed, Unlocked, Rows
  <2>2. CASE ~(f = e /\ MayFail(e))
    BY <1>4, <1>t, <2>2 DEF FailExpired, Kept, TypeOK
  <2> QED
    BY <2>1, <2>2
<1>5. ASSUME NEW w \in Workers, Heartbeat(w) PROVE Kept(e)
  <2>1. CASE row' = [row EXCEPT ![worker[w].event].lockedFor = LeaseTTL]
             /\ OwnsLease(w, worker[w].event)
    BY <1>t, <2>1, ConstantsAssumption DEF Kept, TypeOK, Rows, OwnsLease
  <2>2. CASE UNCHANGED row
    BY <2>2 DEF Kept
  <2> QED
    BY <1>5, <2>1, <2>2 DEF Heartbeat
<1>6. ASSUME NEW w \in Workers, NEW f \in Events,
             ClaimOne(w, f) \/ ClaimUnanswered(w, f)
      PROVE  Kept(e) \/ Leased(w, e)
  <2>1. row' = Claimed(w, f) /\ f \in Eligible
    BY <1>6 DEF ClaimOne, ClaimUnanswered
  <2>2. CASE f # e
    BY <1>t, <2>1, <2>2 DEF Claimed, Kept, TypeOK
  <2>3. CASE f = e
    <3>1. row'[e] = [row[e] EXCEPT !.status = "processing", !.lockedBy = w,
                                   !.lockedFor = LeaseTTL,
                                   !.attempts = row[e].attempts + 1]
      BY <1>t, <2>1, <2>3 DEF Claimed, TypeOK
    <3>2. ClaimUnanswered(w, e) => worker'[w].pc = "idle"
      BY <1>t, ReleaseIdles DEF ClaimUnanswered
    <3> QED
      BY <1>6, <1>t, <2>1, <2>3, <3>1, <3>2 DEF Leased, Rows
  <2> QED
    BY <2>2, <2>3
<1>7. ASSUME NEW w \in Workers, Finalize(w) PROVE Kept(e) \/ Resolved(w, e)
  <2>1. Runs(w, worker[w].event) /\ worker[w].event \in Events
    BY <1>7, BusyFacts DEF Finalize, Runs, Busy, Returned
  <2>2. worker'[w].pc = "idle" /\ UNCHANGED <<posts, summaries>>
    BY <1>7, <1>t, ReleaseIdles DEF Finalize
  <2>3. ASSUME NEW st \in {"failed", "expired", "completed"}, NEW sm,
               FinalizeWithLease(w, worker[w].event, st, sm),
               IF st = "completed" THEN sm \in Attempts ELSE sm = 0
        PROVE  Kept(e) \/ Resolved(w, e)
    <3>1. CASE /\ worker[w].event = e
               /\ OwnsLease(w, e) /\ (sm = 0 \/ sm \in summaries[e])
      <4>1. row'[e] = [Unlocked(row[e]) EXCEPT
                         !.status = st, !.summary = IF sm = 0 THEN @ ELSE sm]
        BY <1>t, <2>3, <3>1 DEF FinalizeWithLease, TypeOK
      <4>2. /\ row'[e].status = st
            /\ row'[e].lockedBy = NoWorker
            /\ row'[e].lockedFor = 0
            /\ row'[e].attempts = row[e].attempts
            /\ row'[e].summary = IF sm = 0 THEN row[e].summary ELSE sm
        BY <1>t, <4>1 DEF Unlocked, Rows
      <4>3. st = "completed" => sm # 0
        BY <2>3 DEF Attempts
      <4> QED
        BY <2>1, <2>2, <2>3, <3>1, <4>2, <4>3 DEF Resolved
    <3>2. CASE worker[w].event # e
      BY <1>t, <2>3, <3>2 DEF FinalizeWithLease, Kept, TypeOK
    <3>3. CASE ~(OwnsLease(w, worker[w].event)
                 /\ (sm = 0 \/ sm \in summaries[worker[w].event]))
      BY <2>3, <3>3 DEF FinalizeWithLease, Kept
    <3> QED
      BY <3>1, <3>2, <3>3
  <2>4. worker[w].pc = "ok" => worker[w].summary \in Attempts
    BY DEF IInv, RunsAreKnown
  <2> QED
    BY <1>7, <2>3, <2>4 DEF Finalize
<1>8. ASSUME NEW w \in Workers, Retry(w) PROVE Kept(e) \/ Resolved(w, e)
  <2>1. Runs(w, worker[w].event) /\ worker[w].event \in Events
    BY <1>8, BusyFacts DEF Retry, Runs, Busy, Returned
  <2>2. worker'[w].pc = "idle" /\ UNCHANGED <<posts, summaries>>
    BY <1>8, <1>t, ReleaseIdles DEF Retry
  <2>3. CASE worker[w].event = e /\ OwnsLease(w, e)
    <3>1. row'[e] = [Unlocked(row[e]) EXCEPT
                       !.status = "pending",
                       !.retryIn = Backoff[worker[w].attempt]]
      BY <1>8, <1>t, <2>3 DEF Retry, MarkForRetry, TypeOK
    <3>2. /\ row'[e].status = "pending"
          /\ row'[e].lockedBy = NoWorker
          /\ row'[e].lockedFor = 0
          /\ row'[e].attempts = row[e].attempts
          /\ row'[e].summary = row[e].summary
      BY <1>t, <3>1 DEF Unlocked, Rows
    <3> QED
      BY <1>8, <2>1, <2>2, <2>3, <3>2 DEF Resolved, Retry
  <2>4. CASE worker[w].event # e
    BY <1>8, <1>t, <2>4 DEF Retry, MarkForRetry, Kept, TypeOK
  <2>5. CASE ~OwnsLease(w, worker[w].event)
    BY <1>8, <2>5 DEF Retry, MarkForRetry, Kept
  <2> QED
    BY <2>3, <2>4, <2>5
<1> QED
  BY <1>1, <1>2, <1>3, <1>4, <1>5, <1>6, <1>7, <1>8, RowWriters

(* A run goes on with the attempt it has; only a claim starts one.         *)
LEMMA RunSteps ==
    ASSUME IInv, [Next]_vars, NEW e \in Events, NEW w \in Workers, Runs(w, e)'
    PROVE  \/ Runs(w, e) /\ worker'[w].attempt = worker[w].attempt
           \/ ClaimOne(w, e)
<1> DEFINE Same == Runs(w, e) /\ worker'[w].attempt = worker[w].attempt
<1>t. TypeOK /\ worker[w] \in WorkerStates
  BY DEF IInv, TypeOK
<1>0. "idle" \notin Busy /\ "stopped" \notin Busy /\ "claiming" \notin Busy
  BY DEF Busy, Handling, Returned
<1>1. ASSUME UNCHANGED worker PROVE Same
  BY <1>1 DEF Runs
<1>2. ASSUME NEW v \in Workers, NEW f \in Events, ClaimOne(v, f)
      PROVE  Same \/ ClaimOne(w, e)
  <2>1. CASE v = w
    <3>1. worker'[w].event = f
      BY <1>2, <1>t, <2>1 DEF ClaimOne, TypeOK, WorkerStates
    <3> QED
      BY <1>2, <2>1, <3>1 DEF Runs
  <2>2. CASE v # w
    BY <1>2, <1>t, <2>2 DEF ClaimOne, TypeOK, Runs
  <2> QED
    BY <2>1, <2>2
<1>3. ASSUME NEW v \in Workers, Release(v) PROVE Same
  <2>1. v # w
    BY <1>3, <1>t, <1>0, ReleaseIdles DEF Runs
  <2> QED
    BY <1>3, <1>t, <2>1 DEF Release, TypeOK, Runs
<1>4. ASSUME NEW v \in Workers, NEW pc, Goto(v, pc),
             worker[v].pc \in Busy \/ pc \notin Busy
      PROVE  Same
  <2>1. CASE v = w
    BY <1>4, <1>t, <2>1 DEF Goto, TypeOK, WorkerStates, Runs
  <2>2. CASE v # w
    BY <1>4, <1>t, <2>2 DEF Goto, TypeOK, Runs
  <2> QED
    BY <2>1, <2>2
<1>5. ASSUME NEW v \in Workers, NEW s, worker[v].pc \in Busy,
             worker' = [worker EXCEPT ![v] = [worker[v] EXCEPT
                          !.pc = "ok", !.summary = s]]
      PROVE  Same
  <2>1. CASE v = w
    <3>1. worker'[w] = [worker[w] EXCEPT !.pc = "ok", !.summary = s]
      BY <1>5, <1>t, <2>1 DEF TypeOK
    <3>2. /\ worker'[w].event = worker[w].event
          /\ worker'[w].attempt = worker[w].attempt
      BY <1>t, <3>1 DEF WorkerStates
    <3> QED
      BY <1>5, <2>1, <3>2 DEF Runs
  <2>2. CASE v # w
    BY <1>5, <1>t, <2>2 DEF TypeOK, Runs
  <2> QED
    BY <2>1, <2>2
<1>6. ASSUME NEW v \in Workers,
             \/ worker' = [worker EXCEPT ![v].cancelled = TRUE]
             \/ worker' = [worker EXCEPT ![v].stopping = TRUE]
      PROVE  Same
  BY <1>6, <1>t DEF TypeOK, WorkerStates, Runs
<1>7. ASSUME NEW v \in Workers, Crash(v) PROVE Same
  <2>1. v # w
    BY <1>7, <1>t, <1>0 DEF Crash, TypeOK, Runs, IdleWorker
  <2> QED
    BY <1>7, <1>t, <2>1 DEF Crash, TypeOK, Runs
<1>8. ASSUME NEW v \in Workers, CheckRunning(v) PROVE Same
  <2>1. \E pc \in {"stopped", "claiming"} : Goto(v, pc)
    BY <1>8 DEF CheckRunning
  <2> QED
    BY <1>0, <1>4, <2>1
<1>9. ASSUME NEW v \in Workers, Handler(v) PROVE Same
  <2>1. worker[v].pc \in Busy
    BY <1>9 DEF Handler, CheckEvent, Generate, SaveSummary, SaveSummaryFails,
       ReadFails, Busy, Handling
  <2>2. \/ \E pc : Goto(v, pc)
        \/ \E s : worker' = [worker EXCEPT ![v] = [worker[v] EXCEPT
                               !.pc = "ok", !.summary = s]]
    <3>1. CASE CheckEvent(v)
      BY <3>1 DEF CheckEvent
    <3>2. CASE Generate(v)
      BY <3>2 DEF Generate
    <3>3. CASE SaveSummary(v)
      BY <3>3 DEF SaveSummary
    <3>4. CASE SaveSummaryFails(v) \/ ReadFails(v)
      BY <3>4 DEF SaveSummaryFails, ReadFails
    <3> QED
      BY <1>9, <3>1, <3>2, <3>3, <3>4 DEF Handler
  <2> QED
    BY <1>4, <1>5, <2>1, <2>2
<1>10. ASSUME NEW v \in Workers, Heartbeat(v) PROVE Same
  <2>1. UNCHANGED worker \/ worker' = [worker EXCEPT ![v].cancelled = TRUE]
    BY <1>10 DEF Heartbeat
  <2> QED
    BY <1>1, <1>6, <2>1
<1>11. ASSUME NEW v \in Workers,
              \/ ClaimNothing(v) \/ Finalize(v) \/ Retry(v) \/ Abandon(v)
              \/ FinalizeFails(v) \/ \E f \in Events : ClaimUnanswered(v, f)
       PROVE  Same
  BY <1>3, <1>11 DEF ClaimNothing, Finalize, Retry, Abandon, FinalizeFails,
     ClaimUnanswered
<1>12. ASSUME NEW v \in Workers, Stop(v) \/ GracefulTimeout(v) PROVE Same
  BY <1>6, <1>12 DEF Stop, GracefulTimeout
<1>13. ASSUME NEW f \in Events,
              CreatePost(f) \/ DeletePost(f) \/ FailExpired(f)
       PROVE  UNCHANGED worker
  BY <1>13 DEF CreatePost, DeletePost, FailExpired
<1>14. ASSUME Tick \/ ListLeaseExpired \/ ReaperGivesUp \/ UNCHANGED vars
       PROVE  UNCHANGED worker
  BY <1>14 DEF Tick, ListLeaseExpired, ReaperGivesUp, vars
<1> QED
  BY <1>1, <1>2, <1>7, <1>8, <1>9, <1>10, <1>11, <1>12, <1>13, <1>14 DEF Next

(* Posts and summaries only grow, unless a post that nothing refers to is  *)
(* deleted.                                                                *)
LEMMA DataSteps ==
    ASSUME IInv, [Next]_vars, NEW e \in Events
    PROVE  \/ /\ e \in posts => e \in posts'
              /\ summaries[e] \subseteq summaries'[e]
              /\ summaries'[e] # summaries[e] => e \in posts
           \/ row[e].summary = 0 /\ UNCHANGED row /\ summaries'[e] = {}
<1> DEFINE Goal == \/ /\ e \in posts => e \in posts'
                      /\ summaries[e] \subseteq summaries'[e]
                      /\ summaries'[e] # summaries[e] => e \in posts
                   \/ row[e].summary = 0 /\ UNCHANGED row /\ summaries'[e] = {}
<1>t. TypeOK
  BY DEF IInv
<1>1. CASE UNCHANGED <<posts, summaries>>
  BY <1>1
<1>2. ASSUME NEW f \in Events, CreatePost(f) PROVE Goal
  BY <1>2 DEF CreatePost
<1>3. ASSUME NEW f \in Events, DeletePost(f) PROVE Goal
  BY <1>3, <1>t DEF DeletePost, TypeOK
<1>4. ASSUME NEW w \in Workers, SaveSummary(w) \/ SaveSummaryFails(w)
      PROVE  Goal
  BY <1>4, <1>t DEF SaveSummary, SaveSummaryFails, TypeOK
<1>5. ASSUME NEW w \in Workers,
             \/ CheckRunning(w) \/ ClaimNothing(w) \/ Heartbeat(w)
             \/ CheckEvent(w) \/ Generate(w) \/ ReadFails(w)
             \/ Finalize(w) \/ Retry(w) \/ Abandon(w) \/ FinalizeFails(w)
             \/ Stop(w) \/ GracefulTimeout(w) \/ Crash(w)
             \/ \E f \in Events : ClaimOne(w, f) \/ ClaimUnanswered(w, f)
      PROVE  UNCHANGED <<posts, summaries>>
  BY <1>5 DEF CheckRunning, ClaimNothing, Heartbeat, CheckEvent, Generate,
     ReadFails, Finalize, Retry, Abandon, FinalizeFails, Stop,
     GracefulTimeout, Crash, ClaimOne, ClaimUnanswered
<1>6. ASSUME NEW f \in Events, FailExpired(f)
      PROVE  UNCHANGED <<posts, summaries>>
  BY <1>6 DEF FailExpired
<1>7. ASSUME Tick \/ ListLeaseExpired \/ ReaperGivesUp \/ UNCHANGED vars
      PROVE  UNCHANGED <<posts, summaries>>
  BY <1>7 DEF Tick, ListLeaseExpired, ReaperGivesUp, vars
<1> QED
  BY <1>1, <1>2, <1>3, <1>4, <1>5, <1>6, <1>7 DEF Next, Handler

------------------------------------------------------------------------------
(* Every step keeps the inductive invariant.                               *)
LEMMA NextLocked == IInv /\ [Next]_vars => LockColumns'
<1> SUFFICES ASSUME IInv, [Next]_vars, NEW e \in Events
             PROVE  /\ (row'[e].status = "processing")
                         <=> (row'[e].lockedBy # NoWorker)
                    /\ row'[e].lockedBy = NoWorker => row'[e].lockedFor = 0
  BY DEF LockColumns
<1>1. /\ (row[e].status = "processing") <=> (row[e].lockedBy # NoWorker)
      /\ row[e].lockedBy = NoWorker => row[e].lockedFor = 0
  BY DEF IInv, LockColumns
<1>2. CASE Kept(e) \/ Created(e) \/ Failed(e)
  BY <1>1, <1>2 DEF Kept, Created, Failed
<1>3. ASSUME NEW w \in Workers, Leased(w, e)
      PROVE  row'[e].status = "processing" /\ row'[e].lockedBy # NoWorker
  BY <1>1, <1>3, ConstantsAssumption DEF Leased
<1>4. ASSUME NEW w \in Workers, Resolved(w, e)
      PROVE  /\ row'[e].status # "processing"
             /\ row'[e].lockedBy = NoWorker
             /\ row'[e].lockedFor = 0
  BY <1>4 DEF Resolved
<1> QED
  BY <1>2, <1>3, <1>4, RowSteps

(* Every step keeps the runs about events and summaries.                   *)
LEMMA NextRunsKnown == IInv /\ [Next]_vars => RunsAreKnown'
<1> SUFFICES ASSUME IInv, [Next]_vars, NEW w \in Workers
             PROVE  /\ worker'[w].pc \in Busy => worker'[w].event \in Events
                    /\ worker'[w].pc = "ok" => worker'[w].summary \in Attempts
  BY DEF RunsAreKnown
<1>t. TypeOK /\ TypeOK' /\ worker[w] \in WorkerStates
  BY NextTypeOK DEF IInv, TypeOK
<1>1. /\ worker[w].pc \in Busy => worker[w].event \in Events
      /\ worker[w].pc = "ok" => worker[w].summary \in Attempts
  BY DEF IInv, RunsAreKnown
<1>0. /\ "ok" \in Busy
      /\ "idle" \notin Busy /\ "stopped" \notin Busy /\ "claiming" \notin Busy
  BY DEF Busy, Handling, Returned
<1> DEFINE Known == /\ worker'[w].pc \in Busy => worker'[w].event \in Events
                    /\ worker'[w].pc = "ok" => worker'[w].summary \in Attempts
<1>2. CASE worker'[w] = worker[w]
  BY <1>1, <1>2
<1>3. ASSUME NEW v \in Workers, NEW f \in Events, ClaimOne(v, f) PROVE Known
  <2>1. CASE v = w
    <3>1. worker'[w] = [worker[w] EXCEPT !.pc = "check", !.event = f,
                                         !.attempt = row[f].attempts + 1]
      BY <1>3, <1>t, <2>1 DEF ClaimOne, TypeOK
    <3>2. worker'[w].pc = "check" /\ worker'[w].event = f
      BY <1>t, <3>1 DEF WorkerStates
    <3> QED
      BY <3>2
  <2>2. CASE v # w
    BY <1>2, <1>3, <1>t, <2>2 DEF ClaimOne, TypeOK
  <2> QED
    BY <2>1, <2>2
<1>4. ASSUME NEW v \in Workers, Release(v) PROVE Known
  <2>1. CASE v = w
    BY <1>0, <1>4, <1>t, <2>1, ReleaseIdles
  <2>2. CASE v # w
    BY <1>2, <1>4, <1>t, <2>2 DEF Release, TypeOK
  <2> QED
    BY <2>1, <2>2
<1>5. ASSUME NEW v \in Workers, NEW pc, Goto(v, pc), pc # "ok",
             worker[v].pc \in Busy \/ pc \notin Busy
      PROVE  Known
  <2>1. CASE v = w
    BY <1>1, <1>5, <1>t, <2>1 DEF Goto, TypeOK, WorkerStates
  <2>2. CASE v # w
    BY <1>2, <1>5, <1>t, <2>2 DEF Goto, TypeOK
  <2> QED
    BY <2>1, <2>2
<1>6. ASSUME NEW v \in Workers, NEW s \in Attempts, worker[v].pc \in Busy,
             worker' = [worker EXCEPT ![v] = [worker[v] EXCEPT
                          !.pc = "ok", !.summary = s]]
      PROVE  Known
  <2>1. CASE v = w
    <3>1. worker'[w] = [worker[w] EXCEPT !.pc = "ok", !.summary = s]
      BY <1>6, <1>t, <2>1 DEF TypeOK
    <3>2. worker'[w].event = worker[w].event /\ worker'[w].summary = s
      BY <1>t, <3>1 DEF WorkerStates
    <3> QED
      BY <1>1, <1>6, <2>1, <3>2
  <2>2. CASE v # w
    BY <1>2, <1>6, <1>t, <2>2 DEF TypeOK
  <2> QED
    BY <2>1, <2>2
<1>7. ASSUME NEW v \in Workers,
             \/ worker' = [worker EXCEPT ![v].cancelled = TRUE]
             \/ worker' = [worker EXCEPT ![v].stopping = TRUE]
      PROVE  Known
  <2>1. /\ worker'[w].pc = worker[w].pc
        /\ worker'[w].event = worker[w].event
        /\ worker'[w].summary = worker[w].summary
    BY <1>7, <1>t DEF TypeOK, WorkerStates
  <2> QED
    BY <1>1, <2>1
<1>8. ASSUME NEW v \in Workers, Crash(v) PROVE Known
  <2>1. CASE v = w
    BY <1>0, <1>8, <1>t, <2>1 DEF Crash, TypeOK, IdleWorker
  <2>2. CASE v # w
    BY <1>2, <1>8, <1>t, <2>2 DEF Crash, TypeOK
  <2> QED
    BY <2>1, <2>2
<1>9. ASSUME NEW v \in Workers, CheckRunning(v) PROVE Known
  <2>1. \E pc \in {"stopped", "claiming"} : Goto(v, pc)
    BY <1>9 DEF CheckRunning
  <2> QED
    BY <1>0, <1>5, <2>1
<1>10. ASSUME NEW v \in Workers, CheckEvent(v) PROVE Known
  <2>1. worker[v].pc \in Busy /\ worker[v].event \in Events
    BY <1>10, BusyFacts DEF CheckEvent, Busy, Handling
  <2>2. summaries[worker[v].event] \subseteq Attempts
    BY <1>t, <2>1 DEF TypeOK
  <2>3. \/ \E pc \in {"expired", "cancelled", "generate", "notFound"} :
             Goto(v, pc)
        \/ \E s \in Attempts : worker' = [worker EXCEPT ![v] =
                     [worker[v] EXCEPT !.pc = "ok", !.summary = s]]
    BY <1>10, <2>2 DEF CheckEvent
  <2> QED
    BY <1>5, <1>6, <2>1, <2>3
<1>11. ASSUME NEW v \in Workers,
              Generate(v) \/ SaveSummaryFails(v) \/ ReadFails(v)
       PROVE  Known
  <2>1. worker[v].pc \in Busy
    BY <1>11 DEF Generate, SaveSummaryFails, ReadFails, Busy, Handling
  <2>2. \E pc \in {"cancelled", "save", "transient", "rejected", "timeout"} :
          Goto(v, pc)
    BY <1>11 DEF Generate, SaveSummaryFails, ReadFails
  <2> QED
    BY <1>5, <2>1, <2>2
<1>12. ASSUME NEW v \in Workers, SaveSummary(v) PROVE Known
  <2>1. worker[v].pc \in Busy /\ worker[v].attempt \in Attempts
    BY <1>12, BusyFacts DEF SaveSummary, Busy, Handling
  <2> QED
    BY <1>6, <1>12, <2>1 DEF SaveSummary
<1>13. ASSUME NEW v \in Workers, Heartbeat(v) PROVE Known
  <2>1. UNCHANGED worker \/ worker' = [worker EXCEPT ![v].cancelled = TRUE]
    BY <1>13 DEF Heartbeat
  <2> QED
    BY <1>2, <1>7, <2>1
<1>14. ASSUME NEW v \in Workers,
              \/ ClaimNothing(v) \/ Finalize(v) \/ Retry(v) \/ Abandon(v)
              \/ FinalizeFails(v) \/ \E f \in Events : ClaimUnanswered(v, f)
       PROVE  Known
  BY <1>4, <1>14 DEF ClaimNothing, Finalize, Retry, Abandon, FinalizeFails,
     ClaimUnanswered
<1>15. ASSUME NEW v \in Workers, Stop(v) \/ GracefulTimeout(v) PROVE Known
  BY <1>7, <1>15 DEF Stop, GracefulTimeout
<1>16. ASSUME NEW f \in Events,
              CreatePost(f) \/ DeletePost(f) \/ FailExpired(f)
       PROVE  UNCHANGED worker
  BY <1>16 DEF CreatePost, DeletePost, FailExpired
<1>17. ASSUME Tick \/ ListLeaseExpired \/ ReaperGivesUp \/ UNCHANGED vars
       PROVE  UNCHANGED worker
  BY <1>17 DEF Tick, ListLeaseExpired, ReaperGivesUp, vars
<1> QED
  BY <1>2, <1>3, <1>8, <1>9, <1>10, <1>11, <1>12, <1>13, <1>14, <1>15, <1>16,
     <1>17 DEF Next, Handler

(* The claim gives the run a fresh attempt number and the row to it.       *)
LEMMA ClaimStarts ==
    ASSUME IInv, NEW w \in Workers, NEW e \in Events, ClaimOne(w, e)
    PROVE  /\ ~ \E f \in Events : Runs(w, f)
           /\ worker'[w].attempt = row[e].attempts + 1
           /\ row'[e].attempts = row[e].attempts + 1
           /\ row'[e].lockedBy = w
           /\ worker'[w].event = e
           /\ \A v \in Workers \ {w} : worker'[v] = worker[v]
           /\ \A f \in Events \ {e} : row'[f] = row[f]
<1>t. TypeOK /\ worker[w] \in WorkerStates /\ row[e] \in Rows
  BY DEF IInv, TypeOK
<1>1. worker'[w] = [worker[w] EXCEPT !.pc = "check", !.event = e,
                                     !.attempt = row[e].attempts + 1]
  BY <1>t DEF ClaimOne, TypeOK
<1>2. worker'[w].event = e /\ worker'[w].attempt = row[e].attempts + 1
  BY <1>t, <1>1 DEF WorkerStates
<1>3. row'[e] = [row[e] EXCEPT !.status = "processing", !.lockedBy = w,
                               !.lockedFor = LeaseTTL,
                               !.attempts = row[e].attempts + 1]
  BY <1>t DEF ClaimOne, Claimed, TypeOK
<1>4. row'[e].lockedBy = w /\ row'[e].attempts = row[e].attempts + 1
  BY <1>t, <1>3 DEF Rows
<1>5. ~ \E f \in Events : Runs(w, f)
  BY DEF ClaimOne, Runs, Busy, Handling, Returned
<1>6. /\ \A v \in Workers \ {w} : worker'[v] = worker[v]
      /\ \A f \in Events \ {e} : row'[f] = row[f]
  BY <1>t DEF ClaimOne, Claimed, TypeOK
<1> QED
  BY <1>2, <1>4, <1>5, <1>6

(* Every step keeps the latest attempt the owner.                          *)
LEMMA NextLatestOwns == IInv /\ [Next]_vars => LatestAttemptOwns'
<1> SUFFICES ASSUME IInv, [Next]_vars, NEW e \in Events,
                    NEW v \in Workers, NEW w \in Workers, Runs(w, e)'
             PROVE  /\ worker'[w].attempt \in 1 .. row'[e].attempts
                    /\ row'[e].lockedBy = w =>
                          worker'[w].attempt = row'[e].attempts
                    /\ Runs(v, e)' /\ v # w =>
                          worker'[v].attempt # worker'[w].attempt
  BY DEF LatestAttemptOwns
<1>t. row[e].attempts \in Nat
  BY ConstantsAssumption DEF IInv, TypeOK, Rows
<1>i. \A x, y \in Workers : Runs(x, e) =>
        /\ worker[x].attempt \in 1 .. row[e].attempts
        /\ row[e].lockedBy = x => worker[x].attempt = row[e].attempts
        /\ Runs(y, e) /\ y # x => worker[y].attempt # worker[x].attempt
  BY DEF IInv, LatestAttemptOwns
<1>1. CASE ClaimOne(w, e)
  <2>1. /\ worker'[w].attempt = row[e].attempts + 1
        /\ row'[e].attempts = row[e].attempts + 1
    BY <1>1, ClaimStarts
  <2>2. ASSUME Runs(v, e)', v # w PROVE worker'[v].attempt <= row[e].attempts
    <3>1. worker'[v] = worker[v]
      BY <1>1, <2>2, ClaimStarts
    <3>2. Runs(v, e)
      BY <2>2, <3>1 DEF Runs
    <3> QED
      BY <1>i, <1>t, <3>1, <3>2
  <2> QED
    BY <1>t, <2>1, <2>2
<1>2. CASE ~ClaimOne(w, e)
  <2>1. Runs(w, e) /\ worker'[w].attempt = worker[w].attempt
    BY <1>2, RunSteps
  <2>2. CASE ClaimOne(v, e)
    <3>1. /\ worker'[v].attempt = row[e].attempts + 1
          /\ row'[e].attempts = row[e].attempts + 1
          /\ row'[e].lockedBy = v
      BY <2>2, ClaimStarts
    <3>2. v # w
      BY <1>2, <2>2
    <3> QED
      BY <1>i, <1>t, <2>1, <3>1, <3>2
  <2>3. CASE ~ClaimOne(v, e)
    <3>1. Runs(v, e)' =>
            Runs(v, e) /\ worker'[v].attempt = worker[v].attempt
      BY <2>3, RunSteps
    <3>2. row'[e].attempts \in {row[e].attempts, row[e].attempts + 1}
      BY RowSteps DEF Kept, Created, Failed, Leased, Resolved
    <3>3. row'[e].lockedBy = w =>
            row[e].lockedBy = w /\ row'[e].attempts = row[e].attempts
      <4>1. ASSUME NEW x \in Workers, Leased(x, e) PROVE x # w
        <5>1. "idle" \notin Busy
          BY DEF Busy, Handling, Returned
        <5> QED
          BY <1>2, <4>1, <5>1 DEF Leased, Runs
      <4> QED
        BY <4>1, RowSteps, ConstantsAssumption
           DEF Kept, Created, Failed, Leased, Resolved
    <3> QED
      BY <1>i, <1>t, <2>1, <3>1, <3>2, <3>3
  <2> QED
    BY <2>2, <2>3
<1> QED
  BY <1>1, <1>2

(* Only the owner puts an event back, and the owner runs the latest        *)
(* attempt, so the budget its retry was checked against is the row's.      *)
LEMMA NextBudget == IInv /\ [Next]_vars => PendingHasBudget'
<1> SUFFICES ASSUME IInv, [Next]_vars, NEW e \in Events,
                    row'[e].status = "pending"
             PROVE  row'[e].attempts < MaxAttempts
  BY DEF PendingHasBudget
<1>1. CASE Kept(e)
  BY <1>1 DEF IInv, PendingHasBudget, Kept
<1>2. CASE Created(e)
  BY <1>2, ConstantsAssumption DEF IInv, DataIsAnchored, Created
<1>3. ASSUME NEW w \in Workers, Resolved(w, e)
      PROVE  row'[e].attempts < MaxAttempts
  <2>1. worker[w].attempt = row[e].attempts
    BY <1>3 DEF IInv, LatestAttemptOwns, Resolved, OwnsLease
  <2> QED
    BY <1>3, <2>1 DEF Resolved, ShouldRetry
<1> QED
  BY <1>1, <1>2, <1>3, RowSteps DEF Failed, Leased

(* Every step keeps summaries with posts, and new rows unattempted.        *)
LEMMA NextAnchored == IInv /\ [Next]_vars => DataIsAnchored'
<1> SUFFICES ASSUME IInv, [Next]_vars, NEW e \in Events
             PROVE  /\ summaries'[e] # {} => e \in posts'
                    /\ row'[e].status = "absent" => row'[e].attempts = 0
  BY DEF DataIsAnchored
<1>1. /\ summaries[e] # {} => e \in posts
      /\ row[e].status = "absent" => row[e].attempts = 0
  BY DEF IInv, DataIsAnchored
<1>2. summaries'[e] # {} => e \in posts'
  BY <1>1, DataSteps
<1>3. row'[e].status = "absent" => row'[e].attempts = 0
  BY <1>1, RowSteps DEF Kept, Created, Failed, Leased, Resolved
<1> QED
  BY <1>2, <1>3

(* Every step keeps completed events with their summaries.                 *)
LEMMA NextCompleted == IInv /\ [Next]_vars => CompletedIsSummarized'
<1> SUFFICES ASSUME IInv, [Next]_vars, NEW e \in Events,
                    row'[e].status = "completed"
             PROVE  row'[e].summary \in summaries'[e] /\ e \in posts'
  BY DEF CompletedIsSummarized
<1>1. CASE Kept(e)
  <2>1. row[e].summary \in summaries[e] /\ e \in posts
    BY <1>1 DEF Kept, IInv, CompletedIsSummarized
  <2>2. row[e].summary # 0
    BY <2>1 DEF IInv, TypeOK, Attempts
  <2> QED
    BY <1>1, <2>1, <2>2, DataSteps DEF Kept
<1>2. ASSUME NEW w \in Workers, Resolved(w, e)
      PROVE  row'[e].summary \in summaries'[e] /\ e \in posts'
  BY <1>2 DEF Resolved, IInv, DataIsAnchored
<1> QED
  BY <1>1, <1>2, RowSteps DEF Created, Failed, Leased

(* Every step preserves the inductive invariant.                           *)
LEMMA NextIInv == IInv /\ [Next]_vars => IInv'
BY NextTypeOK, NextLocked, NextRunsKnown, NextLatestOwns, NextBudget,
   NextAnchored, NextCompleted DEF IInv

(* The conjuncts of IInv hold together in every reachable state.           *)
THEOREM Invariance == Spec => []IInv
<1>1. Init => IInv
  BY InitIInv
<1>2. IInv /\ [Next]_vars => IInv'
  BY NextIInv
<1> QED
  BY <1>1, <1>2, PTL DEF Spec

------------------------------------------------------------------------------
(* Type correctness: every row, worker and set keeps its shape.            *)
THEOREM TypeCorrect == Spec => []TypeOK
<1>1. IInv => TypeOK
  BY DEF IInv
<1> QED
  BY <1>1, Invariance, PTL

(* Lock columns and status agree in every UPDATE of summary_events, and    *)
(* what a worker runs exists, also after it lost the lock.                 *)
THEOREM LocksAgree == Spec => []LockedWhileProcessing
<1>1. IInv => LockedWhileProcessing
  <2> SUFFICES ASSUME IInv, NEW w \in Workers, worker[w].pc \in Busy
               PROVE  /\ worker[w].event \in Events
                      /\ row[worker[w].event].status # "absent"
                      /\ worker[w].attempt \in 1 .. row[worker[w].event].attempts
    BY DEF IInv, LockedWhileProcessing, RunsExist
  <2>1. worker[w].event \in Events
    BY DEF IInv, RunsAreKnown
  <2>2. worker[w].attempt \in 1 .. row[worker[w].event].attempts
    BY <2>1 DEF IInv, LatestAttemptOwns, Runs
  <2>3. row[worker[w].event].status # "absent"
    BY <2>1, <2>2 DEF IInv, DataIsAnchored
  <2> QED
    BY <2>1, <2>2, <2>3
<1> QED
  BY <1>1, Invariance, PTL

(* Fencing of the runs of an event by locked_by and attempt_count.         *)
THEOREM Fencing == Spec => []LatestAttemptOwns
<1>1. IInv => LatestAttemptOwns
  BY DEF IInv
<1> QED
  BY <1>1, Invariance, PTL

(* An event is never queued again once its retry budget is used up.        *)
THEOREM RetryBudget == Spec => []PendingHasBudget
<1>1. IInv => PendingHasBudget
  BY DEF IInv
<1> QED
  BY <1>1, Invariance, PTL

(* A completed event refers to a summary of its post, and both exist.      *)
THEOREM CompletionIsBacked == Spec => []CompletedIsSummarized
<1>1. IInv => CompletedIsSummarized
  BY DEF IInv
<1> QED
  BY <1>1, Invariance, PTL

(* An event leaves 'processing' by the run of its latest attempt under a   *)
(* live lease, or by a reaper long after the last lease of the last        *)
(* attempt.                                                                *)
THEOREM Resolution == Spec => ResolvedByLatestAttempt
<1> DEFINE Step ==
      \A e \in Events :
          row[e].status = "processing" /\ row'[e].status # "processing" =>
             \/ \E w \in Workers :
                   /\ Runs(w, e) /\ ~Runs(w, e)'
                   /\ worker[w].attempt = row[e].attempts
                   /\ row[e].lockedFor > 0
             \/ /\ row'[e].status = "failed"
                /\ row[e].lockedFor < -Grace
                /\ row[e].attempts >= MaxAttempts
<1>1. IInv /\ [Next]_vars => [Step]_vars
  <2> SUFFICES ASSUME IInv, [Next]_vars, NEW e \in Events,
                      row[e].status = "processing",
                      row'[e].status # "processing"
               PROVE  \/ \E w \in Workers :
                            /\ Runs(w, e) /\ ~Runs(w, e)'
                            /\ worker[w].attempt = row[e].attempts
                            /\ row[e].lockedFor > 0
                      \/ /\ row'[e].status = "failed"
                         /\ row[e].lockedFor < -Grace
                         /\ row[e].attempts >= MaxAttempts
    OBVIOUS
  <2>1. ASSUME NEW w \in Workers, Resolved(w, e)
        PROVE  /\ Runs(w, e) /\ ~Runs(w, e)'
               /\ worker[w].attempt = row[e].attempts
               /\ row[e].lockedFor > 0
    BY <2>1 DEF Resolved, OwnsLease, IInv, LatestAttemptOwns, Runs, Busy,
       Handling, Returned
  <2>2. CASE Failed(e)
    BY <2>2 DEF Failed, MayFail, ExpiredPastGrace
  <2> QED
    BY <2>1, <2>2, RowSteps DEF Kept, Created, Leased
<1> QED
  BY <1>1, Invariance, PTL DEF Spec, ResolvedByLatestAttempt

(* No step touches an event that has its verdict.                          *)
THEOREM Finality == Spec => VerdictIsFinal
<1> DEFINE Step ==
      \A e \in Events :
          row[e].status \in Terminal =>
             /\ row'[e].status = row[e].status
             /\ row'[e].summary = row[e].summary
             /\ row'[e].attempts = row[e].attempts
             /\ row'[e].lockedBy = NoWorker
<1>1. IInv /\ [Next]_vars => [Step]_vars
  <2> SUFFICES ASSUME IInv, [Next]_vars, NEW e \in Events,
                      row[e].status \in Terminal
               PROVE  Kept(e) /\ row[e].lockedBy = NoWorker
    BY DEF Kept
  <2>1. row[e].lockedBy = NoWorker
    BY DEF IInv, LockColumns, Terminal
  <2>2. ~Created(e) /\ ~Failed(e)
    BY DEF Created, Failed, MayFail, ExpiredPastGrace, Terminal
  <2>3. \A w \in Workers : ~Leased(w, e) /\ ~Resolved(w, e)
    BY DEF Leased, Resolved, Eligible, OwnsLease, Terminal
  <2> QED
    BY <2>1, <2>2, <2>3, RowSteps
<1> QED
  BY <1>1, Invariance, PTL DEF Spec, VerdictIsFinal

------------------------------------------------------------------------------
(* Refinement: the outbox implements EventLifecycle.                       *)

(* No step writes two rows, unless it only moves their clocks.             *)
LEMMA OneRowAtATime ==
    ASSUME IInv, [Next]_vars
    PROVE  \/ \A f \in Events : Kept(f)
           \/ \E e \in Events : \A f \in Events \ {e} : Kept(f)
<1>t. TypeOK
  BY DEF IInv
<1>1. CASE UNCHANGED row
  BY <1>1 DEF Kept
<1>2. CASE Tick
  <2> SUFFICES ASSUME NEW f \in Events PROVE Kept(f)
    OBVIOUS
  <2>1. row[f] \in Rows /\ row'[f] = Later(row[f])
    BY <1>2, <1>t DEF Tick, TypeOK
  <2> QED
    BY <2>1 DEF Later, Kept, Rows
<1>3. ASSUME NEW e \in Events, NEW r, row' = [row EXCEPT ![e] = r]
      PROVE  \A f \in Events \ {e} : Kept(f)
  BY <1>3, <1>t DEF Kept, TypeOK
<1>4. ASSUME NEW e \in Events, CreatePost(e) \/ FailExpired(e)
      PROVE  \/ \A f \in Events : Kept(f)
             \/ \E g \in Events : \A f \in Events \ {g} : Kept(f)
  <2>1. UNCHANGED row \/ \E r : row' = [row EXCEPT ![e] = r]
    BY <1>4 DEF CreatePost, FailExpired
  <2> QED
    BY <1>1, <1>3, <2>1
<1>5. ASSUME NEW w \in Workers, Heartbeat(w) \/ Finalize(w) \/ Retry(w)
      PROVE  \/ \A f \in Events : Kept(f)
             \/ \E g \in Events : \A f \in Events \ {g} : Kept(f)
  <2>1. worker[w].event \in Events
    BY <1>5, BusyFacts DEF Heartbeat, Finalize, Retry, Busy, Returned
  <2>2. UNCHANGED row \/ \E r : row' = [row EXCEPT ![worker[w].event] = r]
    BY <1>5 DEF Heartbeat, Finalize, Retry, FinalizeWithLease, MarkForRetry
  <2> QED
    BY <1>1, <1>3, <2>1, <2>2
<1>6. ASSUME NEW w \in Workers, NEW e \in Events,
             ClaimOne(w, e) \/ ClaimUnanswered(w, e)
      PROVE  \A f \in Events \ {e} : Kept(f)
  BY <1>3, <1>6 DEF ClaimOne, ClaimUnanswered, Claimed
<1> QED
  BY <1>1, <1>2, <1>4, <1>5, <1>6, RowWriters

(* A step that changes what is stored keeps every row, or creates one.     *)
LEMMA DataWriters ==
    ASSUME IInv, [Next]_vars
    PROVE  \/ UNCHANGED <<posts, summaries>>
           \/ \E e \in Events : CreatePost(e) \/ (DeletePost(e) /\ UNCHANGED row)
           \/ \E e \in Events : \E n \in 1 .. row[e].attempts :
                 /\ e \in posts
                 /\ summaries' = [summaries EXCEPT ![e] = @ \cup {n}]
                 /\ UNCHANGED <<row, posts>>
<1>1. ASSUME NEW w \in Workers, SaveSummary(w) \/ SaveSummaryFails(w)
      PROVE  \/ UNCHANGED <<posts, summaries>>
             \/ \E e \in Events : \E n \in 1 .. row[e].attempts :
                 /\ e \in posts
                 /\ summaries' = [summaries EXCEPT ![e] = @ \cup {n}]
                 /\ UNCHANGED <<row, posts>>
  <2>1. worker[w].pc \in Busy
    BY <1>1 DEF SaveSummary, SaveSummaryFails, Busy, Handling
  <2>2. worker[w].event \in Events
    BY <2>1, BusyFacts
  <2>3. worker[w].attempt \in 1 .. row[worker[w].event].attempts
    BY <2>1, <2>2 DEF IInv, LatestAttemptOwns, Runs
  <2> QED
    BY <1>1, <2>2, <2>3 DEF SaveSummary, SaveSummaryFails
<1>2. ASSUME NEW e \in Events, DeletePost(e) PROVE UNCHANGED row
  BY <1>2 DEF DeletePost
<1>3. ASSUME NEW w \in Workers,
             \/ CheckRunning(w) \/ ClaimNothing(w) \/ Heartbeat(w)
             \/ CheckEvent(w) \/ Generate(w) \/ ReadFails(w)
             \/ Finalize(w) \/ Retry(w) \/ Abandon(w) \/ FinalizeFails(w)
             \/ Stop(w) \/ GracefulTimeout(w) \/ Crash(w)
             \/ \E f \in Events : ClaimOne(w, f) \/ ClaimUnanswered(w, f)
      PROVE  UNCHANGED <<posts, summaries>>
  BY <1>3 DEF CheckRunning, ClaimNothing, Heartbeat, CheckEvent, Generate,
     ReadFails, Finalize, Retry, Abandon, FinalizeFails, Stop,
     GracefulTimeout, Crash, ClaimOne, ClaimUnanswered
<1>4. ASSUME NEW f \in Events, FailExpired(f)
      PROVE  UNCHANGED <<posts, summaries>>
  BY <1>4 DEF FailExpired
<1>5. ASSUME Tick \/ ListLeaseExpired \/ ReaperGivesUp \/ UNCHANGED vars
      PROVE  UNCHANGED <<posts, summaries>>
  BY <1>5 DEF Tick, ListLeaseExpired, ReaperGivesUp, vars
<1> QED
  BY <1>1, <1>2, <1>3, <1>4, <1>5 DEF Next, Handler

(* Every step of the outbox is a step of the life cycle, or none.          *)
LEMMA StepSimulation ==
    IInv /\ [Next]_vars => [Lifecycle!Next]_(Lifecycle!lifecycleVars)
<1> SUFFICES ASSUME IInv, [Next]_vars
             PROVE  Lifecycle!Next \/ UNCHANGED Lifecycle!lifecycleVars
  OBVIOUS
<1>1. ASSUME \A f \in Events : Kept(f), UNCHANGED <<posts, summaries>>
      PROVE  UNCHANGED Lifecycle!lifecycleVars
  BY <1>1 DEF Kept, Lifecycle!lifecycleVars
<1>2. ASSUME NEW e \in Events, CreatePost(e) PROVE Lifecycle!Enqueue(e)
  BY <1>2 DEF CreatePost, Lifecycle!Enqueue, IInv, TypeOK, Rows
<1>3. ASSUME NEW e \in Events, DeletePost(e) PROVE Lifecycle!DeletePost(e)
  BY <1>3 DEF DeletePost, Lifecycle!DeletePost
<1>4. ASSUME NEW e \in Events, NEW n \in 1 .. row[e].attempts,
             e \in posts,
             summaries' = [summaries EXCEPT ![e] = @ \cup {n}],
             UNCHANGED <<row, posts>>
      PROVE  Lifecycle!Store(e, n)
  BY <1>4 DEF Lifecycle!Store
<1>5. ASSUME NEW e \in Events, \A f \in Events \ {e} : Kept(f),
             UNCHANGED <<posts, summaries>>
      PROVE  Lifecycle!Next \/ UNCHANGED Lifecycle!lifecycleVars
  <2>1. CASE Kept(e)
    BY <1>1, <1>5, <2>1
  <2>2. CASE Created(e)
    BY <1>2, <2>2 DEF Created, Lifecycle!Next
  <2>3. ASSUME NEW w \in Workers, Leased(w, e) PROVE Lifecycle!Try(e)
    BY <1>5, <2>3 DEF Leased, Eligible, Kept, Lifecycle!Try
  <2>4. ASSUME NEW w \in Workers, Resolved(w, e)
        PROVE  \/ Lifecycle!Requeue(e)
               \/ \E n \in summaries[e] : Lifecycle!Complete(e, n)
               \/ \E v \in {"failed", "expired"} : Lifecycle!GiveUp(e, v)
    <3>1. row[e].status = "processing"
      BY <2>4 DEF Resolved, OwnsLease
    <3>2. CASE row'[e].status = "pending"
      <4>1. row[e].attempts < MaxAttempts
        BY <2>4, <3>2, NextBudget DEF Resolved, PendingHasBudget
      <4> QED
        BY <1>5, <2>4, <3>1, <3>2, <4>1
           DEF Resolved, Kept, Terminal, Lifecycle!Requeue
    <3>3. CASE row'[e].status = "completed"
      <4>1. row'[e].summary \in summaries[e] /\ e \in posts
        BY <2>4, <3>3 DEF Resolved, IInv, DataIsAnchored
      <4>2. PICK n \in summaries[e] : n = row'[e].summary
        BY <4>1
      <4>3. Lifecycle!Complete(e, n)
        BY <1>5, <2>4, <3>1, <3>3, <4>1, <4>2
           DEF Resolved, Kept, Lifecycle!Complete
      <4> QED
        BY <4>3
    <3>4. CASE row'[e].status \in {"failed", "expired"}
      <4>1. PICK v \in {"failed", "expired"} : v = row'[e].status
        BY <3>4
      <4>2. Lifecycle!GiveUp(e, v)
        BY <1>5, <2>4, <3>1, <4>1 DEF Resolved, Kept, Lifecycle!GiveUp
      <4> QED
        BY <4>2
    <3> QED
      BY <2>4, <3>2, <3>3, <3>4 DEF Resolved
  <2>5. ASSUME Failed(e) PROVE Lifecycle!GiveUp(e, "failed")
    BY <1>5, <2>5 DEF Failed, MayFail, ExpiredPastGrace, Kept, Lifecycle!GiveUp
  <2> QED
    BY <2>1, <2>2, <2>3, <2>4, <2>5, RowSteps DEF Lifecycle!Next
<1>6. CASE UNCHANGED <<posts, summaries>>
  BY <1>1, <1>5, <1>6, OneRowAtATime
<1> QED
  BY <1>2, <1>3, <1>4, <1>6, DataWriters DEF Lifecycle!Next

(* The outbox implements the life cycle of an event that EventLifecycle    *)
(* states: initial states map to initial states, steps to steps.           *)
THEOREM Refinement == Spec => ImplementsLifecycle
<1>1. Init => Lifecycle!Init
  BY DEF Init, NewRow, Lifecycle!Init
<1> QED
  BY <1>1, StepSimulation, Invariance, PTL
     DEF Spec, ImplementsLifecycle, Lifecycle!Spec

------------------------------------------------------------------------------
(* Repeated runs reuse the summary.                                        *)

(* The run is past its look for summaries and may still insert one.        *)
Writing(w, e) == Runs(w, e) /\ worker[w].pc \in {"generate", "save"}

(* While no claim overlaps a run, an event has one run at a time, the run  *)
(* that is about to insert a summary finds none, and so there is only one. *)
ReusedBy(e) ==
    /\ \A v, w \in Workers : Runs(v, e) /\ Runs(w, e) => v = w
    /\ \A w \in Workers : Writing(w, e) => summaries[e] = {}
    /\ \A s, t \in summaries[e] : s = t

ReuseInv == \A e \in Events \ overlapped : ReusedBy(e)

(* Only a claim marks an event, and only when it overlaps a run.           *)
LEMMA OverlapSteps ==
    ASSUME IInv, [Next]_vars
    PROVE  \/ UNCHANGED overlapped
           \/ \E w \in Workers, e \in Events : ClaimOne(w, e)
<1>1. ASSUME NEW e \in Events, CreatePost(e) \/ DeletePost(e) \/ FailExpired(e)
      PROVE  UNCHANGED overlapped
  BY <1>1 DEF CreatePost, DeletePost, FailExpired
<1>2. ASSUME NEW w \in Workers,
             \/ CheckRunning(w) \/ ClaimNothing(w) \/ Heartbeat(w)
             \/ Finalize(w) \/ Retry(w) \/ Abandon(w) \/ FinalizeFails(w)
             \/ Stop(w) \/ GracefulTimeout(w) \/ Crash(w)
             \/ \E e \in Events : ClaimUnanswered(w, e)
      PROVE  UNCHANGED overlapped
  BY <1>2 DEF CheckRunning, ClaimNothing, Heartbeat, Finalize, Retry, Abandon,
     FinalizeFails, Stop, GracefulTimeout, Crash, ClaimUnanswered
<1>3. ASSUME NEW w \in Workers, Handler(w) PROVE UNCHANGED overlapped
  BY <1>3 DEF Handler, CheckEvent, Generate, SaveSummary, SaveSummaryFails,
     ReadFails
<1>4. ASSUME Tick \/ ListLeaseExpired \/ ReaperGivesUp \/ UNCHANGED vars
      PROVE  UNCHANGED overlapped
  BY <1>4 DEF Tick, ListLeaseExpired, ReaperGivesUp, vars
<1> QED
  BY <1>1, <1>2, <1>3, <1>4 DEF Next

(* An attempt to insert ends the part of a run that inserts.               *)
LEMMA SaveEnds ==
    ASSUME TypeOK, NEW w \in Workers, SaveSummary(w) \/ SaveSummaryFails(w)
    PROVE  worker'[w].pc \in {"ok", "cancelled", "transient"}
<1>t. w \in DOMAIN worker /\ worker[w] \in WorkerStates
  BY DEF TypeOK
<1>1. CASE SaveSummary(w)
  <2>1. worker'[w] = [worker[w] EXCEPT !.pc = "ok", !.summary = worker[w].attempt]
    BY <1>1, <1>t DEF SaveSummary
  <2> QED
    BY <1>t, <2>1 DEF WorkerStates
<1>2. ASSUME NEW pc, Goto(w, pc) PROVE worker'[w].pc = pc
  BY <1>2, <1>t DEF Goto, WorkerStates
<1>3. CASE SaveSummaryFails(w)
  BY <1>2, <1>3 DEF SaveSummaryFails
<1> QED
  BY <1>1, <1>3

(* A run gets to the point where it inserts only by a look that finds no   *)
(* summary.                                                                *)
LEMMA WritingSteps ==
    ASSUME IInv, [Next]_vars, NEW e \in Events, NEW w \in Workers, Writing(w, e)'
    PROVE  \/ Writing(w, e)
           \/ Runs(w, e) /\ CheckEvent(w) /\ summaries[e] = {}
<1> DEFINE Goal == Writing(w, e) \/ (Runs(w, e) /\ CheckEvent(w) /\ summaries[e] = {})
<1>t. TypeOK /\ worker[w] \in WorkerStates
  BY DEF IInv, TypeOK
<1>0. "idle" \notin Busy /\ "stopped" \notin Busy /\ "claiming" \notin Busy
  BY DEF Busy, Handling, Returned
<1>1. CASE worker'[w] = worker[w]
  BY <1>1 DEF Writing, Runs
<1>2. CASE ClaimOne(w, e)
  BY <1>2, <1>t DEF ClaimOne, TypeOK, WorkerStates, Writing
<1>3. CASE Runs(w, e) /\ worker'[w].pc = worker[w].pc
  BY <1>3 DEF Writing
<1>4. ASSUME Runs(w, e), NEW pc, Goto(w, pc), Handler(w) PROVE Goal
  <2>1. worker'[w].pc = pc
    BY <1>4, <1>t DEF Goto, TypeOK, WorkerStates
  <2>2. pc \in {"generate", "save"}
    BY <2>1 DEF Writing
  <2>3. CASE CheckEvent(w)
    BY <1>4, <1>t, <2>1, <2>2, <2>3 DEF CheckEvent, Goto, TypeOK, WorkerStates, Runs
  <2>4. CASE Generate(w)
    BY <1>4, <2>4 DEF Generate, Writing
  <2>5. CASE SaveSummary(w) \/ SaveSummaryFails(w)
    BY <1>t, <2>1, <2>2, <2>5, SaveEnds
  <2>6. CASE ReadFails(w)
    BY <1>t, <2>1, <2>2, <2>6 DEF ReadFails, Goto, TypeOK, WorkerStates
  <2> QED
    BY <1>4, <2>3, <2>4, <2>5, <2>6 DEF Handler
<1>5. ASSUME Runs(w, e), Handler(w) PROVE Goal
  <2>1. CASE \E pc : Goto(w, pc)
    BY <1>4, <1>5, <2>1
  <2>2. ASSUME NEW s, worker' = [worker EXCEPT ![w] = [worker[w] EXCEPT
                                                  !.pc = "ok", !.summary = s]]
        PROVE  FALSE
    BY <1>t, <2>2 DEF TypeOK, WorkerStates, Writing
  <2> QED
    BY <1>5, <2>1, <2>2 DEF Handler, CheckEvent, Generate, SaveSummary,
       SaveSummaryFails, ReadFails
<1>6. ASSUME Runs(w, e), NEW v \in Workers, v # w, Handler(v)
      PROVE  worker'[w] = worker[w]
  BY <1>6, <1>t DEF Handler, CheckEvent, Generate, SaveSummary,
     SaveSummaryFails, ReadFails, Goto, TypeOK
<1>7. ASSUME NEW v \in Workers, CheckRunning(v), Runs(w, e)
      PROVE  worker'[w] = worker[w]
  BY <1>7, <1>t, <1>0 DEF CheckRunning, Goto, TypeOK, Runs
<1>8. ASSUME NEW v \in Workers, NEW f \in Events, ClaimOne(v, f), Runs(w, e)
      PROVE  worker'[w] = worker[w]
  BY <1>8, <1>t, <1>0 DEF ClaimOne, TypeOK, Runs
<1>9. ASSUME NEW v \in Workers, Release(v) PROVE worker'[w] = worker[w]
  <2>1. v # w
    BY <1>9, <1>t, <1>0, ReleaseIdles DEF Writing, Runs
  <2> QED
    BY <1>9, <1>t, <2>1 DEF Release, TypeOK
<1>10. ASSUME NEW v \in Workers, Crash(v) PROVE worker'[w] = worker[w]
  <2>1. v # w
    BY <1>10, <1>t DEF Crash, TypeOK, Writing, IdleWorker
  <2> QED
    BY <1>10, <1>t, <2>1 DEF Crash, TypeOK
<1>11. ASSUME NEW v \in Workers, Heartbeat(v) \/ Stop(v) \/ GracefulTimeout(v)
       PROVE  worker'[w].pc = worker[w].pc
  BY <1>11, <1>t DEF Heartbeat, Stop, GracefulTimeout, TypeOK, WorkerStates
<1>12. ASSUME NEW f \in Events, CreatePost(f) \/ DeletePost(f) \/ FailExpired(f)
       PROVE  UNCHANGED worker
  BY <1>12 DEF CreatePost, DeletePost, FailExpired
<1>13. ASSUME Tick \/ ListLeaseExpired \/ ReaperGivesUp \/ UNCHANGED vars
       PROVE  UNCHANGED worker
  BY <1>13 DEF Tick, ListLeaseExpired, ReaperGivesUp, vars
<1>14. ASSUME NEW v \in Workers,
              \/ ClaimNothing(v) \/ Finalize(v) \/ Retry(v) \/ Abandon(v)
              \/ FinalizeFails(v) \/ \E f \in Events : ClaimUnanswered(v, f)
       PROVE  Release(v)
  BY <1>14 DEF ClaimNothing, Finalize, Retry, Abandon, FinalizeFails,
     ClaimUnanswered
<1>15. Runs(w, e) \/ ClaimOne(w, e)
  BY RunSteps DEF Writing
<1>16. ASSUME NEW v \in Workers, Handler(v), Runs(w, e) PROVE Goal
  BY <1>1, <1>5, <1>6, <1>16
<1> QED
  BY <1>1, <1>2, <1>3, <1>7, <1>8, <1>9, <1>10, <1>11, <1>12, <1>13, <1>14,
     <1>15, <1>16 DEF Next

(* Only a run that is about to insert adds a summary, and does it once.    *)
LEMMA SummarySteps ==
    ASSUME IInv, [Next]_vars, NEW e \in Events
    PROVE  \/ summaries'[e] \subseteq summaries[e]
           \/ \E w \in Workers :
                /\ Writing(w, e) /\ ~Writing(w, e)' /\ UNCHANGED overlapped
                /\ summaries'[e] = summaries[e] \cup {worker[w].attempt}
<1>t. TypeOK
  BY DEF IInv
<1>1. ASSUME NEW w \in Workers, SaveSummary(w) \/ SaveSummaryFails(w),
             worker[w].event = e,
             summaries' = [summaries EXCEPT ![e] = @ \cup {worker[w].attempt}]
      PROVE  /\ Writing(w, e) /\ ~Writing(w, e)' /\ UNCHANGED overlapped
             /\ summaries'[e] = summaries[e] \cup {worker[w].attempt}
  <2>1. Writing(w, e)
    BY <1>1 DEF SaveSummary, SaveSummaryFails, Writing, Runs, Busy, Handling
  <2>2. worker'[w].pc \in {"ok", "cancelled", "transient"}
    BY <1>1, <1>t, SaveEnds
  <2> QED
    BY <1>1, <1>t, <2>1, <2>2 DEF SaveSummary, SaveSummaryFails, Writing, TypeOK
<1>2. ASSUME NEW w \in Workers, SaveSummary(w) \/ SaveSummaryFails(w)
      PROVE  \/ summaries'[e] = summaries[e]
             \/ /\ worker[w].event = e
                /\ summaries' = [summaries EXCEPT ![e] = @ \cup {worker[w].attempt}]
  BY <1>2, <1>t DEF SaveSummary, SaveSummaryFails, TypeOK
<1>3. ASSUME NEW f \in Events, DeletePost(f)
      PROVE  summaries'[e] \subseteq summaries[e]
  BY <1>3, <1>t DEF DeletePost, TypeOK
<1>4. ASSUME NEW f \in Events, CreatePost(f) \/ FailExpired(f)
      PROVE  UNCHANGED summaries
  BY <1>4 DEF CreatePost, FailExpired
<1>5. ASSUME NEW w \in Workers,
             \/ CheckRunning(w) \/ ClaimNothing(w) \/ Heartbeat(w)
             \/ CheckEvent(w) \/ Generate(w) \/ ReadFails(w)
             \/ Finalize(w) \/ Retry(w) \/ Abandon(w) \/ FinalizeFails(w)
             \/ Stop(w) \/ GracefulTimeout(w) \/ Crash(w)
             \/ \E f \in Events : ClaimOne(w, f) \/ ClaimUnanswered(w, f)
      PROVE  UNCHANGED summaries
  BY <1>5 DEF CheckRunning, ClaimNothing, Heartbeat, CheckEvent, Generate,
     ReadFails, Finalize, Retry, Abandon, FinalizeFails, Stop,
     GracefulTimeout, Crash, ClaimOne, ClaimUnanswered
<1>6. ASSUME Tick \/ ListLeaseExpired \/ ReaperGivesUp \/ UNCHANGED vars
      PROVE  UNCHANGED summaries
  BY <1>6 DEF Tick, ListLeaseExpired, ReaperGivesUp, vars
<1> QED
  BY <1>1, <1>2, <1>3, <1>4, <1>5, <1>6 DEF Next, Handler

(* Every step keeps an event that has not overlapped reused.               *)
LEMMA NextReuse == IInv /\ ReuseInv /\ [Next]_vars => ReuseInv'
<1> SUFFICES ASSUME IInv, ReuseInv, [Next]_vars,
                    NEW e \in Events, e \notin overlapped'
             PROVE  ReusedBy(e)'
  BY DEF ReuseInv
<1>0. e \notin overlapped /\ (\A w \in Workers : ClaimOne(w, e) =>
                                \A v \in Workers : ~Runs(v, e))
  BY OverlapSteps DEF ClaimOne
<1>1. ReusedBy(e)
  BY <1>0 DEF ReuseInv
<1>2. ASSUME NEW v \in Workers, NEW w \in Workers, Runs(v, e)', Runs(w, e)'
      PROVE  v = w
  <2>1. Runs(v, e) \/ ClaimOne(v, e)
    BY <1>2, RunSteps
  <2>2. Runs(w, e) \/ ClaimOne(w, e)
    BY <1>2, RunSteps
  <2>3. ASSUME ClaimOne(v, e), ClaimOne(w, e), v # w PROVE FALSE
    <3>1. worker'[w] = worker[w]
      BY <2>3 DEF ClaimOne, IInv, TypeOK
    <3>2. worker[w].pc \notin Busy
      BY <2>3 DEF ClaimOne, Busy, Handling, Returned
    <3> QED
      BY <1>2, <3>1, <3>2 DEF Runs
  <2> QED
    BY <1>0, <1>1, <2>1, <2>2, <2>3 DEF ReusedBy
<1>3. ASSUME NEW w \in Workers, Writing(w, e)' PROVE summaries'[e] = {}
  <2>1. Runs(w, e) /\ summaries[e] = {}
    BY <1>1, <1>3, WritingSteps DEF ReusedBy, Writing
  <2>2. ASSUME NEW v \in Workers, Writing(v, e), ~Writing(v, e)' PROVE FALSE
    BY <1>1, <1>3, <2>1, <2>2 DEF ReusedBy, Writing
  <2> QED
    BY <2>1, <2>2, SummarySteps
<1>4. ASSUME NEW s \in summaries'[e], NEW t \in summaries'[e] PROVE s = t
  <2>1. CASE summaries'[e] \subseteq summaries[e]
    BY <1>1, <1>4, <2>1 DEF ReusedBy
  <2>2. ASSUME NEW w \in Workers, Writing(w, e),
               summaries'[e] = summaries[e] \cup {worker[w].attempt}
        PROVE  s = t
    BY <1>1, <1>4, <2>2 DEF ReusedBy
  <2> QED
    BY <2>1, <2>2, SummarySteps
<1> QED
  BY <1>2, <1>3, <1>4 DEF ReusedBy

(* However often an event is run again after a crash, a lost answer, an    *)
(* error or a timeout, its post has one summary at most, unless a claim    *)
(* overlapped a run (ProcessPostEvent looks before it inserts).            *)
THEOREM Reuse == Spec => []RepeatedRunsReuseSummary
<1>1. Init => ReuseInv
  BY DEF Init, ReuseInv, ReusedBy, Writing, Runs, IdleWorker, Busy, Handling, Returned
<1>2. ReuseInv => RepeatedRunsReuseSummary
  <2> SUFFICES ASSUME ReuseInv, NEW e \in Events \ overlapped
               PROVE  Cardinality(summaries[e]) <= 1
    BY DEF RepeatedRunsReuseSummary
  <2>1. \A s, t \in summaries[e] : s = t
    BY DEF ReuseInv, ReusedBy
  <2>2. CASE summaries[e] = {}
    BY <2>2, FS_EmptySet
  <2>3. ASSUME NEW s \in summaries[e] PROVE Cardinality(summaries[e]) = 1
    <3>1. summaries[e] = {s}
      BY <2>1, <2>3
    <3> QED
      BY <3>1, FS_Singleton
  <2> QED
    BY <2>2, <2>3
<1> QED
  BY <1>1, <1>2, NextReuse, Invariance, PTL DEF Spec

==============================================================================
