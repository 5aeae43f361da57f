----------------------- MODULE SummaryOutboxTimedProofs -----------------------
(***************************************************************************)
(* Theorems about SummaryOutboxTimed: its steps are steps of the outbox,   *)
(* so whatever is proved of the outbox holds of it; and as long as no      *)
(* fault happens, no lease is lost. Which faults happen later, and how     *)
(* many, does not matter.                                                  *)
(***************************************************************************)
EXTENDS SummaryOutboxTimed, SummaryOutboxProofs

LEMMA TimedStep == ASSUME [TimedNext]_timedVars PROVE [Next]_vars
<1>1. CASE Ordinary
  BY <1>1 DEF Ordinary, Next, Handler
<1>2. CASE Fault
  BY <1>2 DEF Fault, Next, Handler
<1>3. CASE UNCHANGED timedVars
  BY <1>3 DEF timedVars, vars
<1> QED
  BY <1>1, <1>2, <1>3 DEF TimedNext

(* The timed outbox implements the outbox: timing takes behaviors away and *)
(* adds none (EventWorkerPool, StuckEventReaper).                          *)
THEOREM TimedImplementsOutbox == TimedSpec => Spec
<1>1. TimedInit => Init
  BY DEF TimedInit
<1>2. [TimedNext]_timedVars => [Next]_vars
  BY TimedStep
<1> QED
  BY <1>1, <1>2, PTL DEF TimedSpec, Spec

(* The steps that write rows when there is no fault.                       *)
LEMMA OrdinaryWriters ==
    ASSUME Ordinary
    PROVE  \/ UNCHANGED row
           \/ Tick /\ \A w \in Workers : ~Urgent(w)
           \/ \E e \in Events : CreatePost(e) \/ FailExpired(e)
           \/ \E w \in Workers : \/ Heartbeat(w) \/ Finalize(w) \/ Retry(w)
                                 \/ \E e \in Events : ClaimOne(w, e)
<1>1. ASSUME NEW w \in Workers,
             CheckEvent(w) \/ Generate(w) \/ SaveSummary(w) \/ SaveSummaryFails(w)
      PROVE  UNCHANGED row
  BY <1>1 DEF CheckEvent, Generate, SaveSummary, SaveSummaryFails
<1>2. ASSUME NEW w \in Workers,
             CheckRunning(w) \/ ClaimNothing(w) \/ Abandon(w) \/ GracefulTimeout(w)
      PROVE  UNCHANGED row
  BY <1>2 DEF CheckRunning, ClaimNothing, Abandon, GracefulTimeout
<1>3. CASE ListLeaseExpired
  BY <1>3 DEF ListLeaseExpired
<1> QED
  BY <1>1, <1>2, <1>3 DEF Ordinary

(* A row whose lease is alive and whose lock stays keeps the rest of its   *)
(* lease, gets a new one, or gets older.                                   *)
LEMMA LeaseSteps ==
    ASSUME TypeOK, Ordinary, NEW e \in Events, Kept(e),
           row[e].lockedBy # NoWorker, row[e].lockedFor > 0
    PROVE  \/ row'[e].lockedFor \in {row[e].lockedFor, LeaseTTL}
           \/ Tick /\ \A w \in Workers : ~Urgent(w)
<1>t. row \in [Events -> Rows] /\ row[e] \in Rows
  BY DEF TypeOK
<1>k. row'[e].lockedBy # NoWorker
  BY DEF Kept
<1>1. ASSUME NEW f \in Events, CreatePost(f)
      PROVE  row'[e].lockedFor = row[e].lockedFor
  BY <1>1, <1>t DEF CreatePost, Rows
<1>2. ASSUME NEW f \in Events, FailExpired(f)
      PROVE  row'[e].lockedFor = row[e].lockedFor
  <2>1. ~MayFail(e)
    BY <1>t, ConstantsAssumption DEF MayFail, ExpiredPastGrace, Rows
  <2> QED
    BY <1>2, <1>t, <2>1 DEF FailExpired
<1>3. ASSUME NEW w \in Workers, Heartbeat(w)
      PROVE  row'[e].lockedFor \in {row[e].lockedFor, LeaseTTL}
  BY <1>3, <1>t DEF Heartbeat, Rows
<1>4. ASSUME NEW w \in Workers, NEW f \in Events, ClaimOne(w, f)
      PROVE  row'[e].lockedFor \in {row[e].lockedFor, LeaseTTL}
  BY <1>4, <1>t DEF ClaimOne, Claimed, Rows
<1>5. ASSUME NEW w \in Workers, Finalize(w) \/ Retry(w)
      PROVE  row'[e].lockedFor = row[e].lockedFor
  <2> DEFINE f == worker[w].event
  <2>1. ASSUME NEW status, NEW summary, FinalizeWithLease(w, f, status, summary)
        PROVE  row'[e].lockedFor = row[e].lockedFor
    <3>1. CASE f = e /\ row' # row
      <4>1. row'[e] = [Unlocked(row[e]) EXCEPT
                         !.status = status,
                         !.summary = IF summary = 0 THEN @ ELSE summary]
        BY <1>t, <2>1, <3>1 DEF FinalizeWithLease
      <4>2. row'[e].lockedBy = NoWorker
        BY <1>t, <4>1 DEF Unlocked, Rows
      <4> QED
        BY <1>k, <4>2
    <3>2. CASE ~(f = e /\ row' # row)
      BY <1>t, <2>1, <3>2 DEF FinalizeWithLease
    <3> QED
      BY <3>1, <3>2
  <2>2. ASSUME NEW delay, MarkForRetry(w, f, delay)
        PROVE  row'[e].lockedFor = row[e].lockedFor
    <3>1. CASE f = e /\ row' # row
      <4>1. row'[e] = [Unlocked(row[e]) EXCEPT !.status = "pending", !.retryIn = delay]
        BY <1>t, <2>2, <3>1 DEF MarkForRetry
      <4>2. row'[e].lockedBy = NoWorker
        BY <1>t, <4>1 DEF Unlocked, Rows
      <4> QED
        BY <1>k, <4>2
    <3>2. CASE ~(f = e /\ row' # row)
      BY <1>t, <2>2, <3>2 DEF MarkForRetry
    <3> QED
      BY <3>1, <3>2
  <2> QED
    BY <1>5, <2>1, <2>2 DEF Finalize, Retry
<1> QED
  BY <1>1, <1>2, <1>3, <1>4, <1>5, OrdinaryWriters

(* As long as no fault happened, every run owns its lease and no claim     *)
(* overlapped a run.                                                       *)
Calm == /\ \A w \in Workers, e \in Events : Runs(w, e) => OwnsLease(w, e)
        /\ overlapped = {}

CalmInv == faults \in Nat /\ (faults = 0 => Calm)

(* A live lease keeps its event from being claimed.                        *)
LEMMA LeasedNotEligible ==
    ASSUME TypeOK, NEW w \in Workers, NEW e \in Events, OwnsLease(w, e)
    PROVE  e \notin Eligible /\ ~MayFail(e)
<1>1. row[e] \in Rows
  BY DEF TypeOK
<1> QED
  BY <1>1, ConstantsAssumption DEF OwnsLease, Eligible, MayFail, ExpiredPastGrace, Rows

LEMMA CalmStep == ASSUME IInv, Calm, Ordinary, [Next]_vars PROVE Calm'
<1>t. TypeOK
  BY DEF IInv
<1>1. ASSUME NEW w \in Workers, NEW e \in Events, Runs(w, e)' PROVE OwnsLease(w, e)'
  <2>t. w # NoWorker /\ row[e] \in Rows
    BY <1>t, ConstantsAssumption DEF TypeOK
  <2>1. CASE ClaimOne(w, e)
    <3>1. row'[e] = [row[e] EXCEPT !.status = "processing", !.lockedBy = w,
                       !.lockedFor = LeaseTTL, !.attempts = row[e].attempts + 1]
      BY <1>t, <2>1 DEF ClaimOne, Claimed, TypeOK
    <3> QED
      BY <2>t, <3>1, ConstantsAssumption DEF OwnsLease, Rows
  <2>2. CASE Runs(w, e)
    <3>1. OwnsLease(w, e)
      BY <2>2 DEF Calm
    <3>2. e \notin Eligible /\ ~MayFail(e)
      BY <1>t, <3>1, LeasedNotEligible
    <3>3. CASE Kept(e)
      <4>1. CASE row'[e].lockedFor \in {row[e].lockedFor, LeaseTTL}
        BY <3>1, <3>3, <4>1, ConstantsAssumption DEF OwnsLease, Kept
      <4>2. CASE Tick /\ ~Urgent(w)
        <5>1. worker[w].pc = "generate" /\ ~(row[e].lockedFor <= 1)
          BY <2>2, <4>2 DEF Runs, Urgent, Busy, Handling
        <5>2. row'[e] = Later(row[e])
          BY <4>2 DEF Tick
        <5>3. row'[e].lockedFor = row[e].lockedFor - 1
          BY <2>t, <3>1, <5>1, <5>2, ConstantsAssumption DEF Later, OwnsLease, Rows
        <5> QED
          BY <2>t, <3>1, <3>3, <5>1, <5>3 DEF OwnsLease, Kept, Rows
      <4>3. row[e].lockedBy # NoWorker /\ row[e].lockedFor > 0
        BY <2>t, <3>1 DEF OwnsLease
      <4> QED
        BY <1>t, <3>3, <4>1, <4>2, <4>3, LeaseSteps
    <3>4. ~Created(e) /\ ~Failed(e)
      BY <3>1, <3>2 DEF Created, Failed, OwnsLease
    <3>5. ASSUME NEW v \in Workers PROVE ~Leased(v, e) /\ ~Resolved(v, e)
      <4>1. ~Leased(v, e)
        BY <3>2 DEF Leased
      <4>2. Resolved(v, e) => v = w /\ worker'[w].pc = "idle"
        BY <3>1 DEF Resolved, OwnsLease
      <4>3. worker'[w].pc # "idle"
        BY <1>1 DEF Runs, Busy, Handling, Returned
      <4> QED
        BY <4>1, <4>2, <4>3
    <3> QED
      BY <3>3, <3>4, <3>5, RowSteps
  <2> QED
    BY <1>1, <2>1, <2>2, RunSteps
<1>2. overlapped' = {}
  <2>1. CASE UNCHANGED overlapped
    BY <2>1 DEF Calm
  <2>2. ASSUME NEW w \in Workers, NEW e \in Events, ClaimOne(w, e) PROVE overlapped' = {}
    <3>1. e \in Eligible
      BY <2>2 DEF ClaimOne
    <3>2. ~\E v \in Workers : Runs(v, e)
      BY <1>t, <3>1, LeasedNotEligible DEF Calm
    <3> QED
      BY <2>2, <3>2 DEF ClaimOne, Calm
  <2> QED
    BY <2>1, <2>2, OverlapSteps
<1> QED
  BY <1>1, <1>2 DEF Calm

(* Without a fault the heartbeat keeps the lease of every run, however     *)
(* long the LLM takes and however many events and workers there are, and   *)
(* then no post gets a second summary (runHeartbeat, ExtendLease).         *)
THEOREM LeaseIsHeld == TimedSpec => []LeaseHeldWithoutFault
<1>1. TimedInit => CalmInv
  BY DEF TimedInit, Init, CalmInv, Calm, Runs, IdleWorker, Busy, Handling, Returned
<1>2. IInv /\ CalmInv /\ [TimedNext]_timedVars => CalmInv'
  <2> SUFFICES ASSUME IInv, CalmInv, [TimedNext]_timedVars PROVE CalmInv'
    OBVIOUS
  <2>1. CASE Ordinary /\ UNCHANGED faults
    BY <2>1, TimedStep, CalmStep DEF CalmInv
  <2>2. CASE faults' = faults + 1
    BY <2>2 DEF CalmInv
  <2>3. CASE UNCHANGED timedVars
    BY <2>3 DEF timedVars, CalmInv, Calm, Runs, OwnsLease
  <2> QED
    BY <2>1, <2>2, <2>3 DEF TimedNext
<1>3. IInv /\ CalmInv /\ RepeatedRunsReuseSummary => LeaseHeldWithoutFault
  <2> SUFFICES ASSUME IInv, CalmInv, RepeatedRunsReuseSummary, faults = 0
               PROVE  /\ \A w \in Workers : worker[w].pc \in Busy =>
                           OwnsLease(w, worker[w].event)
                      /\ \A e \in Events : Cardinality(summaries[e]) <= 1
    BY DEF LeaseHeldWithoutFault
  <2>1. ASSUME NEW w \in Workers, worker[w].pc \in Busy
        PROVE  OwnsLease(w, worker[w].event)
    <3>1. worker[w].event \in Events
      BY <2>1 DEF IInv, RunsAreKnown
    <3> QED
      BY <2>1, <3>1 DEF CalmInv, Calm, Runs
  <2>2. \A e \in Events : Cardinality(summaries[e]) <= 1
    BY DEF RepeatedRunsReuseSummary, CalmInv, Calm
  <2> QED
    BY <2>1, <2>2
<1>4. TimedSpec => []IInv /\ []RepeatedRunsReuseSummary
  BY TimedImplementsOutbox, Invariance, Reuse, PTL
<1> QED
  BY <1>1, <1>2, <1>3, <1>4, PTL DEF TimedSpec

===============================================================================
