-------------------------- MODULE ScoreOutboxProofs --------------------------
(***************************************************************************)
(* Theorems about ScoreOutbox, for all posts, digests, workers, interest   *)
(* requests and limits.                                                    *)
(***************************************************************************)
EXTENDS ScoreOutbox, TLAPS

(* Only what has a summary is enqueued, run or scored.                     *)
OnlySummarized ==
    /\ \A e \in Entities : \/ text[e] > 0
                           \/ score[e] = {} /\ event[e].status = "absent" /\ e \notin due
    /\ \A q \in Requests : \A e \in request[q].posts : score[e] # {}
    /\ \A w \in Workers : /\ Busy(w) => run[w].entity \in Entities /\ text[run[w].entity] > 0
                          /\ run[w].pc \in {"interests", "vector", "embed", "score"}
                                => run[w].text > 0

(* What a run holds agrees with what it has read.                          *)
RunIsCoherent ==
    \A w \in Workers :
        /\ run[w].pc \in {"vector", "embed", "score"} =>
              \A i \in run[w].interests : ModelOf[i] = ModelOf[w]
        /\ run[w].pc \in {"vector", "embed"} => run[w].interests # {}
        /\ run[w].pc = "score" =>
              run[w].vector = IF run[w].interests = {} THEN {}
                              ELSE {[text |-> run[w].text, model |-> ModelOf[w]]}

(* The number of writes determines the interests.                          *)
WritesAreCounted ==
    /\ \A w \in Workers : /\ run[w].written <= written
                          /\ run[w].pc \in {"vector", "embed", "score", "ok"}
                               /\ run[w].written = written
                               => run[w].interests = interests
    /\ \A e \in Entities : \A s \in score[e] :
          s.written <= written /\ (s.written = written => s.interests = interests)

(* Every write belongs to one request.                                     *)
WritesAreRequested ==
    /\ \A q \in Requests : /\ request[q].written <= written
                           /\ request[q].pc = "idle" <=> request[q].written = 0
    /\ \A q, r \in Requests : request[q].written = request[r].written
                                => q = r \/ request[q].written = 0
    /\ written > 0 => \E q \in Requests : request[q].written = written

(* A run that is done and up to date leaves an up-to-date score, unless    *)
(* one that is not has overwritten it.                                     *)
FreshRunsScore ==
    \A w \in Workers : run[w].pc = "ok" /\ run[w].written = written
                        /\ run[w].entity \in Outdated
                            => run[w].entity \in missed

(* How far the request of the last write has got.                          *)
LastWriteReaches ==
    \A q \in Requests : request[q].written = written =>
        /\ request[q].pc = "listed" =>
              \A e \in Posts \cap Outdated :
                  e \in missed \/ Active(e) \/ e \in request[q].posts
        /\ request[q].pc \in {"done", "failed"} =>
              \A e \in Outdated : e \in missed \/ Active(e)

IInv == /\ TypeOK
        /\ OnlySummarized
        /\ RunIsCoherent
        /\ ScoreIsCoherent
        /\ WritesAreCounted
        /\ WritesAreRequested
        /\ FreshRunsScore
        /\ LastWriteReaches

------------------------------------------------------------------------------
(* Which actions change which variable.                                    *)

(* Only a new summary changes the texts. *)
LEMMA TextFrame == ASSUME [Next]_vars
PROVE  text' = text \/ \E e \in Entities : Summarize(e)
BY DEF Next, Handle, ListDue, InsertDue, TickFails, Expire,
       LoseLease, Unlease, Reap, WriteInterest, ListScored,
       CommitRescore, RescoreRejected, RescoreFails, Rollback,
       ReadInput, ReadInterests, GetVector, StoreVector,
       StoreScore, Complete, Retry, Fail, Abandon, HandlerError,
       HandlerCancelled, FinalizeFails, Stop, Claim, vars

(* Only an interest request changes the interests. *)
LEMMA InterestFrame == ASSUME [Next]_vars
PROVE  (interests' = interests /\ written' = written)
         \/ \E q \in Requests : WriteInterest(q)
BY DEF Next, Handle, ListDue, InsertDue, TickFails, Summarize,
       Expire, LoseLease, Unlease, Reap, ListScored,
       CommitRescore, RescoreRejected, RescoreFails, Rollback,
       ReadInput, ReadInterests, GetVector, StoreVector,
       StoreScore, Complete, Retry, Fail, Abandon, HandlerError,
       HandlerCancelled, FinalizeFails, Stop, Claim, vars

(* Only StoreScore writes scores. *)
LEMMA ScoreFrame == ASSUME [Next]_vars
PROVE  score' = score \/ \E w \in Workers : StoreScore(w)
BY DEF Next, Handle, ListDue, InsertDue, TickFails, Summarize,
       Expire, LoseLease, Unlease, Reap, WriteInterest,
       ListScored, CommitRescore, RescoreRejected, RescoreFails,
       Rollback, ReadInput, ReadInterests, GetVector, StoreVector,
       Complete, Retry, Fail, Abandon, HandlerError,
       HandlerCancelled, FinalizeFails, Stop, Claim, vars

(* Only StoreVector writes vectors. *)
LEMMA VectorFrame == ASSUME [Next]_vars
PROVE  vector' = vector \/ \E w \in Workers : StoreVector(w)
BY DEF Next, Handle, ListDue, InsertDue, TickFails, Summarize,
       Expire, LoseLease, Unlease, Reap, WriteInterest,
       ListScored, CommitRescore, RescoreRejected, RescoreFails,
       Rollback, ReadInput, ReadInterests, GetVector, StoreScore,
       Complete, Retry, Fail, Abandon, HandlerError,
       HandlerCancelled, FinalizeFails, Stop, Claim, vars

(* Only the queries of the scheduler add to what is due. *)
LEMMA DueFrame == ASSUME [Next]_vars
PROVE  due' \subseteq due \/ ListDue(Posts) \/ ListDue(Digests)
BY DEF Next, Handle, InsertDue, TickFails, Summarize, Expire,
       LoseLease, Unlease, Reap, WriteInterest, ListScored,
       CommitRescore, RescoreRejected, RescoreFails, Rollback,
       ReadInput, ReadInterests, GetVector, StoreVector,
       StoreScore, Complete, Retry, Fail, Abandon, HandlerError,
       HandlerCancelled, FinalizeFails, Stop, Claim, vars

(* Only its own steps move a request. *)
LEMMA RequestFrame == ASSUME [Next]_vars
PROVE  request' = request
         \/ \E q \in Requests : \/ WriteInterest(q) \/ ListScored(q)
                                \/ CommitRescore(q) \/ RescoreRejected(q)
                                \/ RescoreFails(q)
BY DEF Next, Handle, ListDue, InsertDue, TickFails, Summarize,
       Expire, LoseLease, Unlease, Reap, Rollback, ReadInput,
       ReadInterests, GetVector, StoreVector, StoreScore,
       Complete, Retry, Fail, Abandon, HandlerError,
       HandlerCancelled, FinalizeFails, Stop, Claim, vars

(* Only its own steps move a worker. *)
LEMMA RunFrame == ASSUME [Next]_vars
PROVE  run' = run
         \/ \E w \in Workers : \/ ReadInput(w) \/ ReadInterests(w) \/ GetVector(w)
                               \/ StoreVector(w) \/ StoreScore(w) \/ HandlerError(w)
                               \/ \E pc \in {"idle", "stopped"} :
                                    run' = [run EXCEPT ![w] = Rest(pc)]
                               \/ \E e \in Entities : Claim(w, e)
BY DEF Next, Handle, ListDue, InsertDue, TickFails, Summarize,
       Expire, LoseLease, Unlease, Reap, WriteInterest,
       ListScored, CommitRescore, RescoreRejected, RescoreFails,
       Rollback, Complete, Retry, Fail, Abandon, HandlerCancelled,
       FinalizeFails, Stop, vars

(* The same for one worker.                                                *)
LEMMA RunStep ==
    ASSUME TypeOK, [Next]_vars, NEW w \in Workers
    PROVE  \/ run'[w] = run[w] \/ run'[w] = Rest("idle") \/ run'[w] = Rest("stopped")
           \/ \E e \in Entities : /\ Claim(w, e)
                                  /\ run'[w].pc = "input" /\ run'[w].entity = e
           \/ ReadInput(w) \/ ReadInterests(w) \/ GetVector(w) \/ StoreVector(w)
           \/ StoreScore(w) \/ HandlerError(w)
<1> DEFINE Own(v) == \/ ReadInput(v) \/ ReadInterests(v) \/ GetVector(v)
                     \/ StoreVector(v) \/ StoreScore(v) \/ HandlerError(v)
<1>1. ASSUME NEW v \in Workers, Own(v) PROVE v = w \/ run'[w] = run[w]
  BY <1>1 DEF ReadInput, ReadInterests, GetVector, StoreVector, StoreScore,
     HandlerError, TypeOK
<1>2. ASSUME NEW v \in Workers, NEW pc \in {"idle", "stopped"},
             run' = [run EXCEPT ![v] = Rest(pc)]
      PROVE  run'[w] = run[w] \/ run'[w] = Rest("idle") \/ run'[w] = Rest("stopped")
  BY <1>2 DEF TypeOK
<1>3. ASSUME NEW v \in Workers, NEW e \in Entities, Claim(v, e)
      PROVE  \/ run'[w] = run[w]
             \/ v = w /\ run'[w].pc = "input" /\ run'[w].entity = e
  BY <1>3 DEF Claim, TypeOK
<1> QED
  BY <1>1, <1>2, <1>3, RunFrame DEF TypeOK

(* The steps that write events. *)
LEMMA EventFrame == ASSUME [Next]_vars
PROVE  \/ event' = event
       \/ \E e \in Entities : \/ InsertDue(e) \/ Unlease(e) \/ Reap(e)
                              \/ \E w \in Workers : Claim(w, e)
       \/ \E q \in Requests : CommitRescore(q)
       \/ \E w \in Workers : Complete(w) \/ Retry(w) \/ Fail(w)
BY DEF Next, Handle, ListDue, TickFails, Summarize, Expire,
       LoseLease, WriteInterest, ListScored, RescoreRejected,
       RescoreFails, Rollback, ReadInput, ReadInterests,
       GetVector, StoreVector, StoreScore, Abandon, HandlerError,
       HandlerCancelled, FinalizeFails, Stop, vars

(* The steps that change the missed entities. *)
LEMMA MissedSteps == ASSUME [Next]_vars
PROVE  \/ missed' = missed
       \/ \E w \in Workers : StoreScore(w) \/ Complete(w) \/ Fail(w)
       \/ \E e \in Entities : Reap(e)
       \/ \E q \in Requests : \/ ListScored(q) \/ CommitRescore(q)
                              \/ RescoreRejected(q) \/ RescoreFails(q)
BY DEF Next, Handle, ListDue, InsertDue, TickFails, Summarize,
       Expire, LoseLease, Unlease, WriteInterest, Rollback,
       ReadInput, ReadInterests, GetVector, StoreVector, Retry,
       Abandon, HandlerError, HandlerCancelled, FinalizeFails, Stop, Claim, vars

(* Only an up-to-date score takes an entity out of the missed ones. *)
LEMMA MissedFrame == ASSUME [Next]_vars
PROVE  missed \subseteq missed' \/ \E w \in Workers : StoreScore(w)
BY DEF Next, Handle, ListDue, InsertDue, TickFails, Summarize,
       Expire, LoseLease, Unlease, Reap, WriteInterest,
       ListScored, CommitRescore, RescoreRejected, RescoreFails,
       Rollback, ReadInput, ReadInterests, GetVector, StoreVector,
       Complete, Retry, Fail, Abandon, HandlerError,
       HandlerCancelled, FinalizeFails, Stop, Claim, vars

(* The steps that are faults. *)
LEMMA FaultFrame == ASSUME [Next]_vars
PROVE  \/ faults' = faults
       \/ TickFails
       \/ \E e \in Entities : LoseLease(e)
       \/ \E q \in Requests : RescoreFails(q)
       \/ \E w \in Workers :
            HandlerError(w) \/ HandlerCancelled(w) \/ FinalizeFails(w)
BY DEF Next, Handle, ListDue, InsertDue, Summarize, Expire, Unlease, Reap,
       WriteInterest, ListScored, CommitRescore, RescoreRejected, Rollback,
       ReadInput, ReadInterests, GetVector, StoreVector, StoreScore,
       Complete, Retry, Fail, Abandon, Stop, Claim, vars

------------------------------------------------------------------------------
(* Type correctness.                                                       *)

LEMMA InitInvariant == Init => IInv
<1> USE ScoreAssumption
<1> SUFFICES ASSUME Init PROVE IInv
  OBVIOUS
<1>1. TypeOK
  BY DEF Init, TypeOK, EventRows, RequestStates, RunStates, NoEvent, IdleReq, Rest
<1>2. OnlySummarized /\ RunIsCoherent /\ ScoreIsCoherent
  BY DEF Init, OnlySummarized, RunIsCoherent, ScoreIsCoherent, NoEvent, IdleReq,
         Rest, Busy, Handling, Returned
<1>3. WritesAreCounted /\ WritesAreRequested
  BY DEF Init, WritesAreCounted, WritesAreRequested, IdleReq, Rest
<1>4. FreshRunsScore /\ LastWriteReaches
  BY DEF Init, FreshRunsScore, LastWriteReaches, IdleReq, Rest
<1> QED
  BY <1>1, <1>2, <1>3, <1>4 DEF IInv

(* What the inserts leave is a table of events.                            *)
LEMMA EnqueueTyped ==
    ASSUME TypeOK, NEW es
    PROVE  Enqueue(es) \in [Entities -> EventRows]
<1>1. NewEvent \in EventRows
  BY DEF NewEvent, EventRows
<1> QED
  BY <1>1 DEF Enqueue, TypeOK

(* So is a table with one event finished, retried or failed.               *)
LEMMA SetEventTyped ==
    ASSUME TypeOK, NEW e \in Entities,
           NEW status \in {"pending", "completed", "failed"}, SetEvent(e, status)
    PROVE  event' \in [Entities -> EventRows]
<1>1. event[e].attempts \in Nat
  BY DEF TypeOK, EventRows
<1>2. [status |-> status, attempts |-> event[e].attempts, owner |-> None,
       leased |-> FALSE] \in EventRows
  BY <1>1 DEF EventRows
<1> QED
  BY <1>2 DEF SetEvent, TypeOK

LEMMA TypeStep == ASSUME IInv, [Next]_vars PROVE TypeOK'
<1> USE ScoreAssumption
<1>0. TypeOK /\ OnlySummarized
  BY DEF IInv
<1>1. text' \in [Entities -> 0 .. MaxTexts]
  <2>1. ASSUME NEW e \in Entities, Summarize(e)
        PROVE  text' \in [Entities -> 0 .. MaxTexts]
    BY <1>0, <2>1 DEF Summarize, TypeOK
  <2> QED
    BY <1>0, <2>1, TextFrame DEF TypeOK
<1>2. interests' \subseteq Requests /\ written' \in Nat
  <2>1. ASSUME NEW q \in Requests, WriteInterest(q)
        PROVE  interests' \subseteq Requests /\ written' \in Nat
    BY <1>0, <2>1 DEF WriteInterest, Written, TypeOK
  <2> QED
    BY <1>0, <2>1, InterestFrame DEF TypeOK
<1>3. event' \in [Entities -> EventRows]
  <2>1. ASSUME NEW e \in Entities, InsertDue(e)
        PROVE  event' \in [Entities -> EventRows]
    BY <1>0, <2>1, EnqueueTyped DEF InsertDue
  <2>2. ASSUME NEW e \in Entities, Unlease(e)
        PROVE  event' \in [Entities -> EventRows]
    BY <1>0, <2>2 DEF Unlease, TypeOK, EventRows
  <2>3. ASSUME NEW e \in Entities, Reap(e)
        PROVE  event' \in [Entities -> EventRows]
    BY <1>0, <2>3, SetEventTyped DEF Reap
  <2>4. ASSUME NEW e \in Entities, NEW w \in Workers, Claim(w, e)
        PROVE  event' \in [Entities -> EventRows]
    BY <1>0, <2>4 DEF Claim, TypeOK, EventRows
  <2>5. ASSUME NEW q \in Requests, CommitRescore(q)
        PROVE  event' \in [Entities -> EventRows]
    BY <1>0, <2>5, EnqueueTyped DEF CommitRescore
  <2>6. ASSUME NEW w \in Workers, Complete(w) \/ Retry(w) \/ Fail(w)
        PROVE  event' \in [Entities -> EventRows]
    <3>1. run[w].entity \in Entities
      BY <1>0, <2>6 DEF OnlySummarized, Busy, Returned, Complete, Retry, Fail
    <3> QED
      BY <1>0, <2>6, <3>1, SetEventTyped DEF Complete, Retry, Fail
  <2> QED
    BY <1>0, <2>1, <2>2, <2>3, <2>4, <2>5, <2>6, EventFrame DEF TypeOK
<1>4. score' \in [Entities -> SUBSET ScoreRows]
  <2>1. ASSUME NEW w \in Workers, StoreScore(w)
        PROVE  score' \in [Entities -> SUBSET ScoreRows]
    <3>1. run[w] \in RunStates /\ run[w].text > 0
      BY <1>0, <2>1 DEF StoreScore, OnlySummarized, TypeOK
    <3>2. [text |-> run[w].text, model |-> ModelOf[w], interests |-> run[w].interests,
           written |-> run[w].written, vector |-> run[w].vector] \in ScoreRows
      BY <3>1 DEF RunStates, ScoreRows, Models
    <3> QED
      BY <1>0, <2>1, <3>2 DEF StoreScore, TypeOK
  <2> QED
    BY <1>0, <2>1, ScoreFrame DEF TypeOK
<1>5. vector' \in [Entities -> SUBSET Vectors]
  <2>1. ASSUME NEW w \in Workers, StoreVector(w)
        PROVE  vector' \in [Entities -> SUBSET Vectors]
    <3>1. [text |-> run[w].text, model |-> ModelOf[w]] \in Vectors
      BY <1>0, <2>1 DEF StoreVector, OnlySummarized, TypeOK, RunStates, Vectors, Models
    <3> QED
      BY <1>0, <2>1, <3>1 DEF StoreVector, TypeOK
  <2> QED
    BY <1>0, <2>1, VectorFrame DEF TypeOK
<1>6. due' \subseteq Entities
  BY <1>0, DueFrame DEF ListDue, Batches, Due, Entities, TypeOK
<1>7. request' \in [Requests -> RequestStates]
  <2>1. ASSUME NEW q \in Requests, WriteInterest(q)
        PROVE  request' \in [Requests -> RequestStates]
    BY <1>0, <2>1 DEF WriteInterest, TypeOK, RequestStates
  <2>2. ASSUME NEW q \in Requests, ListScored(q)
        PROVE  request' \in [Requests -> RequestStates]
    <3>1. PICK rows \in Batches(ScoredPostRows) :
             request' = [request EXCEPT ![q] =
                [pc |-> "listed", written |-> request[q].written, posts |-> rows]]
      BY <2>2 DEF ListScored
    <3>2. rows \subseteq Entities /\ request[q].written \in Nat
      BY <1>0 DEF Batches, ScoredPostRows, Entities, TypeOK, RequestStates
    <3> QED
      BY <1>0, <3>1, <3>2 DEF TypeOK, RequestStates
  <2>3. ASSUME NEW q \in Requests,
               CommitRescore(q) \/ RescoreRejected(q) \/ RescoreFails(q)
        PROVE  request' \in [Requests -> RequestStates]
    <3>1. PICK pc \in {"done", "failed"} : request' = [request EXCEPT ![q] =
                [pc |-> pc, written |-> request[q].written, posts |-> {}]]
      BY <2>3 DEF CommitRescore, RescoreRejected, RescoreFails, Rollback
    <3>2. request[q].written \in Nat
      BY <1>0 DEF TypeOK, RequestStates
    <3> QED
      BY <1>0, <3>1, <3>2 DEF TypeOK, RequestStates
  <2> QED
    BY <1>0, <2>1, <2>2, <2>3, RequestFrame DEF TypeOK
<1>8. run' \in [Workers -> RunStates]
  <2> DEFINE Goal == run' \in [Workers -> RunStates]
  <2>1. ASSUME NEW w \in Workers, ReadInput(w) PROVE Goal
    <3>1. run[w].entity \in Entities /\ text[run[w].entity] \in 0 .. MaxTexts
      BY <1>0, <2>1 DEF ReadInput, OnlySummarized, Busy, Handling, TypeOK
    <3> QED
      BY <1>0, <2>1, <3>1 DEF ReadInput, TypeOK, RunStates, Handling
  <2>2. ASSUME NEW w \in Workers, ReadInterests(w) PROVE Goal
    <3>1. AfterInterests(w) \in Handling \cup Returned
      BY DEF AfterInterests, Handling, Returned
    <3> QED
      BY <1>0, <2>2, <3>1 DEF ReadInterests, TypeOK, RunStates
  <2>3. ASSUME NEW w \in Workers, GetVector(w) PROVE Goal
    <3>1. run[w] \in RunStates /\ run[w].entity \in Entities
      BY <1>0, <2>3 DEF GetVector, OnlySummarized, Busy, Handling, TypeOK
    <3>2. PICK pc \in {"score", "embed"}, v \in {vector[run[w].entity], {}} :
            run' = [run EXCEPT ![w] =
              [pc |-> pc, entity |-> run[w].entity, text |-> run[w].text,
               interests |-> run[w].interests, written |-> run[w].written,
               vector |-> v]]
      BY <2>3 DEF GetVector
    <3>3. v \subseteq Vectors
      BY <1>0, <3>1 DEF TypeOK
    <3> QED
      BY <1>0, <3>1, <3>2, <3>3 DEF TypeOK, RunStates, Handling
  <2>4. ASSUME NEW w \in Workers, StoreVector(w) PROVE Goal
    <3>1. {[text |-> run[w].text, model |-> ModelOf[w]]} \subseteq Vectors
      BY <1>0, <2>4 DEF StoreVector, OnlySummarized, TypeOK, RunStates, Vectors, Models
    <3> QED
      BY <1>0, <2>4, <3>1 DEF StoreVector, TypeOK, RunStates, Handling
  <2>5. ASSUME NEW w \in Workers, StoreScore(w) PROVE Goal
    BY <1>0, <2>5 DEF StoreScore, TypeOK, RunStates, Returned
  <2>6. ASSUME NEW w \in Workers, HandlerError(w) PROVE Goal
    BY <1>0, <2>6 DEF HandlerError, TypeOK, RunStates, Returned
  <2>7. ASSUME NEW w \in Workers, NEW pc \in {"idle", "stopped"},
               run' = [run EXCEPT ![w] = Rest(pc)]
        PROVE  Goal
    BY <1>0, <2>7 DEF Rest, TypeOK, RunStates
  <2>8. ASSUME NEW w \in Workers, NEW e \in Entities, Claim(w, e) PROVE Goal
    BY <1>0, <2>8 DEF Claim, TypeOK, RunStates, Handling
  <2> QED
    BY <1>0, <2>1, <2>2, <2>3, <2>4, <2>5, <2>6, <2>7, <2>8, RunFrame DEF TypeOK
<1>9. missed' \subseteq Entities
  <2>1. ASSUME NEW w \in Workers, StoreScore(w) \/ Complete(w) \/ Fail(w)
        PROVE  missed' \subseteq Entities
    <3>1. run[w].entity \in Entities
      BY <1>0, <2>1 DEF OnlySummarized, Busy, Handling, Returned, StoreScore,
                        Complete, Fail
    <3> QED
      BY <1>0, <2>1, <3>1 DEF StoreScore, Complete, Fail, TypeOK, Scored
  <2>2. ASSUME NEW e \in Entities, Reap(e)
        PROVE  missed' \subseteq Entities
    BY <1>0, <2>2 DEF Reap, TypeOK
  <2>3. ASSUME NEW q \in Requests,
               \/ ListScored(q) \/ CommitRescore(q) \/ RescoreRejected(q)
               \/ RescoreFails(q)
        PROVE  missed' \subseteq Entities
    BY <1>0, <2>3 DEF ListScored, CommitRescore, RescoreRejected, RescoreFails,
       Rollback, Outdated, ScoredDigestRows, TypeOK, Entities
  <2> QED
    BY <1>0, <2>1, <2>2, <2>3, MissedSteps DEF TypeOK
<1>10. faults' \in 0 .. MaxFaults
  BY <1>0, FaultFrame DEF TypeOK, TickFails, LoseLease, RescoreFails,
     HandlerError, HandlerCancelled, FinalizeFails, Stop
<1> QED
  BY <1>1, <1>2, <1>3, <1>4, <1>5, <1>6, <1>7, <1>8, <1>9, <1>10 DEF TypeOK

------------------------------------------------------------------------------
(* Only what has a summary is worked on.                                   *)

(* Summaries and scores stay.                                              *)
LEMMA TextGrows ==
    ASSUME TypeOK, [Next]_vars, NEW e \in Entities, text[e] > 0
    PROVE  text'[e] > 0
<1>1. ASSUME NEW f \in Entities, Summarize(f) PROVE text'[e] > 0
  <2>1. text'[e] = text[e] \/ text'[e] = text[e] + 1
    BY <1>1 DEF Summarize, TypeOK
  <2> QED
    BY <2>1 DEF TypeOK
<1> QED
  BY <1>1, TextFrame

LEMMA ScoreStays ==
    ASSUME TypeOK, [Next]_vars, NEW e \in Entities, score[e] # {}
    PROVE  score'[e] # {}
<1>1. ASSUME NEW w \in Workers, StoreScore(w) PROVE score'[e] # {}
  BY <1>1 DEF StoreScore, TypeOK
<1> QED
  BY <1>1, ScoreFrame

LEMMA OnlySummarizedStep == ASSUME IInv, [Next]_vars PROVE OnlySummarized'
<1>0. TypeOK /\ OnlySummarized
  BY DEF IInv
<1>1. ASSUME NEW e \in Entities, ~(text[e] > 0)
      PROVE  score'[e] = {} /\ event'[e].status = "absent" /\ e \notin due'
  <2>0. score[e] = {} /\ event[e].status = "absent" /\ e \notin due
    BY <1>0, <1>1 DEF OnlySummarized
  <2>1. \A w \in Workers : Busy(w) => run[w].entity # e
    BY <1>0, <1>1 DEF OnlySummarized
  <2>2. score'[e] = {}
    BY <1>0, <2>0, <2>1, ScoreFrame DEF StoreScore, Busy, Handling, TypeOK
  <2>3. e \notin due'
    BY <1>1, <2>0, DueFrame DEF ListDue, Batches, Due
  <2>4. event'[e] = event[e]
    <3>1. ASSUME NEW f \in Entities, InsertDue(f) PROVE event'[e] = event[e]
      BY <2>0, <3>1 DEF InsertDue, Enqueue
    <3>2. ASSUME NEW f \in Entities, Unlease(f) \/ Reap(f)
          PROVE  event'[e] = event[e]
      BY <1>0, <2>0, <3>2 DEF Unlease, Reap, SetEvent, TypeOK
    <3>3. ASSUME NEW f \in Entities, NEW w \in Workers, Claim(w, f)
          PROVE  event'[e] = event[e]
      BY <1>0, <2>0, <3>3 DEF Claim, Claimable, TypeOK
    <3>4. ASSUME NEW q \in Requests, CommitRescore(q)
          PROVE  event'[e] = event[e]
      <4>1. e \notin request[q].posts /\ e \notin ScoredDigestRows
        BY <1>0, <2>0 DEF OnlySummarized, ScoredDigestRows
      <4> QED
        BY <3>4, <4>1 DEF CommitRescore, Batches, Enqueue
    <3>5. ASSUME NEW w \in Workers, Complete(w) \/ Retry(w) \/ Fail(w)
          PROVE  event'[e] = event[e]
      BY <1>0, <2>1, <3>5 DEF Complete, Retry, Fail, SetEvent, Busy, Returned, TypeOK
    <3> QED
      BY <3>1, <3>2, <3>3, <3>4, <3>5, EventFrame
  <2> QED
    BY <2>0, <2>2, <2>3, <2>4
<1>2. ASSUME NEW q \in Requests, NEW e \in request'[q].posts
      PROVE  score'[e] # {}
  <2>1. score[e] # {} /\ e \in Entities
    <3>1. CASE e \in request[q].posts
      BY <1>0, <3>1 DEF OnlySummarized, TypeOK, RequestStates
    <3>2. CASE e \notin request[q].posts
      <4>1. ListScored(q)
        BY <1>0, <1>2, <3>2, RequestFrame DEF WriteInterest, ListScored,
           CommitRescore, RescoreRejected, RescoreFails, Rollback, TypeOK
      <4> QED
        BY <1>0, <1>2, <4>1 DEF ListScored, Batches, ScoredPostRows, Entities, TypeOK
    <3> QED
      BY <3>1, <3>2
  <2> QED
    BY <1>0, <2>1, ScoreStays
<1>3. ASSUME NEW w \in Workers
      PROVE  /\ Busy(w)' => run'[w].entity \in Entities /\ text'[run'[w].entity] > 0
             /\ run'[w].pc \in {"interests", "vector", "embed", "score"}
                  => run'[w].text > 0
  <2>1. CASE run'[w] = run[w]
    BY <1>0, <2>1, TextGrows DEF OnlySummarized, Busy
  <2>2. CASE run'[w] = Rest("idle") \/ run'[w] = Rest("stopped")
    BY <2>2 DEF Rest, Busy, Handling, Returned
  <2>3. ASSUME NEW e \in Entities, Claim(w, e),
               run'[w].pc = "input" /\ run'[w].entity = e
        PROVE  Busy(w)' => run'[w].entity \in Entities /\ text'[run'[w].entity] > 0
    <3>1. text[e] > 0
      BY <1>0, <2>3 DEF OnlySummarized, Claim, Claimable
    <3> QED
      BY <1>0, <2>3, <3>1, TextGrows
  <2>4. CASE \/ ReadInput(w) \/ ReadInterests(w) \/ GetVector(w) \/ StoreVector(w)
             \/ StoreScore(w) \/ HandlerError(w)
    <3>1. run[w].entity \in Entities /\ text[run[w].entity] > 0
      BY <1>0, <2>4 DEF OnlySummarized, Busy, Handling, ReadInput, ReadInterests,
         GetVector, StoreVector, StoreScore, HandlerError
    <3>2. run'[w].entity = run[w].entity
      BY <1>0, <2>4 DEF ReadInput, ReadInterests, GetVector, StoreVector,
         StoreScore, HandlerError, TypeOK
    <3>3. text'[run'[w].entity] > 0
      BY <1>0, <3>1, <3>2, TextGrows
    <3>4. run'[w].pc \in {"interests", "vector", "embed", "score"} => run'[w].text > 0
      BY <1>0, <2>4, <3>1 DEF OnlySummarized, ReadInput, ReadInterests, GetVector,
         StoreVector, StoreScore, HandlerError, TypeOK
    <3> QED
      BY <3>1, <3>2, <3>3, <3>4
  <2>5. \/ run'[w] = run[w] \/ run'[w] = Rest("idle") \/ run'[w] = Rest("stopped")
        \/ \E e \in Entities : /\ Claim(w, e)
                               /\ run'[w].pc = "input" /\ run'[w].entity = e
        \/ ReadInput(w) \/ ReadInterests(w) \/ GetVector(w) \/ StoreVector(w)
        \/ StoreScore(w) \/ HandlerError(w)
    BY <1>0, RunStep
  <2> QED
    BY <2>1, <2>2, <2>3, <2>4, <2>5
<1> QED
  BY <1>0, <1>1, <1>2, <1>3, TextGrows DEF OnlySummarized

------------------------------------------------------------------------------
(* Coherence of runs and scores.                                           *)

LEMMA RunIsCoherentStep == ASSUME IInv, [Next]_vars PROVE RunIsCoherent'
<1>0. TypeOK /\ RunIsCoherent
  BY DEF IInv
<1> SUFFICES ASSUME NEW w \in Workers
    PROVE /\ run'[w].pc \in {"vector", "embed", "score"} =>
                \A i \in run'[w].interests : ModelOf[i] = ModelOf[w]
          /\ run'[w].pc \in {"vector", "embed"} => run'[w].interests # {}
          /\ run'[w].pc = "score" =>
                run'[w].vector = IF run'[w].interests = {} THEN {}
                                 ELSE {[text |-> run'[w].text, model |-> ModelOf[w]]}
  BY DEF RunIsCoherent
<1>1. CASE run'[w] = run[w]
  BY <1>0, <1>1 DEF RunIsCoherent
<1>2. CASE run'[w] = Rest("idle") \/ run'[w] = Rest("stopped") \/ run'[w].pc = "input"
  BY <1>2 DEF Rest
<1>3. CASE ReadInput(w) \/ StoreScore(w) \/ HandlerError(w)
  BY <1>0, <1>3 DEF ReadInput, StoreScore, HandlerError, TypeOK
<1>4. CASE ReadInterests(w)
  <2>1. run'[w] = [pc |-> AfterInterests(w), entity |-> run[w].entity,
                   text |-> run[w].text, interests |-> interests,
                   written |-> written, vector |-> {}]
    BY <1>0, <1>4 DEF ReadInterests, TypeOK
  <2> QED
    BY <2>1 DEF AfterInterests
<1>5. CASE GetVector(w)
  BY <1>0, <1>5 DEF GetVector, Hit, RunIsCoherent, TypeOK
<1>6. CASE StoreVector(w)
  BY <1>0, <1>6 DEF StoreVector, RunIsCoherent, TypeOK
<1> QED
  BY <1>0, <1>1, <1>2, <1>3, <1>4, <1>5, <1>6, RunStep

LEMMA ScoreIsCoherentStep == ASSUME IInv, [Next]_vars PROVE ScoreIsCoherent'
<1>0. TypeOK /\ RunIsCoherent /\ ScoreIsCoherent
  BY DEF IInv
<1>1. ASSUME NEW w \in Workers, StoreScore(w) PROVE ScoreIsCoherent'
  <2> DEFINE r == [text |-> run[w].text, model |-> ModelOf[w],
                   interests |-> run[w].interests, written |-> run[w].written, vector |-> run[w].vector]
  <2>1. /\ \A i \in r.interests : ModelOf[i] = r.model
        /\ r.vector = IF r.interests = {} THEN {}
                      ELSE {[text |-> r.text, model |-> r.model]}
    BY <1>0, <1>1 DEF StoreScore, RunIsCoherent
  <2>2. \A e \in Entities : score'[e] = score[e] \/ score'[e] = {r}
    BY <1>0, <1>1 DEF StoreScore, TypeOK
  <2> HIDE DEF r
  <2>3. ASSUME NEW e \in Entities, NEW s \in score'[e]
        PROVE  /\ \A i \in s.interests : ModelOf[i] = s.model
               /\ s.vector = IF s.interests = {} THEN {}
                             ELSE {[text |-> s.text, model |-> s.model]}
    <3>1. CASE s \in score[e]
      BY <1>0, <3>1 DEF ScoreIsCoherent
    <3>2. CASE s = r
      BY <2>1, <3>2
    <3> QED
      BY <2>2, <3>1, <3>2
  <2> QED
    BY <2>3 DEF ScoreIsCoherent
<1> QED
  BY <1>0, <1>1, ScoreFrame DEF ScoreIsCoherent

------------------------------------------------------------------------------
(* The writes of the interests.                                            *)

LEMMA WritesAreCountedStep == ASSUME IInv, [Next]_vars PROVE WritesAreCounted'
<1>0. TypeOK /\ WritesAreCounted
  BY DEF IInv
<1>1. \/ interests' = interests /\ written' = written
      \/ written' = written + 1
  BY InterestFrame DEF WriteInterest
<1>2. ASSUME NEW w \in Workers
      PROVE  /\ run'[w].written <= written'
             /\ run'[w].pc \in {"vector", "embed", "score", "ok"}
                  /\ run'[w].written = written'
                  => run'[w].interests = interests'
  <2>0. /\ written \in Nat /\ run[w].written \in Nat
        /\ run[w].written <= written
        /\ run[w].pc \in {"vector", "embed", "score", "ok"}
             /\ run[w].written = written => run[w].interests = interests
    BY <1>0 DEF WritesAreCounted, TypeOK, RunStates
  <2>1. CASE run'[w] = run[w]
    BY <1>1, <2>0, <2>1
  <2>2. CASE run'[w] = Rest("idle") \/ run'[w] = Rest("stopped")
    BY <1>1, <2>0, <2>2 DEF Rest
  <2>3. CASE ReadInput(w) \/ ReadInterests(w) \/ \E e \in Entities : Claim(w, e)
    BY <1>0, <2>0, <2>3 DEF ReadInput, ReadInterests, Claim, TypeOK
  <2>4. CASE GetVector(w) \/ StoreVector(w) \/ StoreScore(w) \/ HandlerError(w)
    BY <1>0, <2>0, <2>4 DEF GetVector, StoreVector, StoreScore, HandlerError, TypeOK
  <2> QED
    BY <1>0, <2>1, <2>2, <2>3, <2>4, RunStep
<1>3. ASSUME NEW e \in Entities, NEW s \in score'[e]
      PROVE  s.written <= written' /\ (s.written = written' => s.interests = interests')
  <2>1. CASE s \in score[e]
    <3>1. s.written \in Nat /\ written \in Nat /\ s.written <= written
      BY <1>0, <2>1 DEF WritesAreCounted, TypeOK, ScoreRows
    <3> QED
      BY <1>0, <1>1, <2>1, <3>1 DEF WritesAreCounted
  <2>2. CASE s \notin score[e]
    <3>1. PICK w \in Workers : StoreScore(w)
      BY <1>3, <2>2, ScoreFrame
    <3>2. s = [text |-> run[w].text, model |-> ModelOf[w], interests |-> run[w].interests,
               written |-> run[w].written, vector |-> run[w].vector]
      BY <1>0, <1>3, <2>2, <3>1 DEF StoreScore, TypeOK
    <3> QED
      BY <1>0, <3>1, <3>2 DEF StoreScore, WritesAreCounted
  <2> QED
    BY <2>1, <2>2
<1> QED
  BY <1>2, <1>3 DEF WritesAreCounted

LEMMA WritesAreRequestedStep == ASSUME IInv, [Next]_vars PROVE WritesAreRequested'
<1>0. TypeOK /\ WritesAreRequested
  BY DEF IInv
<1>1. ASSUME NEW q \in Requests, WriteInterest(q) PROVE WritesAreRequested'
  <2>1. /\ written' = written + 1 /\ written \in Nat
        /\ request' = [request EXCEPT ![q] =
                         [pc |-> "written", written |-> written + 1, posts |-> {}]]
    BY <1>0, <1>1 DEF WriteInterest, TypeOK
  <2>2. \A r \in Requests : request[r].written \in Nat /\ request[r].written <= written
    BY <1>0 DEF WritesAreRequested, TypeOK, RequestStates
  <2>3. request'[q].written = written' /\ request'[q].pc = "written"
    BY <1>0, <2>1 DEF TypeOK
  <2>4. \A r \in Requests \ {q} : request'[r] = request[r]
    BY <1>0, <2>1 DEF TypeOK
  <2>5. written' \in Nat /\ written' > 0
        /\ \A r \in Requests \ {q} : request'[r].written < written'
    BY <2>1, <2>2, <2>4
  <2>6. \A r \in Requests : /\ request'[r].written <= written'
                            /\ request'[r].pc = "idle" <=> request'[r].written = 0
    BY <1>0, <2>3, <2>4, <2>5, <2>2, <2>1 DEF WritesAreRequested
  <2>7. \A r, t \in Requests : request'[r].written = request'[t].written
                                => r = t \/ request'[r].written = 0
    BY <1>0, <2>2, <2>3, <2>4, <2>5 DEF WritesAreRequested
  <2> QED
    BY <2>3, <2>6, <2>7 DEF WritesAreRequested
<1>2. CASE /\ written' = written
           /\ \A q \in Requests : /\ request'[q].written = request[q].written
                                  /\ request'[q].pc = "idle" <=> request[q].pc = "idle"
  BY <1>0, <1>2 DEF WritesAreRequested
<1>3. ASSUME NEW r \in Requests,
             ListScored(r) \/ CommitRescore(r) \/ RescoreRejected(r) \/ RescoreFails(r)
      PROVE  /\ written' = written
             /\ \A q \in Requests : /\ request'[q].written = request[q].written
                                    /\ request'[q].pc = "idle" <=> request[q].pc = "idle"
  BY <1>0, <1>3 DEF ListScored, CommitRescore, RescoreRejected, RescoreFails,
     Rollback, TypeOK
<1> QED
  BY <1>1, <1>2, <1>3, RequestFrame, InterestFrame

------------------------------------------------------------------------------
(* What a write of the interests reaches.                                  *)

(* A step that does not write the interests makes no score outdated but    *)
(* those a run stores, and those it marks.                                 *)
LEMMA OutdatedStep ==
    ASSUME IInv, [Next]_vars, written' = written, NEW e \in Entities, e \in Outdated'
    PROVE  \/ e \in missed'
           \/ e \in Outdated /\ (e \in missed => e \in missed')
<1>0. TypeOK
  BY DEF IInv
<1>1. ASSUME NEW w \in Workers, StoreScore(w)
      PROVE  \/ e \in missed'
             \/ e \in Outdated /\ (e \in missed => e \in missed')
  <2>1. CASE e = run[w].entity
    <3>1. score'[e] = {[text |-> run[w].text, model |-> ModelOf[w], interests |-> run[w].interests,
                        written |-> run[w].written, vector |-> run[w].vector]}
      BY <1>0, <1>1, <2>1 DEF StoreScore, TypeOK
    <3>2. run[w].written # written
      BY <3>1 DEF Outdated
    <3> QED
      BY <1>1, <2>1, <3>2 DEF StoreScore
  <2>2. CASE e # run[w].entity
    <3>1. score'[e] = score[e] /\ (e \in missed => e \in missed')
      BY <1>0, <1>1, <2>2 DEF StoreScore, TypeOK
    <3> QED
      BY <3>1 DEF Outdated
  <2> QED
    BY <2>1, <2>2
<1>2. CASE score' = score /\ missed \subseteq missed'
  BY <1>2 DEF Outdated
<1>3. ASSUME ~ \E w \in Workers : StoreScore(w)
      PROVE  score' = score /\ missed \subseteq missed'
  BY <1>3, ScoreFrame, MissedFrame
<1> QED
  BY <1>1, <1>2, <1>3

LEMMA FreshRunsScoreStep == ASSUME IInv, [Next]_vars PROVE FreshRunsScore'
<1>0. TypeOK /\ FreshRunsScore /\ WritesAreCounted /\ OnlySummarized
  BY DEF IInv
<1> SUFFICES ASSUME NEW w \in Workers, run'[w].pc = "ok",
                    run'[w].written = written', run'[w].entity \in Outdated'
    PROVE run'[w].entity \in missed'
  BY DEF FreshRunsScore
<1>1. CASE StoreScore(w)
  <2>1. /\ run'[w].entity = run[w].entity /\ run'[w].written = run[w].written
        /\ run[w].entity \in Entities /\ written' = written
    BY <1>0, <1>1 DEF StoreScore, OnlySummarized, Busy, Handling, TypeOK
  <2>2. score'[run[w].entity] =
          {[text |-> run[w].text, model |-> ModelOf[w], interests |-> run[w].interests,
            written |-> run[w].written, vector |-> run[w].vector]}
    BY <1>0, <1>1, <2>1 DEF StoreScore, TypeOK
  <2> QED
    BY <2>1, <2>2 DEF Outdated
<1>2. CASE ~ StoreScore(w)
  <2>1. run'[w] = run[w]
    BY <1>0, <1>2, RunStep DEF Rest, ReadInput, ReadInterests, GetVector,
       StoreVector, HandlerError, AfterInterests, TypeOK
  <2>2. written' = written
    <3>1. run[w].written <= written /\ written \in Nat /\ run[w].written \in Nat
      BY <1>0 DEF WritesAreCounted, TypeOK, RunStates
    <3> QED
      BY <2>1, <3>1, InterestFrame DEF WriteInterest
  <2>3. run[w].entity \in Entities
    BY <2>1 DEF Outdated
  <2> QED
    BY <1>0, <2>1, <2>2, <2>3, OutdatedStep DEF FreshRunsScore
<1> QED
  BY <1>1, <1>2

(* The event of an outdated score that ends without a new attempt marks    *)
(* the entity as missed.                                                   *)
LEMMA ActiveStep ==
    ASSUME IInv, [Next]_vars, NEW e \in Entities, Active(e), e \in Outdated
    PROVE  Active(e)' \/ e \in missed'
<1>0. TypeOK /\ OnlySummarized /\ FreshRunsScore
  BY DEF IInv
<1>1. e \in Scored
  BY DEF Outdated, Scored
<1>2. ASSUME NEW f \in Entities, InsertDue(f) PROVE Active(e)'
  BY <1>2 DEF InsertDue, Enqueue, Active
<1>3. ASSUME NEW f \in Entities, Unlease(f) PROVE Active(e)'
  BY <1>0, <1>3 DEF Unlease, Active, TypeOK
<1>4. ASSUME NEW f \in Entities, Reap(f) PROVE Active(e)' \/ e \in missed'
  BY <1>0, <1>1, <1>4 DEF Reap, SetEvent, Active, TypeOK
<1>5. ASSUME NEW f \in Entities, NEW w \in Workers, Claim(w, f) PROVE Active(e)'
  BY <1>0, <1>5 DEF Claim, Active, TypeOK
<1>6. ASSUME NEW q \in Requests, CommitRescore(q) PROVE Active(e)'
  BY <1>6 DEF CommitRescore, Enqueue, Active
<1>7. ASSUME NEW w \in Workers, Complete(w) PROVE Active(e)' \/ e \in missed'
  <2>1. CASE run[w].entity = e
    BY <1>0, <1>7, <2>1 DEF Complete, FreshRunsScore
  <2>2. CASE run[w].entity # e
    BY <1>0, <1>7, <2>2 DEF Complete, SetEvent, Active, TypeOK
  <2> QED
    BY <2>1, <2>2
<1>8. ASSUME NEW w \in Workers, Retry(w) PROVE Active(e)'
  BY <1>0, <1>8 DEF Retry, SetEvent, Active, TypeOK
<1>9. ASSUME NEW w \in Workers, Fail(w) PROVE Active(e)' \/ e \in missed'
  BY <1>0, <1>1, <1>9 DEF Fail, SetEvent, Active, TypeOK
<1> QED
  BY <1>2, <1>3, <1>4, <1>5, <1>6, <1>7, <1>8, <1>9, EventFrame DEF Active

LEMMA LastWriteReachesStep == ASSUME IInv, [Next]_vars PROVE LastWriteReaches'
<1>0. TypeOK /\ WritesAreRequested /\ LastWriteReaches
  BY DEF IInv
<1> SUFFICES ASSUME NEW q \in Requests, request'[q].written = written'
    PROVE  /\ request'[q].pc = "listed" =>
                 \A e \in Posts \cap Outdated' :
                     e \in missed' \/ Active(e)' \/ e \in request'[q].posts
           /\ request'[q].pc \in {"done", "failed"} =>
                 \A e \in Outdated' : e \in missed' \/ Active(e)'
  BY DEF LastWriteReaches
<1>1. ASSUME NEW r \in Requests, WriteInterest(r)
      PROVE  request'[q].pc = "written"
  <2>1. /\ written' = written + 1
        /\ request' = [request EXCEPT ![r] =
                         [pc |-> "written", written |-> written + 1, posts |-> {}]]
    BY <1>1 DEF WriteInterest
  <2>2. written \in Nat /\ request[q].written \in Nat /\ request[q].written <= written
    BY <1>0 DEF WritesAreRequested, TypeOK, RequestStates
  <2>3. q = r
    <3>1. q # r => request'[q] = request[q]
      BY <1>0, <2>1 DEF TypeOK
    <3> QED
      BY <2>1, <2>2, <3>1
  <2> QED
    BY <1>0, <2>1, <2>3 DEF TypeOK
<1>2. CASE ListScored(q)
  <2>1. /\ written' = written /\ score' = score /\ event' = event
        /\ request'[q].pc = "listed"
        /\ Posts \cap (ScoredPostRows \ request'[q].posts) \subseteq missed'
    BY <1>0, <1>2 DEF ListScored, TypeOK
  <2>2. ASSUME NEW e \in Posts, e \in Outdated', ~Active(e)
        PROVE  e \in missed' \/ e \in request'[q].posts
    <3>1. e \in ScoredPostRows
      BY <2>1, <2>2 DEF Outdated, ScoredPostRows
    <3> QED
      BY <2>1, <3>1
  <2>3. \A e : Active(e) => Active(e)'
    BY <2>1 DEF Active
  <2> QED
    BY <2>1, <2>2, <2>3
<1>3. CASE CommitRescore(q)
  <2>0. /\ written' = written /\ score' = score
        /\ request[q].pc = "listed" /\ request'[q].pc = "done"
        /\ request[q].written = written /\ missed \subseteq missed'
    BY <1>0, <1>3 DEF CommitRescore, TypeOK
  <2>1. PICK digests \in Batches(ScoredDigestRows) :
          /\ event' = Enqueue(request[q].posts \cup digests)
          /\ missed' = missed \cup (ScoredDigestRows \ digests)
    BY <1>3 DEF CommitRescore
  <2>2. \A e \in Entities : Active(e) \/ e \in request[q].posts \cup digests => Active(e)'
    BY <2>1 DEF Enqueue, Active, NewEvent
  <2>3. ASSUME NEW e \in Outdated' PROVE e \in missed' \/ Active(e)'
    <3>1. e \in Outdated /\ e \in Entities
      BY <2>0, <2>3 DEF Outdated
    <3>2. CASE e \in Posts
      BY <1>0, <2>0, <2>2, <3>1, <3>2 DEF LastWriteReaches
    <3>3. CASE e \in Digests /\ ~Active(e)
      <4>1. e \in ScoredDigestRows
        BY <3>1, <3>3 DEF Outdated, ScoredDigestRows
      <4> QED
        BY <2>1, <2>2, <3>1, <4>1
    <3> QED
      BY <2>2, <3>1, <3>2, <3>3 DEF Entities
  <2> QED
    BY <2>0, <2>3
<1>4. CASE RescoreRejected(q) \/ RescoreFails(q)
  <2>1. /\ written' = written /\ score' = score /\ Outdated \subseteq missed'
        /\ request'[q].pc = "failed"
    BY <1>0, <1>4 DEF RescoreRejected, RescoreFails, Rollback, TypeOK
  <2> QED
    BY <2>1 DEF Outdated
<1>5. CASE request'[q] = request[q] /\ written' = written
  <2>1. ASSUME NEW e \in Entities, e \in Outdated'
        PROVE  \/ e \in missed'
               \/ /\ e \in Outdated
                  /\ e \in missed \/ Active(e) => e \in missed' \/ Active(e)'
    BY <1>5, <2>1, OutdatedStep, ActiveStep
  <2>2. Outdated' \subseteq Entities
    BY DEF Outdated
  <2> QED
    BY <1>0, <1>5, <2>1, <2>2 DEF LastWriteReaches
<1>6. ASSUME NEW r \in Requests, r # q,
             ListScored(r) \/ CommitRescore(r) \/ RescoreRejected(r) \/ RescoreFails(r)
      PROVE  request'[q] = request[q]
  BY <1>0, <1>6 DEF ListScored, CommitRescore, RescoreRejected, RescoreFails,
     Rollback, TypeOK
<1> QED
  BY <1>1, <1>2, <1>3, <1>4, <1>5, <1>6, RequestFrame, InterestFrame

------------------------------------------------------------------------------
(* Theorems.                                                               *)

LEMMA Invariance == Spec => []IInv
<1>1. IInv /\ [Next]_vars => IInv'
  <2> SUFFICES ASSUME IInv, [Next]_vars PROVE IInv'
    OBVIOUS
  <2> QED
    BY TypeStep, OnlySummarizedStep, RunIsCoherentStep, ScoreIsCoherentStep,
       WritesAreCountedStep, WritesAreRequestedStep, FreshRunsScoreStep,
       LastWriteReachesStep DEF IInv
<1> QED
  BY InitInvariant, <1>1, PTL DEF Spec

(* The scoring pipeline keeps its shape.                                   *)
THEOREM TypeCorrect == Spec => []TypeOK
<1>1. IInv => TypeOK
  BY DEF IInv
<1> QED
  BY Invariance, <1>1, PTL

(* Scores compare vectors of one model, that of the text they were         *)
(* computed from (ScorePost and resolveVector, INV-01 and INV-02).         *)
THEOREM ScoresAreCoherent == Spec => []ScoreIsCoherent
<1>1. IInv => ScoreIsCoherent
  BY DEF IInv
<1> QED
  BY Invariance, <1>1, PTL

(* A score misses the interests in force only for one of the reasons the   *)
(* re-scoring of InterestUsecase leaves open.                              *)
THEOREM StaleScoresExplained == Spec => []StaleScoreExplained
<1>1. IInv => StaleScoreExplained
  <2> SUFFICES ASSUME IInv, NEW e \in Entities, NEW s \in score[e],
                      s.interests # interests
      PROVE  e \in missed \/ Active(e) \/ InFlight
    BY DEF StaleScoreExplained
  <2>1. TypeOK /\ WritesAreCounted /\ WritesAreRequested /\ LastWriteReaches
    BY DEF IInv
  <2>2. s.written # written /\ s.written <= written
    BY <2>1 DEF WritesAreCounted
  <2>3. e \in Outdated
    BY <2>2 DEF Outdated
  <2>4. written > 0
    BY <2>1, <2>2 DEF TypeOK, ScoreRows
  <2>5. PICK q \in Requests : request[q].written = written
    BY <2>1, <2>4 DEF WritesAreRequested
  <2>6. request[q].pc \in {"written", "listed", "done", "failed"}
    BY <2>1, <2>4, <2>5 DEF WritesAreRequested, TypeOK, RequestStates
  <2> QED
    BY <2>1, <2>3, <2>5, <2>6 DEF LastWriteReaches, InFlight
<1> QED
  BY Invariance, <1>1, PTL

------------------------------------------------------------------------------
(* Refinement: scoring implements ScoreLifecycle.                          *)

(* A run is of an event there is and of a summary there is, and leaves a   *)
(* score.                                                                  *)
RunsAreKnown ==
    \A w \in Workers :
        /\ Busy(w) => event[run[w].entity].status # "absent"
        /\ run[w].pc \in {"interests", "vector", "embed", "score"} =>
             run[w].text <= text[run[w].entity]
        /\ run[w].pc = "ok" => score[run[w].entity] # {}

LEMMA EventStays ==
    ASSUME TypeOK, [Next]_vars, NEW e \in Entities, event[e].status # "absent"
    PROVE  event'[e].status # "absent"
<1>1. ASSUME NEW f \in Entities, InsertDue(f) PROVE event'[e].status # "absent"
  BY <1>1 DEF InsertDue, Enqueue, NewEvent
<1>2. ASSUME NEW f \in Entities, Unlease(f) \/ Reap(f) PROVE event'[e].status # "absent"
  BY <1>2 DEF Unlease, Reap, SetEvent, TypeOK
<1>3. ASSUME NEW f \in Entities, NEW w \in Workers, Claim(w, f)
      PROVE  event'[e].status # "absent"
  BY <1>3 DEF Claim, TypeOK
<1>4. ASSUME NEW q \in Requests, CommitRescore(q) PROVE event'[e].status # "absent"
  BY <1>4 DEF CommitRescore, Enqueue, NewEvent
<1>5. ASSUME NEW w \in Workers, Complete(w) \/ Retry(w) \/ Fail(w)
      PROVE  event'[e].status # "absent"
  BY <1>5 DEF Complete, Retry, Fail, SetEvent, TypeOK
<1> QED
  BY <1>1, <1>2, <1>3, <1>4, <1>5, EventFrame

LEMMA TextNotLess ==
    ASSUME TypeOK, [Next]_vars, NEW e \in Entities
    PROVE  text[e] \in Nat /\ text'[e] \in Nat /\ text[e] <= text'[e]
<1>1. text[e] \in Nat
  BY ScoreAssumption DEF TypeOK
<1>2. ASSUME NEW f \in Entities, Summarize(f) PROVE text'[e] \in {text[e], text[e] + 1}
  BY <1>2 DEF Summarize, TypeOK
<1>3. text'[e] \in {text[e], text[e] + 1}
  BY <1>2, TextFrame
<1> QED
  BY <1>1, <1>3

LEMMA RunsAreKnownStep == ASSUME IInv, RunsAreKnown, [Next]_vars PROVE RunsAreKnown'
<1>0. TypeOK /\ OnlySummarized
  BY DEF IInv
<1> SUFFICES ASSUME NEW w \in Workers
             PROVE  /\ Busy(w)' => event'[run'[w].entity].status # "absent"
                    /\ run'[w].pc \in {"interests", "vector", "embed", "score"} =>
                         run'[w].text <= text'[run'[w].entity]
                    /\ run'[w].pc = "ok" => score'[run'[w].entity] # {}
  BY DEF RunsAreKnown
<1>t. run[w].text \in Nat
  BY <1>0, ScoreAssumption DEF TypeOK, RunStates
<1>k. Busy(w) => run[w].entity \in Entities
  BY <1>0 DEF OnlySummarized
<1>1. CASE run'[w] = run[w]
  <2>1. CASE ~Busy(w)
    BY <1>1, <2>1 DEF Busy, Handling, Returned
  <2>2. CASE Busy(w)
    <3> DEFINE e == run[w].entity
    <3>1. e \in Entities
      BY <1>k, <2>2
    <3>2. event'[e].status # "absent"
      BY <1>0, <2>2, <3>1, EventStays DEF RunsAreKnown
    <3>3. text[e] \in Nat /\ text'[e] \in Nat /\ text[e] <= text'[e]
      BY <1>0, <3>1, TextNotLess
    <3>4. run[w].pc = "ok" => score'[e] # {}
      BY <1>0, <3>1, ScoreStays DEF RunsAreKnown
    <3>5. run[w].pc \in {"interests", "vector", "embed", "score"} => run[w].text <= text[e]
      BY DEF RunsAreKnown
    <3> HIDE DEF e
    <3>6. run[w].pc \in {"interests", "vector", "embed", "score"} => run[w].text <= text'[e]
      BY <1>t, <3>3, <3>5
    <3> QED
      BY <1>1, <3>2, <3>4, <3>6 DEF e
  <2> QED
    BY <2>1, <2>2
<1>2. CASE run'[w] = Rest("idle") \/ run'[w] = Rest("stopped")
  BY <1>2 DEF Rest, Busy, Handling, Returned
<1>3. ASSUME NEW e \in Entities, Claim(w, e), run'[w].pc = "input" /\ run'[w].entity = e
      PROVE  event'[run'[w].entity].status # "absent"
  BY <1>0, <1>3 DEF Claim, TypeOK
<1>4. CASE \/ ReadInput(w) \/ ReadInterests(w) \/ GetVector(w) \/ StoreVector(w)
           \/ StoreScore(w) \/ HandlerError(w)
  <2> DEFINE e == run[w].entity
  <2>1. Busy(w) /\ e \in Entities /\ UNCHANGED <<text, event>>
    BY <1>k, <1>4 DEF Busy, Handling, ReadInput, ReadInterests, GetVector, StoreVector,
       StoreScore, HandlerError
  <2>2. run'[w].entity = e
    BY <1>0, <1>4 DEF ReadInput, ReadInterests, GetVector, StoreVector, StoreScore,
       HandlerError, TypeOK
  <2>3. event'[e].status # "absent"
    BY <2>1 DEF RunsAreKnown
  <2>4. run'[w].pc \in {"interests", "vector", "embed", "score"} => run'[w].text <= text[e]
    <3>1. CASE ReadInput(w)
      <4>1. run'[w].text = text[e]
        BY <1>0, <3>1 DEF ReadInput, TypeOK
      <4>2. text[e] \in Nat
        BY <1>0, <2>1, ScoreAssumption DEF TypeOK
      <4> QED
        BY <4>1, <4>2
    <3>2. CASE ReadInterests(w) \/ GetVector(w) \/ StoreVector(w)
      <4>1. run'[w].text = run[w].text /\ run[w].pc \in {"interests", "vector", "embed"}
        BY <1>0, <3>2 DEF ReadInterests, GetVector, StoreVector, TypeOK
      <4> QED
        BY <4>1 DEF RunsAreKnown
    <3>3. CASE StoreScore(w) \/ HandlerError(w)
      BY <1>0, <3>3 DEF StoreScore, HandlerError, TypeOK
    <3> QED
      BY <1>4, <3>1, <3>2, <3>3
  <2>5. run'[w].pc = "ok" => score'[e] # {}
    <3>1. CASE StoreScore(w)
      BY <1>0, <2>1, <3>1 DEF StoreScore, TypeOK
    <3>2. CASE ~StoreScore(w)
      <4>1. run'[w].pc # "ok"
        BY <1>0, <1>4, <3>2 DEF ReadInput, ReadInterests, AfterInterests, GetVector,
           StoreVector, HandlerError, TypeOK
      <4> QED
        BY <4>1
    <3> QED
      BY <3>1, <3>2
  <2> HIDE DEF e
  <2> QED
    BY <2>1, <2>2, <2>3, <2>4, <2>5
<1> QED
  BY <1>0, <1>1, <1>2, <1>3, <1>4, RunStep

(* Whether a try has stored its score depends on who holds the event and   *)
(* on which runs are done with it.                                         *)
DoneWith(w, e) == run[w].entity = e /\ run[w].pc = "ok"

LEMMA StoredFrame ==
    ASSUME NEW e \in Entities,
           event'[e].status = event[e].status, event'[e].owner = event[e].owner,
           \A w \in Workers : DoneWith(w, e)' <=> DoneWith(w, e)
    PROVE  StoredAt(e)' <=> StoredAt(e)
BY DEF StoredAt, DoneWith

(* The end of a run is seen at its own entity only.                        *)
LEMMA RestFrame ==
    ASSUME TypeOK, NEW w \in Workers, NEW pc \in {"idle", "stopped"},
           run' = [run EXCEPT ![w] = Rest(pc)]
    PROVE  /\ \A e \in Entities, v \in Workers :
                 run[w].pc # "ok" \/ e # run[w].entity \/ v # w
                   => (DoneWith(v, e)' <=> DoneWith(v, e))
           /\ \A e \in Entities : ~ DoneWith(w, e)'
BY DEF DoneWith, Rest, TypeOK

(* Entities that get an event.                                             *)
LEMMA EnqueueSimulation ==
    ASSUME TypeOK, NEW es \in SUBSET Entities, \A e \in es : text[e] > 0,
           event' = Enqueue(es),
           UNCHANGED <<text, interests, written, score, run>>
    PROVE  \E fs \in SUBSET Entities : Lifecycle!Enqueue(fs)
<1> DEFINE fs == { e \in es : ~Active(e) }
<1>1. \A e \in Entities : event'[e] = IF e \in fs THEN NewEvent ELSE event[e]
  BY DEF Enqueue
<1>2. \A e \in fs : text[e] > 0 /\ event[e].status \notin {"pending", "processing"}
  BY DEF Active
<1>3. \A e \in Entities : StoredAt(e)' <=> StoredAt(e)
  <2> SUFFICES ASSUME NEW e \in Entities PROVE StoredAt(e)' <=> StoredAt(e)
    OBVIOUS
  <2>1. CASE e \in fs
    BY <1>1, <1>2, <2>1 DEF StoredAt, NewEvent
  <2>2. CASE e \notin fs
    BY <1>1, <2>2, StoredFrame DEF DoneWith
  <2> QED
    BY <2>1, <2>2
<1>4. fs \in SUBSET Entities
  OBVIOUS
<1> HIDE DEF fs
<1>5. { e \in Entities : StoredAt(e)' } = { e \in Entities : StoredAt(e) }
  BY <1>3
<1>6. /\ [e \in Entities |-> event'[e].status] =
           [e \in Entities |-> IF e \in fs THEN "pending"
                               ELSE [x \in Entities |-> event[x].status][e]]
      /\ [e \in Entities |-> event'[e].attempts] =
           [e \in Entities |-> IF e \in fs THEN 0
                               ELSE [x \in Entities |-> event[x].attempts][e]]
  BY <1>1 DEF NewEvent
<1>7. \A e \in fs : /\ text[e] > 0
                    /\ [x \in Entities |-> event[x].status][e] \notin {"pending", "processing"}
  BY <1>2, <1>4
<1>8. Lifecycle!Enqueue(fs)
  BY <1>5, <1>6, <1>7 DEF Lifecycle!Enqueue
<1> QED
  BY <1>4, <1>8 DEF Lifecycle!Enqueue

(* A worker claims an event: its run is new, and no other run is done with *)
(* the event under its lease.                                              *)
LEMMA ClaimSimulation ==
    ASSUME TypeOK, NEW w \in Workers, NEW e \in Entities, Claim(w, e)
    PROVE  Lifecycle!Try(e)
<1>1. /\ run[w].pc = "idle" /\ run'[w].pc = "input"
      /\ \A v \in Workers \ {w} : run'[v] = run[v]
      /\ \A f \in Entities \ {e} : event'[f] = event[f]
      /\ event'[e] = [status |-> "processing", attempts |-> event[e].attempts + 1,
                      owner |-> w, leased |-> TRUE]
      /\ event[e].status \in {"pending", "processing"}
  BY DEF Claim, Claimable, TypeOK
<1>2. \A f \in Entities, v \in Workers :
        /\ v # w => (DoneWith(v, f)' <=> DoneWith(v, f))
        /\ ~ DoneWith(w, f) /\ ~ DoneWith(w, f)'
  BY <1>1 DEF DoneWith
<1>3. ~ StoredAt(e)'
  BY <1>1, <1>2 DEF StoredAt, DoneWith
<1>4. \A f \in Entities \ {e} : StoredAt(f)' <=> StoredAt(f)
  BY <1>1, <1>2, StoredFrame
<1>5. { f \in Entities : StoredAt(f)' } = { f \in Entities : StoredAt(f) } \ {e}
  BY <1>3, <1>4
<1>6. /\ [f \in Entities |-> event'[f].status] =
           [[f \in Entities |-> event[f].status] EXCEPT ![e] = "processing"]
      /\ [f \in Entities |-> event'[f].attempts] =
           [[f \in Entities |-> event[f].attempts] EXCEPT ![e] = @ + 1]
  <2>1. /\ event'[e].status = "processing" /\ event[e].attempts \in Nat
        /\ event'[e].attempts = event[e].attempts + 1
    BY <1>1 DEF TypeOK, EventRows
  <2> QED
    BY <1>1, <2>1
<1>7. [f \in Entities |-> event[f].status][e] \in {"pending", "processing"}
  BY <1>1
<1> QED
  BY <1>5, <1>6, <1>7 DEF Lifecycle!Try, Claim

(* The UPDATE that ends a try, of a run that goes to rest with it or of a  *)
(* run that is no longer there.                                            *)
LEMMA EndSimulation ==
    ASSUME TypeOK, NEW e \in Entities,
           NEW verdict \in {"pending", "completed", "failed"},
           event[e].status = "processing", SetEvent(e, verdict),
           UNCHANGED <<text, interests, written, score>>,
           \A f \in Entities \ {e}, v \in Workers : DoneWith(v, f)' <=> DoneWith(v, f)
    PROVE  Lifecycle!End(e, verdict)
<1>1. /\ \A f \in Entities \ {e} : event'[f] = event[f]
      /\ event'[e].status = verdict /\ event'[e].attempts = event[e].attempts
  BY DEF SetEvent, TypeOK
<1>2. \A f \in Entities \ {e} : StoredAt(f)' <=> StoredAt(f)
  BY <1>1, StoredFrame
<1>3. ~ StoredAt(e)'
  BY <1>1 DEF StoredAt
<1>4. { f \in Entities : StoredAt(f)' } = { f \in Entities : StoredAt(f) } \ {e}
  BY <1>2, <1>3
<1>5. /\ [f \in Entities |-> event'[f].status] =
           [[f \in Entities |-> event[f].status] EXCEPT ![e] = verdict]
      /\ [f \in Entities |-> event'[f].attempts] = [f \in Entities |-> event[f].attempts]
  BY <1>1
<1>6. [f \in Entities |-> event[f].status][e] = "processing"
  OBVIOUS
<1> QED
  BY <1>4, <1>5, <1>6 DEF Lifecycle!End

(* A run goes to rest and leaves the event to whoever comes.               *)
LEMMA ForgetSimulation ==
    ASSUME TypeOK, OnlySummarized, NEW w \in Workers, NEW pc \in {"idle", "stopped"},
           run' = [run EXCEPT ![w] = Rest(pc)],
           UNCHANGED <<text, interests, written, event, score>>
    PROVE  Lifecycle!Next \/ UNCHANGED Lifecycle!lifecycleVars
<1>1. \A f \in Entities :
        run[w].pc # "ok" \/ f # run[w].entity
          => \A v \in Workers : DoneWith(v, f)' <=> DoneWith(v, f)
  BY RestFrame
<1>2. \A f \in Entities :
        run[w].pc # "ok" \/ f # run[w].entity => (StoredAt(f)' <=> StoredAt(f))
  BY <1>1, StoredFrame
<1>3. \A f \in Entities : StoredAt(f)' => StoredAt(f)
  <2>1. \A f \in Entities, v \in Workers : DoneWith(v, f)' => DoneWith(v, f)
    BY RestFrame
  <2> QED
    BY <2>1 DEF StoredAt, DoneWith
<1>4. CASE \A f \in Entities : StoredAt(f)' <=> StoredAt(f)
  <2>1. { f \in Entities : StoredAt(f)' } = { f \in Entities : StoredAt(f) }
    BY <1>4
  <2> QED
    BY <2>1 DEF Lifecycle!lifecycleVars
<1>5. ASSUME NEW e \in Entities, ~(StoredAt(e)' <=> StoredAt(e))
      PROVE  Lifecycle!Forget(e)
  <2>1. e = run[w].entity
    BY <1>2, <1>5
  <2>2. { f \in Entities : StoredAt(f)' } = { f \in Entities : StoredAt(f) } \ {e}
    BY <1>2, <1>3, <1>5, <2>1
  <2> QED
    BY <2>2 DEF Lifecycle!Forget
<1> QED
  BY <1>4, <1>5 DEF Lifecycle!Next

(* The upsert of a score: the summary and the interests were there, the    *)
(* interests are of the worker's model, and they are those in force if     *)
(* they are of the last write.                                             *)
LEMMA StoreSimulation ==
    ASSUME IInv, RunsAreKnown, NEW w \in Workers, StoreScore(w)
    PROVE  Lifecycle!Store(run[w].entity)
<1>0. TypeOK /\ OnlySummarized /\ RunIsCoherent /\ WritesAreCounted
  BY DEF IInv
<1>2. /\ run[w].pc = "score" /\ run[w].entity \in Entities
      /\ event[run[w].entity].status # "absent"
  BY <1>0 DEF StoreScore, OnlySummarized, RunsAreKnown, Busy, Handling
<1> PICK e \in Entities : e = run[w].entity
  BY <1>2
<1> DEFINE s == [text |-> run[w].text, model |-> ModelOf[w],
                 interests |-> run[w].interests, written |-> run[w].written,
                 vector |-> run[w].vector]
<1>1. /\ score' = [score EXCEPT ![e] = {s}]
      /\ UNCHANGED <<text, interests, written, event>>
      /\ \A v \in Workers \ {w} : run'[v] = run[v]
      /\ run'[w].pc = "ok" /\ run'[w].entity = e
  BY <1>0 DEF StoreScore, TypeOK
<1>3. s.text \in 1 .. text[e]
  <2>1. run[w].text > 0 /\ run[w].text <= text[e]
    BY <1>0, <1>2 DEF OnlySummarized, RunsAreKnown
  <2>2. run[w].text \in Int /\ text[e] \in Int
    BY <1>0, ScoreAssumption DEF TypeOK, RunStates
  <2> QED
    BY <2>1, <2>2
<1>4. /\ s.written <= written /\ (s.written = written => s.interests = interests)
      /\ \A i \in s.interests : ModelOf[i] = s.model
  BY <1>0, <1>2 DEF WritesAreCounted, RunIsCoherent
<1>5. score'[e] = {s}
  BY <1>0, <1>1 DEF TypeOK
<1>6. \A f \in Entities \ {e} : StoredAt(f)' <=> StoredAt(f)
  BY <1>1, <1>2, StoredFrame DEF DoneWith
<1>7. StoredAt(e) => StoredAt(e)'
  BY <1>1, <1>2 DEF StoredAt
<1>8. StoredAt(e)' => event[e].status = "processing"
  BY <1>1 DEF StoredAt
<1> HIDE DEF s
<1>9. \/ { f \in Entities : StoredAt(f)' } = { f \in Entities : StoredAt(f) }
      \/ /\ [f \in Entities |-> event[f].status][e] = "processing"
         /\ { f \in Entities : StoredAt(f)' } = { f \in Entities : StoredAt(f) } \cup {e}
  <2>1. CASE StoredAt(e)' <=> StoredAt(e)
    <3>1. \A f \in Entities : StoredAt(f)' <=> StoredAt(f)
      BY <1>6, <2>1
    <3> QED
      BY <3>1
  <2>2. CASE StoredAt(e)' /\ ~StoredAt(e)
    <3>1. [f \in Entities |-> event[f].status][e] = "processing"
      BY <1>2, <1>8, <2>2
    <3>2. { f \in Entities : StoredAt(f)' } = { f \in Entities : StoredAt(f) } \cup {e}
      BY <1>2, <1>6, <2>2
    <3> QED
      BY <3>1, <3>2
  <2> QED
    BY <1>7, <2>1, <2>2
<1>10. /\ [f \in Entities |-> event[f].status][e] # "absent"
       /\ Lifecycle!Sound(e, s) /\ s \in score'[e] /\ score' = [score EXCEPT ![e] = {s}]
  BY <1>1, <1>2, <1>3, <1>4, <1>5 DEF Lifecycle!Sound
<1>11. Lifecycle!Store(e)
  BY <1>1, <1>9, <1>10 DEF Lifecycle!Store
<1> QED
  BY <1>11

(* Every step of scoring is a step of the life cycle, or none.             *)
LEMMA StepSimulation ==
    IInv /\ RunsAreKnown /\ [Next]_vars
      => [Lifecycle!Next]_(Lifecycle!lifecycleVars)
<1> SUFFICES ASSUME IInv, RunsAreKnown, [Next]_vars
             PROVE  Lifecycle!Next \/ UNCHANGED Lifecycle!lifecycleVars
  OBVIOUS
<1> DEFINE Goal == Lifecycle!Next \/ UNCHANGED Lifecycle!lifecycleVars
<1>0. TypeOK /\ OnlySummarized
  BY DEF IInv
<1>1. ASSUME UNCHANGED <<text, interests, written, event, score, run>> PROVE Goal
  BY <1>1 DEF Lifecycle!lifecycleVars, StoredAt
<1>2. ASSUME NEW e \in Entities, Summarize(e) PROVE Goal
  <2>1. Lifecycle!Summarize(e)
    BY <1>2 DEF Summarize, Lifecycle!Summarize, StoredAt
  <2> QED
    BY <2>1 DEF Lifecycle!Next
<1>3. ASSUME NEW q \in Requests, WriteInterest(q) PROVE Goal
  <2>1. interests' \in SUBSET Requests
    BY TypeStep DEF TypeOK
  <2>2. Lifecycle!ChangeInterests
    BY <1>3, <2>1 DEF WriteInterest, Lifecycle!ChangeInterests, StoredAt
  <2> QED
    BY <2>2 DEF Lifecycle!Next
<1>4. ASSUME NEW es \in SUBSET Entities, \A e \in es : text[e] > 0,
             event' = Enqueue(es),
             UNCHANGED <<text, interests, written, score, run>>
      PROVE  Goal
  BY <1>0, <1>4, EnqueueSimulation DEF Lifecycle!Next
<1>5. ASSUME NEW e \in Entities, InsertDue(e) PROVE Goal
  <2>1. \A f \in {e} : text[f] > 0
    BY <1>0, <1>5 DEF InsertDue, OnlySummarized
  <2> QED
    BY <1>4, <1>5, <2>1 DEF InsertDue
<1>6. ASSUME NEW q \in Requests, CommitRescore(q) PROVE Goal
  <2>1. PICK digests \in Batches(ScoredDigestRows) :
          event' = Enqueue(request[q].posts \cup digests)
    BY <1>6 DEF CommitRescore
  <2>2. /\ request[q].posts \cup digests \in SUBSET Entities
        /\ \A e \in request[q].posts \cup digests : score[e] # {}
    BY <1>0, <1>6, <2>1 DEF CommitRescore, Batches, ScoredDigestRows, Entities,
       OnlySummarized
  <2>3. \A e \in request[q].posts \cup digests : text[e] > 0
    BY <1>0, <2>2 DEF OnlySummarized
  <2> QED
    BY <1>4, <1>6, <2>1, <2>2, <2>3 DEF CommitRescore
<1>7. ASSUME NEW e \in Entities, Unlease(e) PROVE Goal
  <2>1. \A f \in Entities : /\ event'[f].status = event[f].status
                            /\ event'[f].attempts = event[f].attempts
                            /\ event'[f].owner = event[f].owner
    BY <1>0, <1>7 DEF Unlease, TypeOK
  <2>2. \A f \in Entities : StoredAt(f)' <=> StoredAt(f)
    BY <1>7, <2>1, StoredFrame DEF Unlease, DoneWith
  <2>3. { f \in Entities : StoredAt(f)' } = { f \in Entities : StoredAt(f) }
    BY <2>2
  <2> QED
    BY <1>7, <2>1, <2>3 DEF Unlease, Lifecycle!lifecycleVars
<1>8. ASSUME NEW w \in Workers, NEW e \in Entities, Claim(w, e) PROVE Goal
  BY <1>0, <1>8, ClaimSimulation DEF Lifecycle!Next
<1>9. ASSUME NEW w \in Workers, StoreScore(w) PROVE Goal
  <2>1. run[w].entity \in Entities
    BY <1>0, <1>9 DEF StoreScore, OnlySummarized, Busy, Handling
  <2> QED
    BY <1>9, <2>1, StoreSimulation DEF Lifecycle!Next
<1>10. ASSUME NEW w \in Workers,
              \/ ReadInput(w) \/ ReadInterests(w) \/ GetVector(w)
              \/ StoreVector(w) \/ HandlerError(w)
       PROVE  Goal
  <2>1. /\ UNCHANGED <<text, interests, written, event, score>>
        /\ \A v \in Workers \ {w} : run'[v] = run[v]
        /\ run[w].pc # "ok" /\ run'[w].pc # "ok"
    BY <1>0, <1>10 DEF ReadInput, ReadInterests, AfterInterests, GetVector, StoreVector,
       HandlerError, Handling, TypeOK
  <2>2. \A f \in Entities, v \in Workers : DoneWith(v, f)' <=> DoneWith(v, f)
    BY <2>1 DEF DoneWith
  <2>3. \A f \in Entities : StoredAt(f)' <=> StoredAt(f)
    BY <2>1, <2>2, StoredFrame
  <2>4. { f \in Entities : StoredAt(f)' } = { f \in Entities : StoredAt(f) }
    BY <2>3
  <2> QED
    BY <2>1, <2>4 DEF Lifecycle!lifecycleVars
<1>11. ASSUME NEW w \in Workers,
              Abandon(w) \/ HandlerCancelled(w) \/ FinalizeFails(w) \/ Stop(w)
       PROVE  Goal
  <2>1. \E pc \in {"idle", "stopped"} : run' = [run EXCEPT ![w] = Rest(pc)]
    BY <1>11 DEF Abandon, HandlerCancelled, FinalizeFails, Stop
  <2>2. UNCHANGED <<text, interests, written, event, score>>
    BY <1>11 DEF Abandon, HandlerCancelled, FinalizeFails, Stop
  <2> QED
    BY <1>0, <2>1, <2>2, ForgetSimulation
<1>12. ASSUME NEW w \in Workers, Complete(w) \/ Retry(w) \/ Fail(w) PROVE Goal
  <2>0. run[w].entity \in Entities
    BY <1>0, <1>12 DEF Complete, Retry, Fail, OnlySummarized, Busy, Returned
  <2> PICK e \in Entities : e = run[w].entity
    BY <2>0
  <2>1. event[e].status = "processing" /\ event[e].owner = w
    BY <1>12 DEF Complete, Retry, Fail, Owns
  <2>2. /\ run' = [run EXCEPT ![w] = Rest("idle")]
        /\ UNCHANGED <<text, interests, written, score>>
    BY <1>12 DEF Complete, Retry, Fail
  <2>3. \A f \in Entities \ {e}, v \in Workers : DoneWith(v, f)' <=> DoneWith(v, f)
    BY <1>0, <2>2, RestFrame
  <2>4. ASSUME NEW verdict \in {"pending", "completed", "failed"}, SetEvent(e, verdict)
        PROVE  Lifecycle!End(e, verdict)
    BY <1>0, <2>1, <2>2, <2>3, <2>4, EndSimulation
  <2>5. CASE Complete(w)
    <3>1. Lifecycle!End(e, "completed")
      BY <2>4, <2>5 DEF Complete
    <3>2. e \in { f \in Entities : StoredAt(f) } /\ score[e] # {}
      BY <2>1, <2>5 DEF Complete, StoredAt, RunsAreKnown
    <3>3. Lifecycle!Complete(e)
      BY <3>1, <3>2 DEF Lifecycle!Complete
    <3> QED
      BY <2>1, <3>3 DEF Lifecycle!Next
  <2>6. CASE Retry(w)
    <3>1. Lifecycle!End(e, "pending")
      BY <2>4, <2>6 DEF Retry
    <3>2. [f \in Entities |-> event[f].attempts][e] < MaxAttempts
      BY <2>1, <2>6 DEF Retry
    <3>3. Lifecycle!Requeue(e)
      BY <3>1, <3>2 DEF Lifecycle!Requeue
    <3> QED
      BY <2>1, <3>3 DEF Lifecycle!Next
  <2>7. CASE Fail(w)
    <3>1. Lifecycle!End(e, "failed")
      BY <2>4, <2>7 DEF Fail
    <3>2. Lifecycle!GiveUp(e)
      BY <3>1 DEF Lifecycle!GiveUp
    <3> QED
      BY <2>1, <3>2 DEF Lifecycle!Next
  <2> QED
    BY <1>12, <2>5, <2>6, <2>7
<1>13. ASSUME NEW e \in Entities, Reap(e) PROVE Goal
  <2>1. \A f \in Entities \ {e}, v \in Workers : DoneWith(v, f)' <=> DoneWith(v, f)
    BY <1>13 DEF Reap, DoneWith
  <2>2. Lifecycle!End(e, "failed")
    BY <1>0, <1>13, <2>1, EndSimulation DEF Reap
  <2>3. Lifecycle!GiveUp(e)
    BY <2>2 DEF Lifecycle!GiveUp
  <2> QED
    BY <2>3 DEF Lifecycle!Next
<1>14. ASSUME \/ ListDue(Posts) \/ ListDue(Digests) \/ TickFails \/ UNCHANGED vars
              \/ \E q \in Requests : ListScored(q) \/ RescoreRejected(q) \/ RescoreFails(q)
       PROVE  Goal
  BY <1>1, <1>14 DEF ListDue, TickFails, vars, ListScored, RescoreRejected,
     RescoreFails, Rollback
<1> QED
  BY <1>2, <1>3, <1>5, <1>6, <1>7, <1>8, <1>9, <1>10, <1>11, <1>12, <1>13, <1>14
     DEF Next, Handle, Expire, LoseLease

(* Scoring implements the promise ScoreLifecycle states: initial states    *)
(* map to initial states, steps to steps.                                  *)
THEOREM Refinement == Spec => ImplementsScoring
<1>1. Init => Lifecycle!Init /\ RunsAreKnown
  BY DEF Init, NoEvent, Rest, Lifecycle!Init, StoredAt, RunsAreKnown, Busy, Handling,
     Returned
<1>2. Spec => []RunsAreKnown
  BY <1>1, Invariance, RunsAreKnownStep, PTL DEF Spec
<1> QED
  BY <1>1, <1>2, StepSimulation, Invariance, PTL
     DEF Spec, ImplementsScoring, Lifecycle!Spec

==============================================================================
