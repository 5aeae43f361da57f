----------------------------- MODULE ScoreOutbox -----------------------------
(***************************************************************************)
(* Relevance scoring: the score_events table, the scheduler that enqueues  *)
(* what has a summary and no score, the pool of score workers, the cached  *)
(* embeddings, the reaper of stuck events, and the interest requests that  *)
(* change what scores mean and enqueue the scored entities again.          *)
(*                                                                         *)
(* An entity is a post or a digest. The partial unique indexes allow one   *)
(* active event of an entity; event[e] is the last event of entity e.      *)
(* Events are claimed under the lease protocol of SummaryOutbox. Here a    *)
(* lease is held or it is not: the heartbeat keeps it, a fault loses it,   *)
(* and it expires when its worker no longer runs the event.                *)
(*                                                                         *)
(* The value of a score is what it was computed from: the text of the      *)
(* summary, the interests, the model. An interest is named by the request  *)
(* that wrote it last.                                                     *)
(***************************************************************************)
EXTENDS Integers, FiniteSets

CONSTANTS
    Posts,        \* posts that may get summaries
    Digests,      \* digests of cumulative sources (summaries without a post)
    Workers,      \* score workers; an id is unique to one start of a process
    Mortal,       \* the workers whose process may stop or crash
    Requests,     \* interest requests
    ModelOf,      \* the embedding model of a worker, or of a request's interest
    MaxAttempts,  \* scoring.worker.max_attempts
    ScanLimit,    \* enqueueScanLimit
    None,         \* NULL
    MaxTexts,     \* bound of the model: summaries of a post
    MaxFaults     \* bound of the model: errors and lost leases

ASSUME ScoreAssumption ==
    /\ Posts \cap Digests = {}
    /\ IsFiniteSet(Posts) /\ IsFiniteSet(Digests)
    /\ Mortal \subseteq Workers
    /\ MaxAttempts \in Nat \ {0}
    /\ ScanLimit \in Nat \ {0}
    /\ MaxTexts \in Nat \ {0}
    /\ MaxFaults \in Nat
    /\ None \notin Workers \cup Posts \cup Digests

Entities == Posts \cup Digests

VARIABLES
    text,       \* text[e]: the latest summary of e, 0 when there is none
    interests,  \* the interests in force
    written,    \* history: how many times the interests were written
    event,      \* event[e]: the last row of score_events for e
    score,      \* score[e]: the row of scores for e, a set of at most one
    vector,     \* vector[e]: the row of post_embeddings for e, likewise
    due,        \* entities the due scheduler has listed and not yet enqueued
    request,    \* request[q]: how far interest request q is
    run,        \* run[w]: what worker w is doing
    missed,     \* history: scored entities the last writes did not reach
    faults      \* faults so far

vars == <<text, interests, written, event, score, vector, due, request, run,
          missed, faults>>

------------------------------------------------------------------------------
Active(e) == event[e].status \in {"pending", "processing"}
Scored    == { e \in Entities : score[e] # {} }
Owns(w)   == LET e == run[w].entity IN
             event[e].status = "processing" /\ event[e].owner = w /\ event[e].leased

NewEvent == [status |-> "pending", attempts |-> 0, owner |-> None, leased |-> FALSE]
NoEvent  == [status |-> "absent", attempts |-> 0, owner |-> None, leased |-> FALSE]
Rest(pc) == [pc |-> pc, entity |-> None, text |-> 0, interests |-> {},
             written |-> 0, vector |-> {}]
IdleReq  == [pc |-> "idle", written |-> 0, posts |-> {}]

(* What one LIMIT ScanLimit query without ORDER BY may return of rows.     *)
Batches(rows) ==
    { b \in SUBSET rows : IF Cardinality(rows) <= ScanLimit
                          THEN b = rows ELSE Cardinality(b) = ScanLimit }

(* Mutant: entities without a summary are not left out.                    *)
DueUnsummarized(kind) == { e \in kind : score[e] = {} /\ ~Active(e) }

(* Mutant: a failed event is final for its entity.                         *)
DueOnce(kind) ==
    { e \in kind : text[e] > 0 /\ score[e] = {} /\ event[e].status = "absent" }

(* dueCandidatePostIDs and dueCandidateSummaryIDs.                         *)
Due(kind) == { e \in kind : text[e] > 0 /\ score[e] = {} /\ ~Active(e) }

(* Mutant: entities that have any event are passed over.                   *)
NeverEnqueuedRows ==
    { p \in Posts : score[p] # {} /\ event[p].status = "absent" }
      \cup { d \in Digests : score[d] # {} }

(* The rows scoredCandidatePostIDs reads. Nothing excludes the scores of   *)
(* digests, whose post_id is NULL and equal to that of no event.           *)
ScoredPostRows ==
    { p \in Posts : score[p] # {} /\ ~Active(p) }
      \cup { d \in Digests : score[d] # {} }

(* scoredCandidateSummaryIDs.                                              *)
ScoredDigestRows == { d \in Digests : score[d] # {} /\ ~Active(d) }

Enqueue(es) == [e \in Entities |-> IF e \in es /\ ~Active(e) THEN NewEvent ELSE event[e]]

(* Entities whose score was computed before the last write of interests.   *)
Outdated == { e \in Entities : \E s \in score[e] : s.written # written }

Init ==
    /\ text = [e \in Entities |-> 0]
    /\ interests = {}
    /\ written = 0
    /\ event = [e \in Entities |-> NoEvent]
    /\ score = [e \in Entities |-> {}]
    /\ vector = [e \in Entities |-> {}]
    /\ due = {}
    /\ request = [q \in Requests |-> IdleReq]
    /\ run = [w \in Workers |-> Rest("idle")]
    /\ missed = {}
    /\ faults = 0

------------------------------------------------------------------------------
(* The summaries, written by the summary outbox.                           *)
Summarize(e) ==
    /\ text[e] < IF e \in Posts THEN MaxTexts ELSE 1
    /\ text' = [text EXCEPT ![e] = @ + 1]
    /\ UNCHANGED <<interests, written, event, score, vector, due, request, run,
                   missed, faults>>

------------------------------------------------------------------------------
(* ScoreDueScheduler: each tick enqueues posts, then digests. The model    *)
(* lets the two halves come in any order, as they do when ticks fail.      *)

(* The candidates of one of the two queries.                               *)
ListDue(kind) ==
    /\ due = {}
    /\ Due(kind) # {}
    /\ due' \in Batches(Due(kind))
    /\ UNCHANGED <<text, interests, written, event, score, vector, request, run,
                   missed, faults>>

(* One INSERT ... ON CONFLICT DO NOTHING; there is no transaction.         *)
InsertDue(e) ==
    /\ e \in due
    /\ due' = due \ {e}
    /\ event' = Enqueue({e})
    /\ UNCHANGED <<text, interests, written, score, vector, request, run,
                   missed, faults>>

(* An error or a crash ends the tick.                                       *)
TickFails ==
    /\ due # {}
    /\ faults < MaxFaults
    /\ faults' = faults + 1
    /\ due' = {}
    /\ UNCHANGED <<text, interests, written, event, score, vector, request, run,
                   missed>>

------------------------------------------------------------------------------
(* InterestUsecase.Create, Update and Delete. The transaction they open    *)
(* does not include the write of the interest: the repository uses the     *)
(* shared client, which commits on its own.                                *)

(* A request creates an interest, updates one or deletes one.              *)
Written(q) ==
    { interests \cup {q} }
      \cup { (interests \ {i}) \cup {q} : i \in interests }
      \cup { interests \ {i} : i \in interests }

WriteInterest(q) ==
    /\ request[q].pc = "idle"
    /\ interests' \in Written(q)
    /\ written' = written + 1
    /\ request' = [request EXCEPT ![q] =
                     [pc |-> "written", written |-> written + 1, posts |-> {}]]
    /\ UNCHANGED <<text, event, score, vector, due, run, missed, faults>>

(* The SELECT of EnqueueScoredPosts. Rows beyond the limit are left out.   *)
ListScored(q) ==
    /\ request[q].pc = "written"
    /\ \E rows \in Batches(ScoredPostRows) :
         /\ request' = [request EXCEPT ![q] =
                          [pc |-> "listed", written |-> @.written, posts |-> rows]]
         /\ missed' = missed \cup (Posts \cap (ScoredPostRows \ rows))
    /\ UNCHANGED <<text, interests, written, event, score, vector, due, run, faults>>

(* The inserts of EnqueueScoredPosts, EnqueueScoredDigests and the commit. *)
(* One step: until the commit no other session sees an inserted event.     *)
CommitRescore(q) ==
    /\ request[q].pc = "listed"
    /\ request[q].posts \subseteq Posts
    /\ \E digests \in Batches(ScoredDigestRows) :
         /\ event' = Enqueue(request[q].posts \cup digests)
         /\ missed' = missed \cup (ScoredDigestRows \ digests)
    /\ request' = [request EXCEPT ![q] =
                     [pc |-> "done", written |-> @.written, posts |-> {}]]
    /\ UNCHANGED <<text, interests, written, score, vector, due, run, faults>>

(* The transaction is rolled back and the request returns an error.        *)
Rollback(q) ==
    /\ request' = [request EXCEPT ![q] =
                     [pc |-> "failed", written |-> @.written, posts |-> {}]]
    /\ missed' = missed \cup Outdated
    /\ UNCHANGED <<text, interests, written, event, score, vector, due, run>>

(* The NULL of a digest's row is scanned as the zero UUID, and inserting   *)
(* an event of that post violates the foreign key on posts.                *)
RescoreRejected(q) ==
    /\ request[q].pc = "listed"
    /\ ~ request[q].posts \subseteq Posts
    /\ Rollback(q)
    /\ UNCHANGED faults

RescoreFails(q) ==
    /\ request[q].pc \in {"written", "listed"}
    /\ faults < MaxFaults
    /\ faults' = faults + 1
    /\ Rollback(q)

------------------------------------------------------------------------------
(* A score worker: ClaimOne, ScorePost, finalize.                          *)

Handling == {"input", "interests", "vector", "embed", "score"}
Returned == {"ok", "transient", "rejected"}
Busy(w)  == run[w].pc \in Handling \cup Returned

(* The WHERE clause of ClaimOne.                                           *)
Claimable(e) == \/ event[e].status = "pending"
                \/ event[e].status = "processing" /\ ~event[e].leased

Claim(w, e) ==
    /\ run[w].pc = "idle"
    /\ Claimable(e)
    /\ event' = [event EXCEPT ![e] =
                   [status |-> "processing", attempts |-> @.attempts + 1,
                    owner |-> w, leased |-> TRUE]]
    /\ run' = [run EXCEPT ![w] = [pc |-> "input", entity |-> e, text |-> 0,
                 interests |-> {}, written |-> 0, vector |-> {}]]
    /\ UNCHANGED <<text, interests, written, score, vector, due, request,
                   missed, faults>>

(* resolveScoreInput: the latest summary of the post, or the digest.       *)
ReadInput(w) ==
    /\ run[w].pc = "input"
    /\ run' = [run EXCEPT ![w] = [pc |-> "interests", entity |-> @.entity,
                 text |-> text[@.entity], interests |-> {}, written |-> 0,
                 vector |-> {}]]
    /\ UNCHANGED <<text, interests, written, event, score, vector, due, request,
                   missed, faults>>

(* Mutant: interests of other models are scored against.                   *)
AfterInterestsAnyModel(w) == IF interests = {} THEN "score" ELSE "vector"

(* ScorePost after ListInterestVectors: an interest of another model is a  *)
(* permanent error, and without interests no vector is needed.             *)
AfterInterests(w) ==
    CASE \E i \in interests : ModelOf[i] # ModelOf[w] -> "rejected"
      [] interests = {} -> "score"
      [] OTHER -> "vector"

ReadInterests(w) ==
    /\ run[w].pc = "interests"
    /\ run' = [run EXCEPT ![w] = [pc |-> AfterInterests(w), entity |-> @.entity,
                 text |-> @.text, interests |-> interests, written |-> written,
                 vector |-> {}]]
    /\ UNCHANGED <<text, interests, written, event, score, vector, due, request,
                   missed, faults>>

(* Mutant: the hash of the text is not compared.                           *)
HitAnyText(w, e) == \E v \in vector[e] : v.model = ModelOf[w]

(* Mutant: the model is not compared.                                      *)
HitAnyModel(w, e) == \E v \in vector[e] : v.text = run[w].text

(* The stored vector is that of the input.                                 *)
Hit(w, e) == vector[e] = {[text |-> run[w].text, model |-> ModelOf[w]]}

(* resolveVector: the stored vector, when hash and model still match.      *)
GetVector(w) ==
    /\ run[w].pc = "vector"
    /\ LET e == run[w].entity IN
         run' = [run EXCEPT ![w] =
                   [pc |-> IF Hit(w, e) THEN "score" ELSE "embed",
                    entity |-> e, text |-> @.text, interests |-> @.interests,
                    written |-> @.written,
                    vector |-> IF Hit(w, e) THEN vector[e] ELSE {}]]
    /\ UNCHANGED <<text, interests, written, event, score, vector, due, request,
                   missed, faults>>

(* resolveVector: the paid Embed call and the upsert of what it returned.  *)
StoreVector(w) ==
    /\ run[w].pc = "embed"
    /\ LET v == {[text |-> run[w].text, model |-> ModelOf[w]]} IN
         /\ vector' = [vector EXCEPT ![run[w].entity] = v]
         /\ run' = [run EXCEPT ![w] = [pc |-> "score", entity |-> @.entity,
                      text |-> @.text, interests |-> @.interests,
                      written |-> @.written, vector |-> v]]
    /\ UNCHANGED <<text, interests, written, event, score, due, request,
                   missed, faults>>

(* The upsert of the score. It does not look at the lease: a worker that   *)
(* lost it may still overwrite a newer score.                              *)
StoreScore(w) ==
    /\ run[w].pc = "score"
    /\ LET e == run[w].entity IN
         /\ score' = [score EXCEPT ![e] =
                        {[text |-> run[w].text, model |-> ModelOf[w],
                          interests |-> run[w].interests, written |-> run[w].written,
                          vector |-> run[w].vector]}]
         /\ missed' = IF run[w].written = written THEN missed \ {e} ELSE missed \cup {e}
    /\ run' = [run EXCEPT ![w] = [pc |-> "ok", entity |-> @.entity,
                 text |-> @.text, interests |-> @.interests,
                 written |-> @.written, vector |-> @.vector]]
    /\ UNCHANGED <<text, interests, written, event, vector, due, request, faults>>

(* The embedder or the database fails: a transient error.                  *)
HandlerError(w) ==
    /\ run[w].pc \in Handling
    /\ faults < MaxFaults
    /\ faults' = faults + 1
    /\ run' = [run EXCEPT ![w] = [pc |-> "transient", entity |-> @.entity,
                 text |-> @.text, interests |-> @.interests,
                 written |-> @.written, vector |-> @.vector]]
    /\ UNCHANGED <<text, interests, written, event, score, vector, due, request,
                   missed>>

(* The handler ends with a deadline or cancellation error: finalize leaves *)
(* the event to the expiry of its lease.                                   *)
HandlerCancelled(w) ==
    /\ run[w].pc \in Handling
    /\ faults < MaxFaults
    /\ faults' = faults + 1
    /\ run' = [run EXCEPT ![w] = Rest("idle")]
    /\ UNCHANGED <<text, interests, written, event, score, vector, due, request,
                   missed>>

SetEvent(e, status) ==
    event' = [event EXCEPT ![e] = [status |-> status, attempts |-> @.attempts,
                                   owner |-> None, leased |-> FALSE]]

(* Mutant: the UPDATE does not ask who holds the lease.                    *)
CompleteUnleased(w) ==
    /\ run[w].pc = "ok"
    /\ SetEvent(run[w].entity, "completed")
    /\ missed' = missed \cup (IF run[w].written = written THEN {} ELSE {run[w].entity})
    /\ run' = [run EXCEPT ![w] = Rest("idle")]
    /\ UNCHANGED <<text, interests, written, score, vector, due, request, faults>>

(* FinalizeWithLease(completed). A run that read the interests before they *)
(* were last written ends the event all the same.                          *)
Complete(w) ==
    /\ run[w].pc = "ok" /\ Owns(w)
    /\ SetEvent(run[w].entity, "completed")
    /\ missed' = missed \cup (IF run[w].written = written THEN {} ELSE {run[w].entity})
    /\ run' = [run EXCEPT ![w] = Rest("idle")]
    /\ UNCHANGED <<text, interests, written, score, vector, due, request, faults>>

(* MarkForRetry.                                                           *)
Retry(w) ==
    /\ run[w].pc = "transient" /\ Owns(w)
    /\ event[run[w].entity].attempts < MaxAttempts
    /\ SetEvent(run[w].entity, "pending")
    /\ run' = [run EXCEPT ![w] = Rest("idle")]
    /\ UNCHANGED <<text, interests, written, score, vector, due, request,
                   missed, faults>>

(* FinalizeWithLease(failed): a permanent error or the last attempt.       *)
Fail(w) ==
    /\ \/ run[w].pc = "rejected"
       \/ run[w].pc = "transient" /\ event[run[w].entity].attempts >= MaxAttempts
    /\ Owns(w)
    /\ SetEvent(run[w].entity, "failed")
    /\ missed' = missed \cup ({run[w].entity} \cap Scored)
    /\ run' = [run EXCEPT ![w] = Rest("idle")]
    /\ UNCHANGED <<text, interests, written, score, vector, due, request, faults>>

(* The lease is lost: the heartbeat cancels the handler, or the guarded    *)
(* UPDATE of the finalization matches no row.                              *)
Abandon(w) ==
    /\ Busy(w) /\ ~Owns(w)
    /\ run' = [run EXCEPT ![w] = Rest("idle")]
    /\ UNCHANGED <<text, interests, written, event, score, vector, due, request,
                   missed, faults>>

(* The UPDATE of the finalization fails: it is logged, and the event stays *)
(* locked until the lease expires.                                         *)
FinalizeFails(w) ==
    /\ run[w].pc \in Returned
    /\ faults < MaxFaults
    /\ faults' = faults + 1
    /\ run' = [run EXCEPT ![w] = Rest("idle")]
    /\ UNCHANGED <<text, interests, written, event, score, vector, due, request,
                   missed>>

(* The process stops; what it was scoring is abandoned to lease expiry.    *)
Stop(w) ==
    /\ w \in Mortal
    /\ run[w].pc # "stopped"
    /\ run' = [run EXCEPT ![w] = Rest("stopped")]
    /\ UNCHANGED <<text, interests, written, event, score, vector, due, request,
                   missed, faults>>

------------------------------------------------------------------------------
(* Leases and the reaper.                                                  *)

RunsOwned(e) == \E w \in Workers : run[w].entity = e /\ event[e].owner = w

Unlease(e) ==
    /\ event[e].status = "processing" /\ event[e].leased
    /\ event' = [event EXCEPT ![e] = [status |-> "processing",
                   attempts |-> @.attempts, owner |-> @.owner, leased |-> FALSE]]
    /\ UNCHANGED <<text, interests, written, score, vector, due, request, run,
                   missed>>

(* Nobody extends the lease any more.                                      *)
Expire(e) == ~RunsOwned(e) /\ Unlease(e) /\ UNCHANGED faults

(* The heartbeat of a running worker is late by the whole lease.           *)
LoseLease(e) ==
    /\ RunsOwned(e)
    /\ faults < MaxFaults
    /\ faults' = faults + 1
    /\ Unlease(e)

(* ReapStuckScoreEvents and the guard of FailExpired.                      *)
Reap(e) ==
    /\ event[e].status = "processing" /\ ~event[e].leased
    /\ event[e].attempts >= MaxAttempts
    /\ SetEvent(e, "failed")
    /\ missed' = missed \cup ({e} \cap Scored)
    /\ UNCHANGED <<text, interests, written, score, vector, due, request, run, faults>>

------------------------------------------------------------------------------
Handle(w) == \/ ReadInput(w) \/ ReadInterests(w) \/ GetVector(w) \/ StoreVector(w)
             \/ StoreScore(w) \/ Complete(w) \/ Retry(w) \/ Fail(w) \/ Abandon(w)

Next ==
    \/ ListDue(Posts) \/ ListDue(Digests) \/ TickFails
    \/ \E e \in Entities : InsertDue(e) \/ Summarize(e) \/ Expire(e) \/ LoseLease(e) \/ Reap(e)
    \/ \E q \in Requests : \/ WriteInterest(q) \/ ListScored(q) \/ CommitRescore(q)
                           \/ RescoreRejected(q) \/ RescoreFails(q)
    \/ \E w \in Workers : \/ Handle(w) \/ HandlerError(w) \/ HandlerCancelled(w)
                          \/ FinalizeFails(w) \/ Stop(w)
                          \/ \E e \in Entities : Claim(w, e)

(* The scheduler ticks for ever and goes through what it listed, a worker  *)
(* goes on with what it claimed and claims while there is something, and a *)
(* lease nobody extends expires. Nothing is assumed of the order in which  *)
(* entities are listed or claimed, and nothing of the interest requests.   *)
Fairness ==
    /\ WF_vars(ListDue(Posts) \/ ListDue(Digests))
    /\ WF_vars(\E e \in Entities : InsertDue(e))
    /\ WF_vars(\E w \in Workers, e \in Entities : Claim(w, e))
    /\ WF_vars(\E e \in Entities : Expire(e))
    /\ \A w \in Workers : WF_vars(Handle(w))

Spec == Init /\ [][Next]_vars /\ Fairness

------------------------------------------------------------------------------
(* Properties.                                                             *)

Models == { ModelOf[x] : x \in Workers \cup Requests }
Vectors == [text : 1 .. MaxTexts, model : Models]
EventRows == [status : {"absent", "pending", "processing", "completed", "failed"},
              attempts : Nat, owner : Workers \cup {None}, leased : BOOLEAN]
ScoreRows == [text : 1 .. MaxTexts, model : Models, interests : SUBSET Requests,
              written : Nat, vector : SUBSET Vectors]
RequestStates == [pc : {"idle", "written", "listed", "done", "failed"},
                  written : Nat, posts : SUBSET Entities]
RunStates == [pc : {"idle", "stopped"} \cup Handling \cup Returned,
              entity : Entities \cup {None}, text : 0 .. MaxTexts,
              interests : SUBSET Requests, written : Nat, vector : SUBSET Vectors]

TypeOK ==
    /\ text \in [Entities -> 0 .. MaxTexts]
    /\ interests \subseteq Requests
    /\ written \in Nat
    /\ event \in [Entities -> EventRows]
    /\ score \in [Entities -> SUBSET ScoreRows]
    /\ vector \in [Entities -> SUBSET Vectors]
    /\ due \subseteq Entities
    /\ request \in [Requests -> RequestStates]
    /\ run \in [Workers -> RunStates]
    /\ missed \subseteq Entities
    /\ faults \in 0 .. MaxFaults

(* A score never compares vectors of different models, and the vector it   *)
(* was computed from is that of the summary it read (INV-01 and INV-02 of  *)
(* FT-013): the embedding cache is shared with workers that lost their     *)
(* lease and with earlier summaries.                                       *)
ScoreIsCoherent ==
    \A e \in Entities : \A s \in score[e] :
        /\ \A i \in s.interests : ModelOf[i] = s.model
        /\ s.vector = IF s.interests = {} THEN {} ELSE {[text |-> s.text, model |-> s.model]}

(* The last write of the interests is still on its way to the scores.      *)
InFlight == \E q \in Requests : /\ request[q].pc \in {"written", "listed"}
                                /\ request[q].written = written

(* A score that does not reflect the interests in force is about to be     *)
(* computed again, or the write failed, was cut off at the limit, was      *)
(* overtaken by a run that had read the interests before, or the event     *)
(* that was to compute it failed for good (InterestUsecase: an interest    *)
(* change triggers re-scoring of existing posts).                          *)
StaleScoreExplained ==
    \A e \in Entities : (\E s \in score[e] : s.interests # interests)
                           => e \in missed \/ Active(e) \/ InFlight

(* What has a summary is scored in the end, unless an interest of another  *)
(* model comes into force: neither a stopped worker nor an event that      *)
(* failed for good strands an entity, because EnqueueDue looks for scores  *)
(* and not for events. While such an interest is in force, every event     *)
(* fails; once it is gone the promise holds again.                         *)
Mixed == \E i \in interests, w \in Workers :
            run[w].pc # "stopped" /\ ModelOf[i] # ModelOf[w]
EverySummaryIsScored ==
    \A e \in Entities : text[e] > 0 /\ ~Mixed ~> score[e] # {} \/ Mixed

(* The worker an event is locked by has stored its score.                  *)
StoredAt(e) == /\ event[e].status = "processing"
               /\ \E w \in Workers : /\ event[e].owner = w
                                     /\ run[w].entity = e /\ run[w].pc = "ok"

(* Scoring keeps what ScoreLifecycle promises: an event is completed only  *)
(* by the try that holds it, after that try has stored a score (finalize,  *)
(* FinalizeWithLease); an active event is not disturbed by another INSERT; *)
(* a score is of a summary and of interests that were there, and those in  *)
(* force if it is of the last write.                                       *)
Lifecycle == INSTANCE ScoreLifecycle WITH
    status <- [e \in Entities |-> event[e].status],
    tries  <- [e \in Entities |-> event[e].attempts],
    scored <- { e \in Entities : StoredAt(e) }

ImplementsScoring == Lifecycle!Spec

(* What InterestUsecase.Create documents: the persist and the re-score     *)
(* enqueue commit atomically. A failed request wrote nothing.              *)
InterestChangeIsAtomic ==
    \A q \in Requests : request[q].pc = "failed" => request[q].written = 0

==============================================================================
