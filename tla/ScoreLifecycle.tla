---------------------------- MODULE ScoreLifecycle ----------------------------
(***************************************************************************)
(* What scoring promises to those who write summaries and interests and    *)
(* read scores, without workers, leases, the scheduler and the cache: what *)
(* has a summary is enqueued once at a time, is tried some number of       *)
(* times, and is done only when the try that is said to have done it has   *)
(* stored a score. A score is made of a summary there is and of interests  *)
(* of one model; it is replaced and never taken away.                      *)
(***************************************************************************)
EXTENDS Naturals

CONSTANTS
    Entities,     \* posts and digests
    Requests,     \* interests, named by the requests that write them
    ModelOf,      \* the embedding model of an interest
    MaxAttempts   \* scoring.worker.max_attempts

VARIABLES
    text,       \* text[e]: the latest summary of e, 0 when there is none
    interests,  \* the interests in force
    written,    \* how many times they were written
    status,     \* status[e]: the status of the last event of e
    tries,      \* tries[e]: its attempt_count
    scored,     \* entities whose try has stored a score and goes on
    score       \* score[e]: the score of e, a set of at most one

lifecycleVars == <<text, interests, written, status, tries, scored, score>>

Init ==
    /\ text = [e \in Entities |-> 0]
    /\ interests = {} /\ written = 0
    /\ status = [e \in Entities |-> "absent"]
    /\ tries = [e \in Entities |-> 0]
    /\ scored = {}
    /\ score = [e \in Entities |-> {}]

Summarize(e) ==
    /\ text' = [text EXCEPT ![e] = @ + 1]
    /\ UNCHANGED <<interests, written, status, tries, scored, score>>

ChangeInterests ==
    /\ interests' \in SUBSET Requests
    /\ written' = written + 1
    /\ UNCHANGED <<text, status, tries, scored, score>>

(* Some entities get an event: they have a summary and no active event.    *)
Enqueue(es) ==
    /\ \A e \in es : text[e] > 0 /\ status[e] \notin {"pending", "processing"}
    /\ status' = [e \in Entities |-> IF e \in es THEN "pending" ELSE status[e]]
    /\ tries' = [e \in Entities |-> IF e \in es THEN 0 ELSE tries[e]]
    /\ UNCHANGED <<text, interests, written, scored, score>>

Try(e) ==
    /\ status[e] \in {"pending", "processing"}
    /\ status' = [status EXCEPT ![e] = "processing"]
    /\ tries' = [tries EXCEPT ![e] = @ + 1]
    /\ scored' = scored \ {e}
    /\ UNCHANGED <<text, interests, written, score>>

(* A score of e that may be stored now.                                    *)
Sound(e, s) ==
    /\ s.text \in 1 .. text[e]
    /\ s.written <= written /\ (s.written = written => s.interests = interests)
    /\ \A i \in s.interests : ModelOf[i] = s.model

(* A try stores a score; it need not be the latest one.                    *)
Store(e) ==
    /\ status[e] # "absent"
    /\ \E s \in score'[e] : Sound(e, s) /\ score' = [score EXCEPT ![e] = {s}]
    /\ \/ UNCHANGED scored
       \/ status[e] = "processing" /\ scored' = scored \cup {e}
    /\ UNCHANGED <<text, interests, written, status, tries>>

(* The try ends before it could say so.                                    *)
Forget(e) ==
    /\ scored' = scored \ {e}
    /\ UNCHANGED <<text, interests, written, status, tries, score>>

(* The try of e ends with the verdict, or e goes back to the queue.        *)
End(e, verdict) ==
    /\ status[e] = "processing"
    /\ status' = [status EXCEPT ![e] = verdict]
    /\ scored' = scored \ {e}
    /\ UNCHANGED <<text, interests, written, tries, score>>

Complete(e) == e \in scored /\ score[e] # {} /\ End(e, "completed")
Requeue(e)  == tries[e] < MaxAttempts /\ End(e, "pending")
GiveUp(e)   == End(e, "failed")

Next ==
    \/ ChangeInterests
    \/ \E es \in SUBSET Entities : Enqueue(es)
    \/ \E e \in Entities : \/ Summarize(e) \/ Try(e) \/ Store(e) \/ Forget(e)
                           \/ Complete(e) \/ Requeue(e) \/ GiveUp(e)

Spec == Init /\ [][Next]_lifecycleVars
===============================================================================
