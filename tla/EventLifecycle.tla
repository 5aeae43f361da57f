---------------------------- MODULE EventLifecycle ----------------------------
(***************************************************************************)
(* What the outbox promises of a summarize_post event to those who create  *)
(* posts and read summaries, without workers, leases and clocks: an event  *)
(* is tried some number of times, goes back to the queue only while its    *)
(* retry budget lasts, and ends once, either without a result or with a    *)
(* summary that exists and that nobody can take away again.                *)
(***************************************************************************)
EXTENDS Naturals

CONSTANTS
    Events,       \* summarize_post events (and their posts)
    MaxAttempts   \* summary.worker.max_attempts

VARIABLES
    status,    \* status[e]: summary_events.status
    tries,     \* tries[e]: summary_events.attempt_count
    result,    \* result[e]: summary_events.summary_id; 0 is NULL
    posts,     \* the posts that exist
    stored     \* stored[e]: the summaries of post e

lifecycleVars == <<status, tries, result, posts, stored>>

Init ==
    /\ status = [e \in Events |-> "absent"]
    /\ tries  = [e \in Events |-> 0]
    /\ result = [e \in Events |-> 0]
    /\ posts  = {}
    /\ stored = [e \in Events |-> {}]

(* The post and its event come into being together.                        *)
Enqueue(e) ==
    /\ status[e] = "absent"
    /\ status' = [status EXCEPT ![e] = "pending"]
    /\ posts' = posts \cup {e}
    /\ UNCHANGED <<tries, result, stored>>

(* A post can be deleted until a summary of it is a result.                *)
DeletePost(e) ==
    /\ e \in posts
    /\ result[e] = 0
    /\ posts' = posts \ {e}
    /\ stored' = [stored EXCEPT ![e] = {}]
    /\ UNCHANGED <<status, tries, result>>

Try(e) ==
    /\ status[e] \in {"pending", "processing"}
    /\ status' = [status EXCEPT ![e] = "processing"]
    /\ tries' = [tries EXCEPT ![e] = @ + 1]
    /\ UNCHANGED <<result, posts, stored>>

(* A try leaves a summary; it need not be the latest one.                  *)
Store(e, n) ==
    /\ e \in posts
    /\ n \in 1 .. tries[e]
    /\ stored' = [stored EXCEPT ![e] = @ \cup {n}]
    /\ UNCHANGED <<status, tries, result, posts>>

Requeue(e) ==
    /\ status[e] = "processing"
    /\ tries[e] < MaxAttempts
    /\ status' = [status EXCEPT ![e] = "pending"]
    /\ UNCHANGED <<tries, result, posts, stored>>

Complete(e, n) ==
    /\ status[e] = "processing"
    /\ e \in posts
    /\ status' = [status EXCEPT ![e] = "completed"]
    /\ result' = [result EXCEPT ![e] = n]
    /\ UNCHANGED <<tries, posts, stored>>

GiveUp(e, verdict) ==
    /\ status[e] = "processing"
    /\ status' = [status EXCEPT ![e] = verdict]
    /\ UNCHANGED <<tries, result, posts, stored>>

Next ==
    \E e \in Events :
        \/ Enqueue(e) \/ DeletePost(e) \/ Try(e) \/ Requeue(e)
        \/ \E n \in 1 .. tries[e] : Store(e, n)
        \/ \E n \in stored[e] : Complete(e, n)
        \/ \E verdict \in {"failed", "expired"} : GiveUp(e, verdict)

Spec == Init /\ [][Next]_lifecycleVars
===============================================================================
