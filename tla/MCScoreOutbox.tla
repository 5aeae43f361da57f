---------------------------- MODULE MCScoreOutbox ----------------------------
(* Instances of ScoreOutbox for TLC.                                       *)
EXTENDS ScoreOutbox

CONSTANTS p1, d1, w2, q2, m1, m2

(* Worker w2 belongs to a process that still has the former model.         *)
MCModelOf == [x \in Workers \cup Requests |-> IF x = w2 THEN m2 ELSE m1]

(* So does the client q2: interests of both models come into force.        *)
MCModelsOf == [x \in Workers \cup Requests |-> IF x \in {w2, q2} THEN m2 ELSE m1]

(* What happens around the scoring is bounded. Either a digest comes and   *)
(* w2 may stop, or the post is summarized again and q2 writes its interest *)
(* too, so that a stored vector may be that of another text or model.      *)
Surroundings ==
    \/ text[p1] <= 1 /\ request[q2].pc = "idle"
    \/ text[d1] = 0 /\ run[w2].pc # "stopped"

(* Next, with the actions that are bounded by it last. No fairness is      *)
(* assumed of these three.                                                 *)
MCNext ==
    \/ ListDue(Posts) \/ ListDue(Digests) \/ TickFails
    \/ \E e \in Entities : InsertDue(e) \/ Expire(e) \/ LoseLease(e) \/ Reap(e)
    \/ \E q \in Requests : ListScored(q) \/ CommitRescore(q)
                           \/ RescoreRejected(q) \/ RescoreFails(q)
    \/ \E w \in Workers : \/ Handle(w) \/ HandlerError(w) \/ HandlerCancelled(w)
                          \/ FinalizeFails(w)
                          \/ \E e \in Entities : Claim(w, e)
    \/ \E e \in Entities : Summarize(e) /\ Surroundings'
    \/ \E q \in Requests : WriteInterest(q) /\ Surroundings'
    \/ \E w \in Workers : Stop(w) /\ Surroundings'

MCSpec == Init /\ [][MCNext]_vars /\ Fairness
==============================================================================
