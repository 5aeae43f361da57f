---------------------------- MODULE MCSourceDigest ----------------------------
(* Instances of SourceDigest for TLC.                                      *)
EXTENDS SourceDigest, TLC

CONSTANT s1

(* Every post belongs to s1.                                               *)
MCSourceOf == [p \in Posts |-> s1]

(* Posts, workers and schedulers are interchangeable.                      *)
PostSymmetry == Permutations(Posts)
WorkerSymmetry == Permutations(Workers)
SchedulerSymmetry == Permutations(Schedulers)
Symmetric == PostSymmetry \cup WorkerSymmetry \cup SchedulerSymmetry

(* Two bounds. Without a request, one scheduler and the workers meet with  *)
(* all posts, and in the last instant only one of them is at work. Before  *)
(* that instant the schedulers and the requests meet each other, with one  *)
(* post and one worker.                                                    *)
AtWork(state, rest) == { x \in DOMAIN state : state[x].pc # rest.pc }
Calm ==
    /\ \A q \in Triggers : trig[q] = NoRequest
    /\ Cardinality(AtWork(sched, NoTx)) <= 1
    /\ now < MaxTime \/ Cardinality(AtWork(sched, NoTx))
                        + Cardinality(AtWork(run, NoRun)) <= 1
Small ==
    /\ now < MaxTime
    /\ Cardinality({ p \in Posts : post[p].state # "unborn" }) <= 1
    /\ Cardinality(AtWork(run, NoRun)) <= 1
Bound == (Calm \/ Small)'
===============================================================================
