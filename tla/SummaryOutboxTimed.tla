-------------------------- MODULE SummaryOutboxTimed --------------------------
(***************************************************************************)
(* SummaryOutbox under the timing its configuration counts on: database    *)
(* statements and the steps of a worker are short, the heartbeat interval  *)
(* is shorter than the lease, and only the LLM call takes long. Whatever   *)
(* breaks that (a pause that lets a live lease run out under a running     *)
(* worker, a lost answer, a failed statement, a crash, a shutdown) is a    *)
(* fault, and MaxFaults of them happen at most.                            *)
(***************************************************************************)
EXTENDS SummaryOutbox

CONSTANTS MaxFaults   \* bound of the model on the faults of a behavior

VARIABLES faults      \* faults so far

timedVars == <<row, posts, summaries, worker, reaping, overlapped, faults>>

(* A worker is between two database statements, or about to let a lease    *)
(* run out that its heartbeat should have extended.                        *)
Urgent(w) ==
    \/ worker[w].pc = "claiming" /\ Eligible # {}
    \/ worker[w].pc \in {"check", "save"} \cup Returned
    \/ /\ worker[w].pc = "generate"
       /\ \/ worker[w].cancelled
          \/ worker[w].stopping
          \/ row[worker[w].event].lockedFor <= 1

Ordinary ==
    \/ Tick /\ \A w \in Workers : ~Urgent(w)
    \/ \E e \in Events : CreatePost(e)
    \/ \E w \in Workers :
         \/ CheckRunning(w)
         \/ \E e \in Events : ClaimOne(w, e)
         \/ Eligible = {} /\ ClaimNothing(w)
         \/ Heartbeat(w)
         \/ CheckEvent(w) \/ Generate(w) \/ SaveSummary(w)
         \/ worker[w].cancelled /\ SaveSummaryFails(w)
         \/ worker[w].event \notin posts /\ SaveSummaryFails(w)
         \/ Finalize(w) \/ Retry(w) \/ Abandon(w)
         \/ GracefulTimeout(w)
    \/ ListLeaseExpired
    \/ \E e \in Events : FailExpired(e)

Fault ==
    \/ Tick /\ \E w \in Workers : Urgent(w)
    \/ \E e \in Events : DeletePost(e)
    \/ \E w \in Workers :
         \/ \E e \in Events : ClaimUnanswered(w, e)
         \/ Eligible # {} /\ ClaimNothing(w)
         \/ SaveSummaryFails(w) \/ ReadFails(w) \/ FinalizeFails(w)
         \/ Stop(w) \/ Crash(w)
    \/ ReaperGivesUp

TimedInit == Init /\ faults = 0

TimedNext ==
    \/ Ordinary /\ UNCHANGED faults
    \/ Fault /\ faults < MaxFaults /\ faults' = faults + 1

(* Time passes; the loop of every worker, its heartbeat, its handler and   *)
(* its finalization keep going, and the reaper's list is worked off.       *)
WorkerStep(w) ==
    /\ \/ CheckRunning(w)
       \/ \E e \in Events : ClaimOne(w, e)
       \/ Eligible = {} /\ ClaimNothing(w)
       \/ CheckEvent(w) \/ Generate(w) \/ SaveSummary(w)
       \/ (worker[w].cancelled \/ worker[w].event \notin posts)
          /\ SaveSummaryFails(w)
       \/ Finalize(w) \/ Retry(w) \/ Abandon(w)
    /\ UNCHANGED faults

Fairness ==
    /\ WF_timedVars(Tick /\ UNCHANGED faults /\ \A w \in Workers : ~Urgent(w))
    /\ \A w \in Workers : WF_timedVars(WorkerStep(w))
    /\ \A w \in Workers : WF_timedVars(Heartbeat(w) /\ UNCHANGED faults)
    /\ \A e \in Events : WF_timedVars(FailExpired(e) /\ UNCHANGED faults)

TimedSpec == TimedInit /\ [][TimedNext]_timedVars /\ Fairness

(* Every event gets a verdict: with one worker that stays up, no sequence  *)
(* of LLM errors, timeouts and finitely many faults leaves an event in the *)
(* queue or in 'processing' for ever (REQ-04, REQ-07).                     *)
EveryEventGetsVerdict ==
    \A e \in Events :
        row[e].status = "pending" ~> row[e].status \in Terminal

(* Without a fault the heartbeat keeps every lease: a run that is neither  *)
(* cancelled nor over still owns its event, and no summary is written      *)
(* twice.                                                                  *)
LeaseHeldWithoutFault ==
    faults = 0 =>
        /\ \A w \in Workers : worker[w].pc \in Busy =>
             OwnsLease(w, worker[w].event)
        /\ \A e \in Events : Cardinality(summaries[e]) <= 1
===============================================================================
