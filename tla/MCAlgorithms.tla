---------------------------- MODULE MCAlgorithms ----------------------------
(* Two algorithms for TLC, one per behaviour: CalculateBackoff over every  *)
(* base and cap of Width bits, attempt by attempt, against the closed form *)
(* its comment gives; and the window of a digest over small tables.        *)
EXTENDS RetryPolicy, CollectWindow

CONSTANTS
    AttemptBound  \* bound on the attempts that are tried

ASSUME AttemptAssumption == AttemptBound \in Nat \ {0}

VARIABLES base, max, attempt, delay

backoff == <<base, max, attempt, delay>>

Durations == 1 .. Pow2[Width - 1] - 1

MCTexts == {<<1>>, <<3>>, <<2, 1>>}

Init ==
    \/ /\ base \in Durations /\ max \in Durations
       /\ attempt = 1 /\ delay = CalculateBackoff(base, max, 1)
       /\ created = [p \in Posts |-> 0] /\ text = [p \in Posts |-> <<1>>]
       /\ rows = {} /\ limit = 0
       /\ cursor = 0 /\ parts = <<>> /\ reading = FALSE /\ stable = {} /\ edits = 0
    \/ /\ WInit
       /\ base = 1 /\ max = 1 /\ attempt = AttemptBound
       /\ delay = CalculateBackoff(1, 1, AttemptBound)

NextAttempt ==
    /\ attempt < AttemptBound
    /\ attempt' = attempt + 1
    /\ delay' = CalculateBackoff(base, max, attempt')
    /\ UNCHANGED <<base, max, wvars>>

Next == NextAttempt \/ (WNext /\ UNCHANGED backoff)

Spec == Init /\ [][Next]_<<wvars, backoff>>

(* The delay is base * 2^(attempt - 1) and never exceeds the maximum, also *)
(* where the doubling overflows the integer (CalculateBackoff's comment,   *)
(* "never exceeds BackoffMax").                                            *)
CappedExponential ==
    LET exact == base * Pow2[attempt - 1] IN
    delay = IF exact > max THEN max ELSE exact
=============================================================================
