-------------------------- MODULE ObservationHistory --------------------------
(***************************************************************************)
(* What an append-only Bronze table promises its readers: for every key,   *)
(* the set of values ever observed, which only grows, and the current one, *)
(* which is the value observed for the first time most recently.  Writers  *)
(* must take turns; once they have not, all that is left of the promise is *)
(* that the current value is one of those recorded.                        *)
(***************************************************************************)
CONSTANTS Keys, Values, NoValue

VARIABLES
    observed,   \* the values recorded for each key
    current,    \* the value a reader gets for each key
    inTurn      \* whether writers have taken turns so far

Consistent ==
    /\ observed \in [Keys -> SUBSET Values]
    /\ current \in [Keys -> Values \cup {NoValue}]
    /\ \A k \in Keys : IF observed[k] = {} THEN current[k] = NoValue
                                           ELSE current[k] \in observed[k]

Init == Consistent /\ inTurn = TRUE

(* A run records one value for each of some keys, all of them at once.     *)
Record(K, v) ==
    /\ observed' = [k \in Keys |->
                       observed[k] \cup (IF k \in K THEN {v[k]} ELSE {})]
    /\ current' = [k \in Keys |->
                      IF k \in K /\ v[k] \notin observed[k]
                      THEN v[k] ELSE current[k]]
    /\ UNCHANGED inTurn

(* A step that begins or follows an overlap of two writers. *)
OutOfTurn == ~ inTurn' /\ Consistent'

Next ==
    \/ \E K \in SUBSET Keys : \E v \in [K -> Values] : Record(K, v)
    \/ OutOfTurn

Spec == Init /\ [][Next]_<<observed, current, inTurn>>
==============================================================================
