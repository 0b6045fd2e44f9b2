--------------------------------- MODULE Call ---------------------------------
(***************************************************************************)
(* What one request of a publisher promises, whatever carries it: the      *)
(* coordinator handles the request at most once and exactly as it was      *)
(* made, and what the publisher is told is what the coordinator answered.  *)
(* A publisher that is told nothing but that the call failed knows nothing *)
(* of what the coordinator did.                                            *)
(***************************************************************************)
CONSTANTS
    Nothing,        \* no message
    Failure         \* the result of a call that failed

VARIABLES
    made,           \* the request of the publisher
    handled,        \* the request the coordinator handled
    answer,         \* what the coordinator answered
    told            \* what the publisher was told

vars == <<made, handled, answer, told>>

Init == handled = Nothing /\ answer = Nothing /\ told = Nothing

Handle ==
    /\ handled = Nothing /\ answer = Nothing
    /\ handled' = made
    /\ UNCHANGED <<made, answer, told>>

\* An answer to the request, or a refusal of one that was never handled.
Answer ==
    /\ answer = Nothing /\ answer' # Nothing
    /\ UNCHANGED <<made, handled, told>>

Tell ==
    /\ answer # Nothing /\ told = Nothing
    /\ told' = answer
    /\ UNCHANGED <<made, handled, answer>>

Fail ==
    /\ told = Nothing
    /\ told' = Failure
    /\ UNCHANGED <<made, handled, answer>>

Next == Handle \/ Answer \/ Tell \/ Fail

Spec == Init /\ [][Next]_vars
===============================================================================
