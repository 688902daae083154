--------------------------------- MODULE Loop ---------------------------------
(***************************************************************************)
(* A `for` loop over some of the numbers 1..N in ascending order, whose    *)
(* body has several outcomes: Step(x, ids, i) is the set of values that    *)
(* the round for i may turn x into, in a loop over `ids`.                  *)
(***************************************************************************)
EXTENDS Integers

CONSTANTS N, Step(_, _, _)

\* The values a loop over ids that starts with x may have after each number.
After(x, ids) ==
    LET after[i \in 0..N] ==
            IF i = 0 THEN {x}
            ELSE IF i \notin ids THEN after[i - 1]
            ELSE UNION {Step(y, ids, i) : y \in after[i - 1]}
    IN  after
===============================================================================
