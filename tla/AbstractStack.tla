--------------------------- MODULE AbstractStack ---------------------------
(* What prequel::stack promises: a last-in first-out sequence of values.   *)
EXTENDS Integers, Sequences

CONSTANT Values

VARIABLE stack

Init == stack = << >>

Push(v) == stack' = Append(stack, v)

Pop == stack # << >> /\ stack' = SubSeq(stack, 1, Len(stack) - 1)

Clear == stack' = << >>

Next == Pop \/ Clear \/ \E v \in Values : Push(v)

Spec == Init /\ [][Next]_stack
=============================================================================
