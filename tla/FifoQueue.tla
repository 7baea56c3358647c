----------------------------- MODULE FifoQueue -----------------------------
(***************************************************************************)
(* What a queue shared by threads promises: every call takes effect at one *)
(* moment, and pop answers with the oldest value or says that there is     *)
(* none.                                                                   *)
(***************************************************************************)
EXTENDS Sequences

CONSTANTS Values, NoValue

VARIABLES
    queue,    \* the values, oldest first
    answers   \* what the pops answered, in their order

Init == queue = <<>> /\ answers = <<>>

Push(v) == queue' = Append(queue, v) /\ UNCHANGED answers

Pop ==
    \/ queue = <<>> /\ answers' = Append(answers, NoValue) /\ UNCHANGED queue
    \/ queue # <<>> /\ answers' = Append(answers, Head(queue)) /\ queue' = Tail(queue)

Clear == queue' = <<>> /\ UNCHANGED answers

Next == Pop \/ Clear \/ \E v \in Values : Push(v)

Spec == Init /\ [][Next]_<<queue, answers>>
=============================================================================
