---------------------------- MODULE BoundedQueue ----------------------------
(***************************************************************************)
(* What a FIFO of Capacity words promises to its two sides, with no        *)
(* pointers, flags or memory: a queue, and at its output the oldest word   *)
(* it holds (Zero when it holds none).  A step accepts a word, removes     *)
(* some, takes one and gives one, or empties the queue.  A word offered    *)
(* when the queue cannot take it is dropped: a stuttering step.            *)
(***************************************************************************)
EXTENDS Naturals, Sequences

CONSTANTS Word, Zero, Capacity

VARIABLES queue, front

qvars == <<queue, front>>

\* The word shown at the output for contents q.
Front(q) == IF q = <<>> THEN Zero ELSE Head(q)

Becomes(q) == queue' = q /\ front' = Front(q)

Init == queue = <<>> /\ front = Zero

Accept(w) == Len(queue) < Capacity /\ Becomes(Append(queue, w))

Remove(n) == n <= Len(queue) /\ Becomes(SubSeq(queue, n + 1, Len(queue)))

Exchange(w) == queue # <<>> /\ Becomes(Append(Tail(queue), w))

Flush == Becomes(<<>>)

Next == \/ \E w \in Word : Accept(w) \/ Exchange(w)
        \/ \E n \in 1..Capacity : Remove(n)
        \/ Flush

Spec == Init /\ [][Next]_qvars
=============================================================================
