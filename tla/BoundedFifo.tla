---------------------------- MODULE BoundedFifo -----------------------------
(* What a queue of tasks promises: first in, first out, at most Capacity    *)
(* tasks, and each operation says whether it was done.                      *)
EXTENDS Integers, Sequences

CONSTANTS Tasks, Capacity

VARIABLES
    items,  \* the tasks that are in it
    done,   \* what the last operation returned
    taken   \* the task it took, in a sequence, or <<>>

Init == items = <<>> /\ done = TRUE /\ taken = <<>>

Put(e) == /\ Len(items) < Capacity
          /\ items' = Append(items, e) /\ done' = TRUE /\ taken' = <<>>
Take == /\ items # <<>>
        /\ items' = Tail(items) /\ done' = TRUE /\ taken' = <<Head(items)>>
RefusePut == Len(items) = Capacity /\ done' = FALSE /\ taken' = <<>> /\ UNCHANGED items
RefuseTake == items = <<>> /\ done' = FALSE /\ taken' = <<>> /\ UNCHANGED items

Next == (\E e \in Tasks : Put(e)) \/ Take \/ RefusePut \/ RefuseTake
Spec == Init /\ [][Next]_<<items, done, taken>>
=============================================================================
