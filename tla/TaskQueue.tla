----------------------------- MODULE TaskQueue ------------------------------
(***************************************************************************)
(* The ring buffer queue<T> of task_queue.h.  front is the slot of the     *)
(* first task and rear the slot after the last; one slot stays free, so    *)
(* that front = rear only when the queue is empty.  The class has no lock: *)
(* its operations run one at a time.                                       *)
(***************************************************************************)
EXTENDS Integers, Sequences

CONSTANTS
    Tasks,
    size,    \* slots; a queue of no slots would divide by zero
    Garbage  \* what a slot holds before it is written, or what is behind base

ASSUME QueueAssumption == size \in Nat \ {0} /\ Garbage \notin Tasks

VARIABLES
    base, front, rear,
    done,    \* what the last en_queue or de_queue returned
    taken,   \* the task that de_queue printed, in a sequence, or <<>>
    printed  \* what the last queue_trav printed

vars == <<base, front, rear, done, taken, printed>>

Init ==
    /\ base = [s \in 0..size - 1 |-> Garbage]
    /\ front = 0 /\ rear = 0
    /\ done = TRUE /\ taken = <<>> /\ printed = <<>>

is_empty == front = rear
get_queue_len == (rear - front + size) % size

\* Mutant: the queue is full when there is no slot left
FullAtRear == get_queue_len = size
Full == (rear + 1) % size = front

en_queue(e) ==
    /\ taken' = <<>>
    /\ IF Full THEN done' = FALSE /\ UNCHANGED <<base, rear>>
       ELSE /\ base' = [base EXCEPT ![rear] = e]
            /\ rear' = (rear + 1) % size
            /\ done' = TRUE
    /\ UNCHANGED <<front, printed>>

\* Mutant: front does not wrap
TakeNoWrap ==
    /\ IF is_empty THEN done' = FALSE /\ taken' = <<>> /\ UNCHANGED front
       ELSE /\ taken' = <<base[front]>>
            /\ front' = front + 1
            /\ done' = TRUE
    /\ UNCHANGED <<base, rear, printed>>
de_queue ==
    /\ IF is_empty THEN done' = FALSE /\ taken' = <<>> /\ UNCHANGED front
       ELSE /\ taken' = <<base[front]>>
            /\ front' = (front + 1) % size
            /\ done' = TRUE
    /\ UNCHANGED <<base, rear, printed>>

\* base[front + length], length going down to 0
At(s) == IF s < size THEN base[s] ELSE Garbage
queue_trav ==
    /\ printed' = [i \in 1..get_queue_len |-> At(front + get_queue_len - i)]
    /\ UNCHANGED <<base, front, rear, done, taken>>

Next == (\E e \in Tasks : en_queue(e)) \/ de_queue \/ queue_trav
Spec == Init /\ [][Next]_vars
-----------------------------------------------------------------------------
Values == Tasks \cup {Garbage}
TypeOK ==
    /\ base \in [0..size - 1 -> Values]
    /\ front \in 0..size - 1 /\ rear \in 0..size - 1
    /\ done \in BOOLEAN
    /\ taken \in {<<>>} \cup {<<e>> : e \in Tasks}
    /\ printed \in Seq(Values)

Contents == [i \in 1..get_queue_len |-> base[(front + i - 1) % size]]
Fifo == INSTANCE BoundedFifo WITH items <- Contents, Capacity <- size - 1

(* The ring buffer is a queue of size - 1 tasks: nothing is lost, doubled   *)
(* or handed out of turn when front and rear wrap, and full and empty are   *)
(* never taken for one another (en_queue, de_queue).                        *)
IsFifo == Fifo!Spec
=============================================================================
