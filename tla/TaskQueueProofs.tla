-------------------------- MODULE TaskQueueProofs ---------------------------
(* The ring buffer of task_queue.h is the bounded queue of BoundedFifo,     *)
(* whatever its size and its tasks.                                         *)
EXTENDS TaskQueue, SequenceTheorems, TLAPS

LEMMA Wraps ==
  ASSUME NEW n \in Nat \ {0}, NEW x \in 0..2 * n - 1
  PROVE  x % n = IF x < n THEN x ELSE x - n
  BY SMT

LEMMA InRange ==
  ASSUME NEW n \in Nat \ {0}, NEW x \in Int
  PROVE  x % n \in 0..n - 1
  BY SMT

(* Every slot from front to rear holds a task.                              *)
InUse == \A i \in 1..get_queue_len : base[(front + i - 1) % size] \in Tasks
QueueInv == TypeOK /\ InUse

LEMMA Slots ==
  ASSUME NEW n \in Nat \ {0}, NEW f \in 0..n - 1, NEW r \in 0..n - 1
  PROVE  /\ (r - f + n) % n = IF r < f THEN r - f + n ELSE r - f
         /\ (f + 1) % n = IF f + 1 = n THEN 0 ELSE f + 1
         /\ (r + 1) % n = IF r + 1 = n THEN 0 ELSE r + 1
         /\ \A k \in 0..n - 1 : (f + k) % n = IF f + k < n THEN f + k ELSE f + k - n
<1> DEFINE M(x) == x % n
<1>1. \A x \in 0..2 * n - 1 : M(x) = IF x < n THEN x ELSE x - n
  BY Wraps
<1> HIDE DEF M
<1>2. M(r - f + n) = IF r < f THEN r - f + n ELSE r - f
  <2>1. r - f + n \in 0..2 * n - 1
    OBVIOUS
  <2>2. M(r - f + n) = IF r - f + n < n THEN r - f + n ELSE r - f + n - n
    BY <1>1, <2>1
  <2> QED BY <2>2
<1>3. M(f + 1) = IF f + 1 = n THEN 0 ELSE f + 1
  BY <1>1
<1>4. M(r + 1) = IF r + 1 = n THEN 0 ELSE r + 1
  BY <1>1
<1>5. \A k \in 0..n - 1 : M(f + k) = IF f + k < n THEN f + k ELSE f + k - n
  BY <1>1
<1> QED BY <1>2, <1>3, <1>4, <1>5 DEF M

(* The same about the variables, and about what they are after a step.      *)
SlotFacts ==
    /\ front \in 0..size - 1 /\ rear \in 0..size - 1
    /\ get_queue_len = IF rear < front THEN rear - front + size ELSE rear - front
    /\ (front + 1) % size = IF front + 1 = size THEN 0 ELSE front + 1
    /\ (rear + 1) % size = IF rear + 1 = size THEN 0 ELSE rear + 1
    /\ \A k \in 0..size - 1 :
           (front + k) % size = IF front + k < size THEN front + k ELSE front + k - size

LEMMA SlotsNow == TypeOK => SlotFacts
<1> SUFFICES ASSUME TypeOK PROVE SlotFacts
  OBVIOUS
<1>1. size \in Nat \ {0} /\ front \in 0..size - 1 /\ rear \in 0..size - 1
  BY QueueAssumption DEF TypeOK
<1>2. /\ (rear - front + size) % size = IF rear < front THEN rear - front + size ELSE rear - front
      /\ (front + 1) % size = IF front + 1 = size THEN 0 ELSE front + 1
      /\ (rear + 1) % size = IF rear + 1 = size THEN 0 ELSE rear + 1
      /\ \A k \in 0..size - 1 :
             (front + k) % size = IF front + k < size THEN front + k ELSE front + k - size
  BY ONLY <1>1, Slots
<1> QED BY <1>1, <1>2 DEF SlotFacts, get_queue_len

LEMMA SlotsThen == TypeOK' => SlotFacts'
<1> SUFFICES ASSUME TypeOK' PROVE SlotFacts'
  OBVIOUS
<1>1. size \in Nat \ {0} /\ front' \in 0..size - 1 /\ rear' \in 0..size - 1
  BY QueueAssumption DEF TypeOK
<1>2. /\ (rear' - front' + size) % size = IF rear' < front' THEN rear' - front' + size ELSE rear' - front'
      /\ (front' + 1) % size = IF front' + 1 = size THEN 0 ELSE front' + 1
      /\ (rear' + 1) % size = IF rear' + 1 = size THEN 0 ELSE rear' + 1
      /\ \A k \in 0..size - 1 :
             (front' + k) % size = IF front' + k < size THEN front' + k ELSE front' + k - size
  BY ONLY <1>1, Slots
<1> QED BY <1>1, <1>2 DEF SlotFacts, get_queue_len

LEMMA ContentsNow ==
  QueueInv => /\ Contents \in Seq(Tasks) /\ Len(Contents) = get_queue_len
              /\ get_queue_len \in 0..size - 1
<1> SUFFICES ASSUME QueueInv PROVE /\ Contents \in Seq(Tasks) /\ Len(Contents) = get_queue_len
                                   /\ get_queue_len \in 0..size - 1
  OBVIOUS
<1>1. get_queue_len \in 0..size - 1
  <2>1. SlotFacts
    BY SlotsNow DEF QueueInv
  <2>2. /\ front \in 0..size - 1 /\ rear \in 0..size - 1
        /\ get_queue_len = IF rear < front THEN rear - front + size ELSE rear - front
    BY <2>1, Zenon DEF SlotFacts
  <2> QED BY <2>2, QueueAssumption
<1>2. Contents \in [1..get_queue_len -> Tasks]
  BY DEF QueueInv, InUse, Contents
<1> QED BY <1>1, <1>2, QueueAssumption

LEMMA ContentsThen ==
  QueueInv' => /\ Contents' \in Seq(Tasks) /\ Len(Contents') = get_queue_len'
               /\ get_queue_len' \in 0..size - 1
<1> SUFFICES ASSUME QueueInv'
             PROVE /\ Contents' \in Seq(Tasks) /\ Len(Contents') = get_queue_len'
                   /\ get_queue_len' \in 0..size - 1
  OBVIOUS
<1>1. get_queue_len' \in 0..size - 1
  <2>1. SlotFacts'
    BY SlotsThen DEF QueueInv
  <2>2. /\ front' \in 0..size - 1 /\ rear' \in 0..size - 1
        /\ get_queue_len' = IF rear' < front' THEN rear' - front' + size ELSE rear' - front'
    BY <2>1, Zenon DEF SlotFacts
  <2>3. \A f, r \in 0..size - 1 : (IF r < f THEN r - f + size ELSE r - f) \in 0..size - 1
    BY QueueAssumption
  <2> QED BY <2>2, <2>3, Zenon
<1>2. Contents' \in [1..get_queue_len' -> Tasks]
  BY DEF QueueInv, InUse, Contents
<1> QED BY <1>1, <1>2, QueueAssumption

LEMMA InitIsTyped == Init => QueueInv
<1> SUFFICES ASSUME Init PROVE QueueInv OBVIOUS
<1>1. size \in Nat \ {0} BY QueueAssumption
<1>2. TypeOK
  BY <1>1 DEF Init, TypeOK, Values
<1>3. get_queue_len = 0
  BY <1>1, <1>2, SlotsNow DEF Init, SlotFacts
<1> QED BY <1>2, <1>3 DEF QueueInv, InUse

(* The steps, each with what it does to the queue.                          *)
LEMMA Enqueued ==
  ASSUME QueueInv, NEW e \in Tasks, en_queue(e), ~Full
  PROVE  /\ QueueInv' /\ Contents' = Append(Contents, e)
         /\ Len(Contents) < size - 1
<1>0. TypeOK /\ SlotFacts /\ size \in Nat \ {0}
  BY QueueAssumption, SlotsNow DEF QueueInv
<1>1. TypeOK'
  <2>1. rear' = (rear + 1) % size /\ (rear + 1) % size \in 0..size - 1
    BY <1>0 DEF SlotFacts, en_queue
  <2>2. rear' \in 0..size - 1
    BY <2>1
  <2>3. base' \in [0..size - 1 -> Values]
    BY DEF QueueInv, TypeOK, en_queue, Values
  <2> QED BY <1>0, <2>2, <2>3 DEF TypeOK, en_queue
<1>2. /\ get_queue_len' = get_queue_len + 1 /\ get_queue_len \in 0..size - 2
      /\ base' = [base EXCEPT ![rear] = e] /\ front' = front
      /\ rear = IF front + get_queue_len < size THEN front + get_queue_len
                ELSE front + get_queue_len - size
  <2>1. rear' = (rear + 1) % size /\ front' = front /\ base' = [base EXCEPT ![rear] = e]
    BY DEF en_queue
  <2>2. (rear + 1) % size # front
    BY DEF Full
  <2>3. get_queue_len' = IF rear' < front' THEN rear' - front' + size ELSE rear' - front'
    BY <1>1, SlotsThen DEF SlotFacts
  <2> QED BY <2>1, <2>2, <2>3, <1>0 DEF SlotFacts
<1>3. \A k \in 0..size - 1 :
          (front + k) % size = IF front + k < size THEN front + k ELSE front + k - size
  BY <1>0 DEF SlotFacts
<1>4. ASSUME NEW i \in 1..get_queue_len + 1
      PROVE  base'[(front + i - 1) % size] =
                 IF i = get_queue_len + 1 THEN e ELSE base[(front + i - 1) % size]
  <2>1. i - 1 \in 0..size - 1 /\ front + (i - 1) = front + i - 1
    BY <1>2, <1>0 DEF SlotFacts
  <2>2. (front + i - 1) % size = IF front + i - 1 < size THEN front + i - 1
                                 ELSE front + i - 1 - size
    BY <1>3, <2>1
  <2>3. (front + i - 1) % size = rear <=> i = get_queue_len + 1
    BY <1>2, <2>1, <2>2, <1>0 DEF SlotFacts
  <2>4. (front + i - 1) % size \in 0..size - 1
    <3>1. front + i - 1 \in Int
      BY <1>0, <2>1 DEF SlotFacts
    <3> QED BY <3>1, <1>0, InRange
  <2>5. base \in [0..size - 1 -> Values]
    BY <1>0 DEF TypeOK
  <2> QED BY <1>2, <2>3, <2>4, <2>5
<1>5. InUse'
  BY <1>2, <1>4 DEF QueueInv, InUse
<1>6. QueueInv'
  BY <1>1, <1>5 DEF QueueInv
<1>7. Contents' \in Seq(Tasks) /\ Len(Contents') = get_queue_len + 1
  BY <1>2, <1>6, ContentsThen
<1>8. Contents \in Seq(Tasks) /\ Len(Contents) = get_queue_len
  BY ContentsNow
<1>9. \A i \in 1..get_queue_len + 1 : Contents'[i] = Append(Contents, e)[i]
  <2> TAKE i \in 1..get_queue_len + 1
  <2>1. Contents'[i] = base'[(front + i - 1) % size]
    BY <1>2 DEF Contents
  <2>2. CASE i = get_queue_len + 1
    BY <1>2, <1>4, <1>8, <2>1, <2>2, AppendProperties
  <2>3. CASE i # get_queue_len + 1
    <3>1. i \in 1..get_queue_len
      BY <1>2, <2>3
    <3>2. Contents[i] = base[(front + i - 1) % size]
      BY <3>1 DEF Contents
    <3>3. Append(Contents, e)[i] = Contents[i]
      BY <1>8, <3>1, AppendProperties
    <3> QED BY <1>4, <2>1, <2>3, <3>2, <3>3
  <2> QED BY <2>2, <2>3
<1>10. Append(Contents, e) \in Seq(Tasks) /\ Len(Append(Contents, e)) = get_queue_len + 1
  BY <1>8, AppendProperties
<1>11. Contents' = Append(Contents, e)
  BY <1>7, <1>9, <1>10, SeqEqual
<1> QED BY <1>0, <1>2, <1>6, <1>8, <1>11

LEMMA Dequeued ==
  ASSUME QueueInv, de_queue, ~is_empty
  PROVE  /\ QueueInv' /\ Contents # <<>>
         /\ Contents' = Tail(Contents) /\ taken' = <<Head(Contents)>>
<1>0. TypeOK /\ SlotFacts /\ size \in Nat \ {0}
  BY QueueAssumption, SlotsNow DEF QueueInv
<1>1. /\ front' = (front + 1) % size /\ rear' = rear /\ base' = base
      /\ taken' = <<base[front]>> /\ done' = TRUE /\ printed' = printed /\ front # rear
  BY DEF de_queue, is_empty
<1>2. /\ Contents \in Seq(Tasks) /\ Len(Contents) = get_queue_len
      /\ get_queue_len \in 1..size - 1
  BY <1>1, <1>0, ContentsNow DEF SlotFacts
<1>3. Contents # <<>> /\ Head(Contents) = Contents[1] /\ Contents[1] \in Tasks
  BY <1>2
<1>4. Contents[1] = base[front]
  <2>1. Contents[1] = base[(front + 1 - 1) % size]
    BY <1>2 DEF Contents
  <2>2. front + 1 - 1 = front + 0 /\ 0 \in 0..size - 1
    BY <1>0 DEF SlotFacts
  <2> QED BY <1>0, <2>1, <2>2 DEF SlotFacts
<1>5. TypeOK'
  BY <1>1, <1>3, <1>4, <1>0 DEF SlotFacts, TypeOK
<1>6. get_queue_len' = get_queue_len - 1
  <2>1. get_queue_len' = IF rear' < front' THEN rear' - front' + size ELSE rear' - front'
    BY <1>5, SlotsThen DEF SlotFacts
  <2> QED BY <1>1, <2>1, <1>0 DEF SlotFacts
<1>7. ASSUME NEW i \in 1..get_queue_len - 1
      PROVE  base'[(front' + i - 1) % size] = base[(front + (i + 1) - 1) % size]
  <2>1. \A k \in 0..size - 1 : (front' + k) % size =
            IF front' + k < size THEN front' + k ELSE front' + k - size
    BY <1>5, SlotsThen DEF SlotFacts
  <2>2. i - 1 \in 0..size - 1 /\ i \in 0..size - 1
    BY <1>2, <1>0 DEF SlotFacts
  <2>3. (front' + (i - 1)) % size = (front + i) % size
    <3>1. /\ front' = IF front + 1 = size THEN 0 ELSE front + 1
          /\ front \in 0..size - 1 /\ size \in Nat \ {0}
      BY <1>0, <1>1 DEF SlotFacts
    <3>2. (front + i) % size = IF front + i < size THEN front + i ELSE front + i - size
      BY <1>0, <2>2 DEF SlotFacts
    <3>3. (front' + (i - 1)) % size = IF front' + (i - 1) < size THEN front' + (i - 1)
                                      ELSE front' + (i - 1) - size
      BY <2>1, <2>2
    <3> QED BY <2>2, <3>1, <3>2, <3>3
  <2>4. front' + (i - 1) = front' + i - 1 /\ front + i = front + (i + 1) - 1
    BY <1>1, <2>2, <1>0 DEF SlotFacts
  <2> QED BY <1>1, <2>3, <2>4
<1>8. InUse'
  <2>1. ASSUME NEW i \in 1..get_queue_len - 1
        PROVE  base'[(front' + i - 1) % size] \in Tasks
    <3>1. i + 1 \in 1..get_queue_len
      BY <1>2
    <3> QED BY <1>7, <3>1 DEF QueueInv, InUse
  <2> QED BY <1>6, <2>1 DEF QueueInv, InUse
<1>9. QueueInv'
  BY <1>5, <1>8 DEF QueueInv
<1>10. Contents' \in Seq(Tasks) /\ Len(Contents') = get_queue_len - 1
  BY <1>6, <1>9, ContentsThen
<1>11. /\ Tail(Contents) \in Seq(Tasks) /\ Len(Tail(Contents)) = get_queue_len - 1
       /\ \A i \in 1..get_queue_len - 1 : Tail(Contents)[i] = Contents[i + 1]
  BY <1>2, <1>3, HeadTailProperties
<1>12. \A i \in 1..get_queue_len - 1 : Contents'[i] = Tail(Contents)[i]
  <2> TAKE i \in 1..get_queue_len - 1
  <2>1. i + 1 \in 1..get_queue_len
    BY <1>2
  <2>2. Contents'[i] = base'[(front' + i - 1) % size]
    BY <1>6 DEF Contents
  <2>3. Contents[i + 1] = base[(front + (i + 1) - 1) % size]
    BY <2>1 DEF Contents
  <2> QED BY <1>7, <1>11, <2>2, <2>3
<1>13. Contents' = Tail(Contents)
  BY <1>10, <1>11, <1>12, SeqEqual
<1> QED BY <1>1, <1>3, <1>4, <1>9, <1>13

LEMMA StepKeepsQueue == QueueInv /\ [Next]_vars => QueueInv' /\ [Fifo!Next]_<<Contents, done, taken>>
<1> SUFFICES ASSUME QueueInv, [Next]_vars
             PROVE  QueueInv' /\ [Fifo!Next]_<<Contents, done, taken>>
  OBVIOUS
<1>0. /\ Contents \in Seq(Tasks) /\ Len(Contents) = get_queue_len
      /\ get_queue_len \in 0..size - 1 /\ TypeOK /\ SlotFacts /\ size \in Nat \ {0}
  BY ContentsNow, SlotsNow, QueueAssumption DEF QueueInv
<1>1. ASSUME NEW e \in Tasks, en_queue(e)
      PROVE  QueueInv' /\ [Fifo!Next]_<<Contents, done, taken>>
  <2>1. CASE Full
    <3>1. UNCHANGED <<base, front, rear, printed>> /\ done' = FALSE /\ taken' = <<>>
      BY <1>1, <2>1 DEF en_queue
    <3>2. QueueInv' /\ Contents' = Contents
      BY <3>1 DEF QueueInv, TypeOK, InUse, Contents, get_queue_len
    <3>3. Len(Contents) = size - 1
      BY <1>0, <2>1 DEF Full, SlotFacts
    <3> QED BY <3>1, <3>2, <3>3 DEF Fifo!Next, Fifo!RefusePut
  <2>2. CASE ~Full
    <3>1. QueueInv' /\ Contents' = Append(Contents, e) /\ Len(Contents) < size - 1
      BY <1>1, <2>2, Enqueued
    <3>2. done' = TRUE /\ taken' = <<>>
      BY <1>1, <2>2 DEF en_queue
    <3> QED BY <1>1, <3>1, <3>2 DEF Fifo!Next, Fifo!Put
  <2> QED BY <2>1, <2>2
<1>2. CASE de_queue
  <2>1. CASE is_empty
    <3>1. UNCHANGED <<base, front, rear, printed>> /\ done' = FALSE /\ taken' = <<>>
      BY <1>2, <2>1 DEF de_queue
    <3>2. QueueInv' /\ Contents' = Contents
      BY <3>1 DEF QueueInv, TypeOK, InUse, Contents, get_queue_len
    <3>3. Contents = <<>>
      BY <1>0, <2>1 DEF is_empty, SlotFacts
    <3> QED BY <3>1, <3>2, <3>3 DEF Fifo!Next, Fifo!RefuseTake
  <2>2. CASE ~is_empty
    <3>1. /\ QueueInv' /\ Contents # <<>>
          /\ Contents' = Tail(Contents) /\ taken' = <<Head(Contents)>>
      BY <1>2, <2>2, Dequeued
    <3>2. done' = TRUE
      BY <1>2, <2>2 DEF de_queue
    <3> QED BY <3>1, <3>2 DEF Fifo!Next, Fifo!Take
  <2> QED BY <2>1, <2>2
<1>3. CASE queue_trav
  <2>1. UNCHANGED <<base, front, rear, done, taken>>
    BY <1>3 DEF queue_trav
  <2>2. Contents' = Contents /\ InUse'
    BY <2>1 DEF QueueInv, InUse, Contents, get_queue_len
  <2>3. printed' \in Seq(Values)
    <3> DEFINE p == [i \in 1..get_queue_len |-> At(front + get_queue_len - i)]
    <3>1. ASSUME NEW i \in 1..get_queue_len PROVE At(front + get_queue_len - i) \in Values
      <4>1. front + get_queue_len - i \in Nat /\ base \in [0..size - 1 -> Values]
        BY <1>0, <3>1 DEF TypeOK
      <4> QED BY <1>0, <4>1 DEF At, Values
    <3>2. p \in [1..get_queue_len -> Values]
      BY <3>1
    <3>3. p \in Seq(Values)
      BY <1>0, <3>2
    <3> QED BY <1>3, <3>3 DEF queue_trav
  <2> QED BY <1>0, <2>1, <2>2, <2>3 DEF QueueInv, TypeOK
<1>4. CASE UNCHANGED vars
  BY <1>4 DEF vars, QueueInv, TypeOK, InUse, Contents, get_queue_len
<1> QED BY <1>1, <1>2, <1>3, <1>4 DEF Next

(* front and rear stay in the buffer and only tasks are handed out.         *)
THEOREM QueueTypes == Spec => []TypeOK
<1>1. Init => QueueInv
  BY InitIsTyped
<1>2. QueueInv /\ [Next]_vars => QueueInv'
  BY StepKeepsQueue
<1>3. QueueInv => TypeOK
  BY DEF QueueInv
<1> QED BY <1>1, <1>2, <1>3, PTL DEF Spec

(* The ring buffer implements a queue of size - 1 tasks, for every size.    *)
THEOREM QueueIsFifo == Spec => IsFifo
<1>1. Init => QueueInv /\ Fifo!Init
  <2> SUFFICES ASSUME Init PROVE QueueInv /\ Fifo!Init
    OBVIOUS
  <2>1. QueueInv
    BY InitIsTyped
  <2>2. /\ Contents \in Seq(Tasks) /\ Len(Contents) = get_queue_len
        /\ SlotFacts
    BY <2>1, ContentsNow, SlotsNow DEF QueueInv
  <2>3. Contents = <<>>
    BY <2>2 DEF Init, SlotFacts
  <2> QED BY <2>1, <2>3 DEF Init, Fifo!Init
<1>2. QueueInv /\ [Next]_vars => QueueInv' /\ [Fifo!Next]_<<Contents, done, taken>>
  BY StepKeepsQueue
<1> QED BY <1>1, <1>2, PTL DEF Spec, IsFifo, Fifo!Spec
=============================================================================
