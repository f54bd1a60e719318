--------------------------- MODULE SysTimerProofs ---------------------------
(***************************************************************************)
(* The timer's list of slots, for every length of the day and the merge    *)
(* period, every number of crashes and however late the two threads are.   *)
(* The flagged slots are the first ones that are due (SlotsInv); iter_ok   *)
(* then points to the last of them, and a refill needs a midnight a whole  *)
(* merge period after it.                                                  *)
(***************************************************************************)
EXTENDS SysTimer, FiniteSetTheorems, TLAPS

\* the slots of a list from midnight d that are due at time t
DueSlots(d, t) == {i \in 0..SlotsPerDay - 1 : Slot(d, i) <= t}

\* What of the timer's state the argument needs
SlotsInv ==
    /\ now \in Nat /\ day \in Nat
    /\ flagged \in 0..SlotsPerDay
    /\ flagged <= Due
    /\ flagged > 0 => iter_ok = Slot(day, flagged - 1)

LEMMA Quotient ==
    ASSUME NEW a \in Nat, NEW b \in Nat \ {0}
    PROVE  a \div b \in Nat /\ (b <= a => a \div b > 0)
  OBVIOUS

LEMMA Product ==
    ASSUME NEW a \in Nat, NEW b \in Nat
    PROVE  a * b \in Nat /\ (a > 0 /\ b > 0 => a * b > 0)
  OBVIOUS

LEMMA SlotsPositive == SlotsPerDay \in Nat /\ SlotsPerDay > 0
  <1>1. Hour \div Merge \in Nat /\ Hour \div Merge > 0
    BY Quotient, ClockAssumption
  <1> QED
    BY <1>1, Product, ClockAssumption DEF SlotsPerDay

LEMMA MidnightNat == ASSUME NEW t \in Nat PROVE Midnight(t) \in Nat
  <1>1. DayLen \in Nat \ {0}
    BY Product, ClockAssumption DEF DayLen
  <1>2. t \div DayLen \in Nat
    BY <1>1, Quotient
  <1> QED
    BY <1>1, <1>2, Product DEF Midnight

\* The due slots are finitely many, and no slot is due twice
LEMMA DueBound ==
    ASSUME NEW d, NEW t
    PROVE  /\ IsFiniteSet(DueSlots(d, t))
           /\ Cardinality(DueSlots(d, t)) \in 0..SlotsPerDay
  <1>1. 0 \in Int /\ SlotsPerDay - 1 \in Int
    BY SlotsPositive
  <1>2. /\ IsFiniteSet(0..SlotsPerDay - 1)
        /\ Cardinality(0..SlotsPerDay - 1) = SlotsPerDay
    BY <1>1, FS_Interval, SlotsPositive
  <1>3. DueSlots(d, t) \subseteq 0..SlotsPerDay - 1
    BY DEF DueSlots
  <1>4. IsFiniteSet(DueSlots(d, t)) /\ Cardinality(DueSlots(d, t)) <= SlotsPerDay
    <2> DEFINE all == 0..SlotsPerDay - 1
    <2> HIDE DEF all
    <2>1. /\ IsFiniteSet(DueSlots(d, t))
          /\ Cardinality(DueSlots(d, t)) <= Cardinality(all)
      BY <1>2, <1>3, FS_Subset, Zenon DEF all
    <2> QED
      BY <1>2, <2>1 DEF all
  <1>5. Cardinality(DueSlots(d, t)) \in Nat
    BY <1>4, FS_CardinalityType
  <1> QED
    BY <1>4, <1>5, SlotsPositive

\* A slot that is due stays due as time goes on
LEMMA DueGrows ==
    ASSUME NEW d \in Nat, NEW t \in Nat, NEW u \in Nat, t <= u
    PROVE  Cardinality(DueSlots(d, t)) <= Cardinality(DueSlots(d, u))
  <1>1. \A i \in 0..SlotsPerDay - 1 : Slot(d, i) \in Int
    <2>1. \A i \in 0..SlotsPerDay - 1 : i \in Nat
      BY SlotsPositive
    <2> QED
      BY <2>1, Product, ClockAssumption DEF Slot
  <1>2. DueSlots(d, t) \subseteq DueSlots(d, u)
    BY <1>1 DEF DueSlots
  <1> QED
    BY <1>2, DueBound, FS_Subset

-----------------------------------------------------------------------------
LEMMA InitSlots == Init => SlotsInv
  <1> SUFFICES ASSUME Init PROVE SlotsInv
    OBVIOUS
  <1>1. Due \in 0..SlotsPerDay
    BY DueBound DEF Due, DueSlots
  <1> QED
    BY <1>1, SlotsPositive DEF Init, SlotsInv

\* Scan flags all that are due, so the last flagged slot is iter_ok; the other
\* steps refill the list, let time pass or leave it all alone
LEMMA StepSlots == SlotsInv /\ [Next]_vars => SlotsInv'
  <1> SUFFICES ASSUME SlotsInv, [Next]_vars PROVE SlotsInv'
    OBVIOUS
  <1> DEFINE Count(d, t) == Cardinality(DueSlots(d, t))
  <1>1. Due = Count(day, now) /\ Due' = Count(day', now')
    BY DEF Due, DueSlots, SlotsPerDay, Slot
  <1>2. \A d, t : Count(d, t) \in 0..SlotsPerDay
    BY DueBound
  <1> HIDE DEF Count
  <1>3. SlotsPerDay \in Nat /\ SlotsPerDay > 0
    BY SlotsPositive
  <1>4. CASE Tick
    <2>1. now' = now + 1 /\ UNCHANGED <<day, flagged, iter_ok>>
      BY <1>4 DEF Tick, timer
    <2>2. Count(day, now) <= Count(day, now')
      BY <2>1, DueGrows DEF Count, SlotsInv
    <2> QED
      BY <1>1, <1>2, <1>3, <2>1, <2>2 DEF SlotsInv, Slot
  <1>5. CASE Crash
    BY <1>1, <1>2, <1>3, <1>5 DEF Crash, StartProcess, SlotsInv
  <1>6. CASE Attach
    BY <1>1, <1>2, <1>3, <1>6, MidnightNat DEF Attach, clock, SlotsInv
  <1>7. CASE Scan
    <2>1. now' = now /\ day' = day /\ flagged' = Due
      BY <1>7 DEF Scan, clock
    <2>2. flagged' > flagged => iter_ok' = Slot(day, flagged' - 1)
      BY <1>7 DEF Scan, clock
    <2>3. ~(flagged' > flagged) => iter_ok' = iter_ok
      BY <1>7 DEF Scan, clock
    <2> QED
      BY <1>1, <1>2, <1>3, <2>1, <2>2, <2>3 DEF SlotsInv, Slot
  <1>8. CASE Roll
    <2>1. now' = now
      BY <1>8 DEF Roll, clock
    <2>2. CASE NewDay
      BY <1>1, <1>2, <1>3, <1>8, <2>1, <2>2, MidnightNat DEF Roll, clock, SlotsInv
    <2>3. CASE ~NewDay
      BY <1>1, <1>8, <2>1, <2>3 DEF Roll, clock, SlotsInv, Slot
    <2> QED
      BY <2>2, <2>3
  <1>9. CASE AskUpload
    BY <1>1, <1>9 DEF AskUpload, clock, SlotsInv, Slot
  <1>10. CASE Cutter \/ UNCHANGED vars
    <2>1. UNCHANGED <<now, day, flagged, iter_ok>>
      BY <1>10 DEF Cutter, Create, Receive, StartRound, vars, timer, clock
    <2> QED
      BY <1>1, <2>1 DEF SlotsInv, Slot
  <1> QED
    BY <1>4, <1>5, <1>6, <1>7, <1>8, <1>9, <1>10 DEF Next, Timer

LEMMA SlotsCorrect == Spec => []SlotsInv
  BY InitSlots, StepSlots, PTL DEF Spec

(* When the test for a new day gets as far as reading *iter_ok, it points   *)
(* to the last slot of the list it belongs to, however the clock, the       *)
(* crashes and the two threads interleave (main.cpp:650).                   *)
THEOREM IterOkIsDefined == Spec => []IterOkDefined
  <1>1. SlotsInv => IterOkDefined
    BY SlotsPositive DEF SlotsInv, IterOkDefined
  <1> QED
    BY <1>1, SlotsCorrect, PTL

\* A refill is for a later day: the last slot of the list lies in an older one
LEMMA NewDayIsLater ==
    ASSUME SlotsInv, NewDay
    PROVE  day < Midnight(now)
  <1>1. flagged = SlotsPerDay /\ Midnight(now) >= Merge + iter_ok
    BY DEF NewDay
  <1>2. iter_ok = day + (flagged - 1) * Merge /\ flagged - 1 \in Nat
    BY <1>1, SlotsPositive DEF SlotsInv, Slot
  <1>3. (flagged - 1) * Merge \in Nat /\ Merge \in Nat \ {0}
    BY <1>2, Product, ClockAssumption
  <1>4. Midnight(now) \in Nat /\ day \in Nat
    BY MidnightNat DEF SlotsInv
  <1> DEFINE rest == (flagged - 1) * Merge
  <1>5. rest \in Nat /\ iter_ok = day + rest
    BY <1>2, <1>3
  <1> HIDE DEF rest
  <1> QED
    BY <1>1, <1>3, <1>4, <1>5

(* The list of slots is refilled only after all of it was due, and with the *)
(* slots of a later day: no day is cut twice over, and the upload numbers   *)
(* do not start again within a day by way of "day".                         *)
THEOREM ListRollsForward == Spec => RollsForward
  <1> DEFINE Forward == tpc = "roll" /\ tpc' = "ask" /\ flagged' # flagged
                            => day' > day /\ flagged = SlotsPerDay
  <1>1. SlotsInv /\ [Next]_vars => [Forward]_vars
    <2> SUFFICES ASSUME SlotsInv, Next, tpc = "roll", tpc' = "ask",
                        flagged' # flagged
                 PROVE  day' > day /\ flagged = SlotsPerDay
      OBVIOUS
    <2>1. Roll
      BY DEF Next, Timer, Cutter, Tick, Crash, StartProcess, Attach, Scan,
             AskUpload, Create, Receive, StartRound, timer, clock
    <2>2. NewDay /\ day' = Midnight(now)
      BY <2>1 DEF Roll
    <2>3. day < Midnight(now) /\ day \in Nat /\ Midnight(now) \in Nat
      BY <2>2, NewDayIsLater, MidnightNat DEF SlotsInv
    <2> QED
      BY <2>2, <2>3 DEF NewDay
  <1> QED
    BY <1>1, SlotsCorrect, PTL DEF Spec, RollsForward
-----------------------------------------------------------------------------
(* The calendar: Midnight as the code computes it, by a division. *)

LEMMA DayLenNat == DayLen \in Nat \ {0}
  BY Product, ClockAssumption DEF DayLen

LEMMA DivBounds ==
    ASSUME NEW a \in Nat, NEW b \in Nat \ {0}
    PROVE  b * (a \div b) <= a /\ a < b * (a \div b) + b
  OBVIOUS

LEMMA DivUnique ==
    ASSUME NEW b \in Nat \ {0}, NEW k \in Nat, NEW r \in 0..b - 1
    PROVE  (b * k + r) \div b = k
  OBVIOUS

\* Midnight lies at most a day back and is the same for all of the day
LEMMA MidnightOfDay ==
    ASSUME NEW t \in Nat
    PROVE  /\ Midnight(t) \in Nat /\ Midnight(t) <= t /\ t < Midnight(t) + DayLen
           /\ \A r \in 0..DayLen - 1 : Midnight(Midnight(t) + r) = Midnight(t)
           /\ Midnight(Midnight(t)) = Midnight(t)
  <1>1. Midnight(t) \in Nat
    BY MidnightNat
  <1>2. Midnight(t) <= t /\ t < Midnight(t) + DayLen
    BY DayLenNat, DivBounds DEF Midnight
  <1>3. \A r \in 0..DayLen - 1 : Midnight(Midnight(t) + r) = Midnight(t)
    <2> TAKE r \in 0..DayLen - 1
    <2>1. t \div DayLen \in Nat
      BY DayLenNat, Quotient
    <2>2. (DayLen * (t \div DayLen) + r) \div DayLen = t \div DayLen
      BY <2>1, DayLenNat, DivUnique
    <2> QED
      BY <2>2 DEF Midnight
  <1>4. 0 \in 0..DayLen - 1 /\ Midnight(t) + 0 = Midnight(t)
    BY <1>1, DayLenNat
  <1>5. Midnight(Midnight(t) + 0) = Midnight(t)
    BY <1>3, <1>4
  <1> QED
    BY <1>1, <1>2, <1>3, <1>4, <1>5

\* A midnight that has been is no later than the last one, and is the last one
\* until its day is over
LEMMA LastMidnight ==
    ASSUME NEW d \in Nat, d = Midnight(d), NEW t \in Nat, d <= t
    PROVE  /\ d <= Midnight(t)
           /\ t < d + DayLen <=> Midnight(t) = d
  <1>1. /\ Midnight(t) \in Nat /\ Midnight(t) <= t /\ t < Midnight(t) + DayLen
    BY MidnightOfDay
  <1>2. ASSUME t < d + DayLen PROVE Midnight(t) = d
    <2>1. t - d \in 0..DayLen - 1 /\ d + (t - d) = t
      BY <1>2, DayLenNat
    <2>2. \A r \in 0..DayLen - 1 : Midnight(Midnight(d) + r) = Midnight(d)
      BY MidnightOfDay
    <2>3. Midnight(d + (t - d)) = d
      BY <2>1, <2>2
    <2> QED
      BY <2>1, <2>3
  <1> QED
    BY <1>1, <1>2, DayLenNat

\* The slots fill the day but for what Uncovered names
LEMMA SlotsOfDay ==
    /\ Uncovered \in Nat
    /\ DayLen = SlotsPerDay * Merge + Uncovered
  <1> DEFINE q == Hour \div Merge
             r == Hour % Merge
  <1>1. q \in Nat /\ r \in Nat
    BY ClockAssumption
  <1>2. Hour = Merge * q + r
    BY ClockAssumption
  <1> HIDE DEF q, r
  <1>3. \A h, m \in Nat : h * (m * q + r) = h * q * m + h * r
    BY <1>1
  <1>4. Hours \in Nat /\ Merge \in Nat
    BY ClockAssumption
  <1>5. Hours * Hour = (Hours * q) * Merge + Hours * r
    BY <1>2, <1>3, <1>4
  <1>6. Hours * r \in Nat
    BY <1>1, <1>4, Product
  <1> QED
    BY <1>5, <1>6 DEF DayLen, SlotsPerDay, Uncovered, q, r

-----------------------------------------------------------------------------
(* The day of the list and the upload. *)

\* The list starts from a midnight that has been.  While uploadtime is set, no
\* upload was sent for that day; what was sent was for no later day.
UploadInv ==
    /\ now \in Nat /\ day \in Nat
    /\ day = Midnight(day) /\ day <= now
    /\ uploadtime \in {Off, day + UploadAt}
    /\ \A d \in asked : d \in Nat /\ d <= day
    /\ uploadtime # Off => day \notin asked
    /\ tpc = "attach" => uploadtime = Off /\ asked = {}

LEMMA FirstMidnight == Midnight(0) = 0
  <1>1. /\ Midnight(0) \in Nat /\ Midnight(0) <= 0
    BY MidnightOfDay
  <1> QED
    BY <1>1

LEMMA InitUpload == Init => UploadInv
  BY FirstMidnight DEF Init, UploadInv

\* The midnight of the day that uploadtime lies in is the one of the list
LEMMA UploadDay ==
    ASSUME UploadInv, uploadtime # Off
    PROVE  Midnight(uploadtime) = day
  <1>1. uploadtime = Midnight(day) + UploadAt /\ UploadAt \in 0..DayLen - 1
    BY ClockAssumption DEF UploadInv, DayLen
  <1>2. day \in Nat /\ Midnight(day) = day
    BY DEF UploadInv
  <1>3. \A r \in 0..DayLen - 1 : Midnight(Midnight(day) + r) = Midnight(day)
    BY <1>2, MidnightOfDay
  <1> QED
    BY <1>1, <1>2, <1>3

LEMMA StepUpload == SlotsInv /\ UploadInv /\ [Next]_vars => UploadInv'
  <1> SUFFICES ASSUME SlotsInv, UploadInv, [Next]_vars PROVE UploadInv'
    OBVIOUS
  <1>1. now \in Nat /\ day \in Nat
    BY DEF UploadInv
  <1>2. /\ Midnight(now) \in Nat /\ Midnight(now) <= now
        /\ Midnight(Midnight(now)) = Midnight(now)
    BY <1>1, MidnightOfDay
  <1>3. /\ day' = day => Midnight(day)' = Midnight(day)
        /\ day' = Midnight(now) => Midnight(day)' = Midnight(Midnight(now))
        /\ day' = 0 => Midnight(day)' = 0
    BY FirstMidnight DEF Midnight, DayLen
  <1>4. CASE Tick
    BY <1>3, <1>4 DEF Tick, timer, history, UploadInv
  <1>5. CASE Crash
    BY <1>3, <1>5 DEF Crash, StartProcess, UploadInv
  <1>6. CASE Attach
    BY <1>2, <1>3, <1>6, ClockAssumption DEF Attach, clock, history, UploadInv
  <1>7. CASE Scan
    BY <1>3, <1>7 DEF Scan, clock, history, UploadInv
  <1>8. CASE Roll
    <2>1. UNCHANGED <<now, asked>> /\ tpc' = "ask"
      BY <1>8 DEF Roll, clock, history
    <2>2. CASE NewDay
      <3>1. day' = Midnight(now) /\ uploadtime' = Midnight(now) + UploadAt
        BY <1>8, <2>2 DEF Roll
      <3>2. day < Midnight(now)
        BY <2>2, NewDayIsLater
      <3>3. \A d \in asked : d \in Nat /\ d < Midnight(now)
        BY <1>1, <1>2, <3>2 DEF UploadInv
      <3>4. Midnight(now) \notin asked
        BY <1>2, <3>3
      <3> QED
        BY <1>1, <1>2, <1>3, <2>1, <3>1, <3>3, <3>4 DEF UploadInv
    <2>3. CASE ~NewDay
      <3>1. UNCHANGED <<day, uploadtime>>
        BY <1>8, <2>3 DEF Roll
      <3> QED
        BY <1>3, <2>1, <3>1 DEF UploadInv
    <2> QED
      BY <2>2, <2>3
  <1>9. CASE AskUpload
    <2>1. UNCHANGED <<now, day>> /\ tpc' = "scan"
      BY <1>9 DEF AskUpload, clock
    <2>2. CASE uploadtime # Off /\ now >= uploadtime
      <3>1. uploadtime' = Off /\ asked' = asked \cup {day}
        BY <1>9, <2>2, UploadDay DEF AskUpload
      <3> QED
        BY <1>1, <1>3, <2>1, <3>1 DEF UploadInv
    <2>3. CASE ~(uploadtime # Off /\ now >= uploadtime)
      <3>1. UNCHANGED <<uploadtime, asked>>
        BY <1>9, <2>3 DEF AskUpload
      <3> QED
        BY <1>3, <2>1, <3>1 DEF UploadInv
    <2> QED
      BY <2>2, <2>3
  <1>10. CASE Cutter \/ UNCHANGED vars
    <2>1. UNCHANGED <<now, day, uploadtime, asked, tpc>>
      BY <1>10 DEF Cutter, Create, Receive, StartRound, vars, timer, clock, history
    <2> QED
      BY <1>3, <2>1 DEF UploadInv
  <1> QED
    BY <1>4, <1>5, <1>6, <1>7, <1>8, <1>9, <1>10 DEF Next, Timer

LEMMA UploadCorrect == Spec => [](SlotsInv /\ UploadInv)
  BY InitSlots, StepSlots, InitUpload, StepUpload, PTL DEF Spec

(* However late the timer thread is, whatever the queue drops and whenever  *)
(* the process is started again: the log servers are asked to upload at     *)
(* most once for a day by one process (main.cpp:673).                       *)
THEOREM OneUploadForADay == Spec => OneUploadPerDay
  <1> DEFINE New == uploadtime # Off /\ uploadtime' = Off /\ tpc = "ask"
                        => Midnight(uploadtime) \notin asked
  <1>1. UploadInv => New
    BY UploadDay DEF UploadInv
  <1>2. UploadInv => [New]_vars
    BY <1>1
  <1> QED
    BY <1>2, UploadCorrect, PTL DEF OneUploadPerDay

-----------------------------------------------------------------------------
(* No gap between the slots. *)

LEMMA SlotsInOrder ==
    ASSUME NEW d \in Nat, NEW i \in Nat, NEW j \in Nat, i <= j
    PROVE  /\ Slot(d, i) \in Nat /\ Slot(d, j) \in Nat
           /\ Slot(d, i) <= Slot(d, j)
           /\ Slot(d, i + 1) = Slot(d, i) + Merge
  <1>1. \A a, b, m \in Nat : a <= b => a * m <= b * m
    OBVIOUS
  <1>2. \A a, m \in Nat : (a + 1) * m = a * m + m /\ a * m \in Nat
    OBVIOUS
  <1>3. Merge \in Nat
    BY ClockAssumption
  <1>4. i * Merge <= j * Merge /\ i * Merge \in Nat /\ j * Merge \in Nat
        /\ (i + 1) * Merge = i * Merge + Merge
    BY <1>1, <1>2, <1>3
  <1> DEFINE x == i * Merge
             y == j * Merge
             z == (i + 1) * Merge
  <1>5. x <= y /\ x \in Nat /\ y \in Nat /\ z = x + Merge
    BY <1>4
  <1>6. Slot(d, i) = d + x /\ Slot(d, j) = d + y /\ Slot(d, i + 1) = d + z
    BY DEF Slot
  <1> HIDE DEF x, y, z
  <1> QED
    BY <1>3, <1>5, <1>6

\* The due slots are the first ones: the next one is not due
LEMMA NextNotDue ==
    ASSUME NEW d \in Nat, NEW t \in Nat,
           Cardinality(DueSlots(d, t)) < SlotsPerDay
    PROVE  t < Slot(d, Cardinality(DueSlots(d, t)))
  <1> DEFINE n == Cardinality(DueSlots(d, t))
  <1>1. n \in Nat /\ n < SlotsPerDay /\ SlotsPerDay \in Nat
    BY DueBound, SlotsPositive
  <1>2. IsFiniteSet(DueSlots(d, t))
    BY DueBound
  <1> HIDE DEF n
  <1> SUFFICES ASSUME ~(t < Slot(d, n)) PROVE FALSE
    BY DEF n
  <1>3. \A i \in 0..n : Slot(d, i) <= t
    <2> TAKE i \in 0..n
    <2>1. i \in Nat /\ i <= n
      BY <1>1
    <2>2. Slot(d, i) \in Nat /\ Slot(d, n) \in Nat /\ Slot(d, i) <= Slot(d, n)
      BY <1>1, <2>1, SlotsInOrder
    <2> QED
      BY <2>2
  <1>4. 0..n \subseteq DueSlots(d, t)
    BY <1>1, <1>3 DEF DueSlots
  <1>5. Cardinality(0..n) = n + 1
    BY <1>1, FS_Interval
  <1>6. Cardinality(0..n) <= n
    BY <1>2, <1>4, FS_Subset DEF n
  <1> QED
    BY <1>1, <1>5, <1>6

\* The last slot leaves Uncovered and a merge period of its day
LEMMA LastSlot ==
    ASSUME NEW d \in Nat
    PROVE  /\ Slot(d, SlotsPerDay - 1) \in Nat
           /\ Slot(d, SlotsPerDay - 1) + Merge + Uncovered = d + DayLen
  <1>1. SlotsPerDay - 1 \in Nat /\ SlotsPerDay \in Nat
    BY SlotsPositive
  <1>2. /\ Slot(d, SlotsPerDay - 1) \in Nat
        /\ Slot(d, SlotsPerDay - 1 + 1) = Slot(d, SlotsPerDay - 1) + Merge
    BY <1>1, SlotsInOrder
  <1>3. SlotsPerDay - 1 + 1 = SlotsPerDay
    BY <1>1
  <1>4. Slot(d, SlotsPerDay) = d + SlotsPerDay * Merge
    BY DEF Slot
  <1>5. SlotsPerDay * Merge \in Nat /\ Uncovered \in Nat /\ Merge \in Nat
    BY <1>1, Product, SlotsOfDay, ClockAssumption
  <1> DEFINE x == SlotsPerDay * Merge
  <1>6. DayLen = x + Uncovered /\ x \in Nat /\ Slot(d, SlotsPerDay) = d + x
    BY <1>4, <1>5, SlotsOfDay
  <1> HIDE DEF x
  <1> QED
    BY <1>2, <1>3, <1>5, <1>6

(* Whenever the timer has caught up, the last slot that got a round is less *)
(* than a merge period old, and at the end of a day where mergetime does    *)
(* not divide the hour less than that and the rest of the day: for every    *)
(* mergetime, over midnight and restarts (main.cpp:617).                    *)
THEOREM NoGapInCutting == Spec => []CutEveryMerge
  <1>1. SlotsInv /\ UploadInv => CutEveryMerge
    <2> SUFFICES ASSUME SlotsInv, UploadInv, Settled
                 PROVE  \/ now < iter_ok + Merge
                        \/ flagged = SlotsPerDay /\ now < iter_ok + Merge + Uncovered
      BY DEF CutEveryMerge
    <2>1. now \in Nat /\ day \in Nat /\ day <= now /\ day = Midnight(day)
      BY DEF UploadInv
    <2>2. flagged = Cardinality(DueSlots(day, now))
      BY DEF Settled, Due, DueSlots
    <2>3. flagged \in 0..SlotsPerDay /\ SlotsPerDay \in Nat /\ SlotsPerDay > 0
      BY SlotsPositive DEF SlotsInv
    <2>4. CASE flagged < SlotsPerDay
      <3>1. now < Slot(day, flagged)
        BY <2>1, <2>2, <2>4, NextNotDue
      <3>2. Slot(day, 0) = day
        BY <2>1, ClockAssumption DEF Slot
      <3>3. flagged > 0
        BY <2>1, <2>3, <3>1, <3>2
      <3>4. iter_ok = Slot(day, flagged - 1) /\ flagged - 1 \in Nat
        BY <2>3, <3>3 DEF SlotsInv
      <3>5. flagged - 1 + 1 = flagged
        BY <2>3
      <3>6. Slot(day, flagged) = Slot(day, flagged - 1) + Merge
        BY <2>1, <3>4, <3>5, SlotsInOrder
      <3> QED
        BY <3>1, <3>4, <3>6
    <2>5. CASE flagged = SlotsPerDay
      <3>1. iter_ok = Slot(day, SlotsPerDay - 1)
        BY <2>3, <2>5 DEF SlotsInv
      <3>2. iter_ok \in Nat /\ iter_ok + Merge + Uncovered = day + DayLen
        BY <2>1, <3>1, LastSlot
      <3>3. Midnight(now) < Merge + iter_ok
        BY <2>5 DEF Settled
      <3>4. Midnight(now) \in Nat /\ day <= Midnight(now)
            /\ Midnight(Midnight(now)) = Midnight(now)
        BY <2>1, LastMidnight, MidnightOfDay
      <3>5. Uncovered \in Nat /\ Merge \in Nat /\ DayLen \in Nat
        BY SlotsOfDay, ClockAssumption, DayLenNat
      <3>6. Midnight(now) < day + DayLen
        BY <2>1, <3>2, <3>3, <3>4, <3>5
      <3>7. Midnight(now) = day
        BY <2>1, <3>4, <3>6, LastMidnight
      <3>8. now < day + DayLen
        BY <2>1, <3>7, LastMidnight
      <3> QED
        BY <2>5, <3>2, <3>8
    <2> QED
      BY <2>3, <2>4, <2>5
  <1> QED
    BY <1>1, UploadCorrect, PTL

-----------------------------------------------------------------------------
(* Type correctness. *)

Messages == {"cut", "day", "upload"}

\* What TypeOK says beyond the parts above
TypeInv ==
    /\ now \in 0..LastTime /\ prompt \in Paces /\ crashes \in 0..Crashes
    /\ exists \in BOOLEAN /\ attached \in BOOLEAN /\ (attached => exists)
    /\ queue \in Seq(Messages) /\ Len(queue) <= QueueMax
    /\ tpc \in {"attach", "scan", "roll", "ask"}
    /\ iter_ok \in Nat \cup {Undefined}
    /\ cpc \in {"attach", "idle", "cut"}
    /\ iUp_NUM \in 0..LastNumber
    /\ used \subseteq Nat \X (0..LastNumber)
    /\ reused \in BOOLEAN

LEMMA InitTypes == Init => TypeInv
  <1> SUFFICES ASSUME Init PROVE TypeInv
    OBVIOUS
  <1>1. attached \in BOOLEAN /\ (attached => exists) /\ exists \in BOOLEAN
    BY Zenon DEF Init
  <1>2. prompt \in Paces /\ reused \in BOOLEAN
    BY Zenon DEF Init
  <1>3. /\ now = 0 /\ crashes = 0 /\ queue = <<>> /\ tpc = "attach"
        /\ iter_ok = Undefined /\ cpc = "attach" /\ iUp_NUM = 0 /\ used = {}
    BY DEF Init
  <1> QED
    BY <1>1, <1>2, <1>3, ClockAssumption DEF TypeInv

LEMMA SendType ==
    ASSUME TypeInv, NEW m \in Messages, Send(m)
    PROVE  queue' \in Seq(Messages) /\ Len(queue') <= QueueMax
  BY ClockAssumption DEF TypeInv, Send

LEMMA StepTypes == SlotsInv /\ TypeInv /\ [Next]_vars => TypeInv'
  <1> SUFFICES ASSUME SlotsInv, TypeInv, [Next]_vars PROVE TypeInv'
    OBVIOUS
  <1> USE ClockAssumption
  <1>1. CASE Tick
    BY <1>1 DEF Tick, kernel, timer, cutter, history, TypeInv
  <1>2. CASE Crash
    <2>1. attached' \in BOOLEAN /\ (attached' => exists') /\ exists' \in BOOLEAN
      BY <1>2, Zenon DEF Crash, StartProcess, kernel, TypeInv
    <2>2. prompt' \in Paces /\ reused' \in BOOLEAN
      BY <1>2, Zenon DEF Crash, TypeInv
    <2>3. /\ UNCHANGED <<now, queue>> /\ crashes' \in 0..Crashes
          /\ tpc' = "attach" /\ iter_ok' = Undefined /\ cpc' = "attach"
          /\ iUp_NUM' = 0 /\ used' = {}
      BY <1>2 DEF Crash, StartProcess, kernel, TypeInv
    <2> QED
      BY <2>1, <2>2, <2>3 DEF TypeInv
  <1>3. CASE Attach
    BY <1>3 DEF Attach, clock, kernel, cutter, history, TypeInv
  <1>4. CASE Scan
    <2>1. UNCHANGED <<clock, exists, attached, cutter, history>> /\ tpc' = "roll"
      BY <1>4 DEF Scan
    <2>2. queue' \in Seq(Messages) /\ Len(queue') <= QueueMax
      BY <1>4, SendType DEF Scan, Messages, TypeInv
    <2>3. iter_ok' \in Nat \cup {Undefined}
      <3>1. CASE flagged' > flagged
        <4>1. iter_ok' = Slot(day, flagged' - 1) /\ flagged' = Due
          BY <1>4, <3>1 DEF Scan
        <4>2. Due \in Nat /\ day \in Nat /\ flagged \in Nat
          <5>1. Due = Cardinality(DueSlots(day, now))
            BY DEF Due, DueSlots
          <5> QED
            BY <5>1, DueBound, SlotsPositive DEF SlotsInv
        <4>3. flagged' - 1 \in Nat
          BY <3>1, <4>1, <4>2
        <4>4. Slot(day, flagged' - 1) = day + (flagged' - 1) * Merge
          BY DEF Slot
        <4>5. (flagged' - 1) * Merge \in Nat
          BY <4>3, Product
        <4> QED
          BY <4>1, <4>2, <4>4, <4>5
      <3>2. CASE ~(flagged' > flagged)
        BY <1>4, <3>2 DEF Scan, TypeInv
      <3> QED
        BY <3>1, <3>2
    <2> QED
      BY <2>1, <2>2, <2>3 DEF clock, cutter, history, TypeInv
  <1>5. CASE Roll
    <2>1. UNCHANGED <<clock, exists, attached, cutter, history>> /\ tpc' = "ask"
      BY <1>5 DEF Roll
    <2>2. queue' \in Seq(Messages) /\ Len(queue') <= QueueMax
      BY <1>5, SendType DEF Roll, Messages, TypeInv
    <2>3. iter_ok' \in {iter_ok, Undefined}
      BY <1>5 DEF Roll
    <2> QED
      BY <2>1, <2>2, <2>3 DEF clock, cutter, history, TypeInv
  <1>6. CASE AskUpload
    <2>1. UNCHANGED <<clock, exists, attached, iter_ok, cutter, used, reused>>
          /\ tpc' = "scan"
      BY <1>6 DEF AskUpload
    <2>2. queue' \in Seq(Messages) /\ Len(queue') <= QueueMax
      BY <1>6, SendType DEF AskUpload, Messages, TypeInv
    <2> QED
      BY <2>1, <2>2 DEF clock, cutter, TypeInv
  <1>7. CASE Create
    BY <1>7 DEF Create, clock, timer, history, TypeInv
  <1>8. CASE Receive
    <2>1. UNCHANGED <<clock, exists, timer, history>> /\ cpc' \in {"cut", "idle"}
          /\ iUp_NUM' \in {0, iUp_NUM} /\ queue' = Tail(queue) /\ queue # <<>>
      BY <1>8 DEF Receive
    <2>2. queue' \in Seq(Messages) /\ Len(queue') <= QueueMax
      BY <2>1 DEF TypeInv
    <2> QED
      BY <2>1, <2>2 DEF clock, timer, history, TypeInv
  <1>9. CASE StartRound
    <2>1. UNCHANGED <<clock, kernel, timer>> /\ cpc' = "idle"
      BY <1>9 DEF StartRound
    <2>2. iUp_NUM' \in 0..LastNumber
      BY <1>9 DEF StartRound, TypeInv
    <2>3. Midnight(now) \in Nat
      BY MidnightNat DEF SlotsInv
    <2>4. used' \subseteq Nat \X (0..LastNumber)
      BY <1>9, <2>2, <2>3 DEF StartRound, TypeInv
    <2>5. reused' \in BOOLEAN
      BY <1>9, Zenon DEF StartRound, TypeInv
    <2> QED
      BY <2>1, <2>2, <2>4, <2>5 DEF clock, kernel, timer, TypeInv
  <1>10. CASE UNCHANGED vars
    BY <1>10 DEF vars, clock, kernel, timer, cutter, history, TypeInv
  <1> QED
    BY <1>1, <1>2, <1>3, <1>4, <1>5, <1>6, <1>7, <1>8, <1>9, <1>10
       DEF Next, Timer, Cutter

LEMMA TypesCorrect == Spec => [](SlotsInv /\ UploadInv /\ TypeInv)
  BY InitSlots, StepSlots, InitUpload, StepUpload, InitTypes, StepTypes, PTL DEF Spec

(* Every variable keeps its type: the list starts from a midnight that has  *)
(* been, uploadtime is off or in the day of the list, and the queue never   *)
(* holds more than it can (main.cpp:561).                                   *)
THEOREM TimerTypes == Spec => []TypeOK
  <1>1. SlotsInv /\ UploadInv /\ TypeInv => TypeOK
    <2> SUFFICES ASSUME SlotsInv, UploadInv, TypeInv PROVE TypeOK
      OBVIOUS
    <2>1. day <= Midnight(now)
      BY LastMidnight DEF UploadInv
    <2>2. asked \subseteq Nat
      BY DEF UploadInv
    <2> QED
      BY <2>1, <2>2 DEF SlotsInv, UploadInv, TypeInv, TypeOK, Messages
  <1> QED
    BY <1>1, TypesCorrect, PTL

-----------------------------------------------------------------------------
(* The numbers of the rounds. *)

\* As many numbers as a day has slots and a restart leaves messages behind.
\* The code has 1000 and a queue of 64 messages: enough with a mergetime of
\* two minutes or more.
EnoughNumbers == QueueMax > 0 /\ QueueMax + SlotsPerDay < LastNumber

Today == Midnight(now)
NoRoundYet == \A p \in used : p[1] # Today

\* Rounds numbered since the reset, and those the messages may still begin
Backlog == iUp_NUM + Len(queue) + IF cpc = "cut" THEN 1 ELSE 0

\* A process finds at most a full queue, sends at most one "cut" for a slot
\* and one "upload" in a day
Allowed == QueueMax + flagged + IF tpc # "attach" /\ uploadtime = Off THEN 1 ELSE 0

\* "day" is the next message, and no round of today comes before it
Resetting ==
    /\ queue # <<>> /\ queue[1] = "day"
    /\ \A i \in 2..Len(queue) : queue[i] # "day"
    /\ cpc # "cut" /\ NoRoundYet

\* The number counts the rounds of today
Counting ==
    /\ \A i \in 1..Len(queue) : queue[i] # "day"
    /\ \A p \in used : p[1] = Today => p[2] \in 1..iUp_NUM
    /\ Backlog <= Allowed

\* The timer thread did not find the queue: nothing will be sent
CutOff == tpc # "attach" /\ ~attached /\ queue = <<>> /\ cpc = "idle"

\* Midnight is over and the timer thread has yet to notice
Turning ==
    /\ tpc \in {"scan", "roll"} /\ day # Today /\ flagged = SlotsPerDay
    /\ queue = <<>> /\ cpc = "idle" /\ NoRoundYet

NumbersInv ==
    /\ ~reused
    /\ \A p \in used : p[1] <= Today
    /\ tpc = "attach" => flagged = 0
    /\ \/ Turning
       \/ /\ tpc = "attach" \/ day = Today
          /\ Resetting \/ Counting \/ CutOff

TimerInv == SlotsInv /\ UploadInv /\ TypeInv

LEMMA Appended ==
    ASSUME NEW S, NEW q \in Seq(S), NEW m \in S
    PROVE  /\ Len(Append(q, m)) = Len(q) + 1 /\ Append(q, m) # <<>>
           /\ \A i \in 1..Len(q) + 1 :
                 Append(q, m)[i] = IF i <= Len(q) THEN q[i] ELSE m
  OBVIOUS

LEMMA TailOf ==
    ASSUME NEW S, NEW q \in Seq(S), q # <<>>
    PROVE  /\ Len(Tail(q)) = Len(q) - 1 /\ Len(q) \in Nat \ {0}
           /\ \A i \in 1..Len(q) - 1 : Tail(q)[i] = q[i + 1]
           /\ Head(q) = q[1]
  OBVIOUS

LEMMA SumTypes ==
    ASSUME TimerInv
    PROVE  /\ Len(queue) \in Nat /\ Len(queue) <= QueueMax
           /\ iUp_NUM \in Nat /\ flagged \in Nat /\ flagged <= SlotsPerDay
           /\ QueueMax \in Nat /\ SlotsPerDay \in Nat /\ SlotsPerDay > 0
           /\ LastNumber \in Nat
           /\ now \in Nat /\ day \in Nat /\ Today \in Nat
  <1>1. Len(queue) \in Nat /\ Len(queue) <= QueueMax
    BY DEF TimerInv, TypeInv
  <1>2. iUp_NUM \in Nat
    BY ClockAssumption DEF TimerInv, TypeInv
  <1>3. now \in Nat /\ day \in Nat /\ flagged \in 0..SlotsPerDay
    BY DEF TimerInv, SlotsInv
  <1> QED
    BY <1>1, <1>2, <1>3, SlotsPositive, MidnightNat, ClockAssumption DEF Today

LEMMA SumsAreNumbers ==
    ASSUME TimerInv
    PROVE  Backlog \in Nat /\ Allowed \in Nat
  <1>1. /\ Len(queue) \in Nat /\ iUp_NUM \in Nat
        /\ QueueMax \in Nat /\ flagged \in Nat
    BY SumTypes
  <1>2. \A i, j \in Nat : i + j + 0 \in Nat /\ i + j + 1 \in Nat
    OBVIOUS
  <1>3. Backlog \in Nat
    <2>1. CASE cpc = "cut"
      BY <1>1, <1>2, <2>1 DEF Backlog
    <2> QED
      BY <1>1, <1>2, <2>1 DEF Backlog
  <1>4. Allowed \in Nat
    <2>1. CASE tpc # "attach" /\ uploadtime = Off
      BY <1>1, <1>2, <2>1 DEF Allowed
    <2>2. CASE ~ (tpc # "attach" /\ uploadtime = Off)
      BY <1>1, <1>2, <2>2 DEF Allowed
    <2> QED
      BY <2>1, <2>2
  <1> QED
    BY <1>3, <1>4

\* A list that is flagged to the end and has the day of now ends with it
LEMMA NotOver ==
    ASSUME TimerInv, flagged = SlotsPerDay
    PROVE  /\ Midnight(now) < Merge + iter_ok => day = Today
           /\ day # Today => NewDay
  <1>1. iter_ok = Slot(day, SlotsPerDay - 1)
    BY SlotsPositive DEF TimerInv, SlotsInv
  <1>2. day \in Nat /\ now \in Nat /\ day = Midnight(day) /\ day <= now
    BY DEF TimerInv, UploadInv
  <1>3. iter_ok \in Nat /\ iter_ok + Merge + Uncovered = day + DayLen
    BY <1>1, <1>2, LastSlot
  <1>4. Uncovered \in Nat /\ Merge \in Nat /\ DayLen \in Nat
    BY SlotsOfDay, ClockAssumption, DayLenNat
  <1>5. /\ Midnight(now) \in Nat /\ day <= Midnight(now)
        /\ Midnight(Midnight(now)) = Midnight(now)
    BY <1>2, LastMidnight, MidnightOfDay
  <1>6. Midnight(now) < day + DayLen => day = Today
    <2>1. Midnight(now) < day + DayLen <=> Midnight(Midnight(now)) = day
      BY <1>2, <1>5, LastMidnight
    <2> QED
      BY <1>5, <2>1 DEF Today
  <1> QED
    BY <1>3, <1>4, <1>5, <1>6 DEF NewDay

\* A message other than "day" behind the others, or none
LEMMA SendKeeps ==
    ASSUME TimerInv, NEW m \in Messages \ {"day"},
           Resetting \/ Counting \/ CutOff,
           UNCHANGED <<now, attached, cpc, iUp_NUM, used>>,
           tpc # "attach" => tpc' # "attach",
           Allowed' \in Nat,
           \/ queue' = queue /\ Allowed <= Allowed'
           \/ attached /\ queue' = Append(queue, m) /\ Allowed + 1 <= Allowed'
    PROVE  (Resetting \/ Counting \/ CutOff)'
  <1>1. Today' = Today
    BY DEF Today, Midnight, DayLen
  <1>2. queue \in Seq(Messages) /\ m # "day" /\ m \in Messages
    BY DEF TimerInv, TypeInv
  <1>3. Backlog \in Nat /\ Len(queue) \in Nat /\ iUp_NUM \in Nat /\ Allowed \in Nat
    BY SumTypes, SumsAreNumbers
  <1>4. CASE queue' = queue /\ Allowed <= Allowed'
    <2>1. Resetting => Resetting'
      BY <1>1, <1>4 DEF Resetting, NoRoundYet
    <2>2. Backlog' = Backlog
      BY <1>4 DEF Backlog
    <2>3. Counting => Counting'
      BY <1>1, <1>3, <1>4, <2>2 DEF Counting
    <2>4. CutOff => CutOff'
      BY <1>4 DEF CutOff
    <2> QED
      BY <2>1, <2>3, <2>4
  <1>5. CASE attached /\ queue' = Append(queue, m) /\ Allowed + 1 <= Allowed'
    <2>1. /\ Len(queue') = Len(queue) + 1 /\ queue' # <<>>
          /\ \A i \in 1..Len(queue) + 1 :
                queue'[i] = IF i <= Len(queue) THEN queue[i] ELSE m
      BY <1>2, <1>5, Appended
    <2>2. Resetting => Resetting'
      <3> SUFFICES ASSUME Resetting PROVE Resetting'
        OBVIOUS
      <3>1. Len(queue) > 0
        BY <1>2 DEF Resetting
      <3>2. queue'[1] = "day"
        BY <1>3, <2>1, <3>1 DEF Resetting
      <3>3. \A i \in 2..Len(queue') : queue'[i] # "day"
        BY <1>2, <1>3, <2>1 DEF Resetting
      <3> QED
        BY <1>1, <2>1, <3>2, <3>3 DEF Resetting, NoRoundYet
    <2>3. Backlog' = Backlog + 1
      BY <1>3, <2>1 DEF Backlog
    <2>4. Counting => Counting'
      <3> SUFFICES ASSUME Counting PROVE Counting'
        OBVIOUS
      <3>1. \A i \in 1..Len(queue') : queue'[i] # "day"
        BY <1>2, <1>3, <2>1 DEF Counting
      <3>2. Backlog' <= Allowed'
        BY <1>3, <1>5, <2>3 DEF Counting
      <3> QED
        BY <1>1, <3>1, <3>2 DEF Counting
    <2>5. ~CutOff
      BY <1>5 DEF CutOff
    <2> QED
      BY <2>2, <2>4, <2>5
  <1> QED
    BY <1>4, <1>5

LEMMA InitNumbers == Init => NumbersInv
  <1> SUFFICES ASSUME Init PROVE NumbersInv
    OBVIOUS
  <1>1. ~reused
    BY Zenon DEF Init
  <1>2. Counting
    BY ClockAssumption DEF Init, Counting, Backlog, Allowed
  <1>3. used = {} /\ flagged = 0 /\ tpc = "attach"
    BY DEF Init
  <1> QED
    BY <1>1, <1>2, <1>3, Zenon DEF NumbersInv

\* The clock waits for both threads, so no message is left when a day ends
LEMMA TickNumbers ==
    ASSUME TimerInv, NumbersInv, prompt, Tick
    PROVE  NumbersInv'
  <1>1. Settled /\ now' = now + 1
    BY DEF Tick
  <1>2. /\ UNCHANGED <<queue, day, flagged, tpc, attached, uploadtime>>
        /\ UNCHANGED <<cpc, iUp_NUM, used, reused>>
    BY DEF Tick, kernel, timer, cutter, history
  <1>3. /\ cpc = "idle" /\ queue = <<>> /\ tpc = "scan" /\ flagged = Due
        /\ flagged = SlotsPerDay => Midnight(now) < Merge + iter_ok
    BY <1>1 DEF Settled
  <1>4. ~Turning
    BY <1>3, NotOver DEF Turning
  <1>5. day = Today /\ (Counting \/ CutOff)
    BY <1>3, <1>4 DEF NumbersInv, Resetting
  <1>6. now \in Nat /\ day \in Nat /\ Today \in Nat
    BY SumTypes
  <1>7. Midnight(day) = day /\ day <= now
    BY DEF TimerInv, UploadInv
  <1>8. /\ Midnight(now') \in Nat /\ day <= Midnight(now')
        /\ now' < day + DayLen <=> Midnight(now') = day
    <2>1. now' \in Nat /\ day <= now'
      BY <1>1, <1>6, <1>7
    <2> QED
      BY <1>6, <1>7, <2>1, LastMidnight, MidnightNat
  <1>9. Today' = Midnight(now')
    BY DEF Today, Midnight, DayLen
  <1>10. \A p \in used : p[1] \in Nat /\ p[1] <= day
    BY <1>5 DEF NumbersInv, TimerInv, TypeInv
  <1>11. \A p \in used' : p[1] <= Today'
    BY <1>2, <1>6, <1>8, <1>9, <1>10
  <1>12. ~reused' /\ tpc' # "attach"
    BY <1>2, <1>3 DEF NumbersInv
  <1>13. CASE Today' = day
    <2>1. Today' = Today
      BY <1>5, <1>13
    <2>2. Backlog' = Backlog /\ Allowed' = Allowed
      BY <1>2 DEF Backlog, Allowed
    <2>3. Counting => Counting'
      BY <1>2, <2>1, <2>2 DEF Counting
    <2>4. CutOff => CutOff'
      BY <1>2 DEF CutOff
    <2>5. day' = Today'
      BY <1>2, <1>13
    <2> QED
      BY <1>5, <1>11, <1>12, <2>3, <2>4, <2>5 DEF NumbersInv
  <1>14. CASE Today' # day
    <2>1. NoRoundYet'
      <3>1. day < Midnight(now')
        BY <1>6, <1>8, <1>9, <1>14
      <3> QED
        BY <1>2, <1>6, <1>8, <1>9, <1>10, <3>1 DEF NoRoundYet
    <2>2. now >= day + DayLen - 1
      BY <1>1, <1>6, <1>8, <1>9, <1>14, DayLenNat
    <2>3. flagged = SlotsPerDay
      <3>1. flagged = Cardinality(DueSlots(day, now))
        BY <1>3 DEF Due, DueSlots
      <3>2. flagged \in Nat /\ flagged <= SlotsPerDay /\ SlotsPerDay \in Nat
        BY SumTypes
      <3>3. SUFFICES ASSUME flagged < SlotsPerDay PROVE FALSE
        BY <3>2
      <3>4. now < Slot(day, flagged)
        BY <1>6, <3>1, <3>3, NextNotDue
      <3>5. flagged <= SlotsPerDay - 1 /\ SlotsPerDay - 1 \in Nat
        BY <3>2, <3>3
      <3>6. /\ Slot(day, flagged) \in Nat
            /\ Slot(day, flagged) <= Slot(day, SlotsPerDay - 1)
        BY <1>6, <3>2, <3>5, SlotsInOrder
      <3>7. /\ Slot(day, SlotsPerDay - 1) \in Nat
            /\ Slot(day, SlotsPerDay - 1) + Merge + Uncovered = day + DayLen
        BY <1>6, LastSlot
      <3>8. Uncovered \in Nat /\ Merge \in Nat \ {0} /\ DayLen \in Nat
        BY SlotsOfDay, ClockAssumption, DayLenNat
      <3> QED
        BY <1>6, <2>2, <3>4, <3>6, <3>7, <3>8
    <2>4. Turning'
      BY <1>2, <1>3, <1>14, <2>1, <2>3 DEF Turning, SlotsPerDay
    <2> QED
      BY <1>11, <1>12, <2>4 DEF NumbersInv
  <1> QED
    BY <1>13, <1>14

\* The next process numbers from 0 and finds what is left in the queue
LEMMA CrashNumbers ==
    ASSUME TimerInv, NumbersInv, Crash
    PROVE  NumbersInv'
  <1>1. /\ UNCHANGED <<now, queue, reused>>
        /\ tpc' = "attach" /\ flagged' = 0 /\ uploadtime' = Off
        /\ cpc' = "attach" /\ iUp_NUM' = 0 /\ used' = {}
    BY DEF Crash, StartProcess, kernel
  <1>2. Resetting => Resetting'
    BY <1>1 DEF Resetting, NoRoundYet
  <1>3. (\A i \in 1..Len(queue) : queue[i] # "day") => Counting'
    <2>1. Backlog' <= Allowed'
      BY <1>1, SumTypes DEF Backlog, Allowed
    <2> QED
      BY <1>1, <2>1 DEF Counting
  <1>4. Turning \/ CutOff => Counting'
    <2>1. queue = <<>> => \A i \in 1..Len(queue) : queue[i] # "day"
      OBVIOUS
    <2> QED
      BY <1>3, <2>1 DEF Turning, CutOff
  <1>5. Counting => Counting'
    BY <1>3 DEF Counting
  <1>6. Resetting' \/ Counting'
    BY <1>2, <1>4, <1>5 DEF NumbersInv
  <1> QED
    BY <1>1, <1>6 DEF NumbersInv

LEMMA AttachNumbers ==
    ASSUME TimerInv, NumbersInv, Attach
    PROVE  NumbersInv'
  <1>1. /\ UNCHANGED <<now, queue, cpc, iUp_NUM, used, reused>>
        /\ tpc = "attach" /\ tpc' = "scan" /\ flagged' = 0
        /\ day' = Today /\ uploadtime' = Today + UploadAt
    BY DEF Attach, clock, kernel, cutter, history, Today
  <1>2. Today' = Today
    BY <1>1 DEF Today, Midnight, DayLen
  <1>3. uploadtime' # Off
    BY <1>1, SumTypes, ClockAssumption DEF Off
  <1>4. Resetting \/ Counting
    BY <1>1 DEF NumbersInv, Turning, CutOff
  <1>5. Resetting => Resetting'
    BY <1>1, <1>2 DEF Resetting, NoRoundYet
  <1>6. Counting => Counting'
    <2>1. flagged = 0
      BY <1>1 DEF NumbersInv
    <2>2. Allowed' = Allowed /\ Backlog' = Backlog
      BY <1>1, <1>3, <2>1 DEF Allowed, Backlog
    <2> QED
      BY <1>1, <1>2, <2>2 DEF Counting
  <1> QED
    BY <1>1, <1>2, <1>4, <1>5, <1>6 DEF NumbersInv

LEMMA ScanNumbers ==
    ASSUME TimerInv, NumbersInv, Scan
    PROVE  NumbersInv'
  <1>1. /\ UNCHANGED <<now, attached, day, uploadtime, cpc, iUp_NUM, used, reused>>
        /\ tpc = "scan" /\ tpc' = "roll" /\ flagged' = Due
    BY DEF Scan, clock, cutter, history
  <1>2. Today' = Today
    BY <1>1 DEF Today, Midnight, DayLen
  <1>3. Due \in Nat /\ flagged <= Due /\ Due <= SlotsPerDay
    <2>1. Due \in 0..SlotsPerDay
      BY DueBound DEF Due, DueSlots
    <2> QED
      BY <2>1, SlotsPositive DEF TimerInv, SlotsInv
  <1>4. \/ queue' = queue
        \/ attached /\ queue' = Append(queue, "cut") /\ flagged < Due
    BY DEF Scan, Send
  <1>5. CASE Turning
    <2>1. flagged' = flagged
      BY <1>1, <1>3, <1>5, SumTypes DEF Turning
    <2>2. queue' = queue
      BY <1>1, <2>1, SumTypes DEF Scan
    <2>3. Turning'
      BY <1>1, <1>2, <1>5, <2>1, <2>2 DEF Turning, NoRoundYet, SlotsPerDay
    <2> QED
      BY <1>1, <1>2, <2>3 DEF NumbersInv
  <1>6. CASE ~Turning
    <2>1. day = Today /\ (Resetting \/ Counting \/ CutOff)
      BY <1>1, <1>6 DEF NumbersInv
    <2>2. /\ Allowed' \in Nat /\ Allowed <= Allowed'
          /\ flagged < Due => Allowed + 1 <= Allowed'
      <3> DEFINE extra == IF tpc # "attach" /\ uploadtime = Off THEN 1 ELSE 0
      <3>1. extra \in {0, 1} /\ extra' = extra
        BY <1>1
      <3>2. Allowed = QueueMax + flagged + extra /\ Allowed' = QueueMax + Due + extra
        BY <1>1, <3>1 DEF Allowed
      <3> HIDE DEF extra
      <3>3. QueueMax \in Nat /\ flagged \in Nat
        BY SumTypes
      <3> QED
        BY <1>3, <3>1, <3>2, <3>3
    <2>3. \/ queue' = queue /\ Allowed <= Allowed'
          \/ attached /\ queue' = Append(queue, "cut") /\ Allowed + 1 <= Allowed'
      BY <1>4, <2>2
    <2>4. (Resetting \/ Counting \/ CutOff)'
      <3>1. "cut" \in Messages \ {"day"}
        BY DEF Messages
      <3>2. UNCHANGED <<now, attached, cpc, iUp_NUM, used>>
            /\ (tpc # "attach" => tpc' # "attach")
        BY <1>1
      <3> QED
        BY <2>1, <2>2, <2>3, <3>1, <3>2, SendKeeps
    <2> QED
      BY <1>1, <1>2, <2>1, <2>4 DEF NumbersInv
  <1> QED
    BY <1>5, <1>6

LEMMA RollNumbers ==
    ASSUME TimerInv, NumbersInv, Roll, EnoughNumbers
    PROVE  NumbersInv'
  <1>1. /\ UNCHANGED <<now, attached, cpc, iUp_NUM, used, reused>>
        /\ tpc = "roll" /\ tpc' = "ask"
    BY DEF Roll, clock, cutter, history
  <1>2. Today' = Today
    BY <1>1 DEF Today, Midnight, DayLen
  <1>3. CASE Turning
    <2>1. NewDay
      BY <1>3, NotOver DEF Turning
    <2>2. /\ day' = Today
          /\ queue' = IF attached /\ Len(queue) < QueueMax
                      THEN Append(queue, "day") ELSE queue
      BY <2>1 DEF Roll, Send, Today
    <2>3. CASE attached
      <3>1. queue' = <<"day">>
        BY <1>3, <2>2, <2>3, SumTypes DEF EnoughNumbers, Turning
      <3>2. Resetting'
        BY <1>1, <1>2, <1>3, <3>1 DEF Resetting, Turning, NoRoundYet
      <3> QED
        BY <1>1, <1>2, <2>2, <3>2 DEF NumbersInv
    <2>4. CASE ~attached
      <3>1. CutOff'
        BY <1>1, <1>3, <2>2, <2>4 DEF CutOff, Turning
      <3> QED
        BY <1>1, <1>2, <2>2, <3>1 DEF NumbersInv
    <2> QED
      BY <2>3, <2>4
  <1>4. CASE ~Turning
    <2>1. day = Today /\ (Resetting \/ Counting \/ CutOff)
      BY <1>1, <1>4 DEF NumbersInv
    <2>2. ~NewDay
      <3>1. NewDay => day < Midnight(now)
        BY NewDayIsLater DEF TimerInv
      <3> QED
        BY <2>1, <3>1, SumTypes DEF Today
    <2>3. UNCHANGED <<day, flagged, uploadtime, queue>>
      BY <2>2 DEF Roll
    <2>4. Allowed' \in Nat /\ Allowed <= Allowed'
      BY <1>1, <2>3, SumTypes DEF Allowed
    <2>5. (Resetting \/ Counting \/ CutOff)'
      <3>1. "cut" \in Messages \ {"day"}
        BY DEF Messages
      <3>2. UNCHANGED <<now, attached, cpc, iUp_NUM, used>>
            /\ (tpc # "attach" => tpc' # "attach")
        BY <1>1
      <3> QED
        BY <2>1, <2>3, <2>4, <3>1, <3>2, SendKeeps
    <2> QED
      BY <1>1, <1>2, <2>1, <2>3, <2>5 DEF NumbersInv
  <1> QED
    BY <1>3, <1>4

LEMMA AskNumbers ==
    ASSUME TimerInv, NumbersInv, AskUpload
    PROVE  NumbersInv'
  <1>1. /\ UNCHANGED <<now, attached, day, flagged, cpc, iUp_NUM, used, reused>>
        /\ tpc = "ask" /\ tpc' = "scan"
    BY DEF AskUpload, clock, cutter
  <1>2. Today' = Today
    BY <1>1 DEF Today, Midnight, DayLen
  <1>3. day = Today /\ (Resetting \/ Counting \/ CutOff)
    BY <1>1 DEF NumbersInv, Turning
  <1>4. \/ UNCHANGED <<queue, uploadtime>>
        \/ /\ uploadtime # Off /\ uploadtime' = Off
           /\ \/ queue' = queue
              \/ attached /\ queue' = Append(queue, "upload")
    BY DEF AskUpload, Send
  <1>5. /\ Allowed' \in Nat /\ Allowed <= Allowed'
        /\ uploadtime # Off /\ uploadtime' = Off => Allowed + 1 <= Allowed'
    <2> DEFINE extra == IF tpc # "attach" /\ uploadtime = Off THEN 1 ELSE 0
    <2>1. /\ extra \in {0, 1} /\ extra' \in {0, 1}
          /\ uploadtime = Off => uploadtime' = Off
          /\ extra = IF uploadtime = Off THEN 1 ELSE 0
          /\ extra' = IF uploadtime' = Off THEN 1 ELSE 0
      BY <1>1, <1>4
    <2>2. Allowed = QueueMax + flagged + extra /\ Allowed' = QueueMax + flagged + extra'
      BY <1>1 DEF Allowed
    <2> HIDE DEF extra
    <2>3. QueueMax \in Nat /\ flagged \in Nat
      BY SumTypes
    <2> QED
      BY <2>1, <2>2, <2>3
  <1>6. \/ queue' = queue /\ Allowed <= Allowed'
        \/ attached /\ queue' = Append(queue, "upload") /\ Allowed + 1 <= Allowed'
    BY <1>4, <1>5
  <1>7. (Resetting \/ Counting \/ CutOff)'
    <2>1. "upload" \in Messages \ {"day"}
      BY DEF Messages
    <2>2. UNCHANGED <<now, attached, cpc, iUp_NUM, used>>
          /\ (tpc # "attach" => tpc' # "attach")
      BY <1>1
    <2> QED
      BY <1>3, <1>5, <1>6, <2>1, <2>2, SendKeeps
  <1> QED
    BY <1>1, <1>2, <1>3, <1>7 DEF NumbersInv

LEMMA CreateNumbers ==
    ASSUME TimerInv, NumbersInv, Create
    PROVE  NumbersInv'
  <1>1. /\ UNCHANGED <<now, attached, day, flagged, uploadtime, tpc>>
        /\ UNCHANGED <<queue, iUp_NUM, used, reused>>
        /\ cpc = "attach" /\ cpc' = "idle"
    BY DEF Create, clock, timer, history
  <1>2. Today' = Today
    BY <1>1 DEF Today, Midnight, DayLen
  <1>3. (tpc = "attach" \/ day = Today) /\ (Resetting \/ Counting)
    BY <1>1 DEF NumbersInv, Turning, CutOff
  <1>4. Resetting => Resetting'
    BY <1>1, <1>2 DEF Resetting, NoRoundYet
  <1>5. Backlog' = Backlog /\ Allowed' = Allowed
    BY <1>1 DEF Backlog, Allowed
  <1>6. Counting => Counting'
    BY <1>1, <1>2, <1>5 DEF Counting
  <1> QED
    BY <1>1, <1>2, <1>3, <1>4, <1>6 DEF NumbersInv

\* "day" begins the numbers again before the first round of its day
LEMMA ReceiveNumbers ==
    ASSUME TimerInv, NumbersInv, Receive
    PROVE  NumbersInv'
  <1>1. /\ UNCHANGED <<now, attached, day, flagged, uploadtime, tpc, used, reused>>
        /\ cpc = "idle" /\ queue # <<>> /\ queue' = Tail(queue)
    BY DEF Receive, clock, timer, history
  <1>2. Today' = Today
    BY <1>1 DEF Today, Midnight, DayLen
  <1>3. (tpc = "attach" \/ day = Today) /\ (Resetting \/ Counting)
    BY <1>1 DEF NumbersInv, Turning, CutOff
  <1>4. queue \in Seq(Messages)
    BY DEF TimerInv, TypeInv
  <1>5. /\ Len(queue') = Len(queue) - 1 /\ Len(queue) \in Nat \ {0}
        /\ \A i \in 1..Len(queue) - 1 : queue'[i] = queue[i + 1]
        /\ Head(queue) = queue[1]
    BY <1>1, <1>4, TailOf
  <1>6. Counting'
    <2>1. CASE Resetting
      <3>1. iUp_NUM' = 0 /\ cpc' = "idle"
        BY <1>5, <2>1 DEF Receive, Resetting
      <3>2. \A i \in 1..Len(queue') : queue'[i] # "day"
        BY <1>5, <2>1 DEF Resetting
      <3>3. Backlog' <= Allowed'
        BY <1>1, <1>5, <3>1, SumTypes DEF Backlog, Allowed
      <3> QED
        BY <1>1, <1>2, <2>1, <3>2, <3>3 DEF Counting, Resetting, NoRoundYet
    <2>2. CASE Counting
      <3>1. iUp_NUM' = iUp_NUM /\ cpc' \in {"cut", "idle"}
        BY <1>5, <2>2 DEF Receive, Counting
      <3>2. \A i \in 1..Len(queue') : queue'[i] # "day"
        BY <1>5, <2>2 DEF Counting
      <3>3. Backlog' <= Backlog /\ Backlog \in Nat /\ Backlog' \in Nat
        <4>1. PICK n \in Nat : Len(queue) = n + 1 /\ Len(queue') = n
          BY <1>5
        <4>2. iUp_NUM \in Nat /\ iUp_NUM' = iUp_NUM
          BY <3>1, SumTypes
        <4>3. /\ Backlog = iUp_NUM + n + 1
              /\ Backlog' = iUp_NUM + n + IF cpc' = "cut" THEN 1 ELSE 0
          BY <1>1, <4>1, <4>2 DEF Backlog
        <4>4. Backlog' \in {iUp_NUM + n, iUp_NUM + n + 1}
          BY <4>2, <4>3
        <4> QED
          BY ONLY <4>2, <4>3, <4>4
      <3>4. Allowed' = Allowed /\ Allowed \in Nat
        BY <1>1, SumTypes DEF Allowed
      <3>5. Backlog' <= Allowed'
        BY <2>2, <3>3, <3>4 DEF Counting
      <3> QED
        BY <1>1, <1>2, <2>2, <3>1, <3>2, <3>5 DEF Counting
    <2> QED
      BY <1>3, <2>1, <2>2
  <1> QED
    BY <1>1, <1>2, <1>3, <1>6 DEF NumbersInv

\* There is a number left for the round, and no round of today has it
LEMMA RoundNumbers ==
    ASSUME TimerInv, NumbersInv, StartRound, EnoughNumbers
    PROVE  NumbersInv'
  <1>1. /\ UNCHANGED <<now, attached, day, flagged, uploadtime, tpc, queue>>
        /\ cpc = "cut" /\ cpc' = "idle"
    BY DEF StartRound, clock, kernel, timer
  <1>2. Today' = Today
    BY <1>1 DEF Today, Midnight, DayLen
  <1>3. (tpc = "attach" \/ day = Today) /\ Counting
    BY <1>1 DEF NumbersInv, Turning, CutOff, Resetting
  <1>4. iUp_NUM + 1 <= LastNumber
    <2>1. Allowed <= QueueMax + SlotsPerDay + 1 /\ Allowed \in Nat
      BY SumTypes DEF Allowed
    <2>2. iUp_NUM + 1 <= Backlog /\ Backlog \in Nat
      BY <1>1, SumTypes DEF Backlog
    <2> QED
      BY <1>3, <2>1, <2>2, SumTypes DEF Counting, EnoughNumbers
  <1>5. \/ UNCHANGED <<iUp_NUM, used, reused>>
        \/ /\ iUp_NUM' = iUp_NUM + 1
           /\ used' = used \cup {<<Today, iUp_NUM + 1>>}
           /\ reused' = (reused \/ <<Today, iUp_NUM + 1>> \in used)
    BY <1>4, SumTypes DEF StartRound, Today
  <1>6. Backlog' <= Allowed'
    <2>1. Allowed' = Allowed /\ Allowed \in Nat
      BY <1>1, SumTypes DEF Allowed
    <2>2. Backlog' <= Backlog /\ Backlog \in Nat /\ Backlog' \in Nat
      <3>1. PICK n \in Nat : n = Len(queue)
        BY SumTypes
      <3>2. iUp_NUM \in Nat /\ iUp_NUM' \in Nat /\ iUp_NUM' <= iUp_NUM + 1
        BY <1>5, SumTypes
      <3>3. Backlog = iUp_NUM + n + 1 /\ Backlog' = iUp_NUM' + n
        BY <1>1, <3>1, <3>2 DEF Backlog
      <3> QED
        <4>1. \A i, j, k \in Nat : j <= i + 1 =>
                  j + k <= i + k + 1 /\ i + k + 1 \in Nat /\ j + k \in Nat
          OBVIOUS
        <4> QED
          BY <3>2, <3>3, <4>1
    <2> QED
      BY <1>3, <2>1, <2>2 DEF Counting
  <1>7. \A p \in used : p[1] = Today => p[2] \in 1..iUp_NUM
    BY <1>3 DEF Counting
  <1>8. <<Today, iUp_NUM + 1>> \notin used
    BY <1>7, SumTypes
  <1>9. ~reused'
    BY <1>5, <1>8, Zenon DEF NumbersInv
  <1>10. \A p \in used' : p[1] = Today => p[2] \in 1..iUp_NUM'
    <2>1. CASE UNCHANGED <<iUp_NUM, used>>
      BY <1>7, <2>1
    <2>2. CASE iUp_NUM' = iUp_NUM + 1 /\ used' = used \cup {<<Today, iUp_NUM + 1>>}
      BY <1>7, <2>2, SumTypes
    <2> QED
      BY <1>5, <2>1, <2>2
  <1>11. \A p \in used' : p[1] <= Today
    BY <1>5, SumTypes DEF NumbersInv
  <1>12. Counting'
    BY <1>1, <1>2, <1>3, <1>6, <1>10 DEF Counting
  <1> QED
    BY <1>1, <1>2, <1>3, <1>9, <1>11, <1>12 DEF NumbersInv

\* With threads that keep up with the clock
LEMMA StepNumbers ==
    EnoughNumbers =>
        (TimerInv /\ (prompt => NumbersInv) /\ [Next]_vars => (prompt => NumbersInv)')
  <1> SUFFICES ASSUME EnoughNumbers, TimerInv, prompt => NumbersInv, [Next]_vars,
                      prompt'
               PROVE  NumbersInv'
    OBVIOUS
  <1>1. prompt' = prompt
    BY DEF Next, Timer, Cutter, Tick, Crash, Attach, Scan, Roll, AskUpload,
           Create, Receive, StartRound, vars, clock
  <1>2. prompt /\ NumbersInv
    BY <1>1
  <1>3. CASE Next
    BY <1>2, <1>3, TickNumbers, CrashNumbers, AttachNumbers, ScanNumbers, RollNumbers,
       AskNumbers, CreateNumbers, ReceiveNumbers, RoundNumbers DEF Next, Timer, Cutter
  <1>4. CASE UNCHANGED vars
    <2>1. UNCHANGED <<now, queue, day, flagged, tpc, attached, uploadtime, cpc,
                      iUp_NUM, used, reused>>
      BY <1>4 DEF vars, clock, kernel, timer, cutter, history
    <2>2. Today' = Today
      BY <2>1 DEF Today, Midnight, DayLen
    <2>3. Backlog' = Backlog /\ Allowed' = Allowed
      BY <2>1 DEF Backlog, Allowed
    <2>4. /\ Turning => Turning'
          /\ Resetting => Resetting'
          /\ Counting => Counting'
          /\ CutOff => CutOff'
      BY <2>1, <2>2, <2>3
         DEF Turning, Resetting, Counting, CutOff, NoRoundYet, SlotsPerDay
    <2> QED
      BY <1>2, <2>1, <2>2, <2>4 DEF NumbersInv
  <1> QED
    BY <1>3, <1>4

(* With EnoughNumbers, no two rounds of a process get the same date and     *)
(* upload number, however little the queue holds and however often the      *)
(* process is started again in the middle of a day: "day" is the first      *)
(* message of its day and finds no round of it (main.cpp:652, 858).  A      *)
(* mergetime of one minute does not satisfy EnoughNumbers: 1440 slots and   *)
(* 1000 numbers.                                                            *)
THEOREM NumbersAreUnique == EnoughNumbers => (Spec => []UploadNumbersUnique)
  <1> SUFFICES ASSUME EnoughNumbers PROVE Spec => []UploadNumbersUnique
    OBVIOUS
  <1>1. Init => (prompt => NumbersInv)
    BY InitNumbers
  <1>2. TimerInv /\ (prompt => NumbersInv) /\ [Next]_vars => (prompt => NumbersInv)'
    BY StepNumbers
  <1>3. Spec => []TimerInv
    BY TypesCorrect DEF TimerInv
  <1>4. (prompt => NumbersInv) => UploadNumbersUnique
    BY DEF NumbersInv, UploadNumbersUnique
  <1> QED
    BY <1>1, <1>2, <1>3, <1>4, PTL DEF Spec
=============================================================================
