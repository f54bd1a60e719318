------------------------------ MODULE SysTimer ------------------------------
(***************************************************************************)
(* The clock of the control server: system_timer_func sends "cut" for the  *)
(* merge slots of the day, "day" when a new day begins and "upload" once a *)
(* day, through System V queue 1234, to send_media_func, which numbers the *)
(* rounds of cutting.                                                      *)
(*                                                                         *)
(* The two threads start in any order and run at their own pace; the queue *)
(* drops what does not fit (IPC_NOWAIT) and outlives the process.          *)
(***************************************************************************)
EXTENDS Integers, Sequences, FiniteSets

CONSTANTS
    Hours,      \* hours of a day (24)
    Hour,       \* clock units of an hour (60 minutes)
    Merge,      \* mergetime of setting.conf, in the same units
    UploadAt,   \* uploadtime of setting.conf, from midnight
    LastNumber, \* largest upload number (999)
    QueueMax,   \* messages the queue holds
    Paces,      \* {TRUE}: both threads keep up with the clock; {FALSE}: need not
    Crashes,    \* bound: crashes of the process
    LastTime    \* bound: the clock stops here

ASSUME ClockAssumption ==
    /\ Hours \in Nat \ {0} /\ Hour \in Nat \ {0}
    /\ Merge \in 1..Hour          \* 0 divides by zero, more leaves no slot
    /\ UploadAt \in 0..Hours * Hour - 1
    /\ LastNumber \in Nat /\ QueueMax \in Nat /\ Paces \subseteq BOOLEAN
    /\ Crashes \in Nat /\ LastTime \in Nat

DayLen == Hours * Hour
\* Mutant: the list is one slot short
SlotsLessOne == Hours * (Hour \div Merge) - 1
SlotsPerDay == Hours * (Hour \div Merge)
Midnight(t) == DayLen * (t \div DayLen)      \* get_stdday_time() at time t
Slot(day, i) == day + i * Merge              \* _elems.secs of the i-th slot
Undefined == -1                              \* iter_ok points to no slot
Off == -1                                    \* uploadtime is 0: sent already

VARIABLES
    now,         \* the wall clock
    prompt,      \* both threads are done with an instant before the next one
    crashes,     \* crashes so far
    exists,      \* the queue has been created
    queue,       \* its messages
    tpc,         \* timer thread: where it is
    attached,    \* timer thread: msgget found the queue
    day,         \* timer thread: the midnight its list of slots starts from
    flagged,     \* timer thread: slots with flag set, always the first ones
    iter_ok,     \* timer thread: time of the slot iter_ok points to
    uploadtime,  \* timer thread
    cpc,         \* cut thread: where it is
    iUp_NUM,
    used,        \* history: (date, number) pairs of the rounds since the start
    reused,      \* history: a pair was used again
    asked        \* history: midnights of the days an upload was sent for since then

clock == <<now, prompt, crashes>>
timer == <<tpc, attached, day, flagged, iter_ok, uploadtime>>
cutter == <<cpc, iUp_NUM>>
kernel == <<exists, queue>>
history == <<used, reused, asked>>
vars == <<clock, kernel, timer, cutter, history>>

Due == Cardinality({i \in 0..SlotsPerDay - 1 : Slot(day, i) <= now})
-----------------------------------------------------------------------------
StartProcess ==
    /\ tpc' = "attach" /\ attached' = FALSE
    /\ day' = 0 /\ flagged' = 0 /\ iter_ok' = Undefined /\ uploadtime' = Off
    /\ cpc' = "attach" /\ iUp_NUM' = 0

Init ==
    /\ now = 0 /\ prompt \in Paces /\ crashes = 0
    /\ exists \in BOOLEAN        \* left behind by an earlier process, or not
    /\ queue = <<>>
    /\ tpc = "attach" /\ attached = FALSE
    /\ day = 0 /\ flagged = 0 /\ iter_ok = Undefined /\ uploadtime = Off
    /\ cpc = "attach" /\ iUp_NUM = 0
    /\ used = {} /\ reused = FALSE /\ asked = {}

\* One loop of either thread takes seconds, a slot lasts minutes
Settled ==
    /\ cpc = "idle" /\ queue = <<>>
    /\ tpc = "scan" /\ flagged = Due
    /\ uploadtime = Off \/ now < uploadtime
    /\ flagged = SlotsPerDay => Midnight(now) < Merge + iter_ok

Tick ==
    /\ now < LastTime
    /\ prompt => Settled
    /\ now' = now + 1
    /\ UNCHANGED <<prompt, crashes, kernel, timer, cutter, history>>

Crash ==
    /\ crashes < Crashes
    /\ crashes' = crashes + 1
    /\ StartProcess
    /\ used' = {} /\ asked' = {}
    /\ UNCHANGED <<now, prompt, kernel, reused>>

\* Mutants: no limit; only into an empty queue
SendAlways(m) == queue' = IF attached THEN Append(queue, m) ELSE queue
SendIfEmpty(m) == queue' = IF attached /\ queue = <<>> THEN <<m>> ELSE queue
\* msgsnd(..., IPC_NOWAIT): lost when the queue is full, or was not found
Send(m) == queue' = IF attached /\ Len(queue) < QueueMax
                    THEN Append(queue, m) ELSE queue
-----------------------------------------------------------------------------
(* system_timer_func *)

\* msgget(1234, IPC_EXCL) finds the queue and never creates it; then the list
\* of today's slots is filled
Attach ==
    /\ tpc = "attach"
    /\ attached' = exists
    /\ day' = Midnight(now) /\ flagged' = 0
    /\ uploadtime' = day' + UploadAt
    /\ tpc' = "scan"
    /\ UNCHANGED <<clock, kernel, iter_ok, cutter, history>>

\* Mutant: iter_ok is the first of the new slots
ScanFirst ==
    /\ tpc = "scan"
    /\ flagged' = Due
    /\ IF flagged' > flagged
       THEN iter_ok' = Slot(day, flagged) /\ Send("cut")
       ELSE UNCHANGED <<iter_ok, queue>>
    /\ tpc' = "roll"
    /\ UNCHANGED <<clock, exists, attached, day, uploadtime, cutter, history>>

\* flag every slot whose time has come; one "cut" for all of them
Scan ==
    /\ tpc = "scan"
    /\ flagged' = Due
    /\ IF flagged' > flagged
       THEN iter_ok' = Slot(day, flagged' - 1) /\ Send("cut")
       ELSE UNCHANGED <<iter_ok, queue>>
    /\ tpc' = "roll"
    /\ UNCHANGED <<clock, exists, attached, day, uploadtime, cutter, history>>

\* Mutant: the time is not tested
AllFlagged == flagged = SlotsPerDay

\* all slots are flagged and a new day has begun: refill the list.  iter_ok
\* keeps pointing into the list that was cleared.
NewDay == flagged = SlotsPerDay /\ Midnight(now) >= Merge + iter_ok

Roll ==
    /\ tpc = "roll"
    /\ IF NewDay
       THEN /\ day' = Midnight(now)
            /\ flagged' = 0
            /\ iter_ok' = Undefined
            /\ uploadtime' = day' + UploadAt
            /\ Send("day")
       ELSE UNCHANGED <<day, flagged, iter_ok, uploadtime, queue>>
    /\ tpc' = "ask"
    /\ UNCHANGED <<clock, exists, attached, cutter, history>>

AskUpload ==
    /\ tpc = "ask"
    /\ IF uploadtime # Off /\ now >= uploadtime
       THEN /\ uploadtime' = Off
            /\ Send("upload")
            /\ asked' = asked \cup {Midnight(uploadtime)}
       ELSE UNCHANGED <<uploadtime, queue, asked>>
    /\ tpc' = "scan"
    /\ UNCHANGED <<clock, exists, attached, day, flagged, iter_ok, cutter,
                   used, reused>>
-----------------------------------------------------------------------------
(* send_media_func *)

\* msgget(1234, IPC_CREAT|0666)
Create ==
    /\ cpc = "attach"
    /\ exists' = TRUE
    /\ cpc' = "idle"
    /\ UNCHANGED <<clock, queue, timer, iUp_NUM, history>>

\* Mutant: the number starts again on "upload"
ReceiveUploadResets ==
    /\ cpc = "idle"
    /\ queue # <<>>
    /\ queue' = Tail(queue)
    /\ iUp_NUM' = IF Head(queue) = "upload" THEN 0 ELSE iUp_NUM
    /\ cpc' = IF Head(queue) = "cut" THEN "cut" ELSE "idle"
    /\ UNCHANGED <<clock, exists, timer, history>>

\* "upload" sets the flag of module Dispatch
Receive ==
    /\ cpc = "idle"
    /\ queue # <<>>
    /\ queue' = Tail(queue)
    /\ iUp_NUM' = IF Head(queue) = "day" THEN 0 ELSE iUp_NUM
    /\ cpc' = IF Head(queue) = "cut" THEN "cut" ELSE "idle"
    /\ UNCHANGED <<clock, exists, timer, history>>

\* assignwork gives the round the next number and today's date, if there is
\* any server at all; its other half is in the modules Dispatch and CutRound
StartRound ==
    /\ cpc = "cut"
    /\ \/ UNCHANGED <<iUp_NUM, used, reused>>
       \/ /\ iUp_NUM' = IF iUp_NUM + 1 > LastNumber THEN 0 ELSE iUp_NUM + 1
          /\ LET pair == <<Midnight(now), iUp_NUM'>>
             IN  used' = used \cup {pair} /\ reused' = (reused \/ pair \in used)
    /\ cpc' = "idle"
    /\ UNCHANGED <<clock, kernel, timer, asked>>
-----------------------------------------------------------------------------
Timer == Attach \/ Scan \/ Roll \/ AskUpload
Cutter == Create \/ Receive \/ StartRound
Next == Tick \/ Crash \/ Timer \/ Cutter
Spec == Init /\ [][Next]_vars

(* Both threads are endless loops that block on nothing (sleep(1) and       *)
(* IPC_NOWAIT), and the clock does not stop.                                *)
FairSpec == Spec /\ WF_vars(Timer) /\ WF_vars(Cutter) /\ WF_vars(Tick)
-----------------------------------------------------------------------------
(* Type invariant.  The list of slots starts at a midnight that has been,   *)
(* and uploadtime is off or lies in the day of the list.                    *)
TypeOK ==
    /\ now \in 0..LastTime /\ prompt \in Paces /\ crashes \in 0..Crashes
    /\ exists \in BOOLEAN /\ attached \in BOOLEAN /\ (attached => exists)
    /\ queue \in Seq({"cut", "day", "upload"}) /\ Len(queue) <= QueueMax
    /\ tpc \in {"attach", "scan", "roll", "ask"}
    /\ day \in Nat /\ day <= Midnight(now)
    /\ flagged \in 0..SlotsPerDay
    /\ iter_ok \in Nat \cup {Undefined}
    /\ uploadtime \in {Off, day + UploadAt}
    /\ cpc \in {"attach", "idle", "cut"}
    /\ iUp_NUM \in 0..LastNumber
    /\ used \subseteq Nat \X (0..LastNumber)
    /\ reused \in BOOLEAN
    /\ asked \subseteq Nat

(* The test for a new day (main.cpp:650) reads *iter_ok, a local that       *)
(* nothing initialises and that points into the old list after a refill:    *)
(* when the test gets that far a slot of this list has been flagged.        *)
IterOkDefined ==
    tpc = "roll" /\ flagged = SlotsPerDay => iter_ok = Slot(day, SlotsPerDay - 1)

(* The list of slots, the upload time and the upload number start again     *)
(* only when a later day has begun, however late the timer thread is.       *)
RollsForward ==
    [][tpc = "roll" /\ tpc' = "ask" /\ flagged' # flagged
          => day' > day /\ flagged = SlotsPerDay]_vars

(* No two rounds of cutting give the media servers the same date and upload *)
(* number: the reset on "day" and the wrap of iUp_NUM never meet a round of *)
(* the same day that still has the number.  It takes threads that keep up   *)
(* with the clock, and a restart begins the numbers of the day again.       *)
UploadNumbersUnique == prompt => ~reused

(* The log servers are asked to upload at most once for a day, and again    *)
(* only by a process that was started again on that day.                    *)
OneUploadPerDay ==
    [][uploadtime # Off /\ uploadtime' = Off /\ tpc = "ask"
          => Midnight(uploadtime) \notin asked]_vars

\* Minutes of the day that 24*(60/mergetime) slots do not cover, with a mergetime
\* that does not divide 60
Uncovered == Hours * (Hour % Merge)

(* Whenever the timer has caught up, the last slot is less than a merge     *)
(* period old, midnight and restarts included: the slots leave no gap but   *)
(* for the end of the day where mergetime does not divide the hour.         *)
CutEveryMerge ==
    Settled => \/ now < iter_ok + Merge
               \/ flagged = SlotsPerDay /\ now < iter_ok + Merge + Uncovered

(* A slot that is due gets a round of cutting, even if the messages of      *)
(* several slots collapse into one or the queue drops some of them, or the  *)
(* process is started again.                                                *)
CutHappens == prompt /\ attached /\ flagged < Due ~> cpc = "cut"

(* An upload that is due is handed to send_media_func.                      *)
UploadHappens ==
    prompt /\ attached /\ uploadtime # Off /\ now >= uploadtime
        ~> cpc = "idle" /\ queue # <<>> /\ Head(queue) = "upload"
=============================================================================
