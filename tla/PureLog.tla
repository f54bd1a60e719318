------------------------------ MODULE PureLog ------------------------------
(***************************************************************************)
(* CLog, the log every thread of the control server writes to.  It starts  *)
(* a new file when the hour changes: new_file opens it in the slot of      *)
(* m_fd that is not in use, closes what that slot held, and moves m_pos.   *)
(* A compare-and-swap on m_busy keeps a second thread out of new_file; one *)
(* that comes in vain (RETRY) writes to the file there is.                 *)
(*                                                                         *)
(* A file stands for its descriptor and is named by the value m_pos gets   *)
(* with it; that the kernel gives a closed descriptor to the next open is  *)
(* left out, a write to a closed file is what it is.                       *)
(***************************************************************************)
EXTENDS Integers, FiniteSets

CONSTANTS
    Threads,    \* the threads that log
    HoursADay,  \* tm_hour runs from 0 to HoursADay - 1 (24)
    LastHour,   \* bound: the clock stops here
    OpenFails   \* open() may fail

ASSUME LogAssumption ==
    /\ HoursADay \in Nat \ {0} /\ LastHour \in Nat
    /\ OpenFails \in BOOLEAN
    /\ IsFiniteSet(Threads) /\ Threads # {}

VARIABLES
    now,            \* the hour, counted from the start of the process
    m_pos,          \* files opened so far, less one
    m_fd,           \* the file of each slot, or -1
    m_cur_filetime, \* the hour each slot's file was created in
    m_busy,
    open,           \* files that are open
    pc,             \* where each thread is in prt
    ptime,          \* the hour it found at the start of prt
    back,           \* where new_file returns to
    filetime,       \* the hour it found in new_file
    slot,           \* the slot it will write to
    fd,             \* the file it will write to
    excused         \* history: new_file returned RETRY during this prt, or the
                    \* file's hour of the day was right and its day was not

files == <<m_pos, m_fd, m_cur_filetime, m_busy, open>>
message == <<ptime, excused>>
vars == <<now, files, pc, message, back, filetime, slot, fd>>

None == -1
tm_hour(h) == h % HoursADay
Current == m_pos % 2            \* m_pos & 1; m_pos is -1 at first
m_next == (m_pos + 1) % 2

\* after CLog::init, whose new_file may have failed; it sets the rest to 0
Init ==
    /\ now = 0
    /\ \/ m_pos = 0 /\ m_fd = [s \in 0..1 |-> IF s = 0 THEN 0 ELSE None] /\ open = {0}
       \/ OpenFails /\ m_pos = -1 /\ m_fd = [s \in 0..1 |-> None] /\ open = {}
    /\ m_cur_filetime = [s \in 0..1 |-> 0]
    /\ m_busy = 0
    /\ pc = [t \in Threads |-> "idle"] /\ back = [t \in Threads |-> "pick"]
    /\ ptime = [t \in Threads |-> 0] /\ filetime = [t \in Threads |-> 0]
    /\ slot = [t \in Threads |-> 0] /\ fd = [t \in Threads |-> None]
    /\ excused = [t \in Threads |-> FALSE]

Go(t, from, to) == pc[t] = from /\ pc' = [pc EXCEPT ![t] = to]

Tick ==
    /\ now < LastHour
    /\ now' = now + 1
    /\ UNCHANGED <<files, pc, message, back, filetime, slot, fd>>
-----------------------------------------------------------------------------
(* CLog::prt, for a message that goes to the file                           *)

Start(t) ==
    /\ Go(t, "idle", "file")
    /\ ptime' = [ptime EXCEPT ![t] = now]
    /\ excused' = [excused EXCEPT ![t] = FALSE]
    /\ UNCHANGED <<now, files, back, filetime, slot, fd>>

\* if(m_fd[m_pos & 0x1] == -1)
CheckFile(t) ==
    /\ Go(t, "file", IF m_fd[Current] = None THEN "cas" ELSE "hour")
    /\ back' = [back EXCEPT ![t] = "hour"]
    /\ UNCHANGED <<now, files, message, filetime, slot, fd>>

\* if(m_cur_filetime[m_pos & 0x1].tm_hour != ptime.tm_hour)
CheckHour(t) ==
    /\ Go(t, "hour", IF tm_hour(m_cur_filetime[Current]) # tm_hour(ptime[t])
                     THEN "cas" ELSE "pick")
    /\ back' = [back EXCEPT ![t] = "pick"]
    /\ excused' = [excused EXCEPT ![t] = @ \/
           /\ m_cur_filetime[Current] # ptime[t]
           /\ tm_hour(m_cur_filetime[Current]) = tm_hour(ptime[t])]
    /\ UNCHANGED <<now, files, ptime, filetime, slot, fd>>

\* write(m_fd[m_pos & 0x1],...): the slot, the descriptor, the system call
PickSlot(t) ==
    /\ Go(t, "pick", "fd")
    /\ slot' = [slot EXCEPT ![t] = Current]
    /\ UNCHANGED <<now, files, message, back, filetime, fd>>

TakeFd(t) ==
    /\ Go(t, "fd", "write")
    /\ fd' = [fd EXCEPT ![t] = m_fd[slot[t]]]
    /\ UNCHANGED <<now, files, message, back, filetime, slot>>

Write(t) ==
    /\ Go(t, "write", "idle")
    /\ UNCHANGED <<now, files, message, back, filetime, slot, fd>>
-----------------------------------------------------------------------------
(* CLog::new_file                                                           *)

\* Mutant: m_busy is tested but not taken
CasWeak(t) ==
    /\ Go(t, "cas", IF m_busy = 1 THEN back[t] ELSE "close")
    /\ excused' = [excused EXCEPT ![t] = @ \/ m_busy = 1]
    /\ UNCHANGED <<now, files, ptime, back, filetime, slot, fd>>

Cas(t) ==
    /\ Go(t, "cas", IF m_busy = 1 THEN back[t] ELSE "close")
    /\ m_busy' = 1
    /\ excused' = [excused EXCEPT ![t] = @ \/ m_busy = 1]
    /\ UNCHANGED <<now, m_pos, m_fd, m_cur_filetime, open, ptime, back, filetime,
                   slot, fd>>

\* Mutant: the current file is closed
CloseCurrent(t) ==
    /\ Go(t, "close", "open")
    /\ filetime' = [filetime EXCEPT ![t] = now]
    /\ open' = open \ {m_fd[Current]}
    /\ UNCHANGED <<now, m_pos, m_fd, m_cur_filetime, m_busy, message, back, slot, fd>>

\* Mutant: the old file is not closed
CloseNothing(t) ==
    /\ Go(t, "close", "open")
    /\ filetime' = [filetime EXCEPT ![t] = now]
    /\ UNCHANGED <<now, files, message, back, slot, fd>>

\* time(NULL), and close(m_fd[m_next]) if there is one
Close(t) ==
    /\ Go(t, "close", "open")
    /\ filetime' = [filetime EXCEPT ![t] = now]
    /\ open' = open \ {m_fd[m_next]}
    /\ UNCHANGED <<now, m_pos, m_fd, m_cur_filetime, m_busy, message, back, slot, fd>>

Open(t) ==
    /\ Go(t, "open", "time")
    /\ m_fd' = [m_fd EXCEPT ![m_next] = m_pos + 1]
    /\ open' = open \cup {m_pos + 1}
    /\ UNCHANGED <<now, m_pos, m_cur_filetime, m_busy, message, back, filetime, slot, fd>>

\* FAILURE: prt drops the message
OpenFailed(t) ==
    /\ OpenFails
    /\ Go(t, "open", "idle")
    /\ m_fd' = [m_fd EXCEPT ![m_next] = None]
    /\ m_busy' = 0
    /\ UNCHANGED <<now, m_pos, m_cur_filetime, open, message, back, filetime, slot, fd>>

\* Mutant: the time of the file is left as it was
SetNoTime(t) ==
    /\ Go(t, "time", "pos")
    /\ UNCHANGED <<now, files, message, back, filetime, slot, fd>>

SetTime(t) ==
    /\ Go(t, "time", "pos")
    /\ m_cur_filetime' = [m_cur_filetime EXCEPT ![m_next] = filetime[t]]
    /\ UNCHANGED <<now, m_pos, m_fd, m_busy, open, message, back, filetime, slot, fd>>

Advance(t) ==
    /\ Go(t, "pos", "free")
    /\ m_pos' = m_pos + 1
    /\ UNCHANGED <<now, m_fd, m_cur_filetime, m_busy, open, message, back, filetime,
                   slot, fd>>

\* Mutant: m_busy stays set after a file that is late
FreeLate(t) ==
    /\ Go(t, "free", back[t])
    /\ m_busy' = IF filetime[t] = now THEN 0 ELSE 1
    /\ UNCHANGED <<now, m_pos, m_fd, m_cur_filetime, open, message, back, filetime,
                   slot, fd>>

Free(t) ==
    /\ Go(t, "free", back[t])
    /\ m_busy' = 0
    /\ UNCHANGED <<now, m_pos, m_fd, m_cur_filetime, open, message, back, filetime,
                   slot, fd>>
-----------------------------------------------------------------------------
prt(t) == \/ Start(t) \/ CheckFile(t) \/ CheckHour(t)
          \/ PickSlot(t) \/ TakeFd(t) \/ Write(t)
new_file(t) == Cas(t) \/ Close(t) \/ Open(t) \/ OpenFailed(t) \/ SetTime(t)
               \/ Advance(t) \/ Free(t)
Next == Tick \/ \E t \in Threads : prt(t) \/ new_file(t)
Spec == Init /\ [][Next]_vars

(* Every thread finishes the call of prt it is in, and logs again; open     *)
(* does not fail for ever.                                                  *)
FairSpec == /\ Spec
            /\ \A t \in Threads : WF_vars(new_file(t)) /\ WF_vars(prt(t))
            /\ \A t \in Threads : SF_vars(Open(t))
-----------------------------------------------------------------------------
InNewFile == {t \in Threads : pc[t] \in {"close", "open", "time", "pos", "free"}}

(* Type invariant; m_busy is set exactly while one thread is in new_file.   *)
TypeOK ==
    /\ now \in 0..LastHour
    /\ m_pos \in Nat \cup {-1}
    /\ m_fd \in [0..1 -> Nat \cup {None}]
    /\ m_cur_filetime \in [0..1 -> 0..now]
    /\ m_busy = Cardinality(InNewFile)
    /\ open \subseteq Nat
    /\ pc \in [Threads -> {"idle", "file", "hour", "pick", "fd", "write", "cas",
                           "close", "open", "time", "pos", "free"}]
    /\ ptime \in [Threads -> 0..now] /\ filetime \in [Threads -> 0..now]
    /\ back \in [Threads -> {"hour", "pick"}]
    /\ slot \in [Threads -> 0..1] /\ fd \in [Threads -> Nat \cup {None}]
    /\ excused \in [Threads -> BOOLEAN]

(* The file m_pos points to is open, also while another thread rotates or   *)
(* fails to: new_file works on the other slot until the new file is there.  *)
CurrentOpen == m_pos >= 0 => m_fd[Current] \in open

(* No descriptor is lost: an open file is in m_fd, so no more than two ever *)
(* are, whichever threads find at once that the hour has changed.           *)
NoLeak == open \subseteq {m_fd[0], m_fd[1]}

(* A message goes into a file older than its hour only if the thread found  *)
(* another one in new_file, or if the file is whole days old: CheckHour     *)
(* compares the hour of the day alone.                                      *)
OldFileExcused ==
    \A t \in Threads :
        pc[t] = "fd" /\ slot[t] = Current /\ ~excused[t] /\ m_pos >= 0 =>
            m_cur_filetime[Current] >= ptime[t]

(* m_busy keeps two threads from making a file at the same time and not one *)
(* after the other: each thread that has seen the hour change may make one. *)
(* It makes no more than one an hour, so a descriptor is not closed under a *)
(* slow writer (two files close it) more often than that.                   *)
FilesPerHour == m_pos < Cardinality(Threads) * (now + 1)

(* While there are messages the files follow the clock: the file of an hour *)
(* gets its successor, although a thread that finds another one in new_file *)
(* goes on with the old file, that other one may be late with the time, or  *)
(* open fails.  Only a file that is whole days old may stay.                *)
HourFollows ==
    \A h \in 0..LastHour :
        now >= h ~> /\ m_pos >= 0
                    /\ \/ m_cur_filetime[Current] >= h
                       \/ tm_hour(m_cur_filetime[Current]) = tm_hour(now)
=============================================================================
