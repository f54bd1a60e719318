--------------------------- MODULE PureLogProofs ---------------------------
(***************************************************************************)
(* The files of the log, for every set of threads and however long the     *)
(* clock runs.                                                             *)
(***************************************************************************)
EXTENDS PureLog, FiniteSetTheorems, TLAPS

Inside(t) == pc[t] \in {"close", "open", "time", "pos", "free"}

\* the variables' types, m_busy apart
LogType ==
    /\ now \in 0..LastHour
    /\ m_pos \in Nat \cup {-1}
    /\ m_fd \in [0..1 -> Nat \cup {None}]
    /\ m_cur_filetime \in [0..1 -> 0..now]
    /\ open \subseteq Nat
    /\ pc \in [Threads -> {"idle", "file", "hour", "pick", "fd", "write", "cas",
                           "close", "open", "time", "pos", "free"}]
    /\ ptime \in [Threads -> 0..now] /\ filetime \in [Threads -> 0..now]
    /\ back \in [Threads -> {"hour", "pick"}]
    /\ slot \in [Threads -> 0..1] /\ fd \in [Threads -> Nat \cup {None}]
    /\ excused \in [Threads -> BOOLEAN]

\* m_busy is a lock around new_file
OneInside ==
    /\ m_busy \in {0, 1}
    /\ \A t \in Threads : Inside(t) => m_busy = 1
    /\ m_busy = 1 => \E t \in Threads : Inside(t)
    /\ \A t, u \in Threads : Inside(t) /\ Inside(u) => t = u

\* What the two slots hold, by where the thread in new_file is
SlotsInv ==
    /\ m_fd[Current] = m_pos
    /\ m_pos >= 0 => m_pos \in open /\ m_fd[m_next] # m_pos
    /\ open \subseteq {m_fd[Current], m_fd[m_next]}
    /\ \A t \in Threads :
        /\ pc[t] = "open" => m_fd[m_next] \notin open
        /\ pc[t] \in {"time", "pos"} => m_fd[m_next] = m_pos + 1 /\ m_pos + 1 \in open

\* The times of the files never go back, and a thread that leaves new_file
\* through the new file finds one at least as young as its message
TimesInv ==
    \A t \in Threads :
        /\ pc[t] \in {"open", "time", "pos"} =>
               m_cur_filetime[Current] <= filetime[t] /\ ptime[t] <= filetime[t]
        /\ pc[t] = "pos" => m_cur_filetime[m_next] = filetime[t]
        /\ pc[t] = "free" => ptime[t] <= m_cur_filetime[Current]
        /\ pc[t] \in {"pick", "fd"} /\ ~excused[t] => ptime[t] <= m_cur_filetime[Current]

LogInv == LogType /\ OneInside /\ SlotsInv /\ TimesInv

-----------------------------------------------------------------------------
(* The two slots                                                            *)

LEMMA Parity ==
    ASSUME m_pos \in Nat \cup {-1}
    PROVE  Current \in 0..1 /\ m_next \in 0..1 /\ m_next # Current
  BY DEF Current, m_next

LEMMA Turned ==
    ASSUME m_pos \in Nat \cup {-1}, m_pos' = m_pos + 1
    PROVE  Current' = m_next /\ m_next' = Current
  BY DEF Current, m_next

LEMMA SameSlots ==
    ASSUME m_pos' = m_pos
    PROVE  Current' = Current /\ m_next' = m_next
  BY DEF Current, m_next

-----------------------------------------------------------------------------
LEMMA InitLog == Init => LogInv
  <1> SUFFICES ASSUME Init PROVE LogInv
    OBVIOUS
  <1>1. LogType
    BY LogAssumption DEF Init, LogType, None
  <1>2. OneInside
    BY DEF Init, OneInside, Inside
  <1>3. SlotsInv
    <2>1. Current \in 0..1 /\ m_next \in 0..1 /\ m_next # Current
      BY <1>1, Parity DEF LogType
    <2>2. CASE m_pos = 0
      <3>1. Current = 0 /\ m_next = 1
        BY <2>2 DEF Current, m_next
      <3> QED
        BY <2>2, <3>1 DEF Init, SlotsInv, None
    <2>3. CASE m_pos = -1
      BY <2>1, <2>3 DEF Init, SlotsInv, None
    <2> QED
      BY <2>2, <2>3 DEF Init
  <1>4. TimesInv
    BY DEF Init, TimesInv
  <1> QED
    BY <1>1, <1>2, <1>3, <1>4 DEF LogInv

\* Steps that leave the files alone
LEMMA PrtKeeps ==
    ASSUME LogInv, NEW t \in Threads, prt(t)
    PROVE  LogInv'
  <1> USE DEF LogInv
  <1>1. Current \in 0..1 /\ Current' = Current /\ m_next' = m_next
    BY Parity, SameSlots DEF LogType, prt, Start, CheckFile, CheckHour, PickSlot, TakeFd,
          Write, files
  <1>2. OneInside'
    BY DEF LogType, OneInside, Inside, prt, Start, CheckFile, CheckHour, PickSlot, TakeFd,
          Write, files, message, Go
  <1>3. SlotsInv'
    <2>1. UNCHANGED <<m_pos, m_fd, open>>
      BY DEF prt, Start, CheckFile, CheckHour, PickSlot, TakeFd, Write, files
    <2>2. \A u \in Threads : pc'[u] \in {"open", "time", "pos"} => pc'[u] = pc[u]
      BY DEF LogType, prt, Start, CheckFile, CheckHour, PickSlot, TakeFd, Write, Go
    <2> QED
      BY <1>1, <2>1, <2>2 DEF SlotsInv
  <1>4. CASE CheckHour(t)
    <2> DEFINE e == excused[t] \/
                       /\ m_cur_filetime[Current] # ptime[t]
                       /\ tm_hour(m_cur_filetime[Current]) = tm_hour(ptime[t])
    <2>1. /\ excused' \in [Threads -> BOOLEAN]
          /\ excused'[t] = e
          /\ \A u \in Threads : u # t => excused'[u] = excused[u]
      <3>1. excused \in [Threads -> BOOLEAN]
        BY DEF LogType
      <3>2. excused' = [excused EXCEPT ![t] = e]
        BY <1>4, Zenon DEF CheckHour
      <3>3. e \in BOOLEAN
        BY <3>1, Zenon
      <3> HIDE DEF e
      <3> QED
        BY <3>1, <3>2, <3>3, Zenon
    <2>2. ~ excused'[t] /\ pc'[t] = "pick" => m_cur_filetime[Current] = ptime[t]
      <3>1. pc' = [pc EXCEPT ![t] = IF tm_hour(m_cur_filetime[Current]) # tm_hour(ptime[t])
                                    THEN "cas" ELSE "pick"]
        BY <1>4 DEF CheckHour, Go
      <3>2. pc'[t] = "pick" => tm_hour(m_cur_filetime[Current]) = tm_hour(ptime[t])
        BY <3>1 DEF LogType
      <3> QED
        BY <2>1, <3>2, Zenon
    <2> HIDE DEF e
    <2>3. UNCHANGED <<now, m_fd, m_pos, m_cur_filetime, open, ptime, filetime, slot, fd>>
      BY <1>4 DEF CheckHour, files
    <2>4. /\ pc' \in [Threads -> {"idle", "file", "hour", "pick", "fd", "write", "cas",
                                  "close", "open", "time", "pos", "free"}]
          /\ pc'[t] \in {"cas", "pick"}
          /\ \A u \in Threads : u # t => pc'[u] = pc[u]
          /\ back' \in [Threads -> {"hour", "pick"}]
      BY <1>4 DEF CheckHour, Go, LogType
    <2>5. LogType'
      BY <2>1, <2>3, <2>4, Zenon DEF LogType
    <2>6. TimesInv'
      <3> SUFFICES ASSUME NEW u \in Threads
                   PROVE  (TimesInv!(u))'
        BY Zenon DEF TimesInv
      <3>1. CASE u = t
        BY <1>1, <2>2, <2>3, <2>4, <3>1 DEF LogType
      <3>2. CASE u # t
        BY <1>1, <2>1, <2>3, <2>4, <3>2, Zenon DEF TimesInv
      <3> QED
        BY <3>1, <3>2
    <2> QED
      BY <1>2, <1>3, <2>5, <2>6
  <1>5. CASE Start(t) \/ CheckFile(t) \/ PickSlot(t) \/ TakeFd(t) \/ Write(t)
    <2>1. LogType'
      <3>1. CASE Start(t)
        BY <3>1 DEF LogType, Start, files, message, Go
      <3>2. CASE CheckFile(t)
        BY <3>2 DEF LogType, CheckFile, files, message, Go
      <3>3. CASE PickSlot(t)
        BY <1>1, <3>3 DEF LogType, PickSlot, files, message, Go
      <3>4. CASE TakeFd(t)
        BY <3>4 DEF LogType, TakeFd, files, message, Go
      <3>5. CASE Write(t)
        BY <3>5 DEF LogType, Write, files, message, Go
      <3> QED
        BY <1>5, <3>1, <3>2, <3>3, <3>4, <3>5
    <2>2. TimesInv'
      BY <1>1, <1>5 DEF LogType, TimesInv, Start, CheckFile, PickSlot, TakeFd, Write,
            files, message, Go
    <2> QED
      BY <1>2, <1>3, <2>1, <2>2
  <1> QED
    BY <1>4, <1>5 DEF prt

-----------------------------------------------------------------------------
(* new_file                                                                 *)

LEMMA CasKeeps ==
    ASSUME LogInv, NEW t \in Threads, Cas(t)
    PROVE  LogInv'
  <1> USE DEF LogInv
  <1>1. /\ Current \in 0..1 /\ Current' = Current /\ m_next' = m_next
        /\ UNCHANGED <<now, m_fd, m_pos, m_cur_filetime, open, ptime, filetime, slot,
                       fd, back>>
        /\ m_busy' = 1
    BY Parity, SameSlots DEF LogType, Cas
  <1>2. /\ pc' \in [Threads -> {"idle", "file", "hour", "pick", "fd", "write", "cas",
                                "close", "open", "time", "pos", "free"}]
        /\ pc[t] = "cas"
        /\ pc'[t] = IF m_busy = 1 THEN back[t] ELSE "close"
        /\ \A u \in Threads : u # t => pc'[u] = pc[u]
    BY DEF Cas, Go, LogType
  <1>3. /\ excused' \in [Threads -> BOOLEAN]
        /\ excused'[t] = (excused[t] \/ m_busy = 1)
        /\ \A u \in Threads : u # t => excused'[u] = excused[u]
    <2>1. excused \in [Threads -> BOOLEAN]
      BY DEF LogType
    <2>2. excused' = [excused EXCEPT ![t] = @ \/ m_busy = 1]
      BY DEF Cas
    <2> QED
      BY <2>1, <2>2, Zenon
  <1>4. LogType'
    BY <1>1, <1>2, <1>3, Zenon DEF LogType
  <1>5. OneInside'
    BY <1>1, <1>2 DEF OneInside, Inside, LogType
  <1>6. SlotsInv'
    BY <1>1, <1>2 DEF SlotsInv, LogType
  <1>7. TimesInv'
    <2> SUFFICES ASSUME NEW u \in Threads
                 PROVE  (TimesInv!(u))'
      BY Zenon DEF TimesInv
    <2>1. CASE u = t
      <3>1. m_busy = 1 => excused'[t]
        BY <1>3, Zenon
      <3> QED
        BY <1>1, <1>2, <2>1, <3>1 DEF LogType
    <2>2. CASE u # t
      BY <1>1, <1>2, <1>3, <2>2, Zenon DEF TimesInv
    <2> QED
      BY <2>1, <2>2
  <1> QED
    BY <1>4, <1>5, <1>6, <1>7

LEMMA WorkKeeps ==
    ASSUME LogInv, NEW t \in Threads,
           Close(t) \/ Open(t) \/ OpenFailed(t) \/ SetTime(t) \/ Free(t)
    PROVE  LogInv'
  <1> USE DEF LogInv
  <1>1. /\ Current \in 0..1 /\ m_next \in 0..1 /\ Current # m_next
        /\ Current' = Current /\ m_next' = m_next /\ m_pos' = m_pos
    BY Parity, SameSlots DEF LogType, Close, Open, OpenFailed, SetTime, Free
  <1>2. LogType'
    <2>1. CASE Close(t)
      <3>1. open' \subseteq Nat
        BY <2>1 DEF LogType, Close
      <3>2. filetime' \in [Threads -> 0..now]
        BY <2>1 DEF LogType, Close
      <3> QED
        BY <2>1, <3>1, <3>2 DEF LogType, Close, message, Go
    <2>2. CASE Open(t)
      <3>1. m_pos + 1 \in Nat /\ open' \subseteq Nat
        BY <2>2 DEF LogType, Open
      <3>2. m_fd' \in [0..1 -> Nat \cup {None}]
        BY <1>1, <2>2, <3>1 DEF LogType, Open
      <3> QED
        BY <1>1, <2>2, <3>1, <3>2 DEF LogType, Open, message, Go
    <2>3. CASE OpenFailed(t)
      BY <1>1, <2>3 DEF LogType, OpenFailed, message, Go, None
    <2>4. CASE SetTime(t)
      BY <1>1, <2>4 DEF LogType, SetTime, message, Go
    <2>5. CASE Free(t)
      BY <2>5 DEF LogType, Free, message, Go
    <2> QED
      BY <2>1, <2>2, <2>3, <2>4, <2>5
  <1>3. OneInside'
    BY DEF LogType, OneInside, Inside, Close, Open, OpenFailed, SetTime, Free, message, Go
  <1>4. SlotsInv'
    <2>1. \A u \in Threads : Inside(u) => u = t
      BY DEF OneInside, Inside, Close, Open, OpenFailed, SetTime, Free, Go
    <2>2. CASE Close(t)
      BY <1>1, <2>1, <2>2 DEF LogType, SlotsInv, Inside, Close, Go
    <2>3. CASE Open(t)
      BY <1>1, <2>1, <2>3 DEF LogType, SlotsInv, Inside, Open, Go
    <2>4. CASE OpenFailed(t)
      BY <1>1, <2>1, <2>4 DEF LogType, SlotsInv, Inside, OpenFailed, Go, None
    <2>5. CASE SetTime(t) \/ Free(t)
      BY <1>1, <2>1, <2>5 DEF LogType, SlotsInv, Inside, SetTime, Free, Go
    <2> QED
      BY <2>2, <2>3, <2>4, <2>5
  <1>5. TimesInv'
    <2>1. CASE SetTime(t)
      <3>1. \A u \in Threads : Inside(u) => u = t
        BY <2>1 DEF OneInside, Inside, SetTime, Go
      <3> QED
        BY <1>1, <2>1, <3>1 DEF LogType, TimesInv, Inside, SetTime, message, Go
    <2>2. CASE Close(t) \/ Open(t) \/ OpenFailed(t) \/ Free(t)
      BY <1>1, <2>2 DEF LogType, TimesInv, Close, Open, OpenFailed, Free, message, Go
    <2> QED
      BY <2>1, <2>2
  <1> QED
    BY <1>2, <1>3, <1>4, <1>5

LEMMA AdvanceKeeps ==
    ASSUME LogInv, NEW t \in Threads, Advance(t)
    PROVE  LogInv'
  <1> USE DEF LogInv
  <1>1. /\ Current \in 0..1 /\ m_next \in 0..1 /\ Current # m_next
        /\ Current' = m_next /\ m_next' = Current /\ m_pos' = m_pos + 1
    BY Parity, Turned DEF LogType, Advance
  <1>2. \A u \in Threads : Inside(u) => u = t
    BY DEF OneInside, Inside, Advance, Go
  <1>3. LogType'
    BY <1>1 DEF LogType, Advance, message, Go
  <1>4. OneInside'
    BY DEF LogType, OneInside, Inside, Advance, message, Go
  <1>5. SlotsInv'
    BY <1>1, <1>2 DEF LogType, SlotsInv, Inside, Advance, Go
  <1>6. TimesInv'
    BY <1>1, <1>2 DEF LogType, TimesInv, Inside, Advance, message, Go
  <1> QED
    BY <1>3, <1>4, <1>5, <1>6

LEMMA LogStep == LogInv /\ [Next]_vars => LogInv'
  <1> SUFFICES ASSUME LogInv, [Next]_vars PROVE LogInv'
    OBVIOUS
  <1>1. CASE Tick
    <2>1. Current' = Current /\ m_next' = m_next
      BY <1>1, SameSlots DEF Tick, files
    <2> QED
      BY <1>1, <2>1, LogAssumption
         DEF Tick, LogInv, LogType, OneInside, Inside, SlotsInv, TimesInv, files, message
  <1>2. ASSUME NEW t \in Threads, prt(t) \/ new_file(t) PROVE LogInv'
    BY <1>2, PrtKeeps, CasKeeps, WorkKeeps, AdvanceKeeps DEF new_file
  <1>3. CASE UNCHANGED vars
    <2>1. Current' = Current /\ m_next' = m_next
      BY <1>3, SameSlots DEF vars, files
    <2> QED
      BY <1>3, <2>1
         DEF vars, LogInv, LogType, OneInside, Inside, SlotsInv, TimesInv, files, message
  <1> QED
    BY <1>1, <1>2, <1>3 DEF Next

LEMMA LogAlways == Spec => []LogInv
  <1> QED
    BY InitLog, LogStep, PTL DEF Spec

\* m_busy counts the threads in new_file
LEMMA LogTyped == LogInv => TypeOK
  <1> SUFFICES ASSUME LogInv PROVE m_busy = Cardinality(InNewFile)
    BY DEF LogInv, LogType, TypeOK
  <1>1. CASE m_busy = 0
    <2>1. InNewFile = {}
      BY <1>1 DEF LogInv, OneInside, Inside, InNewFile
    <2> QED
      BY <1>1, <2>1, FS_EmptySet
  <1>2. CASE m_busy = 1
    <2>1. PICK t \in Threads : Inside(t)
      BY <1>2 DEF LogInv, OneInside
    <2>2. InNewFile = {t}
      BY <2>1 DEF LogInv, OneInside, Inside, InNewFile
    <2> QED
      BY <1>2, <2>2, FS_Singleton
  <1> QED
    BY <1>1, <1>2 DEF LogInv, OneInside

(* The state of the log is what CLog declares, and m_busy is set exactly    *)
(* while one thread is in CLog::new_file.                                   *)
THEOREM LogTypes == Spec => []TypeOK
  <1> QED
    BY LogAlways, LogTyped, PTL

(* The file that CLog::prt would write to is open, whatever the thread in   *)
(* new_file has come to.                                                    *)
THEOREM CurrentFileOpen == Spec => []CurrentOpen
  <1>1. LogInv => CurrentOpen
    BY DEF LogInv, SlotsInv, CurrentOpen
  <1> QED
    BY LogAlways, <1>1, PTL

(* new_file loses no descriptor, also where open fails.                     *)
THEOREM NoFileLost == Spec => []NoLeak
  <1>1. LogInv => NoLeak
    <2> SUFFICES ASSUME LogInv PROVE NoLeak
      OBVIOUS
    <2>1. Current \in 0..1 /\ m_next \in 0..1
      BY Parity DEF LogInv, LogType
    <2> QED
      BY <2>1 DEF LogInv, SlotsInv, NoLeak
  <1> QED
    BY LogAlways, <1>1, PTL

(* A message goes into a file older than its hour only past a thread in     *)
(* new_file, or where CLog::prt takes the hour of another day for its own.  *)
THEOREM OldFileIsExcused == Spec => []OldFileExcused
  <1>1. LogInv => OldFileExcused
    <2> SUFFICES ASSUME LogInv PROVE OldFileExcused
      OBVIOUS
    <2>1. /\ Current \in 0..1 /\ now \in Nat /\ ptime \in [Threads -> 0..now]
          /\ m_cur_filetime \in [0..1 -> 0..now]
      BY Parity, LogAssumption DEF LogInv, LogType
    <2> QED
      BY <2>1 DEF LogInv, TimesInv, OldFileExcused
  <1> QED
    BY LogAlways, <1>1, PTL

-----------------------------------------------------------------------------
(* How many files there are.  Each is given a label, <<thread, hour>>: the  *)
(* thread that made it and the hour new_file found, but the hour of the     *)
(* message where there was no file before.  No two files have the same one. *)

LabelsOf(g, t) ==
    \A i \in 0..m_pos : g[i][1] = t =>
        /\ pc[t] \in {"file", "hour"} => g[i][2] <= ptime[t]
        /\ pc[t] \in {"cas", "close", "open", "time", "pos"} => back[t] = "pick"
        /\ pc[t] = "free" /\ back[t] = "hour" => g[i][2] <= ptime[t]
        /\ pc[t] \in {"cas", "close"} => g[i][2] < now
        /\ pc[t] \in {"open", "time", "pos"} => g[i][2] < filetime[t]

Labels(g) ==
    /\ \A i, j \in 0..m_pos : g[i] = g[j] => i = j
    /\ \A i \in 0..m_pos : g[i][2] <= m_cur_filetime[Current]
    /\ \A t \in Threads : LabelsOf(g, t)

Labelled == \E g \in [0..m_pos -> Threads \X (0..now)] : Labels(g)

LEMMA InitLabelled == Init => Labelled
  <1> SUFFICES ASSUME Init PROVE Labelled
    OBVIOUS
  <1>1. PICK u \in Threads : TRUE
    BY LogAssumption
  <1>2. Current \in 0..1 /\ now = 0
    BY Parity DEF Init
  <1> DEFINE g == [i \in 0..m_pos |-> <<u, 0>>]
  <1>3. m_pos \in {0, -1}
    BY DEF Init
  <1>4. g \in [0..m_pos -> Threads \X (0..now)]
    BY <1>2
  <1>5. \A i \in 0..m_pos : g[i][2] = 0 /\ i = 0
    BY <1>3
  <1>6. \A i \in 0..m_pos : g[i][2] <= m_cur_filetime[Current]
    BY <1>2, <1>5 DEF Init
  <1>7. Labels(g)
    BY <1>5, <1>6 DEF Init, Labels, LabelsOf
  <1> QED
    BY <1>4, <1>7 DEF Labelled

LEMMA LabelStep == LogInv /\ LogInv' /\ Labelled /\ [Next]_vars => Labelled'
  <1> SUFFICES ASSUME LogInv, LogInv', Labelled, [Next]_vars PROVE Labelled'
    OBVIOUS
  <1>0. PICK g \in [0..m_pos -> Threads \X (0..now)] : Labels(g)
    BY DEF Labelled
  <1>1. /\ now \in Nat /\ m_pos \in Nat \cup {-1}
        /\ Current \in 0..1 /\ m_next \in 0..1 /\ m_next # Current
        /\ m_cur_filetime \in [0..1 -> 0..now]
        /\ ptime \in [Threads -> 0..now] /\ filetime \in [Threads -> 0..now]
    BY Parity, LogAssumption DEF LogInv, LogType
  <1>a. \A i \in 0..m_pos : g[i] \in Threads \X (0..now) /\ g[i][2] \in Int
    BY <1>0, <1>1
  <1>2. \A i \in 0..m_pos : g[i][2] <= m_cur_filetime[Current]
    BY <1>0 DEF Labels
  <1>3. \A t \in Threads : LabelsOf(g, t)
    BY <1>0 DEF Labels
  \* a step that makes no file leaves the labels as they are
  <1>b. ASSUME m_pos' = m_pos, m_cur_filetime'[Current] = m_cur_filetime[Current],
               now <= now', \A t \in Threads : LabelsOf(g, t)'
        PROVE  Labelled'
    <2>1. Current' = Current /\ now' \in Nat
      BY <1>b, SameSlots, LogAssumption DEF LogInv, LogType
    <2>2. g \in [0..m_pos' -> Threads \X (0..now')]
      <3>1. \A i \in 0..m_pos : g[i] \in Threads \X (0..now')
        BY <1>1, <1>a, <1>b, <2>1
      <3> QED
        BY <1>b, <3>1
    <2>3. Labels(g)'
      BY <1>0, <1>2, <1>b, <2>1 DEF Labels
    <2> QED
      BY <2>2, <2>3 DEF Labelled
  <1>4. CASE Tick
    <2>1. /\ now' = now + 1 /\ UNCHANGED <<m_pos, m_cur_filetime, pc, ptime, back, filetime>>
      BY <1>4 DEF Tick, files, message
    <2>2. \A t \in Threads : LabelsOf(g, t)'
      <3> SUFFICES ASSUME NEW t \in Threads, NEW i \in 0..m_pos, g[i][1] = t
                   PROVE  LabelsOf(g, t)!(i)'
        BY <2>1 DEF LabelsOf
      <3>1. LabelsOf(g, t)!(i)
        BY <1>3 DEF LabelsOf
      <3>2. g[i][2] < now => g[i][2] < now'
        <4>1. g[i][2] \in Int /\ now \in Int /\ now' = now + 1
          BY <1>1, <1>a, <2>1
        <4> QED
          BY ONLY <4>1
      <3> QED
        BY <2>1, <3>1, <3>2, Zenon
    <2> QED
      BY <1>1, <1>b, <2>1, <2>2
  <1>5. CASE UNCHANGED vars
    <2>1. UNCHANGED <<now, m_pos, m_cur_filetime, pc, ptime, back, filetime>>
      BY <1>5 DEF vars, files, message
    <2>2. \A t \in Threads : LabelsOf(g, t)'
      BY <1>3, <2>1, Zenon DEF LabelsOf
    <2> QED
      BY <1>1, <1>b, <2>1, <2>2
  <1>6. ASSUME NEW t \in Threads, prt(t) PROVE Labelled'
    <2>1. UNCHANGED <<now, m_pos, m_cur_filetime, filetime>>
      BY <1>6 DEF prt, Start, CheckFile, CheckHour, PickSlot, TakeFd, Write, files, message
    <2>2. ASSUME NEW u \in Threads, u # t PROVE LabelsOf(g, u)'
      <3>1. UNCHANGED <<pc[u], ptime[u], back[u], filetime[u]>>
        <4>1. /\ pc \in [Threads -> {"idle", "file", "hour", "pick", "fd", "write", "cas",
                                     "close", "open", "time", "pos", "free"}]
              /\ ptime \in [Threads -> 0..now] /\ back \in [Threads -> {"hour", "pick"}]
          BY DEF LogInv, LogType
        <4>2. \E to : pc' = [pc EXCEPT ![t] = to]
          BY <1>6, Zenon DEF prt, Start, CheckFile, CheckHour, PickSlot, TakeFd, Write, Go
        <4>3. ptime' = ptime \/ ptime' = [ptime EXCEPT ![t] = now]
          BY <1>6, Zenon DEF prt, Start, CheckFile, CheckHour, PickSlot, TakeFd, Write, message
        <4>4. back' = back \/ \E to : back' = [back EXCEPT ![t] = to]
          BY <1>6, Zenon DEF prt, Start, CheckFile, CheckHour, PickSlot, TakeFd, Write
        <4> QED
          BY <2>1, <2>2, <4>1, <4>2, <4>3, <4>4
      <3> QED
        BY <1>3, <2>1, <3>1 DEF LabelsOf
    <2>3. LabelsOf(g, t)'
      <3>1. CASE Start(t)
        <4>1. pc'[t] = "file" /\ ptime'[t] = now
          BY <3>1 DEF Start, Go, LogInv, LogType
        <4>2. \A i \in 0..m_pos : g[i][2] <= now
          BY <1>1
        <4> QED
          BY <2>1, <4>1, <4>2 DEF LabelsOf
      <3>2. CASE CheckFile(t)
        <4>1. /\ pc[t] = "file" /\ ptime'[t] = ptime[t] /\ back'[t] = "hour"
              /\ pc'[t] = IF m_fd[Current] = None THEN "cas" ELSE "hour"
          BY <3>2 DEF CheckFile, Go, message, LogInv, LogType
        <4>2. m_fd[Current] = None => 0..m_pos = {}
          BY <1>1 DEF LogInv, SlotsInv, None
        <4> QED
          BY <1>3, <2>1, <4>1, <4>2 DEF LabelsOf
      <3>3. CASE CheckHour(t)
        <4>1. /\ pc[t] = "hour" /\ ptime'[t] = ptime[t] /\ back'[t] = "pick"
              /\ pc'[t] = IF tm_hour(m_cur_filetime[Current]) # tm_hour(ptime[t])
                          THEN "cas" ELSE "pick"
          BY <3>3 DEF CheckHour, Go, LogInv, LogType
        <4>2. pc'[t] = "cas" => m_cur_filetime[Current] # ptime[t]
          BY <4>1
        <4>3. pc'[t] \in {"cas", "pick"}
          BY <4>1
        <4>4. \A i \in 0..m_pos : g[i][1] = t => g[i][2] <= ptime[t]
          BY <1>3, <4>1 DEF LabelsOf
        <4>5. ASSUME pc'[t] = "cas", NEW i \in 0..m_pos, g[i][1] = t PROVE g[i][2] < now
          <5>1. m_cur_filetime[Current] \in 0..now /\ ptime[t] \in 0..now /\ g[i][2] \in Int
            BY <1>1, <1>a
          <5>2. g[i][2] <= m_cur_filetime[Current] /\ g[i][2] <= ptime[t]
            BY <1>2, <4>4, <4>5
          <5>3. m_cur_filetime[Current] # ptime[t] /\ now \in Nat
            BY <1>1, <4>2, <4>5
          <5> QED
            BY ONLY <5>1, <5>2, <5>3
        <4> QED
          BY <2>1, <4>1, <4>3, <4>5 DEF LabelsOf
      <3>4. CASE PickSlot(t) \/ TakeFd(t) \/ Write(t)
        <4>1. pc'[t] \in {"fd", "write", "idle"}
          BY <3>4 DEF PickSlot, TakeFd, Write, Go, LogInv, LogType
        <4> QED
          BY <4>1 DEF LabelsOf
      <3> QED
        BY <1>6, <3>1, <3>2, <3>3, <3>4 DEF prt
    <2>4. \A u \in Threads : LabelsOf(g, u)'
      BY <2>2, <2>3
    <2> QED
      BY <1>1, <1>b, <2>1, <2>4
  <1>7. ASSUME NEW t \in Threads,
               Cas(t) \/ Close(t) \/ Open(t) \/ OpenFailed(t) \/ SetTime(t) \/ Free(t)
        PROVE  Labelled'
    <2>1. UNCHANGED <<now, m_pos, ptime, back>> /\ m_cur_filetime'[Current] = m_cur_filetime[Current]
      BY <1>1, <1>7 DEF Cas, Close, Open, OpenFailed, SetTime, Free, message
    <2>2. ASSUME NEW u \in Threads, u # t PROVE LabelsOf(g, u)'
      <3>1. UNCHANGED <<pc[u], filetime[u]>>
        <4>1. /\ pc \in [Threads -> {"idle", "file", "hour", "pick", "fd", "write", "cas",
                                     "close", "open", "time", "pos", "free"}]
              /\ filetime \in [Threads -> 0..now]
          BY DEF LogInv, LogType
        <4>2. \E to : pc' = [pc EXCEPT ![t] = to]
          BY <1>7, Zenon DEF Cas, Close, Open, OpenFailed, SetTime, Free, Go
        <4>3. filetime' = filetime \/ filetime' = [filetime EXCEPT ![t] = now]
          BY <1>7, Zenon DEF Cas, Close, Open, OpenFailed, SetTime, Free
        <4> QED
          BY <2>2, <4>1, <4>2, <4>3
      <3> QED
        BY <1>3, <2>1, <3>1 DEF LabelsOf
    <2>3. LabelsOf(g, t)'
      <3>0. back[t] \in {"hour", "pick"}
        BY DEF LogInv, LogType
      <3>1. CASE Cas(t)
        <4>1. pc[t] = "cas" /\ pc'[t] \in {back[t], "close"} /\ filetime'[t] = filetime[t]
          BY <3>1 DEF Cas, Go, LogInv, LogType
        <4> QED
          BY <1>3, <2>1, <3>0, <4>1 DEF LabelsOf
      <3>2. CASE Close(t)
        <4>1. pc[t] = "close" /\ pc'[t] = "open" /\ filetime'[t] = now
          BY <3>2 DEF Close, Go, LogInv, LogType
        <4> QED
          BY <1>3, <2>1, <4>1 DEF LabelsOf
      <3>3. CASE Open(t) \/ OpenFailed(t) \/ SetTime(t)
        <4>1. /\ pc[t] \in {"open", "time"} /\ pc'[t] \in {"time", "idle", "pos"}
              /\ filetime'[t] = filetime[t]
          BY <3>3 DEF Open, OpenFailed, SetTime, Go, LogInv, LogType
        <4> QED
          BY <1>3, <2>1, <4>1 DEF LabelsOf
      <3>4. CASE Free(t)
        <4>1. pc[t] = "free" /\ pc'[t] = back[t]
          BY <3>4 DEF Free, Go, LogInv, LogType
        <4> QED
          BY <1>3, <2>1, <3>0, <4>1 DEF LabelsOf
      <3> QED
        BY <1>7, <3>1, <3>2, <3>3, <3>4
    <2>4. \A u \in Threads : LabelsOf(g, u)'
      BY <2>2, <2>3
    <2> QED
      BY <1>1, <1>b, <2>1, <2>4
  <1>8. ASSUME NEW t \in Threads, Advance(t) PROVE Labelled'
    <2>1. /\ m_pos' = m_pos + 1 /\ pc[t] = "pos" /\ pc'[t] = "free"
          /\ UNCHANGED <<now, m_cur_filetime, ptime, back, filetime>>
          /\ \A u \in Threads : u # t => pc'[u] = pc[u]
      BY <1>8 DEF Advance, Go, message, LogInv, LogType
    <2>2. Current' = m_next
      BY <1>1, <2>1, Turned
    <2>3. /\ m_cur_filetime[m_next] = filetime[t]
          /\ m_cur_filetime[Current] <= filetime[t] /\ ptime[t] <= filetime[t]
      BY <2>1 DEF LogInv, TimesInv
    <2> DEFINE l == IF back[t] = "hour" THEN ptime[t] ELSE filetime[t]
    <2>p. PICK h : h = l
      OBVIOUS
    <2>q. PICK f : f = [i \in 0..m_pos + 1 |-> IF i <= m_pos THEN g[i] ELSE <<t, h>>]
      OBVIOUS
    <2>4. h \in 0..now /\ h <= filetime[t]
      BY <1>1, <2>3, <2>p
    <2>5. /\ f \in [0..m_pos + 1 -> Threads \X (0..now)]
          /\ \A i \in 0..m_pos : f[i] = g[i]
          /\ f[m_pos + 1] = <<t, h>>
      <3>1. m_pos + 1 \in 0..m_pos + 1 /\ ~ (m_pos + 1 <= m_pos)
            /\ \A i \in 0..m_pos : i \in 0..m_pos + 1 /\ i <= m_pos
        BY <1>1
      <3>2. f[m_pos + 1] = <<t, h>> /\ \A i \in 0..m_pos : f[i] = g[i]
        BY <2>q, <3>1
      <3>3. <<t, h>> \in Threads \X (0..now)
        BY <2>4
      <3>4. \A i \in 0..m_pos + 1 : i \in 0..m_pos \/ i = m_pos + 1
        BY <1>1
      <3>5. \A i \in 0..m_pos + 1 : f[i] \in Threads \X (0..now)
        BY <1>a, <3>2, <3>3, <3>4, Zenon
      <3> QED
        BY <2>q, <3>2, <3>5
    <2>6. \A i \in 0..m_pos : g[i][1] = t => back[t] = "pick" /\ g[i][2] < filetime[t]
      BY <1>3, <2>1 DEF LabelsOf
    <2>7. \A i \in 0..m_pos : g[i] # <<t, h>>
      <3>1. back[t] = "pick" => h = filetime[t]
        BY <2>p
      <3>2. \A i \in 0..m_pos : g[i] = <<t, h>> => g[i][1] = t /\ g[i][2] = h
        OBVIOUS
      <3> QED
        BY <1>1, <1>a, <2>6, <3>1, <3>2
    <2>8. back[t] = "hour" => h = ptime[t]
      BY <2>p
    <2> HIDE DEF l
    <2>9. \A i \in 0..m_pos + 1 : i \in 0..m_pos \/ i = m_pos + 1
      BY <1>1
    <2>10. ASSUME NEW i \in 0..m_pos + 1, NEW j \in 0..m_pos + 1, f[i] = f[j]
           PROVE  i = j
      <3>1. CASE i \in 0..m_pos /\ j \in 0..m_pos
        BY <1>0, <2>5, <2>10, <3>1 DEF Labels
      <3> QED
        BY <2>5, <2>7, <2>9, <2>10, <3>1
    <2>11. \A i \in 0..m_pos + 1 : f[i][2] <= m_cur_filetime'[Current']
      <3>1. \A i \in 0..m_pos : f[i][2] <= filetime[t]
        <4>1. ASSUME NEW i \in 0..m_pos PROVE g[i][2] <= filetime[t]
          <5>1. g[i][2] \in Int /\ m_cur_filetime[Current] \in Int /\ filetime[t] \in Int
            BY <1>1, <1>a
          <5> QED
            BY <1>2, <2>3, <5>1
        <4> QED
          BY <2>5, <4>1
      <3>2. f[m_pos + 1][2] <= filetime[t]
        BY <2>4, <2>5
      <3>3. m_cur_filetime'[Current'] = filetime[t]
        BY <2>1, <2>2, <2>3
      <3> QED
        BY <2>9, <3>1, <3>2, <3>3
    <2>12. ASSUME NEW u \in Threads PROVE LabelsOf(f, u)'
      <3>1. CASE u = t
        <4>1. ASSUME NEW i \in 0..m_pos + 1, f[i][1] = t, back[t] = "hour"
              PROVE  f[i][2] <= ptime[t]
          <5>1. i = m_pos + 1
            BY <2>5, <2>6, <2>9, <4>1
          <5> QED
            BY <1>1, <2>5, <2>8, <4>1, <5>1
        <4> QED
          BY <2>1, <3>1, <4>1 DEF LabelsOf
      <3>2. CASE u # t
        <4>1. f[m_pos + 1][1] # u
          BY <2>5, <3>2
        <4>2. \A i \in 0..m_pos + 1 : f[i][1] = u => i \in 0..m_pos /\ f[i] = g[i]
          BY <2>5, <2>9, <4>1
        <4> QED
          BY <1>3, <2>1, <3>2, <4>2 DEF LabelsOf
      <3> QED
        BY <3>1, <3>2
    <2>13. Labels(f)'
      BY <2>1, <2>10, <2>11, <2>12 DEF Labels
    <2> QED
      BY <2>1, <2>5, <2>13 DEF Labelled
  <1> QED
    BY <1>4, <1>5, <1>6, <1>7, <1>8 DEF Next, new_file

LEMMA LabelsCount == LogInv /\ Labelled => FilesPerHour
  <1> SUFFICES ASSUME LogInv, Labelled PROVE FilesPerHour
    OBVIOUS
  <1>1. PICK g \in [0..m_pos -> Threads \X (0..now)] : Labels(g)
    BY DEF Labelled
  <1>2. now \in Nat /\ m_pos \in Int /\ m_pos >= -1
    BY LogAssumption DEF LogInv, LogType
  <1>3. /\ IsFiniteSet(0..now) /\ Cardinality(0..now) = now + 1
        /\ IsFiniteSet(0..m_pos) /\ Cardinality(0..m_pos) = m_pos + 1
    <2>1. 0 \in Int /\ now \in Int
      BY <1>2
    <2>2. /\ IsFiniteSet(0..now) /\ Cardinality(0..now) = IF 0 > now THEN 0 ELSE now - 0 + 1
          /\ IsFiniteSet(0..m_pos)
          /\ Cardinality(0..m_pos) = IF 0 > m_pos THEN 0 ELSE m_pos - 0 + 1
      BY <1>2, <2>1, FS_Interval
    <2> QED
      BY <1>2, <2>2
  <1>4. /\ IsFiniteSet(Threads \X (0..now))
        /\ Cardinality(Threads \X (0..now)) = Cardinality(Threads) * (now + 1)
    BY <1>3, LogAssumption, FS_Product
  <1>5. g \in Injection(0..m_pos, Threads \X (0..now))
    BY <1>1 DEF Labels, Injection, IsInjective
  <1>6. m_pos + 1 <= Cardinality(Threads) * (now + 1)
    BY <1>3, <1>4, <1>5, FS_Injection
  <1>7. Cardinality(Threads) * (now + 1) \in Int
    BY <1>2, LogAssumption, FS_CardinalityType
  <1> QED
    BY <1>2, <1>6, <1>7 DEF FilesPerHour

(* Each thread that has seen the hour change may make a file, one after the *)
(* other; no thread makes a second one in the hour.                         *)
THEOREM OneFileAThreadAndHour == Spec => []FilesPerHour
  <1>1. Spec => []Labelled
    BY LogAlways, InitLabelled, LabelStep, PTL DEF Spec
  <1> QED
    BY LogAlways, <1>1, LabelsCount, PTL
=============================================================================
