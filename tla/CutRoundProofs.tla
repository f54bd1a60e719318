--------------------------- MODULE CutRoundProofs ---------------------------
(***************************************************************************)
(* Rounds of cutting, for every number of media servers, every number of   *)
(* faults and however far the media servers are behind.  First the types   *)
(* of what the proof needs; then the invariant of a clean round.           *)
(***************************************************************************)
EXTENDS CutRound, ListLemmas, FiniteSetTheorems

Walks == [from : MediaServers \cup {Nobody}, list : Seq(MediaServers), count : Int]

LEMMA NoWalkType == NoWalk \in Walks
  BY EmptySeq DEF NoWalk, Walks

LEMMA TypeInit == Init => TypeOK
  <1> SUFFICES ASSUME Init PROVE TypeOK
    OBVIOUS
  <1>1. <<>> \in Seq(MediaServers) /\ Len(<<>>) = 0
    BY EmptySeq
  <1>2. ListsOK
    <2>1. /\ registry = <<>> /\ cutlist = <<>> /\ pos = 0
          /\ asking = Nobody /\ cpc = "idle"
      BY DEF Init, InitProcess
    <2>2. registry \in Seq(MediaServers) /\ cutlist \in Seq(MediaServers)
      BY <1>1, <2>1
    <2>3. Len(registry) = 0
      BY <1>1, <2>1
    <2> QED
      BY <2>1, <2>2, <2>3 DEF ListsOK
  <1>3. NetworkOK /\ CountOK
    <2>1. NetworkOK
      BY DEF Init, InitProcess, NetworkOK
    <2>2. m_count = 0 /\ owing = {} /\ clean \in BOOLEAN
      BY DEF Init, InitProcess
    <2>3. media_cut_over \in BOOLEAN
      BY Zenon DEF Init, InitProcess
    <2>4. m_count \in Int /\ owing \in SUBSET MediaServers
      BY <2>2
    <2> QED
      BY <2>1, <2>2, <2>3, <2>4, Zenon DEF CountOK
  <1>4. WalkOK
    BY NoWalkType DEF Init, InitProcess, WalkOK, Walks
  <1> QED
    BY <1>2, <1>3, <1>4 DEF TypeOK

LEMMA RestartTypes ==
    ASSUME TypeOK, Restart, faults' \in Nat
    PROVE  TypeOK'
  <1>1. <<>> \in Seq(MediaServers) /\ Len(<<>>) = 0
    BY EmptySeq
  <1>2. ListsOK'
    <2>1. /\ registry' = <<>> /\ cutlist' = <<>> /\ pos' = 0
          /\ asking' = Nobody /\ cpc' = "idle"
      BY DEF Restart
    <2>2. registry' \in Seq(MediaServers) /\ cutlist' \in Seq(MediaServers)
      BY <1>1, <2>1
    <2>3. Len(registry') = 0
      BY <1>1, <2>1
    <2> QED
      BY <2>1, <2>2, <2>3 DEF ListsOK
  <1>3. NetworkOK' /\ CountOK'
    <2>1. NetworkOK'
      BY DEF Restart, NetworkOK, TypeOK
    <2>2. m_count' = 0 /\ owing' = {} /\ clean' \in BOOLEAN
      BY DEF Restart
    <2>3. media_cut_over' \in BOOLEAN
      BY Zenon DEF Restart
    <2>4. m_count' \in Int /\ owing' \in SUBSET MediaServers
      BY <2>2
    <2> QED
      BY <2>1, <2>2, <2>3, <2>4, Zenon DEF CountOK
  <1>4. WalkOK'
    BY NoWalkType DEF Restart, WalkOK, Walks
  <1> QED
    BY <1>2, <1>3, <1>4 DEF TypeOK

\* What a step leaves alone keeps its type
LEMMA ListsSame ==
    ASSUME ListsOK, UNCHANGED <<registry, cutlist, pos, asking, cpc>>
    PROVE  ListsOK'
  BY DEF ListsOK

LEMMA WalkSame ==
    ASSUME WalkOK, UNCHANGED <<registry, rpc, walk>>
    PROVE  WalkOK'
  BY DEF WalkOK, Entries

LEMMA CountSame ==
    ASSUME CountOK, UNCHANGED <<m_count, media_cut_over, owing, clean>>
    PROVE  CountOK'
  BY DEF CountOK

LEMMA NetworkSame ==
    ASSUME NetworkOK, UNCHANGED <<link, jobs, ends, faults>>
    PROVE  NetworkOK'
  BY DEF NetworkOK

\* The handler is done
LEMMA WalkDone ==
    ASSUME rpc' \in {"idle", "test"}, walk' \in {walk, NoWalk}, WalkOK
    PROVE  WalkOK'
  BY NoWalkType DEF WalkOK, Walks

LEMMA NetworkTypes ==
    ASSUME TypeOK, Network
    PROVE  TypeOK'
  <1>1. ASSUME NEW m \in MediaServers, EndCut(m) PROVE TypeOK'
    <2>1. NetworkOK'
      BY <1>1 DEF EndCut, TypeOK, NetworkOK
    <2> QED
      BY <1>1, <2>1, ListsSame, WalkSame, CountSame
         DEF EndCut, TypeOK, cutter, raknet
  <1>2. ASSUME NEW m \in MediaServers, NEW k \in {"break", "quit"}, Break(m, k)
        PROVE  TypeOK'
    <2>1. NetworkOK'
      BY <1>2 DEF Break, Fault, TypeOK, NetworkOK
    <2> QED
      BY <1>2, <2>1, ListsSame, WalkSame, CountSame
         DEF Break, TypeOK, cutter, raknet
  <1>3. CASE Crash
    BY <1>3, RestartTypes DEF Crash, Fault, TypeOK, NetworkOK
  <1> QED
    BY <1>1, <1>2, <1>3 DEF Network

LEMMA JoinTypes ==
    ASSUME TypeOK, NEW m \in MediaServers, M2CJoin(m)
    PROVE  TypeOK'
  <1>1. registry \in Seq(MediaServers) /\ Len(registry) \in Nat
    BY LenProperties DEF TypeOK, ListsOK
  <1>2. /\ registry' \in Seq(MediaServers)
        /\ Len(registry') = Len(registry) + 1
    BY <1>1, AppendProperties DEF M2CJoin
  <1>3. ListsOK'
    BY <1>1, <1>2 DEF M2CJoin, TypeOK, ListsOK, cutter
  <1>4. NetworkOK'
    BY DEF M2CJoin, TypeOK, NetworkOK
  <1>5. WalkOK'
    BY WalkDone DEF M2CJoin, TypeOK, raknet
  <1> QED
    BY <1>3, <1>4, <1>5, CountSame DEF M2CJoin, TypeOK

LEMMA LostTypes ==
    ASSUME TypeOK, NEW m \in MediaServers, LostConn(m) \/ Leave(m)
    PROVE  TypeOK'
  <1>0. StartErasing(m) /\ registry' = registry
    BY DEF LostConn, Leave
  <1>1. ListsOK' /\ CountOK'
    BY ListsSame, CountSame DEF LostConn, Leave, TypeOK, cutter
  <1>2. NetworkOK'
    BY DEF LostConn, Leave, Fault, TypeOK, NetworkOK
  <1>3. CASE Entries(m) = {}
    BY <1>0, <1>1, <1>2, <1>3, WalkSame DEF StartErasing, TypeOK, raknet
  <1>4. CASE Entries(m) # {}
    <2>1. rpc' = "erase" /\ walk' = [NoWalk EXCEPT !.from = m]
      BY <1>0, <1>4 DEF StartErasing
    <2>2. walk' \in Walks /\ walk'.from = m
      BY <2>1, NoWalkType DEF Walks, NoWalk
    <2>3. Entries(m)' = Entries(m)
      BY <1>0 DEF Entries
    <2>4. WalkOK'
      BY <1>4, <2>1, <2>2, <2>3 DEF WalkOK, Walks, Entries
    <2> QED
      BY <1>1, <1>2, <2>4 DEF TypeOK
  <1> QED
    BY <1>3, <1>4

LEMMA EraseTypes ==
    ASSUME TypeOK, NEW i \in DOMAIN registry, EraseEntry(i)
    PROVE  TypeOK'
  <1>1. /\ registry \in Seq(MediaServers) /\ Len(registry) \in Nat
        /\ DOMAIN registry = 1..Len(registry)
    BY LenProperties DEF TypeOK, ListsOK
  <1>2. /\ registry' \in Seq(MediaServers)
        /\ Len(registry') = Len(registry) - 1
        /\ \A j \in 1..Len(registry) - 1 :
               registry'[j] = IF j < i THEN registry[j] ELSE registry[j + 1]
    BY <1>1, RemoveOne DEF EraseEntry
  <1>3. DOMAIN registry' = 1..Len(registry) - 1
    BY <1>2, LenProperties
  <1>4. ListsOK'
    <2>1. pos' \in 0..Len(registry')
      BY <1>1, <1>2 DEF EraseEntry, TypeOK, ListsOK
    <2> QED
      BY <1>2, <2>1 DEF EraseEntry, TypeOK, ListsOK
  <1>5. NetworkOK' /\ CountOK'
    BY NetworkSame, CountSame DEF EraseEntry, TypeOK, network
  <1>6. CASE Entries(walk.from) = {i}
    BY <1>4, <1>5, <1>6, WalkDone DEF EraseEntry, TypeOK
  <1>7. CASE Entries(walk.from) # {i}
    <2>1. rpc' = rpc /\ walk' = walk /\ i \in Entries(walk.from)
      BY <1>7 DEF EraseEntry, raknet
    <2>2. PICK j \in Entries(walk.from) : j # i
      BY <1>7, <2>1
    <2>3. j \in 1..Len(registry) /\ registry[j] = walk.from /\ i < j
      BY <1>1, <2>2 DEF EraseEntry, Entries
    <2>4. j - 1 \in 1..Len(registry) - 1 /\ registry'[j - 1] = registry[j]
      BY <1>1, <1>2, <2>3
    <2>5. Entries(walk.from)' # {}
      BY <1>3, <2>1, <2>3, <2>4 DEF Entries
    <2>6. WalkOK'
      BY <2>1, <2>5 DEF TypeOK, WalkOK, Entries
    <2> QED
      BY <1>4, <1>5, <2>6 DEF TypeOK
  <1> QED
    BY <1>6, <1>7

LEMMA CountTypes ==
    ASSUME TypeOK, (\E m \in MediaServers : WalkAsM(m)) \/ CountOff \/ CountRace
                   \/ TestCount \/ WalkCrash
    PROVE  TypeOK'
  <1>1. ASSUME NEW m \in MediaServers, WalkAsM(m) PROVE TypeOK'
    <2>1. NetworkOK' /\ CountOK'
      BY <1>1 DEF WalkAsM, TypeOK, NetworkOK, CountOK
    <2>2. walk' \in Walks /\ walk'.from = m /\ rpc' = "count"
      BY <1>1 DEF WalkAsM, TypeOK, ListsOK, CountOK, Walks
    <2> QED
      BY <1>1, <2>1, <2>2, ListsSame DEF WalkAsM, TypeOK, WalkOK, Walks, cutter
  <1>2. CASE CountOff \/ CountRace
    <2>1. PICK from \in Int, n \in Found(walk.from) : m_count' = from - n
      BY <1>2 DEF CountOff, CountRace, TypeOK, CountOK, WalkOK
    <2>2. n \in Int
      BY <2>1 DEF Found
    <2>3. CountOK'
      BY <1>2, <2>1, <2>2 DEF CountOff, CountRace, TypeOK, CountOK
    <2>4. NetworkOK'
      BY <1>2 DEF CountOff, CountRace, Fault, TypeOK, NetworkOK, network
    <2> QED
      BY <1>2, <2>3, <2>4, ListsSame, WalkDone
         DEF CountOff, CountRace, TypeOK, cutter
  <1>3. CASE TestCount
    <2>1. CountOK'
      BY <1>3 DEF TestCount, TypeOK, CountOK
    <2> QED
      BY <1>3, <2>1, ListsSame, NetworkSame, WalkDone
         DEF TestCount, TypeOK, cutter, network
  <1>4. CASE WalkCrash
    BY <1>4, RestartTypes DEF WalkCrash, Fault, TypeOK, NetworkOK
  <1> QED
    BY <1>1, <1>2, <1>3, <1>4

LEMMA CutterTypes ==
    ASSUME TypeOK, Cutter \/ TakeSignal
    PROVE  TypeOK'
  <1>1. /\ registry \in Seq(MediaServers) /\ Len(registry) \in Nat
        /\ cutlist \in Seq(MediaServers) /\ Len(cutlist) \in Nat
        /\ <<>> \in Seq(MediaServers)
    BY LenProperties, EmptySeq DEF TypeOK, ListsOK
  <1>2. CASE BeginRound
    <2>1. ListsOK'
      BY <1>1, <1>2 DEF BeginRound, TypeOK, ListsOK
    <2>2. CountOK'
      BY <1>2 DEF BeginRound, TypeOK, CountOK
    <2> QED
      BY <1>2, <2>1, <2>2, NetworkSame, WalkSame DEF BeginRound, TypeOK, network, raknet
  <1>3. CASE SendStart
    <2>1. asking' \in MediaServers
      BY <1>1, <1>3, ElementOfSeq DEF SendStart, TypeOK, ListsOK
    <2>2. ListsOK'
      BY <1>1, <1>3, <2>1 DEF SendStart, TypeOK, ListsOK
    <2>3. NetworkOK' /\ CountOK'
      BY <1>3, <2>1 DEF SendStart, TypeOK, NetworkOK, CountOK
    <2> QED
      BY <1>3, <2>2, <2>3, WalkSame DEF SendStart, TypeOK, raknet
  <1>4. CASE ListStart
    <2>1. asking \in MediaServers
      BY <1>4 DEF ListStart, TypeOK, ListsOK
    <2>2. ListsOK'
      BY <1>1, <1>4, <2>1, AppendProperties DEF ListStart, TypeOK, ListsOK
    <2> QED
      BY <1>4, <2>2, NetworkSame, CountSame, WalkSame
         DEF ListStart, TypeOK, network, raknet
  <1>5. CASE SetCount
    <2>1. ListsOK' /\ CountOK'
      BY <1>1, <1>5 DEF SetCount, TypeOK, ListsOK, CountOK
    <2> QED
      BY <1>5, <2>1, NetworkSame, WalkSame DEF SetCount, TypeOK, network, raknet
  <1>6. CASE CutCrash
    BY <1>6, RestartTypes DEF CutCrash, TypeOK, NetworkOK
  <1>7. CASE TakeSignal
    <2>1. CountOK'
      BY <1>7 DEF TakeSignal, TypeOK, CountOK
    <2> QED
      BY <1>7, <2>1, ListsSame, NetworkSame, WalkSame
         DEF TakeSignal, TypeOK, cutter, network, raknet
  <1> QED
    BY <1>2, <1>3, <1>4, <1>5, <1>6, <1>7 DEF Cutter

LEMMA TypeStep == TypeOK /\ [Next]_vars => TypeOK'
  <1> SUFFICES ASSUME TypeOK, [Next]_vars PROVE TypeOK'
    OBVIOUS
  <1>1. CASE UNCHANGED vars
    BY <1>1, ListsSame, NetworkSame, CountSame, WalkSame
       DEF TypeOK, vars, network, cutter, raknet
  <1>2. CASE Raknet
    BY <1>2, JoinTypes, LostTypes, EraseTypes, CountTypes DEF Raknet
  <1> QED
    BY <1>1, <1>2, NetworkTypes, CutterTypes DEF Next

(* Type correctness, and that lostconn finds what it still has to erase     *)
(* although the cut thread goes through the list at the same time.          *)
THEOREM CutTypes == Spec => []TypeOK
  BY TypeInit, TypeStep, PTL DEF Spec

-----------------------------------------------------------------------------
(***************************************************************************)
(* A clean round.  While the servers are asked, the raknet thread counts   *)
(* nothing, every server asked is in As_M once, and their number is the    *)
(* length of As_M.  After that m_count is the number of servers that owe   *)
(* an end.  A server that owes none has no cut to make and no end on the   *)
(* way; one that owes has at most one of both.                             *)
(***************************************************************************)
Listed(m) == \E i \in DOMAIN cutlist : cutlist[i] = m

\* the end of m that the raknet thread is counting
Counted(m) == IF rpc = "count" /\ walk.from = m THEN 1 ELSE 0

OneEach ==
    \A m \in MediaServers : jobs[m] + ends[m] + Counted(m) <= IF m \in owing THEN 1 ELSE 0

AsksOnce ==
    /\ \A i, j \in DOMAIN cutlist : cutlist[i] = cutlist[j] => i = j
    /\ \A m \in owing : Listed(m) \/ m = asking
    /\ asking # Nobody => cpc = "send" /\ ~Listed(asking) /\ asking \in owing

Asking ==
    cpc = "send" =>
        /\ rpc \notin {"count", "test"}
        /\ \A i \in DOMAIN cutlist : cutlist[i] \in owing
        /\ Cardinality(owing) = Len(cutlist) + IF asking = Nobody THEN 0 ELSE 1

OffOne ==
    cpc = "idle" =>
        /\ cutlist # <<>> => m_count = Cardinality(owing)
        /\ rpc = "count" => walk.list = cutlist /\ walk.count = m_count

\* this holds of every round
NoneAsked == cpc = "idle" => asking = Nobody

CleanInv == clean => OneEach /\ AsksOnce /\ Asking /\ OffOne

LEMMA NoneAskedAlways == Spec => []NoneAsked
  <1>1. Init => NoneAsked
    BY DEF Init, InitProcess, NoneAsked
  <1>2. NoneAsked /\ [Next]_vars => NoneAsked'
    BY DEF NoneAsked, Next, vars, Network, Raknet, Cutter, TakeSignal, EndCut, Break,
           Crash, M2CJoin, LostConn, Leave, EraseEntry, WalkAsM, CountOff, CountRace,
           TestCount, WalkCrash, BeginRound, SendStart, ListStart, SetCount, CutCrash,
           Restart, cutter
  <1> QED
    BY <1>1, <1>2, PTL DEF Spec

LEMMA CleanInit == Init => CleanInv
  <1> SUFFICES ASSUME Init PROVE CleanInv
    OBVIOUS
  <1>1. cutlist = <<>> /\ DOMAIN cutlist = {} /\ Len(cutlist) = 0 /\ owing = {}
    BY EmptySeq DEF Init, InitProcess
  <1>2. asking = Nobody /\ cpc = "idle" /\ rpc = "idle"
    BY DEF Init, InitProcess
  <1>3. OneEach
    BY <1>1, <1>2 DEF Init, OneEach, Counted
  <1> QED
    BY <1>1, <1>2, <1>3 DEF CleanInv, AsksOnce, Asking, OffOne, Listed

\* The parts of the invariant say nothing of what these steps change
LEMMA RoundSame ==
    ASSUME CleanInv, clean' => clean,
           UNCHANGED <<cutlist, cpc, asking, owing, m_count>>,
           rpc' # rpc => rpc' \notin {"count", "test"},
           rpc' = "count" => walk' = walk,
           rpc = "count" => rpc' = "count",
           \A m \in MediaServers : clean => jobs'[m] + ends'[m] <= jobs[m] + ends[m],
           TypeOK, TypeOK'
    PROVE  CleanInv'
  <1> SUFFICES ASSUME clean' PROVE CleanInv'
    BY DEF CleanInv
  <1>1. OneEach /\ AsksOnce /\ Asking /\ OffOne /\ clean
    BY DEF CleanInv
  <1>2. rpc' = "count" <=> rpc = "count"
    OBVIOUS
  <1>3. OneEach'
    <2>1. \A m \in MediaServers : Counted(m)' = Counted(m)
      BY <1>2 DEF Counted
    <2>2. \A m \in MediaServers : /\ jobs[m] \in Nat /\ ends[m] \in Nat
                                 /\ jobs'[m] \in Nat /\ ends'[m] \in Nat
      BY DEF TypeOK, NetworkOK
    <2>3. \A m \in MediaServers : Counted(m) \in {0, 1}
      BY DEF Counted
    <2> QED
      BY <1>1, <2>1, <2>2, <2>3 DEF OneEach
  <1>4. AsksOnce' /\ Asking'
    BY <1>1 DEF AsksOnce, Asking, Listed
  <1>5. OffOne'
    BY <1>1, <1>2 DEF OffOne
  <1> QED
    BY <1>3, <1>4, <1>5 DEF CleanInv

LEMMA OwingFinite ==
    ASSUME TypeOK
    PROVE  IsFiniteSet(owing) /\ Cardinality(owing) \in Nat
  <1>1. owing \in SUBSET MediaServers
    BY DEF TypeOK, CountOK
  <1> QED
    BY <1>1, CutAssumption, FS_Subset, FS_CardinalityType

\* A new round: nobody owes, nobody is busy
LEMMA BeginClean ==
    ASSUME TypeOK, TypeOK', NoneAsked, BeginRound
    PROVE  CleanInv'
  <1> SUFFICES ASSUME clean' PROVE CleanInv'
    BY DEF CleanInv
  <1>1. /\ cutlist' = <<>> /\ DOMAIN cutlist' = {} /\ Len(cutlist') = 0
        /\ owing' = {} /\ asking' = Nobody /\ cpc' \in {"idle", "send"}
    BY EmptySeq DEF BeginRound, NoneAsked
  <1>2. rpc' = "idle" /\ \A m \in MediaServers : jobs'[m] = 0 /\ ends'[m] = 0
    BY DEF BeginRound, network, raknet
  <1>3. OneEach'
    BY <1>1, <1>2 DEF OneEach, Counted
  <1> QED
    BY <1>1, <1>2, <1>3, FS_EmptySet DEF CleanInv, AsksOnce, Asking, OffOne, Listed

\* One more server is asked, for the first time
LEMMA SendClean ==
    ASSUME TypeOK, TypeOK', CleanInv, SendStart
    PROVE  CleanInv'
  <1> SUFFICES ASSUME clean' PROVE CleanInv'
    BY DEF CleanInv
  <1>1. /\ OneEach /\ AsksOnce /\ Asking /\ OffOne /\ clean /\ asking' \notin owing
        /\ cpc = "send" /\ cpc' = "send" /\ asking = Nobody /\ owing' = owing \cup {asking'}
        /\ cutlist' = cutlist /\ rpc' = rpc /\ walk' = walk /\ ends' = ends
        /\ jobs' = [jobs EXCEPT ![asking'] = IF link[asking'] = "up" THEN @ + 1 ELSE @]
    BY DEF CleanInv, SendStart, raknet
  <1>2. asking' \in MediaServers
    <2>1. asking' \in owing'
      BY <1>1
    <2> QED
      BY <2>1 DEF TypeOK, CountOK
  <1>3. OneEach'
    <2> SUFFICES ASSUME NEW m \in MediaServers
                 PROVE  jobs'[m] + ends'[m] + Counted(m)' <= IF m \in owing' THEN 1 ELSE 0
      BY DEF OneEach
    <2>1. /\ jobs[m] \in Nat /\ ends[m] \in Nat /\ Counted(m) = 0 /\ Counted(m)' = 0
          /\ jobs[m] + ends[m] <= IF m \in owing THEN 1 ELSE 0
      BY <1>1 DEF TypeOK, NetworkOK, OneEach, Counted, Asking
    <2>2. CASE m = asking'
      BY <1>1, <1>2, <2>1, <2>2 DEF TypeOK, NetworkOK
    <2>3. CASE m # asking'
      <3>1. jobs'[m] = jobs[m] /\ ends'[m] = ends[m] /\ (m \in owing' <=> m \in owing)
        BY <1>1, <1>2, <2>3 DEF TypeOK, NetworkOK
      <3> QED
        BY <2>1, <3>1
    <2> QED
      BY <2>2, <2>3
  <1>4. AsksOnce'
    <2>1. \A m \in owing : m # Nobody
      BY CutAssumption DEF TypeOK, CountOK
    <2>2. \A m \in owing' : Listed(m)' \/ m = asking'
      BY <1>1, <2>1 DEF AsksOnce, Listed
    <2>3. ~Listed(asking)'
      BY <1>1 DEF Asking, Listed
    <2> QED
      BY <1>1, <2>2, <2>3 DEF AsksOnce
  <1>5. Asking'
    <2>1. Cardinality(owing') = Cardinality(owing) + 1
      BY <1>1, OwingFinite, FS_AddElement
    <2>2. Len(cutlist) \in Nat /\ asking' # Nobody
      BY <1>2, LenProperties, CutAssumption DEF TypeOK, ListsOK
    <2> QED
      BY <1>1, <2>1, <2>2 DEF Asking
  <1>6. OffOne'
    BY <1>1 DEF OffOne
  <1> QED
    BY <1>3, <1>4, <1>5, <1>6 DEF CleanInv

\* ... and is put into As_M
LEMMA ListClean ==
    ASSUME TypeOK, TypeOK', CleanInv, ListStart
    PROVE  CleanInv'
  <1> SUFFICES ASSUME clean' PROVE CleanInv'
    BY DEF CleanInv
  <1>1. /\ OneEach /\ AsksOnce /\ Asking /\ clean
        /\ cpc = "send" /\ cpc' = "send" /\ asking # Nobody /\ asking' = Nobody
        /\ cutlist' = Append(cutlist, asking) /\ owing' = owing
        /\ UNCHANGED <<rpc, walk, jobs, ends>>
    BY DEF CleanInv, ListStart, raknet, network
  <1>2. asking \in MediaServers /\ cutlist \in Seq(MediaServers)
    BY <1>1 DEF TypeOK, ListsOK
  <1>3. /\ Len(cutlist) \in Nat /\ DOMAIN cutlist = 1..Len(cutlist)
        /\ Len(cutlist') = Len(cutlist) + 1 /\ DOMAIN cutlist' = 1..Len(cutlist) + 1
        /\ \A i \in 1..Len(cutlist) : cutlist'[i] = cutlist[i]
        /\ cutlist'[Len(cutlist) + 1] = asking
    BY <1>1, <1>2, AppendProperties, LenProperties
  <1>4. OneEach'
    BY <1>1 DEF OneEach, Counted
  <1>5. AsksOnce'
    <2>1. \A i, j \in DOMAIN cutlist' : cutlist'[i] = cutlist'[j] => i = j
      <3> SUFFICES ASSUME NEW i \in DOMAIN cutlist', NEW j \in DOMAIN cutlist',
                          cutlist'[i] = cutlist'[j]
                   PROVE  i = j
        OBVIOUS
      <3>1. CASE i \in 1..Len(cutlist) /\ j \in 1..Len(cutlist)
        BY <1>1, <1>3, <3>1 DEF AsksOnce
      <3>2. CASE i = Len(cutlist) + 1 /\ j \in 1..Len(cutlist)
        BY <1>1, <1>3, <3>2 DEF AsksOnce, Listed
      <3>3. CASE i \in 1..Len(cutlist) /\ j = Len(cutlist) + 1
        BY <1>1, <1>3, <3>3 DEF AsksOnce, Listed
      <3> QED
        BY <1>3, <3>1, <3>2, <3>3
    <2>2. \A m \in owing : Listed(m)'
      <3> SUFFICES ASSUME NEW m \in owing PROVE Listed(m)'
        OBVIOUS
      <3>1. CASE m = asking
        BY <1>3, <3>1 DEF Listed
      <3>2. CASE Listed(m)
        BY <1>3, <3>2 DEF Listed
      <3> QED
        BY <1>1, <3>1, <3>2 DEF AsksOnce
    <2> QED
      BY <1>1, <2>1, <2>2 DEF AsksOnce
  <1>6. Asking'
    <2>1. \A i \in DOMAIN cutlist' : cutlist'[i] \in owing
      BY <1>1, <1>3 DEF Asking, AsksOnce
    <2> QED
      BY <1>1, <1>3, <2>1 DEF Asking
  <1>7. OffOne'
    BY <1>1 DEF OffOne
  <1> QED
    BY <1>4, <1>5, <1>6, <1>7 DEF CleanInv

\* m_count is set, with nothing counted yet
LEMMA SetClean ==
    ASSUME TypeOK, TypeOK', CleanInv, SetCount
    PROVE  CleanInv'
  <1> SUFFICES ASSUME clean' PROVE CleanInv'
    BY DEF CleanInv
  <1>1. /\ OneEach /\ AsksOnce /\ Asking /\ clean
        /\ cpc = "send" /\ cpc' = "idle" /\ asking = Nobody
        /\ UNCHANGED <<cutlist, owing, asking, rpc, walk, jobs, ends>>
        /\ m_count' = Len(cutlist)
    BY DEF CleanInv, SetCount, raknet, network
  <1>2. OneEach'
    BY <1>1 DEF OneEach, Counted
  <1>3. AsksOnce' /\ Asking'
    BY <1>1 DEF AsksOnce, Asking, Listed
  <1>4. OffOne'
    <2>1. Len(cutlist) \in Nat
      BY LenProperties DEF TypeOK, ListsOK
    <2> QED
      BY <1>1, <2>1 DEF OffOne, Asking
  <1> QED
    BY <1>2, <1>3, <1>4 DEF CleanInv

\* An end begins to be counted; while servers are asked the round gets unclean
LEMMA WalkClean ==
    ASSUME TypeOK, TypeOK', CleanInv, NEW m \in MediaServers, WalkAsM(m)
    PROVE  CleanInv'
  <1> SUFFICES ASSUME clean' PROVE CleanInv'
    BY DEF CleanInv
  <1>1. /\ OneEach /\ AsksOnce /\ OffOne /\ clean
        /\ cpc = "idle" /\ rpc = "idle" /\ rpc' = "count"
        /\ UNCHANGED <<cutlist, owing, asking, cpc, m_count, jobs>>
        /\ walk' = [from |-> m, list |-> cutlist, count |-> m_count]
        /\ ends[m] > 0 /\ ends' = [ends EXCEPT ![m] = @ - 1]
    BY DEF CleanInv, WalkAsM, cutter
  <1>2. OneEach'
    <2> SUFFICES ASSUME NEW n \in MediaServers
                 PROVE  jobs'[n] + ends'[n] + Counted(n)' <= IF n \in owing' THEN 1 ELSE 0
      BY DEF OneEach
    <2>1. /\ jobs[n] \in Nat /\ ends[n] \in Nat /\ Counted(n) = 0
          /\ Counted(n)' = IF n = m THEN 1 ELSE 0
          /\ jobs[n] + ends[n] <= IF n \in owing THEN 1 ELSE 0
          /\ ends'[n] = IF n = m THEN ends[n] - 1 ELSE ends[n]
      BY <1>1 DEF TypeOK, NetworkOK, OneEach, Counted
    <2> QED
      BY <1>1, <2>1
  <1>3. AsksOnce'
    BY <1>1 DEF AsksOnce, Listed
  <1>4. Asking' /\ OffOne'
    BY <1>1 DEF Asking, OffOne
  <1> QED
    BY <1>2, <1>3, <1>4 DEF CleanInv

\* The end is counted off: its server is in As_M exactly once
LEMMA CountClean ==
    ASSUME TypeOK, TypeOK', CleanInv, CountOff \/ CountRace
    PROVE  CleanInv'
  <1> SUFFICES ASSUME clean' PROVE CleanInv'
    BY DEF CleanInv
  <1> DEFINE m == walk.from
  <1>1. /\ OneEach /\ AsksOnce /\ Asking /\ OffOne /\ clean
        /\ rpc = "count" /\ rpc' = "test"
        /\ UNCHANGED <<cutlist, asking, cpc, jobs, ends>>
        /\ owing' = owing \ {m}
    BY DEF CleanInv, CountOff, CountRace, cutter, network
  <1>2. cpc = "idle" /\ walk.list = cutlist /\ walk.count = m_count
    BY <1>1 DEF Asking, OffOne, TypeOK, ListsOK
  <1>3. m \in MediaServers /\ m # Nobody /\ cutlist \in Seq(MediaServers)
    BY <1>1, CutAssumption DEF TypeOK, WalkOK, ListsOK
  <1>4. m \in owing /\ jobs[m] = 0 /\ ends[m] = 0
    <2>1. Counted(m) = 1 /\ jobs[m] \in Nat /\ ends[m] \in Nat
      BY <1>1, <1>3 DEF Counted, TypeOK, NetworkOK
    <2>2. jobs[m] + ends[m] + 1 <= IF m \in owing THEN 1 ELSE 0
      BY <1>1, <1>3, <2>1 DEF OneEach
    <2> QED
      BY <2>1, <2>2
  <1>5. Hits(m, cutlist) = 1 /\ cutlist # <<>>
    <2>1. PICK i \in DOMAIN cutlist : cutlist[i] = m
      BY <1>1, <1>2, <1>3, <1>4 DEF AsksOnce, Listed
    <2>2. {j \in DOMAIN cutlist : cutlist[j] = m} = {i}
      BY <1>1, <2>1 DEF AsksOnce
    <2>3. cutlist # <<>>
      BY <2>1, EmptySeq
    <2> QED
      BY <2>2, <2>3, FS_Singleton DEF Hits
  <1>6. m_count' = m_count - 1
    <2>1. CountOff
      BY <1>2 DEF CountRace
    <2>2. IsPrefix(walk.list, cutlist)
      BY <1>2, <1>3, LenProperties DEF IsPrefix
    <2>3. Found(m) = {1}
      BY <1>2, <1>5, <2>2 DEF Found
    <2>4. PICK n \in Found(m) : m_count' = m_count - n
      BY <2>1 DEF CountOff
    <2> QED
      BY <2>3, <2>4
  <1>7. OneEach'
    <2> SUFFICES ASSUME NEW n \in MediaServers
                 PROVE  jobs'[n] + ends'[n] + Counted(n)' <= IF n \in owing' THEN 1 ELSE 0
      BY DEF OneEach
    <2>1. /\ jobs[n] \in Nat /\ ends[n] \in Nat /\ Counted(n)' = 0
          /\ Counted(n) = IF n = m THEN 1 ELSE 0
          /\ jobs[n] + ends[n] + Counted(n) <= IF n \in owing THEN 1 ELSE 0
      BY <1>1 DEF TypeOK, NetworkOK, OneEach, Counted
    <2> HIDE DEF m
    <2> QED
      BY <1>1, <1>4, <2>1
  <1>8. AsksOnce' /\ Asking'
    <2>1. asking' = Nobody
      BY <1>1, <1>2 DEF AsksOnce
    <2> QED
      BY <1>1, <1>2, <2>1 DEF AsksOnce, Asking, Listed
  <1>9. OffOne'
    <2>1. m_count = Cardinality(owing) /\ m_count \in Int
      BY <1>1, <1>2, <1>5 DEF OffOne, TypeOK, CountOK
    <2>2. Cardinality(owing') = Cardinality(owing) - 1
      BY <1>1, <1>4, OwingFinite, FS_RemoveElement
    <2> QED
      BY <1>1, <1>6, <2>1, <2>2 DEF OffOne
  <1> QED
    BY <1>7, <1>8, <1>9 DEF CleanInv

LEMMA CleanStep ==
    ASSUME TypeOK, TypeOK', NoneAsked, CleanInv, [Next]_vars
    PROVE  CleanInv'
  <1>0. \A m \in MediaServers : jobs[m] \in Nat /\ ends[m] \in Nat
    BY DEF TypeOK, NetworkOK
  <1>1. CASE Crash \/ WalkCrash \/ CutCrash
    BY <1>1 DEF Crash, WalkCrash, CutCrash, Restart, CleanInv
  <1>2. ASSUME NEW m \in MediaServers, EndCut(m) PROVE CleanInv'
    <2>1. \A n \in MediaServers : jobs'[n] + ends'[n] <= jobs[n] + ends[n]
      <3> TAKE n \in MediaServers
      <3>1. /\ jobs'[n] = IF n = m THEN jobs[n] - 1 ELSE jobs[n]
            /\ ends'[n] \in {ends[n], IF n = m THEN ends[n] + 1 ELSE ends[n]}
        BY <1>2 DEF EndCut, TypeOK, NetworkOK
      <3> QED
        BY <1>0, <3>1
    <2> QED
      BY <1>2, <2>1, RoundSame DEF EndCut, cutter, raknet
  <1>3. ASSUME NEW m \in MediaServers, NEW k \in {"break", "quit"}, Break(m, k)
        PROVE  CleanInv'
    <2>1. \A n \in MediaServers : jobs'[n] + ends'[n] <= jobs[n] + ends[n]
      <3> TAKE n \in MediaServers
      <3>1. jobs'[n] \in {0, jobs[n]} /\ ends'[n] \in 0..ends[n]
        BY <1>3 DEF Break, TypeOK, NetworkOK
      <3> QED
        BY <1>0, <3>1
    <2> QED
      BY <1>3, <2>1, RoundSame DEF Break, cutter, raknet
  <1>4. CASE \/ \E m \in MediaServers : M2CJoin(m) \/ LostConn(m) \/ Leave(m)
             \/ \E i \in DOMAIN registry : EraseEntry(i)
             \/ TestCount \/ TakeSignal \/ UNCHANGED vars
    <2>1. /\ UNCHANGED <<cutlist, cpc, asking, owing, m_count, jobs, ends, clean>>
          /\ rpc' # rpc => rpc' \notin {"count", "test"}
          /\ rpc' = "count" => walk' = walk
          /\ rpc = "count" => rpc' = "count"
      BY <1>4 DEF M2CJoin, LostConn, Leave, StartErasing, EraseEntry, TestCount, TakeSignal,
                  vars, network, cutter, raknet
    <2> QED
      BY <1>0, <2>1, RoundSame
  <1>5. CASE BeginRound
    BY <1>5, BeginClean
  <1>6. CASE SendStart
    BY <1>6, SendClean
  <1>7. CASE ListStart
    BY <1>7, ListClean
  <1>8. CASE SetCount
    BY <1>8, SetClean
  <1>9. CASE (\E m \in MediaServers : WalkAsM(m)) \/ CountOff \/ CountRace
    BY <1>9, WalkClean, CountClean
  <1> QED
    BY <1>1, <1>2, <1>3, <1>4, <1>5, <1>6, <1>7, <1>8, <1>9
       DEF Next, Network, Raknet, Cutter

LEMMA CleanCorrect == Spec => []CleanInv
  <1>1. TypeOK /\ TypeOK' /\ NoneAsked /\ CleanInv /\ [Next]_vars => CleanInv'
    BY CleanStep
  <1> QED
    BY <1>1, CleanInit, CutTypes, NoneAskedAlways, PTL DEF Spec

(* In a clean round m_count is the number of media servers that have not    *)
(* ended their cut, for every number of media servers.                      *)
THEOREM MCountIsOwing == Spec => []CountIsOwing
  <1>1. CleanInv => CountIsOwing
    BY DEF CleanInv, OffOne, CountIsOwing
  <1> QED
    BY <1>1, CleanCorrect, PTL

(* A clean round lets the dispatcher merge only when every media server it  *)
(* asked has ended its cut, whatever went wrong in the rounds before it.    *)
THEOREM SignalIsAfterAll == Spec => []SignalAfterAll
  <1>1. TypeOK /\ CleanInv => SignalAfterAll
    <2> SUFFICES ASSUME TypeOK, CleanInv, clean, rpc = "test", m_count = 0,
                        NEW m \in MediaServers, m \in ToSet(cutlist)
                 PROVE  jobs[m] = 0
      BY DEF SignalAfterAll
    <2>1. cpc = "idle" /\ cutlist # <<>>
      <3>1. cutlist # <<>>
        BY EmptySeq DEF ToSet
      <3> QED
        BY <3>1 DEF CleanInv, Asking, TypeOK, ListsOK
    <2>2. owing = {}
      BY <2>1, OwingFinite, FS_EmptySet DEF CleanInv, OffOne
    <2>3. jobs[m] + ends[m] + Counted(m) <= 0
      BY <2>2 DEF CleanInv, OneEach
    <2> QED
      BY <2>3 DEF Counted, TypeOK, NetworkOK
  <1> QED
    BY <1>1, CutTypes, CleanCorrect, PTL
=============================================================================
