--------------------------- MODULE DispatchProofs ---------------------------
(* Theorems about Dispatch, for every value of its constants.               *)
EXTENDS Dispatch, ListLemmas, WellFoundedInduction, TLAPS

(* getoklogs and lostconn take the first matching entry of the list: there  *)
(* is one as soon as an entry matches.                                      *)
LEMMA FirstOfIn ==
  ASSUME NEW S \in SUBSET Nat, S # {}
  PROVE  FirstOf(S) \in S /\ \A j \in S : FirstOf(S) <= j
<1>1. \E i \in S : \A j \in S : ~ (<<j, i>> \in OpToRel(<, Nat))
  BY NatLessThanWellFounded, WFMin, Zenon
<1>2. PICK i \in S : \A j \in S : ~ (<<j, i>> \in OpToRel(<, Nat))
  BY <1>1
<1>3. \A j \in S : i <= j
  <2>1. SUFFICES ASSUME NEW j \in S, j < i PROVE FALSE
    OBVIOUS
  <2>2. <<j, i>> \in OpToRel(<, Nat)
    BY <2>1 DEF OpToRel
  <2> QED BY <1>2, <2>2
<1> QED BY <1>3 DEF FirstOf


(* The statements of mysqlop: a row that is changed or inserted is a row,   *)
(* and no Workid gets lost.                                                 *)
LEMMA RowChanged ==
  ASSUME ticklog \in Seq(Row), NEW w \in Workids, NEW r \in Row,
         ticklog' = [ticklog EXCEPT ![w] = r]
  PROVE  /\ ticklog' \in Seq(Row)
         /\ Len(ticklog') = Len(ticklog)
         /\ \A v \in Workids : ticklog'[v] = IF v = w THEN r ELSE ticklog[v]
BY ExceptSeq DEF Workids

LEMMA RowAdded ==
  ASSUME ticklog \in Seq(Row), NEW r \in Row, ticklog' = Append(ticklog, r)
  PROVE  /\ ticklog' \in Seq(Row)
         /\ Len(ticklog') = Len(ticklog) + 1
         /\ \A v \in Workids : ticklog'[v] = ticklog[v]
BY AppendProperties DEF Workids

(* The table may change and grow as long as no thread learns a new Workid.  *)
LEMMA TableGrows ==
  ASSUME TableOK, ticklog' \in Seq(Row), Len(ticklog') >= Len(ticklog),
         UNCHANGED given, UNCHANGED counted,
         report'.good \subseteq report.good, report'.bad \subseteq report.bad,
         todo' \subseteq todo, job' \subseteq job, stale' \subseteq stale
  PROVE  TableOK'
<1>1. Len(ticklog) \in Nat /\ Len(ticklog') \in Nat
  BY LenProperties DEF TableOK
<1>2. Workids \subseteq Workids'
  BY <1>1 DEF Workids
<1>3. counted \in 0..Len(ticklog')
  BY <1>1 DEF TableOK
<1> QED
  BY <1>2, <1>3 DEF TableOK

(* What the statements write into a row are values of the row's columns.    *)
LEMMA RowTypes ==
  ASSUME ticklog \in Seq(Row), NEW w \in Workids, NEW st \in 0..3, NEW h \in Hosts
  PROVE  /\ [ticklog[w] EXCEPT !.status = st] \in Row
         /\ [ticklog[w] EXCEPT !.status = st, !.worker = h] \in Row
         /\ [ticklog[w] EXCEPT !.status = st, !.worker = h, !.aged = FALSE] \in Row
<1>1. ticklog[w] \in Row
  BY ElementOfSeq DEF Workids
<1>2. st \in Waiting..Bad
  BY DEF Waiting, Bad
<1> QED
  BY <1>1, <1>2 DEF Row

LEMMA NewRowTypes ==
  ASSUME NEW sp \in {Single} \cup 0..NumSpec - 1, NEW ty \in MediaTypes,
         NEW a \in Hosts, NEW b \in Hosts
  PROVE  NewRow(sp, ty, a, b) \in Row
BY DEF Row, NewRow, Waiting, Bad

(* A step that leaves the list of servers and the connections alone.        *)
LEMMA NetworkSame ==
  ASSUME NetworkOK, UNCHANGED <<registry, link, told, faults, erasing>>
  PROVE  NetworkOK'
BY DEF NetworkOK, Entries

(* The same where ip2str was called.                                        *)
LEMMA NetworkAfterText ==
  ASSUME NetworkOK, UNCHANGED <<registry, link, told, erasing>>,
         NEW a, NEW b, NEW others, Text(a, b, others)
  PROVE  NetworkOK'
BY DEF NetworkOK, Entries, Text, Fault

LEMMA NetworkAfterInsert ==
  ASSUME NetworkOK, UNCHANGED <<registry, link, told, erasing>>,
         NEW sp, NEW ty, NEW h, Insert(sp, ty, h)
  PROVE  NetworkOK'
BY NetworkAfterText DEF Insert

LEMMA ResumeTypes ==
  ASSUME DataAssumption, ControlOK, Resume
  PROVE  /\ pc' \in {"count", "pick", "batch", "upload", "select"}
         /\ spec' \in Nat
         /\ target' = Nobody
<1>1. spec \in Nat /\ NumSpec \in Nat
  BY DEF DataAssumption, ControlOK
<1> QED BY <1>1 DEF Resume

(* The process starts again with a well-typed memory.                       *)
LEMMA RestartTypes ==
  ASSUME DataAssumption, TypeOK, Restart, faults' \in Nat
  PROVE  TypeOK'
<1>1. TableOK'
  BY LenProperties DEF TypeOK, TableOK, Restart, Workids, NoReport
<1>2. NetworkOK'
  BY DEF TypeOK, NetworkOK, Restart, Hosts
<1>3. ControlOK'
  <2>1. report'.new = <<>> /\ spec' \in Nat
    BY DEF Restart, NoReport
  <2>2. report' = [good |-> report'.good, bad |-> report'.bad, new |-> report'.new]
    BY DEF Restart, NoReport
  <2>3. report'.new \in Seq([spec : 0..NumSpec - 1, type : MediaTypes])
    BY <2>1, EmptySeq
  <2> QED BY <2>1, <2>2, <2>3 DEF ControlOK, Restart
<1> QED BY <1>1, <1>2, <1>3 DEF TypeOK

LEMMA NetworkTypes ==
  ASSUME DataAssumption, TypeOK, Network
  PROVE  TypeOK'
<1>1. ASSUME NEW a \in Servers, Break(a) PROVE TypeOK'
  <2>1. TableOK'
    BY <1>1 DEF TypeOK, TableOK, Break, Workids, raknet, dispatcher, cutter
  <2>2. NetworkOK'
    BY <1>1 DEF TypeOK, NetworkOK, Break, Fault, Entries, raknet
  <2>3. ControlOK'
    BY <1>1 DEF TypeOK, ControlOK, Break, raknet, flags, dispatcher, cutter
  <2> QED BY <2>1, <2>2, <2>3 DEF TypeOK
<1>2. ASSUME NEW a \in Servers, Quit(a) PROVE TypeOK'
  <2>1. TableOK'
    BY <1>2 DEF TypeOK, TableOK, Quit, Workids, raknet, dispatcher, cutter
  <2>2. NetworkOK'
    BY <1>2 DEF TypeOK, NetworkOK, Quit, Fault, Entries, raknet
  <2>3. ControlOK'
    BY <1>2 DEF TypeOK, ControlOK, Quit, raknet, flags, dispatcher, cutter
  <2> QED BY <2>1, <2>2, <2>3 DEF TypeOK
<1>3. CASE Crash
  <2>1. faults' \in Nat
    BY <1>3 DEF Crash, Fault, TypeOK, NetworkOK
  <2> QED BY <1>3, <2>1, RestartTypes DEF Crash
<1>4. CASE Age
  <2> DEFINE aged(w) == [ticklog[w] EXCEPT !.aged = TRUE]
  <2>1. \A w \in Workids : ticklog[w] \in Row /\ aged(w) \in Row
    <3>1. \A w \in Workids : ticklog[w] \in Row
      BY ElementOfSeq DEF TypeOK, TableOK, Workids
    <3> QED BY <3>1 DEF Row
  <2>2. ticklog' = [w \in 1..Len(ticklog) |-> aged(w)]
    BY <1>4 DEF Age, Workids
  <2>3. Len(ticklog) \in Nat
    BY LenProperties DEF TypeOK, TableOK
  <2>4. ticklog' \in [1..Len(ticklog) -> Row]
    BY <2>1, <2>2 DEF Workids
  <2>5. ticklog' \in Seq(Row) /\ Len(ticklog') = Len(ticklog)
    BY <2>3, <2>4, SeqDef, LenProperties
  <2>6. TableOK'
    <3>1. TableOK /\ UNCHANGED <<given, report, todo, job, stale, counted>>
      BY <1>4 DEF Age, TypeOK, network, raknet, dispatcher, cutter
    <3> QED BY <2>3, <2>5, <3>1, TableGrows
  <2>7. NetworkOK' /\ ControlOK'
    BY <1>4, NetworkSame
    DEF Age, TypeOK, ControlOK, network, raknet, flags, dispatcher, cutter
  <2> QED BY <2>6, <2>7 DEF TypeOK
<1> QED BY <1>1, <1>2, <1>3, <1>4 DEF Network

LEMMA JoinTypes ==
  ASSUME TypeOK, NEW a \in Servers, NEW kind, [addr |-> a, kind |-> kind] \in Entry,
         Join(a, kind)
  PROVE  TypeOK'
<1>1. TableOK'
  BY DEF TypeOK, TableOK, Join, Workids, raknet, dispatcher, cutter
<1>2. NetworkOK'
  <2>1. registry' \in Seq(Entry)
    BY AppendProperties DEF TypeOK, NetworkOK, Join
  <2>2. erasing' = Nobody
    BY DEF Join, RaknetIdle, raknet
  <2> QED BY <2>1, <2>2 DEF TypeOK, NetworkOK, Join, Hosts
<1>3. ControlOK'
  BY DEF TypeOK, ControlOK, Join, raknet, flags, dispatcher, cutter
<1> QED BY <1>1, <1>2, <1>3 DEF TypeOK

(* The handlers of Update that change the list of servers.                  *)
LEMMA ListTypes ==
  ASSUME ServersAssumption, TypeOK,
         \/ \E a \in Servers : ConnectionLost(a) \/ Leave(a)
         \/ \E m \in MediaServers : M2CJoin(m)
         \/ \E l \in LogServers : L2CJoin(l)
         \/ EraseEntry
  PROVE  TypeOK'
<1>1. ASSUME NEW a \in Servers, ConnectionLost(a) PROVE TypeOK'
  <2>1. TableOK'
    BY <1>1 DEF TypeOK, TableOK, ConnectionLost, Workids, dispatcher, cutter
  <2>2. NetworkOK'
    BY <1>1 DEF TypeOK, NetworkOK, ConnectionLost, StartErasing, Entries, Hosts
  <2>3. ControlOK'
    BY <1>1 DEF TypeOK, ControlOK, ConnectionLost, flags, dispatcher, cutter
  <2> QED BY <2>1, <2>2, <2>3 DEF TypeOK
<1>2. ASSUME NEW a \in Servers, Leave(a) PROVE TypeOK'
  <2>1. TableOK'
    BY <1>2 DEF TypeOK, TableOK, Leave, Workids, dispatcher, cutter
  <2>2. NetworkOK'
    BY <1>2 DEF TypeOK, NetworkOK, Leave, Fault, StartErasing, Entries, Hosts
  <2>3. ControlOK'
    BY <1>2 DEF TypeOK, ControlOK, Leave, flags, dispatcher, cutter
  <2> QED BY <2>1, <2>2, <2>3 DEF TypeOK
<1>3. ASSUME NEW m \in MediaServers, M2CJoin(m) PROVE TypeOK'
  BY <1>3, JoinTypes DEF M2CJoin, Servers, Entry
<1>4. ASSUME NEW l \in LogServers, L2CJoin(l) PROVE TypeOK'
  BY <1>4, JoinTypes DEF L2CJoin, Servers, Entry
<1>5. CASE EraseEntry
  <2> DEFINE f == FirstOf(Entries(erasing))
  <2>1. registry \in Seq(Entry) /\ DOMAIN registry = 1..Len(registry)
    BY LenProperties DEF TypeOK, NetworkOK
  <2>2. f \in Entries(erasing)
    <3>1. Entries(erasing) \in SUBSET Nat
      BY <2>1, LenProperties DEF Entries
    <3> QED BY <1>5, <3>1, FirstOfIn DEF EraseEntry, TypeOK, NetworkOK
  <2>3. f \in 1..Len(registry)
    BY <2>1, <2>2 DEF Entries
  <2> HIDE DEF f
  <2>4. /\ registry' \in Seq(Entry)
        /\ Len(registry') = Len(registry) - 1
        /\ \A j \in 1..Len(registry) - 1 :
               registry'[j] = IF j < f THEN registry[j] ELSE registry[j + 1]
    BY <1>5, <2>1, <2>3, RemoveOne DEF EraseEntry, f
  <2>5. ASSUME erasing' # Nobody PROVE Entries(erasing)' # {}
    <3>1. erasing' = erasing /\ \E i, j \in Entries(erasing) : i # j
      BY <1>5, <2>5 DEF EraseEntry
    <3>2. PICK j \in Entries(erasing) : j # f
      BY <3>1
    <3>3. Len(registry) \in Nat /\ j \in 1..Len(registry)
      BY <2>1, LenProperties DEF Entries
    <3>4. DOMAIN registry' = 1..Len(registry) - 1
      BY <2>4, <3>3, LenProperties
    <3>5. CASE j < f
      BY <2>3, <2>4, <3>1, <3>3, <3>4, <3>5 DEF Entries
    <3>6. CASE j > f
      <4>1. j - 1 \in 1..Len(registry) - 1 /\ registry'[j - 1] = registry[j]
        BY <2>3, <2>4, <3>3, <3>6
      <4> QED BY <3>1, <3>4, <4>1 DEF Entries
    <3> QED BY <2>3, <3>2, <3>3, <3>5, <3>6
  <2>6. NetworkOK'
    BY <1>5, <2>4, <2>5 DEF TypeOK, NetworkOK, EraseEntry, network, Hosts
  <2>7. TableOK' /\ ControlOK'
    BY <1>5 DEF TypeOK, TableOK, ControlOK, EraseEntry, Workids, network, flags,
                dispatcher, cutter
  <2> QED BY <2>6, <2>7 DEF TypeOK
<1> QED BY <1>1, <1>2, <1>3, <1>4, <1>5

(* The handlers of Update that work on the table.                           *)
LEMMA ReportTypes ==
  ASSUME ServersAssumption, DataAssumption, TypeOK,
         \/ \E m \in MediaServers : M2CNewLog(m) \/ EndCutLod(m)
         \/ \E l \in LogServers : L2CTask(l) \/ L2CAck(l)
         \/ \E w \in Workids : Finish(w)
         \/ InsertNew
  PROVE  TypeOK'
<1>1. ASSUME NEW m \in MediaServers, M2CNewLog(m) PROVE TypeOK'
  <2>1. TableOK /\ ticklog \in Seq(Row) /\ m \in Hosts
    BY DEF TypeOK, TableOK, Hosts, Servers
  <2>2. PICK ty \in MediaTypes : Insert(Single, ty, m)
    BY <1>1 DEF M2CNewLog, DataAssumption
  <2> PICK a \in Hosts, b \in Hosts : ticklog' = Append(ticklog, NewRow(Single, ty, a, b))
    BY <2>1, <2>2 DEF Insert
  <2>3. ticklog' \in Seq(Row) /\ Len(ticklog') = Len(ticklog) + 1
    BY <2>1, NewRowTypes, RowAdded
  <2>4. TableOK'
    <3>1. UNCHANGED <<given, report, todo, job, stale, counted>>
      BY <1>1 DEF M2CNewLog, raknet, dispatcher, cutter
    <3>2. Len(ticklog') >= Len(ticklog)
      BY <2>1, <2>3, LenProperties
    <3> QED BY <2>1, <2>3, <3>1, <3>2, TableGrows
  <2>5. NetworkOK'
    BY <1>1, <2>2, NetworkAfterInsert DEF M2CNewLog, TypeOK, raknet
  <2>6. ControlOK'
    BY <1>1 DEF M2CNewLog, TypeOK, ControlOK, raknet, flags, dispatcher, cutter
  <2> QED BY <2>4, <2>5, <2>6 DEF TypeOK
<1>2. ASSUME NEW m \in MediaServers, EndCutLod(m) PROVE TypeOK'
  <2>1. TableOK' /\ ControlOK'
    BY <1>2 DEF EndCutLod, TypeOK, TableOK, ControlOK, Workids, network, raknet,
                dispatcher, cutter
  <2>2. NetworkOK'
    BY <1>2, NetworkSame DEF EndCutLod, TypeOK, network, raknet
  <2> QED BY <2>1, <2>2 DEF TypeOK
<1>3. ASSUME NEW l \in LogServers, L2CTask(l) PROVE TypeOK'
  <2>1. PICK fin \in SUBSET given[l], new \in NewRows, bad \in SUBSET given[l] :
            /\ report' = [good |-> fin \ bad, bad |-> bad, new |-> new]
            /\ given' = [given EXCEPT ![l] = @ \ fin]
    BY <1>3 DEF L2CTask
  <2>2. TableOK'
    BY <1>3, <2>1 DEF L2CTask, TypeOK, TableOK, Workids, dispatcher, cutter
  <2>3. NetworkOK'
    BY <1>3, NetworkSame DEF L2CTask, TypeOK
  <2>4. ControlOK'
    BY <1>3, <2>1 DEF L2CTask, DataAssumption, TypeOK, ControlOK, flags,
                      dispatcher, cutter
  <2> QED BY <2>2, <2>3, <2>4 DEF TypeOK
<1>4. ASSUME NEW l \in LogServers, L2CAck(l) PROVE TypeOK'
  <2>1. PICK good \in SUBSET Workids, bad \in SUBSET Workids :
            report' = [good |-> good, bad |-> bad, new |-> <<>>]
    BY <1>4 DEF L2CAck
  <2>2. TableOK'
    BY <1>4, <2>1 DEF L2CAck, TypeOK, TableOK, Workids, dispatcher, cutter
  <2>3. NetworkOK'
    BY <1>4 DEF L2CAck, Fault, TypeOK, NetworkOK, Entries
  <2>4. ControlOK'
    BY <1>4, <2>1, EmptySeq DEF L2CAck, TypeOK, ControlOK, flags, dispatcher, cutter
  <2> QED BY <2>2, <2>3, <2>4 DEF TypeOK
<1>5. ASSUME NEW w \in Workids, Finish(w) PROVE TypeOK'
  <2>1. TableOK /\ ticklog \in Seq(Row) /\ ticklog[w] \in Row
    BY ElementOfSeq DEF TypeOK, TableOK, Workids
  <2>2. PICK st \in 0..3 :
            ticklog' = [ticklog EXCEPT ![w] = [ticklog[w] EXCEPT !.status = st]]
    BY <1>5 DEF Finish, Finished, Bad
  <2>3. [ticklog[w] EXCEPT !.status = st] \in Row
    BY <2>1, RowTypes DEF Row
  <2>4. ticklog' \in Seq(Row) /\ Len(ticklog') = Len(ticklog)
    BY <2>1, <2>2, <2>3, RowChanged
  <2>5. /\ report'.good \subseteq report.good /\ report'.bad \subseteq report.bad
        /\ report'.new = report.new
        /\ report' = [good |-> report'.good, bad |-> report'.bad, new |-> report'.new]
    BY <1>5 DEF Finish, TypeOK, ControlOK
  <2>6. TableOK'
    <3>1. UNCHANGED <<given, todo, job, stale, counted>>
      BY <1>5 DEF Finish, network, dispatcher, cutter
    <3>2. Len(ticklog') >= Len(ticklog)
      BY <2>1, <2>4, LenProperties
    <3> QED BY <2>1, <2>4, <2>5, <3>1, <3>2, TableGrows
  <2>7. NetworkOK'
    BY <1>5, NetworkSame DEF Finish, TypeOK, network
  <2>8. ControlOK'
    BY <1>5, <2>5 DEF Finish, TypeOK, ControlOK, flags, dispatcher, cutter
  <2> QED BY <2>6, <2>7, <2>8 DEF TypeOK
<1>6. CASE InsertNew
  <2>1. TableOK /\ ticklog \in Seq(Row)
    BY DEF TypeOK, TableOK
  <2> DEFINE Log == [spec : 0..NumSpec - 1, type : MediaTypes]
  <2>2. Head(report.new) \in Log /\ Tail(report.new) \in Seq(Log)
    BY <1>6, HeadTailProperties DEF InsertNew, TypeOK, ControlOK
  <2>3. Insert(Head(report.new).spec, Head(report.new).type, Nobody)
    BY <1>6 DEF InsertNew
  <2> PICK a \in Hosts, b \in Hosts :
        ticklog' = Append(ticklog, NewRow(Head(report.new).spec, Head(report.new).type, a, b))
    BY <2>3 DEF Insert, Hosts
  <2>4. ticklog' \in Seq(Row) /\ Len(ticklog') = Len(ticklog) + 1
    BY <2>1, <2>2, NewRowTypes, RowAdded
  <2>5. /\ report'.good = report.good /\ report'.bad = report.bad
        /\ report'.new = Tail(report.new)
        /\ report' = [good |-> report'.good, bad |-> report'.bad, new |-> report'.new]
    BY <1>6 DEF InsertNew, TypeOK, ControlOK
  <2>6. TableOK'
    <3>1. UNCHANGED <<given, todo, job, stale, counted>>
      BY <1>6 DEF InsertNew, dispatcher, cutter
    <3>2. Len(ticklog') >= Len(ticklog)
      BY <2>1, <2>4, LenProperties
    <3> QED BY <2>1, <2>4, <2>5, <3>1, <3>2, TableGrows
  <2>7. NetworkOK'
    BY <1>6, <2>3, NetworkAfterInsert DEF InsertNew, TypeOK
  <2>8. ControlOK'
    BY <1>6, <2>2, <2>5 DEF InsertNew, TypeOK, ControlOK, flags, dispatcher, cutter
  <2> QED BY <2>6, <2>7, <2>8 DEF TypeOK
<1> QED BY <1>1, <1>2, <1>3, <1>4, <1>5, <1>6

LEMMA CutterTypes ==
  ASSUME ServersAssumption, DataAssumption, TypeOK, Cutter
  PROVE  TypeOK'
<1>1. CASE SelectStale \/ AllowMerge \/ AskUpload
  <2>1. TableOK'
    <3>1. CASE SelectStale
      BY <3>1 DEF SelectStale, TypeOK, TableOK, Workids, network, raknet, dispatcher
    <3>2. CASE AllowMerge
      BY <3>2 DEF AllowMerge, TypeOK, TableOK, Workids, network, raknet, dispatcher
    <3>3. CASE AskUpload
      BY <3>3 DEF AskUpload, TypeOK, TableOK, Workids, network, raknet, dispatcher, cutter
    <3> QED BY <1>1, <3>1, <3>2, <3>3
  <2>3. ControlOK'
    <3>1. CASE SelectStale
      BY <3>1 DEF SelectStale, TypeOK, ControlOK, network, raknet, flags, dispatcher
    <3>2. CASE AllowMerge
      BY <3>2 DEF AllowMerge, TypeOK, ControlOK, network, raknet, dispatcher
    <3>3. CASE AskUpload
      BY <3>3 DEF AskUpload, TypeOK, ControlOK, network, raknet, dispatcher, cutter
    <3> QED BY <1>1, <3>1, <3>2, <3>3
  <2>2. NetworkOK'
    BY <1>1, NetworkSame DEF SelectStale, AllowMerge, AskUpload, TypeOK, network, raknet
  <2> QED BY <2>1, <2>2, <2>3 DEF TypeOK
<1>2. ASSUME NEW w \in stale, Recycle(w) PROVE TypeOK'
  <2>1. TableOK /\ ticklog \in Seq(Row) /\ w \in Workids /\ Nobody \in Hosts
    BY DEF TypeOK, TableOK, Hosts
  <2>2. ticklog[w] \in Row
    BY <2>1, ElementOfSeq DEF Workids
  <2>3. [ticklog[w] EXCEPT !.status = Waiting, !.worker = Nobody] \in Row
    <3>1. Waiting \in Waiting..Bad
      BY DEF Waiting, Bad
    <3> QED BY <2>1, <2>2, <3>1 DEF Row
  <2>4. ticklog' \in Seq(Row) /\ Len(ticklog') = Len(ticklog)
    BY <1>2, <2>1, <2>3, RowChanged DEF Recycle
  <2>5. TableOK'
    <3>1. UNCHANGED <<given, report, todo, job, counted>> /\ stale' \subseteq stale
      BY <1>2 DEF Recycle, network, raknet, dispatcher
    <3>2. Len(ticklog') >= Len(ticklog)
      BY <2>1, <2>4, LenProperties
    <3> QED BY <2>1, <2>4, <3>1, <3>2, TableGrows
  <2>6. NetworkOK' /\ ControlOK'
    BY <1>2, NetworkSame
    DEF Recycle, TypeOK, ControlOK, network, raknet, flags, dispatcher
  <2> QED BY <2>5, <2>6 DEF TypeOK
<1> QED BY <1>1, <1>2 DEF Cutter

(* The log server getoklogs settles on is one, or nobody.                   *)
LEMMA FirstLogServer ==
  ASSUME NetworkOK, NEW S \in SUBSET LogEntries, S # {}
  PROVE  FirstOf(S) \in S /\ registry[FirstOf(S)].addr \in LogServers
<1>1. \A i \in LogEntries : i \in Nat /\ registry[i].addr \in LogServers
  <2>1. DOMAIN registry = 1..Len(registry) /\ Len(registry) \in Nat
    BY LenProperties DEF NetworkOK
  <2>2. \A i \in DOMAIN registry : registry[i] \in Entry
    BY <2>1, ElementOfSeq DEF NetworkOK
  <2> QED BY <2>1, <2>2 DEF LogEntries, Entry
<1>2. S \in SUBSET Nat
  BY <1>1
<1>3. FirstOf(S) \in S
  BY <1>2, FirstOfIn
<1> QED BY <1>1, <1>3

LEMMA RouteTypes ==
  ASSUME DataAssumption, TypeOK, RouteFirst \/ RouteNext \/ RouteCrash
  PROVE  TypeOK'
<1>1. CASE RouteFirst
  <2>1. target' \in LogServers \cup {Nobody}
    BY <1>1, FirstLogServer DEF RouteFirst, TypeOK
  <2>2. TableOK'
    BY <1>1 DEF RouteFirst, TypeOK, TableOK, Workids, raknet, cutter
  <2>3. NetworkOK'
    BY <1>1, NetworkSame, NetworkAfterText DEF RouteFirst, TypeOK, raknet
  <2>4. ControlOK'
    BY <1>1, <2>1 DEF RouteFirst, TypeOK, ControlOK, raknet, flags, cutter
  <2> QED BY <2>2, <2>3, <2>4 DEF TypeOK
<1>2. CASE RouteNext
  <2> DEFINE here == {i \in LogEntries : registry[i].addr = target}
             next == {i \in LogEntries : i > FirstOf(here)}
  <2>1. /\ target \in LogServers \cup {Nobody}
        /\ here # {} => registry[FirstOf(here)].addr \in LogServers
        /\ next # {} => registry[FirstOf(next)].addr \in LogServers
        /\ \A i \in LogEntries : registry[i].addr \in LogServers
    <3>1. NetworkOK
      BY DEF TypeOK
    <3>2. \A i \in LogEntries : registry[i].addr \in LogServers
      BY DEF NetworkOK, TypeOK, LogEntries, Entry
    <3>3. next # {} => registry[FirstOf(next)].addr \in LogServers
      BY <3>1, FirstLogServer
    <3>4. here # {} => registry[FirstOf(here)].addr \in LogServers
      BY <3>1, FirstLogServer
    <3> QED BY <3>2, <3>3, <3>4 DEF TypeOK, ControlOK
  <2>2. target' \in LogServers \cup {Nobody}
    <3>1. target' \in IF here = {} THEN {target, Nobody} \cup
                                        {registry[i].addr : i \in LogEntries}
                      ELSE IF next = {} THEN {target, Nobody}
                      ELSE {registry[FirstOf(next)].addr}
      BY <1>2 DEF RouteNext
    <3> HIDE DEF here, next
    <3> QED BY <2>1, <3>1
  <2>3. TableOK'
    BY <1>2 DEF RouteNext, TypeOK, TableOK, Workids, network, raknet, cutter
  <2>4. NetworkOK'
    BY <1>2, NetworkSame DEF RouteNext, TypeOK, network, raknet
  <2>5. ControlOK'
    BY <1>2, <2>2 DEF RouteNext, TypeOK, ControlOK, raknet, flags, cutter
  <2> QED BY <2>3, <2>4, <2>5 DEF TypeOK
<1>3. CASE RouteCrash
  <2>1. faults' \in Nat
    BY <1>3 DEF RouteCrash, TypeOK, NetworkOK
  <2> QED BY <1>3, <2>1, RestartTypes DEF RouteCrash
<1> QED BY <1>1, <1>2, <1>3

LEMMA SendTypes ==
  ASSUME ServersAssumption, DataAssumption, TypeOK, SendJob \/ SendFails
  PROVE  TypeOK'
<1>1. CASE SendJob
  <2>1. target \in LogServers
    BY <1>1 DEF SendJob, Connected, TypeOK, ControlOK
  <2>2. TableOK' /\ told' \in SUBSET LogServers
    BY <1>1, <2>1 DEF SendJob, TypeOK, TableOK, NetworkOK, Workids, raknet, cutter
  <2>3. NetworkOK'
    BY <1>1, <2>2 DEF SendJob, TypeOK, NetworkOK, Entries, raknet
  <2>4. /\ pc' \in {"count", "pick", "batch", "upload", "select", "mark"}
        /\ spec' \in Nat
        /\ target' \in LogServers \cup {Nobody}
    BY <1>1, <2>1, ResumeTypes DEF SendJob, TypeOK, ControlOK
  <2>5. ControlOK'
    BY <1>1, <2>4 DEF SendJob, TypeOK, ControlOK, raknet, flags, cutter
  <2> QED BY <2>2, <2>3, <2>5 DEF TypeOK
<1>2. CASE SendFails
  <2>1. TableOK'
    BY <1>2 DEF SendFails, TypeOK, TableOK, Workids, network, raknet, cutter
  <2>2. NetworkOK'
    BY <1>2, NetworkSame DEF SendFails, TypeOK, network, raknet
  <2>3. /\ pc' \in {"count", "pick", "batch", "upload", "select"}
        /\ spec' \in Nat
        /\ target' = Nobody
    BY <1>2, ResumeTypes DEF SendFails, TypeOK
  <2>4. ControlOK'
    BY <1>2, <2>3 DEF SendFails, TypeOK, ControlOK, raknet, flags, cutter
  <2> QED BY <2>1, <2>2, <2>4 DEF TypeOK
<1> QED BY <1>1, <1>2

LEMMA MarkTypes ==
  ASSUME DataAssumption, TypeOK, NEW w \in job, MarkSent(w)
  PROVE  TypeOK'
<1>1. TableOK /\ ticklog \in Seq(Row) /\ w \in Workids
  BY DEF TypeOK, TableOK
<1>3. ticklog' \in Seq(Row) /\ Len(ticklog') = Len(ticklog)
  <2>1. PICK id \in TailIds[ticklog[w].src], a \in Hosts :
          ticklog' = IF id \in Workids
                     THEN [ticklog EXCEPT ![id] = [ticklog[id] EXCEPT
                              !.status = Assigned, !.worker = a, !.aged = FALSE]]
                     ELSE ticklog
    BY DEF MarkSent
  <2>2. CASE id \in Workids
    <3> DEFINE r == [ticklog[id] EXCEPT
                        !.status = Assigned, !.worker = a, !.aged = FALSE]
    <3>1. r \in Row
      <4>1. ticklog[id] \in Row
        BY <1>1, <2>2, ElementOfSeq DEF Workids
      <4>2. Assigned \in Waiting..Bad
        BY DEF Assigned, Waiting, Bad
      <4> QED BY <4>1, <4>2 DEF Row
    <3>2. ticklog' = [ticklog EXCEPT ![id] = r]
      BY <2>1, <2>2
    <3> QED BY <1>1, <2>2, <3>1, <3>2, RowChanged
  <2>3. CASE id \notin Workids
    BY <1>1, <2>1, <2>3
  <2> QED BY <2>2, <2>3
<1>4. TableOK'
  <2>1. UNCHANGED <<given, report, todo, stale, counted>> /\ job' \subseteq job
    BY DEF MarkSent, raknet, cutter
  <2>2. Len(ticklog') >= Len(ticklog)
    BY <1>1, <1>3, LenProperties
  <2> QED BY <1>1, <1>3, <2>1, <2>2, TableGrows
<1>5. NetworkOK'
  BY NetworkAfterText DEF MarkSent, TypeOK, raknet
<1>6. ControlOK'
  <2>1. /\ pc' \in {"count", "pick", "batch", "upload", "select", "mark"}
        /\ spec' \in Nat
        /\ target' \in LogServers \cup {Nobody}
    BY ResumeTypes DEF MarkSent, TypeOK, ControlOK
  <2> QED BY <2>1 DEF MarkSent, TypeOK, ControlOK, raknet, flags, cutter
<1> QED BY <1>4, <1>5, <1>6 DEF TypeOK

LEMMA BatchTypes ==
  ASSUME DataAssumption, TypeOK, SelectBatch
  PROVE  TypeOK'
<1>1. TableOK'
  BY DEF SelectBatch, Resume, Select, TypeOK, TableOK, Workids, network, raknet, cutter
<1>2. NetworkOK'
  BY NetworkSame DEF SelectBatch, TypeOK, network, raknet
<1>3. /\ pc' \in {"count", "pick", "batch", "upload", "select", "route"}
      /\ spec' \in Nat
      /\ target' \in LogServers \cup {Nobody}
      /\ iTaskType' \in {0, 1}
  BY ResumeTypes DEF SelectBatch, TypeOK, ControlOK
<1> QED BY <1>1, <1>2, <1>3 DEF SelectBatch, TypeOK, ControlOK, raknet, flags, cutter

(* The steps of the loop of send_log_func that only read the table.         *)
LEMMA LoopTypes ==
  ASSUME ServersAssumption, DataAssumption, TypeOK,
         \/ SelectSingles \/ CountSingles \/ OpenMerge \/ TakeUpload
         \/ \E w \in todo : PickSingle(w)
  PROVE  TypeOK'
<1>1. CASE SelectSingles
  <2>1. TableOK' /\ ControlOK'
    BY <1>1 DEF SelectSingles, Select, TypeOK, TableOK, ControlOK, Workids,
                network, raknet, flags, cutter
  <2> QED BY <1>1, <2>1, NetworkSame DEF SelectSingles, TypeOK, network, raknet
<1>2. CASE CountSingles
  <2>1. TableOK' /\ ControlOK'
    <3>1. counted' \in 0..Len(ticklog) /\ pc' \in {"gate", "upload"}
      <4>1. counted \in 0..Len(ticklog) /\ Len(ticklog) \in Nat
        BY LenProperties DEF TypeOK, TableOK
      <4> QED BY <1>2, <4>1 DEF CountSingles
    <3>2. TableOK'
      BY <1>2, <3>1 DEF CountSingles, TypeOK, TableOK, Workids, network, raknet, cutter
    <3>3. ControlOK'
      BY <1>2, <3>1 DEF CountSingles, TypeOK, ControlOK, raknet, flags, cutter
    <3> QED BY <3>2, <3>3
  <2> QED BY <1>2, <2>1, NetworkSame DEF CountSingles, TypeOK, network, raknet
<1>3. CASE OpenMerge
  <2>1. TableOK' /\ ControlOK'
    <3>1. spec' \in Nat /\ pc' \in {"batch", "upload"} /\ phase' \in {"single", "merge", "upload"}
      BY <1>3 DEF OpenMerge, TypeOK, ControlOK
    <3>2. TableOK'
      BY <1>3 DEF OpenMerge, TypeOK, TableOK, Workids, network, raknet, cutter
    <3>3. ControlOK'
      BY <1>3, <3>1 DEF OpenMerge, TypeOK, ControlOK, raknet, cutter
    <3> QED BY <3>2, <3>3
  <2> QED BY <1>3, <2>1, NetworkSame DEF OpenMerge, TypeOK, network, raknet
<1>4. CASE TakeUpload
  <2>1. TableOK' /\ ControlOK'
    BY <1>4 DEF TakeUpload, TypeOK, TableOK, ControlOK, Workids, network, raknet, cutter
  <2> QED BY <1>4, <2>1, NetworkSame DEF TakeUpload, TypeOK, network, raknet
<1>5. ASSUME NEW w \in todo, PickSingle(w) PROVE TypeOK'
  <2>1. TableOK' /\ ControlOK'
    BY <1>5 DEF PickSingle, TypeOK, TableOK, ControlOK, Workids, network, raknet,
                flags, cutter
  <2> QED BY <1>5, <2>1, NetworkSame DEF PickSingle, TypeOK, network, raknet
<1> QED BY <1>1, <1>2, <1>3, <1>4, <1>5

(* TypeOK is inductive: no constant but the sets and lists needs a bound.   *)
LEMMA TypeStep ==
  ASSUME ServersAssumption, DataAssumption, TypeOK, [Next]_vars
  PROVE  TypeOK'
<1>1. CASE Network
  BY <1>1, NetworkTypes
<1>2. CASE Raknet
  BY <1>2, ListTypes, ReportTypes DEF Raknet
<1>3. CASE Dispatcher
  BY <1>3, LoopTypes, RouteTypes, SendTypes, MarkTypes, BatchTypes DEF Dispatcher
<1>4. CASE Cutter
  BY <1>4, CutterTypes
<1>5. CASE UNCHANGED vars
  <2>1. TableOK' /\ ControlOK'
    BY <1>5 DEF TypeOK, TableOK, ControlOK, Workids, vars, network, raknet, flags,
                dispatcher, cutter
  <2> QED BY <1>5, <2>1, NetworkSame DEF TypeOK, vars, network, raknet
<1> QED BY <1>1, <1>2, <1>3, <1>4, <1>5 DEF Next

LEMMA TypeInit ==
  ASSUME ServersAssumption, DataAssumption, Init
  PROVE  TypeOK
<1>1. ticklog = <<>> /\ Len(ticklog) = 0
  BY EmptySeq DEF Init
<1>2. TableOK
  BY <1>1, EmptySeq DEF Init, InitProcess, TableOK, Workids, NoReport
<1>3. NetworkOK
  BY EmptySeq DEF Init, InitProcess, NetworkOK, Hosts
<1>4. ControlOK
  BY EmptySeq DEF Init, InitProcess, ControlOK, NoReport
<1> QED BY <1>2, <1>3, <1>4 DEF TypeOK

(* Type correctness: whatever servers, messages, faults and IP texts there  *)
(* are, no thread ever keeps a Workid that is not in ticklog, the list that *)
(* lostconn walks holds what it still looks for, and the address            *)
(* getoklogs returns is that of a log server or of nobody.                  *)
THEOREM TypeCorrect == Spec => []TypeOK
<1>1. Init => TypeOK
  BY TypeInit, ServersAssumption, DataAssumption
<1>2. TypeOK /\ [Next]_vars => TypeOK'
  BY TypeStep, ServersAssumption, DataAssumption
<1> QED BY <1>1, <1>2, PTL DEF Spec

-----------------------------------------------------------------------------
(* Safety: what may happen to the status of a log, and what follows from    *)
(* it.                                                                      *)

(* Seven statements change the table; every other step leaves it alone.     *)
LEMMA TableStatements ==
  ASSUME [Next]_vars
  PROVE  \/ UNCHANGED ticklog
         \/ Age
         \/ \E m \in MediaServers : M2CNewLog(m)
         \/ \E w \in Workids : Finish(w)
         \/ InsertNew
         \/ \E w \in job : MarkSent(w)
         \/ \E w \in stale : Recycle(w)
<1>1. CASE Network
  BY <1>1 DEF Network, Break, Quit, Crash, Restart
<1>2. CASE Raknet
  BY <1>2 DEF Raknet, ConnectionLost, Leave, M2CJoin, L2CJoin, Join, EndCutLod,
              L2CTask, L2CAck, EraseEntry
<1>3. CASE Dispatcher
  BY <1>3 DEF Dispatcher, SelectSingles, PickSingle, RouteFirst, RouteNext, RouteCrash,
              Restart, SendJob, SendFails, CountSingles, OpenMerge, SelectBatch, TakeUpload
<1>4. CASE Cutter
  BY <1>4 DEF Cutter, SelectStale, AllowMerge, AskUpload
<1>5. CASE UNCHANGED vars
  BY <1>5 DEF vars
<1> QED BY <1>1, <1>2, <1>3, <1>4, <1>5 DEF Next

Kept(w) == /\ ticklog'[w].status = ticklog[w].status
           /\ ticklog'[w].worker = ticklog[w].worker
Marked(w) == /\ pc = "mark"
             /\ \E v \in job : w \in TailIds[ticklog[v].src]
             /\ ticklog'[w].status = Assigned
             /\ NoRace => ticklog'[w].worker = target
Recycled(w) == cpc = "recycle" /\ w \in stale /\ ticklog'[w].status = Waiting
Reported(w) == ticklog'[w].status \in {Finished, Bad}

(* What a step may do to a row: nothing, finish it, mark it or recycle it.  *)
(* No step removes a row or changes its Spec, and a new row is waiting.     *)
LEMMA RowStep ==
  ASSUME TypeOK, [Next]_vars
  PROVE  /\ Len(ticklog) \in Nat /\ Len(ticklog') \in Nat /\ Len(ticklog) <= Len(ticklog')
         /\ \A w \in Workids :
               /\ ticklog'[w].spec = ticklog[w].spec
               /\ Kept(w) \/ Reported(w) \/ Recycled(w) \/ Marked(w)
         /\ \A w \in Workids' \ Workids : ticklog'[w].status = Waiting
<1> DEFINE Goal == /\ Len(ticklog') \in Nat /\ Len(ticklog) <= Len(ticklog')
                   /\ \A w \in Workids :
                         /\ ticklog'[w].spec = ticklog[w].spec
                         /\ Kept(w) \/ Reported(w) \/ Recycled(w) \/ Marked(w)
                   /\ \A w \in Workids' \ Workids : ticklog'[w].status = Waiting
<1>1. /\ ticklog \in Seq(Row) /\ Len(ticklog) \in Nat
      /\ \A w \in Workids : ticklog[w] \in Row
  BY LenProperties, ElementOfSeq DEF TypeOK, TableOK, Workids
<1>2. CASE UNCHANGED ticklog
  BY <1>1, <1>2 DEF Kept, Workids
<1>3. CASE Age
  <2>1. ticklog' = [w \in Workids |-> [ticklog[w] EXCEPT !.aged = TRUE]]
    BY <1>3 DEF Age
  <2>2. ticklog' \in [1..Len(ticklog) -> Row]
    BY <1>1, <2>1 DEF Row, Workids
  <2>3. Len(ticklog') = Len(ticklog)
    BY <1>1, <2>2, SeqDef, LenProperties
  <2>4. \A w \in Workids : Kept(w) /\ ticklog'[w].spec = ticklog[w].spec
    BY <1>1, <2>1 DEF Kept, Row
  <2> QED BY <1>1, <2>3, <2>4 DEF Workids
<1>4. ASSUME NEW sp, NEW ty, NEW h, Insert(sp, ty, h)
      PROVE  Goal
  <2>1. PICK a, b : ticklog' = Append(ticklog, NewRow(sp, ty, a, b))
    BY <1>4 DEF Insert
  <2> DEFINE r == NewRow(sp, ty, a, b)
  <2>2. r.status = Waiting
    BY DEF NewRow
  <2>3. ticklog' = Append(ticklog, r)
    BY <2>1
  <2> HIDE DEF r
  <2>4. /\ Len(ticklog') = Len(ticklog) + 1
        /\ \A w \in Workids : ticklog'[w] = ticklog[w]
        /\ ticklog'[Len(ticklog) + 1] = r
    BY <1>1, <2>3, AppendProperties DEF Workids
  <2>5. \A w \in Workids' \ Workids : ticklog'[w].status = Waiting
    BY <1>1, <2>2, <2>4 DEF Workids
  <2>6. \A w \in Workids : Kept(w) /\ ticklog'[w].spec = ticklog[w].spec
    BY <2>4 DEF Kept
  <2> QED BY <1>1, <2>4, <2>5, <2>6
<1>5. ASSUME NEW w \in Workids, NEW r, r.spec = ticklog[w].spec,
             ticklog' = [ticklog EXCEPT ![w] = r],
             \/ r.status \in {Finished, Bad}
             \/ cpc = "recycle" /\ w \in stale /\ r.status = Waiting
             \/ /\ pc = "mark" /\ \E v \in job : w \in TailIds[ticklog[v].src]
                /\ r.status = Assigned /\ (NoRace => r.worker = target)
      PROVE  Goal
  <2>1. /\ DOMAIN ticklog' = DOMAIN ticklog
        /\ \A v \in Workids : ticklog'[v] = IF v = w THEN r ELSE ticklog[v]
    BY <1>1, <1>5, LenProperties DEF Workids
  <2>2. Len(ticklog') = Len(ticklog)
    BY <1>1, <1>5, ExceptSeq DEF Workids
  <2> QED BY <1>1, <1>5, <2>1, <2>2 DEF Kept, Reported, Recycled, Marked, Workids
<1>6. ASSUME NEW m \in MediaServers, M2CNewLog(m) PROVE Goal
  <2> HIDE DEF Goal
  <2> QED BY <1>4, <1>6 DEF M2CNewLog
<1>7. ASSUME NEW w \in Workids, Finish(w) PROVE Goal
  <2>1. PICK st \in {Finished, Bad} :
          ticklog' = [ticklog EXCEPT ![w] = [ticklog[w] EXCEPT !.status = st]]
    BY <1>7 DEF Finish
  <2> DEFINE r == [ticklog[w] EXCEPT !.status = st]
  <2>2. r.spec = ticklog[w].spec /\ r.status \in {Finished, Bad}
    BY <1>1 DEF Row
  <2>3. ticklog' = [ticklog EXCEPT ![w] = r]
    BY <2>1
  <2> HIDE DEF r, Goal
  <2> QED BY <1>5, <2>2, <2>3
<1>8. ASSUME InsertNew PROVE Goal
  <2> DEFINE log == Head(report.new)
  <2>1. Insert(log.spec, log.type, Nobody)
    BY <1>8 DEF InsertNew
  <2> HIDE DEF log, Goal
  <2> QED BY <1>4, <2>1
<1>9. ASSUME NEW w \in job, MarkSent(w) PROVE Goal
  <2>1. PICK id \in TailIds[ticklog[w].src], a \in Hosts :
          /\ Text(target, a, Hosts)
          /\ ticklog' = IF id \in Workids
                        THEN [ticklog EXCEPT ![id] = [ticklog[id] EXCEPT
                                 !.status = Assigned, !.worker = a, !.aged = FALSE]]
                        ELSE ticklog
    BY <1>9 DEF MarkSent
  <2>2. CASE id \notin Workids
    BY <1>2, <2>1, <2>2
  <2>3. CASE id \in Workids
    <3> DEFINE r == [ticklog[id] EXCEPT
                        !.status = Assigned, !.worker = a, !.aged = FALSE]
    <3>1. /\ r.spec = ticklog[id].spec
          /\ r.status = Assigned /\ (NoRace => r.worker = target)
      BY <1>1, <2>1, <2>3 DEF Row, Text, Fault, NoRace
    <3>2. ticklog' = [ticklog EXCEPT ![id] = r] /\ pc = "mark"
      BY <1>9, <2>1, <2>3 DEF MarkSent
    <3> HIDE DEF r, Goal
    <3> QED BY <1>5, <2>1, <2>3, <3>1, <3>2
  <2> QED BY <2>2, <2>3
<1>10. ASSUME NEW w \in stale, Recycle(w) PROVE Goal
  <2> DEFINE r == [ticklog[w] EXCEPT !.status = Waiting, !.worker = Nobody]
  <2>1. w \in Workids
    BY DEF TypeOK, TableOK
  <2>2. r.spec = ticklog[w].spec /\ r.status = Waiting
    BY <1>1, <2>1 DEF Row
  <2>3. ticklog' = [ticklog EXCEPT ![w] = r] /\ cpc = "recycle"
    BY <1>10 DEF Recycle
  <2> HIDE DEF r, Goal
  <2> QED BY <1>5, <2>1, <2>2, <2>3
<1> HIDE DEF Goal
<1>11. Goal
  BY <1>2, <1>3, <1>6, <1>7, <1>8, <1>9, <1>10, TableStatements DEF Goal
<1> QED BY <1>1, <1>11 DEF Goal

(* The dispatcher marks rows only for a log server it has chosen.           *)
TargetChosen == pc = "mark" => target \in LogServers

LEMMA TargetChosenStep ==
  ASSUME TypeOK, TargetChosen, [Next]_vars
  PROVE  TargetChosen'
<1>1. SUFFICES ASSUME pc' = "mark" PROVE target' \in LogServers
  BY DEF TargetChosen
<1>2. UNCHANGED <<pc, target>> \/ SendJob \/ \E w \in job : MarkSent(w)
  <2>1. CASE Network
    BY <1>1, <2>1 DEF Network, Break, Quit, Crash, Restart, Age, dispatcher
  <2>2. CASE Raknet
    BY <1>1, <2>2 DEF Raknet, ConnectionLost, Leave, M2CJoin, L2CJoin, Join, EndCutLod,
                L2CTask, L2CAck, EraseEntry, M2CNewLog, Finish, InsertNew, dispatcher
  <2>3. CASE Dispatcher
    BY <1>1, <2>3 DEF Dispatcher, SelectSingles, PickSingle, RouteFirst, RouteNext,
                RouteCrash, Restart, SendFails, Resume, CountSingles, OpenMerge,
                SelectBatch, TakeUpload
  <2>4. CASE Cutter
    BY <1>1, <2>4 DEF Cutter, SelectStale, Recycle, AllowMerge, AskUpload, dispatcher
  <2>5. CASE UNCHANGED vars
    BY <2>5 DEF vars, dispatcher
  <2> QED BY <2>1, <2>2, <2>3, <2>4, <2>5 DEF Next
<1>3. CASE UNCHANGED <<pc, target>>
  BY <1>1, <1>3 DEF TargetChosen
<1>4. CASE SendJob
  BY <1>1, <1>4 DEF SendJob, Connected, Resume, TypeOK, ControlOK
<1>5. ASSUME NEW w \in job, MarkSent(w) PROVE target' \in LogServers
  BY <1>1, <1>5 DEF MarkSent, Resume, TargetChosen
<1> QED BY <1>2, <1>3, <1>4, <1>5

LEMMA AssignedStep ==
  ASSUME NoRace, TypeOK, TargetChosen, AssignedToLogServer, [Next]_vars
  PROVE  AssignedToLogServer'
<1>1. SUFFICES ASSUME NEW w \in Workids', ticklog'[w].status = Assigned
               PROVE  ticklog'[w].worker \in LogServers
  BY DEF AssignedToLogServer
<1>2. w \in Workids
  BY <1>1, RowStep DEF Waiting, Assigned
<1>3. Kept(w) \/ Marked(w)
  BY <1>1, <1>2, RowStep DEF Reported, Recycled, Waiting, Assigned, Finished, Bad
<1> QED
  BY <1>1, <1>2, <1>3 DEF Kept, Marked, AssignedToLogServer, TargetChosen

(* m2cnewlog stores the address of a media server in the column             *)
(* WorkServerIP and updatadb that of a log server: getoklogs, which counts  *)
(* the assigned rows of a log server, never meets one of the first kind.    *)
(* That takes that no two threads meet in ip2str (NoRace).                  *)
THEOREM AssignedWorkers == NoRace => (Spec => []AssignedToLogServer)
<1> SUFFICES ASSUME NoRace PROVE Spec => []AssignedToLogServer
  OBVIOUS
<1> DEFINE IInv == TypeOK /\ TargetChosen /\ AssignedToLogServer
<1>1. Init => IInv
  <2>1. Init => Workids = {} /\ pc = "select"
    BY EmptySeq DEF Init, InitProcess, Workids
  <2> QED BY <2>1, TypeInit, ServersAssumption, DataAssumption
          DEF TargetChosen, AssignedToLogServer
<1>2. IInv /\ [Next]_vars => IInv'
  BY TypeStep, TargetChosenStep, AssignedStep, ServersAssumption, DataAssumption
<1> QED BY <1>1, <1>2, PTL DEF Spec

(* The statements are unconditional, so a finished log can be opened again, *)
(* but only in two ways: by a mark whose Workid was read from an IP text,   *)
(* or by a recycle chosen before the log server's report.                   *)
THEOREM OnlyReopenPaths == Spec => ReopenPaths
<1>1. TypeOK /\ [Next]_vars =>
        [\A w \in Workids :
           Done(w) /\ ticklog'[w].status \notin {Finished, Bad}
             => \/ pc = "mark" /\ \E v \in job : w \in TailIds[ticklog[v].src]
                \/ cpc = "recycle" /\ w \in stale]_vars
  BY RowStep DEF Kept, Reported, Recycled, Marked, Done
<1> QED BY <1>1, TypeCorrect, PTL DEF Spec, ReopenPaths

-----------------------------------------------------------------------------
(* updatadb writes to the rows whose Workid an IP text reads as (HitIds)    *)
(* and to no others.  So only these are ever assigned, and only these are   *)
(* ever recycled, however late: that is the invariant the theorems below    *)
(* rest on.  All the other rows are left to the reports.                    *)
AssignedHit == \A w \in Workids : ticklog[w].status = Assigned => w \in HitIds
HitInv == AssignedHit /\ stale \subseteq HitIds

LEMMA MarkedHit ==
  ASSUME DataAssumption, TypeOK, NEW w, Marked(w)
  PROVE  w \in HitIds
<1>1. PICK v \in job : w \in TailIds[ticklog[v].src]
  BY DEF Marked
<1>2. ticklog[v] \in Row
  BY ElementOfSeq DEF TypeOK, TableOK, Workids
<1> QED BY <1>1, <1>2 DEF HitIds, Row

LEMMA UnhitRowStep ==
  ASSUME DataAssumption, TypeOK, HitInv, [Next]_vars
  PROVE  \A w \in Workids \ HitIds : Kept(w) \/ Reported(w)
BY RowStep, MarkedHit DEF Recycled, HitInv

LEMMA HitStep ==
  ASSUME DataAssumption, TypeOK, HitInv, [Next]_vars
  PROVE  HitInv'
<1>1. AssignedHit'
  <2>1. SUFFICES ASSUME NEW w \in Workids', ticklog'[w].status = Assigned PROVE w \in HitIds
    BY DEF AssignedHit, HitIds, Hosts, Servers
  <2>2. w \in Workids
    BY <2>1, RowStep DEF Waiting, Assigned
  <2>3. Kept(w) \/ Marked(w)
    BY <2>1, <2>2, RowStep DEF Reported, Recycled, Waiting, Assigned, Finished, Bad
  <2> QED BY <2>1, <2>2, <2>3, MarkedHit DEF Kept, HitInv, AssignedHit
<1>2. stale' \subseteq HitIds
  <2>1. CASE Network
    BY <2>1 DEF Network, Break, Quit, Crash, Restart, Age, HitInv, cutter
  <2>2. CASE Raknet
    BY <2>2 DEF Raknet, ConnectionLost, Leave, M2CJoin, L2CJoin, Join, EndCutLod,
                L2CTask, L2CAck, EraseEntry, M2CNewLog, Finish, InsertNew, HitInv, cutter
  <2>3. CASE Dispatcher
    BY <2>3 DEF Dispatcher, SelectSingles, PickSingle, RouteFirst, RouteNext, RouteCrash,
                Restart, SendJob, SendFails, MarkSent, CountSingles, OpenMerge,
                SelectBatch, TakeUpload, HitInv, cutter
  <2>4. CASE Cutter
    BY <2>4 DEF Cutter, SelectStale, Recycle, AllowMerge, AskUpload, HitInv, AssignedHit,
                cutter
  <2>5. CASE UNCHANGED vars
    BY <2>5 DEF vars, cutter, HitInv
  <2> QED BY <2>1, <2>2, <2>3, <2>4, <2>5 DEF Next
<1> QED BY <1>1, <1>2 DEF HitInv, HitIds, Hosts, Servers

LEMMA HitInit == Init => HitInv
<1>1. Init => Workids = {}
  BY EmptySeq DEF Init, Workids
<1> QED BY <1>1 DEF Init, InitProcess, HitInv, AssignedHit

LEMMA HitInvariant == Spec => [](TypeOK /\ HitInv)
<1>1. Init => TypeOK /\ HitInv
  BY TypeInit, HitInit, ServersAssumption, DataAssumption
<1>2. (TypeOK /\ HitInv) /\ [Next]_vars => (TypeOK /\ HitInv)'
  BY TypeStep, HitStep, ServersAssumption, DataAssumption
<1> QED BY <1>1, <1>2, PTL DEF Spec

(* No thread opens a finished log again that updatadb cannot hit: neither   *)
(* an old sqlbuf of the dispatcher nor the recycler, whatever crashes,      *)
(* leaves and duplicate reports happen, and wherever the marks go.          *)
THEOREM FinishedStaysFinished == Spec => FinishedFinal
<1>1. TypeOK /\ HitInv /\ [Next]_vars =>
        [\A w \in Workids \ HitIds :
            Done(w) => ticklog'[w].status \in {Finished, Bad}]_vars
  BY DataAssumption, UnhitRowStep DEF Kept, Reported, Done
<1> QED BY <1>1, HitInvariant, PTL DEF Spec, FinishedFinal

(* The rows the dispatcher counted, from the count to the end of the pass.  *)
LetIn == pc = "gate" \/ (phase = "merge" /\ pc # "upload")
CountedDone == \A w \in (1..counted) \ HitIds : ticklog[w].spec = Single => Done(w)
MergeInv == LetIn => CountedDone

\* A pass is let in by CountSingles and by nothing else.
LEMMA LetInStep ==
  ASSUME [Next]_vars, LetIn', ~CountSingles
  PROVE  LetIn /\ UNCHANGED counted
<1>1. CASE Network
  BY <1>1 DEF Network, Break, Quit, Crash, Restart, Age, LetIn, dispatcher
<1>2. CASE Raknet
  BY <1>2 DEF Raknet, ConnectionLost, Leave, M2CJoin, L2CJoin, Join, EndCutLod,
              L2CTask, L2CAck, EraseEntry, M2CNewLog, Finish, InsertNew, LetIn, dispatcher
<1>3. CASE Dispatcher
  <2>1. CASE SendJob \/ SendFails \/ (\E w \in job : MarkSent(w)) \/ SelectBatch
    BY <2>1 DEF SendJob, SendFails, MarkSent, SelectBatch, Resume, LetIn
  <2>2. CASE RouteFirst \/ RouteNext \/ RouteCrash \/ OpenMerge
    BY <2>2 DEF RouteFirst, RouteNext, RouteCrash, Restart, OpenMerge, LetIn
  <2>3. CASE SelectSingles \/ TakeUpload \/ \E w \in todo : PickSingle(w)
    BY <2>3 DEF SelectSingles, TakeUpload, PickSingle, LetIn
  <2> QED BY <1>3, <2>1, <2>2, <2>3 DEF Dispatcher
<1>4. CASE Cutter
  BY <1>4 DEF Cutter, SelectStale, Recycle, AllowMerge, AskUpload, LetIn, dispatcher
<1>5. CASE UNCHANGED vars
  BY <1>5 DEF vars, LetIn, dispatcher
<1> QED BY <1>1, <1>2, <1>3, <1>4, <1>5 DEF Next

LEMMA MergeStep ==
  ASSUME DataAssumption, TypeOK, HitInv, MergeInv, [Next]_vars
  PROVE  MergeInv'
<1>1. SUFFICES ASSUME LetIn', NEW w \in (1..counted') \ HitIds, ticklog'[w].spec = Single
               PROVE  ticklog'[w].status \in {Finished, Bad}
  BY DEF MergeInv, CountedDone, Done, HitIds, Hosts, Servers
<1>2. /\ Len(ticklog) \in Nat /\ counted \in 0..Len(ticklog)
      /\ \A v \in Workids : ticklog[v] \in Row
  BY LenProperties, ElementOfSeq DEF TypeOK, TableOK, Workids
<1>3. CASE CountSingles
  <2>1. /\ UNCHANGED ticklog
        /\ Select(Waiting, Single) \cup Select(Assigned, Single) = {} \/ counted' = counted
    BY <1>3 DEF CountSingles
  <2>2. Select(Waiting, Single) \cup Select(Assigned, Single) = {} /\ counted' = Len(ticklog)
    BY <1>1, <1>3 DEF CountSingles, LetIn
  <2>3. w \in Workids /\ ticklog[w].spec = Single
    BY <1>1, <2>1, <2>2 DEF Workids
  <2>4. ticklog[w].status \in Waiting..Bad \ {Waiting, Assigned}
    BY <1>2, <2>2, <2>3 DEF Select, Row
  <2> QED BY <2>1, <2>4 DEF Waiting, Assigned, Finished, Bad
<1>4. CASE ~CountSingles
  <2>1. LetIn /\ counted' = counted
    BY <1>1, <1>4, LetInStep
  <2>2. w \in Workids /\ w \in 1..counted
    BY <1>1, <1>2, <2>1 DEF Workids
  <2>3. ticklog[w].spec = Single /\ (Kept(w) \/ Reported(w))
    BY <1>1, <2>2, RowStep, UnhitRowStep
  <2>4. Done(w)
    BY <2>1, <2>2, <2>3 DEF MergeInv, CountedDone
  <2> QED BY <2>3, <2>4 DEF Kept, Reported, Done
<1> QED BY <1>3, <1>4

(* A merge pass only ever finds a table whose counted rows of media servers *)
(* are all finished, although any thread may work on the table between the  *)
(* count, the gate and the end of the pass; rows that updatadb can hit are  *)
(* the exception.                                                           *)
THEOREM MergeAfterSplit == Spec => []MergeCoversSplit
<1>1. Init => MergeInv
  BY DEF Init, InitProcess, MergeInv, LetIn
<1>2. (TypeOK /\ HitInv) /\ MergeInv /\ [Next]_vars => MergeInv'
  BY MergeStep, DataAssumption
<1>3. MergeInv => MergeCoversSplit
  BY DEF MergeInv, LetIn, CountedDone, MergeCoversSplit
<1> QED BY <1>1, <1>2, <1>3, HitInvariant, PTL DEF Spec

-----------------------------------------------------------------------------
(* The refinement of TicketLife.  What the abstract specification asks of a *)
(* message to a log server is what the dispatcher made sure of some steps   *)
(* before: where it is tells what it is sending (InPhase), what it sends is *)
(* one log to split or two and more of one spec (JobInv), and the rows of a *)
(* report have room in the table (RoomInv, a bound of the model).           *)
InPhase == /\ pc \in {"pick", "count"} => phase = "single"
           /\ pc = "batch" => phase = "merge"
           /\ pc = "select" => phase # "merge"
OneSingle == \E w \in Workids : job = {w} /\ ticklog[w].spec = Single
OneSpec == /\ \A w \in job : ticklog[w].spec = spec
           /\ \E v, w \in job : v # w
JobInv == pc \in {"route", "reroute", "send"} =>
            /\ phase = "single" => OneSingle
            /\ phase = "merge" => OneSpec
TodoInv == \A w \in todo : ticklog[w].spec = Single
RoomInv == Len(ticklog) + Len(report.new) <= MaxRows
HandsInv == InPhase /\ JobInv /\ TodoInv /\ RoomInv

LEMMA HandsInit ==
  ASSUME BoundsAssumption, Init
  PROVE  HandsInv
BY EmptySeq DEF Init, InitProcess, HandsInv, InPhase, JobInv, TodoInv, RoomInv, NoReport,
                BoundsAssumption

LEMMA InPhaseStep ==
  ASSUME TypeOK, InPhase, [Next]_vars
  PROVE  InPhase'
<1>1. CASE Network
  BY <1>1 DEF Network, Break, Quit, Crash, Restart, Age, InPhase, dispatcher
<1>2. CASE Raknet
  BY <1>2 DEF Raknet, ConnectionLost, Leave, M2CJoin, L2CJoin, Join, EndCutLod,
              L2CTask, L2CAck, EraseEntry, M2CNewLog, Finish, InsertNew, InPhase, dispatcher
<1>3. CASE Dispatcher
  <2>1. CASE SendJob \/ SendFails \/ (\E w \in job : MarkSent(w)) \/ SelectBatch
    BY <2>1 DEF SendJob, SendFails, MarkSent, SelectBatch, Resume, InPhase
  <2>2. CASE RouteFirst \/ RouteNext \/ RouteCrash \/ OpenMerge \/ CountSingles
    BY <2>2 DEF RouteFirst, RouteNext, RouteCrash, Restart, OpenMerge, CountSingles, InPhase
  <2>3. CASE SelectSingles \/ TakeUpload \/ \E w \in todo : PickSingle(w)
    BY <2>3 DEF SelectSingles, TakeUpload, PickSingle, InPhase
  <2> QED BY <1>3, <2>1, <2>2, <2>3 DEF Dispatcher
<1>4. CASE Cutter
  BY <1>4 DEF Cutter, SelectStale, Recycle, AllowMerge, AskUpload, InPhase, dispatcher
<1>5. CASE UNCHANGED vars
  BY <1>5 DEF vars, InPhase, dispatcher
<1> QED BY <1>1, <1>2, <1>3, <1>4, <1>5 DEF Next

\* Whoever touches todo or job takes the rows from a result of that phase.
LEMMA TodoStep ==
  ASSUME TypeOK, TodoInv, [Next]_vars
  PROVE  TodoInv'
<1>1. todo \subseteq Workids /\ \A w \in Workids : ticklog'[w].spec = ticklog[w].spec
  BY RowStep DEF TypeOK, TableOK
<1>2. todo' \subseteq todo \/ SelectSingles
  <2>1. CASE Network
    BY <2>1 DEF Network, Break, Quit, Crash, Restart, Age, dispatcher
  <2>2. CASE Raknet
    BY <2>2 DEF Raknet, ConnectionLost, Leave, M2CJoin, L2CJoin, Join, EndCutLod,
                L2CTask, L2CAck, EraseEntry, M2CNewLog, Finish, InsertNew, dispatcher
  <2>3. CASE Dispatcher
    BY <2>3 DEF Dispatcher, PickSingle, RouteFirst, RouteNext, RouteCrash, Restart, SendJob,
                SendFails, MarkSent, CountSingles, OpenMerge, SelectBatch, TakeUpload
  <2>4. CASE Cutter
    BY <2>4 DEF Cutter, SelectStale, Recycle, AllowMerge, AskUpload, dispatcher
  <2>5. CASE UNCHANGED vars
    BY <2>5 DEF vars, dispatcher
  <2> QED BY <2>1, <2>2, <2>3, <2>4, <2>5 DEF Next
<1>3. CASE SelectSingles
  BY <1>3 DEF SelectSingles, Select, TodoInv
<1> QED BY <1>1, <1>2, <1>3 DEF TodoInv

LEMMA JobStep ==
  ASSUME TypeOK, InPhase, TodoInv, JobInv, [Next]_vars
  PROVE  JobInv'
<1>1. /\ \A w \in Workids : ticklog'[w].spec = ticklog[w].spec
      /\ Workids \subseteq Workids' /\ job \subseteq Workids /\ todo \subseteq Workids
  BY RowStep DEF TypeOK, TableOK, Workids
<1>2. CASE /\ UNCHANGED <<job, phase, spec>>
           /\ pc' \in {"route", "reroute", "send"} => pc \in {"route", "reroute", "send"}
  <2>1. SUFFICES ASSUME pc' \in {"route", "reroute", "send"}
                 PROVE  (phase = "single" => OneSingle') /\ (phase = "merge" => OneSpec')
    BY <1>2 DEF JobInv
  <2>2. phase = "single" => OneSingle'
    BY <1>1, <1>2, <2>1 DEF JobInv, OneSingle
  <2>3. phase = "merge" => OneSpec'
    BY <1>1, <1>2, <2>1 DEF JobInv, OneSpec
  <2> QED BY <2>2, <2>3
<1>3. CASE pc' \notin {"route", "reroute", "send"}
  BY <1>3 DEF JobInv
<1>4. ASSUME NEW w \in todo, PickSingle(w) PROVE JobInv'
  <2>1. job' = {w} /\ phase' = "single" /\ w \in Workids' /\ ticklog'[w].spec = Single
    BY <1>1, <1>4 DEF PickSingle, InPhase, TodoInv
  <2> QED BY <2>1 DEF JobInv, OneSingle
<1>5. CASE SelectBatch
  <2>1. CASE \E v, w \in Select(Waiting, spec) : v # w
    <3>1. job' = Select(Waiting, spec) /\ phase' = "merge" /\ UNCHANGED <<spec, ticklog>>
      BY <1>5, <2>1 DEF SelectBatch, InPhase
    <3>2. OneSpec'
      BY <2>1, <3>1 DEF OneSpec, Select
    <3> QED BY <3>1, <3>2 DEF JobInv
  <2>2. CASE ~ \E v, w \in Select(Waiting, spec) : v # w
    BY <1>3, <1>5, <2>2 DEF SelectBatch, Resume
  <2> QED BY <2>1, <2>2
<1>6. CASE TakeUpload
  BY <1>6 DEF TakeUpload, JobInv
<1>7. CASE Network
  BY <1>2, <1>3, <1>7 DEF Network, Break, Quit, Crash, Restart, Age, dispatcher
<1>8. CASE Raknet
  BY <1>2, <1>8 DEF Raknet, ConnectionLost, Leave, M2CJoin, L2CJoin, Join, EndCutLod,
              L2CTask, L2CAck, EraseEntry, M2CNewLog, Finish, InsertNew, dispatcher
<1>9. CASE Dispatcher
  <2>1. CASE SendJob \/ SendFails \/ \E w \in job : MarkSent(w)
    BY <1>3, <2>1 DEF SendJob, SendFails, MarkSent, Resume
  <2>2. CASE RouteFirst \/ RouteNext
    BY <1>2, <2>2 DEF RouteFirst, RouteNext
  <2>3. CASE RouteCrash \/ OpenMerge \/ CountSingles \/ SelectSingles
    BY <1>3, <2>3 DEF RouteCrash, Restart, OpenMerge, CountSingles, SelectSingles
  <2> QED BY <1>4, <1>5, <1>6, <1>9, <2>1, <2>2, <2>3 DEF Dispatcher
<1>10. CASE Cutter
  BY <1>2, <1>10 DEF Cutter, SelectStale, Recycle, AllowMerge, AskUpload, dispatcher
<1>11. CASE UNCHANGED vars
  BY <1>2, <1>11 DEF vars, dispatcher
<1> QED BY <1>7, <1>8, <1>9, <1>10, <1>11 DEF Next

(* The table seen as tickets: as long as the table, and every statement     *)
(* changes it the way TicketLife changes its tickets.                       *)
Ticket == [spec : Int, done : BOOLEAN]
Over(st) == st \in {Finished, Bad}
TicketOf(row) == [spec |-> row.spec, done |-> Over(row.status)]
TicketsOf(tab) == [w \in 1..Len(tab) |-> TicketOf(tab[w])]

LEMMA TicketIs ==
  ASSUME NEW row
  PROVE  /\ TicketOf(row).spec = row.spec
         /\ TicketOf(row).done \in BOOLEAN
         /\ TicketOf(row).done <=> Over(row.status)
         /\ Over(row.status) => TicketOf(row) = [spec |-> row.spec, done |-> TRUE]
         /\ ~ Over(row.status) => TicketOf(row) = [spec |-> row.spec, done |-> FALSE]
<1>1. CASE Over(row.status)
  <2>1. Over(row.status) = TRUE
    BY <1>1 DEF Over
  <2>2. TicketOf(row) = [spec |-> row.spec, done |-> TRUE]
    BY <2>1, Zenon DEF TicketOf
  <2> QED BY <1>1, <2>2
<1>2. CASE ~ Over(row.status)
  <2>1. Over(row.status) = FALSE
    BY <1>2 DEF Over
  <2>2. TicketOf(row) = [spec |-> row.spec, done |-> FALSE]
    BY <2>1, Zenon DEF TicketOf
  <2> QED BY <1>2, <2>2
<1> QED BY <1>1, <1>2

LEMMA TicketsAre ==
  ASSUME DataAssumption, NEW tab \in Seq(Row)
  PROVE  /\ TicketsOf(tab) \in Seq(Ticket)
         /\ Len(TicketsOf(tab)) = Len(tab) /\ Len(tab) \in Nat
         /\ \A w \in 1..Len(tab) : TicketsOf(tab)[w] = TicketOf(tab[w])
<1>1. Len(tab) \in Nat /\ \A w \in 1..Len(tab) : tab[w] \in Row
  BY LenProperties, ElementOfSeq
<1>2. \A w \in 1..Len(tab) : TicketOf(tab[w]) \in Ticket
  <2>1. \A row : TicketOf(row) = [spec |-> row.spec, done |-> TicketOf(row).done]
    BY TicketIs DEF TicketOf
  <2>2. \A w \in 1..Len(tab) : tab[w].spec \in Int
    BY <1>1 DEF Row, Single, DataAssumption
  <2> QED BY <2>1, <2>2, TicketIs DEF Ticket
<1>3. TicketsOf(tab) \in [1..Len(tab) -> Ticket]
  BY <1>2 DEF TicketsOf
<1>4. TicketsOf(tab) \in Seq(Ticket) /\ Len(TicketsOf(tab)) = Len(tab)
  BY <1>1, <1>3, SeqDef, LenProperties
<1> QED BY <1>1, <1>4 DEF TicketsOf

LEMMA TicketsMap ==
  /\ Tickets = TicketsOf(ticklog)
  /\ Tickets' = TicketsOf(ticklog')
BY Zenon DEF Tickets, TicketsOf, TicketOf, Workids, Done, Over

LEMMA TicketsSame ==
  ASSUME NEW tab, NEW tabb, Len(tabb) = Len(tab),
         \A w \in 1..Len(tab) : /\ tabb[w].spec = tab[w].spec
                                /\ Over(tabb[w].status) <=> Over(tab[w].status)
  PROVE  TicketsOf(tabb) = TicketsOf(tab)
<1>1. ASSUME NEW w \in 1..Len(tab) PROVE TicketOf(tabb[w]) = TicketOf(tab[w])
  <2>1. CASE Over(tab[w].status)
    <3>1. TicketOf(tab[w]) = [spec |-> tab[w].spec, done |-> TRUE]
      BY <2>1, TicketIs
    <3>2. TicketOf(tabb[w]) = [spec |-> tabb[w].spec, done |-> TRUE]
      BY <2>1, TicketIs
    <3> QED BY <3>1, <3>2
  <2>2. CASE ~ Over(tab[w].status)
    <3>1. TicketOf(tab[w]) = [spec |-> tab[w].spec, done |-> FALSE]
      BY <2>2, TicketIs
    <3>2. TicketOf(tabb[w]) = [spec |-> tabb[w].spec, done |-> FALSE]
      BY <2>2, TicketIs
    <3> QED BY <3>1, <3>2
  <2> QED BY <2>1, <2>2
<1> QED BY <1>1, Zenon DEF TicketsOf

LEMMA TicketEntered ==
  ASSUME DataAssumption, NEW tab \in Seq(Row), NEW r \in Row, r.status = Waiting
  PROVE  TicketsOf(Append(tab, r)) = Append(TicketsOf(tab), [spec |-> r.spec, done |-> FALSE])
<1> DEFINE t == [spec |-> r.spec, done |-> FALSE]
           n == Len(tab) + 1
           tabb == Append(tab, r)
<1>1. /\ tabb \in Seq(Row) /\ Len(tabb) = n
      /\ \A w \in 1..Len(tab) : tabb[w] = tab[w]
      /\ tabb[n] = r
  BY AppendProperties
<1>2. t \in Ticket /\ t = TicketOf(r)
  BY TicketIs DEF Ticket, Row, Single, DataAssumption, Over, Waiting, Finished, Bad
<1> HIDE DEF t, tabb
<1>3. /\ TicketsOf(tabb) \in Seq(Ticket) /\ Len(TicketsOf(tabb)) = n
      /\ \A w \in 1..n : TicketsOf(tabb)[w] = TicketOf(tabb[w])
  BY <1>1, TicketsAre
<1>4. /\ Append(TicketsOf(tab), t) \in Seq(Ticket) /\ Len(Append(TicketsOf(tab), t)) = n
      /\ \A w \in 1..Len(tab) : Append(TicketsOf(tab), t)[w] = TicketOf(tab[w])
      /\ Append(TicketsOf(tab), t)[n] = t
  <2> DEFINE T == TicketsOf(tab)
  <2>1. /\ T \in Seq(Ticket) /\ Len(T) = Len(tab) /\ t \in Ticket
        /\ \A w \in 1..Len(tab) : T[w] = TicketOf(tab[w])
    BY <1>2, TicketsAre
  <2> HIDE DEF T
  <2>2. /\ Append(T, t) \in Seq(Ticket) /\ Len(Append(T, t)) = n
        /\ \A w \in 1..Len(tab) : Append(T, t)[w] = TicketOf(tab[w])
        /\ Append(T, t)[n] = t
    BY <2>1, AppendProperties
  <2> QED BY <2>2 DEF T
<1>5. \A w \in 1..n : TicketsOf(tabb)[w] = Append(TicketsOf(tab), t)[w]
  <2>1. 1..n = 1..Len(tab) \cup {n}
    BY LenProperties
  <2> QED BY <1>1, <1>2, <1>3, <1>4, <2>1
<1>6. TicketsOf(tabb) = Append(TicketsOf(tab), t)
  BY <1>3, <1>4, <1>5, SeqEqual
<1> QED BY <1>6 DEF t, tabb

\* A statement that writes the status of one row
LEMMA TicketSet ==
  ASSUME DataAssumption, NEW tab \in Seq(Row), NEW w \in 1..Len(tab), NEW r \in Row,
         r.spec = tab[w].spec,
         NEW done \in BOOLEAN, Over(r.status) <=> done
  PROVE  TicketsOf([tab EXCEPT ![w] = r])
           = [TicketsOf(tab) EXCEPT ![w] = [@ EXCEPT !.done = done]]
<1> DEFINE tabb == [tab EXCEPT ![w] = r]
<1>1. /\ tabb \in Seq(Row) /\ Len(tabb) = Len(tab)
      /\ \A v \in 1..Len(tab) : tabb[v] = IF v = w THEN r ELSE tab[v]
  BY ExceptSeq
<1> HIDE DEF tabb
<1>2. \A v \in 1..Len(tab) :
        TicketOf(tabb[v]) = IF v = w THEN [TicketsOf(tab)[w] EXCEPT !.done = done]
                                     ELSE TicketsOf(tab)[v]
  <2>1. TicketOf(r) = [spec |-> tab[w].spec, done |-> done]
    <3>1. CASE done = TRUE
      BY <3>1, TicketIs
    <3>2. CASE done = FALSE
      BY <3>2, TicketIs
    <3> QED BY <3>1, <3>2
  <2>2. \E d : TicketsOf(tab)[w] = [spec |-> tab[w].spec, done |-> d]
    BY TicketsAre DEF TicketOf
  <2>3. [TicketsOf(tab)[w] EXCEPT !.done = done] = [spec |-> tab[w].spec, done |-> done]
    <3>1. PICK d : TicketsOf(tab)[w] = [spec |-> tab[w].spec, done |-> d]
      BY <2>2
    <3>2. ASSUME NEW s, NEW b PROVE [[spec |-> s, done |-> d] EXCEPT !.done = b]
                                      = [spec |-> s, done |-> b]
      OBVIOUS
    <3> QED BY <3>1, <3>2, Zenon
  <2>4. TicketOf(tabb[w]) = [TicketsOf(tab)[w] EXCEPT !.done = done]
    BY <1>1, <2>1, <2>3
  <2>5. \A v \in 1..Len(tab) : v # w => TicketOf(tabb[v]) = TicketsOf(tab)[v]
    BY <1>1, TicketsAre
  <2> QED BY <2>4, <2>5
<1>3. TicketsOf(tabb) = [v \in 1..Len(tab) |->
                           IF v = w THEN [TicketsOf(tab)[w] EXCEPT !.done = done]
                                    ELSE TicketsOf(tab)[v]]
  BY <1>1, <1>2, Zenon DEF TicketsOf
<1>4. DOMAIN TicketsOf(tab) = 1..Len(tab)
  BY DEF TicketsOf
<1>5. TicketsOf(tabb) = [TicketsOf(tab) EXCEPT ![w] = [@ EXCEPT !.done = done]]
  BY <1>3, <1>4
<1> QED BY <1>5 DEF tabb

LEMMA InsertTickets ==
  ASSUME DataAssumption, ticklog \in Seq(Row), NEW sp \in {Single} \cup 0..NumSpec - 1,
         NEW ty \in MediaTypes, NEW h \in Hosts, Insert(sp, ty, h)
  PROVE  /\ Tickets' = Append(Tickets, [spec |-> sp, done |-> FALSE])
         /\ Len(ticklog') = Len(ticklog) + 1
<1>1. PICK a \in Hosts, b \in Hosts : ticklog' = Append(ticklog, NewRow(sp, ty, a, b))
  BY DEF Insert, Hosts, Servers
<1> DEFINE r == NewRow(sp, ty, a, b)
<1>2. r \in Row /\ r.spec = sp /\ r.status = Waiting
  BY NewRowTypes DEF NewRow
<1>3. ticklog' = Append(ticklog, r)
  BY <1>1
<1> HIDE DEF r
<1>4. TicketsOf(ticklog') = Append(TicketsOf(ticklog), [spec |-> sp, done |-> FALSE])
  BY <1>2, <1>3, TicketEntered
<1> QED BY <1>2, <1>3, <1>4, TicketsMap, RowAdded

LEMMA FinishTickets ==
  ASSUME DataAssumption, TypeOK, NEW w \in Workids, Finish(w)
  PROVE  /\ Tickets' = [Tickets EXCEPT ![w] = [@ EXCEPT !.done = TRUE]]
         /\ Len(ticklog') = Len(ticklog)
         /\ w \in Reporting
         /\ Reporting' \in {Reporting, Reporting \ {w}}
         /\ report'.new = report.new
<1>1. ticklog \in Seq(Row) /\ w \in 1..Len(ticklog)
  BY DEF TypeOK, TableOK, Workids
<1>2. PICK st \in {Finished, Bad} :
        ticklog' = [ticklog EXCEPT ![w] = [ticklog[w] EXCEPT !.status = st]]
  BY DEF Finish
<1> DEFINE r == [ticklog[w] EXCEPT !.status = st]
<1>3. r \in Row /\ r.spec = ticklog[w].spec /\ r.status = st
  <2>1. ticklog[w] \in Row
    BY <1>1, ElementOfSeq
  <2>2. st \in Waiting..Bad
    BY <1>2 DEF Waiting, Finished, Bad
  <2> QED BY <2>1, <2>2 DEF Row
<1>4. ticklog' = [ticklog EXCEPT ![w] = r] /\ Over(st)
  BY <1>2 DEF Over
<1> HIDE DEF r
<1>5. TicketsOf(ticklog') = [TicketsOf(ticklog) EXCEPT ![w] = [@ EXCEPT !.done = TRUE]]
  BY <1>1, <1>3, <1>4, TicketSet, ZenonT(60)
<1>6. Len(ticklog') = Len(ticklog)
  BY <1>1, <1>3, <1>4, RowChanged
<1>7. /\ w \in Reporting /\ Reporting' \in {Reporting, Reporting \ {w}}
      /\ report'.new = report.new
  <2>1. report = [good |-> report.good, bad |-> report.bad, new |-> report.new]
    BY DEF TypeOK, ControlOK
  <2>2. CASE w \in report.good /\ report' = [report EXCEPT !.good = @ \ {w}]
    <3>1. /\ report'.good = report.good \ {w}
          /\ report'.bad = report.bad /\ report'.new = report.new
      BY <2>1, <2>2
    <3> QED BY <2>2, <3>1 DEF Reporting
  <2>3. CASE w \in report.bad /\ report' = [report EXCEPT !.bad = @ \ {w}]
    <3>1. /\ report'.bad = report.bad \ {w}
          /\ report'.good = report.good /\ report'.new = report.new
      BY <2>1, <2>3
    <3> QED BY <2>3, <3>1 DEF Reporting
  <2> QED BY <2>2, <2>3 DEF Finish
<1> QED BY <1>5, <1>6, <1>7, TicketsMap

\* The columns of time and of nothing else do not show in the tickets.
LEMMA TicketsStay ==
  ASSUME DataAssumption, TypeOK, UNCHANGED ticklog \/ Age
  PROVE  UNCHANGED Tickets /\ Len(ticklog') = Len(ticklog)
<1>1. ticklog \in Seq(Row) /\ Len(ticklog) \in Nat
  BY LenProperties DEF TypeOK, TableOK
<1>2. CASE UNCHANGED ticklog
  BY <1>2, TicketsMap
<1>3. CASE Age
  <2>1. ticklog' = [w \in Workids |-> [ticklog[w] EXCEPT !.aged = TRUE]]
    BY <1>3 DEF Age
  <2>2. \A w \in Workids : ticklog[w] \in Row
    BY <1>1, ElementOfSeq DEF Workids
  <2>3. ticklog' \in [1..Len(ticklog) -> Row]
    BY <2>1, <2>2 DEF Row, Workids
  <2>4. Len(ticklog') = Len(ticklog)
    BY <1>1, <2>3, SeqDef, LenProperties
  <2>5. \A w \in 1..Len(ticklog) : /\ ticklog'[w].spec = ticklog[w].spec
                                   /\ ticklog'[w].status = ticklog[w].status
    BY <2>1, <2>2 DEF Row, Workids
  <2>6. TicketsOf(ticklog') = TicketsOf(ticklog)
    BY <2>4, <2>5, TicketsSame
  <2> QED BY <2>4, <2>6, TicketsMap
<1> QED BY <1>2, <1>3

(* updatadb and the recycler: where the Workid is that of a row, its ticket *)
(* is to do again, and it is a ticket that a mark may hit.                  *)
TakenBack(w) == /\ w \in Workids \cap HitIds
                /\ Tickets' = [Tickets EXCEPT ![w] = [@ EXCEPT !.done = FALSE]]

LEMMA TicketsTaken ==
  ASSUME ServersAssumption, DataAssumption, TypeOK, HitInv,
         (\E w \in job : MarkSent(w)) \/ (\E w \in stale : Recycle(w))
  PROVE  /\ Len(ticklog') = Len(ticklog)
         /\ UNCHANGED Tickets \/ \E w \in Workids : TakenBack(w)
<1> DEFINE Goal == /\ Len(ticklog') = Len(ticklog)
                   /\ UNCHANGED Tickets \/ \E w \in Workids : TakenBack(w)
<1>1. ticklog \in Seq(Row)
  BY DEF TypeOK, TableOK
<1>2. ASSUME NEW w \in Workids \cap HitIds, NEW r \in Row, r.spec = ticklog[w].spec,
             r.status \in {Waiting, Assigned}, ticklog' = [ticklog EXCEPT ![w] = r]
      PROVE  Goal
  <2>1. w \in 1..Len(ticklog) /\ (Over(r.status) <=> FALSE)
    BY <1>2 DEF Workids, Over, Waiting, Assigned, Finished, Bad
  <2>2. TicketsOf(ticklog') = [TicketsOf(ticklog) EXCEPT ![w] = [@ EXCEPT !.done = FALSE]]
    BY <1>1, <1>2, <2>1, TicketSet
  <2>3. Len(ticklog') = Len(ticklog)
    BY <1>1, <1>2, RowChanged
  <2>4. TakenBack(w)
    BY <1>2, <2>2, TicketsMap DEF TakenBack
  <2> QED BY <2>3, <2>4
<1> HIDE DEF Goal
<1>3. ASSUME NEW w \in job, MarkSent(w) PROVE Goal
  <2>1. PICK id \in TailIds[ticklog[w].src], a \in Hosts :
          ticklog' = IF id \in Workids
                     THEN [ticklog EXCEPT ![id] = [ticklog[id] EXCEPT
                              !.status = Assigned, !.worker = a, !.aged = FALSE]]
                     ELSE ticklog
    BY <1>3 DEF MarkSent
  <2>2. CASE id \notin Workids
    BY <2>1, <2>2, TicketsMap DEF Goal
  <2>3. CASE id \in Workids
    <3>1. id \in HitIds
      <4>1. ticklog[w] \in Row
        BY <1>1, ElementOfSeq DEF TypeOK, TableOK, Workids
      <4> QED BY <4>1, <2>1 DEF HitIds, Row
    <3> DEFINE r == [ticklog[id] EXCEPT
                        !.status = Assigned, !.worker = a, !.aged = FALSE]
    <3>2. r \in Row
      <4>1. Assigned \in 0..3
        BY DEF Assigned
      <4> QED BY <1>1, <2>3, <4>1, RowTypes
    <3>3. r.spec = ticklog[id].spec /\ r.status = Assigned
      <4>1. ticklog[id] \in Row
        BY <1>1, <2>3, ElementOfSeq DEF Workids
      <4> QED BY <4>1 DEF Row
    <3>4. ticklog' = [ticklog EXCEPT ![id] = r]
      BY <2>1, <2>3
    <3> HIDE DEF r
    <3> QED BY <1>2, <2>3, <3>1, <3>2, <3>3, <3>4
  <2> QED BY <2>2, <2>3
<1>4. ASSUME NEW w \in stale, Recycle(w) PROVE Goal
  <2>1. w \in Workids \cap HitIds
    BY DEF TypeOK, TableOK, HitInv
  <2> DEFINE r == [ticklog[w] EXCEPT !.status = Waiting, !.worker = Nobody]
  <2>2. r \in Row
    <3>1. Waiting \in 0..3 /\ Nobody \in Hosts
      BY DEF Waiting, Hosts
    <3> QED BY <1>1, <2>1, <3>1, RowTypes
  <2>3. r.spec = ticklog[w].spec /\ r.status = Waiting
    <3>1. ticklog[w] \in Row
      BY <1>1, <2>1, ElementOfSeq DEF Workids
    <3> QED BY <3>1 DEF Row
  <2>4. ticklog' = [ticklog EXCEPT ![w] = r]
    BY <1>4 DEF Recycle
  <2> HIDE DEF r
  <2> QED BY <1>2, <2>1, <2>2, <2>3, <2>4
<1> QED BY <1>3, <1>4 DEF Goal

LEMMA RoomStep ==
  ASSUME ServersAssumption, DataAssumption, BoundsAssumption, TypeOK, HitInv,
         RoomInv, [Next]_vars
  PROVE  RoomInv'
<1>1. /\ ticklog \in Seq(Row) /\ Len(ticklog) \in Nat /\ Len(report.new) \in Nat
      /\ MaxRows \in Nat /\ Len(NoReport.new) = 0
  BY LenProperties, EmptySeq DEF TypeOK, TableOK, ControlOK, NoReport, BoundsAssumption
<1>2. ASSUME NEW m \in MediaServers, M2CNewLog(m) PROVE RoomInv'
  <2>1. PICK ty \in MediaTypes : Insert(Single, ty, m)
    BY <1>2 DEF M2CNewLog, DataAssumption
  <2>2. Len(ticklog') = Len(ticklog) + 1
    BY <1>1, <2>1, InsertTickets DEF Hosts, Servers
  <2>3. Len(report'.new) = 0 /\ Len(ticklog) < MaxRows
    BY <1>1, <1>2 DEF M2CNewLog, RaknetIdle, raknet
  <2>4. Len(ticklog') + Len(report'.new) <= MaxRows
    BY <1>1, <2>2, <2>3
  <2> QED BY <2>4 DEF RoomInv
<1>3. CASE InsertNew
  <2> DEFINE Log == [spec : 0..NumSpec - 1, type : MediaTypes]
             log == Head(report.new)
  <2>1. /\ report.new \in Seq(Log) /\ report.new # <<>>
        /\ report = [good |-> report.good, bad |-> report.bad, new |-> report.new]
    BY <1>3 DEF InsertNew, TypeOK, ControlOK
  <2>2. log \in Log /\ Len(Tail(report.new)) = Len(report.new) - 1
    BY <2>1, HeadTailProperties
  <2>3. Insert(log.spec, log.type, Nobody) /\ report'.new = Tail(report.new)
    BY <1>3, <2>1 DEF InsertNew
  <2>4. Len(ticklog') = Len(ticklog) + 1
    BY <1>1, <2>2, <2>3, InsertTickets DEF Hosts
  <2>5. Len(report'.new) = Len(report.new) - 1
    BY <2>2, <2>3
  <2>6. Len(ticklog') + Len(report'.new) <= MaxRows
    <3> DEFINE n == Len(ticklog)
               k == Len(report.new)
    <3>1. n \in Nat /\ k \in Nat /\ n + k <= MaxRows /\ MaxRows \in Nat
      BY <1>1 DEF RoomInv
    <3>2. Len(ticklog') = n + 1 /\ Len(report'.new) = k - 1
      BY <2>4, <2>5
    <3> HIDE DEF n, k
    <3> QED BY <3>1, <3>2
  <2> QED BY <2>6 DEF RoomInv
<1>4. ASSUME NEW w \in Workids, Finish(w) PROVE RoomInv'
  BY <1>4, FinishTickets DEF RoomInv
<1>5. CASE /\ \/ UNCHANGED ticklog \/ Age
              \/ (\E w \in job : MarkSent(w))
              \/ \E w \in stale : Recycle(w)
           /\ report'.new = report.new
  BY <1>1, <1>5, TicketsStay, TicketsTaken DEF RoomInv
<1>6. CASE UNCHANGED ticklog /\ report'.new = <<>>
  BY <1>1, <1>6 DEF RoomInv, NoReport
<1>7. ASSUME NEW l \in LogServers, L2CTask(l) PROVE RoomInv'
  BY <1>7 DEF L2CTask, RoomInv
<1>8. CASE Network
  BY <1>5, <1>6, <1>8 DEF Network, Break, Quit, Crash, Restart, Age, NoReport, raknet
<1>9. CASE Raknet
  <2>1. ASSUME NEW l \in LogServers, L2CAck(l) PROVE RoomInv'
    BY <1>6, <2>1 DEF L2CAck
  <2>2. CASE EraseEntry \/ \E a \in Servers : ConnectionLost(a) \/ Leave(a)
    BY <1>5, <2>2 DEF EraseEntry, ConnectionLost, Leave
  <2>3. CASE \/ \E m \in MediaServers : M2CJoin(m) \/ EndCutLod(m)
             \/ \E l \in LogServers : L2CJoin(l)
    BY <1>5, <2>3 DEF M2CJoin, L2CJoin, Join, EndCutLod, raknet
  <2> QED BY <1>2, <1>3, <1>4, <1>7, <1>9, <2>1, <2>2, <2>3 DEF Raknet
<1>10. CASE Dispatcher
  <2>1. CASE RouteCrash
    BY <1>6, <2>1 DEF RouteCrash, Restart, NoReport
  <2>2. ASSUME NEW w \in job, MarkSent(w) PROVE RoomInv'
    BY <1>5, <2>2 DEF MarkSent, raknet
  <2>3. CASE SendJob \/ SendFails \/ RouteFirst \/ RouteNext
    BY <1>5, <2>3 DEF SendJob, SendFails, RouteFirst, RouteNext, raknet
  <2>4. CASE \/ SelectSingles \/ CountSingles \/ OpenMerge \/ SelectBatch \/ TakeUpload
             \/ \E w \in todo : PickSingle(w)
    BY <1>5, <2>4 DEF SelectSingles, PickSingle, CountSingles, OpenMerge, SelectBatch,
                TakeUpload, raknet
  <2> QED BY <1>10, <2>1, <2>2, <2>3, <2>4 DEF Dispatcher
<1>11. CASE Cutter
  BY <1>5, <1>11 DEF Cutter, SelectStale, Recycle, AllowMerge, AskUpload, raknet
<1>12. CASE UNCHANGED vars
  BY <1>5, <1>12 DEF vars, raknet
<1> QED BY <1>8, <1>9, <1>10, <1>11, <1>12 DEF Next

(* One step of TicketLife, or none, for every step of Dispatch.  First what *)
(* the names of TicketLife mean here.                                       *)
LifeStep == [Life!Next]_(Life!vars)

LEMMA LifeNames ==
  ASSUME DataAssumption, TypeOK
  PROVE  /\ Life!Single = Single
         /\ Len(Tickets) = Len(ticklog)
         /\ Life!Ids = Workids
         /\ Life!Singles = {w \in Workids : ticklog[w].spec = Single}
         /\ \A w \in Workids : Tickets[w].spec = ticklog[w].spec
         /\ \A w \in Workids : w \in Life!Undone <=> ~ Done(w)
         /\ Life!Undone \subseteq Workids
<1>1. ticklog \in Seq(Row) /\ Tickets = TicketsOf(ticklog)
  BY TicketsMap DEF TypeOK, TableOK
<1>2. /\ Len(Tickets) = Len(ticklog)
      /\ \A w \in Workids : Tickets[w] = TicketOf(ticklog[w])
  BY <1>1, TicketsAre DEF Workids
<1>3. \A w \in Workids : /\ Tickets[w].spec = ticklog[w].spec
                         /\ Tickets[w].done <=> Done(w)
  BY <1>2, TicketIs DEF Done, Over
<1> QED BY <1>2, <1>3 DEF Life!Single, Single, Life!Ids, Workids, Life!Singles, Life!Undone

LEMMA LifeStutter ==
  ASSUME UNCHANGED <<Tickets, given, Reporting, Stage, LetInWith, media_cut_over>>
  PROVE  LifeStep
BY DEF LifeStep, Life!vars

\* Where the dispatcher does not move, the stage does not change.
LEMMA StageSame ==
  ASSUME UNCHANGED <<pc, phase, counted>>
  PROVE  UNCHANGED <<Stage, LetInWith>>
BY DEF Stage, LetInWith

\* After a message the dispatcher is in the same stage, or its pass is over.
LEMMA ResumeStage ==
  ASSUME Resume, pc \in {"send", "mark", "batch"}, UNCHANGED <<phase, counted>>
  PROVE  \/ UNCHANGED <<Stage, LetInWith>>
         \/ Stage = "merge" /\ Stage' = "split" /\ LetInWith' = 0
BY DEF Resume, Stage, LetInWith

LEMMA LifeClose ==
  ASSUME UNCHANGED <<Tickets, given, Reporting, media_cut_over>>,
         \/ UNCHANGED <<Stage, LetInWith>>
         \/ Stage = "merge" /\ Stage' = "split" /\ LetInWith' = 0
  PROVE  LifeStep
<1>1. CASE Stage = "merge" /\ Stage' = "split" /\ LetInWith' = 0
  <2>1. Life!ClosePass
    BY <1>1 DEF Life!ClosePass, Life!EndPass
  <2> QED BY <2>1 DEF LifeStep, Life!Next, Life!Passes
<1> QED BY <1>1, LifeStutter

\* A mark or a recycle; with the last message of a pass it may end the pass, too.
LEMMA LifeTake ==
  ASSUME DataAssumption, TypeOK, UNCHANGED <<given, Reporting, media_cut_over>>,
         UNCHANGED Tickets \/ \E w \in Workids : TakenBack(w),
         \/ UNCHANGED <<Stage, LetInWith>>
         \/ Stage = "merge" /\ Stage' = "split" /\ LetInWith' = 0
  PROVE  LifeStep
<1>1. CASE UNCHANGED Tickets
  BY <1>1, LifeClose
<1>2. ASSUME NEW w \in Workids, TakenBack(w) PROVE LifeStep
  <2>1. Life!TakeBack(w) /\ w \in Life!Ids
    BY <1>2, LifeNames DEF TakenBack, Life!TakeBack, Life!EndPass
  <2> QED BY <2>1 DEF LifeStep, Life!Next
<1> QED BY <1>1, <1>2

\* A restart, by a failed statement or by a freed node
LEMMA LifeRestart ==
  ASSUME Restart
  PROVE  LifeStep
<1>1. /\ Reporting' = {} /\ Stage' = "split" /\ LetInWith' = 0
      /\ media_cut_over' = FALSE /\ UNCHANGED <<ticklog, given>>
  BY DEF Restart, Reporting, NoReport, Stage, LetInWith
<1>2. Life!Crash
  BY <1>1, TicketsMap DEF Life!Crash
<1> QED BY <1>2 DEF LifeStep, Life!Next, Life!Servers

LEMMA LifeNetwork ==
  ASSUME DataAssumption, TypeOK, Network
  PROVE  LifeStep
<1>1. ASSUME NEW a \in Servers, Break(a) PROVE LifeStep
  <2>1. UNCHANGED <<Tickets, Reporting, Stage, LetInWith, media_cut_over>>
    BY <1>1, StageSame, TicketsMap DEF Break, raknet, flags, dispatcher, Reporting
  <2>2. CASE UNCHANGED given
    BY <2>1, <2>2, LifeStutter
  <2>3. CASE a \in LogServers /\ given' = [given EXCEPT ![a] = {}]
    <3>1. Life!Lose(a)
      BY <2>1, <2>3 DEF Life!Lose
    <3> QED BY <2>3, <3>1 DEF LifeStep, Life!Next, Life!Servers
  <2> QED BY <1>1, <2>2, <2>3 DEF Break
<1>2. ASSUME NEW a \in Servers, Quit(a) PROVE LifeStep
  BY <1>2, StageSame, LifeStutter, TicketsMap DEF Quit, raknet, flags, dispatcher, Reporting
<1>3. CASE Crash
  BY <1>3, LifeRestart DEF Crash
<1>4. CASE Age
  <2>1. UNCHANGED Tickets
    BY <1>4, TicketsStay
  <2> QED BY <1>4, <2>1, StageSame, LifeStutter
          DEF Age, network, raknet, flags, dispatcher, Reporting
<1> QED BY <1>1, <1>2, <1>3, <1>4 DEF Network

LEMMA LifeRaknet ==
  ASSUME DataAssumption, TypeOK, RoomInv, Raknet
  PROVE  LifeStep
<1>1. /\ ticklog \in Seq(Row) /\ Len(ticklog) \in Nat
      /\ report = [good |-> report.good, bad |-> report.bad, new |-> report.new]
  BY LenProperties DEF TypeOK, TableOK, ControlOK
<1>2. UNCHANGED <<Stage, LetInWith>>
  <2>1. UNCHANGED dispatcher
    BY DEF Raknet, ConnectionLost, Leave, M2CJoin, L2CJoin, Join, EndCutLod,
           L2CTask, L2CAck, EraseEntry, M2CNewLog, Finish, InsertNew
  <2> QED BY <2>1, StageSame DEF dispatcher
<1>3. RaknetIdle => Reporting = {}
  BY DEF RaknetIdle, Reporting, NoReport
<1>4. ASSUME NEW a \in Servers, ConnectionLost(a) \/ Leave(a) PROVE LifeStep
  BY <1>2, <1>4, LifeStutter, TicketsMap DEF ConnectionLost, Leave, flags, Reporting
<1>5. ASSUME NEW a, NEW kind, Join(a, kind) PROVE LifeStep
  BY <1>2, <1>5, LifeStutter, TicketsMap DEF Join, raknet, flags, Reporting
<1>6. CASE EraseEntry
  BY <1>2, <1>6, LifeStutter, TicketsMap DEF EraseEntry, network, flags, Reporting
<1>7. ASSUME NEW sp \in {Single} \cup 0..NumSpec - 1, Len(ticklog) < MaxRows,
             Tickets' = Append(Tickets, [spec |-> sp, done |-> FALSE]),
             UNCHANGED <<given, Reporting, media_cut_over>>
      PROVE  LifeStep
  <2>1. Life!Enter(sp)
    BY <1>2, <1>7, LifeNames DEF Life!Enter
  <2> QED BY <2>1 DEF LifeStep, Life!Next, Life!Enters, Life!Single, Single
<1>8. ASSUME NEW m \in MediaServers, M2CNewLog(m) PROVE LifeStep
  <2>1. PICK ty \in MediaTypes : Insert(Single, ty, m)
    BY <1>8 DEF M2CNewLog, DataAssumption
  <2>2. Tickets' = Append(Tickets, [spec |-> Single, done |-> FALSE])
    BY <1>1, <2>1, InsertTickets DEF Hosts, Servers
  <2>3. Len(ticklog) < MaxRows /\ UNCHANGED <<given, Reporting, media_cut_over>>
    BY <1>8 DEF M2CNewLog, raknet, flags, Reporting
  <2> QED BY <1>7, <2>2, <2>3
<1>9. CASE InsertNew
  <2> DEFINE Log == [spec : 0..NumSpec - 1, type : MediaTypes]
             log == Head(report.new)
  <2>1. report.new \in Seq(Log) /\ report.new # <<>>
    BY <1>9 DEF InsertNew, TypeOK, ControlOK
  <2>2. log \in Log /\ Len(report.new) \in Nat /\ Len(report.new) # 0
    BY <2>1, HeadTailProperties, EmptySeq, LenProperties
  <2>3. Insert(log.spec, log.type, Nobody)
    BY <1>9 DEF InsertNew
  <2>4. UNCHANGED <<given, Reporting, media_cut_over>>
    BY <1>1, <1>9 DEF InsertNew, flags, Reporting
  <2> HIDE DEF log
  <2>5. Tickets' = Append(Tickets, [spec |-> log.spec, done |-> FALSE])
    BY <1>1, <2>2, <2>3, InsertTickets DEF Hosts
  <2>6. Len(ticklog) < MaxRows
    <3> DEFINE n == Len(ticklog)
               k == Len(report.new)
    <3>1. n \in Nat /\ k \in Nat /\ k # 0 /\ n + k <= MaxRows /\ MaxRows \in Nat
      BY <1>1, <2>2, BoundsAssumption DEF RoomInv, BoundsAssumption
    <3> HIDE DEF n, k
    <3>2. n < MaxRows
      BY <3>1
    <3> QED BY <3>2 DEF n
  <2> QED BY <1>7, <2>2, <2>4, <2>5, <2>6
<1>10. ASSUME NEW w \in Workids, Finish(w) PROVE LifeStep
  <2>1. UNCHANGED <<given, media_cut_over>>
    BY <1>10 DEF Finish, network, flags
  <2>2. Life!Finish(w)
    BY <1>2, <1>10, <2>1, FinishTickets DEF Life!Finish
  <2>3. w \in Reporting
    BY <1>10, FinishTickets
  <2> QED BY <2>2, <2>3 DEF LifeStep, Life!Next
<1>11. ASSUME NEW l \in LogServers, L2CTask(l) PROVE LifeStep
  <2>1. PICK fin \in (SUBSET given[l]) \ {{}}, new \in NewRows, bad \in SUBSET given[l] :
            /\ bad \subseteq fin
            /\ report' = [good |-> fin \ bad, bad |-> bad, new |-> new]
            /\ given' = [given EXCEPT ![l] = @ \ fin]
    BY <1>11 DEF L2CTask
  <2>2. Reporting = {} /\ Reporting' = fin
    BY <1>3, <1>11, <2>1 DEF L2CTask, Reporting
  <2>3. UNCHANGED <<Tickets, media_cut_over>>
    BY <1>11, TicketsMap DEF L2CTask, flags
  <2>4. Life!Report(l, fin)
    <3>1. fin # {} /\ fin \subseteq given[l]
      BY <2>1
    <3> QED BY <1>2, <2>1, <2>2, <2>3, <3>1 DEF Life!Report
  <2> QED BY <2>1, <2>4 DEF LifeStep, Life!Next, Life!Servers
<1>12. ASSUME NEW l \in LogServers, L2CAck(l) PROVE LifeStep
  <2>1. PICK good \in SUBSET Workids, bad \in SUBSET Workids :
            report' = [good |-> good, bad |-> bad, new |-> <<>>]
    BY <1>12 DEF L2CAck
  <2>2. Reporting = {} /\ Reporting' = good \cup bad
    BY <1>3, <1>12, <2>1 DEF L2CAck, Reporting
  <2>3. UNCHANGED <<Tickets, given, media_cut_over>> /\ "ack" \in Faults
    BY <1>12, TicketsMap DEF L2CAck, Fault, flags
  <2>4. Life!Misread(good \cup bad) /\ good \cup bad \in SUBSET Life!Ids
    BY <1>2, <2>1, <2>2, <2>3, LifeNames DEF Life!Misread
  <2> QED BY <2>3, <2>4 DEF LifeStep, Life!Next, Life!Servers
<1>13. ASSUME NEW m \in MediaServers, EndCutLod(m) PROVE LifeStep
  <2>1. Life!Allow
    BY <1>2, <1>13, TicketsMap DEF EndCutLod, Life!Allow, network, raknet, Reporting
  <2> QED BY <2>1 DEF LifeStep, Life!Next, Life!Passes
<1> QED BY <1>4, <1>5, <1>6, <1>8, <1>9, <1>10, <1>11, <1>12, <1>13
        DEF Raknet, M2CJoin, L2CJoin

\* SendJob hands out what the dispatcher chose some steps ago.
LEMMA LifeSend ==
  ASSUME DataAssumption, TypeOK, JobInv, SendJob
  PROVE  LifeStep
<1>1. /\ UNCHANGED <<Tickets, Reporting, media_cut_over, phase, counted>>
      /\ target \in LogServers /\ pc = "send"
  BY TicketsMap DEF SendJob, Connected, TypeOK, ControlOK, raknet, flags, Reporting
<1>2. CASE phase = "upload"
  BY <1>1, <1>2, ResumeStage, LifeClose DEF SendJob
<1>3. CASE phase # "upload"
  <2>1. given' = [given EXCEPT ![target] = @ \cup job] /\ pc' = "mark"
    BY <1>3 DEF SendJob
  <2>2. UNCHANGED <<Stage, LetInWith>>
    BY <1>1, <2>1 DEF Stage, LetInWith
  <2>3. CASE phase = "single"
    <3>1. PICK w \in Workids : job = {w} /\ ticklog[w].spec = Single
      BY <1>1, <2>3 DEF JobInv, OneSingle
    <3>2. Stage = "split" /\ w \in Life!Singles
      BY <1>1, <2>3, <3>1, LifeNames DEF Stage
    <3>3. Life!HandOut(target, w)
      BY <1>1, <2>1, <2>2, <3>1, <3>2 DEF Life!HandOut
    <3> QED BY <1>1, <3>2, <3>3 DEF LifeStep, Life!Next, Life!Hands
  <2>4. CASE phase = "merge"
    <3>1. /\ job \subseteq Workids /\ spec \in Nat
          /\ \A w \in job : ticklog[w].spec = spec
          /\ \E v, w \in job : v # w
      BY <1>1, <2>4 DEF JobInv, OneSpec, TypeOK, TableOK, ControlOK
    <3>2. Stage = "merge" /\ job \subseteq Life!Ids \ Life!Singles
      <4>1. Stage = "merge"
        BY <1>1, <2>4 DEF Stage
      <4>2. \A w \in job : ticklog[w].spec # Single
        BY <3>1 DEF Single
      <4> QED BY <3>1, <4>1, <4>2, LifeNames
    <3>3. \A v, w \in job : Tickets[v].spec = Tickets[w].spec
      BY <3>1, LifeNames
    <3>4. Life!HandBatch(target, job)
      BY <1>1, <2>1, <2>2, <3>1, <3>2, <3>3 DEF Life!HandBatch
    <3> QED BY <1>1, <3>2, <3>4 DEF LifeStep, Life!Next, Life!Hands
  <2> QED BY <1>3, <2>3, <2>4 DEF TypeOK, ControlOK
<1> QED BY <1>2, <1>3

\* The count of unfinished logs, and the gate behind it
LEMMA LifeCount ==
  ASSUME DataAssumption, TypeOK, InPhase, CountSingles
  PROVE  LifeStep
<1>1. /\ UNCHANGED <<Tickets, given, Reporting, media_cut_over>> /\ UNCHANGED phase
      /\ phase = "single" /\ Stage = "split" /\ LetInWith = 0 /\ pc = "count"
  BY TicketsMap DEF CountSingles, InPhase, network, raknet, flags, Reporting, Stage, LetInWith
<1>2. CASE Select(Waiting, Single) \cup Select(Assigned, Single) = {}
  <2>1. pc' = "gate" /\ counted' = Len(Tickets)
    BY <1>2, LifeNames DEF CountSingles
  <2>2. Stage' = "counted" /\ LetInWith' = Len(Tickets)
    BY <2>1 DEF Stage, LetInWith
  <2>3. Life!Singles \cap Life!Undone = {}
    <3>1. SUFFICES ASSUME NEW w \in Life!Singles \cap Life!Undone PROVE FALSE
      OBVIOUS
    <3>2. w \in Workids /\ ticklog[w].spec = Single /\ ~ Done(w)
      BY <3>1, LifeNames
    <3>3. ticklog[w].status \in Waiting..Bad
      <4>1. ticklog[w] \in Row
        BY <3>2, ElementOfSeq DEF TypeOK, TableOK, Workids
      <4> QED BY <4>1 DEF Row
    <3>4. ticklog[w].status # Waiting /\ ticklog[w].status # Assigned
      BY <1>2, <3>2 DEF Select
    <3> QED BY <3>2, <3>3, <3>4 DEF Done, Waiting, Assigned, Finished, Bad
  <2>4. Life!Count
    BY <1>1, <2>2, <2>3 DEF Life!Count
  <2> QED BY <2>4 DEF LifeStep, Life!Next, Life!Passes
<1>3. CASE Select(Waiting, Single) \cup Select(Assigned, Single) # {}
  <2>1. pc' = "upload"
    BY <1>3 DEF CountSingles
  <2>2. UNCHANGED <<Stage, LetInWith>>
    BY <1>1, <2>1 DEF Stage, LetInWith
  <2> QED BY <1>1, <2>2, LifeStutter
<1> QED BY <1>2, <1>3

LEMMA LifeOpen ==
  ASSUME OpenMerge
  PROVE  LifeStep
<1>1. /\ UNCHANGED <<Tickets, given, Reporting, counted>> /\ pc = "gate"
      /\ media_cut_over' = FALSE
  BY TicketsMap DEF OpenMerge, network, raknet, Reporting
<1>2. Stage = "counted" /\ LetInWith = counted
  BY <1>1 DEF Stage, LetInWith
<1>3. CASE media_cut_over /\ NumSpec > 0
  <2>1. pc' = "batch" /\ phase' = "merge"
    BY <1>3 DEF OpenMerge
  <2>2. Stage' = "merge" /\ LetInWith' = LetInWith
    BY <1>1, <1>2, <2>1 DEF Stage, LetInWith
  <2>3. Life!OpenPass
    BY <1>1, <1>2, <1>3, <2>2 DEF Life!OpenPass
  <2> QED BY <2>3 DEF LifeStep, Life!Next, Life!Passes
<1>4. CASE ~ (media_cut_over /\ NumSpec > 0)
  <2>1. pc' = "upload"
    BY <1>4 DEF OpenMerge
  <2>2. Stage' = "split" /\ LetInWith' = 0
    BY <2>1 DEF Stage, LetInWith
  <2>3. Life!OpenPass
    BY <1>1, <1>2, <1>4, <2>2 DEF Life!OpenPass
  <2> QED BY <2>3 DEF LifeStep, Life!Next, Life!Passes
<1> QED BY <1>3, <1>4

LEMMA LifeDispatcher ==
  ASSUME ServersAssumption, DataAssumption, TypeOK, HitInv, InPhase, JobInv, Dispatcher
  PROVE  LifeStep
<1>1. CASE SelectSingles
  <2>1. UNCHANGED <<Tickets, given, Reporting, media_cut_over>>
    BY <1>1, TicketsMap DEF SelectSingles, network, raknet, flags, Reporting
  <2>2. Stage = "split" /\ Stage' = "split" /\ LetInWith = 0 /\ LetInWith' = 0
    BY <1>1 DEF SelectSingles, InPhase, Stage, LetInWith
  <2> QED BY <2>1, <2>2, LifeStutter
<1>2. ASSUME NEW w \in todo, PickSingle(w) PROVE LifeStep
  <2>1. UNCHANGED <<Tickets, given, Reporting, media_cut_over>>
    BY <1>2, TicketsMap DEF PickSingle, network, raknet, flags, Reporting
  <2>2. UNCHANGED <<Stage, LetInWith>>
    BY <1>2 DEF PickSingle, Stage, LetInWith
  <2> QED BY <2>1, <2>2, LifeStutter
<1>3. CASE RouteFirst \/ RouteNext
  <2>1. UNCHANGED <<Tickets, given, Reporting, media_cut_over>>
    BY <1>3, TicketsMap DEF RouteFirst, RouteNext, network, raknet, flags, Reporting
  <2>2. UNCHANGED <<Stage, LetInWith>>
    BY <1>3 DEF RouteFirst, RouteNext, Stage, LetInWith
  <2> QED BY <2>1, <2>2, LifeStutter
<1>4. CASE RouteCrash
  BY <1>4, LifeRestart DEF RouteCrash
<1>5. CASE SendFails
  <2>1. /\ UNCHANGED <<Tickets, given, Reporting, media_cut_over>>
        /\ UNCHANGED <<phase, counted>> /\ Resume /\ pc = "send"
    BY <1>5, TicketsMap DEF SendFails, network, raknet, flags, Reporting
  <2> QED BY <2>1, ResumeStage, LifeClose
<1>6. ASSUME NEW w \in job, MarkSent(w) PROVE LifeStep
  <2>1. UNCHANGED Tickets \/ \E v \in Workids : TakenBack(v)
    BY <1>6, TicketsTaken
  <2>2. /\ UNCHANGED <<given, Reporting, media_cut_over>>
        /\ UNCHANGED <<phase, counted>> /\ pc = "mark"
        /\ Resume \/ UNCHANGED pc
    BY <1>6 DEF MarkSent, raknet, flags, Reporting
  <2> QED BY <2>1, <2>2, ResumeStage, StageSame, LifeTake
<1>7. CASE SelectBatch
  <2>1. /\ UNCHANGED <<Tickets, given, Reporting, media_cut_over>>
        /\ UNCHANGED <<phase, counted>> /\ pc = "batch"
        /\ Resume \/ pc' = "route"
    BY <1>7, TicketsMap DEF SelectBatch, network, raknet, flags, Reporting
  <2>2. pc' = "route" => UNCHANGED <<Stage, LetInWith>>
    BY <2>1 DEF Stage, LetInWith
  <2> QED BY <2>1, <2>2, ResumeStage, LifeClose
<1>8. CASE TakeUpload
  <2>1. UNCHANGED <<Tickets, given, Reporting, media_cut_over>>
    BY <1>8, TicketsMap DEF TakeUpload, network, raknet, Reporting
  <2>2. UNCHANGED <<Stage, LetInWith>>
    BY <1>8 DEF TakeUpload, Stage, LetInWith
  <2> QED BY <2>1, <2>2, LifeStutter
<1> QED BY <1>1, <1>2, <1>3, <1>4, <1>5, <1>6, <1>7, <1>8, LifeSend, LifeCount, LifeOpen
        DEF Dispatcher

LEMMA LifeCutter ==
  ASSUME ServersAssumption, DataAssumption, TypeOK, HitInv, Cutter
  PROVE  LifeStep
<1>1. UNCHANGED <<given, Reporting, Stage, LetInWith>>
  BY StageSame DEF Cutter, SelectStale, Recycle, AllowMerge, AskUpload, network, raknet,
                   dispatcher, Reporting
<1>2. ASSUME NEW w \in stale, Recycle(w) PROVE LifeStep
  <2>1. UNCHANGED media_cut_over
    BY <1>2 DEF Recycle, flags
  <2>2. UNCHANGED Tickets \/ \E v \in Workids : TakenBack(v)
    BY <1>2, TicketsTaken
  <2> QED BY <1>1, <2>1, <2>2, LifeTake
<1>3. CASE AllowMerge
  <2>1. Life!Allow
    BY <1>1, <1>3, TicketsMap DEF AllowMerge, Life!Allow
  <2> QED BY <2>1 DEF LifeStep, Life!Next, Life!Passes
<1>4. CASE SelectStale \/ AskUpload
  BY <1>1, <1>4, TicketsMap, LifeStutter DEF SelectStale, AskUpload, flags
<1> QED BY <1>2, <1>3, <1>4 DEF Cutter

LEMMA LifeInit ==
  ASSUME DataAssumption, Init
  PROVE  Life!Init
<1>1. Tickets = <<>>
  <2>1. ticklog = <<>> /\ ticklog \in Seq(Row)
    BY EmptySeq DEF Init
  <2>2. Tickets \in Seq(Ticket) /\ Len(Tickets) = 0
    BY <2>1, TicketsAre, TicketsMap, EmptySeq
  <2> QED BY <2>2, EmptySeq
<1>2. /\ given = [l \in LogServers |-> {}] /\ Reporting = {} /\ Stage = "split"
      /\ LetInWith = 0 /\ media_cut_over = FALSE
  BY DEF Init, InitProcess, Reporting, NoReport, Stage, LetInWith
<1> QED BY <1>1, <1>2 DEF Life!Init

(* Dispatch implements TicketLife: with three threads between whose         *)
(* statements anything may happen, with servers that are lost or listed     *)
(* twice, reports that were misread, marks that hit other rows, and         *)
(* restarts, no ticket is done that no log server reported, none is opened  *)
(* again but by such a mark, and batches to merge are handed out only in a  *)
(* pass that found every log before it split.                               *)
THEOREM TicketsAlive == Spec => TicketsLive
<1> DEFINE IInv == (TypeOK /\ HitInv) /\ HandsInv
<1>1. Init => IInv
  BY TypeInit, HitInit, HandsInit, ServersAssumption, DataAssumption, BoundsAssumption
<1>2. IInv /\ [Next]_vars => IInv'
  BY TypeStep, HitStep, InPhaseStep, TodoStep, JobStep, RoomStep,
     ServersAssumption, DataAssumption, BoundsAssumption DEF HandsInv
<1>3. Init => Life!Init
  BY LifeInit, DataAssumption
<1>4. IInv /\ [Next]_vars => [Life!Next]_(Life!vars)
  <2>1. SUFFICES ASSUME IInv, [Next]_vars PROVE LifeStep
    BY DEF LifeStep
  <2>2. CASE UNCHANGED vars
    BY <2>2, StageSame, LifeStutter, TicketsMap
       DEF vars, network, raknet, flags, dispatcher, Reporting
  <2> QED BY <2>1, <2>2, LifeNetwork, LifeRaknet, LifeDispatcher, LifeCutter,
             ServersAssumption, DataAssumption DEF Next, HandsInv
<1> QED BY <1>1, <1>2, <1>3, <1>4, PTL DEF Spec, TicketsLive, Life!Spec
=============================================================================
