------------------------------ MODULE Dispatch ------------------------------
(***************************************************************************)
(* The heart of the control server: the ticklog table and the three        *)
(* threads that work on it.                                                *)
(*                                                                         *)
(*   raknet thread      Server::Update, one packet at a time: joins and    *)
(*                      leaves, new logs of the media servers (insert),    *)
(*                      reports of the log servers (update, insert)        *)
(*   dispatcher thread  send_log_func: hand every waiting log to a log     *)
(*                      server, then the merge batches, then the upload    *)
(*   cut thread         assignwork: put logs assigned more than a minute   *)
(*                      ago back to waiting, then allow the next merge     *)
(*                                                                         *)
(* mysqlop's mutex makes one SQL statement atomic and nothing larger, so   *)
(* every statement is a step of its own.  The list of servers, the flags   *)
(* and the threads share no other lock.                                    *)
(***************************************************************************)
EXTENDS Integers, Sequences, FiniteSets, SequencesExt

CONSTANTS
    MediaServers,   \* addresses of media servers
    LogServers,     \* addresses of log servers
    Nobody,         \* no server: an IP that belongs to none
    NumSpec,        \* merge specs run from 0 to NumSpec - 1 (10 in the code)
    TypeOf,         \* the MediaSvr_Type each media server joins with
    TailIds,        \* what bytes 12..15 of a row's IP text read as, as Workids
    NewRows,        \* the lists of new logs a log server's report may carry
    Inputs,         \* which of these arrive: "bad", "upload"
    Faults,         \* the kinds of fault that may happen; "ack": a log server
                    \* acknowledges its tasks, which is read as a report;
                    \* "race": two threads meet in ip2str
    MaxRows,        \* bound: rows of the table
    MaxSingles,     \* bound: rows of media servers among them
    MaxEntries,     \* bound: list entries with which a connected server joins
    MaxFaults       \* bound: faults in one behaviour

Servers == MediaServers \cup LogServers
MediaTypes == 0..6
RTSPTypes == 4..6
Hosts == Servers \cup {Nobody}

ASSUME ServersAssumption ==
    /\ MediaServers \cap LogServers = {}
    /\ Nobody \notin Servers
ASSUME DataAssumption ==
    /\ NumSpec \in Nat
    /\ TypeOf \in [MediaServers -> MediaTypes]
    /\ TailIds \in [Hosts -> SUBSET Nat]
    /\ NewRows \subseteq Seq([spec : 0..NumSpec - 1, type : MediaTypes])
    /\ Inputs \subseteq {"bad", "upload"}
    /\ Faults \subseteq {"break", "quit", "leave", "ack", "crash", "segfault", "race"}
ASSUME BoundsAssumption ==
    /\ MaxRows \in Nat /\ MaxSingles \in Nat
    /\ MaxEntries \in Nat /\ MaxFaults \in Nat

Single == -1                       \* Spec of a log no log server has split yet
Waiting == 0
Assigned == 1
Finished == 2
Bad == 3

Row == [spec : {Single} \cup 0..NumSpec - 1, type : MediaTypes, src : Hosts,
        status : Waiting..Bad, worker : Hosts, aged : BOOLEAN]
Entry == [addr : MediaServers, kind : {"MEDIA_S"}] \cup
         [addr : LogServers, kind : {"LOG_S"}]

VARIABLES
    ticklog,        \* the table; the Workid of a row is its position
    registry,       \* ML_list
    link,           \* RakNet's view of each connection
    given,          \* the tasks each log server holds and has not reported
    told,           \* the log servers that were told to upload
    faults,         \* faults so far
    erasing,        \* raknet thread: the server lostconn is removing
    report,         \* raknet thread: what is left of the report it works on
    media_cut_over, \* a merge pass is due
    isupload,       \* an upload is due
    pc,             \* dispatcher: where it is
    phase,          \* dispatcher: what it is sending
    spec,           \* dispatcher: the spec of the merge pass
    todo,           \* dispatcher: rows of sqlbuf still to send
    job,            \* dispatcher: rows in send_log_buf
    iTaskType,      \* dispatcher: task type of the message, kept between rows
    target,         \* dispatcher: the log server chosen
    counted,        \* history: rows of the table when the last pass was let in
    cpc,            \* cut thread: where it is
    stale           \* cut thread: rows of tmp_sql_buf still to put back

raknet == <<erasing, report>>
dispatcher == <<pc, phase, spec, todo, job, iTaskType, target, counted>>
cutter == <<cpc, stale>>
network == <<link, given, told, faults>>
flags == <<media_cut_over, isupload>>
vars == <<ticklog, registry, network, raknet, flags, dispatcher, cutter>>

NoReport == [good |-> {}, bad |-> {}, new |-> <<>>]
RaknetIdle == erasing = Nobody /\ report = NoReport
Workids == 1..Len(ticklog)

\* select ... where Status=st and Spec=sp; the order of the rows is MySQL's
Select(st, sp) == {w \in Workids : ticklog[w].status = st /\ ticklog[w].spec = sp}
\* select * from ticklog where WorkServerIP='l' and Status=1, counted
Busy(l) == \E w \in Workids : ticklog[w].status = Assigned /\ ticklog[w].worker = l

\* A message of the server can be in the receive queue: its connection is up,
\* or lost with the notification still queued behind the message.
Heard(a) == link[a] \in {"up", "lost"}

Entries(a) == {i \in DOMAIN registry : registry[i].addr = a}
LogEntries == {i \in DOMAIN registry : registry[i].kind = "LOG_S"}
FirstOf(S) == CHOOSE i \in S : \A j \in S : i <= j
-----------------------------------------------------------------------------
InitProcess ==
    /\ registry = <<>>
    /\ erasing = Nobody /\ report = NoReport
    /\ media_cut_over = FALSE /\ isupload = FALSE
    /\ pc = "select" /\ phase = "single" /\ spec = 0
    /\ todo = {} /\ job = {} /\ target = Nobody /\ counted = 0
    /\ iTaskType \in {0, 1}        \* a local that nothing initialises
    /\ cpc = "idle" /\ stale = {}

Init ==
    /\ InitProcess
    /\ ticklog = <<>>
    /\ link = [a \in Servers |-> "down"]
    /\ given = [l \in LogServers |-> {}]
    /\ told = {}
    /\ faults = 0
-----------------------------------------------------------------------------
(* The network and the faults (outside src/, or between two lines of it).   *)

Fault(kind) == kind \in Faults /\ faults < MaxFaults /\ faults' = faults + 1

\* The connection breaks: messages in flight may be lost with it, and a log
\* server that crashed has forgotten its tasks.
Break(a) ==
    /\ Fault("break")
    /\ link[a] = "up"
    /\ link' = [link EXCEPT ![a] = "lost"]
    /\ \/ UNCHANGED given
       \/ a \in LogServers /\ given' = [given EXCEPT ![a] = {}]
    /\ UNCHANGED <<ticklog, registry, told, raknet, flags, dispatcher, cutter>>

\* The peer closes the connection in good order.  Update only logs the
\* ID_DISCONNECTION_NOTIFICATION: the entry of the server stays in ML_list.
Quit(a) ==
    /\ Fault("quit")
    /\ RaknetIdle
    /\ link[a] = "up"
    /\ link' = [link EXCEPT ![a] = "down"]
    /\ UNCHANGED <<ticklog, registry, given, told, raknet, flags, dispatcher,
                   cutter>>

\* The process exits (any failed statement is exit(-1)) and is started again.
\* The table and the servers live on; all that was in memory is gone.
Restart ==
    /\ registry' = <<>>
    /\ erasing' = Nobody /\ report' = NoReport
    /\ media_cut_over' = FALSE /\ isupload' = FALSE
    /\ pc' = "select" /\ phase' = "single" /\ spec' = 0
    /\ todo' = {} /\ job' = {} /\ target' = Nobody /\ counted' = 0
    /\ iTaskType' \in {0, 1}
    /\ cpc' = "idle" /\ stale' = {}
    /\ link' = [a \in Servers |-> "down"]
    /\ UNCHANGED <<ticklog, given, told>>

Crash == Fault("crash") /\ Restart

\* ip2str(a) returns text b.  It keeps the pointer to the text in a static
\* variable: a thread that meets another in it may get the other's text.
Text(a, b, others) ==
    \/ b = a /\ UNCHANGED faults
    \/ b \in others \ {a} /\ Fault("race")
-----------------------------------------------------------------------------
(* Raknet thread: Server::Update takes one packet and runs its handler.     *)

\* lostconn unlinks the matching entries one after the other
StartErasing(a) ==
    erasing' = IF Entries(a) = {} THEN Nobody ELSE a

ConnectionLost(a) ==
    /\ RaknetIdle
    /\ link[a] = "lost"
    /\ link' = [link EXCEPT ![a] = "down"]
    /\ StartErasing(a)
    /\ UNCHANGED <<ticklog, registry, given, told, faults, report, flags,
                   dispatcher, cutter>>

\* ID_M2C_LEAVE, ID_L2C_LEAVE: the same handler, the connection stays
Leave(a) ==
    /\ Fault("leave")
    /\ RaknetIdle
    /\ Heard(a)
    /\ StartErasing(a)
    /\ UNCHANGED <<ticklog, registry, link, given, told, report, flags,
                   dispatcher, cutter>>

EraseEntry ==
    /\ erasing # Nobody
    /\ registry' = RemoveAt(registry, FirstOf(Entries(erasing)))
    /\ erasing' = IF \E i, j \in Entries(erasing) : i # j THEN erasing ELSE Nobody
    /\ UNCHANGED <<ticklog, network, report, flags, dispatcher, cutter>>

\* m2cjoin and l2cjoin append an entry, whatever the list already holds.  A
\* server joins as soon as it has connected; it may join again later.
Join(a, kind) ==
    /\ RaknetIdle
    /\ link[a] # "lost"
    /\ link[a] = "up" => Cardinality(Entries(a)) < MaxEntries
    /\ link' = [link EXCEPT ![a] = "up"]
    /\ registry' = Append(registry, [addr |-> a, kind |-> kind])
    /\ UNCHANGED <<ticklog, given, told, faults, raknet, flags, dispatcher, cutter>>

M2CJoin(m) == Join(m, "MEDIA_S")
L2CJoin(l) == Join(l, "LOG_S")

NewRow(sp, ty, src, worker) ==
    [spec |-> sp, type |-> ty, src |-> src, status |-> Waiting,
     worker |-> worker, aged |-> TRUE]

\* Of the two addresses of a row that the raknet thread inserts one may become
\* that of a log server, which the dispatcher converts.
Insert(sp, ty, from) ==
    \E a \in Hosts :
        /\ Text(from, a, LogServers)
        /\ \/ ticklog' = Append(ticklog, NewRow(sp, ty, a, from))
           \/ ticklog' = Append(ticklog, NewRow(sp, ty, from, a))

\* m2cnewlog.  MediaServerTye is set only when the sender is in ML_list.  The
\* two ip2str of the statement share one buffer and the one evaluated last
\* wins, so the column WorkServerIP gets the address of the media server.
M2CNewLog(m) ==
    /\ RaknetIdle
    /\ Heard(m)
    /\ Len(ticklog) < MaxRows
    /\ Cardinality({w \in Workids : ticklog[w].spec = Single}) < MaxSingles
    /\ \E ty \in IF Entries(m) = {} THEN MediaTypes ELSE {TypeOf[m]} :
           Insert(Single, ty, m)
    /\ UNCHANGED <<registry, link, given, told, raknet, flags, dispatcher, cutter>>

\* l2ctask: a log server reports a set of its tasks as done, some of them with
\* DataIsBad, and the logs it made of them.
L2CTask(l) ==
    /\ RaknetIdle
    /\ Heard(l)
    /\ \E fin \in (SUBSET given[l]) \ {{}}, new \in NewRows :
         \E bad \in IF "bad" \in Inputs THEN SUBSET fin ELSE {{}} :
           /\ Len(ticklog) + Len(new) <= MaxRows
           /\ report' = [good |-> fin \ bad, bad |-> bad, new |-> new]
           /\ given' = [given EXCEPT ![l] = @ \ fin]
    /\ UNCHANGED <<ticklog, registry, link, told, faults, erasing, flags,
                   dispatcher, cutter>>

\* Update has no case for ID_L2C_TASKASSIGN_RECEIVED of its own: it falls
\* through to l2ctask, which reads its counts and Workids past the end of the
\* short packet.
L2CAck(l) ==
    /\ Fault("ack")
    /\ RaknetIdle
    /\ Heard(l)
    /\ \E good, bad \in SUBSET Workids :
           report' = [good |-> good, bad |-> bad, new |-> <<>>]
    /\ UNCHANGED <<ticklog, registry, link, given, told, erasing, flags, dispatcher,
                   cutter>>

\* update ticklog set Status=2 (or 3) where Workid=w, whatever the status was
Finish(w) ==
    /\ \/ /\ w \in report.good
          /\ ticklog' = [ticklog EXCEPT ![w] = [@ EXCEPT !.status = Finished]]
          /\ report' = [report EXCEPT !.good = @ \ {w}]
       \/ /\ w \in report.bad
          /\ ticklog' = [ticklog EXCEPT ![w] = [@ EXCEPT !.status = Bad]]
          /\ report' = [report EXCEPT !.bad = @ \ {w}]
    /\ UNCHANGED <<registry, network, erasing, flags, dispatcher, cutter>>

\* insert one of the new logs of the report, with '0.0.0.0' for both addresses
InsertNew ==
    /\ report.good = {} /\ report.bad = {} /\ report.new # <<>>
    /\ Insert(Head(report.new).spec, Head(report.new).type, Nobody)
    /\ report' = [report EXCEPT !.new = Tail(@)]
    /\ UNCHANGED <<registry, link, given, told, erasing, flags, dispatcher, cutter>>

\* endcutlod: the media server ends its cut.  Whether m_count reaches 0 with it
\* is the business of module CutRound.
EndCutLod(m) ==
    /\ RaknetIdle
    /\ Heard(m)
    /\ media_cut_over' = TRUE
    /\ UNCHANGED <<ticklog, registry, network, raknet, isupload, dispatcher, cutter>>
-----------------------------------------------------------------------------
(* Dispatcher thread: send_log_func.                                        *)

\* Mutant: the rows of the wrong status
SelectAssigned ==
    /\ pc = "select"
    /\ todo' = Select(Assigned, Single)
    /\ phase' = "single"
    /\ pc' = IF todo' = {} THEN "count" ELSE "pick"
    /\ counted' = 0
    /\ UNCHANGED <<ticklog, registry, network, raknet, flags, spec, job,
                   iTaskType, target, cutter>>

SelectSingles ==
    /\ pc = "select"
    /\ todo' = Select(Waiting, Single)
    /\ phase' = "single"
    /\ pc' = IF todo' = {} THEN "count" ELSE "pick"
    /\ counted' = 0
    /\ UNCHANGED <<ticklog, registry, network, raknet, flags, spec, job,
                   iTaskType, target, cutter>>

\* One row of sqlbuf goes into the message.  The types 1..3 are sent as task
\* type 0, RTSPTypes as 1, and any other with the type of the row before it.
PickSingle(w) ==
    /\ pc = "pick"
    /\ w \in todo
    /\ job' = {w}
    /\ todo' = todo \ {w}
    /\ iTaskType' = IF ticklog[w].type \in 1..3 THEN 0
                    ELSE IF ticklog[w].type \in RTSPTypes THEN 1 ELSE iTaskType
    /\ pc' = "route"
    /\ UNCHANGED <<ticklog, registry, network, raknet, flags, phase, spec,
                   target, counted, cutter>>

\* Mutant: the first server of any kind
RouteFirstOfAll ==
    /\ pc = "route"
    /\ target' = IF registry = <<>> THEN Nobody ELSE registry[1].addr
    /\ pc' = IF registry # <<>> /\ Busy(target') THEN "reroute" ELSE "send"
    /\ UNCHANGED <<ticklog, registry, network, raknet, flags, phase, spec, todo,
                   job, iTaskType, counted, cutter>>

\* getoklogs: the first log server of the list, if no row is assigned to it.
\* Without one the code reads the list's end: an address nobody is connected from.
RouteFirst ==
    /\ pc = "route"
    /\ \/ LogEntries = {} /\ target' = Nobody /\ pc' = "send" /\ UNCHANGED faults
       \/ /\ LogEntries # {} /\ target' = registry[FirstOf(LogEntries)].addr
          /\ \E a \in Hosts : /\ Text(target', a, Hosts)
                             /\ pc' = IF Busy(a) THEN "reroute" ELSE "send"
    /\ UNCHANGED <<ticklog, registry, link, given, told, raknet, flags, phase, spec,
                   todo, job, iTaskType, counted, cutter>>

\* The rest of getoklogs.  It compares the text column with a number, finds no
\* rows and so stops at the next log server.  After the last one it may read
\* the list's end as a server; if the entry it stands on was erased meanwhile
\* it follows a freed node.
RouteNext ==
    /\ pc = "reroute"
    /\ pc' = "send"
    /\ LET here == {i \in LogEntries : registry[i].addr = target}
           next == {i \in LogEntries : i > FirstOf(here)}
       IN  target' \in IF here = {} THEN {target, Nobody} \cup
                                         {registry[i].addr : i \in LogEntries}
                       ELSE IF next = {} THEN {target, Nobody}
                       ELSE {registry[FirstOf(next)].addr}
    /\ UNCHANGED <<ticklog, registry, network, raknet, flags, phase, spec, todo,
                   job, iTaskType, counted, cutter>>

\* ... or the freed node leads the thread out of its memory
RouteCrash ==
    /\ pc = "reroute"
    /\ \A i \in LogEntries : registry[i].addr # target
    /\ "segfault" \in Faults
    /\ Restart
    /\ UNCHANGED faults

\* After a message: the next row, the next spec, or the top of the loop.  The
\* message buffer is cleared and the chosen log server goes out of scope.
Resume ==
    /\ target' = Nobody
    /\ \/ /\ phase = "single"
          /\ pc' = IF todo = {} THEN "count" ELSE "pick"
          /\ UNCHANGED spec
       \/ /\ phase = "merge" /\ spec + 1 < NumSpec
          /\ pc' = "batch" /\ spec' = spec + 1
       \/ /\ phase = "merge" /\ spec + 1 >= NumSpec
          /\ pc' = "upload" /\ spec' = 0
       \/ /\ phase = "upload"
          /\ pc' = "select"
          /\ UNCHANGED spec

\* RakPeer::IsConnected(addr)
Connected == target # Nobody /\ link[target] = "up"

\* snd2logs and snd2upload: send if RakNet has a connection to the target
SendJob ==
    /\ pc = "send"
    /\ Connected
    /\ IF phase = "upload"
       THEN /\ told' = told \cup {target}
            /\ Resume
            /\ UNCHANGED given
       ELSE /\ given' = [given EXCEPT ![target] = @ \cup job]
            /\ pc' = "mark"
            /\ UNCHANGED <<told, spec, target>>
    /\ UNCHANGED <<ticklog, registry, link, faults, raknet, flags, phase, todo,
                   job, iTaskType, counted, cutter>>

SendFails ==
    /\ pc = "send"
    /\ ~Connected
    /\ job' = {}
    /\ Resume
    /\ UNCHANGED <<ticklog, registry, network, raknet, flags, phase, todo,
                   iTaskType, counted, cutter>>

\* updatadb: one update per row of the message.  It takes the rows from 8
\* bytes into the buffer, where snd2logs put them after 12, and so reads the
\* end of the IP text as the Workid.
MarkSent(w) ==
    /\ pc = "mark"
    /\ w \in job
    /\ \E id \in TailIds[ticklog[w].src], a \in Hosts :
         /\ Text(target, a, Hosts)
         /\ ticklog' = IF id \in Workids
                       THEN [ticklog EXCEPT ![id] = [@ EXCEPT
                                !.status = Assigned, !.worker = a, !.aged = FALSE]]
                       ELSE ticklog
    /\ job' = job \ {w}
    /\ IF job' = {} THEN Resume ELSE UNCHANGED <<pc, spec, target>>
    /\ UNCHANGED <<registry, link, given, told, raknet, flags, phase, todo,
                   iTaskType, counted, cutter>>

\* Mutant: the count forgets the waiting rows
CountAssigned ==
    /\ pc = "count"
    /\ IF Select(Assigned, Single) = {}
       THEN pc' = "gate" /\ counted' = Len(ticklog)
       ELSE pc' = "upload" /\ UNCHANGED counted
    /\ UNCHANGED <<ticklog, registry, network, raknet, flags, phase, spec, todo,
                   job, iTaskType, target, cutter>>

CountSingles ==
    /\ pc = "count"
    /\ IF Select(Waiting, Single) \cup Select(Assigned, Single) = {}
       THEN pc' = "gate" /\ counted' = Len(ticklog)
       ELSE pc' = "upload" /\ UNCHANGED counted
    /\ UNCHANGED <<ticklog, registry, network, raknet, flags, phase, spec, todo,
                   job, iTaskType, target, cutter>>

\* Nobody acts on media_cut_over being TRUE but this thread: to read it and to
\* clear it one step later is the same as to do both at once.
OpenMerge ==
    /\ pc = "gate"
    /\ media_cut_over' = FALSE
    /\ IF media_cut_over /\ NumSpec > 0
       THEN pc' = "batch" /\ phase' = "merge" /\ spec' = 0
       ELSE pc' = "upload" /\ UNCHANGED <<phase, spec>>
    /\ UNCHANGED <<ticklog, registry, network, raknet, isupload, todo, job,
                   iTaskType, target, counted, cutter>>

\* Mutant: a row alone is sent too
BatchAlone ==
    /\ pc = "batch"
    /\ LET rows == Select(Waiting, spec)
       IN  IF rows # {}
           THEN /\ job' = rows
                /\ iTaskType' = 0
                /\ pc' = "route"
                /\ UNCHANGED <<spec, target>>
           ELSE Resume /\ UNCHANGED <<job, iTaskType>>
    /\ UNCHANGED <<ticklog, registry, network, raknet, flags, phase, todo,
                   counted, cutter>>

\* All waiting rows of one spec are one message; a row alone stays waiting
SelectBatch ==
    /\ pc = "batch"
    /\ LET rows == Select(Waiting, spec)
       IN  IF \E v, w \in rows : v # w
           THEN /\ job' = rows
                /\ iTaskType' = 0
                /\ pc' = "route"
                /\ UNCHANGED <<spec, target>>
           ELSE Resume /\ UNCHANGED <<job, iTaskType>>
    /\ UNCHANGED <<ticklog, registry, network, raknet, flags, phase, todo,
                   counted, cutter>>

\* Mutant: the flag is cleared and nothing is sent
DropUpload ==
    /\ pc = "upload"
    /\ isupload' = FALSE
    /\ pc' = "select" /\ phase' = "single"
    /\ UNCHANGED <<ticklog, registry, network, raknet, media_cut_over, spec,
                   todo, job, iTaskType, target, counted, cutter>>

TakeUpload ==
    /\ pc = "upload"
    /\ isupload' = FALSE
    /\ IF isupload THEN phase' = "upload" /\ pc' = "route"
                   ELSE pc' = "select" /\ phase' = "single"
    /\ UNCHANGED <<ticklog, registry, network, raknet, media_cut_over, spec,
                   todo, job, iTaskType, target, counted, cutter>>
-----------------------------------------------------------------------------
(* Cut thread: send_media_func on "cut" (assignwork) and on "upload".       *)

\* A minute passes: AssignTime<now-60 holds of every assigned row
Age ==
    /\ \E w \in Workids : ~ticklog[w].aged
    /\ ticklog' = [w \in Workids |-> [ticklog[w] EXCEPT !.aged = TRUE]]
    /\ UNCHANGED <<registry, network, raknet, flags, dispatcher, cutter>>

\* Mutant: AssignTime alone decides
SelectAged ==
    /\ cpc = "idle"
    /\ stale' = {w \in Workids : ticklog[w].aged}
    /\ cpc' = "recycle"
    /\ UNCHANGED <<ticklog, registry, network, raknet, flags, dispatcher>>

SelectStale ==
    /\ cpc = "idle"
    /\ stale' = {w \in Workids : ticklog[w].status = Assigned /\ ticklog[w].aged}
    /\ cpc' = "recycle"
    /\ UNCHANGED <<ticklog, registry, network, raknet, flags, dispatcher>>

\* Mutants: the status is not reset; the where clause is missing
RecycleKeepsStatus(w) ==
    /\ cpc = "recycle"
    /\ w \in stale
    /\ ticklog' = [ticklog EXCEPT ![w] = [@ EXCEPT !.worker = Nobody]]
    /\ stale' = stale \ {w}
    /\ UNCHANGED <<registry, network, raknet, flags, dispatcher, cpc>>
RecycleAll(w) ==
    /\ cpc = "recycle"
    /\ w \in stale
    /\ ticklog' = [v \in Workids |->
                      [ticklog[v] EXCEPT !.status = Waiting, !.worker = Nobody]]
    /\ stale' = stale \ {w}
    /\ UNCHANGED <<registry, network, raknet, flags, dispatcher, cpc>>

\* update ticklog set status=0,WorkServerIP=0 where Workid=w, unconditionally
Recycle(w) ==
    /\ cpc = "recycle"
    /\ w \in stale
    /\ ticklog' = [ticklog EXCEPT ![w] =
                       [@ EXCEPT !.status = Waiting, !.worker = Nobody]]
    /\ stale' = stale \ {w}
    /\ UNCHANGED <<registry, network, raknet, flags, dispatcher, cpc>>

\* Mutant: media_cut_over is not set after a cut
AllowNothing ==
    /\ cpc = "recycle"
    /\ stale = {}
    /\ cpc' = "idle"
    /\ UNCHANGED <<ticklog, registry, network, raknet, flags, dispatcher, stale>>

\* The cut messages to the media servers and m_count are in module CutRound
AllowMerge ==
    /\ cpc = "recycle"
    /\ stale = {}
    /\ media_cut_over' = TRUE
    /\ cpc' = "idle"
    /\ UNCHANGED <<ticklog, registry, network, raknet, isupload, dispatcher, stale>>

AskUpload ==
    /\ "upload" \in Inputs
    /\ cpc = "idle"
    /\ isupload' = TRUE
    /\ UNCHANGED <<ticklog, registry, network, raknet, media_cut_over,
                   dispatcher, cutter>>
-----------------------------------------------------------------------------
Network == \/ \E a \in Servers : Break(a) \/ Quit(a)
           \/ Crash
           \/ Age
Raknet == \/ \E a \in Servers : ConnectionLost(a) \/ Leave(a)
          \/ \E m \in MediaServers : M2CJoin(m) \/ M2CNewLog(m) \/ EndCutLod(m)
          \/ \E l \in LogServers : L2CJoin(l) \/ L2CTask(l) \/ L2CAck(l)
          \/ EraseEntry
          \/ \E w \in Workids : Finish(w)
          \/ InsertNew
Dispatcher == \/ SelectSingles
              \/ \E w \in todo : PickSingle(w)
              \/ RouteFirst \/ RouteNext \/ RouteCrash
              \/ SendJob \/ SendFails
              \/ \E w \in job : MarkSent(w)
              \/ CountSingles \/ OpenMerge \/ SelectBatch \/ TakeUpload
Cutter == \/ SelectStale
          \/ \E w \in stale : Recycle(w)
          \/ AllowMerge \/ AskUpload

Next == Network \/ Raknet \/ Dispatcher \/ Cutter
Spec == Init /\ [][Next]_vars
-----------------------------------------------------------------------------
(***************************************************************************)
(* Fairness.  Each thread is an endless loop that blocks on nothing but    *)
(* mysqlop's mutex, so it keeps taking steps; the timer keeps sending      *)
(* "cut".  Of the servers outside: a log server that is not registered     *)
(* joins again and one that holds a task reports it at some time, though   *)
(* the raknet thread need not be waiting for it all the time (hence SF).   *)
(***************************************************************************)
Dispatching == Dispatcher /\ faults' = faults
Handling == EraseEntry \/ (\E w \in Workids : Finish(w)) \/ InsertNew
Recycling == SelectStale \/ (\E w \in stale : Recycle(w)) \/ AllowMerge
JoinsAgain(l) == (Entries(l) = {} \/ link[l] = "down") /\ L2CJoin(l)
Reports(l, w) == L2CTask(l) /\ w \in report'.good \cup report'.bad

Fairness ==
    /\ WF_vars(Dispatching) /\ WF_vars(Handling) /\ WF_vars(Recycling)
    /\ WF_vars(Age)
    /\ \A l \in LogServers :
         /\ SF_vars(ConnectionLost(l)) /\ SF_vars(JoinsAgain(l))
         /\ \A w \in 1..MaxRows : SF_vars(Reports(l, w))

FairSpec == Spec /\ Fairness
-----------------------------------------------------------------------------
\* the table, and every Workid something keeps is the Workid of a row
TableOK ==
    /\ ticklog \in Seq(Row)
    /\ given \in [LogServers -> SUBSET Workids]
    /\ report.good \in SUBSET Workids /\ report.bad \in SUBSET Workids
    /\ todo \in SUBSET Workids /\ job \in SUBSET Workids /\ stale \in SUBSET Workids
    /\ counted \in 0..Len(ticklog)

NetworkOK ==
    /\ registry \in Seq(Entry)
    /\ link \in [Servers -> {"up", "lost", "down"}]
    /\ told \in SUBSET LogServers
    /\ faults \in Nat
    /\ erasing \in Hosts
    /\ erasing # Nobody => Entries(erasing) # {}

ControlOK ==
    /\ report = [good |-> report.good, bad |-> report.bad, new |-> report.new]
    /\ report.new \in Seq([spec : 0..NumSpec - 1, type : MediaTypes])
    /\ media_cut_over \in BOOLEAN /\ isupload \in BOOLEAN
    /\ pc \in {"select", "pick", "route", "reroute", "send", "mark", "count",
               "gate", "batch", "upload"}
    /\ phase \in {"single", "merge", "upload"}
    /\ spec \in Nat
    /\ iTaskType \in {0, 1}
    /\ target \in LogServers \cup {Nobody}
    /\ cpc \in {"idle", "recycle"}

(* Type invariant: the tables, lists and locals hold what their types say,  *)
(* and every Workid a thread keeps is the Workid of a row.                  *)
TypeOK ==
    /\ TableOK
    /\ NetworkOK
    /\ ControlOK

Done(w) == ticklog[w].status \in {Finished, Bad}

\* The Workids that an IP text reads as.  updatadb marks these rows and no others.
HitIds == UNION {TailIds[h] : h \in Hosts}

\* No two threads meet in ip2str
NoRace == "race" \notin Faults

(* A merge pass (send_log_func, the loop over specs) handles logs that were *)
(* split before: every media server's log that was in the table when the    *)
(* dispatcher counted the unfinished ones is finished during all of the     *)
(* pass, whatever the other threads do between the count and the pass.      *)
(* Only a row that an IP text reads as can be opened again.                 *)
MergeCoversSplit ==
    phase = "merge" /\ pc # "upload" =>
        \A w \in (1..counted) \ HitIds : ticklog[w].spec = Single => Done(w)

(* A log a log server has reported stays finished: neither the recycling of *)
(* assignwork nor a dispatcher with an old sqlbuf opens it again.  This     *)
(* holds of every row but those that an IP text reads as, whatever happens  *)
(* to these.                                                                *)
FinishedFinal ==
    [][\A w \in Workids \ HitIds :
          Done(w) => ticklog'[w].status \in {Finished, Bad}]_vars

(* However marks hit the wrong rows and however the recycler races with the *)
(* reports: a row leaves a finished status only through a mark that misread *)
(* an IP or through a recycle chosen while the row was still assigned.      *)
ReopenPaths ==
    [][\A w \in Workids :
         Done(w) /\ ticklog'[w].status \notin {Finished, Bad}
           => \/ pc = "mark" /\ \E v \in job : w \in TailIds[ticklog[v].src]
              \/ cpc = "recycle" /\ w \in stale]_vars

(* A row that counts against a log server in getoklogs is assigned to a log *)
(* server, never to the media server whose address m2cnewlog puts in the    *)
(* same column, even where updatadb marks a row that was not sent.  Only    *)
(* two threads that meet in ip2str bring that address into an assigned row. *)
AssignedToLogServer ==
    \A w \in Workids : ticklog[w].status = Assigned => ticklog[w].worker \in LogServers

(* Every log of a media server is finished some time: the dispatcher sends  *)
(* it again until a log server reports it, and the recycler frees it when a *)
(* mark hides it from the dispatcher.                                       *)
SinglesFinish ==
    \A w \in 1..MaxRows : w \in Workids /\ ticklog[w].spec = Single
        ~> w \in Workids /\ Done(w)

(* Two waiting logs of one spec reach a log server: some merge pass finds   *)
(* them, although passes need a cut and no unfinished log of a media server.*)
PairsMerge ==
    \A v, w \in 1..MaxRows :
        /\ {v, w} \subseteq Workids /\ v # w
        /\ \A x \in {v, w} : ticklog[x].status = Waiting
        /\ ticklog[v].spec = ticklog[w].spec /\ ticklog[v].spec # Single
        ~> \/ \E l \in LogServers : {v, w} \cap given[l] # {}
           \/ {v, w} \subseteq Workids /\ (Done(v) \/ Done(w))

(* An upload that is asked for while a log server is registered reaches it, *)
(* although send_log_func clears isupload before it looks for a server: it  *)
(* is lost only with a fault, or where getoklogs finds the last log server  *)
(* of the list busy and reads on behind it.                                 *)
UploadReaches ==
    isupload /\ LogEntries # {}
        ~> told # {} \/ faults > 0 \/ \E l \in LogServers : Busy(l)
-----------------------------------------------------------------------------
(* The table, the threads and the registry as an abstract life of tickets.  *)
Stage == IF pc = "gate" THEN "counted"
         ELSE IF phase = "merge" /\ pc # "upload" THEN "merge" ELSE "split"

Tickets == [w \in Workids |-> [spec |-> ticklog[w].spec, done |-> Done(w)]]
Reporting == report.good \cup report.bad
LetInWith == IF Stage = "split" THEN 0 ELSE counted

Life == INSTANCE TicketLife WITH
            tickets <- Tickets,
            held <- given,
            reported <- Reporting,
            stage <- Stage,
            counted <- LetInWith,
            Misreads <- "ack" \in Faults,
            Exposed <- HitIds,
            MaxTickets <- MaxRows

(* The control server keeps the promise of TicketLife: a ticket is done     *)
(* only when a log server that held it has reported it, and for good, but   *)
(* for those that an IP text reads as; batches are of one spec, of two or   *)
(* more, and handed out only in a pass that found every log before it split.*)
TicketsLive == Life!Spec
-----------------------------------------------------------------------------
(* What comments of the code say and the runs refute.                       *)

(* main.cpp:308, "updata db after sending data to log": a row that was sent *)
(* and gone through updatadb is no longer waiting to be sent.               *)
SentIsMarked ==
    [][\A w \in job : MarkSent(w) => ticklog'[w].status # Waiting]_vars

(* raknet_serv.h:247, iTaskType "0:HLS,HTTP 1: RTSP", with the media types  *)
(* of the enumeration (raknet_serv.h:101): HLS and HTTP are 0..2, RTSP 3..5.*)
TaskTypeFits ==
    pc = "send" /\ phase # "upload" =>
        \A w \in job : (ticklog[w].type \in 3..5) = (iTaskType = 1)
=============================================================================
