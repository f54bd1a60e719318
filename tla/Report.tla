------------------------------- MODULE Report -------------------------------
(***************************************************************************)
(* report3.xml, the picture of the cluster the web pages show.  A refresh  *)
(* is clear_xml and then updata_xml, each of which loads the file, edits   *)
(* the document and saves it; SaveFile opens the file for writing, which   *)
(* empties it, and then writes.  The network thread refreshes in its       *)
(* handlers and the cutting thread before each round: no lock keeps them   *)
(* apart, and a document that does not load ends the process.              *)
(*                                                                         *)
(* The XML library is not in the repository.  A save into a file that      *)
(* another save has filled since it was opened may leave the tail of the   *)
(* longer text behind; such a file may or may not load, with or without    *)
(* its tail.  The walk that deletes nodes asks the node it has deleted for *)
(* its sibling: where its memory is used again it finds none, or crashes.  *)
(***************************************************************************)
EXTENDS Integers, Sequences, SequencesExt

CONSTANTS
    MediaServers, LogServers,
    Refreshers,   \* threads that run: "raknet", "cut"
    MaxLeft,      \* bound: nodes of a name the deleting walk may leave; 0 if it
                  \* reads deleted nodes before their memory is used again
    MaxEntries,   \* bound: entries of ML_list
    MaxOverlaps,  \* bound: refreshes that begin while another is running
    MaxJobs,      \* bound: tickets of a log server with Status=1
    MaxRestarts   \* bound: restarts of the process

ASSUME ReportAssumption ==
    /\ Refreshers \subseteq {"raknet", "cut"} /\ MaxLeft \in Nat
    /\ MaxEntries \in Nat /\ MaxOverlaps \in Nat
    /\ MaxJobs \in Nat /\ MaxRestarts \in Nat
    /\ MediaServers \cap LogServers = {}

VARIABLES
    ML_list,         \* the servers that have joined, by name
    media_cut_over,
    jobs,            \* database: how many tickets a log server has
    cutting,         \* media servers that were told to cut and have not ended
    file,            \* report3.xml
    doc,             \* each thread's TiXmlDocument
    pc,              \* where each thread is in a refresh
    dead,            \* what ended the process, or "no"
    restarts,
    quiet,           \* history: nothing else has happened in this refresh
    fresh,           \* history: nor since the last refresh that ended so
    overlaps         \* history: refreshes that began while another was running

registry == <<ML_list, media_cut_over, jobs, cutting>>
history == <<quiet, fresh, overlaps>>
vars == <<registry, file, doc, pc, dead, restarts, history>>

Servers == MediaServers \cup LogServers
MediaNode == [ip : MediaServers, status : 0..1]
LogNode == [ip : LogServers, status : 0..1, workqueue : Nat]
\* times: how often the three nodes of times are there
Document == [media : Seq(MediaNode), logs : Seq(LogNode), times : Nat, tail : BOOLEAN]
NoTimes == [media |-> <<>>, logs |-> <<>>, times |-> 0, tail |-> FALSE]
Empty == [NoTimes EXCEPT !.times = -1]      \* a file of no bytes

Init ==
    /\ ML_list = <<>> /\ media_cut_over = FALSE
    /\ jobs = [l \in LogServers |-> 0] /\ cutting = {}
    /\ file = [NoTimes EXCEPT !.times = 1]
    /\ doc = [p \in Refreshers |-> NoTimes]
    /\ pc = [p \in Refreshers |-> "idle"]
    /\ dead = "no" /\ restarts = 0
    /\ quiet = [p \in Refreshers |-> FALSE] /\ fresh = FALSE /\ overlaps = 0
-----------------------------------------------------------------------------
(* History                                                                  *)

Touch == /\ quiet' = [p \in Refreshers |-> FALSE] /\ fresh' = FALSE
         /\ UNCHANGED overlaps

Begins(p) ==
    LET alone == \A q \in Refreshers \ {p} : pc[q] \in {"idle", "assign"}
    IN
    /\ quiet' = [q \in Refreshers |-> q = p /\ alone]
    /\ fresh' = FALSE
    /\ alone \/ overlaps < MaxOverlaps
    /\ overlaps' = IF alone THEN overlaps ELSE overlaps + 1
-----------------------------------------------------------------------------
(* clear_xml and updata_xml, run by thread p                                *)

At(p, here) == dead = "no" /\ p \in Refreshers /\ pc[p] = here
Go(p, to) == pc' = [pc EXCEPT ![p] = to]

\* Mutant: nobody asks whether the document was loaded
LoadedOrNot == IF file = Empty THEN {NoTimes}
               ELSE {file} \cup (IF file.tail THEN {[file EXCEPT !.tail = FALSE]} ELSE {})
\* what LoadFile may find; nothing if it fails
Loaded == IF file = Empty THEN {}
          ELSE {file} \cup (IF file.tail THEN {[file EXCEPT !.tail = FALSE]} ELSE {})
LoadFails == file = Empty \/ file.tail

ExitOnLoad(p) ==
    /\ At(p, "clear") \/ At(p, "update")
    /\ LoadFails
    /\ dead' = "load"
    /\ UNCHANGED <<registry, file, doc, pc, restarts, history>>

Larger(m, n) == IF m > n THEN m ELSE n
\* the nodes of one name that the deleting walk leaves
Left(nodes) ==
    {<<>>} \cup {SubSeq(nodes, n, Len(nodes)) : n \in Larger(Len(nodes) - MaxLeft, 1) + 1..Len(nodes)}

\* Mutant: the nodes of the log servers stay
ClearMedia(d) ==
    {[media |-> m, logs |-> d.logs, times |-> IF d.times = 0 THEN 0 ELSE d.times - 1,
      tail |-> d.tail] : m \in Left(d.media)}
\* Mutant: a node of times is taken away also where there is none
ClearBlindly(d) ==
    {[media |-> ml[1], logs |-> ml[2], times |-> d.times - 1, tail |-> d.tail] :
        ml \in Left(d.media) \X Left(d.logs)}
\* Mutant: the nodes of times stay
ClearServers(d) ==
    {[media |-> ml[1], logs |-> ml[2], times |-> d.times, tail |-> d.tail] :
        ml \in Left(d.media) \X Left(d.logs)}
\* RemoveChild takes the first of the nodes of a name, if there is one
Clear(d) ==
    {[media |-> ml[1], logs |-> ml[2], times |-> IF d.times = 0 THEN 0 ELSE d.times - 1,
      tail |-> d.tail] : ml \in Left(d.media) \X Left(d.logs)}

clear_xml(p) ==
    /\ At(p, "clear")
    /\ \E d \in Loaded : \E c \in Clear(d) : doc' = [doc EXCEPT ![p] = c]
    /\ Go(p, "save")
    /\ UNCHANGED <<registry, file, dead, restarts, history>>

ClearCrash(p) ==
    /\ At(p, "clear") /\ MaxLeft > 0 /\ file # Empty
    /\ file.media \o file.logs # <<>>
    /\ dead' = "freed"
    /\ UNCHANGED <<registry, file, doc, pc, restarts, history>>

updata_xml(p) ==
    /\ At(p, "update")
    /\ \E d \in Loaded : doc' = [doc EXCEPT ![p] = d]
    /\ Go(p, "media")
    /\ UNCHANGED <<registry, file, dead, restarts, history>>

\* the entries of ML_list that are in S, as a loop over the list finds them
InList(S) ==
    LET upto[i \in 0..Len(ML_list)] ==
            IF i = 0 THEN <<>>
            ELSE IF ML_list[i] \in S THEN Append(upto[i - 1], ML_list[i])
            ELSE upto[i - 1]
    IN  upto[Len(ML_list)]

MediaNodes == [i \in 1..Len(InList(MediaServers)) |->
    [ip |-> InList(MediaServers)[i], status |-> IF media_cut_over THEN 0 ELSE 1]]

InsertMedia(p) ==
    /\ At(p, "media")
    /\ doc' = [doc EXCEPT ![p].media = @ \o MediaNodes]
    /\ Go(p, "logs")
    /\ UNCHANGED <<registry, file, dead, restarts, history>>

\* WorkServerIP is the text of an address: compared with a number of 32 bits
\* it matches no row
NumberOf(l) == 0

LogNodes == [i \in 1..Len(InList(LogServers)) |->
    [ip |-> InList(LogServers)[i], status |-> IF \E l \in LogServers : jobs[l] # 0 THEN 1 ELSE 0,
     workqueue |-> NumberOf(InList(LogServers)[i])]]

InsertLogs(p) ==
    /\ At(p, "logs")
    /\ doc' = [doc EXCEPT ![p].logs = @ \o LogNodes, ![p].times = @ + 1]
    /\ Go(p, "savenew")
    /\ UNCHANGED <<registry, file, dead, restarts, history>>

\* SaveFile: open
OpenToWrite(p) ==
    /\ \/ At(p, "save") /\ Go(p, "write")
       \/ At(p, "savenew") /\ Go(p, "writenew")
    /\ file' = Empty
    /\ UNCHANGED <<registry, doc, dead, restarts, history>>

\* SaveFile: write and close
Saved(p) == {doc[p]} \cup
    (IF file \in {Empty, doc[p]} THEN {} ELSE {[doc[p] EXCEPT !.tail = TRUE]})

\* Mutant: the cleared document is not written
WriteNothing(p) ==
    /\ At(p, "write") /\ Go(p, "update")
    /\ UNCHANGED <<registry, file, doc, dead, restarts, history>>

WriteCleared(p) ==
    /\ At(p, "write") /\ Go(p, "update")
    /\ file' \in Saved(p)
    /\ UNCHANGED <<registry, doc, dead, restarts, history>>

WriteUpdated(p) ==
    /\ At(p, "writenew") /\ Go(p, IF p = "cut" THEN "assign" ELSE "idle")
    /\ file' \in Saved(p)
    /\ doc' = [doc EXCEPT ![p] = NoTimes]
    /\ fresh' = quiet[p]
    /\ UNCHANGED <<registry, dead, restarts, quiet, overlaps>>
-----------------------------------------------------------------------------
(* Network thread                                                           *)

Refresh == At("raknet", "idle") /\ Go("raknet", "clear") /\ Begins("raknet")

\* m2cjoin, l2cjoin
Join(s) ==
    /\ Len(ML_list) < MaxEntries
    /\ Refresh
    /\ ML_list' = Append(ML_list, s)
    /\ UNCHANGED <<media_cut_over, jobs, cutting, file, doc, dead, restarts>>

\* The report is not refreshed.  The other thread may be on the entry.
lostconn(i) ==
    /\ At("raknet", "idle")
    /\ ML_list' = RemoveAt(ML_list, i)
    /\ dead' \in {"no"} \cup
           (IF \E p \in Refreshers : pc[p] \in {"media", "logs"} THEN {"walk"} ELSE {})
    /\ Touch
    /\ UNCHANGED <<media_cut_over, jobs, cutting, file, doc, pc, restarts>>

\* m_count is in CutRound: here it may be zero or not
endcutlod(m) ==
    /\ m \in cutting /\ At("raknet", "idle")
    /\ cutting' = cutting \ {m}
    /\ \/ Refresh /\ media_cut_over' = TRUE
       \/ Touch /\ UNCHANGED <<media_cut_over, pc>>
    /\ UNCHANGED <<ML_list, jobs, file, doc, dead, restarts>>

\* the tickets it adds have Status=0
m2cnewlog ==
    /\ Refresh
    /\ UNCHANGED <<registry, file, doc, dead, restarts>>

l2ctask(l) ==
    /\ Refresh
    /\ \E n \in 0..jobs[l] : jobs' = [jobs EXCEPT ![l] = n]
    /\ UNCHANGED <<ML_list, media_cut_over, cutting, file, doc, dead, restarts>>
-----------------------------------------------------------------------------
(* Cutting thread and dispatcher                                            *)

\* send_media_func takes "cut" from the queue
TakeCut ==
    /\ At("cut", "idle") /\ Go("cut", "clear") /\ Begins("cut")
    /\ UNCHANGED <<registry, file, doc, dead, restarts>>

\* what the report shows of assignwork
assignwork ==
    /\ At("cut", "assign") /\ Go("cut", "idle")
    /\ media_cut_over' = TRUE
    /\ cutting' = ToSet(InList(MediaServers))
    /\ Touch
    /\ UNCHANGED <<ML_list, jobs, file, doc, dead, restarts>>

\* updatadb
SendTicket(l) ==
    /\ dead = "no" /\ jobs[l] < MaxJobs
    /\ l \in ToSet(ML_list)
    /\ jobs' = [jobs EXCEPT ![l] = @ + 1]
    /\ Touch
    /\ UNCHANGED <<ML_list, media_cut_over, cutting, file, doc, pc, dead, restarts>>

TakeSignal ==
    /\ dead = "no" /\ media_cut_over
    /\ media_cut_over' = FALSE
    /\ Touch
    /\ UNCHANGED <<ML_list, jobs, cutting, file, doc, pc, dead, restarts>>

\* the process crashes, or has ended, and is started again
Restart ==
    /\ restarts < MaxRestarts
    /\ restarts' = restarts + 1 /\ dead' = "no"
    /\ ML_list' = <<>> /\ media_cut_over' = FALSE
    /\ doc' = [p \in Refreshers |-> NoTimes]
    /\ pc' = [p \in Refreshers |-> "idle"]
    /\ Touch
    /\ UNCHANGED <<jobs, cutting, file>>
-----------------------------------------------------------------------------
refresh(p) == \/ ExitOnLoad(p) \/ clear_xml(p) \/ ClearCrash(p) \/ updata_xml(p)
              \/ InsertMedia(p) \/ InsertLogs(p) \/ OpenToWrite(p)
              \/ WriteCleared(p) \/ WriteUpdated(p)
Handlers == \/ \E s \in Servers : Join(s)
            \/ \E i \in 1..Len(ML_list) : lostconn(i)
            \/ \E m \in MediaServers : endcutlod(m)
            \/ m2cnewlog
            \/ \E l \in LogServers : l2ctask(l)
Others == TakeCut \/ assignwork \/ TakeSignal \/ \E l \in LogServers : SendTicket(l)
Next == Handlers \/ Others \/ Restart \/ \E p \in Refreshers : refresh(p)
Spec == Init /\ [][Next]_vars
-----------------------------------------------------------------------------
TypeOK ==
    /\ ML_list \in Seq(Servers) /\ media_cut_over \in BOOLEAN
    /\ jobs \in [LogServers -> Nat] /\ cutting \subseteq MediaServers
    /\ file \in Document \cup {Empty}
    /\ doc \in [Refreshers -> Document]
    /\ pc \in [Refreshers -> {"idle", "clear", "save", "write", "update", "media",
                              "logs", "savenew", "writenew", "assign"}]
    /\ dead \in {"no", "load", "freed", "walk"} /\ restarts \in Nat
    /\ quiet \in [Refreshers -> BOOLEAN] /\ fresh \in BOOLEAN /\ overlaps \in Nat

(* What nodes of one name are made of after a refresh: the new ones, behind *)
(* no more old ones than the walk that deletes has left.                    *)
Pictures(nodes, new) == IsSuffix(new, nodes) /\ Len(nodes) <= Len(new) + MaxLeft

(* A refresh that nothing disturbed shows the servers of ML_list and none   *)
(* but them and what the deleting walk has left, whatever earlier refreshes *)
(* that overlapped, or a crash in one, have left in the file.               *)
FreshIsPicture ==
    fresh => Pictures(file.media, MediaNodes) /\ Pictures(file.logs, LogNodes)

(* The process ends for a report that does not load only if refreshes have  *)
(* overlapped, or it was ended in the middle of one before.                 *)
ExitHasCause == dead = "load" => overlaps > 0 \/ restarts > 0

(* The three nodes of times are there once, and nothing is behind the end   *)
(* of the document, unless two refreshes overlapped: a second set of times  *)
(* is then never removed again.                                             *)
NothingExtra == overlaps = 0 /\ file # Empty => file.times <= 1 /\ ~file.tail

(* A report of no bytes that no thread is about to write stays so: each     *)
(* refresh from then on, of this process or the next, ends the process.     *)
Doomed == /\ file = Empty
          /\ \A p \in Refreshers : pc[p] \in {"idle", "clear", "update", "assign"}
EmptyIsForever == [][Doomed => Doomed']_vars
=============================================================================
