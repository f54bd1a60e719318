------------------------------ MODULE CutRound ------------------------------
(***************************************************************************)
(* A round of cutting.  The cut thread (assignwork) asks every registered  *)
(* media server to cut its log and sets m_count to the number it asked;    *)
(* the raknet thread (endcutlod) takes one off for every media server that *)
(* ends its cut and, at zero, lets the dispatcher merge.                   *)
(*                                                                         *)
(* Nothing orders the two threads: not the list As_M, which one fills      *)
(* while the other walks it, and not m_count.  An end of a cut carries no  *)
(* round number, so the end of an earlier round counts in a later one.     *)
(***************************************************************************)
EXTENDS Integers, Sequences, FiniteSets, SequencesExt

CONSTANTS
    MediaServers,   \* addresses of media servers
    Nobody,         \* none of them
    Faults,         \* which of "break", "quit", "leave", "crash", "segfault" and
                    \* "race" happen
    MaxFaults,      \* bound: faults in one behaviour
    MaxBehind,      \* bound: cuts a media server is behind when a round begins
    MaxEntries      \* bound: list entries with which a connected server joins

ASSUME CutAssumption ==
    /\ Nobody \notin MediaServers
    /\ IsFiniteSet(MediaServers)
    /\ Faults \subseteq {"break", "quit", "leave", "crash", "segfault", "race"}
    /\ MaxFaults \in Nat /\ MaxBehind \in Nat /\ MaxEntries \in Nat

VARIABLES
    registry,       \* the media servers in ML_list, in order
    link,           \* RakNet's view of each connection
    jobs,           \* cuts each media server was asked for and has not ended
    ends,           \* ends of cuts of each, not yet received
    faults,         \* faults so far
    cutlist,        \* As_M
    m_count,
    media_cut_over,
    cpc,            \* cut thread: where it is
    pos,            \* cut thread: entries of ML_list it has gone through
    asking,         \* cut thread: the server it has sent to and not listed yet
    rpc,            \* raknet thread: where it is
    walk,           \* raknet thread: whose end it counts or whom it erases, and
                    \* what it read of As_M and m_count when it began to count
    owing,          \* history: servers asked in this round and not counted off
    clean           \* history: see BeginRound

network == <<link, jobs, ends, faults>>
cutter == <<cutlist, cpc, pos, asking>>
raknet == <<rpc, walk>>
vars == <<registry, network, cutter, m_count, media_cut_over, raknet, owing, clean>>

NoWalk == [from |-> Nobody, list |-> <<>>, count |-> 0]
Entries(m) == {i \in DOMAIN registry : registry[i] = m}
Hits(m, list) == Cardinality({i \in DOMAIN list : list[i] = m})

InitProcess ==
    /\ registry = <<>> /\ cutlist = <<>> /\ m_count = 0
    /\ media_cut_over = FALSE
    /\ cpc = "idle" /\ pos = 0 /\ asking = Nobody
    /\ rpc = "idle" /\ walk = NoWalk

Init ==
    /\ InitProcess
    /\ link = [m \in MediaServers |-> "down"]
    /\ jobs = [m \in MediaServers |-> 0]
    /\ ends = [m \in MediaServers |-> 0]
    /\ faults = 0
    /\ owing = {} /\ clean = TRUE

Restart ==
    /\ registry' = <<>> /\ cutlist' = <<>> /\ m_count' = 0
    /\ media_cut_over' = FALSE
    /\ cpc' = "idle" /\ pos' = 0 /\ asking' = Nobody
    /\ rpc' = "idle" /\ walk' = NoWalk
    /\ link' = [m \in MediaServers |-> "down"]
    /\ ends' = [m \in MediaServers |-> 0]
    /\ owing' = {} /\ clean' = FALSE
    /\ UNCHANGED jobs
-----------------------------------------------------------------------------
(* Media servers, connections and faults (outside src/).                    *)

Fault(kind) == kind \in Faults /\ faults < MaxFaults /\ faults' = faults + 1

\* The connection of m breaks ("break": RakNet reports the loss) or is closed
\* ("quit": Update only logs it).  What RakNet has not received is lost with
\* it, and so are the cuts if it is the media server that went down.
Break(m, kind) ==
    /\ Fault(kind)
    /\ link[m] = "up"
    /\ link' = [link EXCEPT ![m] = IF kind = "break" THEN "lost" ELSE "down"]
    /\ \E left \in {0, jobs[m]} : jobs' = [jobs EXCEPT ![m] = left]
    /\ \E received \in 0..ends[m] : ends' = [ends EXCEPT ![m] = received]
    /\ UNCHANGED <<registry, cutter, m_count, media_cut_over, raknet, owing, clean>>

Crash ==
    /\ Fault("crash")
    /\ Restart

\* The media server has cut its log and says so, if it has a connection
EndCut(m) ==
    /\ jobs[m] > 0
    /\ jobs' = [jobs EXCEPT ![m] = @ - 1]
    /\ ends' = [ends EXCEPT ![m] = IF link[m] = "up" THEN @ + 1 ELSE @]
    /\ UNCHANGED <<registry, link, faults, cutter, m_count, media_cut_over, raknet,
                   owing, clean>>
-----------------------------------------------------------------------------
(* Raknet thread.                                                           *)

\* m2cjoin appends, whatever the list holds
M2CJoin(m) ==
    /\ rpc = "idle"
    /\ link[m] # "lost"
    /\ link[m] = "up" => Cardinality(Entries(m)) < MaxEntries
    /\ registry' = Append(registry, m)
    /\ link' = [link EXCEPT ![m] = "up"]
    /\ UNCHANGED <<jobs, ends, faults, cutter, m_count, media_cut_over, raknet,
                   owing, clean>>

\* lostconn goes through the list and erases the entries of m
StartErasing(m) ==
    IF Entries(m) = {} THEN UNCHANGED raknet
                       ELSE rpc' = "erase" /\ walk' = [NoWalk EXCEPT !.from = m]

\* ID_CONNECTION_LOST is received behind all the server had sent
LostConn(m) ==
    /\ rpc = "idle"
    /\ link[m] = "lost" /\ ends[m] = 0
    /\ link' = [link EXCEPT ![m] = "down"]
    /\ StartErasing(m)
    /\ UNCHANGED <<registry, jobs, ends, faults, cutter, m_count, media_cut_over,
                   owing, clean>>

\* ID_M2C_LEAVE: the same handler, the connection stays
Leave(m) ==
    /\ Fault("leave")
    /\ rpc = "idle"
    /\ link[m] # "down"
    /\ StartErasing(m)
    /\ UNCHANGED <<registry, link, jobs, ends, cutter, m_count, media_cut_over,
                   owing, clean>>

\* Mutant: the place of the cut thread in the list is forgotten
EraseUnderfoot(i) ==
    /\ rpc = "erase"
    /\ i \in Entries(walk.from) /\ \A j \in Entries(walk.from) : i <= j
    /\ registry' = RemoveAt(registry, i)
    /\ IF Entries(walk.from) = {i} THEN rpc' = "idle" /\ walk' = NoWalk
                                   ELSE UNCHANGED raknet
    /\ UNCHANGED <<network, cutter, m_count, media_cut_over, owing, clean>>

\* The cut thread goes on behind the entry: if it stands on it, the erased
\* node still leads to the next one, or else to a crash (CutCrash).
EraseEntry(i) ==
    /\ rpc = "erase"
    /\ i \in Entries(walk.from) /\ \A j \in Entries(walk.from) : i <= j
    /\ registry' = RemoveAt(registry, i)
    /\ pos' = IF i <= pos THEN pos - 1 ELSE pos
    /\ IF Entries(walk.from) = {i} THEN rpc' = "idle" /\ walk' = NoWalk
                                   ELSE UNCHANGED raknet
    /\ UNCHANGED <<network, cutlist, cpc, asking, m_count, media_cut_over, owing,
                   clean>>

\* endcutlod begins to walk As_M; before m_count is set the round is unclean
WalkAsM(m) ==
    /\ rpc = "idle"
    /\ ends[m] > 0
    /\ ends' = [ends EXCEPT ![m] = @ - 1]
    /\ walk' = [from |-> m, list |-> cutlist, count |-> m_count]
    /\ rpc' = "count"
    /\ clean' = (clean /\ cpc = "idle")
    /\ UNCHANGED <<registry, link, jobs, faults, cutter, m_count,
                   media_cut_over, owing>>

\* What the walk finds, undisturbed; while entries are appended; or when the
\* list is cleared under it and it goes through freed nodes
Found(m) ==
    IF IsPrefix(walk.list, cutlist) THEN Hits(m, walk.list)..Hits(m, cutlist)
    ELSE 0..Hits(m, walk.list) + Hits(m, cutlist)

\* Mutant: the address is not compared
CountOffAll ==
    /\ rpc = "count"
    /\ m_count' = m_count - Len(walk.list)
    /\ owing' = owing \ {walk.from}
    /\ rpc' = "test" /\ walk' = NoWalk
    /\ UNCHANGED <<registry, network, cutter, media_cut_over, clean>>

\* m_count--, once per entry found
CountOff ==
    /\ rpc = "count"
    /\ \E n \in Found(walk.from) : m_count' = m_count - n
    /\ owing' = owing \ {walk.from}
    /\ rpc' = "test" /\ walk' = NoWalk
    /\ UNCHANGED <<registry, network, cutter, media_cut_over, clean>>

\* It reads and writes m_count unprotected, and so may undo a SetCount between
CountRace ==
    /\ rpc = "count" /\ walk.count # m_count
    /\ Fault("race")
    /\ \E n \in Found(walk.from) : m_count' = walk.count - n
    /\ owing' = owing \ {walk.from}
    /\ rpc' = "test" /\ walk' = NoWalk
    /\ UNCHANGED <<registry, link, jobs, ends, cutter, media_cut_over, clean>>

\* if(m_count==0): the dispatcher may merge.  The report is in module Report.
TestCount ==
    /\ rpc = "test"
    /\ media_cut_over' = (media_cut_over \/ m_count = 0)
    /\ rpc' = "idle"
    /\ UNCHANGED <<registry, network, cutter, m_count, walk, owing, clean>>

\* The walk over a list that was cleared leads out of memory
WalkCrash ==
    /\ rpc = "count" /\ ~IsPrefix(walk.list, cutlist)
    /\ Fault("segfault")
    /\ Restart
-----------------------------------------------------------------------------
(* Cut thread, and the dispatcher that takes the signal.                    *)

\* Mutant: As_M is not cleared
BeginKeepsList ==
    /\ cpc = "idle"
    /\ \A m \in MediaServers : jobs[m] + ends[m] <= MaxBehind
    /\ media_cut_over' = TRUE
    /\ pos' = 0
    /\ cpc' = IF registry = <<>> THEN "idle" ELSE "send"
    /\ owing' = {}
    /\ clean' = (rpc = "idle" /\ \A m \in MediaServers : jobs[m] = 0 /\ ends[m] = 0)
    /\ UNCHANGED <<registry, network, cutlist, asking, m_count, raknet>>

\* media_cut_over=true; mycutlist->clear(); and on to the servers, if there is
\* any in ML_list, of whatever type.  The round is clean when no media server
\* is still busy with an earlier one.
BeginRound ==
    /\ cpc = "idle"
    /\ \A m \in MediaServers : jobs[m] + ends[m] <= MaxBehind
    /\ media_cut_over' = TRUE
    /\ cutlist' = <<>>
    /\ pos' = 0
    /\ \E logservers \in BOOLEAN :
           cpc' = IF registry = <<>> /\ ~logservers THEN "idle" ELSE "send"
    /\ owing' = {}
    /\ clean' = (rpc = "idle" /\ \A m \in MediaServers : jobs[m] = 0 /\ ends[m] = 0)
    /\ UNCHANGED <<registry, network, asking, m_count, raknet>>

\* SendPacket: RakNet sends if it has the connection.  A server that is asked
\* twice leaves the round unclean.
SendStart ==
    /\ cpc = "send" /\ asking = Nobody /\ pos < Len(registry)
    /\ asking' = registry[pos + 1]
    /\ jobs' = [jobs EXCEPT ![asking'] = IF link[asking'] = "up" THEN @ + 1 ELSE @]
    /\ owing' = owing \cup {asking'}
    /\ clean' = (clean /\ asking' \notin owing)
    /\ pos' = pos + 1
    /\ UNCHANGED <<registry, link, ends, faults, cutlist, cpc, m_count,
                   media_cut_over, raknet>>

\* mycutlist->push_back(as_m)
ListStart ==
    /\ cpc = "send" /\ asking # Nobody
    /\ cutlist' = Append(cutlist, asking)
    /\ asking' = Nobody
    /\ UNCHANGED <<registry, network, cpc, pos, m_count, media_cut_over,
                   raknet, owing, clean>>

\* Mutant: the size of ML_list, which holds a log server too
SetCountAllServers ==
    /\ cpc = "send" /\ asking = Nobody /\ pos = Len(registry)
    /\ m_count' = Len(cutlist) + 1
    /\ cpc' = "idle"
    /\ UNCHANGED <<registry, network, cutlist, pos, asking,
                   media_cut_over, raknet, owing, clean>>

\* m_count=mycutlist->size()
SetCount ==
    /\ cpc = "send" /\ asking = Nobody /\ pos = Len(registry)
    /\ m_count' = Len(cutlist)
    /\ cpc' = "idle"
    /\ UNCHANGED <<registry, network, cutlist, pos, asking,
                   media_cut_over, raknet, owing, clean>>

\* An entry the loop has gone through is gone, perhaps the one it stands on.
\* It follows from the fault that lost the connection and is not counted again.
CutCrash ==
    /\ cpc = "send" /\ pos < Len(cutlist)
    /\ "segfault" \in Faults
    /\ Restart
    /\ UNCHANGED faults

\* Module Dispatch, OpenMerge
TakeSignal ==
    /\ media_cut_over
    /\ media_cut_over' = FALSE
    /\ UNCHANGED <<registry, network, cutter, m_count, raknet, owing, clean>>
-----------------------------------------------------------------------------
Network == \/ \E m \in MediaServers : EndCut(m) \/ \E k \in {"break", "quit"} : Break(m, k)
           \/ Crash
Raknet == \/ \E m \in MediaServers : M2CJoin(m) \/ LostConn(m) \/ Leave(m) \/ WalkAsM(m)
          \/ \E i \in DOMAIN registry : EraseEntry(i)
          \/ CountOff \/ CountRace \/ TestCount \/ WalkCrash
Cutter == BeginRound \/ SendStart \/ ListStart \/ SetCount \/ CutCrash
Next == Network \/ Raknet \/ Cutter \/ TakeSignal
Spec == Init /\ [][Next]_vars

(* The raknet thread takes every packet and finishes its handler, the cut   *)
(* thread finishes its loop, and a media server ends what it was asked.     *)
Counting == \/ \E m \in MediaServers : WalkAsM(m)
            \/ \E i \in DOMAIN registry : EraseEntry(i)
            \/ CountOff \/ TestCount
FairSpec == /\ Spec
            /\ WF_vars(Counting) /\ WF_vars(SendStart \/ ListStart \/ SetCount)
            /\ \A m \in MediaServers : WF_vars(EndCut(m))
-----------------------------------------------------------------------------
ListsOK ==
    /\ registry \in Seq(MediaServers) /\ cutlist \in Seq(MediaServers)
    /\ pos \in 0..Len(registry)
    /\ asking \in MediaServers \cup {Nobody}
    /\ cpc \in {"idle", "send"}

NetworkOK ==
    /\ link \in [MediaServers -> {"up", "lost", "down"}]
    /\ jobs \in [MediaServers -> Nat] /\ ends \in [MediaServers -> Nat]
    /\ faults \in Nat

CountOK ==
    /\ m_count \in Int /\ media_cut_over \in BOOLEAN
    /\ owing \in SUBSET MediaServers /\ clean \in BOOLEAN

WalkOK ==
    /\ rpc \in {"idle", "erase", "count", "test"}
    /\ walk \in [from : MediaServers \cup {Nobody}, list : Seq(MediaServers), count : Int]
    /\ rpc \in {"erase", "count"} => walk.from \in MediaServers
    /\ rpc = "erase" => Entries(walk.from) # {}

(* Type invariant: the lists, the counters and where the threads are; what  *)
(* lostconn is still to erase is in the list.                               *)
TypeOK == ListsOK /\ NetworkOK /\ CountOK /\ WalkOK

(* A round that began when no media server was busy with an earlier one,    *)
(* asked each at most once and got no end before m_count was set, lets the  *)
(* dispatcher merge only when every media server it asked has ended its cut *)
(* - whatever earlier rounds, lost servers and restarts left in m_count.    *)
SignalAfterAll ==
    clean /\ rpc = "test" /\ m_count = 0 =>
        \A m \in MediaServers : m \in ToSet(cutlist) => jobs[m] = 0

(* In such a round m_count is the number of media servers that have not     *)
(* ended their cut: none is counted off twice, and none that is not asked.  *)
CountIsOwing ==
    clean /\ cpc = "idle" /\ cutlist # <<>> => m_count = Cardinality(owing)

(* A round whose media servers all answer comes to its end: m_count gets to *)
(* zero and the raknet thread sees it, unless the next round begins before. *)
RoundEnds ==
    /\ faults = MaxFaults /\ clean /\ cpc = "idle" /\ owing # {}
    /\ \A m \in owing : link[m] = "up" /\ jobs[m] + ends[m] > 0
    ~> cpc # "idle" \/ cutlist = <<>> \/ (rpc = "test" /\ m_count = 0)
=============================================================================
