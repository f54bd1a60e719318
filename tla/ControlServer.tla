---------------------------- MODULE ControlServer ----------------------------
(***************************************************************************)
(* The control server as a whole: rounds of cutting (module CutRound) and  *)
(* the tickets made of the logs they bring (TicketLife, which stands for   *)
(* module Dispatch).  The two share                                        *)
(*                                                                         *)
(*   media_cut_over      set when a round begins and when it has ended,    *)
(*                       cleared by the dispatcher when a pass begins      *)
(*   the raknet thread   which takes one packet at a time                  *)
(*   the connections     on each of which the log a media server has cut   *)
(*                       comes before the end of the cut (RakNet delivers  *)
(*                       RELIABLE_ORDERED packets of a connection in order)*)
(*                                                                         *)
(* and nothing else: no ticket names its round.                            *)
(***************************************************************************)
EXTENDS TicketLife, FiniteSets, SequencesExt

CONSTANTS MediaServers, Nobody, Faults, MaxFaults, MaxBehind, MaxEntries

\* that of module CutRound
ASSUME RoundAssumption ==
    /\ Nobody \notin MediaServers
    /\ IsFiniteSet(MediaServers)
    /\ Faults \subseteq {"break", "quit", "leave", "crash", "segfault", "race"}
    /\ MaxFaults \in Nat /\ MaxBehind \in Nat /\ MaxEntries \in Nat

VARIABLES
    wire,           \* what each media server has sent of its cuts
    \* module CutRound, with its variables cpc and rpc
    registry, link, jobs, faults, cutlist, m_count, pos, asking, walk, owing, clean,
    cutting, counting,
    cutlogs,        \* history: the log each media server cut in this round,
                    \* as long as the round is clean
    signalled,      \* history: those of the last clean round that signalled
    passing         \* history: those of the last such round before the count

EndsOf(w) == [m \in MediaServers |-> Cardinality({i \in DOMAIN w[m] : w[m][i] = "end"})]

Cut == INSTANCE CutRound WITH ends <- EndsOf(wire), cpc <- cutting, rpc <- counting

rounds == <<registry, link, jobs, faults, cutlist, m_count, pos, asking, walk,
            owing, clean, cutting, counting>>
life == <<tickets, held, reported, stage, counted>>
history == <<cutlogs, signalled, passing>>
all == <<vars, wire, rounds, history>>

NoLog == 0                         \* the media server has cut no log
Due == -1                          \* its log is not in the table yet
NoLogs == [m \in MediaServers |-> NoLog]

\* The raknet thread works on no packet
RaknetIdle == reported = {} /\ counting = "idle"

InTransit == FoldSet(LAMBDA m, n : n + Len(SelectSeq(wire[m], LAMBDA p : p = "log")),
                     0, MediaServers)

AllInit ==
    /\ Init
    /\ wire = [m \in MediaServers |-> <<>>]
    /\ Cut!Init
    /\ cutlogs = NoLogs /\ signalled = NoLogs /\ passing = NoLogs
-----------------------------------------------------------------------------
(* Media servers, connections and faults (outside src/).  What else module  *)
(* CutRound lets happen - an orderly close, a media server that leaves, the *)
(* races of m_count and of the lists - is left to it.                       *)

\* The media server has cut: it sends its log, if there is anything in it,
\* and then the end.  Without a connection the log is lost.
EndCut(m) ==
    /\ UNCHANGED <<vars, signalled, passing>>
    /\ \/ link[m] # "up" /\ UNCHANGED <<wire, cutlogs>>
       \/ /\ link[m] = "up" /\ Len(tickets) + InTransit < MaxTickets
          /\ wire' = [wire EXCEPT ![m] = @ \o <<"log", "end">>]
          /\ UNCHANGED cutlogs
       \/ /\ link[m] = "up"
          /\ wire' = [wire EXCEPT ![m] = Append(@, "end")]
          /\ cutlogs' = [cutlogs EXCEPT ![m] = NoLog]
    /\ Cut!EndCut(m)

\* What RakNet has received of it is the first part of what m has sent
BreakMedia(m) ==
    /\ UNCHANGED <<vars, history>>
    /\ \E n \in 0..Len(wire[m]) : wire' = [wire EXCEPT ![m] = SubSeq(@, 1, n)]
    /\ Cut!Break(m, "break")

\* The process ends; the table of tickets and the servers live on
CrashAll ==
    /\ Crash
    /\ wire' = [m \in MediaServers |-> <<>>]
    /\ cutlogs' = NoLogs /\ passing' = NoLogs
    /\ UNCHANGED signalled
    /\ Cut!Crash
-----------------------------------------------------------------------------
(* Raknet thread                                                            *)

\* m2cjoin, lostconn
Registration ==
    /\ UNCHANGED <<vars, wire, history>>
    /\ \/ reported = {} /\ \E m \in MediaServers :
              Cut!M2CJoin(m) \/ (wire[m] = <<>> /\ Cut!LostConn(m))
       \/ \E i \in DOMAIN registry : Cut!EraseEntry(i)

\* m2cnewlog
TakeLog(m) ==
    /\ RaknetIdle
    /\ wire[m] # <<>> /\ Head(wire[m]) = "log"
    /\ Enter(Single)
    /\ wire' = [wire EXCEPT ![m] = Tail(@)]
    /\ cutlogs' = [cutlogs EXCEPT ![m] = IF @ = Due THEN Len(tickets') ELSE @]
    /\ UNCHANGED <<rounds, signalled, passing>>

\* endcutlod, up to the test of m_count
TakeEnd(m) ==
    /\ RaknetIdle
    /\ wire[m] # <<>> /\ Head(wire[m]) = "end"
    /\ UNCHANGED <<vars, signalled, passing>>
    /\ wire' = [wire EXCEPT ![m] = Tail(@)]
    /\ Cut!WalkAsM(m)
    /\ cutlogs' = IF clean' THEN cutlogs ELSE NoLogs

CountEnd ==
    /\ UNCHANGED <<vars, wire, history>>
    /\ Cut!CountOff

\* ... and that test
Signal ==
    /\ UNCHANGED <<life, wire, cutlogs, passing>>
    /\ Cut!TestCount
    /\ signalled' = IF clean /\ m_count = 0 THEN cutlogs ELSE signalled

\* l2ctask
TakeReport ==
    /\ counting = "idle"
    /\ \E l \in LogServers : \E S \in SUBSET held[l] : Report(l, S)
    /\ UNCHANGED <<wire, rounds, history>>

FinishOne ==
    /\ \E w \in reported : Finish(w) /\ w \notin reported'
    /\ UNCHANGED <<wire, rounds, history>>
-----------------------------------------------------------------------------
(* Cut thread                                                               *)

\* assignwork sets media_cut_over and begins the round
StartRound ==
    /\ UNCHANGED <<life, wire, signalled, passing>>
    /\ Cut!BeginRound
    /\ cutlogs' = NoLogs

AskMedia ==
    /\ UNCHANGED <<vars, wire, signalled, passing>>
    /\ Cut!SendStart
    /\ cutlogs' = IF clean' THEN [cutlogs EXCEPT ![asking'] = Due] ELSE NoLogs

AskNext ==
    /\ UNCHANGED <<vars, wire, history>>
    /\ Cut!ListStart \/ Cut!SetCount
-----------------------------------------------------------------------------
(* Dispatcher                                                               *)

CountTickets ==
    /\ Count
    /\ passing' = signalled
    /\ UNCHANGED <<wire, rounds, cutlogs, signalled>>

Pass ==
    /\ OpenPass \/ ClosePass
    /\ passing' = IF stage' = "split" THEN NoLogs ELSE passing
    /\ UNCHANGED <<wire, rounds, cutlogs, signalled>>

\* updatadb or assignwork writes to a ticket that only its number brought there
WrongMark ==
    /\ \E w \in Ids : TakeBack(w)
    /\ passing' = IF stage' = "split" THEN NoLogs ELSE passing
    /\ UNCHANGED <<wire, rounds, cutlogs, signalled>>

SendTicket ==
    /\ \E l \in LogServers, w \in Singles \cap Undone : HandOut(l, w)
    /\ UNCHANGED <<wire, rounds, history>>
-----------------------------------------------------------------------------
MediaSteps == CrashAll \/ \E m \in MediaServers : EndCut(m) \/ BreakMedia(m)
RaknetSteps == \/ \E m \in MediaServers : TakeLog(m) \/ TakeEnd(m)
               \/ Registration \/ CountEnd \/ Signal \/ TakeReport \/ FinishOne
CutSteps == StartRound \/ AskMedia \/ AskNext
DispatchSteps == CountTickets \/ Pass \/ SendTicket \/ WrongMark
AllNext == MediaSteps \/ RaknetSteps \/ CutSteps \/ DispatchSteps
AllSpec == AllInit /\ [][AllNext]_all
-----------------------------------------------------------------------------
(* Type invariant: that of both modules.                                    *)
AllTypeOK ==
    /\ Cut!TypeOK
    /\ reported # {} => counting = "idle"
    /\ wire \in [MediaServers -> Seq({"log", "end"})]
    /\ {cutlogs, signalled, passing} \subseteq [MediaServers -> {NoLog, Due} \cup Ids]

(* In a merge pass every log that was cut in the last round that signalled  *)
(* before the dispatcher counted is in the table and finished: the end of   *)
(* the round, the order of a connection and the count of unfinished rows    *)
(* work together.  Only a ticket that a mark may hit can be open again.     *)
CutLogsSplit ==
    stage = "merge" =>
        \A m \in MediaServers :
            passing[m] # NoLog =>
                /\ passing[m] # Due
                /\ tickets[passing[m]].done \/ passing[m] \in Exposed
=============================================================================
