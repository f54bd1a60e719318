------------------------ MODULE ControlServerProofs ------------------------
(***************************************************************************)
(* The whole control server, for every number of media servers, log        *)
(* servers, tickets and faults.  It is shown first that every step of it   *)
(* is one of module CutRound or leaves that module's variables alone, and  *)
(* the same of TicketLife: what holds of the two parts holds of the whole. *)
(* The log of a media server is then followed from the cut to the pass.    *)
(***************************************************************************)
EXTENDS ControlServer, FiniteSetTheorems, TLAPS

\* What is proved of CutRound, for the rounds of the whole
P == INSTANCE CutRoundProofs WITH ends <- EndsOf(wire), cpc <- cutting, rpc <- counting

LEMMA RoundConstants == P!CutAssumption
  BY RoundAssumption DEF P!CutAssumption, P!IsFiniteSet, IsFiniteSet

-----------------------------------------------------------------------------
(* Every step is a step of a round, or stutters in it. *)

WireOK == wire \in [MediaServers -> Seq({"log", "end"})]

\* A log in front of the others is no end
LEMMA TailEnds ==
    ASSUME NEW q \in Seq({"log", "end"}), q # <<>>, Head(q) = "log"
    PROVE  Cardinality({i \in DOMAIN Tail(q) : Tail(q)[i] = "end"})
             = Cardinality({i \in DOMAIN q : q[i] = "end"})
  <1> DEFINE E == {i \in DOMAIN Tail(q) : Tail(q)[i] = "end"}
             F == {i \in DOMAIN q : q[i] = "end"}
  <1>1. /\ Len(q) \in Nat \ {0} /\ DOMAIN q = 1..Len(q) /\ q[1] = "log"
        /\ DOMAIN Tail(q) = 1..Len(q) - 1
        /\ \A i \in 1..Len(q) - 1 : Tail(q)[i] = q[i + 1]
    OBVIOUS
  <1>2. PICK f : f = [i \in E |-> i + 1]
    OBVIOUS
  <1>3. f \in Bijection(E, F)
    <2>1. \A i \in E : i \in Nat /\ i + 1 \in F
      BY <1>1
    <2>2. f \in Injection(E, F)
      <3>1. f \in [E -> F]
        BY <1>2, <2>1
      <3>2. \A i, j \in E : f[i] = f[j] => i = j
        BY <1>2, <2>1
      <3> QED
        BY <3>1, <3>2 DEF Injection, IsInjective
    <2>3. \A j \in F : \E i \in E : f[i] = j
      <3> TAKE j \in F
      <3>1. j \in 2..Len(q)
        BY <1>1
      <3>2. j - 1 \in E /\ (j - 1) + 1 = j
        BY <1>1, <3>1
      <3> QED
        BY <1>2, <3>2
    <2> QED
      BY <2>2, <2>3 DEF Bijection, Surjection, Injection
  <1>4. IsFiniteSet(E)
    <2>1. IsFiniteSet(1..Len(q) - 1) /\ E \subseteq 1..Len(q) - 1
      BY <1>1, FS_Interval
    <2> QED
      BY <2>1, FS_Subset
  <1> QED
    BY <1>3, <1>4, FS_Bijection DEF ExistsBijection

LEMMA LogIsNoEnd ==
    ASSUME WireOK, NEW m \in MediaServers, TakeLog(m)
    PROVE  EndsOf(wire)' = EndsOf(wire)
  <1>1. /\ wire[m] \in Seq({"log", "end"}) /\ wire[m] # <<>> /\ Head(wire[m]) = "log"
        /\ wire' = [wire EXCEPT ![m] = Tail(wire[m])]
    BY DEF TakeLog, WireOK
  <1>2. \A n \in MediaServers : wire'[n] = IF n = m THEN Tail(wire[m]) ELSE wire[n]
    BY <1>1 DEF WireOK
  <1> DEFINE Of(q) == Cardinality({i \in DOMAIN q : q[i] = "end"})
  <1>3. Of(Tail(wire[m])) = Of(wire[m])
    BY <1>1, TailEnds
  <1> HIDE DEF Of
  <1>4. \A n \in MediaServers : Of(wire'[n]) = Of(wire[n])
    BY <1>2, <1>3
  <1>5. [n \in MediaServers |-> Of(wire'[n])] = [n \in MediaServers |-> Of(wire[n])]
    BY <1>4
  <1> QED
    BY <1>5 DEF EndsOf, Of

LEMMA StepOfRound ==
    ASSUME WireOK, P!TypeOK, [AllNext]_all
    PROVE  [Cut!Next]_(Cut!vars)
  <1> SUFFICES Cut!Next \/ UNCHANGED Cut!vars
    OBVIOUS
  <1>1. CASE MediaSteps
    BY <1>1 DEF MediaSteps, CrashAll, EndCut, BreakMedia, Cut!Next, Cut!Network
  <1>2. ASSUME NEW m \in MediaServers, TakeLog(m) PROVE UNCHANGED Cut!vars
    <2>1. UNCHANGED <<EndsOf(wire), media_cut_over, rounds>>
      BY <1>2, LogIsNoEnd DEF TakeLog, Enter
    <2> QED
      BY <2>1 DEF rounds, Cut!vars, Cut!network, Cut!cutter, Cut!raknet
  <1>3. ASSUME NEW m \in MediaServers, TakeEnd(m) PROVE Cut!Next
    BY <1>3 DEF TakeEnd, Cut!Next, Cut!Raknet
  <1>4. CASE Registration
    BY <1>4 DEF Registration, Cut!Next, Cut!Raknet
  <1>5. CASE CountEnd \/ Signal
    BY <1>5 DEF CountEnd, Signal, Cut!Next, Cut!Raknet
  <1>6. CASE CutSteps
    BY <1>6 DEF CutSteps, StartRound, AskMedia, AskNext, Cut!Next, Cut!Cutter
  <1>7. CASE Pass
    <2>1. UNCHANGED <<wire, rounds>> /\ (OpenPass \/ ClosePass)
      BY <1>7 DEF Pass
    <2>2. UNCHANGED EndsOf(wire)
      BY <2>1 DEF EndsOf
    <2>3. media_cut_over \in BOOLEAN
      BY DEF P!TypeOK, P!CountOK
    <2>4. CASE media_cut_over /\ ~media_cut_over'
      <3>1. media_cut_over' = FALSE
        BY <2>1, <2>4 DEF OpenPass, ClosePass
      <3>2. Cut!TakeSignal
        BY <2>1, <2>2, <2>4, <3>1
           DEF Cut!TakeSignal, rounds, Cut!network, Cut!cutter, Cut!raknet
      <3> QED
        BY <3>2 DEF Cut!Next
    <2>5. CASE ~(media_cut_over /\ ~media_cut_over')
      <3>1. media_cut_over' = media_cut_over
        BY <2>1, <2>3, <2>5, Zenon DEF OpenPass, ClosePass
      <3> QED
        BY <2>1, <2>2, <3>1 DEF rounds, Cut!vars, Cut!network, Cut!cutter, Cut!raknet
    <2> QED
      BY <2>4, <2>5
  <1>8. CASE \/ TakeReport \/ FinishOne \/ CountTickets \/ SendTicket \/ WrongMark
             \/ UNCHANGED all
    <2>1. UNCHANGED <<wire, media_cut_over, rounds>>
      BY <1>8 DEF TakeReport, FinishOne, CountTickets, SendTicket, WrongMark, all, Report,
                  Finish, Count, HandOut, TakeBack, vars
    <2>2. UNCHANGED EndsOf(wire)
      BY <2>1 DEF EndsOf
    <2> QED
      BY <2>1, <2>2 DEF rounds, Cut!vars, Cut!network, Cut!cutter, Cut!raknet
  <1> QED
    BY <1>1, <1>2, <1>3, <1>4, <1>5, <1>6, <1>7, <1>8
       DEF AllNext, RaknetSteps, DispatchSteps

\* The module of the proofs has definitions of its own, the same ones
LEMMA SameStep ==
    ASSUME [Cut!Next]_(Cut!vars)
    PROVE  [P!Next]_(P!vars)
  <1> USE DEF Cut!network, P!network, Cut!cutter, P!cutter, Cut!raknet, P!raknet
  <1>1. CASE UNCHANGED Cut!vars
    BY <1>1 DEF Cut!vars, P!vars
  <1>2. CASE Cut!Network
    <2>1. ASSUME NEW m \in MediaServers, Cut!EndCut(m) PROVE P!EndCut(m)
      BY <2>1 DEF Cut!EndCut, P!EndCut
    <2>2. ASSUME NEW m \in MediaServers, NEW k \in {"break", "quit"}, Cut!Break(m, k)
          PROVE  P!Break(m, k)
      BY <2>2 DEF Cut!Break, P!Break, Cut!Fault, P!Fault
    <2>3. Cut!Crash => P!Crash
      BY DEF Cut!Crash, P!Crash, Cut!Fault, P!Fault, Cut!Restart, P!Restart,
             Cut!NoWalk, P!NoWalk
    <2>4. P!Network
      BY <1>2, <2>1, <2>2, <2>3 DEF Cut!Network, P!Network
    <2> QED
      BY <2>4 DEF P!Next
  <1>3. CASE Cut!Raknet
    <2> USE DEF Cut!Entries, P!Entries, Cut!NoWalk, P!NoWalk
    <2>1. ASSUME NEW m \in MediaServers, Cut!M2CJoin(m) PROVE P!M2CJoin(m)
      BY <2>1 DEF Cut!M2CJoin, P!M2CJoin, P!Cardinality, Cut!Cardinality
    <2>2. ASSUME NEW m \in MediaServers, Cut!LostConn(m) PROVE P!LostConn(m)
      BY <2>2 DEF Cut!LostConn, P!LostConn, Cut!StartErasing, P!StartErasing
    <2>3. ASSUME NEW m \in MediaServers, Cut!Leave(m) PROVE P!Leave(m)
      BY <2>3 DEF Cut!Leave, P!Leave, Cut!StartErasing, P!StartErasing, Cut!Fault, P!Fault
    <2>4. ASSUME NEW m \in MediaServers, Cut!WalkAsM(m) PROVE P!WalkAsM(m)
      BY <2>4 DEF Cut!WalkAsM, P!WalkAsM
    <2>5. ASSUME NEW i \in DOMAIN registry, Cut!EraseEntry(i) PROVE P!EraseEntry(i)
      BY <2>5 DEF Cut!EraseEntry, P!EraseEntry, P!RemoveAt, Cut!RemoveAt
    <2>6. Cut!CountOff => P!CountOff
      BY DEF Cut!CountOff, P!CountOff, Cut!Found, P!Found, Cut!Hits, P!Hits,
             P!IsPrefix, Cut!IsPrefix, P!Cardinality, Cut!Cardinality
    <2>7. Cut!CountRace => P!CountRace
      BY DEF Cut!CountRace, P!CountRace, Cut!Found, P!Found, Cut!Hits, P!Hits, Cut!Fault,
             P!Fault, P!IsPrefix, Cut!IsPrefix, P!Cardinality, Cut!Cardinality
    <2>8. Cut!TestCount => P!TestCount
      BY DEF Cut!TestCount, P!TestCount
    <2>9. Cut!WalkCrash => P!WalkCrash
      BY DEF Cut!WalkCrash, P!WalkCrash, Cut!Fault, P!Fault, Cut!Restart, P!Restart,
             P!IsPrefix, Cut!IsPrefix
    <2>10. P!Raknet
      BY <1>3, <2>1, <2>2, <2>3, <2>4, <2>5, <2>6, <2>7, <2>8, <2>9
         DEF Cut!Raknet, P!Raknet
    <2> QED
      BY <2>10 DEF P!Next
  <1>4. CASE Cut!Cutter
    <2>1. Cut!BeginRound => P!BeginRound
      BY DEF Cut!BeginRound, P!BeginRound
    <2>2. Cut!SendStart => P!SendStart
      BY DEF Cut!SendStart, P!SendStart
    <2>3. Cut!ListStart => P!ListStart
      BY DEF Cut!ListStart, P!ListStart
    <2>4. Cut!SetCount => P!SetCount
      BY DEF Cut!SetCount, P!SetCount
    <2>5. Cut!CutCrash => P!CutCrash
      BY DEF Cut!CutCrash, P!CutCrash, Cut!Restart, P!Restart, Cut!NoWalk, P!NoWalk
    <2>6. P!Cutter
      BY <1>4, <2>1, <2>2, <2>3, <2>4, <2>5 DEF Cut!Cutter, P!Cutter
    <2> QED
      BY <2>6 DEF P!Next
  <1>5. CASE Cut!TakeSignal
    BY <1>5 DEF Cut!TakeSignal, P!TakeSignal, P!Next
  <1> QED
    BY <1>1, <1>2, <1>3, <1>4, <1>5 DEF Cut!Next

LEMMA SameInit == Cut!Init => P!Init
  BY DEF Cut!Init, P!Init, Cut!InitProcess, P!InitProcess, Cut!NoWalk, P!NoWalk

-----------------------------------------------------------------------------
(* Types of the tickets, the connections and the history. *)

TicketOK == [spec : {Single}, done : BOOLEAN]

\* Only logs of media servers are entered; what is held or reported is a ticket
LifeInv ==
    /\ tickets \in Seq(TicketOK)
    /\ held \in [LogServers -> SUBSET Ids]
    /\ reported \subseteq Ids
    /\ reported # {} => counting = "idle"

LogsOK(logs) == logs \in [MediaServers -> {NoLog, Due} \cup Ids]
HistoryOK == LogsOK(cutlogs) /\ LogsOK(signalled) /\ LogsOK(passing)

LEMMA SeqFacts ==
    ASSUME NEW S, NEW q \in Seq(S)
    PROVE  /\ Len(q) \in Nat /\ DOMAIN q = 1..Len(q)
           /\ \A i \in 1..Len(q) : q[i] \in S
           /\ \A x \in S : /\ Append(q, x) \in Seq(S)
                           /\ Len(Append(q, x)) = Len(q) + 1
                           /\ Append(q, x)[Len(q) + 1] = x
                           /\ \A i \in 1..Len(q) : Append(q, x)[i] = q[i]
           /\ \A x \in S : \A i \in 1..Len(q) :
                  /\ [q EXCEPT ![i] = x] \in Seq(S)
                  /\ Len([q EXCEPT ![i] = x]) = Len(q)
           /\ q # <<>> => Tail(q) \in Seq(S)
           /\ \A n \in 0..Len(q) : SubSeq(q, 1, n) \in Seq(S)
  <1>1. Len(q) \in Nat /\ DOMAIN q = 1..Len(q) /\ \A i \in 1..Len(q) : q[i] \in S
    OBVIOUS
  <1>2. \A x \in S : /\ Append(q, x) \in Seq(S)
                     /\ Len(Append(q, x)) = Len(q) + 1
                     /\ Append(q, x)[Len(q) + 1] = x
                     /\ \A i \in 1..Len(q) : Append(q, x)[i] = q[i]
    OBVIOUS
  <1>3. \A x \in S : \A i \in 1..Len(q) :
            [q EXCEPT ![i] = x] \in Seq(S) /\ Len([q EXCEPT ![i] = x]) = Len(q)
    OBVIOUS
  <1>4. q # <<>> => Tail(q) \in Seq(S)
    OBVIOUS
  <1>5. \A n \in 0..Len(q) : SubSeq(q, 1, n) \in Seq(S)
    OBVIOUS
  <1> QED
    BY <1>1, <1>2, <1>3, <1>4, <1>5

\* Six steps act on the tickets or on what is held and reported
LEMMA LifeSteps ==
    ASSUME [AllNext]_all
    PROVE  \/ /\ UNCHANGED <<tickets, held, reported>>
              /\ reported # {} /\ counting = "idle" => counting' = "idle"
           \/ \E m \in MediaServers : TakeLog(m)
           \/ TakeReport \/ FinishOne \/ SendTicket \/ WrongMark \/ CrashAll
  <1>1. CASE UNCHANGED all
    BY <1>1 DEF all, vars, rounds
  <1>2. CASE MediaSteps
    BY <1>2 DEF MediaSteps, EndCut, BreakMedia, vars, Cut!EndCut, Cut!Break, Cut!raknet
  <1>3. CASE RaknetSteps
    BY <1>3 DEF RaknetSteps, TakeEnd, Registration, CountEnd, Signal, RaknetIdle, vars,
                life, Cut!CountOff, Cut!TestCount, Cut!EraseEntry, Cut!M2CJoin,
                Cut!LostConn, Cut!raknet
  <1>4. CASE CutSteps
    BY <1>4 DEF CutSteps, StartRound, AskMedia, AskNext, vars, life, Cut!BeginRound,
                Cut!SendStart, Cut!ListStart, Cut!SetCount, Cut!raknet
  <1>5. CASE DispatchSteps
    BY <1>5 DEF DispatchSteps, CountTickets, Pass, Count, OpenPass, ClosePass, rounds
  <1> QED
    BY <1>1, <1>2, <1>3, <1>4, <1>5 DEF AllNext

LEMMA LifeInit == AllInit => LifeInv
  <1> SUFFICES ASSUME AllInit PROVE LifeInv
    OBVIOUS
  <1>1. tickets = <<>> /\ held = [l \in LogServers |-> {}] /\ reported = {}
    BY DEF AllInit, Init
  <1> QED
    BY <1>1 DEF LifeInv

\* No ticket goes, and one that is done stays done where no mark can hit it
Lasting ==
    /\ Len(tickets) \in Nat /\ Len(tickets') \in Nat /\ Len(tickets) <= Len(tickets')
    /\ \A w \in Ids \ Exposed : tickets[w].done => tickets'[w].done

LEMMA LifeStep ==
    ASSUME LifeInv, [AllNext]_all
    PROVE  LifeInv' /\ Lasting
  <1>1. /\ tickets \in Seq(TicketOK) /\ Len(tickets) \in Nat /\ Ids = 1..Len(tickets)
        /\ held \in [LogServers -> SUBSET Ids] /\ reported \subseteq Ids
        /\ reported # {} => counting = "idle"
    BY SeqFacts DEF LifeInv, Ids
  <1>2. Ids' = 1..Len(tickets')
    BY DEF Ids
  <1>3. CASE /\ UNCHANGED <<tickets, held, reported>>
             /\ reported # {} /\ counting = "idle" => counting' = "idle"
    BY <1>1, <1>2, <1>3 DEF LifeInv, Lasting
  <1>4. ASSUME NEW m \in MediaServers, TakeLog(m) PROVE LifeInv' /\ Lasting
    <2> DEFINE t == [spec |-> Single, done |-> FALSE]
    <2>1. /\ UNCHANGED <<held, reported, counting>> /\ reported = {}
          /\ tickets' = Append(tickets, t)
      BY <1>4 DEF TakeLog, RaknetIdle, Enter, rounds
    <2>2. t \in TicketOK
      BY DEF TicketOK
    <2> HIDE DEF t
    <2>3. /\ tickets' \in Seq(TicketOK) /\ Len(tickets') = Len(tickets) + 1
          /\ \A w \in 1..Len(tickets) : tickets'[w] = tickets[w]
      BY <1>1, <2>1, <2>2, SeqFacts
    <2>4. Ids \subseteq Ids'
      BY <1>1, <1>2, <2>3
    <2>5. held' \in [LogServers -> SUBSET Ids']
      BY <1>1, <2>1, <2>4
    <2> QED
      BY <1>1, <1>2, <2>1, <2>3, <2>4, <2>5 DEF LifeInv, Lasting
  <1>5. CASE TakeReport
    <2>1. PICK l \in LogServers : \E S \in SUBSET held[l] : Report(l, S)
      BY <1>5 DEF TakeReport
    <2>2. PICK S \in SUBSET held[l] : Report(l, S)
      BY <2>1
    <2>3. /\ tickets' = tickets /\ held' = [held EXCEPT ![l] = held[l] \ S]
          /\ reported' = S
      BY <2>2 DEF Report
    <2>4. counting = "idle" /\ counting' = counting
      BY <1>5 DEF TakeReport, rounds
    <2>5. Ids' = Ids /\ held[l] \subseteq Ids
      BY <1>1, <1>2, <2>3
    <2>6. held' \in [LogServers -> SUBSET Ids']
      BY <1>1, <2>3, <2>5
    <2> QED
      BY <1>1, <2>2, <2>3, <2>4, <2>5, <2>6 DEF LifeInv, Lasting
  <1>6. CASE FinishOne
    <2>1. PICK w \in reported : Finish(w)
      BY <1>6 DEF FinishOne
    <2> DEFINE t == [tickets[w] EXCEPT !.done = TRUE]
    <2>2. /\ tickets' = [tickets EXCEPT ![w] = t] /\ held' = held
          /\ reported' \subseteq reported
      BY <2>1 DEF Finish
    <2>3. counting' = counting
      BY <1>6 DEF FinishOne, rounds
    <2>4. w \in 1..Len(tickets) /\ tickets[w] \in TicketOK
      BY <1>1, <2>1, SeqFacts
    <2>5. t \in TicketOK /\ t.done
      BY <2>4 DEF TicketOK
    <2> HIDE DEF t
    <2>6. tickets' \in Seq(TicketOK) /\ Len(tickets') = Len(tickets)
      BY <1>1, <2>2, <2>4, <2>5, SeqFacts
    <2>7. \A v \in Ids : tickets'[v] = IF v = w THEN t ELSE tickets[v]
      BY <1>1, <2>2, SeqFacts
    <2>8. \A v \in Ids : tickets[v].done => tickets'[v].done
      BY <2>5, <2>7
    <2> QED
      BY <1>1, <1>2, <2>2, <2>3, <2>6, <2>8 DEF LifeInv, Lasting
  <1>7. CASE SendTicket
    <2>1. PICK l \in LogServers, w \in Ids :
              held' = [held EXCEPT ![l] = held[l] \cup {w}]
      BY <1>7 DEF SendTicket, HandOut, Singles
    <2>2. UNCHANGED <<tickets, reported, counting>>
      BY <1>7 DEF SendTicket, HandOut, rounds
    <2>3. held' \in [LogServers -> SUBSET Ids']
      BY <1>1, <1>2, <2>1, <2>2
    <2> QED
      BY <1>1, <1>2, <2>2, <2>3 DEF LifeInv, Lasting
  <1>8. CASE CrashAll
    <2>1. UNCHANGED <<tickets, held>> /\ reported' = {}
      BY <1>8 DEF CrashAll, Crash
    <2> QED
      BY <1>1, <1>2, <2>1 DEF LifeInv, Lasting
  <1>9. CASE WrongMark
    <2>1. PICK w \in Ids : TakeBack(w)
      BY <1>9 DEF WrongMark
    <2> DEFINE t == [tickets[w] EXCEPT !.done = FALSE]
    <2>2. /\ w \in Exposed /\ tickets' = [tickets EXCEPT ![w] = t]
          /\ held' = held /\ reported' = reported
      BY <2>1 DEF TakeBack
    <2>3. counting' = counting
      BY <1>9 DEF WrongMark, rounds
    <2>4. w \in 1..Len(tickets) /\ tickets[w] \in TicketOK
      BY <1>1, <2>1, SeqFacts
    <2>5. t \in TicketOK
      BY <2>4 DEF TicketOK
    <2> HIDE DEF t
    <2>6. tickets' \in Seq(TicketOK) /\ Len(tickets') = Len(tickets)
      BY <1>1, <2>2, <2>4, <2>5, SeqFacts
    <2>7. \A v \in Ids : tickets'[v] = IF v = w THEN t ELSE tickets[v]
      BY <1>1, <2>2, SeqFacts
    <2>8. \A v \in Ids \ Exposed : tickets[v].done => tickets'[v].done
      BY <2>2, <2>7
    <2> QED
      BY <1>1, <1>2, <2>2, <2>3, <2>6, <2>8 DEF LifeInv, Lasting
  <1> QED
    BY <1>3, <1>4, <1>5, <1>6, <1>7, <1>8, <1>9, LifeSteps

LEMMA WireInit == AllInit => WireOK
  BY DEF AllInit, WireOK

LEMMA WireStep ==
    ASSUME WireOK, [AllNext]_all
    PROVE  WireOK'
  <1>1. ASSUME NEW m \in MediaServers, NEW q \in Seq({"log", "end"}),
               wire' = [wire EXCEPT ![m] = q]
        PROVE  WireOK'
    BY <1>1 DEF WireOK
  <1>2. \A m \in MediaServers : wire[m] \in Seq({"log", "end"})
    BY DEF WireOK
  <1>3. CASE UNCHANGED wire
    BY <1>3 DEF WireOK
  <1>4. ASSUME NEW m \in MediaServers, EndCut(m) PROVE WireOK'
    <2>1. /\ wire[m] \o <<"log", "end">> \in Seq({"log", "end"})
          /\ Append(wire[m], "end") \in Seq({"log", "end"})
      BY <1>2
    <2> QED
      BY <1>1, <1>3, <1>4, <2>1 DEF EndCut
  <1>5. ASSUME NEW m \in MediaServers, BreakMedia(m) PROVE WireOK'
    <2>1. PICK n \in 0..Len(wire[m]) : wire' = [wire EXCEPT ![m] = SubSeq(wire[m], 1, n)]
      BY <1>5 DEF BreakMedia
    <2>2. SubSeq(wire[m], 1, n) \in Seq({"log", "end"})
      BY <1>2, SeqFacts
    <2> QED
      BY <1>1, <2>1, <2>2
  <1>6. ASSUME NEW m \in MediaServers, TakeLog(m) \/ TakeEnd(m) PROVE WireOK'
    <2>1. wire' = [wire EXCEPT ![m] = Tail(wire[m])] /\ wire[m] # <<>>
      BY <1>6 DEF TakeLog, TakeEnd
    <2>2. Tail(wire[m]) \in Seq({"log", "end"})
      BY <1>2, <2>1, SeqFacts
    <2> QED
      BY <1>1, <2>1, <2>2
  <1>7. CASE CrashAll
    BY <1>7 DEF CrashAll, WireOK
  <1>8. CASE \/ Registration \/ CountEnd \/ Signal \/ TakeReport \/ FinishOne
             \/ CutSteps \/ DispatchSteps \/ UNCHANGED all
    BY <1>3, <1>8 DEF Registration, CountEnd, Signal, TakeReport, FinishOne, CutSteps,
       StartRound, AskMedia, AskNext, DispatchSteps, CountTickets, Pass, SendTicket,
       WrongMark, all
  <1> QED
    BY <1>4, <1>5, <1>6, <1>7, <1>8 DEF AllNext, MediaSteps, RaknetSteps

\* What the history becomes
LEMMA HistorySteps ==
    ASSUME P!TypeOK, [AllNext]_all
    PROVE  /\ \/ cutlogs' \in {cutlogs, NoLogs}
              \/ \E m \in MediaServers : cutlogs' = [cutlogs EXCEPT ![m] = NoLog]
              \/ \E m \in MediaServers : cutlogs' = [cutlogs EXCEPT ![m] = Due]
              \/ \E m \in MediaServers : TakeLog(m)
           /\ signalled' \in {signalled, cutlogs}
           /\ passing' \in {passing, signalled, NoLogs}
  <1>1. CASE UNCHANGED all
    BY <1>1 DEF all, history
  <1>2. CASE MediaSteps
    BY <1>2 DEF MediaSteps, CrashAll, EndCut, BreakMedia, history
  <1>3. CASE RaknetSteps
    BY <1>3 DEF RaknetSteps, TakeLog, TakeEnd, Registration, CountEnd, Signal, TakeReport,
                FinishOne, history
  <1>4. CASE AskMedia
    <2>1. asking' \in MediaServers
      <3>1. registry \in Seq(MediaServers) /\ pos \in 0..Len(registry) /\ pos < Len(registry)
        BY <1>4 DEF AskMedia, Cut!SendStart, P!TypeOK, P!ListsOK
      <3>2. pos + 1 \in 1..Len(registry)
        BY <3>1, SeqFacts
      <3>3. registry[pos + 1] \in MediaServers
        BY <3>1, <3>2, SeqFacts
      <3> QED
        BY <1>4, <3>3 DEF AskMedia, Cut!SendStart
    <2> QED
      BY <1>4, <2>1 DEF AskMedia
  <1>5. CASE StartRound \/ AskNext
    BY <1>5 DEF StartRound, AskNext, history
  <1>6. CASE DispatchSteps
    BY <1>6 DEF DispatchSteps, CountTickets, Pass, SendTicket, WrongMark, history
  <1> QED
    BY <1>1, <1>2, <1>3, <1>4, <1>5, <1>6 DEF AllNext, CutSteps

LEMMA HistoryInit == AllInit => HistoryOK
  BY DEF AllInit, HistoryOK, LogsOK, NoLogs

LEMMA HistoryStep ==
    ASSUME LifeInv, P!TypeOK, HistoryOK, [AllNext]_all
    PROVE  HistoryOK'
  <1>1. Ids \subseteq Ids' /\ Len(tickets') \in Nat
    BY LifeStep DEF Lasting, Ids
  <1> DEFINE T == {NoLog, Due} \cup Ids'
  <1>2. cutlogs \in [MediaServers -> T] /\ signalled \in [MediaServers -> T]
        /\ passing \in [MediaServers -> T] /\ NoLogs \in [MediaServers -> T]
    BY <1>1 DEF HistoryOK, LogsOK, NoLogs
  <1>3. ASSUME NEW m \in MediaServers, TakeLog(m) PROVE cutlogs' \in [MediaServers -> T]
    <2>1. cutlogs' = [cutlogs EXCEPT ![m] = IF cutlogs[m] = Due THEN Len(tickets')
                                            ELSE cutlogs[m]]
      BY <1>3 DEF TakeLog
    <2>2. Len(tickets') \in T
      <3>1. tickets' = Append(tickets, [spec |-> Single, done |-> FALSE])
        BY <1>3 DEF TakeLog, Enter
      <3>2. Len(tickets') = Len(tickets) + 1 /\ Len(tickets) \in Nat
        BY <3>1 DEF LifeInv
      <3> QED
        BY <3>2 DEF Ids
    <2> QED
      BY <1>2, <2>1, <2>2
  <1>4. cutlogs' \in [MediaServers -> T]
    <2>1. NoLog \in T /\ Due \in T
      OBVIOUS
    <2> HIDE DEF T
    <2> QED
      BY <1>2, <1>3, <2>1, HistorySteps
  <1>5. signalled' \in [MediaServers -> T] /\ passing' \in [MediaServers -> T]
    BY <1>2, HistorySteps
  <1> QED
    BY <1>4, <1>5 DEF HistoryOK, LogsOK

-----------------------------------------------------------------------------
(* The parts in the whole. *)

TypesInv == WireOK /\ LifeInv /\ HistoryOK /\ P!TypeOK

LEMMA TypesCorrect == AllSpec => []TypesInv
  <1>1. AllInit => TypesInv
    <2>1. P!Init => P!TypeOK
      BY P!TypeInit, RoundConstants
    <2> QED
      BY <2>1, SameInit, WireInit, LifeInit, HistoryInit DEF TypesInv, AllInit
  <1>2. TypesInv /\ [AllNext]_all => TypesInv'
    <2> SUFFICES ASSUME TypesInv, [AllNext]_all PROVE TypesInv'
      OBVIOUS
    <2>1. WireOK /\ LifeInv /\ HistoryOK /\ P!TypeOK
      BY DEF TypesInv
    <2>2. [P!Next]_(P!vars)
      BY <2>1, StepOfRound, SameStep
    <2>3. P!TypeOK'
      BY <2>1, <2>2, P!TypeStep, RoundConstants
    <2>4. WireOK' /\ LifeInv' /\ HistoryOK'
      BY <2>1, WireStep, LifeStep, HistoryStep
    <2> QED
      BY <2>3, <2>4 DEF TypesInv
  <1> QED
    BY <1>1, <1>2, PTL DEF AllSpec

(* The rounds of the whole are rounds of module CutRound: media servers     *)
(* that send a log before the end of a cut, and a network thread that also  *)
(* takes logs and reports, add nothing to what a round can do.              *)
THEOREM RoundsInWhole == AllSpec => Cut!Spec
  <1>1. AllInit => Cut!Init
    BY DEF AllInit
  <1>2. TypesInv /\ [AllNext]_all => [Cut!Next]_(Cut!vars)
    BY StepOfRound DEF TypesInv
  <1> QED
    BY <1>1, <1>2, TypesCorrect, PTL DEF AllSpec, Cut!Spec

LEMMA StepOfLife ==
    ASSUME P!TypeOK, [AllNext]_all
    PROVE  [Next]_vars
  <1> SUFFICES Next \/ UNCHANGED vars
    OBVIOUS
  <1>1. CASE CrashAll
    BY <1>1 DEF CrashAll, Next, Servers
  <1>2. ASSUME NEW m \in MediaServers, EndCut(m) \/ BreakMedia(m) \/ TakeEnd(m)
        PROVE  UNCHANGED vars
    BY <1>2 DEF EndCut, BreakMedia, TakeEnd
  <1>3. ASSUME NEW m \in MediaServers, TakeLog(m) PROVE Next
    BY <1>3 DEF TakeLog, Next, Enters
  <1>4. CASE Registration \/ CountEnd \/ AskMedia \/ AskNext \/ UNCHANGED all
    BY <1>4 DEF Registration, CountEnd, AskMedia, AskNext, all
  <1>5. CASE Signal
    <2>1. UNCHANGED life /\ media_cut_over' = (media_cut_over \/ m_count = 0)
      BY <1>5 DEF Signal, Cut!TestCount
    <2>2. CASE m_count = 0
      <3>1. media_cut_over' = TRUE
        BY <2>1, <2>2, Zenon
      <3> QED
        BY <2>1, <3>1 DEF life, Allow, Next, Passes
    <2>3. CASE m_count # 0
      <3>1. media_cut_over \in BOOLEAN
        BY DEF P!TypeOK, P!CountOK
      <3>2. media_cut_over' = media_cut_over
        BY <2>1, <2>3, <3>1, Zenon
      <3> QED
        BY <2>1, <3>2 DEF life, vars
    <2> QED
      BY <2>2, <2>3
  <1>6. CASE StartRound
    <2>1. UNCHANGED life /\ media_cut_over' = TRUE
      BY <1>6 DEF StartRound, Cut!BeginRound
    <2> QED
      BY <2>1 DEF life, Allow, Next, Passes
  <1>7. CASE TakeReport
    BY <1>7 DEF TakeReport, Next, Servers
  <1>8. CASE FinishOne
    BY <1>8 DEF FinishOne, Next
  <1>9. CASE DispatchSteps
    BY <1>9 DEF DispatchSteps, CountTickets, Pass, SendTicket, WrongMark, Next, Passes, Hands
  <1> QED
    BY <1>1, <1>2, <1>3, <1>4, <1>5, <1>6, <1>7, <1>8, <1>9
       DEF AllNext, MediaSteps, RaknetSteps, CutSteps

(* ... and its tickets live as TicketLife says: what Dispatch implements is *)
(* what the whole makes use of.                                             *)
THEOREM TicketsInWhole == AllSpec => Spec
  <1>1. AllInit => Init
    BY DEF AllInit
  <1>2. TypesInv /\ [AllNext]_all => [Next]_vars
    BY StepOfLife DEF TypesInv
  <1> QED
    BY <1>1, <1>2, TypesCorrect, PTL DEF AllSpec, Spec

(* Types of the whole: those of a round, of the connections and of the      *)
(* tickets the history names; the network thread works on a report or on an *)
(* end and never on both (raknet_serv.cpp:95).                              *)
THEOREM WholeTypes == AllSpec => []AllTypeOK
  <1>1. TypesInv => AllTypeOK
    <2> SUFFICES ASSUME TypesInv PROVE AllTypeOK
      OBVIOUS
    <2>1. Cut!TypeOK
      BY DEF TypesInv, P!TypeOK, Cut!TypeOK, P!ListsOK, Cut!ListsOK, P!NetworkOK,
             Cut!NetworkOK, P!CountOK, Cut!CountOK, P!WalkOK, Cut!WalkOK, P!Entries,
             Cut!Entries
    <2> QED
      BY <2>1 DEF TypesInv, WireOK, LifeInv, HistoryOK, LogsOK, AllTypeOK
  <1> QED
    BY <1>1, TypesCorrect, PTL

\* What CutRoundProofs says of its rounds, for those of the whole
LEMMA RoundsCorrect == AllSpec => [](TypesInv /\ P!NoneAsked /\ P!CleanInv)
  <1>1. Cut!Spec => P!Spec
    <2>1. Cut!Init => P!Init
      BY SameInit
    <2>2. [Cut!Next]_(Cut!vars) => [P!Next]_(P!vars)
      BY SameStep
    <2> QED
      BY <2>1, <2>2, PTL DEF Cut!Spec, P!Spec
  <1>2. P!Spec => []P!NoneAsked
    BY P!NoneAskedAlways, RoundConstants
  <1>3. P!Spec => []P!CleanInv
    BY P!CleanCorrect, RoundConstants
  <1> QED
    BY <1>1, <1>2, <1>3, RoundsInWhole, TypesCorrect, PTL

-----------------------------------------------------------------------------
(* A log, from the cut to the pass. *)

\* In a clean round a media server whose log is not in the table yet still owes
\* the end of its cut, and the log comes before that end
DueInv ==
    clean => \A m \in MediaServers :
        cutlogs[m] = Due =>
            /\ m \in owing
            /\ counting = "count" => walk.from # m
            /\ wire[m] # <<>> => Head(wire[m]) = "log"

\* So no log is missing when the round signals, ...
SignalInv == \A m \in MediaServers : signalled[m] # Due

\* ... and all of them are done when the dispatcher has counted
PassInv ==
    stage # "split" =>
        \A m \in MediaServers :
            passing[m] # NoLog =>
                /\ passing[m] \in Ids
                /\ tickets[passing[m]].done \/ passing[m] \in Exposed

RoundInv == P!NoneAsked /\ P!CleanInv

\* Steps that change neither the logs of the round nor what is asked of whom
LEMMA DueSame ==
    ASSUME DueInv, clean' => clean, UNCHANGED <<cutlogs, owing>>,
           counting' = "count" => counting = "count" /\ walk' = walk,
           \A m \in MediaServers :
               wire'[m] # <<>> => wire[m] # <<>> /\ Head(wire'[m]) = Head(wire[m])
    PROVE  DueInv'
  BY DEF DueInv

\* No server owes an end when a clean round signals
LEMMA NobodyOwes ==
    ASSUME P!TypeOK, RoundInv, clean, counting = "test", m_count = 0
    PROVE  owing = {}
  <1>1. P!AsksOnce /\ P!Asking /\ P!OffOne
    BY DEF RoundInv, P!CleanInv
  <1>2. cutting = "idle"
    BY <1>1 DEF P!Asking, P!TypeOK, P!ListsOK
  <1>3. asking = Nobody /\ owing \in SUBSET MediaServers /\ Nobody \notin MediaServers
    BY <1>2, RoundAssumption DEF RoundInv, P!NoneAsked, P!TypeOK, P!CountOK
  <1>4. CASE cutlist = <<>>
    <2>1. DOMAIN cutlist = {}
      BY <1>4
    <2> QED
      BY <1>1, <1>3, <2>1 DEF P!AsksOnce, P!Listed
  <1>5. CASE cutlist # <<>>
    <2>1. P!Cardinality(owing) = 0
      BY <1>1, <1>2, <1>5 DEF P!OffOne
    <2>2. IsFiniteSet(owing)
      BY <1>3, RoundAssumption, FS_Subset
    <2>3. Cardinality(owing) = P!Cardinality(owing)
      BY DEF Cardinality, P!Cardinality
    <2> QED
      BY <2>1, <2>2, <2>3, FS_EmptySet
  <1> QED
    BY <1>4, <1>5

LEMMA DueInit == AllInit => DueInv /\ SignalInv /\ PassInv
  BY DEF AllInit, Init, DueInv, SignalInv, PassInv, NoLogs, NoLog, Due

\* The media server is asked when nothing of an earlier cut is on the way
LEMMA AskDue ==
    ASSUME TypesInv, RoundInv, DueInv, AskMedia
    PROVE  DueInv'
  <1> SUFFICES ASSUME clean' PROVE DueInv'
    BY DEF DueInv
  <1>1. /\ cutting = "send" /\ pos < Len(registry) /\ asking' = registry[pos + 1]
        /\ owing' = owing \cup {asking'} /\ clean /\ asking' \notin owing
        /\ UNCHANGED <<counting, walk, wire>>
        /\ cutlogs' = [cutlogs EXCEPT ![asking'] = Due]
    BY DEF AskMedia, Cut!SendStart, Cut!raknet
  <1>2. asking' \in MediaServers
    <2>1. registry \in Seq(MediaServers) /\ pos \in 0..Len(registry)
      BY DEF TypesInv, P!TypeOK, P!ListsOK
    <2>2. pos + 1 \in 1..Len(registry)
      BY <1>1, <2>1, SeqFacts
    <2> QED
      BY <1>1, <2>1, <2>2, SeqFacts
  <1>3. P!OneEach /\ P!Asking
    BY <1>1 DEF RoundInv, P!CleanInv
  <1>4. counting # "count"
    BY <1>1, <1>3 DEF P!Asking
  <1>5. wire[asking'] # <<>> => Head(wire[asking']) = "log"
    <2> DEFINE q == wire[asking']
               E == {i \in DOMAIN q : q[i] = "end"}
    <2>1. jobs[asking'] \in Nat /\ EndsOf(wire)[asking'] \in Nat
      BY <1>2 DEF TypesInv, P!TypeOK, P!NetworkOK
    <2>2. jobs[asking'] + EndsOf(wire)[asking'] + P!Counted(asking') <= 0
      BY <1>1, <1>2, <1>3 DEF P!OneEach
    <2>3. EndsOf(wire)[asking'] = 0
      BY <1>4, <2>1, <2>2 DEF P!Counted
    <2>4. Cardinality(E) = 0
      BY <1>2, <2>3 DEF EndsOf
    <2>5. q \in Seq({"log", "end"})
      BY <1>2 DEF TypesInv, WireOK
    <2>6. DOMAIN q = 1..Len(q) /\ Len(q) \in Nat
          /\ \A i \in 1..Len(q) : q[i] \in {"log", "end"}
      BY <2>5, SeqFacts
    <2>7. IsFiniteSet(E)
      <3>1. IsFiniteSet(1..Len(q)) /\ E \subseteq 1..Len(q)
        BY <2>6, FS_Interval
      <3> QED
        BY <3>1, FS_Subset
    <2>8. E = {}
      BY <2>4, <2>7, FS_EmptySet
    <2>9. q # <<>> => 1 \in DOMAIN q /\ Head(q) = q[1]
      BY <2>5
    <2> QED
      BY <2>6, <2>8, <2>9
  <1>6. cutlogs \in [MediaServers -> {NoLog, Due} \cup Ids]
    BY DEF TypesInv, HistoryOK, LogsOK
  <1>7. \A m \in MediaServers : m # asking' => cutlogs'[m] = cutlogs[m]
    BY <1>1, <1>6
  <1> QED
    BY <1>1, <1>2, <1>4, <1>5, <1>7 DEF DueInv

LEMMA DueStep ==
    ASSUME TypesInv, RoundInv, DueInv, [AllNext]_all
    PROVE  DueInv'
  <1>1. /\ cutlogs \in [MediaServers -> {NoLog, Due} \cup Ids]
        /\ wire \in [MediaServers -> Seq({"log", "end"})]
        /\ Len(tickets) \in Nat
    BY SeqFacts DEF TypesInv, HistoryOK, LogsOK, WireOK, LifeInv
  <1>2. CASE CrashAll \/ StartRound
    <2>1. cutlogs' = NoLogs
      BY <1>2 DEF CrashAll, StartRound
    <2> QED
      BY <2>1 DEF DueInv, NoLogs, NoLog, Due
  <1>3. ASSUME NEW m \in MediaServers, EndCut(m) PROVE DueInv'
    <2>1. UNCHANGED <<clean, owing, counting, walk>>
      BY <1>3 DEF EndCut, Cut!EndCut, Cut!raknet
    <2>2. /\ \A n \in MediaServers : n # m => wire'[n] = wire[n]
          /\ \A n \in MediaServers : cutlogs'[n] \in {cutlogs[n], NoLog}
          /\ wire'[m] # wire[m] => \/ wire'[m] = wire[m] \o <<"log", "end">>
                                   \/ cutlogs'[m] = NoLog
      BY <1>1, <1>3 DEF EndCut
    <2>3. cutlogs'[m] = Due /\ clean => (wire'[m] # <<>> => Head(wire'[m]) = "log")
      <3> SUFFICES ASSUME cutlogs'[m] = Due, clean, wire'[m] # <<>>
                   PROVE  Head(wire'[m]) = "log"
        OBVIOUS
      <3>1. wire'[m] = wire[m] \/ wire'[m] = wire[m] \o <<"log", "end">>
        BY <2>2 DEF NoLog, Due
      <3>2. wire[m] # <<>> => Head(wire[m]) = "log"
        BY <2>2 DEF DueInv, NoLog, Due
      <3>3. wire[m] \in Seq({"log", "end"})
        BY <1>1
      <3>4. CASE wire[m] = <<>>
        <4>1. wire'[m] = <<>> \o <<"log", "end">>
          BY <3>1, <3>4
        <4>2. wire'[m] = <<"log", "end">>
          BY <4>1
        <4> QED
          BY <4>2
      <3>5. CASE wire[m] # <<>>
        <4>1. Head(wire[m] \o <<"log", "end">>) = Head(wire[m])
          BY <3>3, <3>5
        <4> QED
          BY <3>1, <3>2, <3>5, <4>1
      <3> QED
        BY <3>4, <3>5
    <2> QED
      BY <2>1, <2>2, <2>3 DEF DueInv, NoLog, Due
  <1>4. ASSUME NEW m \in MediaServers, BreakMedia(m) PROVE DueInv'
    <2>1. UNCHANGED <<cutlogs, clean, owing, counting, walk>>
      BY <1>4 DEF BreakMedia, history, Cut!Break, Cut!raknet
    <2>2. PICK k \in 0..Len(wire[m]) : wire' = [wire EXCEPT ![m] = SubSeq(wire[m], 1, k)]
      BY <1>4 DEF BreakMedia
    <2>3. \A n \in MediaServers :
              wire'[n] # <<>> => wire[n] # <<>> /\ Head(wire'[n]) = Head(wire[n])
      <3>1. wire[m] \in Seq({"log", "end"})
        BY <1>1
      <3>2. SubSeq(wire[m], 1, k) # <<>>
              => wire[m] # <<>> /\ Head(SubSeq(wire[m], 1, k)) = Head(wire[m])
        BY <3>1
      <3>3. \A n \in MediaServers :
                wire'[n] = IF n = m THEN SubSeq(wire[m], 1, k) ELSE wire[n]
        BY <1>1, <2>2
      <3> QED
        BY <3>2, <3>3
    <2> QED
      BY <2>1, <2>3, DueSame
  <1>5. ASSUME NEW m \in MediaServers, TakeLog(m) PROVE DueInv'
    <2>1. /\ UNCHANGED <<clean, owing, counting, walk>>
          /\ wire' = [wire EXCEPT ![m] = Tail(wire[m])]
          /\ cutlogs' = [cutlogs EXCEPT ![m] = IF cutlogs[m] = Due THEN Len(tickets')
                                               ELSE cutlogs[m]]
          /\ tickets' = Append(tickets, [spec |-> Single, done |-> FALSE])
      BY <1>5 DEF TakeLog, rounds, Enter
    <2>2. cutlogs'[m] # Due
      <3>1. Len(tickets') \in Nat
        BY LifeStep DEF TypesInv, Lasting
      <3> QED
        BY <1>1, <2>1, <3>1 DEF Due
    <2>3. \A n \in MediaServers : n # m => wire'[n] = wire[n] /\ cutlogs'[n] = cutlogs[n]
      BY <1>1, <2>1
    <2> QED
      BY <2>1, <2>2, <2>3 DEF DueInv
  <1>6. ASSUME NEW m \in MediaServers, TakeEnd(m) PROVE DueInv'
    <2> SUFFICES ASSUME clean' PROVE DueInv'
      BY DEF DueInv
    <2>1. /\ clean /\ owing' = owing /\ cutlogs' = cutlogs /\ walk'.from = m
          /\ wire' = [wire EXCEPT ![m] = Tail(wire[m])]
          /\ wire[m] # <<>> /\ Head(wire[m]) = "end"
      BY <1>6 DEF TakeEnd, Cut!WalkAsM
    <2>2. cutlogs[m] # Due
      BY <2>1 DEF DueInv
    <2>3. \A n \in MediaServers : n # m => wire'[n] = wire[n]
      BY <1>1, <2>1
    <2> QED
      BY <2>1, <2>2, <2>3 DEF DueInv
  <1>7. CASE CountEnd
    <2>1. /\ UNCHANGED <<clean, cutlogs, wire>> /\ owing' = owing \ {walk.from}
          /\ counting = "count" /\ counting' = "test"
      BY <1>7 DEF CountEnd, history, Cut!CountOff
    <2> QED
      BY <2>1 DEF DueInv
  <1>8. CASE AskMedia
    BY <1>8, AskDue
  <1>9. CASE Registration
    <2>1. UNCHANGED <<clean, cutlogs, owing, wire>>
      BY <1>9 DEF Registration, history, Cut!M2CJoin, Cut!LostConn, Cut!EraseEntry
    <2>2. counting' = "count" => counting = "count" /\ walk' = walk
      BY <1>9 DEF Registration, Cut!M2CJoin, Cut!LostConn, Cut!StartErasing,
                  Cut!EraseEntry, Cut!raknet
    <2> QED
      BY <2>1, <2>2, DueSame
  <1>10. CASE \/ Signal \/ TakeReport \/ FinishOne \/ AskNext \/ DispatchSteps
              \/ UNCHANGED all
    <2>1. UNCHANGED <<clean, cutlogs, owing, wire>>
      BY <1>10 DEF Signal, TakeReport, FinishOne, AskNext, DispatchSteps, CountTickets,
         Pass, SendTicket, WrongMark, all, rounds, history, Cut!TestCount, Cut!ListStart,
         Cut!SetCount
    <2>2. counting' = "count" => counting = "count" /\ walk' = walk
      BY <1>10 DEF Signal, TakeReport, FinishOne, AskNext, DispatchSteps, CountTickets,
         Pass, SendTicket, WrongMark, all, rounds, Cut!TestCount, Cut!ListStart, Cut!SetCount,
         Cut!raknet
    <2> QED
      BY <2>1, <2>2, DueSame
  <1> QED
    BY <1>2, <1>3, <1>4, <1>5, <1>6, <1>7, <1>8, <1>9, <1>10
       DEF AllNext, MediaSteps, RaknetSteps, CutSteps

LEMMA SignalStep ==
    ASSUME TypesInv, RoundInv, DueInv, SignalInv, [AllNext]_all
    PROVE  SignalInv'
  <1>1. CASE signalled' = signalled
    BY <1>1 DEF SignalInv
  <1>2. CASE Signal
    <2>1. CASE clean /\ m_count = 0
      <3>1. signalled' = cutlogs /\ counting = "test"
        BY <1>2, <2>1 DEF Signal, Cut!TestCount
      <3>2. owing = {}
        BY <2>1, <3>1, NobodyOwes DEF TypesInv
      <3> QED
        BY <2>1, <3>1, <3>2 DEF DueInv, SignalInv
    <2>2. CASE ~(clean /\ m_count = 0)
      BY <1>1, <1>2, <2>2 DEF Signal
    <2> QED
      BY <2>1, <2>2
  <1>3. Signal \/ signalled' = signalled
    BY DEF AllNext, MediaSteps, RaknetSteps, CutSteps, DispatchSteps, CrashAll, EndCut,
           BreakMedia, TakeLog, TakeEnd, Registration, CountEnd, TakeReport, FinishOne,
           StartRound, AskMedia, AskNext, CountTickets, Pass, SendTicket, WrongMark, all,
           history
  <1> QED
    BY <1>1, <1>2, <1>3

LEMMA PassStep ==
    ASSUME TypesInv, SignalInv, PassInv, [AllNext]_all
    PROVE  PassInv'
  <1>1. /\ \A m \in MediaServers : signalled[m] \in {NoLog, Due} \cup Ids
        /\ \A w \in Ids : tickets[w] \in TicketOK
    BY SeqFacts DEF TypesInv, HistoryOK, LogsOK, LifeInv, Ids
  <1>2. \A w \in Ids : w \in Ids' /\ (tickets[w].done => tickets'[w].done \/ w \in Exposed)
    BY LifeStep DEF TypesInv, Lasting, Ids
  <1>3. CASE UNCHANGED <<stage, passing>>
    BY <1>2, <1>3 DEF PassInv
  <1>4. CASE CountTickets
    <2>1. Singles \cap Undone = {} /\ passing' = signalled /\ tickets' = tickets
      BY <1>4 DEF CountTickets, Count
    <2>2. \A w \in Ids : tickets[w].done
      BY <1>1, <2>1 DEF Singles, Undone, TicketOK
    <2>3. \A m \in MediaServers : signalled[m] # NoLog => signalled[m] \in Ids
      BY <1>1 DEF SignalInv
    <2> QED
      BY <1>2, <2>1, <2>2, <2>3 DEF PassInv
  <1>5. CASE Pass
    <2>1. CASE stage' = "split"
      BY <2>1 DEF PassInv
    <2>2. CASE stage' # "split"
      <3>1. stage = "counted" /\ passing' = passing
        BY <1>5, <2>2 DEF Pass, OpenPass, ClosePass, EndPass
      <3> QED
        BY <1>2, <3>1 DEF PassInv
    <2> QED
      BY <2>1, <2>2
  <1>6. CASE CrashAll
    BY <1>6 DEF CrashAll, Crash, PassInv
  <1>7. CASE WrongMark
    <2>1. CASE stage' = "split"
      BY <2>1 DEF PassInv
    <2>2. CASE stage' # "split"
      <3>1. stage' = stage /\ passing' = passing
        BY <1>7, <2>2 DEF WrongMark, TakeBack, EndPass
      <3> QED
        BY <1>3, <3>1
    <2> QED
      BY <2>1, <2>2
  <1>8. CountTickets \/ Pass \/ WrongMark \/ CrashAll \/ UNCHANGED <<stage, passing>>
    BY DEF AllNext, MediaSteps, RaknetSteps, CutSteps, DispatchSteps, EndCut, BreakMedia,
           TakeLog, TakeEnd, Registration, CountEnd, Signal, TakeReport, FinishOne,
           StartRound, AskMedia, AskNext, SendTicket, all, history, vars, life, Enter,
           Report, Finish, HandOut
  <1> QED
    BY <1>3, <1>4, <1>5, <1>6, <1>7, <1>8

(* In a merge pass every log that was cut in the last round that signalled  *)
(* before the dispatcher counted is in the table and finished, for every    *)
(* number of media servers and tickets, and over crashes and losses: the    *)
(* order of a connection, m_count and the count of unfinished rows          *)
(* (raknet_serv.cpp:245, main.cpp:452) work together.                       *)
THEOREM CutLogsAreSplit == AllSpec => []CutLogsSplit
  <1> DEFINE Known == TypesInv /\ P!NoneAsked /\ P!CleanInv
             IInv == DueInv /\ SignalInv /\ PassInv
  <1>1. AllInit => IInv
    BY DueInit
  <1>2. Known /\ IInv /\ [AllNext]_all => IInv'
    BY DueStep, SignalStep, PassStep DEF RoundInv
  <1>3. Known /\ IInv => CutLogsSplit
    BY DEF TypesInv, LifeInv, Ids, PassInv, CutLogsSplit, Due
  <1>4. AllSpec => []Known
    BY RoundsCorrect
  <1> QED
    BY <1>1, <1>2, <1>3, <1>4, PTL DEF AllSpec
=============================================================================
