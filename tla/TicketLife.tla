----------------------------- MODULE TicketLife -----------------------------
(***************************************************************************)
(* What the control server promises of its tickets, whatever the threads   *)
(* and the database do to keep it: a media server's log is entered once,   *)
(* handed to log servers and, when one of them has reported it, done for   *)
(* good (the tickets that updatadb can hit by mistake excepted); logs that *)
(* were split are merged in passes, in batches of at least two of one      *)
(* spec, and a pass begins when the dispatcher has found every media       *)
(* server's log done and media_cut_over is set.                            *)
(*                                                                         *)
(* Module Dispatch implements it, with rows in a table, statements of      *)
(* three threads and a registry of servers.  Module ControlServer puts it  *)
(* together with the rounds of cutting that set media_cut_over.            *)
(***************************************************************************)
EXTENDS Integers, Sequences

CONSTANTS
    LogServers,
    NumSpec,        \* merge specs run from 0 to NumSpec - 1
    Misreads,       \* acknowledgements are read as reports
    Exposed,        \* tickets that updatadb may take for the ones it sent
    MaxTickets      \* bound: tickets

ASSUME LifeAssumption ==
    /\ NumSpec \in Nat /\ MaxTickets \in Nat
    /\ Misreads \in BOOLEAN
    /\ Exposed \subseteq Nat

VARIABLES
    tickets,        \* the logs that were entered, in order
    held,           \* the tickets each log server holds and has not reported
    reported,       \* those of the report that is being worked on
    stage,          \* dispatcher: "split", "counted" or "merge"
    counted,        \* dispatcher: tickets there were when it counted
    media_cut_over

vars == <<tickets, held, reported, stage, counted, media_cut_over>>

Single == -1        \* a media server's log, not split yet
Ids == 1..Len(tickets)
Singles == {w \in Ids : tickets[w].spec = Single}
Undone == {w \in Ids : ~tickets[w].done}

Init ==
    /\ tickets = <<>>
    /\ held = [l \in LogServers |-> {}]
    /\ reported = {}
    /\ stage = "split" /\ counted = 0
    /\ media_cut_over = FALSE
-----------------------------------------------------------------------------
\* a new log of a media server, or one that a log server has made
Enter(sp) ==
    /\ Len(tickets) < MaxTickets
    /\ tickets' = Append(tickets, [spec |-> sp, done |-> FALSE])
    /\ UNCHANGED <<held, reported, stage, counted, media_cut_over>>

\* A log server gets a log to split, perhaps not for the first time
HandOut(l, w) ==
    /\ stage = "split"
    /\ w \in Singles
    /\ held' = [held EXCEPT ![l] = @ \cup {w}]
    /\ UNCHANGED <<tickets, reported, stage, counted, media_cut_over>>

\* ... or logs of one spec to merge
HandBatch(l, batch) ==
    /\ stage = "merge"
    /\ batch \subseteq Ids \ Singles
    /\ \A v, w \in batch : tickets[v].spec = tickets[w].spec
    /\ \E v, w \in batch : v # w
    /\ held' = [held EXCEPT ![l] = @ \cup batch]
    /\ UNCHANGED <<tickets, reported, stage, counted, media_cut_over>>

\* A log server reports tickets it holds
Report(l, S) ==
    /\ reported = {}
    /\ S # {} /\ S \subseteq held[l]
    /\ held' = [held EXCEPT ![l] = @ \ S]
    /\ reported' = S
    /\ UNCHANGED <<tickets, stage, counted, media_cut_over>>

Misread(S) ==
    /\ Misreads
    /\ reported = {}
    /\ S \subseteq Ids
    /\ reported' = S
    /\ UNCHANGED <<tickets, held, stage, counted, media_cut_over>>

Finish(w) ==
    /\ w \in reported
    /\ tickets' = [tickets EXCEPT ![w] = [@ EXCEPT !.done = TRUE]]
    /\ reported' \in {reported, reported \ {w}}
    /\ UNCHANGED <<held, stage, counted, media_cut_over>>

\* The dispatcher leaves the pass: it had no more batch, or has sent the last
EndPass == stage = "merge" /\ stage' = "split" /\ counted' = 0

\* A ticket that was marked by mistake may be to do again, as sent or as waiting
TakeBack(w) ==
    /\ w \in Exposed
    /\ tickets' = [tickets EXCEPT ![w] = [@ EXCEPT !.done = FALSE]]
    /\ UNCHANGED <<stage, counted>> \/ EndPass
    /\ UNCHANGED <<held, reported, media_cut_over>>

\* The log server goes down and forgets its tickets
Lose(l) ==
    /\ held' = [held EXCEPT ![l] = {}]
    /\ UNCHANGED <<tickets, reported, stage, counted, media_cut_over>>

\* A round of cutting begins or ends
Allow ==
    /\ media_cut_over' = TRUE
    /\ UNCHANGED <<tickets, held, reported, stage, counted>>

\* Mutant: waiting tickets that are with a log server do not count
CountUnheld ==
    /\ stage = "split"
    /\ Singles \cap Undone \subseteq UNION {held[l] : l \in LogServers}
    /\ stage' = "counted" /\ counted' = Len(tickets)
    /\ UNCHANGED <<tickets, held, reported, media_cut_over>>

\* The dispatcher finds no undone log of a media server
Count ==
    /\ stage = "split"
    /\ Singles \cap Undone = {}
    /\ stage' = "counted" /\ counted' = Len(tickets)
    /\ UNCHANGED <<tickets, held, reported, media_cut_over>>

OpenPass ==
    /\ stage = "counted"
    /\ media_cut_over' = FALSE
    /\ IF media_cut_over /\ NumSpec > 0
       THEN stage' = "merge" /\ UNCHANGED counted
       ELSE stage' = "split" /\ counted' = 0
    /\ UNCHANGED <<tickets, held, reported>>

ClosePass ==
    /\ EndPass
    /\ UNCHANGED <<tickets, held, reported, media_cut_over>>

\* The process ends and is started again: what it was told is lost
Crash ==
    /\ reported' = {}
    /\ stage' = "split" /\ counted' = 0
    /\ media_cut_over' = FALSE
    /\ UNCHANGED <<tickets, held>>
-----------------------------------------------------------------------------
Servers == \/ \E l \in LogServers : Lose(l) \/ \E S \in SUBSET held[l] : Report(l, S)
           \/ Misreads /\ \E S \in SUBSET Ids : Misread(S)
           \/ Crash
Enters == \E sp \in {Single} \cup 0..NumSpec - 1 : Enter(sp)
Hands == \/ \E l \in LogServers, w \in Singles : HandOut(l, w)
         \/ \E l \in LogServers : \E batch \in SUBSET (Ids \ Singles) : HandBatch(l, batch)
Passes == Allow \/ Count \/ OpenPass \/ ClosePass
Next == Servers \/ Enters \/ Hands \/ Passes
        \/ (\E w \in reported : Finish(w)) \/ (\E w \in Ids : TakeBack(w))
Spec == Init /\ [][Next]_vars
=============================================================================
