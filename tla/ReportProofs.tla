---------------------------- MODULE ReportProofs ----------------------------
(***************************************************************************)
(* The report, for every set of servers and every number of overlapping    *)
(* refreshes and restarts.                                                 *)
(***************************************************************************)
EXTENDS Report, ListLemmas

Active(p) == pc[p] \notin {"idle", "assign"}
\* nothing has come between the steps of p's refresh
Undisturbed(p) == overlaps = 0 \/ quiet[p]

\* A refresh that is undisturbed is the only one that runs
AloneInv ==
    /\ \A p, q \in Refreshers :
        Active(p) /\ Active(q) /\ Undisturbed(p) => p = q
    /\ fresh => \A p \in Refreshers : ~ Active(p)

\* The file has no bytes while an undisturbed refresh saves
EmptyInv ==
    /\ \A p \in Refreshers :
        pc[p] \in {"write", "writenew"} /\ Undisturbed(p) => file = Empty
    /\ overlaps = 0 /\ restarts = 0 /\ file = Empty =>
        \E p \in Refreshers : pc[p] \in {"write", "writenew"}

\* The nodes of times, and the end of the document
TimesOf(p) ==
    /\ ~ doc[p].tail
    /\ pc[p] \in {"save", "write", "media", "logs"} => doc[p].times = 0
    /\ pc[p] = "update" => file.times <= 0
    /\ pc[p] \in {"savenew", "writenew"} => doc[p].times <= 1
TimesInv ==
    overlaps = 0 =>
        file.times <= 1 /\ ~ file.tail /\ \A p \in Refreshers : TimesOf(p)

\* The nodes of the servers, in a refresh that nothing has come between
PictureOf(p) ==
    /\ pc[p] \in {"save", "write", "media"} => Len(doc[p].media) <= MaxLeft
    /\ pc[p] \in {"save", "write", "media", "logs"} => Len(doc[p].logs) <= MaxLeft
    /\ pc[p] = "update" => Len(file.media) <= MaxLeft /\ Len(file.logs) <= MaxLeft
    /\ pc[p] \in {"logs", "savenew", "writenew"} => Pictures(doc[p].media, MediaNodes)
    /\ pc[p] \in {"savenew", "writenew"} => Pictures(doc[p].logs, LogNodes)
PictureInv == \A p \in Refreshers : quiet[p] => PictureOf(p)

ReportInv == /\ TypeOK /\ AloneInv /\ EmptyInv /\ TimesInv /\ PictureInv
             /\ FreshIsPicture /\ ExitHasCause
-----------------------------------------------------------------------------
(* Nodes                                                                    *)

LEMMA SuffixOfConcat ==
    ASSUME NEW S, NEW s \in Seq(S), NEW t \in Seq(S)
    PROVE  s \o t \in Seq(S) /\ IsSuffix(t, s \o t) /\ Len(s \o t) = Len(s) + Len(t)
  <1> DEFINE c == s \o t
  <1>1. Len(s) \in Nat /\ Len(t) \in Nat
    BY LenProperties
  <1>2. /\ c \in Seq(S) /\ Len(c) = Len(s) + Len(t)
        /\ \A i \in 1..Len(s) + Len(t) : c[i] = IF i <= Len(s) THEN s[i] ELSE t[i - Len(s)]
    BY ConcatProperties
  <1> HIDE DEF c
  <1> DEFINE r == Reverse(t)
             q == Reverse(c)
  <1>3. /\ r = [i \in 1..Len(t) |-> t[Len(t) - i + 1]]
        /\ q = [i \in 1..Len(c) |-> c[Len(c) - i + 1]]
    BY DEF Reverse
  <1>4. /\ \A i \in 1..Len(t) : t[i] \in S
        /\ \A i \in 1..Len(c) : c[i] \in S
    BY <1>2, ElementOfSeq
  <1>5. r \in Seq(S) /\ Len(r) = Len(t) /\ q \in Seq(S) /\ Len(q) = Len(c)
    <2>1. r \in [1..Len(t) -> S] /\ q \in [1..Len(c) -> S]
      BY <1>1, <1>2, <1>3, <1>4
    <2> HIDE DEF r, q
    <2>2. Len(c) \in Nat
      BY <1>1, <1>2
    <2>3. r \in Seq(S) /\ q \in Seq(S)
      <3>1. \A n \in Nat : [1..n -> S] \subseteq Seq(S)
        BY SeqDef
      <3> QED
        BY <1>1, <2>1, <2>2, <3>1
    <2>4. /\ Len(r) \in Nat /\ 1..Len(r) = 1..Len(t)
          /\ Len(q) \in Nat /\ 1..Len(q) = 1..Len(c)
      BY <2>1, <2>3, LenProperties
    <2> QED
      BY <1>1, <2>2, <2>3, <2>4
  <1>6. ASSUME NEW i \in 1..Len(t) PROVE r[i] = q[i]
    <2>1. /\ Len(c) - i + 1 \in 1..Len(s) + Len(t) /\ i \in 1..Len(c)
          /\ ~ (Len(c) - i + 1 <= Len(s)) /\ Len(c) - i + 1 - Len(s) = Len(t) - i + 1
      BY <1>1, <1>2
    <2>2. c[Len(c) - i + 1] = t[Len(t) - i + 1]
      BY <1>2, <2>1
    <2> QED
      BY <1>3, <2>1, <2>2
  <1> HIDE DEF r, q
  <1>7. SubSeq(r, 1, Len(r)) = SubSeq(q, 1, Len(r))
    <2>1. /\ \A i \in 1..Len(r) : r[i] \in S /\ q[i] \in S
          /\ 1 \in Int /\ Len(r) \in Int
      BY <1>1, <1>2, <1>5, ElementOfSeq
    <2>2. /\ SubSeq(r, 1, Len(r)) \in Seq(S) /\ SubSeq(q, 1, Len(r)) \in Seq(S)
          /\ Len(SubSeq(r, 1, Len(r))) = Len(SubSeq(q, 1, Len(r)))
          /\ Len(SubSeq(r, 1, Len(r))) = Len(r)
          /\ \A i \in 1..Len(r) : SubSeq(r, 1, Len(r))[i] = r[i]
          /\ \A i \in 1..Len(r) : SubSeq(q, 1, Len(r))[i] = q[i]
      BY <1>1, <1>5, <2>1, SubSeqProperties
    <2> QED
      BY <1>5, <1>6, <2>2, SeqEqual
  <1>8. IsPrefix(r, q)
    BY <1>1, <1>2, <1>5, <1>7 DEF IsPrefix
  <1> QED
    BY <1>2, <1>8 DEF IsSuffix, r, q, c

\* The walk that deletes leaves no more than MaxLeft nodes
LEMMA LeftIsShort ==
    ASSUME NEW S, NEW s \in Seq(S), NEW l \in Left(s)
    PROVE  l \in Seq(S) /\ Len(l) <= MaxLeft
  <1>1. Len(s) \in Nat /\ MaxLeft \in Nat
    BY LenProperties, ReportAssumption
  <1>2. CASE l = <<>>
    BY <1>1, <1>2, EmptySeq
  <1>3. ASSUME NEW n \in Larger(Len(s) - MaxLeft, 1) + 1..Len(s),
               l = SubSeq(s, n, Len(s))
        PROVE  l \in Seq(S) /\ Len(l) <= MaxLeft
    <2>1. /\ n \in Int /\ n <= Len(s) /\ n >= 2 /\ n > Len(s) - MaxLeft
      BY <1>1 DEF Larger
    <2>2. \A i \in n..Len(s) : s[i] \in S
      BY <1>1, <2>1, ElementOfSeq
    <2>3. l \in Seq(S) /\ Len(l) = IF n <= Len(s) THEN Len(s) - n + 1 ELSE 0
      BY <1>1, <1>3, <2>1, <2>2, SubSeqProperties
    <2> QED
      BY <1>1, <2>1, <2>3
  <1> QED
    BY <1>2, <1>3 DEF Left

\* What a walk over the list collects: entries of the list that are in S
LEMMA InListIs ==
    ASSUME NEW T, ML_list \in Seq(T), NEW S
    PROVE  InList(S) \in Seq(S \cap T)
  <1> DEFINE n == Len(ML_list)
             Found == S \cap T
             Loop(f) == f = [i \in 0..n |-> IF i = 0 THEN <<>>
                                           ELSE IF ML_list[i] \in S
                                                THEN Append(f[i - 1], ML_list[i])
                                           ELSE f[i - 1]]
             upto == CHOOSE f : Loop(f)
             wrong == {i \in 0..n : upto[i] \notin Seq(Found)}
  <1>1. n \in Nat /\ \A i \in 1..n : ML_list[i] \in T
    BY LenProperties, ElementOfSeq
  <1>2. InList(S) = upto[n]
    BY DEF InList
  <1> HIDE DEF n
  <1>3. \E f : Loop(f)
    <2> DEFINE Defined(q, A, m) ==
                   \E f : f = [i \in 0..m |-> IF i = 0 THEN <<>>
                                              ELSE IF q[i] \in A THEN Append(f[i - 1], q[i])
                                              ELSE f[i - 1]]
    <2>1. \A q, A : \A m \in Nat : Defined(q, A, m)
      BY LoopDefined, Zenon
    <2> HIDE DEF Defined
    <2>2. Defined(ML_list, S, n)
      BY <1>1, <2>1, Zenon
    <2> QED BY <2>2, Zenon DEF Defined
  <1>4. Loop(upto)
    <2> HIDE DEF Loop
    <2> QED BY <1>3, Zenon
  <1> HIDE DEF upto
  <1>5. upto[0] = <<>>
    BY <1>1, <1>4
  <1>6. ASSUME NEW i \in 1..n
        PROVE  upto[i] = IF ML_list[i] \in S THEN Append(upto[i - 1], ML_list[i])
                         ELSE upto[i - 1]
    <2>1. i \in 0..n /\ i # 0
      BY <1>1
    <2> QED BY <1>4, <2>1, Zenon
  <1> HIDE DEF Loop
  <1>7. \A i \in 1..n : ML_list[i] \in S => ML_list[i] \in Found
    BY <1>1
  <1> HIDE DEF Found
  <1>8. wrong = {}
    <2>1. SUFFICES ASSUME wrong # {} PROVE FALSE
      OBVIOUS
    <2>2. wrong \in SUBSET Nat
      BY <1>1
    <2>3. PICK i \in wrong : \A j \in wrong : i <= j
      BY <2>1, <2>2, LeastOf, Zenon
    <2>4. i \in 1..n /\ i - 1 \in 0..n /\ ~ (i <= i - 1)
      <3>1. upto[0] \in Seq(Found)
        BY <1>5, EmptySeq
      <3> QED BY <1>1, <2>3, <3>1
    <2>5. upto[i - 1] \in Seq(Found)
      BY <2>3, <2>4
    <2>6. upto[i] \in Seq(Found)
      <3>1. CASE ML_list[i] \in S
        <4>1. ML_list[i] \in Found /\ upto[i] = Append(upto[i - 1], ML_list[i])
          BY <1>6, <1>7, <2>4, <3>1
        <4> QED BY <2>5, <4>1, AppendProperties
      <3>2. CASE ML_list[i] \notin S
        BY <1>6, <2>4, <2>5, <3>2
      <3> QED BY <3>1, <3>2
    <2> QED BY <2>3, <2>6
  <1> QED BY <1>1, <1>2, <1>8 DEF Found

\* The nodes that updata_xml adds
LEMMA NodesAreSeqs ==
    ASSUME TypeOK
    PROVE  /\ MediaNodes \in Seq(MediaNode) /\ LogNodes \in Seq(LogNode)
           /\ ToSet(InList(MediaServers)) \subseteq MediaServers
  <1> DEFINE m == InList(MediaServers)
             l == InList(LogServers)
  <1>1. m \in Seq(MediaServers \cap Servers) /\ l \in Seq(LogServers \cap Servers)
    BY InListIs DEF TypeOK
  <1> HIDE DEF m, l
  <1>2. /\ Len(m) \in Nat /\ \A i \in 1..Len(m) : m[i] \in MediaServers
        /\ Len(l) \in Nat /\ \A i \in 1..Len(l) : l[i] \in LogServers
    BY <1>1, LenProperties, ElementOfSeq
  <1>3. MediaNodes \in [1..Len(m) -> MediaNode]
    BY <1>2 DEF MediaNodes, MediaNode, m
  <1>4. LogNodes \in [1..Len(l) -> LogNode]
    BY <1>2 DEF LogNodes, LogNode, NumberOf, l
  <1>5. MediaNodes \in Seq(MediaNode) /\ LogNodes \in Seq(LogNode)
    <2>1. \A S : \A n \in Nat : [1..n -> S] \subseteq Seq(S)
      BY SeqDef
    <2> QED
      BY <1>2, <1>3, <1>4, <2>1
  <1>6. ToSet(m) \subseteq MediaServers
    BY <1>2 DEF ToSet
  <1> QED
    BY <1>5, <1>6 DEF m

LEMMA SameNodes ==
    ASSUME UNCHANGED registry
    PROVE  MediaNodes' = MediaNodes /\ LogNodes' = LogNodes
  <1>1. UNCHANGED <<ML_list, media_cut_over, jobs>>
    BY DEF registry
  <1>2. \A S : InList(S)' = InList(S)
    <2> DEFINE In(q, S) == LET upto[i \in 0..Len(q)] ==
                                   IF i = 0 THEN <<>>
                                   ELSE IF q[i] \in S THEN Append(upto[i - 1], q[i])
                                   ELSE upto[i - 1]
                           IN  upto[Len(q)]
    <2>1. \A S : InList(S) = In(ML_list, S) /\ InList(S)' = In(ML_list', S)
      BY Zenon DEF InList
    <2> HIDE DEF In
    <2> QED
      BY <1>1, <2>1, Zenon
  <1>3. MediaNodes' = MediaNodes
    BY <1>1, <1>2, Zenon DEF MediaNodes
  <1>4. LogNodes' = LogNodes
    BY <1>1, <1>2, Zenon DEF LogNodes
  <1> QED
    BY <1>3, <1>4
-----------------------------------------------------------------------------
(* Types                                                                    *)

LEMMA NoTimesType == NoTimes \in Document /\ [NoTimes EXCEPT !.times = 1] \in Document
  <1>1. <<>> \in Seq(MediaNode) /\ <<>> \in Seq(LogNode)
    BY EmptySeq
  <1> QED
    BY <1>1 DEF NoTimes, Document

LEMMA LoadedDocument ==
    ASSUME TypeOK, NEW d \in Loaded
    PROVE  /\ file # Empty /\ d \in Document
           /\ d.media = file.media /\ d.logs = file.logs /\ d.times = file.times
           /\ d.tail => file.tail
  <1>1. file # Empty /\ file \in Document
    BY DEF Loaded, TypeOK
  <1>2. CASE d = file
    BY <1>1, <1>2
  <1>3. CASE d = [file EXCEPT !.tail = FALSE]
    BY <1>1, <1>3 DEF Document
  <1> QED
    BY <1>1, <1>2, <1>3 DEF Loaded

LEMMA ClearedDocument ==
    ASSUME NEW d \in Document, NEW c \in Clear(d)
    PROVE  /\ c \in Document /\ Len(c.media) <= MaxLeft /\ Len(c.logs) <= MaxLeft
           /\ c.times = IF d.times = 0 THEN 0 ELSE d.times - 1
           /\ c.tail = d.tail
  <1>1. PICK ml \in Left(d.media) \X Left(d.logs) :
            c = [media |-> ml[1], logs |-> ml[2],
                 times |-> IF d.times = 0 THEN 0 ELSE d.times - 1, tail |-> d.tail]
    BY DEF Clear
  <1>2. /\ ml[1] \in Seq(MediaNode) /\ Len(ml[1]) <= MaxLeft
        /\ ml[2] \in Seq(LogNode) /\ Len(ml[2]) <= MaxLeft
    BY LeftIsShort DEF Document
  <1> QED
    BY <1>1, <1>2 DEF Document

LEMMA InsertedDocument ==
    ASSUME TypeOK, NEW d \in Document
    PROVE  /\ d.media \o MediaNodes \in Seq(MediaNode)
           /\ d.logs \o LogNodes \in Seq(LogNode)
  <1>1. d.media \in Seq(MediaNode) /\ d.logs \in Seq(LogNode)
    BY DEF Document
  <1> QED
    BY <1>1, NodesAreSeqs, ConcatProperties

LEMMA InitTypes == Init => TypeOK
  <1> SUFFICES ASSUME Init PROVE TypeOK
    OBVIOUS
  <1>1. ML_list \in Seq(Servers)
    BY EmptySeq DEF Init
  <1>2. quiet \in [Refreshers -> BOOLEAN] /\ fresh \in BOOLEAN
    BY Zenon DEF Init
  <1> QED
    BY <1>1, <1>2, NoTimesType DEF Init, TypeOK

\* The history variables, whichever way a handler leaves them
LEMMA HistoryTypes ==
    ASSUME TypeOK, Touch \/ \E p \in Refreshers : Begins(p)
    PROVE  quiet' \in [Refreshers -> BOOLEAN] /\ fresh' \in BOOLEAN /\ overlaps' \in Nat
  <1>1. CASE Touch
    <2>1. quiet' = [p \in Refreshers |-> FALSE] /\ fresh' = FALSE /\ overlaps' = overlaps
      BY <1>1 DEF Touch
    <2>2. quiet' \in [Refreshers -> BOOLEAN]
      BY <2>1, Zenon
    <2> QED
      BY <2>1, <2>2 DEF TypeOK
  <1>2. ASSUME NEW p \in Refreshers, Begins(p)
        PROVE  quiet' \in [Refreshers -> BOOLEAN] /\ fresh' \in BOOLEAN /\ overlaps' \in Nat
    <2> DEFINE alone == \A q \in Refreshers \ {p} : pc[q] \in {"idle", "assign"}
    <2>1. /\ quiet' = [q \in Refreshers |-> q = p /\ alone] /\ fresh' = FALSE
          /\ overlaps' = IF alone THEN overlaps ELSE overlaps + 1
      BY <1>2 DEF Begins
    <2> HIDE DEF alone
    <2>2. quiet' \in [Refreshers -> BOOLEAN]
      BY <2>1, Zenon
    <2>3. overlaps' \in Nat
      <3>1. overlaps \in Nat
        BY DEF TypeOK
      <3> QED
        BY <2>1, <3>1
    <2>4. fresh' \in BOOLEAN
      BY <2>1
    <2> QED
      BY <2>2, <2>3, <2>4, Zenon
  <1> QED
    BY <1>1, <1>2

LEMMA RefreshTypes ==
    ASSUME TypeOK, NEW p \in Refreshers, refresh(p)
    PROVE  TypeOK'
  <1>1. /\ doc \in [Refreshers -> Document] /\ doc[p] \in Document
        /\ pc \in [Refreshers -> {"idle", "clear", "save", "write", "update", "media",
                                  "logs", "savenew", "writenew", "assign"}]
        /\ UNCHANGED <<registry, restarts>>
    BY DEF TypeOK, refresh, ExitOnLoad, clear_xml, ClearCrash, updata_xml, InsertMedia,
          InsertLogs, OpenToWrite, WriteCleared, WriteUpdated
  <1>2. /\ pc' \in [Refreshers -> {"idle", "clear", "save", "write", "update", "media",
                                   "logs", "savenew", "writenew", "assign"}]
        /\ dead' \in {"no", "load", "freed", "walk"}
    BY <1>1 DEF TypeOK, refresh, ExitOnLoad, clear_xml, ClearCrash, updata_xml, InsertMedia,
          InsertLogs, OpenToWrite, WriteCleared, WriteUpdated, Go
  <1>3. quiet' \in [Refreshers -> BOOLEAN] /\ fresh' \in BOOLEAN /\ overlaps' \in Nat
    <2>1. quiet \in [Refreshers -> BOOLEAN] /\ fresh \in BOOLEAN /\ overlaps \in Nat
      BY DEF TypeOK
    <2>2. /\ quiet' = quiet /\ overlaps' = overlaps
          /\ fresh' = fresh \/ fresh' = quiet[p]
      BY DEF refresh, ExitOnLoad, clear_xml, ClearCrash, updata_xml, InsertMedia,
            InsertLogs, OpenToWrite, WriteCleared, WriteUpdated, history
    <2>3. fresh' \in BOOLEAN
      BY <2>1, <2>2, Zenon
    <2> QED
      BY <2>1, <2>2, <2>3, Zenon
  <1>4. doc' \in [Refreshers -> Document]
    <2>1. CASE UNCHANGED doc
      BY <1>1, <2>1
    <2>2. CASE clear_xml(p)
      <3>1. PICK d \in Loaded : \E c \in Clear(d) : doc' = [doc EXCEPT ![p] = c]
        BY <2>2 DEF clear_xml
      <3>2. d \in Document
        BY LoadedDocument
      <3> QED
        BY <1>1, <3>1, <3>2, ClearedDocument
    <2>3. CASE updata_xml(p)
      BY <1>1, <2>3, LoadedDocument DEF updata_xml
    <2>4. CASE InsertMedia(p)
      <3> DEFINE m == doc[p].media \o MediaNodes
      <3>1. m \in Seq(MediaNode)
        BY <1>1, InsertedDocument
      <3>2. doc' = [doc EXCEPT ![p].media = m]
        BY <2>4 DEF InsertMedia
      <3> HIDE DEF m
      <3> QED
        BY <1>1, <3>1, <3>2 DEF Document
    <2>5. CASE InsertLogs(p)
      <3> DEFINE l == doc[p].logs \o LogNodes
                 d == [doc EXCEPT ![p].logs = l]
      <3>1. l \in Seq(LogNode)
        BY <1>1, InsertedDocument
      <3>2. doc' = [d EXCEPT ![p].times = @ + 1]
        BY <2>5 DEF InsertLogs
      <3> HIDE DEF l
      <3>3. d \in [Refreshers -> Document]
        BY <1>1, <3>1 DEF Document
      <3> HIDE DEF d
      <3>4. [d[p] EXCEPT !.times = d[p].times + 1] \in Document
        <4>1. d[p] \in Document /\ d[p].times \in Nat
          BY <3>3 DEF Document
        <4>2. d[p].times + 1 \in Nat
          BY <4>1
        <4> DEFINE t == d[p].times + 1
        <4> HIDE DEF t
        <4>3. [d[p] EXCEPT !.times = t] \in Document
          BY <4>1, <4>2 DEF Document, t
        <4> QED
          BY <4>3 DEF t
      <3> QED
        BY <3>2, <3>3, <3>4
    <2>6. CASE WriteUpdated(p)
      BY <1>1, <2>6, NoTimesType DEF WriteUpdated
    <2> QED
      BY <2>1, <2>2, <2>3, <2>4, <2>5, <2>6 DEF refresh, ExitOnLoad, ClearCrash,
            OpenToWrite, WriteCleared
  <1>5. file' \in Document \cup {Empty}
    <2>1. Saved(p) \subseteq Document
      <3>1. [doc[p] EXCEPT !.tail = TRUE] \in Document
        BY <1>1 DEF Document
      <3> QED
        BY <1>1, <3>1 DEF Saved
    <2>2. file' = file \/ file' = Empty \/ file' \in Saved(p)
      BY DEF refresh, ExitOnLoad, clear_xml, ClearCrash, updata_xml, InsertMedia,
            InsertLogs, OpenToWrite, WriteCleared, WriteUpdated
    <2> QED
      BY <2>1, <2>2 DEF TypeOK
  <1> QED
    BY <1>1, <1>2, <1>3, <1>4, <1>5 DEF TypeOK, registry

LEMMA OtherTypes ==
    ASSUME TypeOK, Handlers \/ Others
    PROVE  TypeOK'
  <1>1. UNCHANGED <<file, doc, restarts>>
    BY DEF Handlers, Others, Join, lostconn, endcutlod, m2cnewlog, l2ctask, TakeCut,
          assignwork, TakeSignal, SendTicket
  <1>2. Touch \/ \E p \in Refreshers : Begins(p)
    BY DEF Handlers, Others, Join, lostconn, endcutlod, m2cnewlog, l2ctask, TakeCut,
          assignwork, TakeSignal, SendTicket, Refresh, At
  <1>3. /\ pc' \in [Refreshers -> {"idle", "clear", "save", "write", "update", "media",
                                   "logs", "savenew", "writenew", "assign"}]
        /\ dead' \in {"no", "load", "freed", "walk"}
    <2>1. \/ pc' = pc
          \/ \E p \in Refreshers, to \in {"clear", "idle"} : pc' = [pc EXCEPT ![p] = to]
      BY DEF Handlers, Others, Join, lostconn, endcutlod, m2cnewlog, l2ctask, TakeCut,
            assignwork, TakeSignal, SendTicket, Refresh, At, Go
    <2>2. dead' = dead \/ dead' \in {"no", "walk"}
      BY DEF Handlers, Others, Join, lostconn, endcutlod, m2cnewlog, l2ctask, TakeCut,
            assignwork, TakeSignal, SendTicket
    <2> QED
      BY <2>1, <2>2 DEF TypeOK
  <1>4. ML_list' \in Seq(Servers)
    <2>1. ML_list \in Seq(Servers)
      BY DEF TypeOK
    <2>2. ASSUME NEW s \in Servers, Join(s) PROVE ML_list' \in Seq(Servers)
      BY <2>1, <2>2, AppendProperties DEF Join
    <2>3. ASSUME NEW i \in 1..Len(ML_list), lostconn(i) PROVE ML_list' \in Seq(Servers)
      BY <2>1, <2>3, RemoveOne DEF lostconn
    <2> QED
      BY <2>1, <2>2, <2>3 DEF Handlers, Others, endcutlod, m2cnewlog, l2ctask, TakeCut,
            assignwork, TakeSignal, SendTicket, registry
  <1>5. media_cut_over' \in BOOLEAN
    BY DEF TypeOK, Handlers, Others, Join, lostconn, endcutlod, m2cnewlog, l2ctask, TakeCut,
          assignwork, TakeSignal, SendTicket, registry
  <1>6. jobs' \in [LogServers -> Nat]
    <2>1. jobs \in [LogServers -> Nat]
      BY DEF TypeOK
    <2>2. ASSUME NEW l \in LogServers, l2ctask(l) PROVE jobs' \in [LogServers -> Nat]
      BY <2>1, <2>2 DEF l2ctask
    <2>3. ASSUME NEW l \in LogServers, SendTicket(l) PROVE jobs' \in [LogServers -> Nat]
      BY <2>1, <2>3 DEF SendTicket
    <2> QED
      BY <2>1, <2>2, <2>3 DEF Handlers, Others, Join, lostconn, endcutlod, m2cnewlog,
            TakeCut, assignwork, TakeSignal, registry
  <1>7. cutting' \subseteq MediaServers
    <2>1. cutting \subseteq MediaServers
      BY DEF TypeOK
    <2>2. CASE assignwork
      BY <2>2, NodesAreSeqs DEF assignwork
    <2>3. ASSUME NEW m \in MediaServers, endcutlod(m) PROVE cutting' \subseteq MediaServers
      BY <2>1, <2>3 DEF endcutlod
    <2> QED
      BY <2>1, <2>2, <2>3 DEF Handlers, Others, Join, lostconn, m2cnewlog, l2ctask,
            TakeCut, TakeSignal, SendTicket, registry
  <1>8. quiet' \in [Refreshers -> BOOLEAN] /\ fresh' \in BOOLEAN /\ overlaps' \in Nat
    BY <1>2, HistoryTypes
  <1> QED
    BY <1>1, <1>3, <1>4, <1>5, <1>6, <1>7, <1>8 DEF TypeOK

LEMMA TypeStep == TypeOK /\ [Next]_vars => TypeOK'
  <1> SUFFICES ASSUME TypeOK, [Next]_vars PROVE TypeOK'
    OBVIOUS
  <1>1. CASE UNCHANGED vars
    BY <1>1 DEF vars, registry, history, TypeOK
  <1>2. CASE Restart
    <2>1. ML_list' \in Seq(Servers) /\ media_cut_over' \in BOOLEAN
      BY <1>2, EmptySeq DEF Restart
    <2>2. quiet' \in [Refreshers -> BOOLEAN] /\ fresh' \in BOOLEAN /\ overlaps' \in Nat
      BY <1>2, HistoryTypes DEF Restart
    <2>3. doc' \in [Refreshers -> Document]
      BY <1>2, NoTimesType DEF Restart
    <2>4. /\ pc' = [p \in Refreshers |-> "idle"] /\ dead' = "no" /\ restarts' = restarts + 1
          /\ UNCHANGED <<jobs, cutting, file>>
      BY <1>2 DEF Restart
    <2> QED
      BY <2>1, <2>2, <2>3, <2>4 DEF TypeOK
  <1> QED
    BY <1>1, <1>2, RefreshTypes, OtherTypes DEF Next

(* Every variable keeps its type: what is in the list are servers, what the *)
(* threads load, edit and save are documents, and a document that is put    *)
(* together from the list has the nodes of media and log servers apart.     *)
THEOREM ReportTypes == Spec => []TypeOK
  <1> QED
    BY InitTypes, TypeStep, PTL DEF Spec
-----------------------------------------------------------------------------
LEMMA InitReport == Init => ReportInv
  <1> SUFFICES ASSUME Init PROVE ReportInv
    OBVIOUS
  <1>1. TypeOK
    BY InitTypes
  <1>2. AloneInv
    BY DEF Init, AloneInv, Active
  <1>3. EmptyInv
    BY DEF Init, EmptyInv, Empty, NoTimes
  <1>4. TimesInv
    BY DEF Init, TimesInv, TimesOf, NoTimes
  <1>5. PictureInv /\ FreshIsPicture
    BY DEF Init, PictureInv, FreshIsPicture
  <1>6. ExitHasCause
    BY DEF Init, ExitHasCause
  <1> QED
    BY <1>1, <1>2, <1>3, <1>4, <1>5, <1>6 DEF ReportInv

-----------------------------------------------------------------------------
(* What goes on beside the refreshes                                        *)

\* A refresh begins
LEMMA BeginKeeps ==
    ASSUME ReportInv, TypeOK', NEW p \in Refreshers, pc[p] = "idle", Go(p, "clear"), Begins(p),
           UNCHANGED <<file, doc, dead, restarts>>
    PROVE  ReportInv'
  <1> DEFINE alone == \A q \in Refreshers \ {p} : ~ Active(q)
  <1>1. /\ quiet' = [q \in Refreshers |-> q = p /\ alone] /\ fresh' = FALSE
        /\ overlaps' = IF alone THEN overlaps ELSE overlaps + 1
    BY DEF Begins, Active
  <1>2. /\ pc' \in [Refreshers -> {"idle", "clear", "save", "write", "update", "media",
                                   "logs", "savenew", "writenew", "assign"}]
        /\ pc'[p] = "clear" /\ \A q \in Refreshers : q # p => pc'[q] = pc[q]
    BY DEF Go, ReportInv, TypeOK
  <1>3. overlaps \in Nat /\ restarts' = restarts
    BY DEF ReportInv, TypeOK
  <1>4. overlaps' \in Nat
    <2>1. CASE alone
      BY <1>1, <1>3, <2>1
    <2>2. CASE ~ alone
      BY <1>1, <1>3, <2>2
    <2> QED
      BY <2>1, <2>2
  <1>5. \A q \in Refreshers : Undisturbed(q)' => alone /\ (overlaps = 0 \/ q = p)
    <2>1. ASSUME NEW q \in Refreshers, overlaps' = 0 PROVE alone /\ overlaps = 0
      BY <1>1, <1>3, <2>1
    <2>2. ASSUME NEW q \in Refreshers, quiet'[q] PROVE alone /\ q = p
      BY <1>1, <2>2, Zenon
    <2> QED
      BY <2>1, <2>2 DEF Undisturbed
  <1>6. overlaps' = 0 => alone /\ overlaps = 0
    BY <1>1, <1>3
  <1>7. AloneInv'
    BY <1>1, <1>2, <1>5, Zenon DEF AloneInv, Active
  <1>8. EmptyInv'
    <2>1. ASSUME NEW q \in Refreshers, pc'[q] \in {"write", "writenew"}, Undisturbed(q)'
          PROVE  FALSE
      BY <1>2, <1>5, <2>1 DEF Active
    <2>2. ASSUME overlaps' = 0, restarts' = 0, file' = Empty
          PROVE  \E q \in Refreshers : pc'[q] \in {"write", "writenew"}
      <3>1. PICK q \in Refreshers : pc[q] \in {"write", "writenew"}
        BY <1>3, <1>6, <2>2 DEF ReportInv, EmptyInv
      <3> QED
        BY <1>2, <3>1
    <2> QED
      BY <2>1, <2>2 DEF EmptyInv
  <1>9. TimesInv'
    BY <1>2, <1>6 DEF ReportInv, TimesInv, TimesOf
  <1>10. PictureInv' /\ FreshIsPicture'
    <2>1. ASSUME NEW q \in Refreshers, quiet'[q] PROVE PictureOf(q)'
      BY <1>1, <1>2, <2>1 DEF PictureOf
    <2> QED
      BY <1>1, <2>1 DEF PictureInv, FreshIsPicture
  <1>11. ExitHasCause'
    BY <1>1, <1>3 DEF ReportInv, ExitHasCause
  <1> QED
    BY <1>7, <1>8, <1>9, <1>10, <1>11 DEF ReportInv

\* Something else happens: no refresh is quiet any more
LEMMA TouchKeeps ==
    ASSUME ReportInv, TypeOK', Touch, UNCHANGED <<file, doc, restarts>>,
           pc' = pc \/ (Go("cut", "idle") /\ pc["cut"] = "assign"),
           dead' = dead \/ dead' # "load"
    PROVE  ReportInv'
  <1>1. quiet' = [p \in Refreshers |-> FALSE] /\ fresh' = FALSE /\ overlaps' = overlaps
    BY DEF Touch
  <1>2. /\ pc' \in [Refreshers -> {"idle", "clear", "save", "write", "update", "media",
                                   "logs", "savenew", "writenew", "assign"}]
        /\ \A q \in Refreshers : pc'[q] = pc[q] \/ (~ Active(q) /\ pc'[q] = "idle")
    <2>0. pc \in [Refreshers -> {"idle", "clear", "save", "write", "update", "media",
                                 "logs", "savenew", "writenew", "assign"}]
      BY DEF ReportInv, TypeOK
    <2>1. CASE pc' = pc
      BY <2>0, <2>1
    <2>2. CASE pc' = [pc EXCEPT !["cut"] = "idle"] /\ pc["cut"] = "assign"
      BY <2>0, <2>2 DEF Active
    <2> QED
      BY <2>1, <2>2 DEF Go
  <1>3. \A q \in Refreshers : Undisturbed(q)' => overlaps = 0
    BY <1>1 DEF Undisturbed
  <1>4. AloneInv'
    BY <1>1, <1>2, <1>3 DEF ReportInv, AloneInv, Active, Undisturbed
  <1>5. EmptyInv'
    BY <1>1, <1>2, <1>3 DEF ReportInv, EmptyInv, Active, Undisturbed
  <1>6. TimesInv'
    BY <1>1, <1>2 DEF ReportInv, TimesInv, TimesOf, Active
  <1>7. PictureInv' /\ FreshIsPicture'
    BY <1>1, Zenon DEF PictureInv, FreshIsPicture
  <1>8. ExitHasCause'
    BY <1>1 DEF ReportInv, ExitHasCause
  <1> QED
    BY <1>4, <1>5, <1>6, <1>7, <1>8 DEF ReportInv
LEMMA RestartKeeps ==
    ASSUME ReportInv, TypeOK', Restart
    PROVE  ReportInv'
  <1>1. /\ restarts \in Nat /\ restarts' = restarts + 1 /\ dead' = "no" /\ file' = file
        /\ doc' = [p \in Refreshers |-> NoTimes] /\ pc' = [p \in Refreshers |-> "idle"]
        /\ quiet' = [p \in Refreshers |-> FALSE] /\ fresh' = FALSE /\ overlaps' = overlaps
    BY DEF Restart, Touch, ReportInv, TypeOK
  <1>2. AloneInv'
    BY <1>1 DEF AloneInv, Active
  <1>3. EmptyInv'
    BY <1>1 DEF EmptyInv
  <1>4. TimesInv'
    BY <1>1 DEF ReportInv, TimesInv, TimesOf, NoTimes
  <1>5. PictureInv' /\ FreshIsPicture'
    BY <1>1, Zenon DEF PictureInv, FreshIsPicture
  <1>6. ExitHasCause'
    BY <1>1 DEF ExitHasCause
  <1> QED
    BY <1>2, <1>3, <1>4, <1>5, <1>6 DEF ReportInv

\* Handlers and the other threads' actions are one of these
LEMMA OthersKeep ==
    ASSUME ReportInv, TypeOK', Handlers \/ Others
    PROVE  ReportInv'
  <1>1. \A p, here : At(p, here) => p \in Refreshers /\ pc[p] = here /\ dead = "no"
    BY DEF At
  <1>2. ASSUME Refresh, UNCHANGED <<file, doc, dead, restarts>> PROVE ReportInv'
    <2>1. /\ "raknet" \in Refreshers /\ pc["raknet"] = "idle"
          /\ Go("raknet", "clear") /\ Begins("raknet")
      BY <1>1, <1>2 DEF Refresh
    <2> QED
      BY <1>2, <2>1, BeginKeeps
  <1>3. CASE \/ \E s \in Servers : Join(s)
             \/ m2cnewlog
             \/ \E l \in LogServers : l2ctask(l)
    BY <1>2, <1>3 DEF Join, m2cnewlog, l2ctask
  <1>4. ASSUME NEW i \in 1..Len(ML_list), lostconn(i) PROVE ReportInv'
    BY <1>4, TouchKeeps DEF lostconn
  <1>5. ASSUME NEW m \in MediaServers, endcutlod(m) PROVE ReportInv'
    BY <1>2, <1>5, TouchKeeps DEF endcutlod
  <1>6. CASE TakeCut
    <2>1. /\ "cut" \in Refreshers /\ pc["cut"] = "idle" /\ Go("cut", "clear") /\ Begins("cut")
          /\ UNCHANGED <<file, doc, dead, restarts>>
      BY <1>1, <1>6 DEF TakeCut
    <2> QED
      BY <2>1, BeginKeeps
  <1>7. CASE assignwork
    BY <1>1, <1>7, TouchKeeps DEF assignwork
  <1>8. CASE TakeSignal
    BY <1>8, TouchKeeps DEF TakeSignal
  <1>9. ASSUME NEW l \in LogServers, SendTicket(l) PROVE ReportInv'
    BY <1>9, TouchKeeps DEF SendTicket
  <1> QED
    BY <1>3, <1>4, <1>5, <1>6, <1>7, <1>8, <1>9 DEF Handlers, Others

-----------------------------------------------------------------------------
(* The steps of a refresh                                                   *)

\* A step of p's refresh concerns no other that is undisturbed
LEMMA RefreshFrame ==
    ASSUME ReportInv, TypeOK', ExitHasCause', NEW p \in Refreshers, Active(p),
           UNCHANGED <<quiet, overlaps, restarts>>,
           \A q \in Refreshers : q # p => pc'[q] = pc[q] /\ doc'[q].tail = doc[q].tail,
           Undisturbed(p) /\ pc'[p] \in {"write", "writenew"} => file' = Empty,
           overlaps = 0 /\ restarts = 0 /\ file' = Empty => pc'[p] \in {"write", "writenew"},
           overlaps = 0 => file'.times <= 1 /\ ~ file'.tail /\ TimesOf(p)',
           quiet[p] => PictureOf(p)',
           fresh' => quiet[p] /\ ~ Active(p)' /\ FreshIsPicture'
    PROVE  ReportInv'
  <1>1. \A q \in Refreshers : Undisturbed(q)' = Undisturbed(q)
    BY DEF Undisturbed
  <1>2. \A q \in Refreshers : Active(q)' => Active(q)
    BY DEF Active
  <1>3. \A q \in Refreshers : Active(q) /\ (Undisturbed(q) \/ Undisturbed(p)) => q = p
    BY DEF ReportInv, AloneInv
  <1>4. AloneInv'
    <2>1. \A q, r \in Refreshers : Active(q)' /\ Active(r)' /\ Undisturbed(q)' => q = r
      BY <1>1, <1>2, Zenon DEF ReportInv, AloneInv
    <2>2. ASSUME fresh', NEW q \in Refreshers PROVE ~ Active(q)'
      BY <1>2, <1>3, <2>2, Zenon DEF Undisturbed
    <2> QED
      BY <2>1, <2>2 DEF AloneInv
  <1>5. EmptyInv'
    <2>1. ASSUME NEW q \in Refreshers, pc'[q] \in {"write", "writenew"}, Undisturbed(q)'
          PROVE  file' = Empty
      <3>1. Active(q) /\ Undisturbed(q)
        BY <1>1, <1>2, <2>1 DEF Active
      <3>2. q = p
        BY <1>3, <3>1
      <3> QED
        BY <2>1, <3>1, <3>2
    <2> QED
      BY <2>1 DEF EmptyInv
  <1>6. TimesInv'
    <2>1. ASSUME overlaps = 0, NEW q \in Refreshers, q # p PROVE TimesOf(q)'
      <3>1. ~ Active(q)
        BY <1>3, <2>1 DEF Undisturbed
      <3>2. ~ doc[q].tail
        BY <2>1 DEF ReportInv, TimesInv, TimesOf
      <3> QED
        BY <2>1, <3>1, <3>2 DEF TimesOf, Active
    <2> QED
      BY <2>1, Zenon DEF TimesInv
  <1>7. PictureInv'
    <2>1. ASSUME NEW q \in Refreshers, quiet'[q] PROVE PictureOf(q)'
      <3>1. CASE q = p
        BY <2>1, <3>1
      <3>2. CASE q # p
        <4>1. Undisturbed(q)
          BY <2>1 DEF Undisturbed
        <4>2. pc'[q] \in {"idle", "assign"}
          BY <1>3, <3>2, <4>1 DEF Active
        <4> QED
          BY <4>2 DEF PictureOf
      <3> QED
        BY <3>1, <3>2
    <2> QED
      BY <2>1 DEF PictureInv
  <1>8. FreshIsPicture'
    BY DEF FreshIsPicture
  <1> QED
    BY <1>4, <1>5, <1>6, <1>7, <1>8 DEF ReportInv
LEMMA EndKeeps ==
    ASSUME ReportInv, TypeOK', NEW p \in Refreshers, ExitOnLoad(p) \/ ClearCrash(p)
    PROVE  ReportInv'
  <1>1. /\ UNCHANGED <<registry, file, doc, pc, restarts, history>>
        /\ pc[p] \in {"clear", "update"}
        /\ dead' = "load" => LoadFails
    BY DEF ExitOnLoad, ClearCrash, At
  <1>2. MediaNodes' = MediaNodes /\ LogNodes' = LogNodes
    BY <1>1, SameNodes
  <1>3. ASSUME LoadFails, overlaps = 0, restarts = 0 PROVE FALSE
    <2>1. file = Empty
      BY <1>3 DEF ReportInv, TimesInv, LoadFails
    <2>2. PICK q \in Refreshers : pc[q] \in {"write", "writenew"}
      BY <1>3, <2>1 DEF ReportInv, EmptyInv
    <2>3. Active(p) /\ Active(q) /\ Undisturbed(p)
      BY <1>1, <1>3, <2>2 DEF Active, Undisturbed
    <2> QED
      BY <1>1, <2>2, <2>3 DEF ReportInv, AloneInv
  <1>4. ExitHasCause'
    BY <1>1, <1>3 DEF ExitHasCause, history, ReportInv, TypeOK
  <1>5. AloneInv' /\ EmptyInv'
    BY <1>1 DEF ReportInv, AloneInv, EmptyInv, Active, Undisturbed, history
  <1>6. TimesInv' /\ PictureInv' /\ FreshIsPicture'
    BY <1>1, <1>2 DEF ReportInv, TimesInv, TimesOf, PictureInv, PictureOf,
          FreshIsPicture, history
  <1> QED
    BY <1>4, <1>5, <1>6 DEF ReportInv

LEMMA ClearKeeps ==
    ASSUME ReportInv, TypeOK', NEW p \in Refreshers, clear_xml(p)
    PROVE  ReportInv'
  <1>1. PICK d \in Loaded : \E c \in Clear(d) : doc' = [doc EXCEPT ![p] = c]
    BY DEF clear_xml
  <1>2. PICK c \in Clear(d) : doc' = [doc EXCEPT ![p] = c]
    BY <1>1
  <1>3. /\ UNCHANGED <<registry, file, dead, restarts, history>>
        /\ pc[p] = "clear" /\ pc' = [pc EXCEPT ![p] = "save"]
    BY DEF clear_xml, At, Go
  <1>4. /\ file # Empty /\ d \in Document
        /\ d.media = file.media /\ d.logs = file.logs /\ d.times = file.times
        /\ d.tail => file.tail
    BY LoadedDocument DEF ReportInv
  <1>5. /\ c \in Document /\ Len(c.media) <= MaxLeft /\ Len(c.logs) <= MaxLeft
        /\ c.times = IF d.times = 0 THEN 0 ELSE d.times - 1
        /\ c.tail = d.tail
    BY <1>4, ClearedDocument
  <1>6. /\ doc \in [Refreshers -> Document] /\ doc' \in [Refreshers -> Document]
        /\ doc'[p] = c /\ \A q \in Refreshers : q # p => doc'[q] = doc[q]
    BY <1>2, <1>5 DEF ReportInv, TypeOK
  <1>7. /\ pc' \in [Refreshers -> {"idle", "clear", "save", "write", "update", "media",
                                    "logs", "savenew", "writenew", "assign"}]
         /\ pc'[p] = "save" /\ \A q \in Refreshers : q # p => pc'[q] = pc[q]
    BY <1>3 DEF ReportInv, TypeOK
  <1>8. Active(p) /\ ~ fresh
    BY <1>3 DEF Active, ReportInv, AloneInv
  <1>9. ExitHasCause'
    BY <1>3 DEF ReportInv, ExitHasCause, history
  <1>10. overlaps = 0 => file'.times <= 1 /\ ~ file'.tail /\ TimesOf(p)'
    <2>1. file.times \in Nat
      BY <1>4 DEF ReportInv, TypeOK, Document
    <2>2. overlaps = 0 => file.times <= 1 /\ ~ file.tail
      BY DEF ReportInv, TimesInv
    <2>3. overlaps = 0 => c.times = 0 /\ ~ c.tail
      BY <1>4, <1>5, <2>1, <2>2
    <2> QED
      BY <1>3, <1>6, <1>7, <2>2, <2>3 DEF TimesOf
  <1>11. PictureOf(p)'
    BY <1>5, <1>6, <1>7 DEF PictureOf
  <1>12. UNCHANGED <<quiet, overlaps, restarts, file, fresh>>
    BY <1>3 DEF history
  <1> QED
    BY <1>4, <1>6, <1>7, <1>8, <1>9, <1>10, <1>11, <1>12, RefreshFrame

LEMMA UpdateKeeps ==
    ASSUME ReportInv, TypeOK', NEW p \in Refreshers, updata_xml(p)
    PROVE  ReportInv'
  <1>1. PICK d \in Loaded : doc' = [doc EXCEPT ![p] = d]
    BY DEF updata_xml
  <1>2. /\ UNCHANGED <<registry, file, dead, restarts, history>>
        /\ pc[p] = "update" /\ pc' = [pc EXCEPT ![p] = "media"]
    BY DEF updata_xml, At, Go
  <1>3. /\ file # Empty /\ d \in Document
        /\ d.media = file.media /\ d.logs = file.logs /\ d.times = file.times
        /\ d.tail => file.tail
    BY LoadedDocument DEF ReportInv
  <1>4. /\ doc \in [Refreshers -> Document] /\ doc' \in [Refreshers -> Document]
        /\ doc'[p] = d /\ \A q \in Refreshers : q # p => doc'[q] = doc[q]
    BY <1>1, <1>3 DEF ReportInv, TypeOK
  <1>5. /\ pc' \in [Refreshers -> {"idle", "clear", "save", "write", "update", "media",
                                   "logs", "savenew", "writenew", "assign"}]
        /\ pc'[p] = "media" /\ \A q \in Refreshers : q # p => pc'[q] = pc[q]
    BY <1>2 DEF ReportInv, TypeOK
  <1>6. Active(p) /\ ~ fresh
    BY <1>2 DEF Active, ReportInv, AloneInv
  <1>7. ExitHasCause'
    BY <1>2 DEF ReportInv, ExitHasCause, history
  <1>8. overlaps = 0 => file'.times <= 1 /\ ~ file'.tail /\ TimesOf(p)'
    <2>1. d.times \in Nat
      BY <1>3 DEF Document
    <2>2. overlaps = 0 => file.times <= 0 /\ ~ file.tail
      BY <1>2 DEF ReportInv, TimesInv, TimesOf
    <2> QED
      BY <1>2, <1>3, <1>4, <1>5, <2>1, <2>2 DEF TimesOf
  <1>9. quiet[p] => PictureOf(p)'
    <2>1. quiet[p] => Len(d.media) <= MaxLeft /\ Len(d.logs) <= MaxLeft
      BY <1>2, <1>3 DEF ReportInv, PictureInv, PictureOf
    <2> QED
      BY <1>4, <1>5, <2>1 DEF PictureOf
  <1>10. UNCHANGED <<quiet, overlaps, restarts, file, fresh>>
    BY <1>2 DEF history
  <1> QED
    BY <1>3, <1>4, <1>5, <1>6, <1>7, <1>8, <1>9, <1>10, RefreshFrame
LEMMA NewPicture ==
    ASSUME NEW S, NEW old \in Seq(S), NEW new \in Seq(S)
    PROVE  /\ old \o new \in Seq(S)
           /\ Len(old) <= MaxLeft => Pictures(old \o new, new)
  <1>1. /\ old \o new \in Seq(S) /\ IsSuffix(new, old \o new)
        /\ Len(old \o new) = Len(old) + Len(new)
    BY SuffixOfConcat
  <1>2. Len(old) \in Nat /\ Len(new) \in Nat /\ MaxLeft \in Nat
    BY LenProperties, ReportAssumption
  <1> QED
    BY <1>1, <1>2 DEF Pictures

LEMMA InsertMediaKeeps ==
    ASSUME ReportInv, TypeOK', NEW p \in Refreshers, InsertMedia(p)
    PROVE  ReportInv'
  <1>1. MediaNodes \in Seq(MediaNode)
    BY NodesAreSeqs DEF ReportInv
  <1>2. /\ UNCHANGED <<registry, file, dead, restarts, history>>
        /\ pc[p] = "media" /\ pc' = [pc EXCEPT ![p] = "logs"]
        /\ doc' = [doc EXCEPT ![p].media = @ \o MediaNodes]
    BY DEF InsertMedia, At, Go
  <1>3. doc \in [Refreshers -> Document] /\ doc[p] \in Document
    BY DEF ReportInv, TypeOK
  <1> DEFINE m == doc[p].media \o MediaNodes
  <1>4. m \in Seq(MediaNode) /\ (Len(doc[p].media) <= MaxLeft => Pictures(m, MediaNodes))
    BY <1>1, <1>3, NewPicture DEF Document
  <1> HIDE DEF m
  <1>5. /\ doc' \in [Refreshers -> Document]
        /\ doc'[p] = [doc[p] EXCEPT !.media = m]
        /\ \A q \in Refreshers : q # p => doc'[q] = doc[q]
    BY <1>2, <1>3, <1>4 DEF Document, m
  <1>6. /\ doc'[p].media = m /\ doc'[p].logs = doc[p].logs
        /\ doc'[p].times = doc[p].times /\ doc'[p].tail = doc[p].tail
    BY <1>3, <1>5 DEF Document
  <1>7. /\ pc' \in [Refreshers -> {"idle", "clear", "save", "write", "update", "media",
                                   "logs", "savenew", "writenew", "assign"}]
        /\ pc'[p] = "logs" /\ \A q \in Refreshers : q # p => pc'[q] = pc[q]
    BY <1>2 DEF ReportInv, TypeOK
  <1>8. MediaNodes' = MediaNodes /\ LogNodes' = LogNodes
    BY <1>2, SameNodes
  <1>9. Active(p) /\ ~ fresh
    BY <1>2 DEF Active, ReportInv, AloneInv
  <1>10. ExitHasCause'
    BY <1>2 DEF ReportInv, ExitHasCause, history
  <1>11. overlaps = 0 => file'.times <= 1 /\ ~ file'.tail /\ TimesOf(p)'
    <2>1. overlaps = 0 => file.times <= 1 /\ ~ file.tail /\ doc[p].times = 0 /\ ~ doc[p].tail
      BY <1>2 DEF ReportInv, TimesInv, TimesOf
    <2> QED
      BY <1>2, <1>6, <1>7, <2>1 DEF TimesOf
  <1>12. quiet[p] => PictureOf(p)'
    <2>1. quiet[p] => Len(doc[p].media) <= MaxLeft /\ Len(doc[p].logs) <= MaxLeft
      BY <1>2 DEF ReportInv, PictureInv, PictureOf
    <2> QED
      BY <1>4, <1>6, <1>7, <1>8, <2>1 DEF PictureOf
  <1>13. overlaps = 0 /\ restarts = 0 => file # Empty
    BY <1>2, <1>9 DEF ReportInv, AloneInv, EmptyInv, Active, Undisturbed
  <1>14. UNCHANGED <<quiet, overlaps, restarts, file, fresh>>
    BY <1>2 DEF history
  <1> QED
    BY <1>5, <1>7, <1>9, <1>10, <1>11, <1>12, <1>13, <1>14, RefreshFrame

LEMMA InsertLogsKeeps ==
    ASSUME ReportInv, TypeOK', NEW p \in Refreshers, InsertLogs(p)
    PROVE  ReportInv'
  <1>1. LogNodes \in Seq(LogNode)
    BY NodesAreSeqs DEF ReportInv
  <1>2. /\ UNCHANGED <<registry, file, dead, restarts, history>>
        /\ pc[p] = "logs" /\ pc' = [pc EXCEPT ![p] = "savenew"]
        /\ doc' = [doc EXCEPT ![p].logs = @ \o LogNodes, ![p].times = @ + 1]
    BY DEF InsertLogs, At, Go
  <1>3. doc \in [Refreshers -> Document] /\ doc[p] \in Document
    BY DEF ReportInv, TypeOK
  <1> DEFINE l == doc[p].logs \o LogNodes
  <1>4. l \in Seq(LogNode) /\ (Len(doc[p].logs) <= MaxLeft => Pictures(l, LogNodes))
    BY <1>1, <1>3, NewPicture DEF Document
  <1> HIDE DEF l
  <1>5. /\ doc' \in [Refreshers -> Document]
        /\ doc'[p] = [doc[p] EXCEPT !.logs = l, !.times = doc[p].times + 1]
        /\ \A q \in Refreshers : q # p => doc'[q] = doc[q]
    <2> DEFINE d == [doc EXCEPT ![p].logs = l]
    <2>1. doc' = [d EXCEPT ![p].times = @ + 1]
      BY <1>2 DEF l
    <2>2. /\ d \in [Refreshers -> Document] /\ d[p] = [doc[p] EXCEPT !.logs = l]
          /\ \A q \in Refreshers : q # p => d[q] = doc[q]
      BY <1>3, <1>4 DEF Document
    <2> HIDE DEF d
    <2>3. /\ d[p].times = doc[p].times /\ d[p].times + 1 \in Nat
          /\ [d[p] EXCEPT !.times = d[p].times + 1]
                 = [doc[p] EXCEPT !.logs = l, !.times = doc[p].times + 1]
      BY <1>3, <2>2 DEF Document
    <2>4. /\ doc'[p] = [d[p] EXCEPT !.times = d[p].times + 1]
          /\ \A q \in Refreshers : q # p => doc'[q] = d[q]
          /\ doc' \in [Refreshers -> Document]
      <3> DEFINE e == [d[p] EXCEPT !.times = d[p].times + 1]
      <3>1. doc' = [d EXCEPT ![p] = e]
        BY <2>1
      <3>2. e \in Document
        <4>1. d[p] \in Document /\ d[p].times + 1 \in Nat
          BY <2>2, <2>3
        <4> DEFINE t == d[p].times + 1
        <4> HIDE DEF t
        <4>2. [d[p] EXCEPT !.times = t] \in Document
          BY <4>1 DEF Document, t
        <4> QED
          BY <4>2 DEF t
      <3> HIDE DEF e
      <3>3. doc'[p] = e /\ \A q \in Refreshers : q # p => doc'[q] = d[q]
        BY <2>2, <3>1
      <3>4. doc' \in [Refreshers -> Document]
        BY <2>2, <3>1, <3>2
      <3> QED
        BY <3>3, <3>4 DEF e
    <2> QED
      BY <2>2, <2>3, <2>4
  <1>6. /\ doc'[p].media = doc[p].media /\ doc'[p].logs = l
        /\ doc'[p].times = doc[p].times + 1 /\ doc'[p].tail = doc[p].tail
    BY <1>3, <1>5 DEF Document
  <1>7. /\ pc' \in [Refreshers -> {"idle", "clear", "save", "write", "update", "media",
                                   "logs", "savenew", "writenew", "assign"}]
        /\ pc'[p] = "savenew" /\ \A q \in Refreshers : q # p => pc'[q] = pc[q]
    BY <1>2 DEF ReportInv, TypeOK
  <1>8. MediaNodes' = MediaNodes /\ LogNodes' = LogNodes
    BY <1>2, SameNodes
  <1>9. Active(p) /\ ~ fresh
    BY <1>2 DEF Active, ReportInv, AloneInv
  <1>10. ExitHasCause'
    BY <1>2 DEF ReportInv, ExitHasCause, history
  <1>11. overlaps = 0 => file'.times <= 1 /\ ~ file'.tail /\ TimesOf(p)'
    <2>1. overlaps = 0 => file.times <= 1 /\ ~ file.tail /\ doc[p].times = 0 /\ ~ doc[p].tail
      BY <1>2 DEF ReportInv, TimesInv, TimesOf
    <2> QED
      BY <1>2, <1>6, <1>7, <2>1 DEF TimesOf
  <1>12. quiet[p] => PictureOf(p)'
    <2>1. quiet[p] => Pictures(doc[p].media, MediaNodes) /\ Len(doc[p].logs) <= MaxLeft
      BY <1>2 DEF ReportInv, PictureInv, PictureOf
    <2> QED
      BY <1>4, <1>6, <1>7, <1>8, <2>1 DEF PictureOf
  <1>13. overlaps = 0 /\ restarts = 0 => file # Empty
    BY <1>2, <1>9 DEF ReportInv, AloneInv, EmptyInv, Active, Undisturbed
  <1>14. UNCHANGED <<quiet, overlaps, restarts, file, fresh>>
    BY <1>2 DEF history
  <1> QED
    BY <1>5, <1>7, <1>9, <1>10, <1>11, <1>12, <1>13, <1>14, RefreshFrame

LEMMA OpenKeeps ==
    ASSUME ReportInv, TypeOK', NEW p \in Refreshers, OpenToWrite(p)
    PROVE  ReportInv'
  <1>1. /\ UNCHANGED <<registry, doc, dead, restarts, history>> /\ file' = Empty
        /\ \/ pc[p] = "save" /\ pc' = [pc EXCEPT ![p] = "write"]
           \/ pc[p] = "savenew" /\ pc' = [pc EXCEPT ![p] = "writenew"]
    BY DEF OpenToWrite, At, Go
  <1>2. /\ pc' \in [Refreshers -> {"idle", "clear", "save", "write", "update", "media",
                                   "logs", "savenew", "writenew", "assign"}]
        /\ pc'[p] \in {"write", "writenew"} /\ \A q \in Refreshers : q # p => pc'[q] = pc[q]
        /\ pc[p] = "save" => pc'[p] = "write"
        /\ pc[p] = "savenew" => pc'[p] = "writenew"
        /\ pc[p] \in {"save", "savenew"}
    BY <1>1 DEF ReportInv, TypeOK
  <1>3. MediaNodes' = MediaNodes /\ LogNodes' = LogNodes
    BY <1>1, SameNodes
  <1>4. Active(p) /\ ~ fresh
    BY <1>1 DEF Active, ReportInv, AloneInv
  <1>5. ExitHasCause'
    BY <1>1 DEF ReportInv, ExitHasCause, history
  <1>6. overlaps = 0 => file'.times <= 1 /\ ~ file'.tail /\ TimesOf(p)'
    <2>1. overlaps = 0 => TimesOf(p)
      BY DEF ReportInv, TimesInv
    <2>2. Empty.times = -1 /\ ~ Empty.tail
      BY DEF Empty, NoTimes
    <2> QED
      BY <1>1, <1>2, <2>1, <2>2 DEF TimesOf
  <1>7. quiet[p] => PictureOf(p)'
    <2>1. quiet[p] => PictureOf(p)
      BY DEF ReportInv, PictureInv
    <2> QED
      BY <1>1, <1>2, <1>3, <2>1 DEF PictureOf
  <1>8. UNCHANGED <<quiet, overlaps, restarts, doc, fresh>>
    BY <1>1 DEF history
  <1> QED
    BY <1>1, <1>2, <1>4, <1>5, <1>6, <1>7, <1>8, RefreshFrame

\* what a save leaves in the file
LEMMA SavedDocument ==
    ASSUME ReportInv, TypeOK', NEW p \in Refreshers, pc[p] \in {"write", "writenew"},
           NEW f \in Saved(p)
    PROVE  /\ f \in Document /\ f # Empty
           /\ f.media = doc[p].media /\ f.logs = doc[p].logs /\ f.times = doc[p].times
           /\ Undisturbed(p) => f = doc[p]
  <1>1. doc[p] \in Document
    BY DEF ReportInv, TypeOK
  <1>2. f \in Document /\ f.media = doc[p].media /\ f.logs = doc[p].logs
        /\ f.times = doc[p].times
    <2>1. CASE f = doc[p]
      BY <1>1, <2>1
    <2>2. CASE f = [doc[p] EXCEPT !.tail = TRUE]
      BY <1>1, <2>2 DEF Document
    <2> QED
      BY <2>1, <2>2 DEF Saved
  <1>3. f # Empty
    <2>1. f.times \in Nat /\ Empty.times = -1
      BY <1>2 DEF Document, Empty, NoTimes
    <2> QED
      BY <2>1
  <1>4. Undisturbed(p) => f = doc[p]
    BY DEF ReportInv, EmptyInv, Saved
  <1> QED
    BY <1>2, <1>3, <1>4

LEMMA WriteClearedKeeps ==
    ASSUME ReportInv, TypeOK', NEW p \in Refreshers, WriteCleared(p)
    PROVE  ReportInv'
  <1>1. /\ UNCHANGED <<registry, doc, dead, restarts, history>> /\ file' \in Saved(p)
        /\ pc[p] = "write" /\ pc' = [pc EXCEPT ![p] = "update"]
    BY DEF WriteCleared, At, Go
  <1>2. /\ file' \in Document /\ file' # Empty
        /\ file'.media = doc[p].media /\ file'.logs = doc[p].logs
        /\ Undisturbed(p) => file' = doc[p]
    BY <1>1, SavedDocument
  <1>3. /\ pc' \in [Refreshers -> {"idle", "clear", "save", "write", "update", "media",
                                   "logs", "savenew", "writenew", "assign"}]
        /\ pc'[p] = "update" /\ \A q \in Refreshers : q # p => pc'[q] = pc[q]
    BY <1>1 DEF ReportInv, TypeOK
  <1>4. Active(p) /\ ~ fresh
    BY <1>1 DEF Active, ReportInv, AloneInv
  <1>5. ExitHasCause'
    BY <1>1 DEF ReportInv, ExitHasCause, history
  <1>6. overlaps = 0 => file'.times <= 1 /\ ~ file'.tail /\ TimesOf(p)'
    <2>1. overlaps = 0 => doc[p].times = 0 /\ ~ doc[p].tail /\ file' = doc[p]
      BY <1>1, <1>2 DEF ReportInv, TimesInv, TimesOf, Undisturbed
    <2> QED
      BY <1>1, <1>3, <2>1 DEF TimesOf
  <1>7. quiet[p] => PictureOf(p)'
    <2>1. quiet[p] => Len(doc[p].media) <= MaxLeft /\ Len(doc[p].logs) <= MaxLeft
      BY <1>1 DEF ReportInv, PictureInv, PictureOf
    <2> QED
      BY <1>1, <1>2, <1>3, <2>1 DEF PictureOf
  <1>8. UNCHANGED <<quiet, overlaps, restarts, doc, fresh>>
    BY <1>1 DEF history
  <1> QED
    BY <1>2, <1>3, <1>4, <1>5, <1>6, <1>7, <1>8, RefreshFrame

LEMMA WriteUpdatedKeeps ==
    ASSUME ReportInv, TypeOK', NEW p \in Refreshers, WriteUpdated(p)
    PROVE  ReportInv'
  <1>1. /\ UNCHANGED <<registry, dead, restarts, quiet, overlaps>> /\ file' \in Saved(p)
        /\ pc[p] = "writenew"
        /\ pc' = [pc EXCEPT ![p] = IF p = "cut" THEN "assign" ELSE "idle"]
        /\ doc' = [doc EXCEPT ![p] = NoTimes] /\ fresh' = quiet[p]
    BY DEF WriteUpdated, At, Go
  <1>2. /\ file' \in Document /\ file' # Empty
        /\ file'.media = doc[p].media /\ file'.logs = doc[p].logs
        /\ Undisturbed(p) => file' = doc[p]
    BY <1>1, SavedDocument
  <1>3. /\ pc' \in [Refreshers -> {"idle", "clear", "save", "write", "update", "media",
                                   "logs", "savenew", "writenew", "assign"}]
        /\ pc'[p] \in {"idle", "assign"} /\ \A q \in Refreshers : q # p => pc'[q] = pc[q]
    BY <1>1 DEF ReportInv, TypeOK
  <1>4. MediaNodes' = MediaNodes /\ LogNodes' = LogNodes
    BY <1>1, SameNodes
  <1>5. Active(p) /\ ~ Active(p)'
    BY <1>1, <1>3 DEF Active
  <1>6. /\ doc' \in [Refreshers -> Document] /\ ~ doc'[p].tail
        /\ \A q \in Refreshers : q # p => doc'[q] = doc[q]
    <2>1. NoTimes \in Document /\ ~ NoTimes.tail
      BY NoTimesType DEF NoTimes
    <2> QED
      BY <1>1, <2>1 DEF ReportInv, TypeOK
  <1>7. ExitHasCause'
    BY <1>1 DEF ReportInv, ExitHasCause
  <1>8. overlaps = 0 => file'.times <= 1 /\ ~ file'.tail /\ TimesOf(p)'
    <2>1. overlaps = 0 => doc[p].times <= 1 /\ ~ doc[p].tail /\ file' = doc[p]
      BY <1>1, <1>2 DEF ReportInv, TimesInv, TimesOf, Undisturbed
    <2> QED
      BY <1>3, <1>6, <2>1 DEF TimesOf
  <1>9. PictureOf(p)'
    BY <1>3 DEF PictureOf
  <1>10. fresh' => quiet[p] /\ FreshIsPicture'
    <2>1. quiet[p] => Pictures(doc[p].media, MediaNodes) /\ Pictures(doc[p].logs, LogNodes)
      BY <1>1 DEF ReportInv, PictureInv, PictureOf
    <2> QED
      BY <1>1, <1>2, <1>4, <2>1 DEF FreshIsPicture
  <1> QED
    BY <1>1, <1>2, <1>3, <1>5, <1>6, <1>7, <1>8, <1>9, <1>10, RefreshFrame

-----------------------------------------------------------------------------
LEMMA ReportStep == ReportInv /\ [Next]_vars => ReportInv'
  <1> SUFFICES ASSUME ReportInv, [Next]_vars PROVE ReportInv'
    OBVIOUS
  <1>1. TypeOK'
    BY TypeStep DEF ReportInv
  <1>2. ASSUME NEW p \in Refreshers, refresh(p) PROVE ReportInv'
    BY <1>2, <1>1, EndKeeps, ClearKeeps, UpdateKeeps, InsertMediaKeeps, InsertLogsKeeps,
       OpenKeeps, WriteClearedKeeps, WriteUpdatedKeeps DEF refresh
  <1>3. CASE UNCHANGED vars
    <2>1. UNCHANGED <<registry, file, doc, pc, dead, restarts, quiet, fresh, overlaps>>
      BY <1>3 DEF vars, history
    <2>2. MediaNodes' = MediaNodes /\ LogNodes' = LogNodes
      BY <2>1, SameNodes
    <2>3. AloneInv' /\ EmptyInv'
      BY <2>1 DEF ReportInv, AloneInv, EmptyInv, Active, Undisturbed
    <2>4. TimesInv' /\ PictureInv' /\ FreshIsPicture' /\ ExitHasCause'
      BY <2>1, <2>2 DEF ReportInv, TimesInv, TimesOf, PictureInv, PictureOf,
            FreshIsPicture, ExitHasCause
    <2> QED
      BY <1>1, <2>3, <2>4 DEF ReportInv
  <1> QED
    BY <1>2, <1>3, <1>1, OthersKeep, RestartKeeps DEF Next

LEMMA ReportAlways == Spec => []ReportInv
  <1> QED
    BY InitReport, ReportStep, PTL DEF Spec

(* A refresh that nothing disturbed shows the servers of ML_list, and none  *)
(* but them and what the deleting walk has left (clear_xml, updata_xml).    *)
THEOREM ReportIsPicture == Spec => []FreshIsPicture
  <1>1. ReportInv => FreshIsPicture
    BY DEF ReportInv
  <1> QED
    BY ReportAlways, <1>1, PTL

(* A report that does not load ends the process only after refreshes have   *)
(* overlapped, or a process was ended before.                               *)
THEOREM LoadExitHasCause == Spec => []ExitHasCause
  <1>1. ReportInv => ExitHasCause
    BY DEF ReportInv
  <1> QED
    BY ReportAlways, <1>1, PTL

(* Without overlapping refreshes the nodes of times never become more, and  *)
(* nothing is left behind the end of the document.                          *)
THEOREM ReportDoesNotGrow == Spec => []NothingExtra
  <1>1. ReportInv => NothingExtra
    BY DEF ReportInv, TimesInv, NothingExtra
  <1> QED
    BY ReportAlways, <1>1, PTL

(* A report of no bytes stays so, through every refresh and every restart:  *)
(* both clear_xml and updata_xml load it first and end the process.         *)
THEOREM EmptyReportStays == Spec => EmptyIsForever
  <1>1. ReportInv /\ [Next]_vars => [Doomed => Doomed']_vars
    <2> SUFFICES ASSUME ReportInv, Next, Doomed PROVE Doomed'
      OBVIOUS
    <2>1. /\ file = Empty /\ Loaded = {}
          /\ pc \in [Refreshers -> {"idle", "clear", "save", "write", "update", "media",
                                   "logs", "savenew", "writenew", "assign"}]
          /\ \A p \in Refreshers : pc[p] \in {"idle", "clear", "update", "assign"}
      BY DEF Doomed, Loaded, ReportInv, TypeOK
    <2>2. ASSUME NEW p \in Refreshers, refresh(p) PROVE Doomed'
      BY <2>1, <2>2 DEF Doomed, refresh, ExitOnLoad, clear_xml, ClearCrash, updata_xml,
            InsertMedia, InsertLogs, OpenToWrite, WriteCleared, WriteUpdated, At
    <2>3. CASE Handlers \/ Others
      <3>1. file' = file
        BY <2>3 DEF Handlers, Others, Join, lostconn, endcutlod, m2cnewlog, l2ctask, TakeCut,
              assignwork, TakeSignal, SendTicket
      <3>2. \/ pc' = pc
            \/ \E p \in Refreshers, to \in {"clear", "idle"} : pc' = [pc EXCEPT ![p] = to]
        BY <2>3 DEF Handlers, Others, Join, lostconn, endcutlod, m2cnewlog, l2ctask, TakeCut,
              assignwork, TakeSignal, SendTicket, Refresh, At, Go
      <3> QED
        BY <2>1, <3>1, <3>2 DEF Doomed
    <2>4. CASE Restart
      BY <2>1, <2>4 DEF Restart, Doomed
    <2> QED
      BY <2>2, <2>3, <2>4 DEF Next
  <1> QED
    BY <1>1, ReportAlways, PTL DEF Spec, EmptyIsForever
=============================================================================
