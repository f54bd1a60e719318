----------------------------- MODULE MCDispatch -----------------------------
(* Values for the constants of Dispatch.                                    *)
EXTENDS Dispatch

CONSTANTS m1, m2, l1, l2
Symmetric == Permutations(LogServers)

\* types of media servers: HLS_LIVE, which the code maps, or RTSP_LIVE
Live == [m \in MediaServers |-> 1]
RtspLive == [m \in MediaServers |-> 3]

\* no IP text ends in bytes that read as the Workid of a row ...
NoTail == [h \in Hosts |-> {0}]
\* ... or that of m1 reads as Workid 1, and the short '0.0.0.0' as anything ...
HitsFirst == [h \in Hosts |-> IF h = Nobody THEN 0..2 ELSE {1}]
\* ... or that of m1 reads as Workid 2
HitsSecond == [h \in Hosts |-> IF h = m1 THEN {2} ELSE {0}]

NoNew == {<<>>}
HlsLog == [spec |-> 0, type |-> 1]
Pair == {<<>>, <<HlsLog, HlsLog>>}
=============================================================================
