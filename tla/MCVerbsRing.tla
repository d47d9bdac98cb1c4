---------------------------- MODULE MCVerbsRing -----------------------------
(* Configurations of small process groups for TLC.                           *)
EXTENDS VerbsRing

Setting(bytes, inflight, mode) ==
    [pipeline_piece_bytes |-> bytes, max_inflight |-> inflight, transfer_mode |-> mode]

\* One-element pieces, one in flight: as many batches as a block has elements.
ManyBatches == [r \in Ranks |-> Setting(4, 1, AUTO)]

\* One-element pieces; the default limit at the first rank, one at the others.
UnlikeLimits == [r \in Ranks |-> Setting(4, IF r = 0 THEN 0 ELSE 1, AUTO)]

\* A limit above kMaxInflightLimit, one-element pieces, rendezvous only.
WideOpen == [r \in Ranks |-> Setting(4, 1000000, RENDEZVOUS)]

\* The first rank was started with other environment variables.
UnlikePieces == [r \in Ranks |-> Setting(IF r = 0 THEN 4 ELSE 8, 2, AUTO)]

\* More in flight than the QPs hold, but for one piece at a time in the middle.
UnlikeEnds == [r \in Ranks |-> Setting(4, IF r = 1 THEN 1 ELSE 1000000, AUTO)]

OneCall          == <<"valid">>
TwoCalls         == <<"valid", "valid">>
BadThenValid == <<"bad_operation", "valid">>
RefusedThenValid == <<"invalid_argument", "bad_datatype", "valid">>
=============================================================================
