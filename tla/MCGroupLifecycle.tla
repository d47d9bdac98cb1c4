-------------------------- MODULE MCGroupLifecycle --------------------------
(* Small process groups that are closed, for TLC.                            *)
EXTENDS GroupLifecycle

Setting(bytes, inflight, mode) ==
    [pipeline_piece_bytes |-> bytes, max_inflight |-> inflight, transfer_mode |-> mode]

\* One-element pieces; two in flight at the first rank, one at the others.
UnlikeLimits == [r \in Ranks |-> Setting(4, IF r = 0 THEN 2 ELSE 1, AUTO)]

OneCall      == <<"valid">>
BadOperation == <<"bad_operation">>
=============================================================================
