---------------------------- MODULE MCConsensus -----------------------------
(* Consensus for TLC: certificates of one or two batches, with a           *)
(* transaction that cannot be decoded and a batch of another format.       *)
EXTENDS Consensus

CONSTANTS t1, t2, x

MCPayloads == {<<<<t1, x>>, <<t2>>>>, <<<<t2>>>>, <<<<t1>>, <<Malformed>>>>}
=============================================================================
