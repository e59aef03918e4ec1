------------------------------- MODULE Ledger -------------------------------
(***************************************************************************)
(* What clients of the consensus API may rely on: a ledger that grows by    *)
(* whole certificates, executed in the order of their transactions, and     *)
(* queries answered from the ledger as it stands.  The genesis contracts    *)
(* come before all certificates; whether they enter on their own or         *)
(* together with the first certificate is left open.  Consensus implements  *)
(* it with ledger = committed_state.                                        *)
(***************************************************************************)
EXTENDS Naturals, Sequences

CONSTANTS Txs, Undecodable, Genesis, Clients,
    Certificates  \* payloads of certificates

VARIABLES ledger, shown

\* The sequences that f gives for the members of s, one after the other.
FlatMap(f, s) ==
    LET from[t \in Seq(DOMAIN f)] ==
          IF t = <<>> THEN <<>> ELSE f[Head(t)] \o from[Tail(t)]
    IN  from[s]

\* What a transaction leaves in the database, and what a batch leaves.
Effect == [tx \in Txs |-> IF tx \in Undecodable THEN <<>> ELSE <<tx>>]

BatchEffect == [batch \in Seq(Txs) |-> FlatMap(Effect, batch)]

\* The transactions of a certificate that have an effect, in order.
Executed(payload) == FlatMap(BatchEffect, payload)

Whole(payload) == \A i \in DOMAIN payload : payload[i] \in Seq(Txs)

Empty == [block_height |-> 0, db |-> <<>>]

LedgerInit == ledger = Empty /\ shown = [c \in Clients |-> Empty]

\* The genesis contracts enter on their own.
LoadGenesis ==
    /\ ledger = Empty
    /\ ledger' = [ledger EXCEPT !.db = <<Genesis>>]
    /\ UNCHANGED shown

AppendBlock ==
    /\ \E payload \in Certificates :
           /\ Whole(payload)
           /\ ledger' =
                [block_height |-> ledger.block_height + 1,
                 db |-> ledger.db
                        \o (IF ledger = Empty THEN <<Genesis>> ELSE <<>>)
                        \o Executed(payload)]
    /\ UNCHANGED shown

Show(c) ==
    /\ shown' = [shown EXCEPT ![c] = ledger]
    /\ UNCHANGED ledger

\* The ledger lives in memory: a restart begins an empty one.
Restart == ledger' = Empty /\ UNCHANGED shown

LedgerNext == LoadGenesis \/ AppendBlock \/ Restart \/ \E c \in Clients : Show(c)

LedgerSpec == LedgerInit /\ [][LedgerNext]_<<ledger, shown>>
=============================================================================
