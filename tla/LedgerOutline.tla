--------------------------- MODULE LedgerOutline ----------------------------
(***************************************************************************)
(* Ledger without what a block holds: a log that is only ever extended,     *)
(* one height at a time, of which clients are shown the whole as it stands, *)
(* and which a restart empties.                                             *)
(***************************************************************************)
EXTENDS Naturals, Sequences

CONSTANT Clients

VARIABLES ledger, shown

Nothing == [block_height |-> 0, db |-> <<>>]

OutlineInit == ledger = Nothing /\ shown = [c \in Clients |-> Nothing]

IsPrefixOf(s, t) == Len(s) <= Len(t) /\ SubSeq(t, 1, Len(s)) = s

Grow ==
    /\ ledger'.block_height = ledger.block_height + 1
    /\ IsPrefixOf(ledger.db, ledger'.db)
    /\ UNCHANGED shown

ShowTo(c) == shown' = [shown EXCEPT ![c] = ledger] /\ UNCHANGED ledger

Lose == ledger' = Nothing /\ UNCHANGED shown

OutlineNext == Grow \/ Lose \/ \E c \in Clients : ShowTo(c)

OutlineSpec == OutlineInit /\ [][OutlineNext]_<<ledger, shown>>
=============================================================================
