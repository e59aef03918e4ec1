------------------------------ MODULE MCCache -------------------------------
(* The cache and the linked list of cache/lru.rs for TLC, one or the other  *)
(* in each behaviour: three keys, bodies that fit alone, in pairs or not at *)
(* all, and a clock that advances; four keys, with a capacity of zero or    *)
(* three, or without one.                                                   *)
EXTENDS Tlrfu, LinkedLru, TLC

VARIABLE part  \* which of the two is called

MCInit ==
    /\ Init /\ LruInit
    /\ \/ part = "cache" /\ lru.cap = NoCap
       \/ part = "list"

MCNext ==
    \/ part = "cache" /\ Next /\ UNCHANGED lruVars /\ UNCHANGED part
    \/ part = "list" /\ LruNext /\ UNCHANGED vars /\ UNCHANGED part

MCSpec == MCInit /\ [][MCNext]_<<vars, lruVars, part>>

\* Every read of the clock is later than the one before.
StrictClock == {1, 3}

CapsChecked == {0, 3, NoCap}

MCSymmetry == Permutations(Keys) \cup Permutations(Nodes)
=============================================================================
