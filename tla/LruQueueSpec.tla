---------------------------- MODULE LruQueueSpec ----------------------------
(***************************************************************************)
(* What an Lru promises: a queue of entries in the order of insertion,     *)
(* with at most one entry per key and, with a capacity, at most that many. *)
(***************************************************************************)
EXTENDS LruQueue

CONSTANTS LKeys, Values, Caps, NoCap

VARIABLES q, cap, ret

qVars == <<q, cap, ret>>

QInit == q = <<>> /\ cap \in Caps /\ ret = "ok"

Full == cap # NoCap /\ cap =< Len(q)

QInsert(k, v) ==
    \/ HasKey(q, k) /\ ret' = "exists" /\ UNCHANGED q
    \/ ~HasKey(q, k) /\ Full /\ q = <<>> /\ ret' = "empty" /\ UNCHANGED q
    \/ /\ ~HasKey(q, k)
       /\ Full => q # <<>>
       /\ q' = PushBack(IF Full THEN Tail(q) ELSE q, k, v)
       /\ ret' = "ok"

QRemoveHead ==
    \/ q = <<>> /\ ret' = "empty" /\ UNCHANGED q
    \/ q # <<>> /\ ret' = Head(q).v /\ q' = Tail(q)

QRemove(k) ==
    \/ ~HasKey(q, k) /\ ret' = "none" /\ UNCHANGED q
    \/ HasKey(q, k) /\ ret' = ValueAt(q, k) /\ q' = Without(q, k)

QNext ==
    /\ \/ \E k \in LKeys, v \in Values : QInsert(k, v)
       \/ QRemoveHead
       \/ \E k \in LKeys : QRemove(k)
    /\ UNCHANGED cap

QSpec == QInit /\ [][QNext]_qVars
=============================================================================
