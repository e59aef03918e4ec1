----------------------------- MODULE LinkedLru ------------------------------
(***************************************************************************)
(* cache/lru.rs: the queue as a doubly linked list of reference-counted    *)
(* nodes and a map from keys to values and nodes.  The list is one record; *)
(* a node lives from the insert that allocates it to the remove that drops *)
(* the last reference to it.                                               *)
(***************************************************************************)
EXTENDS Naturals, Sequences, FiniteSets, Maps

CONSTANTS
    LKeys,   \* K
    Values,  \* V
    Caps,    \* the capacities to construct a list with, NoCap for None
    NoCap,
    Nodes,   \* addresses for nodes
    Nil      \* the Arc of None

ASSUME CapAssumption  == Caps \subseteq Nat \cup {NoCap}
ASSUME NodeAssumption == Nil \notin Nodes

VARIABLES
    lru,    \* [store: key -> [value, node], links: node -> [data, prev, next],
            \*  head, tail, cap]
    result  \* what the last call returned

lruVars == <<lru, result>>

New(cap) ==
    [store |-> EmptyMap, links |-> EmptyMap, head |-> Nil, tail |-> Nil, cap |-> cap]

LruInit == lru \in {New(c) : c \in Caps} /\ result = "ok"

-----------------------------------------------------------------------------
Contains(l, k) == k \in DOMAIN l.store

\* The links of a neighbour, when there is one.
SetPrev(links, n, p) == IF n = Nil THEN links ELSE [links EXCEPT ![n].prev = p]
SetNext(links, n, x) == IF n = Nil THEN links ELSE [links EXCEPT ![n].next = x]

\* insert without its early return and its eviction: the new node n points
\* back to the old tail, the old tail to n, and n becomes the tail and, if
\* there was no head, the head.
Linked(l, k, v, n) ==
    [store |-> Put(l.store, k, [value |-> v, node |-> n]),
     links |-> Put(SetNext(l.links, l.tail, n), n,
                   [data |-> k, prev |-> l.tail, next |-> Nil]),
     head  |-> IF l.head = Nil THEN n ELSE l.head,
     tail  |-> n,
     cap   |-> l.cap]

\* Mutant: removing the last node leaves the tail where it was.
UnlinkedKeepsTail(l, k) ==
    LET n == l.store[k].node
        p == l.links[n].prev
        x == l.links[n].next
    IN  [store |-> Del(l.store, k),
         links |-> SetNext(SetPrev(Del(l.links, n), x, p), p, x),
         head  |-> IF p = Nil THEN x ELSE l.head,
         tail  |-> l.tail,
         cap   |-> l.cap]

\* remove, for a key that is present: the neighbours are joined, and the
\* tail or the head moves when there is no neighbour on that side.
Unlinked(l, k) ==
    LET n == l.store[k].node
        p == l.links[n].prev
        x == l.links[n].next
    IN  [store |-> Del(l.store, k),
         links |-> SetNext(SetPrev(Del(l.links, n), x, p), p, x),
         head  |-> IF p = Nil THEN x ELSE l.head,
         tail  |-> IF x = Nil THEN p ELSE l.tail,
         cap   |-> l.cap]

FirstKey(l) == l.links[l.head].data

\* Mutant: one entry more than the capacity.
AtCapacityLate(l) == l.cap # NoCap /\ l.cap < Cardinality(DOMAIN l.store)

AtCapacity(l) == l.cap # NoCap /\ l.cap =< Cardinality(DOMAIN l.store)

-----------------------------------------------------------------------------
InsertPresent(k) ==
    /\ Contains(lru, k)
    /\ result' = "exists"
    /\ UNCHANGED lru

\* The eviction fails only on an empty list, that is for a capacity of zero.
InsertFails(k) ==
    /\ ~Contains(lru, k)
    /\ AtCapacity(lru)
    /\ lru.head = Nil
    /\ result' = "empty"
    /\ UNCHANGED lru

Insert(k, v) ==
    /\ ~Contains(lru, k)
    /\ AtCapacity(lru) => lru.head # Nil
    /\ LET room == IF AtCapacity(lru) THEN Unlinked(lru, FirstKey(lru)) ELSE lru
       IN  \E n \in Nodes \ DOMAIN lru.links : lru' = Linked(room, k, v, n)
    /\ result' = "ok"

RemoveHeadEmpty ==
    /\ lru.head = Nil
    /\ result' = "empty"
    /\ UNCHANGED lru

RemoveHead ==
    /\ lru.head # Nil
    /\ result' = lru.store[FirstKey(lru)].value
    /\ lru' = Unlinked(lru, FirstKey(lru))

RemoveAbsent(k) ==
    /\ ~Contains(lru, k)
    /\ result' = "none"
    /\ UNCHANGED lru

Remove(k) ==
    /\ Contains(lru, k)
    /\ result' = lru.store[k].value
    /\ lru' = Unlinked(lru, k)

LruNext ==
    \/ \E k \in LKeys : InsertPresent(k) \/ InsertFails(k)
    \/ \E k \in LKeys, v \in Values : Insert(k, v)
    \/ RemoveHeadEmpty \/ RemoveHead
    \/ \E k \in LKeys : RemoveAbsent(k) \/ Remove(k)

LruSpec == LruInit /\ [][LruNext]_lruVars

-----------------------------------------------------------------------------
(* Properties.                                                             *)

Size(l) == Cardinality(DOMAIN l.store)

\* The nodes met from the head along next, and from the tail along prev.
Forward(l) ==
    LET at[i \in 1..Size(l)] == IF i = 1 THEN l.head ELSE l.links[at[i - 1]].next
    IN  at

Backward(l) ==
    LET at[i \in 1..Size(l)] == IF i = 1 THEN l.tail ELSE l.links[at[i - 1]].prev
    IN  at

\* The list and the map hold the same entries: the walk from the head meets
\* one live node per stored key and ends at the tail, the walk from the tail
\* is the same walk reversed, and no dropped node is linked.  The tests of
\* lru.rs walk the list both ways after each of their calls.
ListMatchesStore ==
    /\ DOMAIN lru.links = {lru.store[k].node : k \in DOMAIN lru.store}
    /\ \A k \in DOMAIN lru.store : lru.links[lru.store[k].node].data = k
    /\ IF Size(lru) = 0 THEN lru.head = Nil /\ lru.tail = Nil
       ELSE /\ Range(Forward(lru)) = DOMAIN lru.links
            /\ \A i \in 1..Size(lru) : Backward(lru)[i] = Forward(lru)[Size(lru) + 1 - i]
            /\ lru.links[lru.tail].next = Nil
            /\ lru.links[lru.head].prev = Nil

\* The queue that a list represents.
Queue(l) ==
    [i \in 1..Size(l) |->
       LET k == l.links[Forward(l)[i]].data IN [k |-> k, v |-> l.store[k].value]]

Abstract == INSTANCE LruQueueSpec WITH q <- Queue(lru), cap <- lru.cap, ret <- result

\* The linked list is a queue in the order of insertion: insert appends,
\* remove takes out the entry of its key and nothing else, remove_head the
\* oldest, and a capacity drops the oldest first.
ImplementsQueue == Abstract!QSpec
=============================================================================
