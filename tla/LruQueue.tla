------------------------------ MODULE LruQueue ------------------------------
(***************************************************************************)
(* What an Lru<usize, Arc<String>> (cache/lru.rs) is to its user: a queue  *)
(* of entries, oldest first, each under a number that names it.  The       *)
(* linked list that implements it is module LinkedLru.                     *)
(***************************************************************************)
EXTENDS Naturals, Sequences

\* store.contains_key(&k)
HasKey(q, k) == \E i \in DOMAIN q : q[i].k = k

IndexOf(q, k) == CHOOSE i \in DOMAIN q : q[i].k = k

\* The value that remove(&k) returns.
ValueAt(q, k) == q[IndexOf(q, k)].v

\* insert(k, v), for a key that is not in the queue and no capacity.
PushBack(q, k, v) == Append(q, [k |-> k, v |-> v])

\* remove(&k), for a key that is in the queue.
Without(q, k) ==
    LET j == IndexOf(q, k)
    IN  [i \in 1..(Len(q) - 1) |-> IF i < j THEN q[i] ELSE q[i + 1]]

\* The number Tlrfu gives the next entry: get_tail_key() + 1, or 0.
NextKey(q) == IF q = <<>> THEN 0 ELSE q[Len(q)].k + 1

Increasing(q) == \A i, j \in DOMAIN q : i < j => q[i].k < q[j].k
=============================================================================
