-------------------------------- MODULE Maps --------------------------------
(***************************************************************************)
(* The finite maps of the program (HashMap, BTreeMap, HashSet-valued       *)
(* tables), as functions whose domain is the set of keys present; and the  *)
(* queues of waiters of its locks.                                         *)
(***************************************************************************)
EXTENDS Functions, Sequences

\* HashMap::new(), BTreeMap::new()
EmptyMap == [x \in {} |-> x]

\* m maps some of the keys in S to values in T.
IsMap(m, S, T) == DOMAIN m \subseteq S /\ \A x \in DOMAIN m : m[x] \in T

\* map.insert(k, v): adds the entry or overwrites the one under k.
Put(m, k, v) == [x \in DOMAIN m \cup {k} |-> IF x = k THEN v ELSE m[x]]

\* map.remove(&k): no effect when k is absent.
Del(m, k) == Restrict(m, DOMAIN m \ {k})

\* map.get(&k).unwrap_or(d), map.entry(k).or_default()
GetOr(m, k, d) == IF k \in DOMAIN m THEN m[k] ELSE d

\* What dropping the futures of the waiters in P leaves of a queue.
Leave(queue, P) ==
    LET left[i \in 0..Len(queue)] ==
          IF i = 0 THEN <<>>
          ELSE IF queue[i] \in P THEN left[i - 1]
          ELSE Append(left[i - 1], queue[i])
    IN  left[Len(queue)]

\* Nobody is in the queue twice.
NoRepeats(queue) == \A i, j \in DOMAIN queue : queue[i] = queue[j] => i = j
=============================================================================
