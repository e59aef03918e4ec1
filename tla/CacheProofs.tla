---------------------------- MODULE CacheProofs -----------------------------
(***************************************************************************)
(* Proofs that Tlrfu keeps the contract of ContentCache: the bytes it      *)
(* accounts for are the bytes it stores, and every step of every call is   *)
(* one that the contract allows.                                           *)
(***************************************************************************)
EXTENDS TlrfuProofs, Induction, FiniteSetTheorems, TLAPS

-----------------------------------------------------------------------------
(* The number of bytes stored, a sum over the keys.                        *)

\* The element that the sum over s takes first.
First(s) == CHOOSE x \in s : TRUE

\* g gives every subset of S the sum of c over it.
Sums(g, c, S) ==
    /\ g \in [SUBSET S -> Nat]
    /\ g[{}] = 0
    /\ \A s \in SUBSET S : s # {} => g[s] = c[First(s)] + g[s \ {First(s)}]

\* The sum of the contract, as a recursion that takes the first element out.
LEMMA BytesDef ==
    ASSUME NEW S, IsFiniteSet(S), NEW c \in [S -> Nat]
    PROVE  \E g : Sums(g, c, S) /\ Contract!Bytes(c) = g[S]
<1> DEFINE V == [SUBSET S -> Nat]
           More(h) == [s \in SUBSET S |-> IF s = {} THEN 0 ELSE c[First(s)] + h[s \ {First(s)}]]
           base == [s \in SUBSET S |-> 0]
           step == [x \in Nat \X V |-> More(x[2])]
           Eqn(h) == h = [s \in SUBSET S |-> IF s = {} THEN 0
                            ELSE c[CHOOSE x \in s : TRUE] + h[s \ {CHOOSE x \in s : TRUE}]]
           g == CHOOSE h : Eqn(h)
<1>1. \A s \in SUBSET S : s # {} => First(s) \in s
  BY Zenon DEF First
<1>2. ASSUME NEW h \in V PROVE More(h) \in V
  BY <1>1
<1>3. step \in [Nat \X V -> V] /\ base \in V
  BY <1>2, Zenon
<1>4. \A n \in Nat, h \in V : step[<<n, h>>] = More(h)
  BY Zenon
<1> HIDE DEF step, base
<1>5. PICK F : Follows(F, V, base, step)
  BY <1>3, Recursion, Zenon
<1>6. \A n \in Nat : F[n] \in V /\ F[n + 1] = More(F[n])
  BY <1>4, <1>5, Zenon DEF Follows
<1>7. \A s \in SUBSET S : IsFiniteSet(s) /\ Cardinality(s) \in Nat
  BY FS_Subset, FS_CardinalityType, Zenon
<1> DEFINE G == [s \in SUBSET S |-> F[Cardinality(s)][s]]
<1>8. Eqn(G)
  <2>1. ASSUME NEW s \in SUBSET S, s = {} PROVE G[s] = 0
    <3>1. Cardinality(s) = 0
      BY <2>1, FS_EmptySet, Zenon
    <3>2. F[0] = base /\ base[s] = 0
      BY <1>5, Zenon DEF Follows, base
    <3> QED BY <3>1, <3>2, Zenon
  <2>2. ASSUME NEW s \in SUBSET S, s # {} PROVE G[s] = c[First(s)] + G[s \ {First(s)}]
    <3>1. PICK x : x = First(s)
      BY Zenon
    <3>2. PICK n \in Nat : n = Cardinality(s \ {x})
      BY <1>7, Zenon
    <3>3. Cardinality(s) = n + 1
      <4>1. Cardinality(s \ {x}) = Cardinality(s) - 1
        BY <1>1, <1>7, <2>2, <3>1, FS_RemoveElement, Zenon
      <4> QED BY <1>7, <3>2, <4>1
    <3>4. F[n + 1][s] = c[x] + F[n][s \ {x}]
      BY <1>6, <2>2, <3>1, Zenon
    <3> QED BY <3>1, <3>2, <3>3, <3>4, Zenon
  <2> QED BY <2>1, <2>2, Zenon DEF First
<1>9. Eqn(g)
  BY <1>8, Zenon
<1>10. Contract!Bytes(c) = g[S]
  BY Zenon DEF Contract!Bytes, Contract!MapThenSumSet, Contract!MapThenFoldSet
<1> HIDE DEF G, g
<1>11. \A s \in SUBSET S : g[s] \in Nat
  <2> DEFINE T == {m \in Nat : \A s \in SUBSET S : Cardinality(s) = m => g[s] \in Nat}
  <2>1. 0 \in T
    <3>1. g[{}] = 0
      BY <1>9, Zenon
    <3> QED BY <1>7, <3>1, FS_EmptySet, Zenon
  <2>2. ASSUME NEW n \in Nat, n \in T PROVE n + 1 \in T
    <3> SUFFICES ASSUME NEW s \in SUBSET S, Cardinality(s) = n + 1 PROVE g[s] \in Nat
      OBVIOUS
    <3>1. s # {}
      BY FS_EmptySet
    <3>2. PICK x : x = First(s)
      BY Zenon
    <3>3. x \in S /\ Cardinality(s \ {x}) = n
      <4>1. Cardinality(s \ {x}) = Cardinality(s) - 1
        BY <1>1, <1>7, <3>1, <3>2, FS_RemoveElement, Zenon
      <4> QED BY <1>1, <3>1, <3>2, <4>1
    <3>4. g[s] = c[x] + g[s \ {x}]
      BY <1>9, <3>1, <3>2, Zenon DEF First
    <3> QED BY <2>2, <3>3, <3>4
  <2> HIDE DEF T
  <2>3. Nat \subseteq T
    BY <2>1, <2>2, Induct, Zenon
  <2> QED BY <1>7, <2>3, Zenon DEF T
<1>12. Sums(g, c, S)
  <2>1. g \in [SUBSET S -> Nat]
    BY <1>9, <1>11, Zenon
  <2>2. g[{}] = 0
    BY <1>9, Zenon
  <2>3. ASSUME NEW s \in SUBSET S, s # {} PROVE g[s] = c[First(s)] + g[s \ {First(s)}]
    BY <1>9, <2>3, Zenon DEF First
  <2> QED BY <2>1, <2>2, <2>3, Zenon DEF Sums
<1> QED BY <1>10, <1>12, Zenon

AnyFirst(g, c, S) == \A s \in SUBSET S : \A x \in s : g[s] = c[x] + g[s \ {x}]

\* Any element may be taken first.
LEMMA SumsAny ==
    ASSUME NEW S, IsFiniteSet(S), NEW c \in [S -> Nat], NEW g, Sums(g, c, S)
    PROVE  AnyFirst(g, c, S)
<1> DEFINE T == {m \in Nat : \A s \in SUBSET S : Cardinality(s) = m =>
                                 \A x \in s : g[s] = c[x] + g[s \ {x}]}
<1>1. \A s \in SUBSET S : IsFiniteSet(s) /\ Cardinality(s) \in Nat
  BY FS_Subset, FS_CardinalityType, Zenon
<1>2. 0 \in T
  BY <1>1, FS_EmptySet, Zenon
<1>3. ASSUME NEW n \in Nat, n \in T PROVE n + 1 \in T
  <2> SUFFICES ASSUME NEW s \in SUBSET S, Cardinality(s) = n + 1, NEW x \in s
               PROVE  g[s] = c[x] + g[s \ {x}]
    OBVIOUS
  <2>1. PICK y : y = First(s)
    BY Zenon
  <2>2. y \in s /\ g[s] = c[y] + g[s \ {y}]
    BY <2>1, Zenon DEF Sums, First
  <2>3. CASE x = y
    BY <2>2, <2>3, Zenon
  <2>4. CASE x # y
    <3>1. PICK sx : sx = s \ {x}
      BY Zenon
    <3>2. PICK sy : sy = s \ {y}
      BY Zenon
    <3>3. PICK r : r = sx \ {y}
      BY Zenon
    <3>4. Cardinality(sx) = n /\ Cardinality(sy) = n
      <4>1. Cardinality(sx) = Cardinality(s) - 1
        BY <1>1, <3>1, FS_RemoveElement, Zenon
      <4>2. Cardinality(sy) = Cardinality(s) - 1
        BY <1>1, <2>2, <3>2, FS_RemoveElement, Zenon
      <4> QED BY <4>1, <4>2
    <3>5. /\ sx \in SUBSET S /\ sy \in SUBSET S /\ r \in SUBSET S
          /\ y \in sx /\ x \in sy /\ r = sy \ {x}
      BY <2>2, <2>4, <3>1, <3>2, <3>3, Zenon
    <3>6. g[sx] = c[y] + g[r] /\ g[sy] = c[x] + g[r]
      <4>1. \A u \in SUBSET S : Cardinality(u) = n => \A z \in u : g[u] = c[z] + g[u \ {z}]
        BY <1>3, Zenon
      <4>2. g[sx] = c[y] + g[sx \ {y}] /\ g[sy] = c[x] + g[sy \ {x}]
        BY <3>4, <3>5, <4>1, Zenon
      <4> QED BY <3>3, <3>5, <4>2, Zenon
    <3>7. c[x] \in Nat /\ c[y] \in Nat /\ g[r] \in Nat
      BY <2>2, <3>5, Zenon DEF Sums
    <3> QED BY <2>2, <3>1, <3>2, <3>6, <3>7
  <2> QED BY <2>3, <2>4, Zenon
<1> HIDE DEF T
<1>4. Nat \subseteq T
  BY <1>2, <1>3, Induct, Zenon
<1> QED BY <1>1, <1>4, Zenon DEF T, AnyFirst

\* The sum over a set depends on the members of the set only.
LEMMA SumsAgree ==
    ASSUME NEW S, NEW c \in [S -> Nat], NEW g, Sums(g, c, S),
           NEW R, NEW d \in [R -> Nat], NEW h, Sums(h, d, R),
           IsFiniteSet(S), S \subseteq R, \A x \in S : c[x] = d[x]
    PROVE  g[S] = h[S]
<1> DEFINE T == {m \in Nat : \A s \in SUBSET S : Cardinality(s) = m => g[s] = h[s]}
<1>1. \A s \in SUBSET S : IsFiniteSet(s) /\ Cardinality(s) \in Nat
  BY FS_Subset, FS_CardinalityType, Zenon
<1>2. 0 \in T
  BY <1>1, FS_EmptySet, Zenon DEF Sums
<1>3. ASSUME NEW n \in Nat, n \in T PROVE n + 1 \in T
  <2> SUFFICES ASSUME NEW s \in SUBSET S, Cardinality(s) = n + 1 PROVE g[s] = h[s]
    OBVIOUS
  <2>1. PICK y : y = First(s)
    BY Zenon
  <2>2. s # {}
    BY FS_EmptySet
  <2>3. /\ y \in s /\ s \in SUBSET R
        /\ g[s] = c[y] + g[s \ {y}] /\ h[s] = d[y] + h[s \ {y}]
    BY <2>1, <2>2, Zenon DEF Sums, First
  <2>4. Cardinality(s \ {y}) = n
    <3>1. Cardinality(s \ {y}) = Cardinality(s) - 1
      BY <1>1, <2>3, FS_RemoveElement, Zenon
    <3> QED BY <3>1
  <2>5. g[s \ {y}] = h[s \ {y}]
    BY <1>3, <2>4, Zenon
  <2> QED BY <2>3, <2>5, Zenon
<1> HIDE DEF T
<1>4. Nat \subseteq T
  BY <1>2, <1>3, Induct, Zenon
<1> QED BY <1>1, <1>4, Zenon DEF T

\* What storing a body adds to the bytes stored, and removing one takes away.
LEMMA BytesPut ==
    ASSUME NEW S, IsFiniteSet(S), NEW c \in [S -> Nat], NEW x, x \notin S, NEW n \in Nat
    PROVE  Contract!Bytes(c) \in Nat /\ Contract!Bytes(Put(c, x, n)) = Contract!Bytes(c) + n
<1>1. PICK R : R = S \cup {x}
  BY Zenon
<1>2. PICK d : d = Put(c, x, n)
  BY Zenon
<1>3. /\ IsFiniteSet(R) /\ S \subseteq R /\ x \in R /\ R \ {x} = S
      /\ d \in [R -> Nat] /\ d[x] = n /\ \A y \in S : c[y] = d[y]
  <2>1. IsFiniteSet(R)
    BY <1>1, FS_AddElement, Zenon
  <2>2. d = [y \in R |-> IF y = x THEN n ELSE c[y]]
    <3>1. DOMAIN c = S
      BY Zenon
    <3> QED BY <1>1, <1>2, <3>1, Zenon DEF Put
  <2> QED BY <1>1, <2>1, <2>2, Zenon
<1>4. PICK g : Sums(g, c, S) /\ Contract!Bytes(c) = g[S]
  BY BytesDef, Zenon
<1>5. PICK h : Sums(h, d, R) /\ Contract!Bytes(d) = h[R]
  BY <1>3, BytesDef, Zenon
<1>6. h[R] = n + h[S]
  <2>1. AnyFirst(h, d, R)
    <3>1. IsFiniteSet(R) /\ d \in [R -> Nat] /\ Sums(h, d, R)
      BY <1>3, <1>5, Zenon
    <3> QED BY <3>1, SumsAny, Zenon
  <2> QED BY <1>3, <2>1, Zenon DEF AnyFirst
<1>7. g[S] = h[S]
  <2>1. /\ Sums(g, c, S) /\ d \in [R -> Nat] /\ Sums(h, d, R)
        /\ S \subseteq R /\ \A y \in S : c[y] = d[y]
    BY <1>3, <1>4, <1>5, Zenon
  <2> QED BY <2>1, SumsAgree
<1>8. g[S] \in Nat
  BY <1>4, Zenon DEF Sums
<1> QED BY <1>2, <1>4, <1>5, <1>6, <1>7, <1>8

\* An entry that leaves takes its bytes with it.
LEMMA BytesDel ==
    ASSUME NEW S, IsFiniteSet(S), NEW c \in [S -> Nat], NEW x \in S
    PROVE  Contract!Bytes(Del(c, x)) \in Nat /\ Contract!Bytes(c) = Contract!Bytes(Del(c, x)) + c[x]
<1>1. PICK d : d = Del(c, x)
  BY Zenon
<1>2. d \in [S \ {x} -> Nat] /\ c = Put(d, x, c[x])
  BY <1>1, Zenon DEF Del, Restrict, Put
<1>3. IsFiniteSet(S \ {x})
  BY FS_RemoveElement, Zenon
<1>4. PICK R : R = S \ {x}
  BY Zenon
<1> QED BY <1>1, <1>2, <1>3, <1>4, BytesPut

\* An empty cache holds no bytes.
LEMMA BytesEmpty == Contract!Bytes(EmptyMap) = 0
<1>1. PICK S : S = {}
  BY Zenon
<1>2. IsFiniteSet(S) /\ EmptyMap \in [S -> Nat]
  BY <1>1, FS_EmptySet, Zenon DEF EmptyMap
<1>3. PICK g : Sums(g, EmptyMap, S) /\ Contract!Bytes(EmptyMap) = g[S]
  BY <1>2, BytesDef, Zenon
<1> QED BY <1>1, <1>3, Zenon DEF Sums

-----------------------------------------------------------------------------
(* The accounting of the cache.                                            *)

SizeInv == IndexInv /\ IsFiniteSet(DOMAIN store) /\ UsedSizeExact

\* The length of a stored body.
LEMMA BodiesTyped ==
    ASSUME IndexInv
    PROVE  /\ DOMAIN Bodies = DOMAIN store /\ Bodies \in [DOMAIN store -> Nat]
           /\ \A k \in DOMAIN store : store[k] \in Datas /\ Bodies[k] = store[k].len
<1>1. ASSUME NEW k \in DOMAIN store PROVE store[k] \in Datas /\ store[k].len \in Nat
  <2>1. store[k] \in Datas
    BY Zenon DEF IndexInv, TypeOK, StoreType
  <2> QED BY <2>1, LengthsAssumption, Zenon DEF Datas
<1> QED BY <1>1, Zenon DEF Bodies

\* get leaves every body as it is.
LEMMA RenewBodies ==
    ASSUME NEW k \in DOMAIN store, NEW t, store' = Put(store, k, Promoted(k, t))
    PROVE  Bodies' = Bodies /\ DOMAIN store' = DOMAIN store
<1>1. DOMAIN store' = DOMAIN store
  BY Zenon DEF Put
<1>2. \A x \in DOMAIN store : store'[x].len = store[x].len
  BY Zenon DEF Put, Promoted
<1> QED BY <1>1, <1>2, Zenon DEF Bodies

\* An eviction and an expiry remove the body of one key.
LEMMA DropBodies ==
    ASSUME NEW k, k \in DOMAIN store, store' = Del(store, k)
    PROVE  Bodies' = Del(Bodies, k) /\ DOMAIN store' = DOMAIN store \ {k}
BY Zenon DEF Bodies, Del, Restrict

\* insert adds the body of one key.
LEMMA StoreBodies ==
    ASSUME InsertFinish
    PROVE  /\ Bodies' = Put(Bodies, call.key, call.len)
           /\ DOMAIN store' = DOMAIN store \cup {call.key}
<1>1. PICK d : d.len = call.len /\ store' = Put(store, call.key, d)
  <2>1. PICK t \in Reads :
          store' = Put(store, call.key, [len |-> call.len, freq |-> 1,
                         lru_k |-> NewKey(freq, 1), ttl |-> t + TtlBuf])
    BY Zenon DEF InsertFinish
  <2> QED BY <2>1, Zenon
<1>2. /\ DOMAIN store' = DOMAIN store \cup {call.key}
      /\ \A x \in DOMAIN store' : store'[x] = IF x = call.key THEN d ELSE store[x]
  BY <1>1, Zenon DEF Put
<1> QED BY <1>1, <1>2, Zenon DEF Bodies, Put

\* The loops take from used_size what they take from the store.
LEMMA DropKeepsSize ==
    ASSUME SizeInv, NEW k, k \in DOMAIN store, store' = Del(store, k),
           used_size' = used_size - store[k].len
    PROVE  IsFiniteSet(DOMAIN store)' /\ UsedSizeExact'
<1>1. PICK S : S = DOMAIN store
  BY Zenon
<1>2. PICK c : c = Bodies
  BY Zenon
<1>3. IsFiniteSet(S) /\ c \in [S -> Nat] /\ k \in S /\ c[k] = store[k].len
  BY <1>1, <1>2, BodiesTyped, Zenon DEF SizeInv
<1>4. Contract!Bytes(Del(c, k)) \in Nat /\ Contract!Bytes(c) = Contract!Bytes(Del(c, k)) + c[k]
  BY <1>3, BytesDel, Zenon
<1>5. Bodies' = Del(c, k) /\ DOMAIN store' = S \ {k}
  BY <1>1, <1>2, DropBodies, Zenon
<1>6. used_size' = Contract!Bytes(Del(c, k))
  <2>1. c[k] \in Nat /\ used_size = Contract!Bytes(c)
    BY <1>2, <1>3, Zenon DEF SizeInv, UsedSizeExact
  <2> QED BY <1>3, <1>4, <2>1
<1>7. IsFiniteSet(S \ {k})
  BY <1>3, FS_RemoveElement, Zenon
<1> QED BY <1>5, <1>6, <1>7, Zenon DEF UsedSizeExact

\* The end of an insert adds the bytes of the entry it stores.
LEMMA InsertKeepsSize ==
    ASSUME SizeInv, InsertFinish
    PROVE  IsFiniteSet(DOMAIN store)' /\ UsedSizeExact'
<1>1. PICK S : S = DOMAIN store
  BY Zenon
<1>2. PICK c : c = Bodies
  BY Zenon
<1>3. IsFiniteSet(S) /\ c \in [S -> Nat] /\ call.key \notin S /\ call.len \in Nat
  BY <1>1, <1>2, BodiesTyped, InsertCallShape, LengthsAssumption, Zenon
     DEF SizeInv, IndexInv, InsertPending, InsertFinish
<1>4. Contract!Bytes(Put(c, call.key, call.len)) = Contract!Bytes(c) + call.len
  BY <1>3, BytesPut
<1>5. Bodies' = Put(c, call.key, call.len) /\ DOMAIN store' = S \cup {call.key}
  BY <1>1, <1>2, StoreBodies, Zenon
<1>6. used_size' = used_size + call.len /\ used_size = Contract!Bytes(c)
  BY <1>2, Zenon DEF InsertFinish, SizeInv, UsedSizeExact
<1>7. IsFiniteSet(S \cup {call.key})
  BY <1>3, FS_AddElement, Zenon
<1> QED BY <1>4, <1>5, <1>6, <1>7, Zenon DEF UsedSizeExact

\* A cache with no keys holds no bytes.
LEMMA NoBodies ==
    ASSUME DOMAIN store = {}
    PROVE  Bodies = EmptyMap /\ Contract!Bytes(Bodies) = 0 /\ IsFiniteSet(DOMAIN store)
<1>1. Bodies = EmptyMap
  BY Zenon DEF Bodies, EmptyMap
<1> QED BY <1>1, BytesEmpty, FS_EmptySet, Zenon

\* A new cache is empty and its size is 0.
LEMMA SizeInvInit == Init => SizeInv
<1> SUFFICES ASSUME Init PROVE SizeInv
  BY Zenon
<1>1. DOMAIN store = {} /\ used_size = 0
  BY Zenon DEF Init, EmptyMap
<1> QED BY <1>1, NoBodies, IndexInvInit, Zenon DEF SizeInv, UsedSizeExact

\* Every step accounts for the bytes it stores or drops.
LEMMA SizeInvStep == SizeInv /\ [Next]_vars => SizeInv'
<1> SUFFICES ASSUME SizeInv, [Next]_vars PROVE IsFiniteSet(DOMAIN store)' /\ UsedSizeExact'
  BY IndexInvStep, Zenon DEF SizeInv
<1>1. CASE Evict
  BY <1>1, DropKeepsSize, Zenon DEF Evict
<1>2. CASE CleanOne
  BY <1>2, DropKeepsSize, Zenon DEF CleanOne
<1>3. CASE InsertFinish
  BY <1>3, InsertKeepsSize, Zenon
<1>4. CASE Purge
  <2>1. DOMAIN store' = {} /\ used_size' = 0
    BY <1>4, Zenon DEF Purge, EmptyMap
  <2>2. Bodies' = EmptyMap
    BY <2>1, Zenon DEF Bodies, EmptyMap
  <2> QED BY <2>1, <2>2, BytesEmpty, FS_EmptySet, Zenon DEF UsedSizeExact
<1>5. ASSUME NEW k \in Keys, GetHit(k) \/ GetStale(k)
      PROVE  IsFiniteSet(DOMAIN store)' /\ UsedSizeExact'
  <2>1. k \in DOMAIN store /\ used_size' = used_size
    BY <1>5, Zenon DEF GetHit, GetStale
  <2>2. PICK t : store' = Put(store, k, Promoted(k, t))
    BY <1>5, Zenon DEF GetHit, GetStale
  <2> QED BY <2>1, <2>2, RenewBodies, Zenon DEF SizeInv, UsedSizeExact
<1>6. CASE store' = store /\ used_size' = used_size
  BY <1>6, Zenon DEF SizeInv, UsedSizeExact, Bodies
<1> QED BY <1>1, <1>2, <1>3, <1>4, <1>5, <1>6, Zenon
        DEF Next, Get, LoopStep, GetMiss, InsertExists, InsertBegin, CleanBegin,
            InsertTooBig, CleanDone, CleanOrphan, cache, vars

\* used_size is the sum of the lengths of the stored bodies in every
\* reachable state, for any clock.
THEOREM UsedSizeAlwaysExact == Spec => []UsedSizeExact
<1>1. SizeInv => UsedSizeExact
  BY Zenon DEF SizeInv
<1> QED BY SizeInvInit, SizeInvStep, <1>1, PTL DEF Spec

-----------------------------------------------------------------------------
(* The loops of insert and process_ttl_clean_up.                           *)

\* The call goes on after the step, and the step took one entry out of the
\* finitely many stored.
TurnTakesOne ==
    call # NoCall /\ call' = call =>
      /\ IsFiniteSet(DOMAIN store)
      /\ Cardinality(DOMAIN store') = Cardinality(DOMAIN store) - 1

\* Every turn of the loop at 99-115 and of the loop at 146-178 that does not
\* end its call takes exactly one entry out of a finite store, for any clock:
\* a call takes at most as many turns as there are entries when it begins.
THEOREM EveryTurnTakesOne == Spec => [][TurnTakesOne]_vars
<1>1. SizeInv /\ [Next]_vars => [TurnTakesOne]_vars
  <2> SUFFICES ASSUME SizeInv, Next, call # NoCall, call' = call
               PROVE  /\ IsFiniteSet(DOMAIN store)
                      /\ Cardinality(DOMAIN store') = Cardinality(DOMAIN store) - 1
    BY Zenon DEF TurnTakesOne
  <2>1. Evict \/ CleanOne
    BY Zenon DEF Next, Get, GetMiss, GetHit, GetStale, InsertExists, InsertBegin, CleanBegin,
                 Purge, LoopStep, InsertTooBig, InsertFinish, CleanDone, CleanOrphan, Idle, Return
  <2>2. PICK k : k \in DOMAIN store /\ store' = Del(store, k)
    BY <2>1, Zenon DEF Evict, CleanOne
  <2>3. DOMAIN store' = DOMAIN store \ {k}
    BY <2>2, DropBodies, Zenon
  <2>4. IsFiniteSet(DOMAIN store)
    BY Zenon DEF SizeInv
  <2> QED BY <2>2, <2>3, <2>4, FS_RemoveElement, Zenon
<1> QED BY SizeInvInit, SizeInvStep, <1>1, PTL DEF Spec

-----------------------------------------------------------------------------
(* The cache implements its contract.                                      *)

\* With a clock that advances the expiry index is whole; with any other the
\* contract admits its errors.
ContractInv == SizeInv /\ (ClockAdvances => StrictInv)

\* What get answers, and that it changes no body.
LEMMA GetMaps ==
    ASSUME ContractInv, NEW k \in Keys, Get(k)
    PROVE  Contract!CcGet(k)
<1> USE DEF Contract!CcGet, Contract!Idle, Contract!NoCall, Contract!Answer,
            Idle, NoCall, Return
<1>0. DOMAIN Bodies = DOMAIN store
  BY Zenon DEF Bodies
<1>1. CASE GetMiss(k)
  <2>1. Bodies' = Bodies
    BY <1>1, Zenon DEF GetMiss, cache, Bodies
  <2> QED BY <1>0, <1>1, <2>1, Zenon DEF GetMiss
<1>2. CASE GetHit(k)
  <2>1. k \in DOMAIN store /\ \E t : store' = Put(store, k, Promoted(k, t))
    BY <1>2, Zenon DEF GetHit
  <2>2. Bodies' = Bodies
    BY <2>1, RenewBodies, Zenon
  <2> QED BY <1>0, <1>2, <2>1, <2>2, Zenon DEF GetHit
<1>3. CASE GetStale(k)
  <2>1. k \in DOMAIN store /\ \E t : store' = Put(store, k, Promoted(k, t))
    BY <1>3, Zenon DEF GetStale
  <2>2. Bodies' = Bodies
    BY <2>1, RenewBodies, Zenon
  <2>3. ~ClockAdvances
    BY <1>3, Zenon DEF GetStale, ContractInv, StrictInv, TtlIndexAgrees, TtlAgree
  <2> QED BY <1>0, <1>3, <2>1, <2>2, <2>3, Zenon DEF GetStale
<1> QED BY <1>1, <1>2, <1>3, Zenon DEF Get

\* The first part of insert.
LEMMA InsertMaps ==
    ASSUME ContractInv, NEW k \in Keys,
           InsertExists(k) \/ \E n \in Lengths : InsertBegin(k, n)
    PROVE  \E n \in Lengths : Contract!CcInsert(k, n)
<1> USE DEF Contract!CcInsert, Contract!Idle, Contract!NoCall, Contract!Answer,
            Idle, NoCall, Return
<1>0. DOMAIN Bodies = DOMAIN store
  BY Zenon DEF Bodies
<1>1. CASE InsertExists(k)
  <2>1. Bodies' = Bodies /\ k \in DOMAIN store
    BY <1>1, Zenon DEF InsertExists, cache, Bodies
  <2>2. store[k].len \in Lengths
    BY <2>1, BodiesTyped, Zenon DEF ContractInv, SizeInv, Datas
  <2> QED BY <1>0, <1>1, <2>1, <2>2, Zenon DEF InsertExists
<1>2. ASSUME NEW n \in Lengths, InsertBegin(k, n) PROVE Contract!CcInsert(k, n)
  <2>1. Bodies' = Bodies
    BY <1>2, Zenon DEF InsertBegin, cache, Bodies
  <2> QED BY <1>0, <1>2, <2>1, Zenon DEF InsertBegin
<1> QED BY <1>1, <1>2, Zenon

\* A turn of the loop of insert drops a body, because the new one does not
\* fit beside those that are left.
LEMMA EvictMaps == ASSUME ContractInv, Evict PROVE Contract!CcEvict
<1>1. PICK k : /\ k \in DOMAIN store /\ store' = Del(store, k)
               /\ UNCHANGED <<call, ret>> /\ call.op = "insert"
  BY Zenon DEF Evict
<1>2. Bodies' = Del(Bodies, k) /\ DOMAIN Bodies = DOMAIN store
  BY <1>1, DropBodies, Zenon DEF Bodies
<1>3. Contract!Bytes(Bodies) + call.len > MaxSize
  BY Zenon DEF Evict, IsSizeExceeded, ContractInv, SizeInv, UsedSizeExact
<1> QED BY <1>1, <1>2, <1>3, Zenon DEF Contract!CcEvict, Contract!Drop, Contract!Del, Del,
                             Contract!Restrict, Restrict

\* When no queue is left to evict from, nothing is stored, and the body is
\* larger than the cache.
LEMMA TooBigMaps == ASSUME ContractInv, InsertTooBig PROVE Contract!CcTooBig
<1>1. DOMAIN store = {}
  BY Zenon DEF InsertTooBig, ContractInv, SizeInv, IndexInv, IndexesAgree, Agree, Queued
<1>2. Bodies = EmptyMap /\ used_size = 0
  BY <1>1, NoBodies, Zenon DEF ContractInv, SizeInv, UsedSizeExact
<1>3. call.op = "insert" /\ call.len > MaxSize
  <2>1. call.len \in Nat
    BY InsertCallShape, LengthsAssumption, Zenon DEF InsertTooBig, ContractInv, SizeInv, IndexInv
  <2> QED BY <1>2, <2>1 DEF InsertTooBig, IsSizeExceeded
<1>4. Bodies' = Bodies
  BY Zenon DEF InsertTooBig, cache, Bodies
<1> QED BY <1>2, <1>3, <1>4, Zenon DEF InsertTooBig, Return, NoCall, Contract!CcTooBig,
           Contract!Answer, Contract!NoCall, Contract!EmptyMap, EmptyMap

\* What insert stores fits.
LEMMA StoreMaps == ASSUME ContractInv, InsertFinish PROVE Contract!CcStore
<1>1. Bodies' = Put(Bodies, call.key, call.len)
  BY StoreBodies, Zenon
<1>2. Contract!Bytes(Bodies') =< MaxSize
  <2>1. UsedSizeExact'
    BY InsertKeepsSize, Zenon DEF ContractInv
  <2>2. used_size' = used_size + call.len /\ ~(used_size + call.len > MaxSize)
    BY Zenon DEF InsertFinish, IsSizeExceeded
  <2>3. used_size \in Int /\ call.len \in Nat
    BY InsertCallShape, LengthsAssumption, Zenon
       DEF InsertFinish, ContractInv, SizeInv, IndexInv, TypeOK
  <2>4. used_size' =< MaxSize
    BY <2>2, <2>3, SizeAssumption
  <2> QED BY <2>1, <2>4, Zenon DEF UsedSizeExact
<1> QED BY <1>1, <1>2, Zenon DEF InsertFinish, Return, NoCall, Contract!CcStore,
           Contract!Answer, Contract!NoCall, Contract!Put, Put

\* A turn of the clean-up drops a body, and its end answers.
LEMMA CleanMaps ==
    ASSUME ContractInv, CleanOne \/ CleanDone \/ CleanOrphan
    PROVE  Contract!CcExpire \/ Contract!CcCleanEnd
<1>1. CASE CleanOne
  <2>1. PICK k : /\ k \in DOMAIN store /\ store' = Del(store, k)
                 /\ UNCHANGED <<call, ret>> /\ call.op = "clean"
    BY <1>1, Zenon DEF CleanOne
  <2>2. Bodies' = Del(Bodies, k) /\ DOMAIN Bodies = DOMAIN store
    BY <2>1, DropBodies, Zenon DEF Bodies
  <2> QED BY <2>1, <2>2, Zenon DEF Contract!CcExpire, Contract!Drop, Contract!Del, Del,
                         Contract!Restrict, Restrict
<1>2. CASE CleanDone
  <2>1. Bodies' = Bodies
    BY <1>2, Zenon DEF CleanDone, cache, Bodies
  <2> QED BY <1>2, <2>1, Zenon DEF CleanDone, Return, NoCall, Contract!CcCleanEnd,
                         Contract!Answer, Contract!NoCall
<1>3. CASE CleanOrphan
  <2>1. Bodies' = Bodies
    BY <1>3, Zenon DEF CleanOrphan, cache, Bodies
  <2>2. ~ClockAdvances
    BY <1>3, NextExpiryShape, Zenon DEF CleanOrphan, ContractInv
  <2> QED BY <1>3, <2>1, <2>2, Zenon DEF CleanOrphan, Return, NoCall, Contract!CcCleanEnd,
                               Contract!Answer, Contract!NoCall
<1> QED BY <1>1, <1>2, <1>3, Zenon

\* Every step of the cache is a step of the contract or a stutter.
LEMMA ContractStepMaps ==
    ContractInv /\ [Next]_vars => [Contract!CcNext]_(Contract!ccVars)
<1> SUFFICES ASSUME ContractInv, [Next]_vars
             PROVE  Contract!CcNext \/ UNCHANGED Contract!ccVars
  BY Zenon
<1>1. CASE CleanBegin
  <2>1. Bodies' = Bodies
    BY <1>1, Zenon DEF CleanBegin, cache, Bodies
  <2> QED BY <1>1, <2>1, Zenon DEF CleanBegin, Idle, NoCall, CleanCall, Contract!CcNext,
             Contract!CcCleanBegin, Contract!Idle, Contract!NoCall, Contract!CleanCall
<1>2. CASE Purge
  <2>1. Bodies' = EmptyMap
    BY <1>2, Zenon DEF Purge, Bodies, EmptyMap
  <2> QED BY <1>2, <2>1, Zenon DEF Purge, Idle, NoCall, EmptyMap, Contract!CcNext,
             Contract!CcPurge, Contract!Idle, Contract!NoCall, Contract!EmptyMap
<1>3. CASE UNCHANGED vars
  BY <1>3, Zenon DEF vars, Bodies, Contract!ccVars
<1>4. CASE LoopStep
  BY <1>4, EvictMaps, TooBigMaps, StoreMaps, CleanMaps, Zenon
     DEF LoopStep, Contract!CcNext, Contract!CcLoopStep
<1>5. CASE \E k \in Keys : Get(k)
  BY <1>5, GetMaps, Zenon DEF Contract!CcNext
<1>6. CASE \E k \in Keys : InsertExists(k) \/ \E n \in Lengths : InsertBegin(k, n)
  BY <1>6, InsertMaps, Zenon DEF Contract!CcNext
<1> QED BY <1>1, <1>2, <1>3, <1>4, <1>5, <1>6, Zenon DEF Next

\* The cache with its three indexes implements the contract that the gateway
\* relies on, with any clock; with one that always advances it never fails on
\* an expiry.
THEOREM CacheKeepsContract == Spec => ImplementsContentCache
<1>1. Init => Contract!CcInit
  <2> SUFFICES ASSUME Init PROVE Contract!CcInit
    BY Zenon
  <2>1. DOMAIN store = {}
    BY Zenon DEF Init, EmptyMap
  <2>2. Bodies = EmptyMap
    BY <2>1, Zenon DEF Bodies, EmptyMap
  <2> QED BY <2>2, Zenon DEF Init, NoCall, EmptyMap, Contract!CcInit, Contract!NoCall,
                   Contract!EmptyMap
<1>2. Init => ContractInv
  BY SizeInvInit, StrictInvInit, Zenon DEF ContractInv
<1>3. ContractInv /\ [Next]_vars => ContractInv'
  <2> SUFFICES ASSUME ContractInv, [Next]_vars PROVE ContractInv'
    BY Zenon
  <2>1. SizeInv'
    BY SizeInvStep, Zenon DEF ContractInv
  <2>2. ASSUME ClockAdvances PROVE StrictInv'
    BY <2>2, StrictInvStep, Zenon DEF ContractInv
  <2>3. ClockAdvances' = ClockAdvances
    BY Zenon DEF ClockAdvances
  <2> QED BY <2>1, <2>2, <2>3, Zenon DEF ContractInv
<1> QED BY <1>1, <1>2, <1>3, ContractStepMaps, PTL
        DEF Spec, ImplementsContentCache, Contract!CcSpec
=============================================================================
