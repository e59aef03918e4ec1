----------------------------- MODULE TlrfuProofs ----------------------------
(* Theorems about Tlrfu, for every set of keys, every size and every clock. *)
EXTENDS Tlrfu, WellFoundedInduction, TLAPS

\* The lowest frequency exists: BTreeMap::iter().next() on a non-empty map.
LEMMA MinExists ==
    ASSUME NEW S, S \subseteq Nat, S # {}
    PROVE  Min(S) \in S /\ \A x \in S : Min(S) =< x
<1> DEFINE Less == {ss \in Nat \X Nat : ss[1] < ss[2]}
<1>1. IsWellFoundedOn(Less, Nat)
  BY NatLessThanWellFounded, Zenon DEF OpToRel
<1> HIDE DEF Less
<1>2. PICK x \in S : \A y \in S : ~(<<y, x>> \in Less)
  BY <1>1, WFMin, Zenon
<1>3. ASSUME NEW y \in S PROVE x =< y
  <2>1. x \in Nat /\ y \in Nat
    BY Zenon
  <2>2. y < x => <<y, x>> \in Less
    BY <2>1, Zenon DEF Less
  <2> QED BY <1>2, <2>1, <2>2
<1> QED BY <1>3, Zenon DEF Min

Entry == [k : Nat, v : Keys]

\* What is left of a queue after lru.remove(&k).
LEMMA WithoutProps ==
    ASSUME NEW q \in Seq(Entry), Increasing(q), NEW j \in DOMAIN q
    PROVE  LET w == Without(q, q[j].k)
           IN  /\ IndexOf(q, q[j].k) = j
               /\ w \in Seq(Entry)
               /\ Len(w) = Len(q) - 1
               /\ \A i \in DOMAIN w : w[i] = IF i < j THEN q[i] ELSE q[i + 1]
               /\ Increasing(w)
               /\ \A i \in DOMAIN w : \E h \in DOMAIN q : h # j /\ w[i] = q[h]
               /\ \A h \in DOMAIN q : h # j => \E i \in DOMAIN w : w[i] = q[h]
<1> DEFINE w == Without(q, q[j].k)
<1>1. IndexOf(q, q[j].k) = j
  BY DEF IndexOf, Increasing, Entry
<1>2. w = [i \in 1..(Len(q) - 1) |-> IF i < j THEN q[i] ELSE q[i + 1]]
  BY <1>1, Zenon DEF Without
<1>3. w \in Seq(Entry) /\ Len(w) = Len(q) - 1
  BY <1>2
<1>4. \A i \in DOMAIN w : w[i] = IF i < j THEN q[i] ELSE q[i + 1]
  BY <1>2, Zenon
<1>5. Increasing(w)
  <2> SUFFICES ASSUME NEW a \in DOMAIN w, NEW b \in DOMAIN w, a < b
               PROVE  w[a].k < w[b].k
    BY Zenon DEF Increasing
  <2> DEFINE pos(i) == IF i < j THEN i ELSE i + 1
  <2>1. pos(a) \in DOMAIN q /\ pos(b) \in DOMAIN q /\ pos(a) < pos(b)
    BY <1>3
  <2>2. w[a] = q[pos(a)] /\ w[b] = q[pos(b)]
    BY <1>4, Zenon
  <2> QED BY <2>1, <2>2, Zenon DEF Increasing
<1>6. \A i \in DOMAIN w : \E h \in DOMAIN q : h # j /\ w[i] = q[h]
  BY <1>3, <1>4
<1>7. ASSUME NEW h \in DOMAIN q, h # j PROVE \E i \in DOMAIN w : w[i] = q[h]
  <2>1. CASE h < j
    BY <1>3, <1>4, <2>1
  <2>2. CASE h > j
    <3>1. h - 1 \in DOMAIN w /\ w[h - 1] = q[h]
      BY <1>3, <1>4, <2>2
    <3> QED BY <3>1, Zenon
  <2> QED BY <1>7, <2>1, <2>2
<1> QED BY <1>1, <1>3, <1>4, <1>5, <1>6, <1>7, Zenon

-----------------------------------------------------------------------------
(* Taking an entry out of its queue, and putting one at the end of one.    *)

\* Removing the entry of a key from store and from its queue, as insert does
\* with its victim and the clean-up with an expired key, keeps them agreeing.
LEMMA DetachAgrees ==
    ASSUME NEW st, NEW fr, StoreType(st), FreqType(fr), Agree(st, fr),
           NEW key \in DOMAIN st
    PROVE  LET f  == st[key].freq
               fd == Detach(fr, f, st[key].lru_k)
           IN  /\ f \in DOMAIN fr /\ HasKey(fr[f], st[key].lru_k)
               /\ ValueAt(fr[f], st[key].lru_k) = key
               /\ FreqType(fd)
               /\ Agree(Del(st, key), fd)
<1> DEFINE f  == st[key].freq
           q  == fr[f]
           w  == Without(q, st[key].lru_k)
           fd == Detach(fr, f, st[key].lru_k)
           sd == Del(st, key)
<1>1. f \in DOMAIN fr /\ q \in Seq(Entry) /\ Increasing(q)
  BY Zenon DEF Agree, Queued, FreqType, Entry
<1>2. PICK j \in DOMAIN q : q[j] = [k |-> st[key].lru_k, v |-> key]
  BY Zenon DEF Agree, Queued
<1>a. st[key].lru_k = q[j].k
  BY <1>2
<1> HIDE DEF f, q
<1>3. /\ IndexOf(q, st[key].lru_k) = j
      /\ w \in Seq(Entry)
      /\ Increasing(w)
      /\ \A i \in DOMAIN w : \E h \in DOMAIN q : h # j /\ w[i] = q[h]
      /\ \A h \in DOMAIN q : h # j => \E i \in DOMAIN w : w[i] = q[h]
  <2>1. /\ IndexOf(q, q[j].k) = j
        /\ Without(q, q[j].k) \in Seq(Entry)
        /\ Increasing(Without(q, q[j].k))
        /\ \A i \in DOMAIN Without(q, q[j].k) :
             \E h \in DOMAIN q : h # j /\ Without(q, q[j].k)[i] = q[h]
        /\ \A h \in DOMAIN q : h # j =>
             \E i \in DOMAIN Without(q, q[j].k) : Without(q, q[j].k)[i] = q[h]
    BY <1>1, WithoutProps, Zenon
  <2> QED BY <2>1, <1>a
<1>4. HasKey(q, st[key].lru_k) /\ ValueAt(q, st[key].lru_k) = key
  BY <1>2, <1>a, <1>3 DEF HasKey, ValueAt
<1>5. /\ DOMAIN sd = DOMAIN st \ {key}
      /\ \A x \in DOMAIN sd : sd[x] = st[x]
  BY Zenon DEF Del, Restrict
<1>6. fd = IF w = <<>> THEN Del(fr, f) ELSE Put(fr, f, w)
  BY Zenon DEF Detach, q
<1>7. /\ DOMAIN fd = IF w = <<>> THEN DOMAIN fr \ {f} ELSE DOMAIN fr
      /\ \A g \in DOMAIN fd : fd[g] = IF g = f THEN w ELSE fr[g]
  BY <1>1, <1>6, Zenon DEF Del, Put, Restrict
<1> HIDE DEF w, fd, sd
<1>8. FreqType(fd)
  BY <1>3, <1>7, Zenon DEF FreqType, Entry
<1>9. ASSUME NEW h \in DOMAIN q, h # j PROVE q[h].v # key
  <2>1. st[q[h].v].lru_k = q[h].k
    BY <1>1, Zenon DEF Agree, f, q
  <2>2. q[h].k # q[j].k
    <3>1. h < j \/ j < h
      BY <1>1, <1>9
    <3>2. q[h].k < q[j].k \/ q[j].k < q[h].k
      BY <1>1, <3>1, Zenon DEF Increasing
    <3>3. q[h] \in Entry /\ q[j] \in Entry
      BY <1>1
    <3> QED BY <3>2, <3>3 DEF Entry
  <2> QED BY <1>2, <2>1, <2>2
<1>10. ASSUME NEW x \in DOMAIN sd PROVE Queued(sd, fd, x)
  <2>1. Queued(st, fr, x) /\ x # key /\ sd[x] = st[x]
    BY <1>5, Zenon DEF Agree
  <2>2. CASE st[x].freq # f
    BY <1>7, <2>1, <2>2, Zenon DEF Queued
  <2>3. CASE st[x].freq = f
    <3>1. PICK h \in DOMAIN q : q[h] = [k |-> st[x].lru_k, v |-> x]
      BY <2>1, <2>3, Zenon DEF Queued, q
    <3>2. PICK i \in DOMAIN w : w[i] = q[h]
      BY <1>2, <1>3, <2>1, <3>1
    <3>3. w # <<>>
      BY <3>2
    <3> QED BY <1>1, <1>7, <2>1, <2>3, <3>1, <3>2, <3>3 DEF Queued
  <2> QED BY <2>2, <2>3, Zenon
<1>11. ASSUME NEW g \in DOMAIN fd
       PROVE  /\ fd[g] # <<>>
              /\ Increasing(fd[g])
              /\ \A i \in DOMAIN fd[g] :
                   /\ fd[g][i].v \in DOMAIN sd
                   /\ sd[fd[g][i].v].freq = g
                   /\ sd[fd[g][i].v].lru_k = fd[g][i].k
  <2>1. CASE g = f
    BY <1>1, <1>3, <1>5, <1>7, <1>9, <2>1 DEF Agree, q
  <2>2. CASE g # f
    <3>1. g \in DOMAIN fr /\ fd[g] = fr[g]
      BY <1>7, <2>2, Zenon
    <3>2. \A i \in DOMAIN fr[g] : fr[g][i].v # key
      BY <2>2, <3>1 DEF Agree, f
    <3> QED BY <1>5, <3>1, <3>2 DEF Agree
  <2> QED BY <2>1, <2>2, Zenon
<1>12. Agree(sd, fd)
  BY <1>10, <1>11, Zenon DEF Agree
<1> QED BY <1>1, <1>4, <1>8, <1>12, Zenon DEF sd, fd, f, q

\* Adding a key to store and to the end of the queue of its frequency, as get
\* and insert do, keeps them agreeing.
LEMMA AttachAgrees ==
    ASSUME NEW st, NEW fr, StoreType(st), FreqType(fr), Agree(st, fr),
           NEW key \in Keys \ DOMAIN st, NEW d \in Datas,
           d.lru_k = NewKey(fr, d.freq)
    PROVE  /\ FreqType(Attach(fr, d.freq, key))
           /\ StoreType(Put(st, key, d))
           /\ Agree(Put(st, key, d), Attach(fr, d.freq, key))
<1> DEFINE f  == d.freq
           q  == GetOr(fr, f, <<>>)
           e  == [k |-> d.lru_k, v |-> key]
           w  == Append(q, e)
           fa == Attach(fr, f, key)
           sa == Put(st, key, d)
<1>1. f \in Nat \ {0} /\ e \in Entry
  BY Zenon DEF Datas, Entry
<1>2. q \in Seq(Entry) /\ Increasing(q)
  <2>1. CASE f \in DOMAIN fr
    BY <2>1, Zenon DEF Agree, FreqType, Entry, GetOr
  <2>2. CASE f \notin DOMAIN fr
    <3>1. q = <<>>
      BY <2>2, Zenon DEF GetOr
    <3>2. <<>> \in Seq(Entry) /\ Increasing(<<>>)
      BY DEF Increasing
    <3> QED BY <3>1, <3>2, Zenon
  <2> QED BY <2>1, <2>2, Zenon
<1>b. d.lru_k = NextKey(q)
  BY Zenon DEF NewKey
<1>c. \A i \in DOMAIN q : /\ q[i].v \in DOMAIN st
                         /\ st[q[i].v].freq = f
                         /\ st[q[i].v].lru_k = q[i].k
  BY DEF Agree, GetOr
<1>d. /\ f \in DOMAIN fr => q = fr[f]
      /\ Attach(fr, f, key) = Put(fr, f, w)
  BY Zenon DEF GetOr, Attach, PushBack
<1> HIDE DEF f, q, e
<1>3. /\ w \in Seq(Entry) /\ Len(w) = Len(q) + 1 /\ w[Len(w)] = e
      /\ \A i \in DOMAIN q : w[i] = q[i]
  BY <1>1, <1>2
<1>4. \A i \in DOMAIN q : q[i].k < d.lru_k
  <2> SUFFICES ASSUME NEW i \in DOMAIN q PROVE q[i].k < d.lru_k
    BY Zenon
  <2>1. q # <<>> /\ Len(q) \in DOMAIN q
    BY <1>2
  <2>2. d.lru_k = q[Len(q)].k + 1
    BY <1>b, <2>1, Zenon DEF NextKey
  <2>3. q[i] \in Entry /\ q[Len(q)] \in Entry
    BY <1>2, <2>1
  <2>4. i = Len(q) \/ q[i].k < q[Len(q)].k
    BY <1>2, <2>1 DEF Increasing
  <2> QED BY <2>2, <2>3, <2>4 DEF Entry
<1>5. Increasing(w)
  BY <1>2, <1>3, <1>4 DEF Increasing, e
<1>6. fa = Put(fr, f, w)
  BY <1>d, Zenon
<1>7. /\ DOMAIN fa = DOMAIN fr \cup {f}
      /\ \A g \in DOMAIN fa : fa[g] = IF g = f THEN w ELSE fr[g]
  BY <1>6, Zenon DEF Put
<1>8. /\ DOMAIN sa = DOMAIN st \cup {key}
      /\ \A x \in DOMAIN sa : sa[x] = IF x = key THEN d ELSE st[x]
  BY Zenon DEF Put
<1> HIDE DEF w, fa, sa
<1>9. FreqType(fa) /\ StoreType(sa)
  BY <1>1, <1>3, <1>7, <1>8, Zenon DEF FreqType, StoreType, Entry
<1>10. ASSUME NEW x \in DOMAIN sa PROVE Queued(sa, fa, x)
  <2>1. CASE x = key
    <3>1. sa[x] = d /\ fa[f] = w /\ f \in DOMAIN fa
      BY <1>7, <1>8, <2>1, Zenon
    <3>2. Len(w) \in DOMAIN w /\ w[Len(w)] = [k |-> d.lru_k, v |-> key]
      BY <1>2, <1>3 DEF e
    <3> QED BY <2>1, <3>1, <3>2, Zenon DEF Queued, f
  <2>2. CASE x # key
    <3>1. Queued(st, fr, x) /\ sa[x] = st[x]
      BY <1>8, <2>2, Zenon DEF Agree
    <3>2. CASE st[x].freq = f
      BY <1>2, <1>3, <1>7, <1>d, <3>1, <3>2 DEF Queued
    <3>3. CASE st[x].freq # f
      BY <1>7, <3>1, <3>3, Zenon DEF Queued
    <3> QED BY <3>2, <3>3, Zenon
  <2> QED BY <2>1, <2>2, Zenon
<1>11. ASSUME NEW g \in DOMAIN fa
       PROVE  /\ fa[g] # <<>>
              /\ Increasing(fa[g])
              /\ \A i \in DOMAIN fa[g] :
                   /\ fa[g][i].v \in DOMAIN sa
                   /\ sa[fa[g][i].v].freq = g
                   /\ sa[fa[g][i].v].lru_k = fa[g][i].k
  <2>1. CASE g = f
    <3>1. fa[g] = w /\ w # <<>>
      BY <1>2, <1>3, <1>7, <2>1
    <3>2. ASSUME NEW i \in DOMAIN w
          PROVE  /\ w[i].v \in DOMAIN sa
                 /\ sa[w[i].v].freq = g
                 /\ sa[w[i].v].lru_k = w[i].k
      <4>1. CASE i = Len(w)
        BY <1>3, <1>8, <2>1, <4>1 DEF e, f
      <4>2. CASE i # Len(w)
        <5>1. i \in DOMAIN q /\ w[i] = q[i] /\ q[i].v # key
          BY <1>2, <1>3, <1>c, <4>2
        <5> QED BY <1>8, <1>c, <2>1, <5>1
      <4> QED BY <4>1, <4>2, Zenon
    <3> QED BY <1>5, <3>1, <3>2, Zenon
  <2>2. CASE g # f
    BY <1>7, <1>8, <2>2 DEF Agree
  <2> QED BY <2>1, <2>2, Zenon
<1>12. Agree(sa, fa)
  BY <1>10, <1>11, Zenon DEF Agree
<1> QED BY <1>9, <1>12, Zenon DEF sa, fa, f

\* Overwriting an entry is removing it and adding it again: get updates the
\* data in place.
LEMMA PutDel ==
    ASSUME NEW m, NEW k \in DOMAIN m, NEW d
    PROVE  Put(m, k, d) = Put(Del(m, k), k, d)
BY Zenon DEF Put, Del, Restrict

\* Removing an entry from store keeps its type.
LEMMA DelType ==
    ASSUME NEW st, StoreType(st), NEW k
    PROVE  StoreType(Del(st, k))
BY Zenon DEF StoreType, Del, Restrict

\* The number that get and insert compute, tail + 1 or 0, is a natural number.
LEMMA NewKeyType ==
    ASSUME NEW fr, FreqType(fr), NEW f
    PROVE  NewKey(fr, f) \in Nat
<1> DEFINE q == GetOr(fr, f, <<>>)
<1>1. q \in Seq(Entry)
  <2>1. CASE f \in DOMAIN fr
    BY <2>1, Zenon DEF FreqType, Entry, GetOr
  <2>2. CASE f \notin DOMAIN fr
    BY <2>2 DEF GetOr
  <2> QED BY <2>1, <2>2, Zenon
<1> HIDE DEF q
<1>2. CASE q # <<>>
  <2>1. q[Len(q)] \in Entry
    BY <1>1, <1>2
  <2> QED BY <1>2, <2>1 DEF NewKey, NextKey, q, Entry
<1>3. CASE q = <<>>
  BY <1>3, Zenon DEF NewKey, NextKey, q
<1> QED BY <1>2, <1>3, Zenon

\* The data that get leaves in store is well typed.
LEMMA PromotedType ==
    ASSUME TypeOK, IndexesAgree, NEW k \in DOMAIN store, NEW t \in Nat
    PROVE  Promoted(k, t) \in Datas
<1> DEFINE c == store[k]
           n == NewKey(Detach(freq, c.freq, c.lru_k), c.freq + 1)
<1>1. c \in Datas
  BY Zenon DEF TypeOK, StoreType
<1>2. n \in Nat
  BY DetachAgrees, NewKeyType, Zenon DEF TypeOK, IndexesAgree
<1>3. Promoted(k, t) = [len |-> c.len, freq |-> c.freq + 1,
                        lru_k |-> n, ttl |-> t]
  BY Zenon DEF Promoted
<1> HIDE DEF c, n
<1> QED BY <1>1, <1>2, <1>3 DEF Datas

\* The frequency part of get, whatever expiry the entry ends with.
LEMMA PromoteAgrees ==
    ASSUME TypeOK, IndexesAgree, NEW k \in DOMAIN store, Promote(k),
           NEW t \in Nat, NEW d, d = Promoted(k, t)
    PROVE  /\ FreqType(freq')
           /\ StoreType(Put(store, k, d))
           /\ Agree(Put(store, k, d), freq')
<1> DEFINE c  == store[k]
           fd == Detach(freq, c.freq, c.lru_k)
           sd == Del(store, k)
<1>1. StoreType(store) /\ FreqType(freq) /\ Agree(store, freq) /\ k \in Keys
  BY Zenon DEF TypeOK, IndexesAgree, StoreType
<1>2. ValueAt(freq[c.freq], c.lru_k) = k /\ FreqType(fd) /\ Agree(sd, fd)
  BY <1>1, DetachAgrees, Zenon
<1>3. StoreType(sd) /\ k \notin DOMAIN sd
  BY <1>1, DelType, Zenon DEF Del, Restrict
<1>4. c \in Datas /\ d \in Datas
  BY <1>1, PromotedType, Zenon DEF StoreType
<1>5. d.freq = c.freq + 1 /\ d.lru_k = NewKey(fd, c.freq + 1)
  BY <1>4, Zenon DEF Promoted, Datas
<1>6. freq' = Attach(fd, d.freq, k)
  BY <1>2, <1>5, Zenon DEF Promote
<1> HIDE DEF fd, sd
<1>7. FreqType(freq') /\ StoreType(Put(sd, k, d)) /\ Agree(Put(sd, k, d), freq')
  BY <1>1, <1>2, <1>3, <1>4, <1>5, <1>6, AttachAgrees, Zenon
<1> QED BY <1>7, PutDel, Zenon DEF sd

-----------------------------------------------------------------------------
(* The inductive invariant that no clock can break.                        *)

\* The key of an insert in progress is not stored.
InsertPending == call.op = "insert" => call.key \notin DOMAIN store

IndexInv == TypeOK /\ IndexesAgree /\ InsertPending

\* A call in progress whose operation is insert has a key and a length.
LEMMA InsertCallShape ==
    ASSUME TypeOK
    PROVE  /\ call.op = "insert" => call \in InsertCalls
           /\ call.op = "insert" => call.key \in Keys /\ call.len \in Lengths
           /\ call = NoCall => call.op # "insert"
BY DEF TypeOK, NoCall, CleanCall, InsertCalls

\* The cache that Tlrfu::new makes satisfies the invariant.
LEMMA IndexInvInit == Init => IndexInv
<1> SUFFICES ASSUME Init PROVE IndexInv
  BY Zenon
<1>1. DOMAIN store = {} /\ DOMAIN freq = {} /\ DOMAIN ttl = {}
  BY Zenon DEF Init, EmptyMap
<1>2. TypeOK
  BY <1>1 DEF Init, TypeOK, StoreType, FreqType, Results
<1>3. IndexesAgree
  BY <1>1, Zenon DEF IndexesAgree, Agree
<1> QED BY <1>1, <1>2, <1>3, Zenon DEF IndexInv, InsertPending

\* What now() returns, and the expiry computed from it, are natural numbers.
LEMMA ReadsAreTimes == \A t \in Reads : t \in Nat /\ t + TtlBuf \in Nat
BY TimeAssumption DEF Reads

\* A get that renews the expiry preserves the invariant.
LEMMA GetHitIndexInv ==
    ASSUME IndexInv, NEW k \in Keys, GetHit(k)
    PROVE  IndexInv'
<1>1. TypeOK /\ IndexesAgree /\ k \in DOMAIN store /\ Promote(k)
  BY Zenon DEF IndexInv, GetHit
<1>2. PICK t \in Reads :
        /\ clock' = t
        /\ store' = Put(store, k, Promoted(k, t + TtlBuf))
        /\ ttl' = Put(Del(ttl, store[k].ttl), t + TtlBuf, ttl[store[k].ttl])
  BY Zenon DEF GetHit
<1>5. FreqType(freq') /\ StoreType(store') /\ Agree(store', freq')
  BY <1>1, <1>2, ReadsAreTimes, PromoteAgrees, Zenon
<1>6. store[k].ttl \in DOMAIN ttl /\ call' = NoCall /\ ret' = "ok"
      /\ used_size' = used_size
  BY Zenon DEF GetHit, Return
<1>7. DOMAIN ttl' \subseteq Nat /\ \A x \in DOMAIN ttl' : ttl'[x] \in Keys
  BY <1>1, <1>2, <1>6, ReadsAreTimes, Zenon DEF TypeOK, Put, Del, Restrict
<1>8. TypeOK'
  BY <1>1, <1>2, <1>5, <1>6, <1>7, ReadsAreTimes, Zenon DEF TypeOK, Results
<1> QED BY <1>5, <1>6, <1>8, Zenon DEF IndexInv, IndexesAgree, InsertPending, NoCall

\* A get that returns the error at 82 preserves the invariant.
LEMMA GetStaleIndexInv ==
    ASSUME IndexInv, NEW k \in Keys, GetStale(k)
    PROVE  IndexInv'
<1>1. TypeOK /\ IndexesAgree /\ k \in DOMAIN store /\ Promote(k)
  BY Zenon DEF IndexInv, GetStale
<1>2. /\ store' = Put(store, k, Promoted(k, store[k].ttl)) /\ call' = NoCall
      /\ ret' = "stale" /\ UNCHANGED <<ttl, used_size, clock>>
  BY Zenon DEF GetStale, Return
<1>3. store[k].ttl \in Nat
  BY <1>1, Zenon DEF TypeOK, StoreType, Datas
<1>4. FreqType(freq') /\ StoreType(store') /\ Agree(store', freq')
  BY <1>1, <1>2, <1>3, PromoteAgrees, Zenon
<1>5. TypeOK'
  BY <1>1, <1>2, <1>4, Zenon DEF TypeOK, Results
<1> QED BY <1>2, <1>4, <1>5, Zenon DEF IndexInv, IndexesAgree, InsertPending, NoCall

\* A turn of insert's eviction loop preserves the invariant.
LEMMA EvictIndexInv ==
    ASSUME IndexInv, Evict
    PROVE  IndexInv'
<1> DEFINE f == Min(DOMAIN freq)
<1>1. TypeOK /\ IndexesAgree /\ InsertPending
  BY Zenon DEF IndexInv
<1>2. f \in DOMAIN freq
  BY <1>1, MinExists, Zenon DEF Evict, TypeOK, FreqType
<1>3. freq[f] \in Seq(Entry) /\ freq[f] # <<>>
  BY <1>1, <1>2, Zenon DEF TypeOK, FreqType, IndexesAgree, Agree, Entry
<1>4. 1 \in DOMAIN freq[f] /\ Head(freq[f]) = freq[f][1]
  BY <1>3
<1>5. /\ Victim \in DOMAIN store
      /\ store[Victim].freq = f
      /\ store[Victim].lru_k = Head(freq[f]).k
  BY <1>1, <1>2, <1>4 DEF IndexesAgree, Agree, Victim
<1>6. /\ freq' = Detach(freq, f, Head(freq[f]).k)
      /\ store' = Del(store, Victim)
      /\ used_size' = used_size - store[Victim].len
      /\ ttl' = Del(ttl, store[Victim].ttl)
      /\ UNCHANGED <<clock, call, ret>>
  BY Zenon DEF Evict
<1> HIDE DEF f
<1>7. FreqType(freq') /\ StoreType(store') /\ Agree(store', freq')
  BY <1>1, <1>5, <1>6, DetachAgrees, DelType, Zenon DEF TypeOK, IndexesAgree
<1>8. DOMAIN ttl' \subseteq Nat /\ \A x \in DOMAIN ttl' : ttl'[x] \in Keys
  BY <1>1, <1>6, Zenon DEF TypeOK, Del, Restrict
<1>a. store[Victim] \in Datas
  BY <1>1, <1>5, Zenon DEF TypeOK, StoreType
<1>9. used_size' \in Int
  BY <1>1, <1>a, <1>6, LengthsAssumption DEF TypeOK, Datas
<1>10. TypeOK'
  BY <1>1, <1>6, <1>7, <1>8, <1>9, Zenon DEF TypeOK
<1>11. InsertPending'
  BY <1>1, <1>6, Zenon DEF InsertPending, Del, Restrict
<1> QED BY <1>7, <1>10, <1>11, Zenon DEF IndexInv, IndexesAgree

\* The last part of insert preserves the invariant.
LEMMA InsertFinishIndexInv ==
    ASSUME IndexInv, InsertFinish
    PROVE  IndexInv'
<1>1. TypeOK /\ IndexesAgree /\ InsertPending
  BY Zenon DEF IndexInv
<1>2. /\ call.op = "insert" /\ call.key \in Keys \ DOMAIN store
      /\ call.len \in Lengths
  BY <1>1, InsertCallShape, Zenon DEF InsertFinish, InsertPending
<1>3. PICK t \in Reads :
        /\ clock' = t
        /\ store' = Put(store, call.key, [len |-> call.len, freq |-> 1,
                           lru_k |-> NewKey(freq, 1), ttl |-> t + TtlBuf])
        /\ ttl' = Put(ttl, t + TtlBuf, call.key)
  BY Zenon DEF InsertFinish
<1> DEFINE d == [len |-> call.len, freq |-> 1,
                 lru_k |-> NewKey(freq, 1), ttl |-> t + TtlBuf]
<1>4. d \in Datas
  BY <1>1, <1>2, NewKeyType, ReadsAreTimes DEF Datas, TypeOK
<1>5. d.freq = 1 /\ d.lru_k = NewKey(freq, 1) /\ store' = Put(store, call.key, d)
  BY <1>3, Zenon
<1>6. /\ freq' = Attach(freq, 1, call.key) /\ used_size' = used_size + call.len
      /\ call' = NoCall /\ ret' = "ok"
  BY Zenon DEF InsertFinish, Return
<1> HIDE DEF d
<1>7. FreqType(freq') /\ StoreType(store') /\ Agree(store', freq')
  BY <1>1, <1>2, <1>4, <1>5, <1>6, AttachAgrees, Zenon DEF TypeOK, IndexesAgree
<1>8. DOMAIN ttl' \subseteq Nat /\ \A x \in DOMAIN ttl' : ttl'[x] \in Keys
  BY <1>1, <1>2, <1>3, ReadsAreTimes, Zenon DEF TypeOK, Put
<1>9. used_size' \in Int /\ clock' \in Nat
  BY <1>1, <1>2, <1>3, <1>6, LengthsAssumption, ReadsAreTimes DEF TypeOK
<1>10. TypeOK'
  BY <1>6, <1>7, <1>8, <1>9, Zenon DEF TypeOK, Results
<1> QED BY <1>6, <1>7, <1>10, Zenon DEF IndexInv, IndexesAgree, InsertPending, NoCall

\* A turn of the clean-up loop that removes an entry preserves the invariant.
LEMMA CleanOneIndexInv ==
    ASSUME IndexInv, CleanOne
    PROVE  IndexInv'
<1> DEFINE k == ttl[Min(DOMAIN ttl)]
<1>1. TypeOK /\ IndexesAgree
  BY Zenon DEF IndexInv
<1>2. /\ k \in DOMAIN store
      /\ store' = Del(store, k)
      /\ freq' = Detach(freq, store[k].freq, store[k].lru_k)
      /\ used_size' = used_size - store[k].len
      /\ ttl' = Del(ttl, store[k].ttl)
      /\ UNCHANGED <<call, ret>> /\ call.op = "clean"
  BY Zenon DEF CleanOne
<1>3. clock' \in Nat
  BY ReadsAreTimes, Zenon DEF CleanOne
<1> HIDE DEF k
<1>4. FreqType(freq') /\ StoreType(store') /\ Agree(store', freq')
  BY <1>1, <1>2, DetachAgrees, DelType, Zenon DEF TypeOK, IndexesAgree
<1>5. DOMAIN ttl' \subseteq Nat /\ \A x \in DOMAIN ttl' : ttl'[x] \in Keys
  BY <1>1, <1>2, Zenon DEF TypeOK, Del, Restrict
<1>6. used_size' \in Int
  BY <1>1, <1>2, LengthsAssumption DEF TypeOK, StoreType, Datas
<1>7. TypeOK'
  BY <1>1, <1>2, <1>3, <1>4, <1>5, <1>6, Zenon DEF TypeOK
<1> QED BY <1>2, <1>4, <1>7, Zenon DEF IndexInv, IndexesAgree, InsertPending

\* Every step of every call preserves the invariant.
LEMMA IndexInvStep == IndexInv /\ [Next]_vars => IndexInv'
<1> SUFFICES ASSUME IndexInv, [Next]_vars PROVE IndexInv'
  BY Zenon
<1> USE DEF IndexInv
<1>1. ASSUME NEW k \in Keys, GetMiss(k) \/ InsertExists(k) PROVE IndexInv'
  BY <1>1 DEF GetMiss, InsertExists, Return, cache, TypeOK, IndexesAgree,
              InsertPending, NoCall, Results
<1>2. ASSUME NEW k \in Keys, NEW n \in Lengths, InsertBegin(k, n) PROVE IndexInv'
  BY <1>2, Zenon DEF InsertBegin, cache, TypeOK, IndexesAgree, InsertPending, InsertCalls
<1>3. CASE InsertTooBig \/ CleanOrphan \/ CleanDone
  <2>1. clock' \in Nat
    BY <1>3, ReadsAreTimes, Zenon DEF InsertTooBig, CleanOrphan, CleanDone, TypeOK
  <2> QED BY <1>3, <2>1 DEF InsertTooBig, CleanOrphan, CleanDone, Return, cache,
              TypeOK, IndexesAgree, InsertPending, NoCall, Results
<1>4. CASE CleanBegin
  BY <1>4, Zenon DEF CleanBegin, cache, TypeOK, IndexesAgree, InsertPending, CleanCall
<1>5. CASE Purge
  <2>1. DOMAIN store' = {} /\ DOMAIN freq' = {} /\ DOMAIN ttl' = {}
    BY <1>5, Zenon DEF Purge, EmptyMap
  <2> QED BY <1>5, <2>1 DEF Purge, TypeOK, StoreType, FreqType, IndexesAgree,
              Agree, InsertPending
<1>6. CASE UNCHANGED vars
  BY <1>6, Zenon DEF vars, TypeOK, IndexesAgree, InsertPending
<1> QED BY <1>1, <1>2, <1>3, <1>4, <1>5, <1>6, GetHitIndexInv, GetStaleIndexInv,
           EvictIndexInv, InsertFinishIndexInv, CleanOneIndexInv, Zenon
        DEF Next, Get, LoopStep

\* Type correctness of the cache.
THEOREM TypeCorrect == Spec => []TypeOK
<1>1. IndexInv => TypeOK
  BY Zenon DEF IndexInv
<1> QED BY IndexInvInit, IndexInvStep, <1>1, PTL DEF Spec

\* store and freq agree in every reachable state, for any clock: the lookups
\* of get, insert and process_ttl_clean_up through freq never fail, and an
\* error return of one call never leaves the two indexes apart.
THEOREM IndexesAlwaysAgree == Spec => []IndexesAgree
<1>1. IndexInv => IndexesAgree
  BY Zenon DEF IndexInv
<1> QED BY IndexInvInit, IndexInvStep, <1>1, PTL DEF Spec

\* The bytes accounted for never exceed max_size, in any step of any call.
THEOREM CapacityAlwaysRespected == Spec => []CapacityRespected
<1>1. Init => CapacityRespected
  BY SizeAssumption DEF Init, CapacityRespected
<1>2. IndexInv /\ CapacityRespected /\ [Next]_vars => CapacityRespected'
  <2> SUFFICES ASSUME IndexInv, CapacityRespected, [Next]_vars
               PROVE  CapacityRespected'
    BY Zenon
  <2> USE SizeAssumption DEF CapacityRespected
  <2>1. used_size \in Int /\ StoreType(store)
    BY Zenon DEF IndexInv, TypeOK
  <2>2. ASSUME NEW k \in DOMAIN store, used_size' = used_size - store[k].len
        PROVE  used_size' =< MaxSize
    <3>1. store[k] \in Datas
      BY <2>1, Zenon DEF StoreType
    <3>2. store[k].len \in Nat
      BY <3>1, LengthsAssumption, Zenon DEF Datas
    <3> QED BY <2>1, <2>2, <3>2
  <2>3. CASE Evict
    BY <2>2, <2>3, Zenon DEF Evict
  <2>4. CASE CleanOne
    BY <2>2, <2>4, Zenon DEF CleanOne
  <2>5. CASE InsertFinish
    <3>1. call.len \in Nat
      BY <2>5, InsertCallShape, LengthsAssumption, Zenon DEF InsertFinish, IndexInv
    <3> QED BY <2>1, <2>5, <3>1 DEF InsertFinish, IsSizeExceeded
  <2>6. CASE Purge
    BY <2>6 DEF Purge
  <2>7. CASE used_size' = used_size
    BY <2>7, Zenon
  <2> QED BY <2>3, <2>4, <2>5, <2>6, <2>7, Zenon DEF Next, Get, LoopStep, GetMiss, GetHit,
             GetStale, InsertExists, InsertBegin, CleanBegin, InsertTooBig,
             CleanDone, CleanOrphan, cache, vars
<1> QED BY IndexInvInit, IndexInvStep, <1>1, <1>2, PTL DEF Spec

-----------------------------------------------------------------------------
(* With a clock that always advances, the expiry index agrees as well, and *)
(* the entries of a queue are in the order of their last use.              *)

\* Removing a key from store and its expiry from ttl keeps them agreeing.
LEMMA TtlDel ==
    ASSUME NEW st, NEW tt, TtlAgree(st, tt), NEW k \in DOMAIN st
    PROVE  TtlAgree(Del(st, k), Del(tt, st[k].ttl))
BY DEF TtlAgree, Del, Restrict

\* Adding a key with an expiry that no other key has keeps them agreeing.
LEMMA TtlPut ==
    ASSUME NEW st, NEW tt, TtlAgree(st, tt), NEW k, k \notin DOMAIN st,
           NEW d, d.ttl \notin DOMAIN tt
    PROVE  TtlAgree(Put(st, k, d), Put(tt, d.ttl, k))
BY Zenon DEF TtlAgree, Put

\* Every expiry lies at most ttl_buf after the last reading of the clock.
ExpiryBounded == \A k \in DOMAIN store : store[k].ttl =< clock + TtlBuf

Aged(st, fr) ==
    \A f \in DOMAIN fr : \A i, j \in DOMAIN fr[f] :
      i < j => st[fr[f][i].v].ttl < st[fr[f][j].v].ttl

\* Removing an entry keeps the queues in the order of last use.
LEMMA DetachAged ==
    ASSUME NEW st, NEW fr, StoreType(st), FreqType(fr), Agree(st, fr),
           NEW key \in DOMAIN st, Aged(st, fr)
    PROVE  Aged(Del(st, key), Detach(fr, st[key].freq, st[key].lru_k))
<1> DEFINE f  == st[key].freq
           q  == fr[f]
           w  == Without(q, st[key].lru_k)
           fd == Detach(fr, f, st[key].lru_k)
           sd == Del(st, key)
<1>1. FreqType(fd) /\ Agree(sd, fd) /\ f \in DOMAIN fr
  BY DetachAgrees, Zenon
<1>2. q \in Seq(Entry) /\ Increasing(q)
  BY ZenonT(40), <1>1 DEF Agree, FreqType, Entry
<1>3. PICK j \in DOMAIN q : q[j] = [k |-> st[key].lru_k, v |-> key]
  BY Zenon DEF Agree, Queued
<1>4. q[j].k = st[key].lru_k
  BY <1>3
<1>5. /\ \A x \in DOMAIN sd : sd[x] = st[x]
      /\ DOMAIN fd \subseteq DOMAIN fr
      /\ \A g \in DOMAIN fd : fd[g] = IF g = f THEN w ELSE fr[g]
  <2>1. \A x \in DOMAIN sd : sd[x] = st[x]
    BY Zenon DEF Del, Restrict
  <2>2. /\ DOMAIN fd \subseteq DOMAIN fr
        /\ \A g \in DOMAIN fd : fd[g] = IF g = f THEN w ELSE fr[g]
    BY <1>1, Zenon DEF Del, Restrict, Detach, Put
  <2> QED BY <2>1, <2>2, Zenon
<1>a. \A a, b \in DOMAIN q : a < b => st[q[a].v].ttl < st[q[b].v].ttl
  BY <1>1, Zenon DEF Aged
<1> HIDE DEF q, f
<1>6. /\ w \in Seq(Entry)
      /\ Len(w) = Len(q) - 1
      /\ \A i \in DOMAIN w : w[i] = IF i < j THEN q[i] ELSE q[i + 1]
  BY <1>2, <1>4, WithoutProps
<1> HIDE DEF w, fd, sd
<1> SUFFICES ASSUME NEW g \in DOMAIN fd, NEW a \in DOMAIN fd[g],
                    NEW b \in DOMAIN fd[g], a < b
             PROVE  sd[fd[g][a].v].ttl < sd[fd[g][b].v].ttl
  BY Zenon DEF Aged, f, fd, sd
<1>7. sd[fd[g][a].v] = st[fd[g][a].v] /\ sd[fd[g][b].v] = st[fd[g][b].v]
  BY <1>1, <1>5, Zenon DEF Agree
<1>8. CASE g = f
  <2> DEFINE pos(i) == IF i < j THEN i ELSE i + 1
  <2>1. fd[g] = w
    BY <1>5, <1>8, Zenon
  <2>2. pos(a) \in DOMAIN q /\ pos(b) \in DOMAIN q /\ pos(a) < pos(b)
    BY <1>2, <1>6, <2>1
  <2>3. w[a] = q[pos(a)] /\ w[b] = q[pos(b)]
    BY <1>6, <2>1, Zenon
  <2> HIDE DEF pos
  <2> QED BY <1>7, <1>a, <2>1, <2>2, <2>3, Zenon
<1>9. CASE g # f
  BY <1>5, <1>7, <1>9, Zenon DEF Aged
<1> QED BY <1>8, <1>9, Zenon

\* What pushing to the back of an LRU list leaves in it.
LEMMA AppendShape ==
    ASSUME NEW S, NEW s \in Seq(S), NEW x \in S
    PROVE  /\ Append(s, x) \in Seq(S)
           /\ Len(Append(s, x)) = Len(s) + 1
           /\ Append(s, x)[Len(Append(s, x))] = x
           /\ \A i \in DOMAIN s : Append(s, x)[i] = s[i]
  OBVIOUS

\* Adding the entry with the latest expiry keeps that order.
LEMMA AttachAged ==
    ASSUME NEW st, NEW fr, StoreType(st), FreqType(fr), Agree(st, fr),
           NEW key \in Keys \ DOMAIN st, NEW d \in Datas,
           d.lru_k = NewKey(fr, d.freq), Aged(st, fr),
           \A x \in DOMAIN st : st[x].ttl < d.ttl
    PROVE  Aged(Put(st, key, d), Attach(fr, d.freq, key))
<1> DEFINE f  == d.freq
           q  == GetOr(fr, f, <<>>)
           e  == [k |-> d.lru_k, v |-> key]
           w  == Append(q, e)
           fa == Attach(fr, f, key)
           sa == Put(st, key, d)
<1>1. FreqType(fa) /\ Agree(sa, fa)
  BY AttachAgrees, Zenon
<1>2. q \in Seq(Entry) /\ e \in Entry
  <2>1. CASE f \in DOMAIN fr
    BY <2>1, Zenon DEF FreqType, Entry, GetOr, Datas
  <2>2. CASE f \notin DOMAIN fr
    BY <2>2 DEF GetOr, Entry, Datas
  <2> QED BY <2>1, <2>2, Zenon
<1>3. /\ DOMAIN fa = DOMAIN fr \cup {f}
      /\ \A g \in DOMAIN fa : fa[g] = IF g = f THEN w ELSE fr[g]
  BY Zenon DEF Attach, PushBack, Put
<1>4. /\ sa[key] = d
      /\ \A x \in DOMAIN st : sa[x] = st[x]
  BY Zenon DEF Put
<1>5. /\ \A i \in DOMAIN q : q[i].v \in DOMAIN st
      /\ \A a, b \in DOMAIN q : a < b => st[q[a].v].ttl < st[q[b].v].ttl
  <2>1. CASE f \in DOMAIN fr
    <3>1. q = fr[f]
      BY <2>1, Zenon DEF GetOr
    <3>2. \A i \in DOMAIN fr[f] : fr[f][i].v \in DOMAIN st
      BY <2>1, Zenon DEF Agree
    <3>3. \A a, b \in DOMAIN fr[f] : a < b => st[fr[f][a].v].ttl < st[fr[f][b].v].ttl
      BY <2>1, Zenon DEF Aged
    <3> QED BY <3>1, <3>2, <3>3, Zenon
  <2>2. CASE f \notin DOMAIN fr
    <3>1. q = <<>>
      BY <2>2, Zenon DEF GetOr
    <3> QED BY <3>1
  <2> QED BY <2>1, <2>2, Zenon
<1> HIDE DEF f, q, fa, sa
<1>6. /\ Len(w) = Len(q) + 1 /\ w[Len(w)] = e /\ w \in Seq(Entry)
      /\ \A i \in DOMAIN q : w[i] = q[i]
  <2>1. /\ Append(q, e) \in Seq(Entry)
        /\ Len(Append(q, e)) = Len(q) + 1
        /\ Append(q, e)[Len(Append(q, e))] = e
        /\ \A i \in DOMAIN q : Append(q, e)[i] = q[i]
    <3> HIDE DEF e
    <3> QED BY <1>2, AppendShape
  <2> QED BY <2>1, Zenon
<1> HIDE DEF w
<1> SUFFICES ASSUME NEW g \in DOMAIN fa, NEW a \in DOMAIN fa[g],
                    NEW b \in DOMAIN fa[g], a < b
             PROVE  sa[fa[g][a].v].ttl < sa[fa[g][b].v].ttl
  BY Zenon DEF Aged, f, fa, sa
<1>7. CASE g = f
  <2>1. fa[g] = w /\ a \in DOMAIN q /\ w[a] = q[a]
    BY <1>2, <1>3, <1>6, <1>7
  <2>2. CASE b = Len(w)
    BY <1>4, <1>5, <1>6, <2>1, <2>2
  <2>3. CASE b # Len(w)
    <3>1. b \in DOMAIN q /\ w[b] = q[b]
      BY <1>2, <1>6, <2>1, <2>3
    <3> QED BY <1>4, <1>5, <2>1, <3>1, Zenon
  <2> QED BY <2>2, <2>3, Zenon
<1>8. CASE g # f
  <2>1. g \in DOMAIN fr /\ fa[g] = fr[g]
    BY <1>3, <1>8, Zenon
  <2>2. fr[g][a].v \in DOMAIN st /\ fr[g][b].v \in DOMAIN st
    BY <2>1, Zenon DEF Agree
  <2>3. st[fr[g][a].v].ttl < st[fr[g][b].v].ttl
    BY <2>1, Zenon DEF Aged
  <2> QED BY <1>4, <2>1, <2>2, <2>3, Zenon
<1> QED BY <1>7, <1>8, Zenon

StrictInv == IndexInv /\ TtlIndexAgrees /\ ExpiryBounded /\ Aged(store, freq)

\* A clock that advances gives every renewal an expiry later than all others.
LEMMA LaterExpiry ==
    ASSUME ClockAdvances, StrictInv, NEW t \in Reads
    PROVE  /\ t \in Nat /\ t > clock
           /\ \A x \in DOMAIN store : store[x].ttl < t + TtlBuf
           /\ t + TtlBuf \notin DOMAIN ttl
<1>1. t \in Nat /\ clock \in Nat /\ t > clock
  BY DEF ClockAdvances, StrictInv, IndexInv, TypeOK, Reads
<1>2. ASSUME NEW x \in DOMAIN store PROVE store[x].ttl < t + TtlBuf
  <2>1. store[x].ttl \in Nat
    BY Zenon DEF StrictInv, IndexInv, TypeOK, StoreType, Datas
  <2> QED BY <1>1, <2>1, TimeAssumption DEF StrictInv, ExpiryBounded
<1>3. t + TtlBuf \notin DOMAIN ttl
  <2>1. SUFFICES ASSUME t + TtlBuf \in DOMAIN ttl PROVE FALSE
    BY Zenon
  <2>2. PICK x \in DOMAIN store : store[x].ttl = t + TtlBuf
    BY <2>1, Zenon DEF StrictInv, TtlIndexAgrees, TtlAgree
  <2> QED BY <1>1, <1>2, <2>2, TimeAssumption
<1> QED BY <1>1, <1>2, <1>3, Zenon

\* A get that renews the expiry preserves the stronger invariant.
LEMMA GetHitStrict ==
    ASSUME ClockAdvances, StrictInv, NEW k \in Keys, GetHit(k)
    PROVE  TtlIndexAgrees' /\ ExpiryBounded' /\ Aged(store, freq)'
<1>1. /\ TypeOK /\ IndexesAgree /\ k \in DOMAIN store /\ Promote(k)
      /\ StoreType(store) /\ FreqType(freq) /\ Agree(store, freq)
      /\ TtlAgree(store, ttl)
  BY Zenon DEF StrictInv, IndexInv, GetHit, TypeOK, IndexesAgree, TtlIndexAgrees
<1>2. PICK t \in Reads :
        /\ clock' = t
        /\ store' = Put(store, k, Promoted(k, t + TtlBuf))
        /\ ttl' = Put(Del(ttl, store[k].ttl), t + TtlBuf, ttl[store[k].ttl])
  BY Zenon DEF GetHit
<1> DEFINE d  == Promoted(k, t + TtlBuf)
           sd == Del(store, k)
           fd == Detach(freq, store[k].freq, store[k].lru_k)
           td == Del(ttl, store[k].ttl)
<1>3. /\ t \in Nat /\ t > clock /\ t + TtlBuf \in Nat
      /\ \A x \in DOMAIN store : store[x].ttl < t + TtlBuf
      /\ t + TtlBuf \notin DOMAIN ttl
  BY LaterExpiry, TimeAssumption
<1>4. /\ d \in Datas /\ d.ttl = t + TtlBuf
      /\ d.freq = store[k].freq + 1 /\ d.lru_k = NewKey(fd, d.freq)
  <2>1. d \in Datas
    BY <1>1, <1>3, PromotedType, Zenon
  <2> QED BY <2>1, Zenon DEF Promoted
<1>5. ttl[store[k].ttl] = k /\ TtlAgree(sd, td)
  <2>1. ttl[store[k].ttl] = k
    BY <1>1, Zenon DEF TtlAgree
  <2> QED BY <1>1, <2>1, TtlDel, Zenon
<1>6. /\ ValueAt(freq[store[k].freq], store[k].lru_k) = k
      /\ FreqType(fd) /\ Agree(sd, fd) /\ Aged(sd, fd) /\ StoreType(sd)
  BY <1>1, DetachAgrees, DetachAged, DelType, Zenon DEF StrictInv
<1>7. /\ k \notin DOMAIN sd /\ DOMAIN td \subseteq DOMAIN ttl
      /\ DOMAIN sd \subseteq DOMAIN store
      /\ \A x \in DOMAIN sd : sd[x] = store[x]
  BY Zenon DEF Del, Restrict
<1>8. store' = Put(sd, k, d) /\ ttl' = Put(td, d.ttl, k)
  BY ZenonT(40), <1>1, <1>2, <1>4, <1>5, PutDel
<1>9. freq' = Attach(fd, d.freq, k)
  BY ZenonT(40), <1>4, <1>6 DEF Promote, GetHit
<1> HIDE DEF d, sd, fd, td
<1>10. TtlAgree(store', ttl')
  BY ZenonT(40), <1>3, <1>4, <1>5, <1>7, <1>8, TtlPut
<1>11. Aged(store', freq')
  <2>1. \A x \in DOMAIN sd : sd[x].ttl < d.ttl
    BY <1>3, <1>4, <1>7, Zenon
  <2> QED BY <1>4, <1>6, <1>7, <1>8, <1>9, <2>1, AttachAged, Zenon
<1>12. ASSUME NEW x \in DOMAIN store' PROVE store'[x].ttl =< t + TtlBuf
  <2>1. CASE x = k
    BY <1>3, <1>4, <1>8, <2>1 DEF Put
  <2>2. CASE x # k
    <3>1. x \in DOMAIN store /\ store'[x] = store[x]
      BY <1>7, <1>8, <2>2, Zenon DEF Put
    <3>2. store[x].ttl \in Nat
      BY <1>1, <3>1, Zenon DEF StoreType, Datas
    <3> QED BY <1>3, <3>1, <3>2
  <2> QED BY <2>1, <2>2, Zenon
<1> QED BY <1>2, <1>10, <1>11, <1>12, Zenon DEF TtlIndexAgrees, ExpiryBounded

\* The last part of insert preserves the stronger invariant.
LEMMA InsertFinishStrict ==
    ASSUME ClockAdvances, StrictInv, InsertFinish
    PROVE  TtlIndexAgrees' /\ ExpiryBounded' /\ Aged(store, freq)'
<1>1. /\ StoreType(store) /\ FreqType(freq) /\ Agree(store, freq)
      /\ TtlAgree(store, ttl) /\ Aged(store, freq)
  BY Zenon DEF StrictInv, IndexInv, TypeOK, IndexesAgree, TtlIndexAgrees
<1>2. /\ call.key \in Keys \ DOMAIN store /\ call.len \in Lengths
  BY InsertCallShape, Zenon DEF InsertFinish, InsertPending, StrictInv, IndexInv
<1>3. PICK t \in Reads :
        /\ clock' = t
        /\ store' = Put(store, call.key, [len |-> call.len, freq |-> 1,
                           lru_k |-> NewKey(freq, 1), ttl |-> t + TtlBuf])
        /\ ttl' = Put(ttl, t + TtlBuf, call.key)
  BY Zenon DEF InsertFinish
<1> DEFINE d == [len |-> call.len, freq |-> 1,
                 lru_k |-> NewKey(freq, 1), ttl |-> t + TtlBuf]
<1>4. /\ t \in Nat /\ t + TtlBuf \in Nat
      /\ \A x \in DOMAIN store : store[x].ttl < t + TtlBuf
      /\ t + TtlBuf \notin DOMAIN ttl
  BY LaterExpiry, TimeAssumption
<1>5. d \in Datas
  <2>1. NewKey(freq, 1) \in Nat
    BY <1>1, NewKeyType, Zenon
  <2> QED BY <1>2, <1>4, <2>1 DEF Datas
<1>6. /\ d.freq = 1 /\ d.lru_k = NewKey(freq, 1) /\ d.ttl = t + TtlBuf
      /\ store' = Put(store, call.key, d) /\ ttl' = Put(ttl, d.ttl, call.key)
      /\ freq' = Attach(freq, 1, call.key)
  BY <1>3, Zenon DEF InsertFinish
<1> HIDE DEF d
<1>7. TtlAgree(store', ttl')
  BY <1>1, <1>2, <1>4, <1>6, TtlPut, Zenon
<1>8. Aged(store', freq')
  BY <1>1, <1>2, <1>4, <1>5, <1>6, AttachAged, Zenon
<1>9. ASSUME NEW x \in DOMAIN store' PROVE store'[x].ttl =< t + TtlBuf
  <2>1. CASE x = call.key
    BY <1>4, <1>6, <2>1 DEF Put
  <2>2. CASE x # call.key
    <3>1. x \in DOMAIN store /\ store'[x] = store[x]
      BY <1>6, <2>2, Zenon DEF Put
    <3>2. store[x].ttl \in Nat
      BY <1>1, <3>1, Zenon DEF StoreType, Datas
    <3> QED BY <1>4, <3>1, <3>2
  <2> QED BY <2>1, <2>2, Zenon
<1> QED BY <1>3, <1>7, <1>8, <1>9, Zenon DEF TtlIndexAgrees, ExpiryBounded

\* Dropping one entry from the three indexes at once.
LEMMA DropStrict ==
    ASSUME StrictInv, NEW k \in DOMAIN store,
           store' = Del(store, k), ttl' = Del(ttl, store[k].ttl),
           freq' = Detach(freq, store[k].freq, store[k].lru_k),
           clock' \in Nat, clock' >= clock
    PROVE  TtlIndexAgrees' /\ ExpiryBounded' /\ Aged(store, freq)'
<1>1. /\ StoreType(store) /\ FreqType(freq) /\ Agree(store, freq)
      /\ TtlAgree(store, ttl) /\ Aged(store, freq) /\ clock \in Nat
  BY Zenon DEF StrictInv, IndexInv, TypeOK, IndexesAgree, TtlIndexAgrees
<1>2. TtlAgree(store', ttl')
  BY <1>1, TtlDel, Zenon
<1>3. Aged(store', freq')
  BY <1>1, DetachAged, Zenon
<1>4. ASSUME NEW x \in DOMAIN store' PROVE store'[x].ttl =< clock' + TtlBuf
  <2>1. x \in DOMAIN store /\ store'[x] = store[x]
    BY Zenon DEF Del, Restrict
  <2>2. store[x].ttl \in Nat /\ store[x].ttl =< clock + TtlBuf
    BY <1>1, <2>1, Zenon DEF StoreType, Datas, StrictInv, ExpiryBounded
  <2> QED BY <1>1, <2>1, <2>2, TimeAssumption
<1> QED BY <1>2, <1>3, <1>4, Zenon DEF TtlIndexAgrees, ExpiryBounded

\* What is at the head of the lowest queue, and what is next to expire.
LEMMA VictimShape ==
    ASSUME IndexInv, DOMAIN freq # {}
    PROVE  LET f == Min(DOMAIN freq)
           IN  /\ f \in DOMAIN freq /\ \A g \in DOMAIN freq : f =< g
               /\ 1 \in DOMAIN freq[f] /\ Victim = freq[f][1].v
               /\ Victim \in DOMAIN store
               /\ store[Victim].freq = f
               /\ store[Victim].lru_k = Head(freq[f]).k
<1> DEFINE f == Min(DOMAIN freq)
<1>1. f \in DOMAIN freq /\ \A g \in DOMAIN freq : f =< g
  BY MinExists, Zenon DEF IndexInv, TypeOK, FreqType
<1>2. freq[f] \in Seq(Entry) /\ freq[f] # <<>>
  BY <1>1, Zenon DEF IndexInv, TypeOK, FreqType, IndexesAgree, Agree, Entry
<1>3. 1 \in DOMAIN freq[f] /\ Head(freq[f]) = freq[f][1]
  BY <1>2
<1> QED BY <1>1, <1>3 DEF IndexInv, IndexesAgree, Agree, Victim

\* The next entry to expire is that of a stored key, which expires then.
LEMMA NextExpiryShape ==
    ASSUME StrictInv, DOMAIN ttl # {}
    PROVE  LET m == Min(DOMAIN ttl)
           IN  /\ m \in Nat /\ m \in DOMAIN ttl /\ \A t \in DOMAIN ttl : m =< t
               /\ ttl[m] \in DOMAIN store /\ store[ttl[m]].ttl = m
<1> DEFINE m == Min(DOMAIN ttl)
<1>1. m \in DOMAIN ttl /\ \A t \in DOMAIN ttl : m =< t
  BY MinExists, Zenon DEF StrictInv, IndexInv, TypeOK
<1> QED BY <1>1, Zenon DEF StrictInv, IndexInv, TypeOK, TtlIndexAgrees, TtlAgree

\* The cache that Tlrfu::new makes satisfies the stronger invariant.
LEMMA StrictInvInit == Init => StrictInv
<1> SUFFICES ASSUME Init PROVE StrictInv
  BY Zenon
<1>1. DOMAIN store = {} /\ DOMAIN freq = {} /\ DOMAIN ttl = {}
  BY Zenon DEF Init, EmptyMap
<1> QED BY <1>1, IndexInvInit, Zenon
        DEF StrictInv, TtlIndexAgrees, TtlAgree, ExpiryBounded, Aged

\* Under a clock that advances every step preserves the stronger invariant.
LEMMA StrictInvStep ==
    ASSUME ClockAdvances, StrictInv, [Next]_vars
    PROVE  StrictInv'
<1>0. IndexInv' /\ TypeOK /\ clock \in Nat
  BY IndexInvStep, Zenon DEF StrictInv, IndexInv, TypeOK
<1> SUFFICES TtlIndexAgrees' /\ ExpiryBounded' /\ Aged(store, freq)'
  BY <1>0, Zenon DEF StrictInv
<1>1. ASSUME NEW k \in Keys, GetStale(k) PROVE FALSE
  BY <1>1, Zenon DEF GetStale, StrictInv, TtlIndexAgrees, TtlAgree
<1>2. CASE Evict
  <2>1. /\ Victim \in DOMAIN store
        /\ store[Victim].freq = Min(DOMAIN freq)
        /\ store[Victim].lru_k = Head(freq[Min(DOMAIN freq)]).k
    BY <1>2, VictimShape, Zenon DEF Evict, StrictInv
  <2>2. store' = Del(store, Victim) /\ ttl' = Del(ttl, store[Victim].ttl)
    BY <1>2, Zenon DEF Evict
  <2>3. freq' = Detach(freq, store[Victim].freq, store[Victim].lru_k)
    BY <1>2, <2>1, Zenon DEF Evict
  <2>4. clock' \in Nat /\ clock' >= clock
    BY <1>0, <1>2 DEF Evict
  <2> QED BY <2>1, <2>2, <2>3, <2>4, DropStrict, Zenon
<1>3. CASE CleanOne
  <2>1. clock' \in Nat /\ clock' >= clock
    BY <1>0, <1>3, LaterExpiry DEF CleanOne
  <2> QED BY <1>3, <2>1, DropStrict, Zenon DEF CleanOne
<1>4. CASE Purge
  <2>1. DOMAIN store' = {} /\ DOMAIN freq' = {} /\ DOMAIN ttl' = {}
    BY <1>4, Zenon DEF Purge, EmptyMap
  <2> QED BY <2>1, Zenon DEF TtlIndexAgrees, TtlAgree, ExpiryBounded, Aged
<1>5. CASE UNCHANGED cache /\ clock' \in Nat /\ clock' >= clock
  <2>1. ASSUME NEW x \in DOMAIN store PROVE store[x].ttl =< clock' + TtlBuf
    <3>1. store[x].ttl \in Nat /\ store[x].ttl =< clock + TtlBuf
      BY <1>0, Zenon DEF StrictInv, ExpiryBounded, TypeOK, StoreType, Datas
    <3> QED BY <1>0, <1>5, <3>1, TimeAssumption
  <2> QED BY <1>5, <2>1, Zenon DEF cache, StrictInv, TtlIndexAgrees, ExpiryBounded
<1>6. ASSUME CleanDone \/ CleanOrphan \/ InsertTooBig
      PROVE  UNCHANGED cache /\ clock' \in Nat /\ clock' >= clock
  BY <1>0, <1>6, LaterExpiry DEF CleanDone, CleanOrphan, InsertTooBig
<1>7. ASSUME CleanBegin \/ UNCHANGED vars \/ \E k \in Keys :
               \/ GetMiss(k) \/ InsertExists(k)
               \/ \E n \in Lengths : InsertBegin(k, n)
      PROVE  UNCHANGED cache /\ clock' = clock
  BY <1>7, Zenon DEF CleanBegin, vars, cache, GetMiss, InsertExists, InsertBegin
<1>8. ASSUME NEW k \in Keys, GetHit(k)
      PROVE  TtlIndexAgrees' /\ ExpiryBounded' /\ Aged(store, freq)'
  BY <1>8, GetHitStrict, Zenon
<1>9. CASE InsertFinish
  BY <1>9, InsertFinishStrict, Zenon
<1> QED BY <1>0, <1>1, <1>2, <1>3, <1>4, <1>5, <1>6, <1>7, <1>8, <1>9
        DEF Next, Get, LoopStep

\* With a clock that always advances the expiry index has exactly one entry
\* per stored key, so get and process_ttl_clean_up never fail on it.
THEOREM TtlIndexAlwaysAgrees ==
    ASSUME ClockAdvances PROVE Spec => []TtlIndexAgrees
<1>1. StrictInv /\ [Next]_vars => StrictInv'
  BY StrictInvStep, Zenon
<1>2. StrictInv => TtlIndexAgrees
  BY Zenon DEF StrictInv
<1> QED BY StrictInvInit, <1>1, <1>2, PTL DEF Spec

\* With such a clock insert evicts the least frequently and then the least
\* recently used entry.
THEOREM EvictionOrder == ASSUME ClockAdvances PROVE Spec => EvictsLfuThenLru
<1>1. StrictInv /\ [Next]_vars => StrictInv'
  BY StrictInvStep, Zenon
<1>2. StrictInv /\ [Next]_vars => [EvictStepLfu]_vars
  <2> SUFFICES ASSUME StrictInv, Next, call.op = "insert",
                      NEW v \in DOMAIN store \ DOMAIN store'
               PROVE  LeastUsed(v)
    BY Zenon DEF EvictStepLfu
  <2>0. IndexInv /\ TypeOK /\ IndexesAgree
    BY Zenon DEF StrictInv, IndexInv
  <2>1. call # NoCall /\ call.op # "clean"
    BY DEF NoCall
  <2>2. Evict
    BY <2>1, Zenon DEF Next, Get, LoopStep, GetMiss, GetHit, GetStale, InsertExists,
       InsertBegin, CleanBegin, Purge, Idle, InsertTooBig, InsertFinish, CleanDone,
       CleanOne, CleanOrphan, cache, Put
  <2> DEFINE f == Min(DOMAIN freq)
  <2>3. /\ f \in DOMAIN freq /\ \A g \in DOMAIN freq : f =< g
        /\ 1 \in DOMAIN freq[f] /\ Victim = freq[f][1].v
        /\ store[Victim].freq = f
    BY <2>0, <2>2, VictimShape, Zenon DEF Evict
  <2>4. v = Victim
    BY <2>2, Zenon DEF Evict, Del, Restrict
  <2> HIDE DEF f
  <2> SUFFICES ASSUME NEW k \in DOMAIN store
               PROVE  \/ store[v].freq < store[k].freq
                      \/ store[v].freq = store[k].freq /\ store[v].ttl =< store[k].ttl
    BY Zenon DEF LeastUsed
  <2>5. /\ store[k].freq \in DOMAIN freq /\ store[k].freq \in Nat /\ f \in Nat
        /\ store[k].ttl \in Nat /\ store[v].ttl \in Nat
    BY <2>0, <2>3, Zenon DEF TypeOK, StoreType, FreqType, Datas, IndexesAgree, Agree, Queued
  <2>6. CASE store[k].freq = f
    <3>0. Queued(store, freq, k)
      BY <2>0, Zenon DEF IndexesAgree, Agree
    <3>1. PICK i \in DOMAIN freq[f] : freq[f][i].v = k
      BY <2>6, <3>0 DEF Queued
    <3>2. freq[f] \in Seq(Entry)
      BY <2>0, <2>3, Zenon DEF TypeOK, FreqType, Entry
    <3>3. i = 1 \/ 1 < i
      BY <3>2
    <3>4. 1 < i => store[v].ttl < store[k].ttl
      BY <2>3, <2>4, <3>1, Zenon DEF StrictInv, Aged
    <3> QED BY <2>3, <2>4, <2>5, <2>6, <3>1, <3>3, <3>4
  <2>7. CASE store[k].freq # f
    BY <2>3, <2>4, <2>5, <2>7
  <2> QED BY <2>6, <2>7, Zenon
<1> QED BY StrictInvInit, <1>1, <1>2, PTL DEF Spec, EvictsLfuThenLru

\* With such a clock a clean-up removes the expired entries and no others.
THEOREM ExpiryIsExact == ASSUME ClockAdvances PROVE Spec => ExpiresExactly
<1>1. StrictInv /\ [Next]_vars => StrictInv'
  BY StrictInvStep, Zenon
<1>2. StrictInv /\ [Next]_vars => [CleanStepExact]_vars
  <2> SUFFICES ASSUME StrictInv, Next, call.op = "clean"
               PROVE  CleanStepExact
    BY Zenon DEF CleanStepExact
  <2>1. call # NoCall /\ call.op # "insert"
    BY DEF NoCall
  <2>2. CleanOne \/ CleanDone \/ CleanOrphan
    BY <2>1, Zenon DEF Next, Get, LoopStep, GetMiss, GetHit, GetStale, InsertExists,
       InsertBegin, CleanBegin, Purge, Idle, InsertTooBig, InsertFinish, Evict
  <2>3. CASE CleanOne
    <3>1. \A k \in DOMAIN store \ DOMAIN store' : store[k].ttl =< clock'
      BY <2>3, NextExpiryShape, Zenon DEF CleanOne, Del, Restrict
    <3>2. call' # NoCall
      BY <2>1, <2>3, Zenon DEF CleanOne
    <3> QED BY <3>1, <3>2, Zenon DEF CleanStepExact
  <2>4. CASE CleanDone
    <3>1. UNCHANGED store
      BY <2>4, Zenon DEF CleanDone, cache
    <3>2. ASSUME NEW k \in DOMAIN store PROVE store[k].ttl > clock'
      <4>1. store[k].ttl \in DOMAIN ttl
        BY Zenon DEF StrictInv, TtlIndexAgrees, TtlAgree
      <4>2. PICK t \in Reads : Min(DOMAIN ttl) > t /\ clock' = t
        BY <2>4, <4>1, Zenon DEF CleanDone
      <4>3. t \in Nat
        BY ReadsAreTimes, Zenon
      <4>4. Min(DOMAIN ttl) \in Nat /\ Min(DOMAIN ttl) =< store[k].ttl
        BY <4>1, NextExpiryShape, Zenon
      <4>5. store[k].ttl \in Nat
        BY <4>1, Zenon DEF StrictInv, IndexInv, TypeOK
      <4> QED BY <4>2, <4>3, <4>4, <4>5
    <3> QED BY <3>1, <3>2, Zenon DEF CleanStepExact
  <2>5. CASE CleanOrphan
    BY <2>5, NextExpiryShape, Zenon DEF CleanOrphan
  <2> QED BY <2>2, <2>3, <2>4, <2>5, Zenon
<1> QED BY StrictInvInit, <1>1, <1>2, PTL DEF Spec, ExpiresExactly
=============================================================================
