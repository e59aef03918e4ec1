------------------------------- MODULE Tlrfu --------------------------------
(***************************************************************************)
(* The gateway's content cache (ursa-gateway/src/cache/tlrfu.rs): least    *)
(* frequently used first, least recently used among those, bounded in      *)
(* bytes, and expiring by time.  Three indexes describe the same entries:  *)
(* store (by key), freq (by frequency, one Lru queue per frequency) and    *)
(* ttl (by expiry time).                                                   *)
(*                                                                         *)
(* Every method takes &mut self, so a call runs alone; `call' is the call  *)
(* in progress and each turn of a loop is one step of it.  A value is      *)
(* abstracted to its length.                                               *)
(***************************************************************************)
EXTENDS Integers, Sequences, FiniteSets, FiniteSetsExt, Maps, LruQueue

CONSTANTS
    Keys,       \* content identifiers
    Lengths,    \* lengths of the bodies offered for insertion
    MaxSize,    \* max_size
    TtlBuf,     \* ttl_buf
    ClockSteps, \* how far now() may move between two consecutive reads
    MaxClock,   \* bound: no call that reads now() begins after it
    MaxCount    \* bound: on a frequency and on the number of an Lru entry

ASSUME LengthsAssumption == Lengths \subseteq Nat
ASSUME SizeAssumption    == MaxSize \in Nat
ASSUME TimeAssumption    == /\ TtlBuf \in Nat
                            /\ MaxClock \in Nat
                            /\ ClockSteps \subseteq Int
ASSUME CountAssumption   == MaxCount \in Nat

VARIABLES
    store,      \* key -> [len, freq, lru_k, ttl]
    freq,       \* frequency -> queue of [k |-> lru_k, v |-> key]
    ttl,        \* expiry time -> key
    used_size,  \* bytes accounted for
    clock,      \* what now() returned last
    call,       \* the call in progress
    ret         \* what the last call returned

cache == <<store, freq, ttl, used_size>>
vars  == <<store, freq, ttl, used_size, clock, call, ret>>

NoCall    == [op |-> "none"]
CleanCall == [op |-> "clean"]
InsertCalls == [op : {"insert"}, key : Keys, len : Lengths]

Results == {"ok", "absent", "exists", "toobig", "stale", "orphan"}
Errors  == {"toobig", "stale", "orphan"}

Datas == [len : Lengths, freq : Nat \ {0}, lru_k : Nat, ttl : Nat]

StoreType(st) == DOMAIN st \subseteq Keys /\ \A k \in DOMAIN st : st[k] \in Datas

FreqType(fr) ==
    /\ DOMAIN fr \subseteq Nat \ {0}
    /\ \A f \in DOMAIN fr : fr[f] \in Seq([k : Nat, v : Keys])

TypeOK ==
    /\ StoreType(store)
    /\ FreqType(freq)
    /\ DOMAIN ttl \subseteq Nat
    /\ \A t \in DOMAIN ttl : ttl[t] \in Keys
    /\ used_size \in Int
    /\ clock \in Nat
    /\ call \in {NoCall, CleanCall} \cup InsertCalls
    /\ ret \in Results

Init ==
    /\ store = EmptyMap
    /\ freq = EmptyMap
    /\ ttl = EmptyMap
    /\ used_size = 0
    /\ clock = 0
    /\ call = NoCall
    /\ ret = "ok"

-----------------------------------------------------------------------------
(* The queues of freq.                                                     *)

\* The entry d of store is where freq says: the error returns at 61, 62,
\* 167 and 168 are taken exactly when this is false.
Indexed(d) == d.freq \in DOMAIN freq /\ HasKey(freq[d.freq], d.lru_k)

\* lru.remove(&k), then drop the queue if that emptied it.
Detach(fr, f, k) ==
    LET q == Without(fr[f], k)
    IN  IF q = <<>> THEN Del(fr, f) ELSE Put(fr, f, q)

\* The number the next entry of frequency f gets.
NewKey(fr, f) == NextKey(GetOr(fr, f, <<>>))

\* freq.entry(f).or_insert_with(Lru::new), then lru.insert(tail + 1, key).
Attach(fr, f, key) ==
    Put(fr, f, PushBack(GetOr(fr, f, <<>>), NewKey(fr, f), key))

\* now(): the clock is the system's, and moves as ClockSteps says.
Reads == {clock + d : d \in ClockSteps} \cap Nat

\* No two reads return the same time.
ClockAdvances == ClockSteps \subseteq Nat \ {0}

\* The calls that read the clock begin only below its bound.
ClockBound == clock < MaxClock

Idle == call = NoCall

Return(r) == call' = NoCall /\ ret' = r

-----------------------------------------------------------------------------
(* get                                                                     *)

GetMiss(k) ==
    /\ Idle
    /\ k \notin DOMAIN store
    /\ Return("absent")
    /\ UNCHANGED <<cache, clock>>

\* The frequency part of get: the entry moves one queue up.  What is put in
\* the new queue is the value found in the old one.
Promote(k) ==
    LET d    == store[k]
        key  == ValueAt(freq[d.freq], d.lru_k)
        rest == Detach(freq, d.freq, d.lru_k)
    IN  /\ ClockBound /\ d.freq < MaxCount
        /\ NewKey(rest, d.freq + 1) < MaxCount
        /\ Indexed(d)
        /\ freq' = Attach(rest, d.freq + 1, key)

\* The data of k afterwards, with expiry t.
Promoted(k, t) ==
    LET d == store[k]
    IN  [len   |-> d.len,
         freq  |-> d.freq + 1,
         lru_k |-> NewKey(Detach(freq, d.freq, d.lru_k), d.freq + 1),
         ttl   |-> t]

\* Mutant: the old expiry is not removed.
GetHitKeepsOldTtl(k) ==
    /\ Idle
    /\ k \in DOMAIN store
    /\ Promote(k)
    /\ store[k].ttl \in DOMAIN ttl
    /\ \E t \in Reads :
         /\ clock' = t
         /\ store' = Put(store, k, Promoted(k, t + TtlBuf))
         /\ ttl' = Put(ttl, t + TtlBuf, k)
    /\ Return("ok")
    /\ UNCHANGED used_size

\* The expiry is renewed under the key that the ttl index held.
GetHit(k) ==
    /\ Idle
    /\ k \in DOMAIN store
    /\ Promote(k)
    /\ store[k].ttl \in DOMAIN ttl
    /\ \E t \in Reads :
         /\ clock' = t
         /\ store' = Put(store, k, Promoted(k, t + TtlBuf))
         /\ ttl' = Put(Del(ttl, store[k].ttl), t + TtlBuf, ttl[store[k].ttl])
    /\ Return("ok")
    /\ UNCHANGED used_size

\* Mutant: the error is returned before the entry learns its new place.
GetStaleHalfway(k) ==
    /\ Idle
    /\ k \in DOMAIN store
    /\ Promote(k)
    /\ store[k].ttl \notin DOMAIN ttl
    /\ Return("stale")
    /\ UNCHANGED <<store, ttl, used_size, clock>>

\* Mutant: an entry without expiry is dropped.
GetStaleDrops(k) ==
    /\ Idle
    /\ k \in DOMAIN store
    /\ ClockBound /\ Indexed(store[k])
    /\ store[k].ttl \notin DOMAIN ttl
    /\ store' = Del(store, k)
    /\ freq' = Detach(freq, store[k].freq, store[k].lru_k)
    /\ used_size' = used_size - store[k].len
    /\ Return("stale")
    /\ UNCHANGED <<ttl, clock>>

\* `?' at 82: the frequency has changed, the expiry has not.
GetStale(k) ==
    /\ Idle
    /\ k \in DOMAIN store
    /\ Promote(k)
    /\ store[k].ttl \notin DOMAIN ttl
    /\ store' = Put(store, k, Promoted(k, store[k].ttl))
    /\ Return("stale")
    /\ UNCHANGED <<ttl, used_size, clock>>

-----------------------------------------------------------------------------
(* insert                                                                  *)

InsertExists(k) ==
    /\ Idle
    /\ k \in DOMAIN store
    /\ Return("exists")
    /\ UNCHANGED <<cache, clock>>

InsertBegin(k, n) ==
    /\ Idle
    /\ k \notin DOMAIN store
    /\ ClockBound /\ NewKey(freq, 1) < MaxCount
    /\ call' = [op |-> "insert", key |-> k, len |-> n]
    /\ UNCHANGED <<cache, clock, ret>>

\* Mutants: the new body is not counted; a body that just fits does not.
IsSizeExceededWithout(n) == used_size > MaxSize

IsSizeExceededEarly(n) == used_size + n >= MaxSize

IsSizeExceeded(n) == used_size + n > MaxSize

\* The key of the entry that insert evicts next.
Victim == Head(freq[Min(DOMAIN freq)]).v

\* Mutant: the most recently used entry of the lowest frequency goes.
EvictNewest ==
    /\ call.op = "insert"
    /\ IsSizeExceeded(call.len)
    /\ DOMAIN freq # {}
    /\ LET f == Min(DOMAIN freq)
           e == freq[f][Len(freq[f])]
       IN  /\ freq' = Detach(freq, f, e.k)
           /\ store' = Del(store, e.v)
           /\ used_size' = used_size - store[e.v].len
           /\ ttl' = Del(ttl, store[e.v].ttl)
    /\ UNCHANGED <<clock, call, ret>>

\* Mutant: the loop looks at its victim and does not remove it.
EvictPeeks ==
    /\ call.op = "insert"
    /\ IsSizeExceeded(call.len)
    /\ DOMAIN freq # {}
    /\ UNCHANGED vars

\* One turn of the loop 99-115.
Evict ==
    /\ call.op = "insert"
    /\ IsSizeExceeded(call.len)
    /\ DOMAIN freq # {}
    /\ LET f == Min(DOMAIN freq)
       IN  /\ Victim \in DOMAIN store
           /\ freq' = Detach(freq, f, Head(freq[f]).k)
           /\ store' = Del(store, Victim)
           /\ used_size' = used_size - store[Victim].len
           /\ ttl' = Del(ttl, store[Victim].ttl)
    /\ UNCHANGED <<clock, call, ret>>

\* `?' at 104: everything has been evicted and the body still does not fit.
InsertTooBig ==
    /\ call.op = "insert"
    /\ IsSizeExceeded(call.len)
    /\ DOMAIN freq = {}
    /\ Return("toobig")
    /\ UNCHANGED <<cache, clock>>

\* Mutant: frequencies begin at zero.
InsertFinishAtZero ==
    /\ call.op = "insert"
    /\ ~IsSizeExceeded(call.len)
    /\ freq' = Attach(freq, 0, call.key)
    /\ used_size' = used_size + call.len
    /\ \E t \in Reads :
         /\ clock' = t
         /\ store' = Put(store, call.key, [len |-> call.len, freq |-> 0,
                           lru_k |-> NewKey(freq, 0), ttl |-> t + TtlBuf])
         /\ ttl' = Put(ttl, t + TtlBuf, call.key)
    /\ Return("ok")

InsertFinish ==
    /\ call.op = "insert"
    /\ ~IsSizeExceeded(call.len)
    /\ freq' = Attach(freq, 1, call.key)
    /\ used_size' = used_size + call.len
    /\ \E t \in Reads :
         /\ clock' = t
         /\ store' = Put(store, call.key, [len |-> call.len, freq |-> 1,
                           lru_k |-> NewKey(freq, 1), ttl |-> t + TtlBuf])
         /\ ttl' = Put(ttl, t + TtlBuf, call.key)
    /\ Return("ok")

-----------------------------------------------------------------------------
(* process_ttl_clean_up: each turn of its loop reads the clock again.      *)

CleanBegin ==
    /\ Idle
    /\ ClockBound
    /\ call' = CleanCall
    /\ UNCHANGED <<cache, clock, ret>>

\* Mutant: the loop also stops at an entry that expires now.
CleanDoneEarly ==
    /\ call.op = "clean"
    /\ \/ DOMAIN ttl = {} /\ UNCHANGED clock
       \/ /\ DOMAIN ttl # {}
          /\ \E t \in Reads : Min(DOMAIN ttl) >= t /\ clock' = t
    /\ Return("ok")
    /\ UNCHANGED cache

CleanDone ==
    /\ call.op = "clean"
    /\ \/ DOMAIN ttl = {} /\ UNCHANGED clock
       \/ /\ DOMAIN ttl # {}
          /\ \E t \in Reads : Min(DOMAIN ttl) > t /\ clock' = t
    /\ Return("ok")
    /\ UNCHANGED cache

\* Mutant: the bytes of an expired entry stay accounted for.
CleanOneKeepsSize ==
    /\ call.op = "clean"
    /\ DOMAIN ttl # {}
    /\ \E t \in Reads : Min(DOMAIN ttl) =< t /\ clock' = t
    /\ LET k == ttl[Min(DOMAIN ttl)]
       IN  /\ k \in DOMAIN store
           /\ Indexed(store[k])
           /\ store' = Del(store, k)
           /\ freq' = Detach(freq, store[k].freq, store[k].lru_k)
           /\ ttl' = Del(ttl, store[k].ttl)
    /\ UNCHANGED <<used_size, call, ret>>

\* The entry removed from the ttl index is the one of the data found under
\* the key, which need not be the entry that named the key.
CleanOne ==
    /\ call.op = "clean"
    /\ DOMAIN ttl # {}
    /\ \E t \in Reads : Min(DOMAIN ttl) =< t /\ clock' = t
    /\ LET k == ttl[Min(DOMAIN ttl)]
       IN  /\ k \in DOMAIN store
           /\ Indexed(store[k])
           /\ store' = Del(store, k)
           /\ freq' = Detach(freq, store[k].freq, store[k].lru_k)
           /\ used_size' = used_size - store[k].len
           /\ ttl' = Del(ttl, store[k].ttl)
    /\ UNCHANGED <<call, ret>>

\* `?' at 163: the expired key is not in the store.
CleanOrphan ==
    /\ call.op = "clean"
    /\ DOMAIN ttl # {}
    /\ \E t \in Reads : Min(DOMAIN ttl) =< t /\ clock' = t
    /\ ttl[Min(DOMAIN ttl)] \notin DOMAIN store
    /\ Return("orphan")
    /\ UNCHANGED cache

Purge ==
    /\ Idle
    /\ store' = EmptyMap
    /\ freq' = EmptyMap
    /\ ttl' = EmptyMap
    /\ used_size' = 0
    /\ UNCHANGED <<clock, call, ret>>

-----------------------------------------------------------------------------
Get(k) == GetMiss(k) \/ GetHit(k) \/ GetStale(k)

\* The steps of a call that has begun.
LoopStep == Evict \/ InsertTooBig \/ InsertFinish
            \/ CleanDone \/ CleanOne \/ CleanOrphan

Next ==
    \/ \E k \in Keys : Get(k)
    \/ \E k \in Keys : InsertExists(k)
    \/ \E k \in Keys, n \in Lengths : InsertBegin(k, n)
    \/ CleanBegin
    \/ Purge
    \/ LoopStep

Spec == Init /\ [][Next]_vars

\* A call that holds the cache keeps running: tokio polls the task that made
\* it, and it awaits nothing but uncontended locks.
FairSpec == Spec /\ WF_vars(LoopStep)

-----------------------------------------------------------------------------
(* Properties.                                                             *)

\* The number and key of an entry of st are in the queue of its frequency.
Queued(st, fr, k) ==
    /\ st[k].freq \in DOMAIN fr
    /\ \E i \in DOMAIN fr[st[k].freq] :
         fr[st[k].freq][i] = [k |-> st[k].lru_k, v |-> k]

Agree(st, fr) ==
    /\ \A k \in DOMAIN st : Queued(st, fr, k)
    /\ \A f \in DOMAIN fr :
         /\ fr[f] # <<>>
         /\ Increasing(fr[f])
         /\ \A i \in DOMAIN fr[f] :
              /\ fr[f][i].v \in DOMAIN st
              /\ st[fr[f][i].v].freq = f
              /\ st[fr[f][i].v].lru_k = fr[f][i].k

\* store and freq describe the same entries: every stored entry is in the
\* queue of its frequency under its number and under its own key, every
\* queue entry is a stored one, no queue is empty and the numbers of a queue
\* increase.  Hence no lookup of get, insert or process_ttl_clean_up in freq
\* or, from freq, in store fails (61, 62, 105, 111, 167, 168) and tail + 1
\* is never taken (75, 122), whatever the clock does and whichever call
\* returned an error before.
IndexesAgree == Agree(store, freq)

TtlAgree(st, tt) ==
    /\ \A k \in DOMAIN st : st[k].ttl \in DOMAIN tt /\ tt[st[k].ttl] = k
    /\ \A t \in DOMAIN tt : tt[t] \in DOMAIN st /\ st[tt[t]].ttl = t

\* ttl has exactly one entry per stored key, under the key's expiry time, so
\* that every entry can expire and neither get nor process_ttl_clean_up
\* fails (82, 163).  It needs a clock that never returns a time twice.
TtlIndexAgrees == TtlAgree(store, ttl)

\* The tests of tlrfu.rs assert ttl.len() together with store.len() after
\* every sequence of calls they make.
TtlLenIsStoreLen == Idle => Cardinality(DOMAIN ttl) = Cardinality(DOMAIN store)

\* The bodies stored, as the gateway sees them: key -> length.
Bodies == [k \in DOMAIN store |-> store[k].len]

\* The contract of ContentCache for these bodies, in which an error of the
\* expiry index is admitted only when the clock may repeat itself.
Contract == INSTANCE ContentCache WITH
    content <- Bodies, ExpiryMayFail <- ~ClockAdvances

\* The three indexes, the accounting and the two loops implement a set of
\* bodies of at most max_size bytes, which get never changes, from which
\* insert drops a body only while the new one does not fit, and which gives
\* up only on a body larger than max_size.
ImplementsContentCache == Contract!CcSpec

\* used_size is the number of bytes stored, at every turn of every loop: the
\* subtractions at 113 and 175 never wrap.
UsedSizeExact == used_size = Contract!Bytes(Bodies)

\* The bytes accounted for never exceed max_size, not even while an insert
\* is between its last eviction and its last assignment.
CapacityRespected == used_size =< MaxSize

\* v is used least often, and of those used as often the longest ago (its
\* expiry is the earliest).
LeastUsed(v) ==
    \A k \in DOMAIN store :
      \/ store[v].freq < store[k].freq
      \/ store[v].freq = store[k].freq /\ store[v].ttl =< store[k].ttl

EvictStepLfu ==
    call.op = "insert" => \A v \in DOMAIN store \ DOMAIN store' : LeastUsed(v)

\* insert evicts an entry of the lowest frequency, and of those the one
\* whose last use is the longest ago.
EvictsLfuThenLru == [][EvictStepLfu]_vars

CleanStepExact ==
    call.op = "clean" =>
      /\ \A k \in DOMAIN store \ DOMAIN store' : store[k].ttl =< clock'
      /\ call' = NoCall /\ ret' = "ok" =>
           \A k \in DOMAIN store' : store'[k].ttl > clock'

\* process_ttl_clean_up removes an entry only when its expiry has passed, and
\* when it returns Ok no entry whose expiry has passed is left.
ExpiresExactly == [][CleanStepExact]_vars

\* insert and process_ttl_clean_up return: neither loop runs for ever, with
\* any clock.
CallsReturn == call # NoCall ~> call = NoCall
=============================================================================
