------------------------ MODULE NodeInterfaceProofs -------------------------
(***************************************************************************)
(* Proofs about the content interface and the index provider, for any       *)
(* number of requests and any DAGs: concurrent requests share one fetch and *)
(* are all registered with it, the lock's queue holds exactly those who are *)
(* after it, and the chain of advertisements is stored and only grows.      *)
(***************************************************************************)
EXTENDS NodeInterface, Induction, TLAPS

-----------------------------------------------------------------------------
(* The fetch from the origin. *)

OriginTypeOK ==
    /\ cid \in [Reqs -> Roots]
    /\ pc \in [Reqs -> PcStates]
    /\ task \in [Reqs -> TaskStates]
    /\ IsMap(pending, Roots, SUBSET Reqs)

\* A fetch keeps its entry until it notifies, and a request that has not
\* begun has none.
FetchesListed ==
    \A r \in Reqs : /\ Fetching(r) => cid[r] \in DOMAIN pending
                    /\ pc[r] = "idle" => task[r] = "none"

\* The inductive invariant.
OriginInv == OriginTypeOK /\ FetchesListed /\ OneFetchPerCid /\ WaitersHaveFetch

\* An answer is Ok or an error.
LEMMA AnswerTyped == ASSUME NEW r, NEW have PROVE Answer(r, have) \in {"ok", "err"}
BY Zenon DEF Answer

\* Nothing is listed and nothing fetched before the first request.
LEMMA OriginInvInit == Init => OriginInv
<1> SUFFICES ASSUME Init PROVE OriginInv
  BY Zenon
<1>1. IsMap(pending, Roots, SUBSET Reqs) /\ DOMAIN pending = {}
  BY Zenon DEF Init, EmptyMap, IsMap
<1>2. /\ cid \in [Reqs -> Roots]
      /\ pc = [r \in Reqs |-> "idle"] /\ task = [r \in Reqs |-> "none"]
  BY Zenon DEF Init
<1>3. OriginTypeOK
  BY <1>1, <1>2, Zenon DEF OriginTypeOK, PcStates, TaskStates
<1> QED BY <1>1, <1>2, <1>3, Zenon DEF OriginInv, FetchesListed, OneFetchPerCid, WaitersHaveFetch, Fetching

\* A step that changes no entry, begins and ends no fetch, and makes nobody
\* wait for the origin.
LEMMA QuietKeepsOrigin ==
    ASSUME OriginInv, OriginTypeOK', UNCHANGED <<cid, pending>>,
           \A r \in Reqs :
               /\ pc'[r] \in {"origin", "join"} => pc'[r] = pc[r]
               /\ pc'[r] = "idle" => task'[r] = "none"
               /\ Fetching(r)' <=> Fetching(r)
    PROVE  OriginInv'
<1>1. FetchesListed'
  BY Zenon DEF OriginInv, FetchesListed
<1>2. OneFetchPerCid'
  BY Zenon DEF OriginInv, OneFetchPerCid
<1>3. WaitersHaveFetch'
  BY Zenon DEF OriginInv, WaitersHaveFetch
<1> QED BY <1>1, <1>2, <1>3, Zenon DEF OriginInv

\* A request finds an entry and adds its channel.
LEMMA OccupiedKeepsOrigin ==
    ASSUME OriginInv, NEW r \in Reqs, OriginOccupied(r) PROVE OriginInv'
<1>1. /\ IsMap(pending, Roots, SUBSET Reqs) /\ cid[r] \in Roots
      /\ cid[r] \in DOMAIN pending /\ pending[cid[r]] \cup {r} \in SUBSET Reqs
  BY Zenon DEF OriginInv, OriginTypeOK, OriginOccupied, IsMap
<1>2. /\ IsMap(pending', Roots, SUBSET Reqs)
      /\ DOMAIN pending' = DOMAIN pending
      /\ \A d \in DOMAIN pending' :
             pending'[d] = IF d = cid[r] THEN pending[cid[r]] \cup {r} ELSE pending[d]
  BY <1>1, Zenon DEF OriginOccupied, Put, IsMap
<1>3. /\ cid' = cid /\ task' = task
      /\ pc' = [pc EXCEPT ![r] = "join"]
  BY Zenon DEF OriginOccupied, Goto, reqVars
<1>4. OriginTypeOK'
  BY <1>2, <1>3, Zenon DEF OriginInv, OriginTypeOK, PcStates
<1>5. FetchesListed' /\ OneFetchPerCid'
  BY <1>2, <1>3, Zenon DEF OriginInv, OriginTypeOK, FetchesListed, OneFetchPerCid, Fetching
<1>6. WaitersHaveFetch'
  BY <1>1, <1>2, <1>3 DEF OriginInv, OriginTypeOK, WaitersHaveFetch, Fetching
<1> QED BY <1>4, <1>5, <1>6, Zenon DEF OriginInv

\* The first request makes the entry and spawns the fetch.
LEMMA VacantKeepsOrigin ==
    ASSUME OriginInv, NEW r \in Reqs, OriginVacant(r) PROVE OriginInv'
<1>1. /\ IsMap(pending, Roots, SUBSET Reqs) /\ cid[r] \in Roots
      /\ cid[r] \notin DOMAIN pending /\ {r} \in SUBSET Reqs
  BY Zenon DEF OriginInv, OriginTypeOK, OriginVacant
<1>2. /\ IsMap(pending', Roots, SUBSET Reqs)
      /\ DOMAIN pending' = DOMAIN pending \cup {cid[r]}
      /\ \A d \in DOMAIN pending' : pending'[d] = IF d = cid[r] THEN {r} ELSE pending[d]
  BY <1>1, Zenon DEF OriginVacant, Put, IsMap
<1>3. cid' = cid
  BY Zenon DEF OriginVacant, reqVars
<1>4. \A s \in Reqs : Fetching(s) => cid[s] # cid[r]
  BY <1>1, Zenon DEF OriginInv, FetchesListed
<1>5. CASE UrlParses
  <2>1. pc' = [pc EXCEPT ![r] = "origin"] /\ task' = [task EXCEPT ![r] = "fetch"]
    BY <1>5, Zenon DEF OriginVacant, Goto
  <2>2. OriginTypeOK'
    BY <1>2, <1>3, <2>1, Zenon DEF OriginInv, OriginTypeOK, PcStates, TaskStates
  <2>3. FetchesListed'
    BY <1>2, <1>3, <2>1, Zenon DEF OriginInv, OriginTypeOK, FetchesListed, Fetching
  <2>4. OneFetchPerCid'
    BY <1>3, <1>4, <2>1 DEF OriginInv, OriginTypeOK, OneFetchPerCid, Fetching
  <2>5. WaitersHaveFetch'
    BY <1>1, <1>2, <1>3, <2>1 DEF OriginInv, OriginTypeOK, WaitersHaveFetch, Fetching
  <2> QED BY <2>2, <2>3, <2>4, <2>5, Zenon DEF OriginInv
<1>6. CASE ~UrlParses
  <2>1. pc' = [pc EXCEPT ![r] = "err"] /\ task' = task
    BY <1>6, Zenon DEF OriginVacant, Goto
  <2>2. OriginTypeOK'
    BY <1>2, <1>3, <2>1, Zenon DEF OriginInv, OriginTypeOK, PcStates
  <2>3. FetchesListed' /\ OneFetchPerCid'
    BY <1>2, <1>3, <2>1, Zenon DEF OriginInv, OriginTypeOK, FetchesListed, OneFetchPerCid, Fetching
  <2>4. WaitersHaveFetch'
    BY <1>1, <1>2, <1>3, <1>6, <2>1, Zenon DEF OriginInv, OriginTypeOK, WaitersHaveFetch
  <2> QED BY <2>2, <2>3, <2>4, Zenon DEF OriginInv
<1> QED BY <1>5, <1>6, Zenon

\* A fetch that is over takes its entry with it: whoever waits for its cid
\* is in that entry, and no other fetch is for that cid.
LEMMA NotifyKeepsOrigin ==
    ASSUME OriginInv, NEW r \in Reqs, TaskNotifies(r) PROVE OriginInv'
<1> DEFINE told == {s \in GetOr(pending, cid[r], {}) : pc[s] \in {"origin", "join"}}
<1>1. IsMap(pending, Roots, SUBSET Reqs) /\ pending' = Del(pending, cid[r])
  BY Zenon DEF OriginInv, OriginTypeOK, TaskNotifies
<1>2. /\ IsMap(pending', Roots, SUBSET Reqs)
      /\ DOMAIN pending' = DOMAIN pending \ {cid[r]}
      /\ \A d \in DOMAIN pending' : pending'[d] = pending[d]
  BY <1>1, Zenon DEF Del, Restrict, IsMap
<1>3. /\ cid' = cid
      /\ task' = [task EXCEPT ![r] = "done"]
      /\ pc' = [s \in Reqs |-> IF s \notin told THEN pc[s]
                               ELSE IF task[r] = "notify_ok" THEN "provide" ELSE "err"]
  BY Zenon DEF TaskNotifies, reqVars
<1>4. Fetching(r)
  BY Zenon DEF TaskNotifies, Fetching
<1>5. \A s \in Reqs : pc[s] \in {"origin", "join"} /\ cid[s] = cid[r] => s \in told
  BY Zenon DEF OriginInv, WaitersHaveFetch, GetOr
<1> HIDE DEF told
<1>6. \A s \in Reqs : /\ pc'[s] \in {"origin", "join"} => pc'[s] = pc[s] /\ s \notin told
                      /\ pc'[s] = "idle" => pc[s] = "idle"
                      /\ pc'[s] \in PcStates
  BY <1>3, Zenon DEF OriginInv, OriginTypeOK, PcStates
<1>7. \A s \in Reqs : Fetching(s)' <=> Fetching(s) /\ s # r
  BY <1>3, Zenon DEF OriginInv, OriginTypeOK, Fetching
<1>8. OriginTypeOK'
  <2>1. pc' \in [Reqs -> PcStates]
    BY <1>3, <1>6, Zenon
  <2> QED BY <1>2, <1>3, <2>1, Zenon DEF OriginInv, OriginTypeOK, TaskStates
<1>9. FetchesListed'
  <2>1. \A s \in Reqs : pc'[s] = "idle" => task'[s] = "none"
    BY <1>3, <1>4, <1>6, Zenon DEF OriginInv, OriginTypeOK, FetchesListed, Fetching
  <2>2. \A s \in Reqs : Fetching(s)' => cid'[s] \in DOMAIN pending'
    BY <1>2, <1>3, <1>4, <1>7, Zenon DEF OriginInv, FetchesListed, OneFetchPerCid
  <2> QED BY <2>1, <2>2, Zenon DEF FetchesListed
<1>10. OneFetchPerCid'
  BY <1>3, <1>7, Zenon DEF OriginInv, OneFetchPerCid
<1>11. WaitersHaveFetch'
  <2>1. \A s \in Reqs : pc'[s] \in {"origin", "join"} =>
            cid'[s] \in DOMAIN pending' /\ s \in pending'[cid'[s]]
    BY <1>2, <1>3, <1>5, <1>6, Zenon DEF OriginInv, WaitersHaveFetch
  <2>2. ASSUME UrlParses, NEW d \in DOMAIN pending'
        PROVE  \E s \in Reqs : Fetching(s)' /\ cid'[s] = d
    <3>1. PICK s \in Reqs : Fetching(s) /\ cid[s] = d
      BY <1>2, <2>2, Zenon DEF OriginInv, WaitersHaveFetch
    <3> QED BY <1>2, <1>3, <1>7, <2>2, <3>1, Zenon
  <2> QED BY <2>1, <2>2, Zenon DEF WaitersHaveFetch
<1> QED BY <1>8, <1>9, <1>10, <1>11, Zenon DEF OriginInv

\* After a crash nothing is listed and nobody waits.
LEMMA CrashKeepsOrigin == ASSUME OriginInv, Crash PROVE OriginInv'
<1>1. /\ cid' = cid /\ pending' = EmptyMap /\ task' = [r \in Reqs |-> "none"]
      /\ pc' = [r \in Reqs |-> IF Waiting(r) THEN "gone" ELSE pc[r]]
  BY Zenon DEF Crash, reqVars
<1>2. IsMap(pending', Roots, SUBSET Reqs) /\ DOMAIN pending' = {}
  BY <1>1, Zenon DEF EmptyMap, IsMap
<1>3. \A r \in Reqs : pc'[r] \notin {"origin", "join"} /\ ~Fetching(r)'
  BY <1>1, Zenon DEF Waiting, Fetching
<1>4. OriginTypeOK'
  BY <1>1, <1>2, Zenon DEF OriginInv, OriginTypeOK, PcStates, TaskStates
<1>5. FetchesListed'
  BY <1>1, <1>3, Zenon DEF FetchesListed
<1> QED BY <1>2, <1>3, <1>4, <1>5, Zenon DEF OriginInv, OneFetchPerCid, WaitersHaveFetch

\* Every step keeps the invariant.
LEMMA OriginInvStep == OriginInv /\ [Next]_vars => OriginInv'
<1> SUFFICES ASSUME OriginInv, [Next]_vars PROVE OriginInv'
  BY Zenon
<1> SUFFICES OriginInv'
  BY Zenon
<1>0. /\ cid \in [Reqs -> Roots] /\ pc \in [Reqs -> PcStates]
      /\ task \in [Reqs -> TaskStates] /\ IsMap(pending, Roots, SUBSET Reqs)
      /\ \A r \in Reqs : pc[r] = "idle" => task[r] = "none"
  BY Zenon DEF OriginInv, OriginTypeOK, FetchesListed
<1>1. CASE UNCHANGED vars
  BY <1>0, <1>1, QuietKeepsOrigin, Zenon DEF vars, OriginInv, OriginTypeOK, Fetching
<1>2. CASE \E r \in Reqs : SyncContent(r)
  <2> PICK r \in Reqs : SyncContent(r)
    BY <1>2, Zenon
  <2>1. /\ UNCHANGED <<cid, pending>>
        /\ pc[r] = "idle" /\ task[r] = "none"
    BY <1>0, Zenon DEF SyncContent, reqVars
  <2>2. \E l \in {"ok", "err", "network"}, k \in {"none", "bitswap"} :
            pc' = [pc EXCEPT ![r] = l] /\ task' = [task EXCEPT ![r] = k]
    <3>1. CASE cid[r] \in blocks
      BY <1>0, <2>1, <3>1, AnswerTyped DEF SyncContent, Goto
    <3>2. CASE cid[r] \notin blocks
      BY <3>2, Zenon DEF SyncContent, Goto
    <3> QED BY <3>1, <3>2, Zenon
  <2>3. OriginTypeOK'
    BY <1>0, <2>1, <2>2 DEF OriginTypeOK, PcStates, TaskStates
  <2> QED BY <1>0, <2>1, <2>2, <2>3, QuietKeepsOrigin, Zenon DEF Fetching
<1>3. CASE \E r \in Reqs : PutCar(r)
  <2> PICK r \in Reqs : PutCar(r)
    BY <1>3, Zenon
  <2>1. UNCHANGED <<cid, pending, task>>
    BY Zenon DEF PutCar, reqVars
  <2>2. \E l \in {"provide", "err"} : pc' = [pc EXCEPT ![r] = l]
    BY Zenon DEF PutCar, Goto
  <2>3. OriginTypeOK'
    BY <1>0, <2>1, <2>2, Zenon DEF OriginTypeOK, PcStates
  <2> QED BY <1>0, <2>1, <2>2, <2>3, QuietKeepsOrigin, Zenon DEF Fetching
<1>4. CASE \E r \in Reqs : NetworkOk(r)
  <2> PICK r \in Reqs : NetworkOk(r)
    BY <1>4, Zenon
  <2>1. /\ UNCHANGED <<cid, pending>> /\ task[r] = "bitswap"
        /\ task' = [task EXCEPT ![r] = "none"]
    BY Zenon DEF NetworkOk, reqVars
  <2>2. pc' = pc \/ \E l \in {"provide", "err"} : pc' = [pc EXCEPT ![r] = l]
    BY <1>0, Zenon DEF NetworkOk
  <2>3. OriginTypeOK'
    BY <1>0, <2>1, <2>2, Zenon DEF OriginTypeOK, PcStates, TaskStates
  <2> QED BY <1>0, <2>1, <2>2, <2>3, QuietKeepsOrigin, Zenon DEF Fetching
<1>5. CASE \E r \in Reqs : NetworkErr(r)
  <2> PICK r \in Reqs : NetworkErr(r)
    BY <1>5, Zenon
  <2>1. /\ UNCHANGED <<cid, pending>> /\ task[r] = "bitswap"
        /\ task' = [task EXCEPT ![r] = "none"]
    BY Zenon DEF NetworkErr, reqVars
  <2>2. pc' = pc \/ pc' = [pc EXCEPT ![r] = "lock"]
    BY Zenon DEF NetworkErr, Goto
  <2>3. OriginTypeOK'
    BY <1>0, <2>1, <2>2, Zenon DEF OriginTypeOK, PcStates, TaskStates
  <2> QED BY <1>0, <2>1, <2>2, <2>3, QuietKeepsOrigin, Zenon DEF Fetching
<1>6. CASE \E r \in Reqs : BitswapInsert(r) \/ ReadInto(r) \/ GraphsyncInsert(r)
  <2>1. UNCHANGED <<cid, pending, pc, task>>
    BY <1>6, Zenon DEF BitswapInsert, ReadInto, GraphsyncInsert, reqVars
  <2> QED BY <1>0, <2>1, QuietKeepsOrigin, Zenon DEF OriginTypeOK, Fetching
<1>7. CASE \E r \in Reqs : TaskFetched(r)
  <2> PICK r \in Reqs : TaskFetched(r)
    BY <1>7, Zenon
  <2>1. UNCHANGED <<cid, pending, pc>> /\ task[r] = "fetch"
    BY Zenon DEF TaskFetched, reqVars
  <2>2. \E k \in {"notify_ok", "notify_err"} : task' = [task EXCEPT ![r] = k]
    BY Zenon DEF TaskFetched
  <2>3. OriginTypeOK'
    BY <1>0, <2>1, <2>2, Zenon DEF OriginTypeOK, TaskStates
  <2> QED BY <1>0, <2>1, <2>2, <2>3, QuietKeepsOrigin, Zenon DEF Fetching
<1>8. CASE \E r \in Reqs : ProvideCid(r) \/ Cancel(r)
  <2> PICK r \in Reqs : ProvideCid(r) \/ Cancel(r)
    BY <1>8, Zenon
  <2>1. UNCHANGED <<cid, pending, task>>
    BY Zenon DEF ProvideCid, Cancel, reqVars
  <2>2. \E l \in {"ok", "err", "provider", "gone"} : pc' = [pc EXCEPT ![r] = l]
    BY AnswerTyped DEF ProvideCid, Cancel, Goto
  <2>3. OriginTypeOK'
    BY <1>0, <2>1, <2>2, Zenon DEF OriginTypeOK, PcStates
  <2> QED BY <1>0, <2>1, <2>2, <2>3, QuietKeepsOrigin, Zenon DEF Fetching
<1>9. CASE EngineReceives \/ EngineStep
  <2>1. UNCHANGED <<cid, pending, task>>
    BY <1>9, Zenon DEF EngineReceives, EngineStep, reqVars
  <2>2. /\ pc' \in [Reqs -> PcStates]
        /\ \A r \in Reqs : pc'[r] = pc[r] \/ pc'[r] \in {"ok", "err"}
    <3>1. CASE EngineReceives
      <4>1. PICK q : pc' = [pc EXCEPT ![q] = IF @ = "provider" THEN Answer(q, blocks) ELSE @]
        BY <3>1, Zenon DEF EngineReceives
      <4>2. Answer(q, blocks) \in {"ok", "err"}
        BY AnswerTyped, Zenon
      <4> QED BY <1>0, <4>1, <4>2, Zenon DEF PcStates
    <3>2. CASE EngineStep
      <4>1. \/ pc' = pc
            \/ pc' = [r \in Reqs |-> IF pc[r] = "provider" THEN Answer(r, blocks) ELSE pc[r]]
        BY <3>2, Zenon DEF EngineStep
      <4>2. \A r \in Reqs : Answer(r, blocks) \in {"ok", "err"}
        BY AnswerTyped, Zenon
      <4> QED BY <1>0, <4>1, <4>2, Zenon DEF PcStates
    <3> QED BY <1>9, <3>1, <3>2, Zenon
  <2>3. OriginTypeOK'
    BY <1>0, <2>1, <2>2, Zenon DEF OriginTypeOK
  <2> QED BY <1>0, <2>1, <2>2, <2>3, QuietKeepsOrigin, Zenon DEF Fetching
<1>10. CASE \E r \in Reqs : OriginOccupied(r)
  BY <1>10, OccupiedKeepsOrigin, Zenon
<1>11. CASE \E r \in Reqs : OriginVacant(r)
  BY <1>11, VacantKeepsOrigin, Zenon
<1>12. CASE \E r \in Reqs : TaskNotifies(r)
  BY <1>12, NotifyKeepsOrigin, Zenon
<1>13. CASE Crash
  BY <1>13, CrashKeepsOrigin, Zenon
<1>14. CASE \E r \in Reqs : CacheRequest(r)
  <2> PICK r \in Reqs : CacheRequest(r)
    BY <1>14, Zenon
  <2>1. /\ UNCHANGED <<cid, pending>>
        /\ pc[r] = "idle" /\ task[r] = "none"
        /\ pc' = [pc EXCEPT ![r] = "ok"] /\ task' = [task EXCEPT ![r] = "graphsync"]
    BY <1>0, Zenon DEF CacheRequest, Goto, reqVars
  <2>2. OriginTypeOK'
    BY <1>0, <2>1, Zenon DEF OriginTypeOK, PcStates, TaskStates
  <2> QED BY <1>0, <2>1, <2>2, QuietKeepsOrigin, Zenon DEF Fetching
<1>15. CASE \E r \in Reqs : handle_graphsync(r)
  <2> PICK r \in Reqs : handle_graphsync(r)
    BY <1>15, Zenon
  <2>1. /\ UNCHANGED <<cid, pending, pc>> /\ task[r] = "graphsync"
        /\ task' = [task EXCEPT ![r] = "done"]
    BY Zenon DEF handle_graphsync, reqVars
  <2>2. OriginTypeOK'
    BY <1>0, <2>1, Zenon DEF OriginTypeOK, TaskStates
  <2> QED BY <1>0, <2>1, <2>2, QuietKeepsOrigin, Zenon DEF Fetching
<1> QED BY <1>1, <1>2, <1>3, <1>4, <1>5, <1>6, <1>7, <1>8, <1>9, <1>10, <1>11, <1>12, <1>13, <1>14, <1>15, Zenon
        DEF Next, Advance

\* The invariant holds always.
LEMMA OriginInvAlways == Spec => []OriginInv
BY OriginInvInit, OriginInvStep, PTL DEF Spec

\* However many requests there are for a cid, and whichever of them are
\* cancelled or cut off by a crash, there is one fetch of it from the origin
\* at a time (the entry api.rs:309 makes).
THEOREM OneFetchAlways == Spec => []OneFetchPerCid
<1>1. OriginInv => OneFetchPerCid
  BY Zenon DEF OriginInv
<1> QED BY <1>1, OriginInvAlways, PTL

\* Whoever waits for the origin is registered with the fetch for its cid,
\* which is under way (api.rs:299-330, 360-387).
THEOREM WaitersAlwaysHaveFetch == Spec => []WaitersHaveFetch
<1>1. OriginInv => WaitersHaveFetch
  BY Zenon DEF OriginInv
<1> QED BY <1>1, OriginInvAlways, PTL

-----------------------------------------------------------------------------
(* The queue of the lock. *)

Notifying(r) == task[r] \in {"notify_ok", "notify_err"}
Queueing(r) == pc[r] \in {"lock", "join"}

\* Those who are after the lock of pending_requests.
InLine == {r \in Reqs : Queueing(r)} \cup {TaskOf[r] : r \in {s \in Reqs : Notifying(s)}}

\* They are in its queue, once each, and whoever has found an entry holds the
\* lock while it waits.
LockInv ==
    /\ lockq \in Seq(Reqs \cup Tasks)
    /\ Range(lockq) = InLine
    /\ NoRepeats(lockq)
    /\ \A r \in Reqs : pc[r] = "join" => Holds(r)

\* A step nobody begins or ceases to be after the lock in.
LEMMA QuietKeepsLock ==
    ASSUME LockInv, lockq' = lockq,
           \A r \in Reqs : /\ Queueing(r)' <=> Queueing(r)
                           /\ Notifying(r)' <=> Notifying(r)
                           /\ pc'[r] = "join" => pc[r] = "join" \/ Holds(r)
    PROVE  LockInv'
<1>1. InLine' = InLine
  BY Zenon DEF InLine
<1>2. \A r \in Reqs : Holds(r)' <=> Holds(r)
  BY Zenon DEF Holds
<1> QED BY <1>1, <1>2, Zenon DEF LockInv

\* A step in which one more waits for it.
LEMMA WaitingKeepsLock ==
    ASSUME LockInv, NEW x \in (Reqs \cup Tasks) \ InLine, lockq' = Append(lockq, x),
           InLine' = InLine \cup {x}, \A r \in Reqs : pc'[r] = "join" => pc[r] = "join"
    PROVE  LockInv'
<1>1. /\ lockq' \in Seq(Reqs \cup Tasks)
      /\ Range(lockq') = Range(lockq) \cup {x}
      /\ NoRepeats(lockq')
  BY AppendProps DEF LockInv
<1>2. \A r \in Reqs : Holds(r) => Holds(r)'
  <2>1. lockq # <<>> => lockq' # <<>> /\ Head(lockq') = Head(lockq)
    BY DEF LockInv
  <2> QED BY <2>1, Zenon DEF Holds
<1> QED BY <1>1, <1>2, Zenon DEF LockInv

\* A step in which its holder releases it.
LEMMA ReleaseKeepsLock ==
    ASSUME LockInv, NEW x, Holds(x), lockq' = Tail(lockq), InLine' = InLine \ {x},
           \A r \in Reqs : pc'[r] = "join" => pc[r] = "join" /\ r # x
    PROVE  LockInv'
<1>1. lockq # <<>> /\ Head(lockq) = x
  BY Zenon DEF Holds
<1>2. /\ Tail(lockq) \in Seq(Reqs \cup Tasks)
      /\ Range(lockq) = Range(Tail(lockq)) \cup {x}
      /\ NoRepeats(Tail(lockq)) /\ x \notin Range(Tail(lockq))
  BY <1>1, TailProps, Zenon DEF LockInv
<1>3. Range(lockq') = InLine'
  BY <1>2, Zenon DEF LockInv
<1>4. \A r \in Reqs : pc'[r] # "join"
  BY <1>1, Zenon DEF LockInv, Holds
<1> QED BY <1>2, <1>3, <1>4, Zenon DEF LockInv

\* The lock is not held by two.
LEMMA OneHolder == ASSUME NEW x, NEW y, Holds(x), Holds(y) PROVE x = y
BY Zenon DEF Holds

\* A task is no request, and no other request's.
LEMMA TasksApart ==
    ASSUME NEW r \in Reqs, NEW s \in Reqs
    PROVE  TaskOf[r] \in Tasks /\ TaskOf[r] # s /\ (TaskOf[r] = TaskOf[s] => r = s)
<1>1. TaskOf \in [Reqs -> Tasks] /\ Reqs \cap Tasks = {}
  BY InterfaceAssumption, Zenon
<1>2. TaskOf[r] = TaskOf[s] => r = s
  BY InterfaceAssumption, Zenon
<1> QED BY <1>1, <1>2, Zenon

\* Nobody is after the lock at the start.
LEMMA LockInvInit == Init => LockInv
<1> SUFFICES ASSUME Init PROVE LockInv
  BY Zenon
<1>1. lockq = <<>> /\ pc = [r \in Reqs |-> "idle"] /\ task = [r \in Reqs |-> "none"]
  BY Zenon DEF Init
<1>2. InLine = {}
  BY <1>1, Zenon DEF InLine, Queueing, Notifying
<1>3. lockq \in Seq(Reqs \cup Tasks) /\ Range(lockq) = {} /\ NoRepeats(lockq)
  BY <1>1, RangeEmpty DEF NoRepeats
<1> QED BY <1>1, <1>2, <1>3, Zenon DEF LockInv

\* A fetch from the network that fails sends its request to the lock.
LEMMA NetworkErrKeepsLock ==
    ASSUME OriginInv, LockInv, NEW r \in Reqs, NetworkErr(r) PROVE LockInv'
<1>0. pc \in [Reqs -> PcStates] /\ task \in [Reqs -> TaskStates]
  BY Zenon DEF OriginInv, OriginTypeOK
<1>1. task[r] = "bitswap" /\ task' = [task EXCEPT ![r] = "none"]
  BY Zenon DEF NetworkErr
<1>2. \A s \in Reqs : Notifying(s)' <=> Notifying(s)
  BY <1>0, <1>1, Zenon DEF Notifying
<1>3. CASE pc[r] = "network"
  <2>1. pc' = [pc EXCEPT ![r] = "lock"] /\ lockq' = Append(lockq, r)
    BY <1>3, Zenon DEF NetworkErr, Goto
  <2>2. r \notin InLine
    BY <1>3, TasksApart, Zenon DEF InLine, Queueing
  <2>3. \A s \in Reqs : Queueing(s)' <=> Queueing(s) \/ s = r
    BY <1>0, <2>1, Zenon DEF Queueing
  <2>4. InLine' = InLine \cup {r}
    BY <1>2, <2>3, Zenon DEF InLine
  <2>5. \A s \in Reqs : pc'[s] = "join" => pc[s] = "join"
    BY <1>0, <2>1, Zenon
  <2> QED BY <2>1, <2>2, <2>4, <2>5, WaitingKeepsLock, Zenon
<1>4. CASE pc[r] # "network"
  <2>1. pc' = pc /\ lockq' = lockq
    BY <1>4, Zenon DEF NetworkErr
  <2> QED BY <1>2, <2>1, QuietKeepsLock, Zenon DEF Queueing
<1> QED BY <1>3, <1>4, Zenon

\* The first request for a cid releases the lock.
LEMMA VacantKeepsLock ==
    ASSUME OriginInv, LockInv, NEW r \in Reqs, OriginVacant(r) PROVE LockInv'
<1>0. pc \in [Reqs -> PcStates] /\ task \in [Reqs -> TaskStates]
  BY Zenon DEF OriginInv, OriginTypeOK
<1>1. pc[r] = "lock" /\ Holds(r) /\ lockq' = Tail(lockq)
  BY Zenon DEF OriginVacant
<1>2. \E l \in {"origin", "err"} : pc' = [pc EXCEPT ![r] = l]
  BY Zenon DEF OriginVacant, Goto
<1>3. task' = task \/ task' = [task EXCEPT ![r] = "fetch"]
  BY Zenon DEF OriginVacant
<1>4. ~Notifying(r)
  <2> SUFFICES ASSUME Notifying(r) PROVE FALSE
    BY Zenon
  <2>1. Fetching(r)
    BY Zenon DEF Notifying, Fetching
  <2>2. cid[r] \in DOMAIN pending
    BY <2>1, Zenon DEF OriginInv, FetchesListed
  <2> QED BY <2>2, Zenon DEF OriginVacant
<1>5. \A s \in Reqs : Notifying(s)' <=> Notifying(s)
  BY <1>0, <1>3, <1>4, Zenon DEF Notifying
<1>6. \A s \in Reqs : Queueing(s)' <=> Queueing(s) /\ s # r
  BY <1>0, <1>2, Zenon DEF Queueing
<1>7. InLine' = InLine \ {r}
  BY <1>5, <1>6, TasksApart, Zenon DEF InLine
<1>8. \A s \in Reqs : pc'[s] = "join" => pc[s] = "join" /\ s # r
  BY <1>0, <1>2, Zenon
<1> QED BY <1>1, <1>7, <1>8, ReleaseKeepsLock, Zenon

\* A fetch that is over goes for the lock.
LEMMA FetchedKeepsLock ==
    ASSUME OriginInv, LockInv, NEW r \in Reqs, TaskFetched(r) PROVE LockInv'
<1>0. pc \in [Reqs -> PcStates] /\ task \in [Reqs -> TaskStates]
  BY Zenon DEF OriginInv, OriginTypeOK
<1>1. task[r] = "fetch" /\ lockq' = Append(lockq, TaskOf[r]) /\ pc' = pc
  BY Zenon DEF TaskFetched
<1>2. \E k \in {"notify_ok", "notify_err"} : task' = [task EXCEPT ![r] = k]
  BY Zenon DEF TaskFetched
<1>3. \A s \in Reqs : Notifying(s)' <=> Notifying(s) \/ s = r
  BY <1>0, <1>2, Zenon DEF Notifying
<1>4. \A s \in Reqs : Queueing(s)' <=> Queueing(s)
  BY <1>1, Zenon DEF Queueing
<1>5. TaskOf[r] \notin InLine /\ TaskOf[r] \in Tasks
  BY <1>1, TasksApart, Zenon DEF InLine, Notifying
<1>6. InLine' = InLine \cup {TaskOf[r]}
  BY <1>3, <1>4, Zenon DEF InLine
<1> QED BY <1>1, <1>5, <1>6, WaitingKeepsLock, Zenon

\* The task that notifies holds the lock, so that none of those it tells
\* does; it releases it.
LEMMA NotifyKeepsLock ==
    ASSUME OriginInv, LockInv, NEW r \in Reqs, TaskNotifies(r) PROVE LockInv'
<1> DEFINE told == {s \in GetOr(pending, cid[r], {}) : pc[s] \in {"origin", "join"}}
<1>0. /\ pc \in [Reqs -> PcStates] /\ task \in [Reqs -> TaskStates]
      /\ IsMap(pending, Roots, SUBSET Reqs)
  BY Zenon DEF OriginInv, OriginTypeOK
<1>1. /\ Notifying(r) /\ Holds(TaskOf[r]) /\ lockq' = Tail(lockq)
      /\ task' = [task EXCEPT ![r] = "done"]
      /\ pc' = [s \in Reqs |-> IF s \notin told THEN pc[s]
                               ELSE IF task[r] = "notify_ok" THEN "provide" ELSE "err"]
  BY Zenon DEF TaskNotifies, Notifying
<1>2. \A s \in Reqs : pc[s] # "join"
  BY <1>1, OneHolder, TasksApart, Zenon DEF LockInv
<1>3. told \subseteq Reqs
  BY <1>0, Zenon DEF GetOr, IsMap
<1>4. \A s \in told : pc[s] = "origin"
  BY <1>2, <1>3, Zenon
<1> HIDE DEF told
<1>5. \A s \in Reqs : /\ Queueing(s)' <=> Queueing(s)
                      /\ pc'[s] # "join"
  BY <1>0, <1>1, <1>2, <1>4, Zenon DEF Queueing
<1>6. \A s \in Reqs : Notifying(s)' <=> Notifying(s) /\ s # r
  BY <1>0, <1>1, Zenon DEF Notifying
<1>7. InLine' = InLine \ {TaskOf[r]}
  BY <1>5, <1>6, TasksApart, Zenon DEF InLine
<1> QED BY <1>1, <1>5, <1>7, ReleaseKeepsLock, Zenon

\* A request that is dropped leaves the queue, and whoever else was first in
\* it stays first.
LEMMA CancelKeepsLock ==
    ASSUME OriginInv, LockInv, NEW r \in Reqs, Cancel(r) PROVE LockInv'
<1>0. pc \in [Reqs -> PcStates]
  BY Zenon DEF OriginInv, OriginTypeOK
<1>1. pc' = [pc EXCEPT ![r] = "gone"] /\ lockq' = Leave(lockq, {r}) /\ task' = task
  BY Zenon DEF Cancel, Goto
<1>2. /\ lockq' \in Seq(Reqs \cup Tasks)
      /\ Range(lockq') = Range(lockq) \ {r}
      /\ NoRepeats(lockq')
  BY <1>1, LeaveProps, Zenon DEF LockInv
<1>3. /\ \A s \in Reqs : Queueing(s)' <=> Queueing(s) /\ s # r
      /\ \A s \in Reqs : Notifying(s)' <=> Notifying(s)
      /\ \A s \in Reqs : pc'[s] = "join" => pc[s] = "join" /\ s # r
  BY <1>0, <1>1, Zenon DEF Queueing, Notifying
<1>4. InLine' = InLine \ {r}
  BY <1>3, TasksApart DEF InLine
<1>5. ASSUME NEW s \in Reqs, pc'[s] = "join" PROVE Holds(s)'
  <2>1. lockq # <<>> /\ Head(lockq) = s /\ s # r
    BY <1>3, <1>5, Zenon DEF LockInv, Holds
  <2>2. Head(lockq) \notin {r} /\ lockq \in Seq(Reqs \cup Tasks)
    BY <2>1, Zenon DEF LockInv
  <2>3. lockq' # <<>> /\ Head(lockq') = s
    BY <1>1, <2>1, <2>2, LeaveHead, Zenon
  <2> QED BY <2>3, Zenon DEF Holds
<1> QED BY <1>2, <1>4, <1>5, Zenon DEF LockInv

\* A crash leaves nobody.
LEMMA CrashKeepsLock == ASSUME LockInv, Crash PROVE LockInv'
<1>1. /\ lockq' = <<>> /\ task' = [r \in Reqs |-> "none"]
      /\ pc' = [r \in Reqs |-> IF Waiting(r) THEN "gone" ELSE pc[r]]
  BY Zenon DEF Crash
<1>2. \A r \in Reqs : pc'[r] \notin {"lock", "join"}
  BY <1>1, Zenon DEF Waiting
<1>3. InLine' = {}
  BY <1>1, <1>2, Zenon DEF InLine, Queueing, Notifying
<1>4. lockq' \in Seq(Reqs \cup Tasks) /\ Range(lockq') = {} /\ NoRepeats(lockq')
  BY <1>1, RangeEmpty DEF NoRepeats
<1> QED BY <1>2, <1>3, <1>4, Zenon DEF LockInv

\* Every step keeps the queue.
LEMMA LockInvStep == ASSUME OriginInv, LockInv, [Next]_vars PROVE LockInv'
<1>0. /\ pc \in [Reqs -> PcStates] /\ task \in [Reqs -> TaskStates]
      /\ \A r \in Reqs : pc[r] = "idle" => task[r] = "none"
  BY Zenon DEF OriginInv, OriginTypeOK, FetchesListed
<1>1. ASSUME NEW r \in Reqs, SyncContent(r) \/ CacheRequest(r) PROVE LockInv'
  <2>1. pc[r] = "idle" /\ task[r] = "none" /\ lockq' = lockq
    BY <1>0, <1>1, Zenon DEF SyncContent, CacheRequest
  <2>2. \E l \in {"ok", "err", "network"} : pc' = [pc EXCEPT ![r] = l]
    BY <1>1, AnswerTyped, Zenon DEF SyncContent, CacheRequest, Goto
  <2>3. task' = task \/ \E k \in {"bitswap", "graphsync"} : task' = [task EXCEPT ![r] = k]
    BY <1>1, Zenon DEF SyncContent, CacheRequest
  <2>4. \A s \in Reqs : /\ Queueing(s)' <=> Queueing(s)
                        /\ pc'[s] = "join" => pc[s] = "join"
    BY <1>0, <2>1, <2>2, Zenon DEF Queueing
  <2>5. \A s \in Reqs : Notifying(s)' <=> Notifying(s)
    BY <1>0, <2>1, <2>3, Zenon DEF Notifying
  <2> QED BY <2>1, <2>4, <2>5, QuietKeepsLock, Zenon
<1>2. ASSUME NEW r \in Reqs, NetworkOk(r) PROVE LockInv'
  <2>1. task[r] = "bitswap" /\ task' = [task EXCEPT ![r] = "none"] /\ lockq' = lockq
    BY <1>2, Zenon DEF NetworkOk
  <2>2. pc' = pc \/ (pc[r] = "network" /\ \E l \in {"provide", "err"} : pc' = [pc EXCEPT ![r] = l])
    BY <1>0, <1>2, Zenon DEF NetworkOk
  <2>3. \A s \in Reqs : /\ Queueing(s)' <=> Queueing(s)
                        /\ pc'[s] = "join" => pc[s] = "join"
    BY <1>0, <2>2, Zenon DEF Queueing
  <2>4. \A s \in Reqs : Notifying(s)' <=> Notifying(s)
    BY <1>0, <2>1, Zenon DEF Notifying
  <2> QED BY <2>1, <2>3, <2>4, QuietKeepsLock, Zenon
<1>3. ASSUME NEW r \in Reqs, OriginOccupied(r) PROVE LockInv'
  <2>1. /\ pc[r] = "lock" /\ Holds(r) /\ lockq' = lockq /\ task' = task
        /\ pc' = [pc EXCEPT ![r] = "join"]
    BY <1>3, Zenon DEF OriginOccupied, Goto
  <2>2. \A s \in Reqs : /\ Queueing(s)' <=> Queueing(s)
                        /\ pc'[s] = "join" => pc[s] = "join" \/ Holds(s)
                        /\ Notifying(s)' <=> Notifying(s)
    BY <1>0, <2>1, Zenon DEF Queueing, Notifying
  <2> QED BY <2>1, <2>2, QuietKeepsLock, Zenon
<1>4. ASSUME NEW r \in Reqs, ProvideCid(r) \/ PutCar(r) PROVE LockInv'
  <2>1. pc[r] \in {"provide", "idle"} /\ lockq' = lockq /\ task' = task
    BY <1>4, Zenon DEF ProvideCid, PutCar
  <2>2. \E l \in {"ok", "err", "provider", "provide"} : pc' = [pc EXCEPT ![r] = l]
    BY <1>4, AnswerTyped, Zenon DEF ProvideCid, PutCar, Goto
  <2>3. \A s \in Reqs : /\ Queueing(s)' <=> Queueing(s)
                        /\ pc'[s] = "join" => pc[s] = "join"
                        /\ Notifying(s)' <=> Notifying(s)
    BY <1>0, <2>1, <2>2, Zenon DEF Queueing, Notifying
  <2> QED BY <2>1, <2>3, QuietKeepsLock, Zenon
<1>5. ASSUME NEW r \in Reqs, BitswapInsert(r) \/ ReadInto(r) \/ GraphsyncInsert(r) PROVE LockInv'
  <2>1. UNCHANGED <<pc, task, lockq>>
    BY <1>5, Zenon DEF BitswapInsert, ReadInto, GraphsyncInsert
  <2> QED BY <2>1, QuietKeepsLock, Zenon DEF Queueing, Notifying
<1>6. ASSUME NEW r \in Reqs, handle_graphsync(r) PROVE LockInv'
  <2>1. /\ UNCHANGED <<pc, lockq>> /\ task[r] = "graphsync"
        /\ task' = [task EXCEPT ![r] = "done"]
    BY <1>6, Zenon DEF handle_graphsync
  <2>2. \A s \in Reqs : (Notifying(s)' <=> Notifying(s)) /\ (Queueing(s)' <=> Queueing(s))
    BY <1>0, <2>1, Zenon DEF Notifying, Queueing
  <2> QED BY <2>1, <2>2, QuietKeepsLock, Zenon
<1>7. ASSUME EngineReceives \/ EngineStep PROVE LockInv'
  <2>1. UNCHANGED <<task, lockq>>
    BY <1>7, Zenon DEF EngineReceives, EngineStep
  <2>2. \A s \in Reqs : pc'[s] = pc[s] \/ (pc[s] = "provider" /\ pc'[s] \in {"ok", "err"})
    <3>1. CASE EngineReceives
      <4>1. PICK q : pc' = [pc EXCEPT ![q] = IF @ = "provider" THEN Answer(q, blocks) ELSE @]
        BY <3>1, Zenon DEF EngineReceives
      <4>2. Answer(q, blocks) \in {"ok", "err"}
        BY AnswerTyped, Zenon
      <4> QED BY <1>0, <4>1, <4>2, Zenon
    <3>2. CASE EngineStep
      <4>1. \/ pc' = pc
            \/ pc' = [r \in Reqs |-> IF pc[r] = "provider" THEN Answer(r, blocks) ELSE pc[r]]
        BY <3>2, Zenon DEF EngineStep
      <4>2. \A r \in Reqs : Answer(r, blocks) \in {"ok", "err"}
        BY AnswerTyped, Zenon
      <4> QED BY <1>0, <4>1, <4>2, Zenon
    <3> QED BY <1>7, <3>1, <3>2, Zenon
  <2>3. \A s \in Reqs : /\ Queueing(s)' <=> Queueing(s)
                        /\ pc'[s] = "join" => pc[s] = "join"
                        /\ Notifying(s)' <=> Notifying(s)
    BY <2>1, <2>2, Zenon DEF Queueing, Notifying
  <2> QED BY <2>1, <2>3, QuietKeepsLock, Zenon
<1>8. ASSUME UNCHANGED vars PROVE LockInv'
  BY <1>8, QuietKeepsLock, Zenon DEF vars, Queueing, Notifying
<1> QED BY <1>1, <1>2, <1>3, <1>4, <1>5, <1>6, <1>7, <1>8, NetworkErrKeepsLock, VacantKeepsLock,
           FetchedKeepsLock, NotifyKeepsLock, CancelKeepsLock, CrashKeepsLock, Zenon DEF Next, Advance

\* The queue is always that of those who are after the lock.
LEMMA LockInvAlways == Spec => []LockInv
<1>1. OriginInv /\ LockInv /\ [Next]_vars => LockInv'
  BY LockInvStep, Zenon
<1> QED BY <1>1, LockInvInit, OriginInvAlways, PTL DEF Spec

-----------------------------------------------------------------------------
(* The chain of advertisements. *)

\* The chains and the job are what the engine makes of them: sequences, and
\* a record.
Shapes ==
    /\ saved \in Seq(Range(saved)) /\ announced \in Seq(Range(announced))
    /\ job = [root |-> job.root, Entries |-> job.Entries, left |-> job.left, prev |-> job.prev]
    /\ job.Entries \in Seq(Range(job.Entries))

\* The chunks of the job are in the store, and from the moment the head is
\* taken the job remembers the saved one.
JobFollowsHead ==
    /\ \A j \in 1..Len(job.Entries) : SubSeq(job.Entries, 1, j) \in chunks
    /\ engine \in {"put", "save"} => job.prev = saved
    /\ engine = "save" => NewAd \in ads

\* The inductive invariant.
ChainInv ==
    /\ Shapes
    /\ JobFollowsHead
    /\ HeadIsSaved
    /\ ChainIsStored
    /\ Extends(saved, announced)

\* What appending to a sequence does to it.
LEMMA ChainAppend ==
    ASSUME NEW s, s \in Seq(Range(s)), NEW e
    PROVE  LET t == Append(s, e) IN
           /\ t \in Seq(Range(t))
           /\ Len(s) \in Nat /\ Len(t) = Len(s) + 1
           /\ \A i \in 1..Len(s) : t[i] = s[i] /\ SubSeq(t, 1, i) = SubSeq(s, 1, i)
           /\ t[Len(t)] = e /\ SubSeq(t, 1, Len(t)) = t
           /\ Extends(t, s)
<1> DEFINE t == Append(s, e)
           S == Range(s) \cup {e}
<1>1. s \in Seq(S) /\ e \in S
  OBVIOUS
<1> HIDE DEF S
<1>2. /\ t \in Seq(S) /\ Len(s) \in Nat /\ Len(t) = Len(s) + 1
      /\ t[Len(t)] = e /\ \A i \in 1..Len(s) : t[i] = s[i]
  BY <1>1
<1>3. \A i \in 0..Len(s) : SubSeq(t, 1, i) = SubSeq(s, 1, i)
  BY <1>1, <1>2
<1>4. SubSeq(t, 1, Len(t)) = t /\ SubSeq(s, 1, Len(s)) = s
  BY <1>1, <1>2
<1>5. t \in Seq(Range(t))
  BY <1>2 DEF Range
<1> HIDE DEF t
<1>6. Extends(t, s)
  BY <1>2, <1>3, <1>4 DEF Extends
<1> QED BY <1>2, <1>3, <1>4, <1>5, <1>6 DEF t

\* A chain extends itself.
LEMMA ExtendsReflexive == ASSUME NEW s, s \in Seq(Range(s)) PROVE Extends(s, s)
BY DEF Extends

\* What a chain extends, a longer one extends too.
LEMMA ExtendsTransitive ==
    ASSUME NEW s, NEW t, NEW u, s \in Seq(Range(s)), t \in Seq(Range(t)), u \in Seq(Range(u)),
           Extends(t, s), Extends(u, t)
    PROVE  Extends(u, s)
<1>1. /\ Len(s) \in Nat /\ Len(t) \in Nat /\ Len(u) \in Nat
      /\ Len(s) <= Len(t) /\ Len(t) <= Len(u)
      /\ SubSeq(t, 1, Len(s)) = s /\ SubSeq(u, 1, Len(t)) = t
  BY DEF Extends
<1>2. \A i \in 1..Len(s) : s[i] = t[i]
  <2> TAKE i \in 1..Len(s)
  <2>1. SubSeq(t, 1, Len(s))[i] = t[i]
    BY <1>1
  <2> QED BY <1>1, <2>1, Zenon
<1>3. \A i \in 1..Len(t) : t[i] = u[i]
  <2> TAKE i \in 1..Len(t)
  <2>1. SubSeq(u, 1, Len(t))[i] = u[i]
    BY <1>1
  <2> QED BY <1>1, <2>1, Zenon
<1>4. SubSeq(u, 1, Len(s)) = s
  <2>1. \A i \in 1..Len(s) : SubSeq(u, 1, Len(s))[i] = s[i]
    BY <1>1, <1>2, <1>3
  <2>2. SubSeq(u, 1, Len(s)) \in Seq(Range(u)) /\ Len(SubSeq(u, 1, Len(s))) = Len(s)
    BY <1>1
  <2> QED BY <1>1, <2>1, <2>2
<1> QED BY <1>1, <1>4 DEF Extends

\* The chain is empty before anything is published.
LEMMA ChainInvInit == Init => ChainInv
<1> SUFFICES ASSUME Init PROVE ChainInv
  BY Zenon
<1>1. /\ saved = <<>> /\ announced = <<>> /\ head = <<>> /\ engine = "idle"
      /\ job = [root |-> None, Entries |-> <<>>, left |-> {}, prev |-> <<>>]
  BY Zenon DEF Init, ProvInit, NoJob
<1>2. Shapes
  BY <1>1 DEF Shapes
<1>3. Extends(saved, announced)
  BY <1>1 DEF Extends
<1> QED BY <1>1, <1>2, <1>3 DEF ChainInv, JobFollowsHead, HeadIsSaved, ChainIsStored

\* A step that leaves the stored chain alone keeps what is said about it.
LEMMA StoredChainKept ==
    ASSUME ChainIsStored, saved' = saved, ads \subseteq ads', chunks \subseteq chunks'
    PROVE  ChainIsStored'
BY Zenon DEF ChainIsStored

\* The engine has nothing to do, and the head is the saved one.
LEMMA IdleKeepsChain ==
    ASSUME ChainInv, Idle, UNCHANGED diskVars, head' = saved, announced' \in {announced, saved}
    PROVE  ChainInv'
<1>1. job' = [root |-> None, Entries |-> <<>>, left |-> {}, prev |-> <<>>] /\ engine' = "idle"
  BY Zenon DEF Idle, NoJob
<1>2. saved' = saved /\ ads' = ads /\ chunks' = chunks
  BY Zenon DEF diskVars
<1>3. Shapes'
  BY <1>1, <1>2 DEF ChainInv, Shapes
<1>4. Extends(saved', announced')
  BY <1>2, ExtendsReflexive, Zenon DEF ChainInv, Shapes
<1>5. ChainIsStored'
  BY <1>2, StoredChainKept, Zenon DEF ChainInv
<1>6. JobFollowsHead' /\ HeadIsSaved'
  BY <1>1, <1>2 DEF JobFollowsHead, HeadIsSaved
<1> QED BY <1>3, <1>4, <1>5, <1>6, Zenon DEF ChainInv

\* A step that leaves the provider alone, but for Puts that are sent to it.
LEMMA SendingKeepsChain ==
    ASSUME ChainInv, UNCHANGED <<engine, job, head, saved, ads, chunks, announced>>
    PROVE  ChainInv'
BY Zenon DEF ChainInv, Shapes, JobFollowsHead, NewAd, HeadIsSaved, ChainIsStored

\* A job is begun, or gets the entries it has to publish.
LEMMA BeginKeepsChain ==
    ASSUME ChainInv, UNCHANGED <<head, diskVars, announced>>,
           engine \notin {"put", "save", "dead"}, engine' \in {"addresses", "chunks"},
           \/ \E r : job' = [NoJob EXCEPT !.root = r]
           \/ \E l : job' = [job EXCEPT !.left = l]
    PROVE  ChainInv'
<1>1. saved' = saved /\ ads' = ads /\ chunks' = chunks /\ head' = head /\ announced' = announced
  BY Zenon DEF diskVars
<1>2. /\ job' = [root |-> job'.root, Entries |-> job'.Entries, left |-> job'.left, prev |-> job'.prev]
      /\ job'.Entries \in {job.Entries, <<>>}
  <2>1. CASE \E r : job' = [NoJob EXCEPT !.root = r]
    BY <2>1, Zenon DEF NoJob
  <2>2. CASE \E l : job' = [job EXCEPT !.left = l]
    <3>1. PICK l : job' = [job EXCEPT !.left = l]
      BY <2>2, Zenon
    <3>2. job = [root |-> job.root, Entries |-> job.Entries, left |-> job.left, prev |-> job.prev]
      BY Zenon DEF ChainInv, Shapes
    <3>3. job' = [root |-> job.root, Entries |-> job.Entries, left |-> l, prev |-> job.prev]
      BY <3>1, <3>2, Zenon
    <3> QED BY <3>3, Zenon
  <2> QED BY <2>1, <2>2, Zenon
<1>3. Shapes'
  <2>1. job'.Entries \in Seq(Range(job'.Entries))
    <3>1. job.Entries \in Seq(Range(job.Entries)) /\ <<>> \in Seq(Range(<<>>))
      BY DEF ChainInv, Shapes
    <3> QED BY <1>2, <3>1, Zenon
  <2> QED BY <1>1, <1>2, <2>1, Zenon DEF ChainInv, Shapes
<1>4. JobFollowsHead'
  BY <1>1, <1>2 DEF ChainInv, JobFollowsHead
<1>5. HeadIsSaved'
  BY <1>1, Zenon DEF ChainInv, HeadIsSaved
<1>6. ChainIsStored' /\ Extends(saved', announced')
  BY <1>1, StoredChainKept, Zenon DEF ChainInv
<1> QED BY <1>3, <1>4, <1>5, <1>6, Zenon DEF ChainInv

\* A chunk is stored and linked to the ones before it.
LEMMA ChunkKeepsChain == ASSUME ChainInv, add_chunk PROVE ChainInv'
<1> DEFINE E == job.Entries
           e == Slice(job.left)
           c == Append(E, e)
<1>1. /\ saved' = saved /\ ads' = ads /\ head' = head /\ announced' = announced
      /\ engine' = engine /\ engine = "chunks"
      /\ chunks' = chunks \cup {c}
      /\ job' = [job EXCEPT !.Entries = c, !.left = @ \ e]
  BY Zenon DEF add_chunk
<1> HIDE DEF e
<1>2. /\ c \in Seq(Range(c)) /\ Len(E) \in Nat /\ Len(c) = Len(E) + 1
      /\ \A i \in 1..Len(E) : SubSeq(c, 1, i) = SubSeq(E, 1, i)
      /\ SubSeq(c, 1, Len(c)) = c
  BY ChainAppend, Zenon DEF ChainInv, Shapes
<1> HIDE DEF c, E
<1>3. job' = [root |-> job.root, Entries |-> c, left |-> job.left \ e, prev |-> job.prev]
  <2>1. job = [root |-> job.root, Entries |-> job.Entries, left |-> job.left, prev |-> job.prev]
    BY Zenon DEF ChainInv, Shapes
  <2> QED BY <1>1, <2>1, Zenon
<1>4. Shapes'
  BY <1>1, <1>2, <1>3, Zenon DEF ChainInv, Shapes
<1>5. JobFollowsHead'
  <2>1. job'.Entries = c
    BY <1>3, Zenon
  <2>2. \A j \in 1..Len(E) : SubSeq(E, 1, j) \in chunks
    BY Zenon DEF ChainInv, JobFollowsHead, E
  <2>3. ASSUME NEW j \in 1..Len(c) PROVE SubSeq(c, 1, j) \in chunks'
    <3>1. j = Len(c) \/ j \in 1..Len(E)
      BY <1>2
    <3> QED BY <1>1, <1>2, <2>2, <3>1, Zenon
  <2> QED BY <1>1, <2>1, <2>3, Zenon DEF JobFollowsHead
<1>6. HeadIsSaved' /\ ChainIsStored' /\ Extends(saved', announced')
  BY <1>1, StoredChainKept, Zenon DEF ChainInv, HeadIsSaved
<1> QED BY <1>4, <1>5, <1>6, Zenon DEF ChainInv

\* publish takes the head, which is the saved one, and remembers it.
LEMMA TakeKeepsChain == ASSUME ChainInv, publish_take PROVE ChainInv'
<1>1. /\ saved' = saved /\ ads' = ads /\ chunks' = chunks /\ announced' = announced
      /\ engine = "chunks" /\ engine' = "put" /\ head' = <<>>
      /\ job' = [job EXCEPT !.prev = head]
  BY Zenon DEF publish_take, diskVars
<1>2. head = saved
  BY <1>1, Zenon DEF ChainInv, HeadIsSaved
<1>3. job' = [root |-> job.root, Entries |-> job.Entries, left |-> job.left, prev |-> saved]
  <2>1. job = [root |-> job.root, Entries |-> job.Entries, left |-> job.left, prev |-> job.prev]
    BY Zenon DEF ChainInv, Shapes
  <2> QED BY <1>1, <1>2, <2>1, Zenon
<1>4. Shapes'
  BY <1>1, <1>3, Zenon DEF ChainInv, Shapes
<1>5. JobFollowsHead'
  BY <1>1, <1>3 DEF ChainInv, JobFollowsHead
<1>6. HeadIsSaved' /\ ChainIsStored' /\ Extends(saved', announced')
  BY <1>1, StoredChainKept, Zenon DEF ChainInv, HeadIsSaved
<1> QED BY <1>4, <1>5, <1>6, Zenon DEF ChainInv

\* The advertisement is stored before the head is.
LEMMA PutKeepsChain == ASSUME ChainInv, publish_put PROVE ChainInv'
<1>1. /\ saved' = saved /\ chunks' = chunks /\ announced' = announced /\ job' = job
      /\ engine = "put" /\ engine' = "save" /\ head' = head
      /\ ads' = ads \cup {NewAd}
  BY Zenon DEF publish_put
<1>2. NewAd' = NewAd
  BY <1>1, Zenon DEF NewAd
<1>3. Shapes'
  BY <1>1, Zenon DEF ChainInv, Shapes
<1>4. JobFollowsHead'
  BY <1>1, <1>2, Zenon DEF ChainInv, JobFollowsHead
<1>5. HeadIsSaved' /\ ChainIsStored' /\ Extends(saved', announced')
  BY <1>1, StoredChainKept, Zenon DEF ChainInv, HeadIsSaved
<1> QED BY <1>3, <1>4, <1>5, Zenon DEF ChainInv

\* The new head is the saved one with one advertisement more.
LEMMA SaveExtends ==
    ASSUME ChainInv, publish_save
    PROVE  /\ saved' = Append(saved, [root |-> job.root, Entries |-> job.Entries])
           /\ saved' \in Seq(Range(saved')) /\ saved' \in ads'
           /\ Len(saved) \in Nat /\ Len(saved') = Len(saved) + 1
           /\ \A i \in 1..Len(saved) :
                  saved'[i] = saved[i] /\ SubSeq(saved', 1, i) = SubSeq(saved, 1, i)
           /\ saved'[Len(saved')] = [root |-> job.root, Entries |-> job.Entries]
           /\ SubSeq(saved', 1, Len(saved')) = saved'
           /\ Extends(saved', saved) /\ Extends(saved', announced')
<1>1. /\ engine = "save" /\ saved' = NewAd /\ ads' = ads /\ announced' = announced
  BY Zenon DEF publish_save
<1>2. /\ saved' = Append(saved, [root |-> job.root, Entries |-> job.Entries])
      /\ saved' \in ads'
  BY <1>1, Zenon DEF ChainInv, JobFollowsHead, NewAd
<1>3. saved \in Seq(Range(saved)) /\ announced \in Seq(Range(announced)) /\ Extends(saved, announced)
  BY Zenon DEF ChainInv, Shapes
<1>4. /\ saved' \in Seq(Range(saved'))
      /\ Len(saved) \in Nat /\ Len(saved') = Len(saved) + 1
      /\ \A i \in 1..Len(saved) :
             saved'[i] = saved[i] /\ SubSeq(saved', 1, i) = SubSeq(saved, 1, i)
      /\ saved'[Len(saved')] = [root |-> job.root, Entries |-> job.Entries]
      /\ SubSeq(saved', 1, Len(saved')) = saved'
      /\ Extends(saved', saved)
  <2> DEFINE ad == [root |-> job.root, Entries |-> job.Entries]
             t == Append(saved, ad)
  <2> HIDE DEF ad
  <2>1. /\ t \in Seq(Range(t))
        /\ Len(saved) \in Nat /\ Len(t) = Len(saved) + 1
        /\ \A i \in 1..Len(saved) : t[i] = saved[i] /\ SubSeq(t, 1, i) = SubSeq(saved, 1, i)
        /\ t[Len(t)] = ad
        /\ SubSeq(t, 1, Len(t)) = t
        /\ Extends(t, saved)
    BY <1>3, ChainAppend, Zenon
  <2>2. saved' = t
    BY <1>2, Zenon DEF ad
  <2> HIDE DEF t
  <2> QED BY <2>1, <2>2, Zenon DEF ad
<1>5. Extends(saved', announced')
  BY <1>1, <1>3, <1>4, ExtendsTransitive, Zenon
<1> QED BY <1>2, <1>4, <1>5, Zenon

\* The head is saved, and everything it leads to was stored before.
LEMMA SaveKeepsChain == ASSUME ChainInv, publish_save PROVE ChainInv'
<1>1. /\ head' = saved' /\ engine' = "gossip"
      /\ ads' = ads /\ chunks' = chunks /\ announced' = announced /\ job' = job
  BY Zenon DEF publish_save
<1>2. Shapes'
  BY <1>1, SaveExtends, Zenon DEF ChainInv, Shapes
<1>3. JobFollowsHead' /\ HeadIsSaved'
  BY <1>1, Zenon DEF ChainInv, JobFollowsHead, HeadIsSaved
<1>4. ChainIsStored'
  <2> SUFFICES ASSUME NEW i \in 1..Len(saved')
               PROVE  /\ SubSeq(saved', 1, i) \in ads'
                      /\ \A j \in 1..Len(saved'[i].Entries) :
                             SubSeq(saved'[i].Entries, 1, j) \in chunks'
    BY Zenon DEF ChainIsStored
  <2>1. i \in 1..Len(saved) \/ i = Len(saved')
    BY SaveExtends
  <2>2. CASE i \in 1..Len(saved)
    <3>1. saved'[i] = saved[i] /\ SubSeq(saved', 1, i) = SubSeq(saved, 1, i)
      BY <2>2, SaveExtends, Zenon
    <3> QED BY <1>1, <2>2, <3>1, Zenon DEF ChainInv, ChainIsStored
  <2>3. CASE i = Len(saved')
    <3>1. /\ SubSeq(saved', 1, i) = saved' /\ saved' \in ads'
          /\ saved'[i] = [root |-> job.root, Entries |-> job.Entries]
      BY <2>3, SaveExtends, Zenon
    <3>2. saved'[i].Entries = job.Entries
      BY <3>1
    <3> QED BY <1>1, <3>1, <3>2, Zenon DEF ChainInv, JobFollowsHead
  <2> QED BY <2>1, <2>2, <2>3, Zenon
<1> QED BY <1>2, <1>3, <1>4, SaveExtends, Zenon DEF ChainInv

\* A failed write ends the engine and leaves the stored chain as it was.
LEMMA FailureKeepsChain == ASSUME ChainInv, StoreFails PROVE ChainInv'
<1>1. /\ saved' = saved /\ ads' = ads /\ chunks' = chunks /\ announced' = announced
      /\ engine' = "dead" /\ head' = head
      /\ job' = [root |-> None, Entries |-> <<>>, left |-> {}, prev |-> <<>>]
  BY Zenon DEF StoreFails, diskVars, NoJob
<1>2. Shapes'
  BY <1>1 DEF ChainInv, Shapes
<1>3. JobFollowsHead' /\ HeadIsSaved'
  BY <1>1 DEF ChainInv, JobFollowsHead, HeadIsSaved
<1>4. ChainIsStored' /\ Extends(saved', announced')
  BY <1>1, StoredChainKept, Zenon DEF ChainInv
<1> QED BY <1>2, <1>3, <1>4, Zenon DEF ChainInv

\* The chain is left alone and nothing published, or it grows by one.
Grows ==
    \/ saved' = saved /\ ~(engine = "save" /\ engine' = "gossip")
    \/ Extends(saved', saved) /\ Len(saved') = Len(saved) + 1

\* Every step of the engine keeps the invariant, and publish_save alone
\* changes the saved head.
LEMMA EngineKeepsChain == ASSUME ChainInv, EngineAlone PROVE ChainInv' /\ Grows
<1>1. CASE NoAddresses
  <2>1. /\ Idle /\ UNCHANGED diskVars /\ head' = saved /\ announced' \in {announced, saved}
        /\ engine = "addresses"
    BY <1>1, Zenon DEF NoAddresses, ChainInv, HeadIsSaved
  <2> QED BY <2>1, IdleKeepsChain, Zenon DEF Grows, diskVars
<1>2. CASE create
  <2> DEFINE dag == dag_traversal(blocks, job.root)
  <2>1. /\ engine = "addresses" /\ UNCHANGED <<head, diskVars, announced>>
        /\ Idle \/ (engine' = "chunks" /\ job' = [job EXCEPT !.left = dag])
    BY <1>2, Zenon DEF create
  <2> HIDE DEF dag
  <2>2. CASE Idle
    <3>1. head' = saved /\ announced' \in {announced, saved} /\ UNCHANGED diskVars
      BY <2>1, Zenon DEF ChainInv, HeadIsSaved
    <3> QED BY <2>1, <2>2, <3>1, IdleKeepsChain, Zenon DEF Grows, diskVars
  <2>3. CASE engine' = "chunks" /\ job' = [job EXCEPT !.left = dag]
    <3>1. /\ engine \notin {"put", "save", "dead"} /\ engine' \in {"addresses", "chunks"}
          /\ \E l : job' = [job EXCEPT !.left = l]
      BY <2>1, <2>3, Zenon
    <3> QED BY <2>1, <3>1, BeginKeepsChain, Zenon DEF Grows, diskVars
  <2> QED BY <2>1, <2>2, <2>3, Zenon
<1>3. CASE add_chunk
  <2>1. saved' = saved /\ engine' = engine
    BY <1>3, Zenon DEF add_chunk
  <2> QED BY <1>3, <2>1, ChunkKeepsChain, Zenon DEF Grows
<1>4. CASE publish_take
  BY <1>4, TakeKeepsChain, Zenon DEF Grows, publish_take, diskVars
<1>5. CASE publish_put
  BY <1>5, PutKeepsChain, Zenon DEF Grows, publish_put
<1>6. CASE publish_save
  BY <1>6, SaveKeepsChain, SaveExtends, Zenon DEF Grows
<1>7. CASE StoreFails
  BY <1>7, FailureKeepsChain, Zenon DEF Grows, StoreFails, diskVars
<1>8. CASE gossip_announce
  <2>1. engine = "gossip" /\ UNCHANGED <<head, diskVars>> /\ head = saved
    BY <1>8, Zenon DEF gossip_announce, ChainInv, HeadIsSaved
  <2>2. CASE Idle /\ announced' = head
    <3>1. head' = saved /\ announced' \in {announced, saved} /\ UNCHANGED diskVars
      BY <2>1, <2>2, Zenon
    <3> QED BY <2>1, <2>2, <3>1, IdleKeepsChain, Zenon DEF Grows, diskVars
  <2>3. CASE engine' = "http" /\ UNCHANGED <<job, announced>>
    <3>1. UNCHANGED <<job, head, saved, ads, chunks, announced>>
      BY <2>1, <2>3, Zenon DEF diskVars
    <3>2. ChainInv'
      BY <2>1, <2>3, <3>1, Zenon
         DEF ChainInv, Shapes, JobFollowsHead, HeadIsSaved, ChainIsStored
    <3> QED BY <2>1, <3>1, <3>2, Zenon DEF Grows
  <2> QED BY <1>8, <2>2, <2>3, Zenon DEF gossip_announce
<1>9. CASE http_announce
  <2>1. engine = "http" /\ UNCHANGED <<head, diskVars>> /\ head = saved
    BY <1>9, Zenon DEF http_announce, ChainInv, HeadIsSaved
  <2>2. Idle /\ head' = saved /\ announced' \in {announced, saved} /\ UNCHANGED diskVars
    BY <1>9, <2>1, Zenon DEF http_announce
  <2> QED BY <2>1, <2>2, IdleKeepsChain, Zenon DEF Grows, diskVars
<1> QED BY <1>1, <1>2, <1>3, <1>4, <1>5, <1>6, <1>7, <1>8, <1>9, Zenon DEF EngineAlone

\* So does every other step, a crash included.
LEMMA ChainInvStep == ChainInv /\ [Next]_vars => ChainInv' /\ Grows
<1> SUFFICES ASSUME ChainInv, [Next]_vars PROVE ChainInv' /\ Grows
  BY Zenon
<1> SUFFICES ChainInv' /\ Grows
  BY Zenon
<1>1. CASE UNCHANGED vars
  <2>1. UNCHANGED <<engine, job, head, saved, ads, chunks, announced>>
    BY <1>1, ZenonT(30) DEF vars, provVars, memVars, diskVars
  <2> QED BY <2>1, SendingKeepsChain, Zenon DEF Grows
<1>2. CASE \E r \in Reqs : SyncContent(r) \/ PutCar(r) \/ Advance(r)
                           \/ BitswapInsert(r) \/ ReadInto(r) \/ Cancel(r)
                           \/ CacheRequest(r) \/ GraphsyncInsert(r) \/ handle_graphsync(r)
  <2>1. UNCHANGED <<engine, job, head, saved, ads, chunks, announced>>
    BY <1>2, ZenonT(30)
            DEF SyncContent, PutCar, Advance, BitswapInsert, ReadInto, Cancel, NetworkOk,
                NetworkErr, OriginOccupied, OriginVacant, TaskFetched, TaskNotifies,
                ProvideCid, CacheRequest, GraphsyncInsert, handle_graphsync,
                provVars, memVars, diskVars
  <2> QED BY <2>1, SendingKeepsChain, Zenon DEF Grows
<1>3. CASE EngineReceives
  <2>1. /\ engine = "idle" /\ engine' = "addresses"
        /\ \E r : job' = [NoJob EXCEPT !.root = r]
        /\ UNCHANGED <<head, diskVars, announced>>
    BY <1>3, Zenon DEF EngineReceives, ReceivePut
  <2>2. engine \notin {"put", "save", "dead"} /\ engine' \in {"addresses", "chunks"}
    BY <2>1, Zenon
  <2> QED BY <2>1, <2>2, BeginKeepsChain, Zenon DEF Grows, diskVars
<1>4. CASE EngineStep
  BY <1>4, EngineKeepsChain, Zenon DEF EngineStep
<1>5. CASE Crash
  <2>1. Idle /\ head' = saved /\ announced' \in {announced, saved} /\ UNCHANGED diskVars
    BY <1>5, Zenon DEF Crash, Provider_new
  <2>2. engine' = "idle"
    BY <2>1, Zenon DEF Idle
  <2> QED BY <2>1, <2>2, IdleKeepsChain, Zenon DEF Grows, diskVars
<1> QED BY <1>1, <1>2, <1>3, <1>4, <1>5, Zenon DEF Next

\* The invariant holds always.
LEMMA ChainInvAlways == Spec => []ChainInv
BY ChainInvInit, ChainInvStep, PTL DEF Spec

\* The head in memory is the head on disk, or none while publish has taken it
\* and after one of its writes has failed (provider.rs:140-157, engine.rs:32).
THEOREM HeadIsAlwaysSaved == Spec => []HeadIsSaved
<1>1. ChainInv => HeadIsSaved
  BY Zenon DEF ChainInv
<1> QED BY <1>1, ChainInvAlways, PTL

\* At any moment, and so at any crash, whoever follows the chain from the
\* saved head finds every advertisement and every chunk (provider.rs:122-157).
THEOREM ChainIsAlwaysStored == Spec => []ChainIsStored
<1>1. ChainInv => ChainIsStored
  BY Zenon DEF ChainInv
<1> QED BY <1>1, ChainInvAlways, PTL

\* The chain of advertisements is only ever extended, by one for each
\* publish, and only heads of it are announced (provider.rs:143).
THEOREM ChainAlwaysOnlyGrows == Spec => ChainOnlyGrows
<1>1. ChainInv /\ ChainInv' /\ [Next]_vars =>
        [/\ \/ saved' = saved /\ ~(engine = "save" /\ engine' = "gossip")
            \/ Extends(saved', saved) /\ Len(saved') = Len(saved) + 1
         /\ Extends(saved', announced')]_provVars
  BY ChainInvStep, Zenon DEF Grows, ChainInv
<1> QED BY <1>1, ChainInvAlways, PTL DEF Spec, ChainOnlyGrows
=============================================================================
