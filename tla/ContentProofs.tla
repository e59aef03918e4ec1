---------------------------- MODULE ContentProofs ---------------------------
(***************************************************************************)
(* Proofs about content, for any DAGs and whatever part of them is stored:  *)
(* dag_traversal and missing_blocks, which are loops over a set and over a  *)
(* stack, agree with what can be reached; the store lacks blocks only where *)
(* a fetch explains it; and what is advertised is complete.                 *)
(***************************************************************************)
EXTENDS NodeInterfaceProofs, TLAPS

-----------------------------------------------------------------------------
(* What is reached from a block. *)

\* The root and blocks of the store's universe.
LEMMA ReachTyped == ASSUME NEW root \in Cids PROVE root \in Reach(root) /\ Reach(root) \subseteq Cids
BY Zenon DEF Reach, ReachOf

\* A block refers to cids.
LEMMA LinksTyped == ASSUME NEW c \in Cids
                    PROVE Links[c] \in Seq(Cids) /\ Range(Links[c]) \subseteq Cids
BY BlocksAssumption DEF Range

\* With a block, what it refers to.
LEMMA ReachClosed ==
    ASSUME NEW root \in Cids, NEW c \in Reach(root) PROVE Range(Links[c]) \subseteq Reach(root)
BY LinksTyped, Zenon DEF Reach, ReachOf

\* And nothing else.
LEMMA ReachLeast ==
    ASSUME NEW root \in Cids, NEW S \in SUBSET Cids, root \in S,
           \A d \in S : Range(Links[d]) \subseteq S
    PROVE  Reach(root) \subseteq S
BY Zenon DEF Reach, ReachOf

\* The DAG of a block of a DAG is a part of it.
LEMMA ReachTransitive ==
    ASSUME NEW root \in Cids, NEW c \in Reach(root) PROVE Reach(c) \subseteq Reach(root)
<1>1. c \in Cids /\ Reach(root) \in SUBSET Cids
  BY ReachTyped, Zenon
<1> QED BY <1>1, ReachClosed, ReachLeast, Zenon

\* The block itself, and the DAGs of the blocks it refers to.
LEMMA ReachUnfold ==
    ASSUME NEW c \in Cids
    PROVE  Reach(c) = {c} \cup UNION {Reach(d) : d \in Range(Links[c])}
<1> DEFINE S == {c} \cup UNION {Reach(d) : d \in Range(Links[c])}
<1>0. Range(Links[c]) \subseteq Cids
  BY LinksTyped, Zenon
<1>1. S \subseteq Cids
  BY <1>0, ReachTyped, Zenon
<1>2. ASSUME NEW d \in S PROVE Range(Links[d]) \subseteq S
  <2>1. CASE d = c
    BY <1>0, <2>1, ReachTyped, Zenon
  <2>2. CASE d # c
    <3>1. PICK e \in Range(Links[c]) : d \in Reach(e)
      BY <2>2, Zenon
    <3>2. Range(Links[d]) \subseteq Reach(e)
      BY <1>0, <3>1, ReachClosed, Zenon
    <3> QED BY <3>2, Zenon
  <2> QED BY <2>1, <2>2, Zenon
<1>3. Reach(c) \subseteq S
  <2> c \in S
    BY Zenon
  <2> HIDE DEF S
  <2> QED BY <1>1, <1>2, ReachLeast, Zenon
<1>4. S \subseteq Reach(c)
  <2>1. c \in Reach(c) /\ Range(Links[c]) \subseteq Reach(c)
    BY ReachTyped, ReachClosed, Zenon
  <2>2. \A d \in Range(Links[c]) : Reach(d) \subseteq Reach(c)
    BY <2>1, ReachTransitive, Zenon
  <2> QED BY <2>1, <2>2, Zenon
<1> QED BY <1>3, <1>4, Zenon

-----------------------------------------------------------------------------
(* What the two traversals and the slices give.  That the loops give it is  *)
(* an induction each, at the end of this module.                             *)

DagResult(have, root) == IF Reach(root) \subseteq have \ Opaque THEN Reach(root) ELSE Failed

Unreadable == [ok |-> FALSE, missing |-> <<>>]

\* What missing_blocks returns.
IsMissing(found, have, root) ==
    \/ \E l \in Seq(Cids) :
         /\ found = [ok |-> TRUE, missing |-> l]
         /\ Range(l) \subseteq Reach(root) \ have
         /\ (Range(l) = {}) <=> (Reach(root) \subseteq have)
    \/ found = Unreadable /\ Reach(root) \cap have \cap Opaque # {}

\* Both traversals are right, for every DAG and every store.
TraversalsRight ==
    \A have : \A root \in Cids :
        /\ dag_traversal(have, root) = DagResult(have, root)
        /\ IsMissing(missing_blocks(have, root), have, root)

\* A slice of a set is a part of it: there are enough entries to choose from.
SlicesFit == \A left \in SUBSET Cids : Slice(left) \subseteq left

\* The two traversals agree with what is reached, whatever is stored.
LEMMA AgreeWhatever == ASSUME TraversalsRight, blocks \in SUBSET Cids PROVE TraversalsAgree
<1> SUFFICES ASSUME NEW root \in Cids
             PROVE  /\ dag_traversal(blocks, root) =
                         IF Reach(root) \subseteq blocks \ Opaque THEN Reach(root) ELSE Failed
                    /\ Range(missing_blocks(blocks, root).missing) \subseteq Reach(root) \ blocks
                    /\ missing_blocks(blocks, root).ok =>
                         (Range(missing_blocks(blocks, root).missing) = {} <=> Complete(root))
                    /\ ~missing_blocks(blocks, root).ok => Reach(root) \cap blocks \cap Opaque # {}
  BY Zenon DEF TraversalsAgree
<1>1. dag_traversal(blocks, root) =
        IF Reach(root) \subseteq blocks \ Opaque THEN Reach(root) ELSE Failed
  BY Zenon DEF TraversalsRight, DagResult
<1>2. PICK found : found = missing_blocks(blocks, root)
  BY Zenon
<1>3. CASE found = Unreadable /\ Reach(root) \cap blocks \cap Opaque # {}
  <2>1. ~found.ok /\ Range(found.missing) = {}
    BY <1>3, RangeEmpty, Zenon DEF Unreadable
  <2> QED BY <1>1, <1>2, <1>3, <2>1, Zenon
<1>4. ASSUME NEW l \in Seq(Cids), found = [ok |-> TRUE, missing |-> l],
             Range(l) \subseteq Reach(root) \ blocks,
             (Range(l) = {}) <=> (Reach(root) \subseteq blocks)
      PROVE  /\ Range(found.missing) \subseteq Reach(root) \ blocks
             /\ found.ok => (Range(found.missing) = {} <=> Complete(root))
             /\ ~found.ok => Reach(root) \cap blocks \cap Opaque # {}
  <2>1. found.ok /\ found.missing = l
    BY <1>4, Zenon
  <2> QED BY <1>4, <2>1, Zenon DEF Complete
<1>5. \/ \E l \in Seq(Cids) :
           /\ found = [ok |-> TRUE, missing |-> l]
           /\ Range(l) \subseteq Reach(root) \ blocks
           /\ (Range(l) = {}) <=> (Reach(root) \subseteq blocks)
      \/ found = Unreadable /\ Reach(root) \cap blocks \cap Opaque # {}
  BY <1>2, Zenon DEF TraversalsRight, IsMissing
<1> QED BY <1>1, <1>2, <1>3, <1>4, <1>5, Zenon

\* What bitswap asks for is of the DAG it was started for.
LEMMA MissingReached ==
    ASSUME TraversalsRight, NEW have, NEW root \in Cids
    PROVE  Range(missing_blocks(have, root).missing) \subseteq Reach(root)
<1>1. PICK found : found = missing_blocks(have, root)
  BY Zenon
<1>2. CASE found = Unreadable
  BY <1>1, <1>2, RangeEmpty DEF Unreadable
<1>3. ASSUME NEW l \in Seq(Cids), found = [ok |-> TRUE, missing |-> l],
             Range(l) \subseteq Reach(root) \ have
      PROVE  Range(found.missing) \subseteq Reach(root)
  <2>1. found.missing = l
    BY <1>3, Zenon
  <2> QED BY <1>3, <2>1, Zenon
<1>4. found = Unreadable \/ \E l \in Seq(Cids) : /\ found = [ok |-> TRUE, missing |-> l]
                                                 /\ Range(l) \subseteq Reach(root) \ have
  BY <1>1, Zenon DEF TraversalsRight, IsMissing
<1> QED BY <1>1, <1>2, <1>3, <1>4, Zenon

\* When it misses nothing, the DAG is there.
LEMMA NothingMissing ==
    ASSUME TraversalsRight, NEW have, NEW root \in Cids,
           missing_blocks(have, root) = [ok |-> TRUE, missing |-> <<>>]
    PROVE  Reach(root) \subseteq have
<1>1. [ok |-> TRUE, missing |-> <<>>] # Unreadable
  BY Zenon DEF Unreadable
<1>2. PICK l \in Seq(Cids) : /\ [ok |-> TRUE, missing |-> <<>>] = [ok |-> TRUE, missing |-> l]
                             /\ (Range(l) = {}) <=> (Reach(root) \subseteq have)
  BY <1>1, Zenon DEF TraversalsRight, IsMissing
<1>3. l = <<>>
  BY <1>2, Zenon
<1> QED BY <1>2, <1>3, RangeEmpty, Zenon

\* What a fetch that was cut short leaves is of the DAG.
LEMMA PartsReached ==
    ASSUME NEW root \in Cids, NEW P \in Parts(root) PROVE P \subseteq Reach(root)
BY Zenon DEF Parts, PartsOf

-----------------------------------------------------------------------------
(* The types. *)

\* The types of what the fetches from the origin do not depend on.
ContentTyped ==
    /\ op \in [Reqs -> OpKinds]
    /\ car \in [Reqs -> SUBSET Cids]
    /\ blocks \subseteq Cids
    /\ cut \subseteq Reqs
    /\ crashes \in 0..MaxCrashes
    /\ commands \in Seq([req : Reqs, cid : Roots])
    /\ engine \in EngineStates

\* Only blocks of the DAG that a request is about, or of its CAR file, are
\* stored for it.
LEMMA BlocksGrow ==
    ASSUME TraversalsRight, OriginTypeOK, [Next]_vars
    PROVE  \/ blocks' = blocks
           \/ \E r \in Reqs : \/ \E P \in SUBSET Reach(cid[r]) : blocks' = blocks \cup P
                              \/ \E P \in SUBSET car[r] : blocks' = blocks \cup P
<1>1. \A r \in Reqs : cid[r] \in Cids
  BY InterfaceAssumption, Zenon DEF OriginTypeOK
<1>2. ASSUME NEW r \in Reqs, BitswapInsert(r)
      PROVE  \E P \in SUBSET Reach(cid[r]) : blocks' = blocks \cup P
  <2>1. PICK c \in Range(missing_blocks(blocks, cid[r]).missing) : blocks' = blocks \cup {c}
    BY <1>2, Zenon DEF BitswapInsert
  <2>2. c \in Reach(cid[r])
    BY <1>1, <2>1, MissingReached, Zenon
  <2> QED BY <2>1, <2>2, Zenon
<1>3. ASSUME NEW r \in Reqs, GraphsyncInsert(r)
      PROVE  \E P \in SUBSET Reach(cid[r]) : blocks' = blocks \cup P
  BY <1>1, <1>3, PartsReached, Zenon DEF GraphsyncInsert
<1>4. ASSUME NEW r \in Reqs, ReadInto(r) \/ PutCar(r) \/ TaskFetched(r)
      PROVE  blocks' = blocks \/ \E P \in SUBSET car[r] : blocks' = blocks \cup P
  BY <1>4, Zenon DEF ReadInto, PutCar, TaskFetched
<1>5. ASSUME NEW r \in Reqs, handle_graphsync(r)
      PROVE  blocks' = blocks \/ \E P \in SUBSET Reach(cid[r]) : blocks' = blocks \cup P
  BY <1>5, Zenon DEF handle_graphsync
<1>6. ASSUME NEW r \in Reqs,
             SyncContent(r) \/ NetworkOk(r) \/ NetworkErr(r) \/ OriginOccupied(r) \/ OriginVacant(r)
             \/ TaskNotifies(r) \/ ProvideCid(r) \/ Cancel(r) \/ CacheRequest(r)
      PROVE  blocks' = blocks
  BY <1>6, Zenon DEF SyncContent, NetworkOk, NetworkErr, OriginOccupied, OriginVacant, TaskNotifies,
              ProvideCid, Cancel, CacheRequest
<1>7. ASSUME EngineReceives \/ EngineStep \/ Crash \/ UNCHANGED vars PROVE blocks' = blocks
  BY <1>7, Zenon DEF EngineReceives, EngineStep, Crash, vars
<1> QED BY <1>2, <1>3, <1>4, <1>5, <1>6, <1>7, Zenon DEF Next, Advance

\* A Put is sent, received, or lost with the others.
LEMMA CommandsTyped ==
    ASSUME OriginTypeOK, ContentTyped, [Next]_vars
    PROVE  commands' \in Seq([req : Reqs, cid : Roots]) /\ engine' \in EngineStates
<1>0. commands \in Seq([req : Reqs, cid : Roots]) /\ engine \in EngineStates
  BY Zenon DEF ContentTyped
<1>1. ASSUME NEW r \in Reqs, ProvideCid(r)
      PROVE  commands' \in Seq([req : Reqs, cid : Roots]) /\ engine' \in EngineStates
  <2>1. [req |-> r, cid |-> cid[r]] \in [req : Reqs, cid : Roots]
    BY Zenon DEF OriginTypeOK
  <2>2. commands' \in {commands, Append(commands, [req |-> r, cid |-> cid[r]])} /\ engine' = engine
    BY <1>1, Zenon DEF ProvideCid
  <2>3. PICK S : S = [req : Reqs, cid : Roots]
    BY Zenon
  <2>4. PICK p : p = [req |-> r, cid |-> cid[r]]
    BY Zenon
  <2>5. Append(commands, p) \in Seq(S)
    <3>1. commands \in Seq(S) /\ p \in S
      BY <1>0, <2>1, <2>3, <2>4, Zenon
    <3> QED BY <3>1
  <2> QED BY <1>0, <2>2, <2>3, <2>4, <2>5, Zenon
<1>2. ASSUME NEW r \in Reqs,
             SyncContent(r) \/ NetworkOk(r) \/ NetworkErr(r) \/ OriginOccupied(r) \/ OriginVacant(r)
             \/ TaskNotifies(r) \/ Cancel(r) \/ CacheRequest(r) \/ TaskFetched(r) \/ PutCar(r)
             \/ handle_graphsync(r) \/ BitswapInsert(r) \/ ReadInto(r) \/ GraphsyncInsert(r)
      PROVE  commands' = commands /\ engine' = engine
  BY <1>2, Zenon DEF SyncContent, NetworkOk, NetworkErr, OriginOccupied, OriginVacant, TaskNotifies,
              Cancel, CacheRequest, TaskFetched, PutCar, handle_graphsync, BitswapInsert,
              ReadInto, GraphsyncInsert, provVars, memVars
<1>3. ASSUME EngineReceives
      PROVE  commands' \in Seq([req : Reqs, cid : Roots]) /\ engine' \in EngineStates
  BY <1>0, <1>3 DEF EngineReceives, ReceivePut, EngineStates
<1>4. ASSUME EngineStep
      PROVE  commands' \in Seq([req : Reqs, cid : Roots]) /\ engine' \in EngineStates
  <2>1. commands' = commands \/ commands' = <<>>
    BY <1>4, Zenon DEF EngineStep, EngineAlone, NoAddresses, create, add_chunk, publish_take,
                publish_put, publish_save, StoreFails, gossip_announce, http_announce
  <2>2. engine' \in {"idle", "chunks", "put", "save", "gossip", "http", "dead"}
    BY <1>4, Zenon DEF EngineStep, EngineAlone, NoAddresses, create, add_chunk, publish_take,
                publish_put, publish_save, StoreFails, gossip_announce, http_announce, Idle
  <2>3. <<>> \in Seq([req : Reqs, cid : Roots])
    OBVIOUS
  <2>4. commands' \in Seq([req : Reqs, cid : Roots])
    BY <1>0, <2>1, <2>3, Zenon
  <2> QED BY <2>2, <2>4, Zenon DEF EngineStates
<1>5. ASSUME Crash
      PROVE  commands' \in Seq([req : Reqs, cid : Roots]) /\ engine' \in EngineStates
  BY <1>5 DEF Crash, Provider_new, Idle, EngineStates
<1>6. ASSUME UNCHANGED vars PROVE commands' = commands /\ engine' = engine
  BY <1>6, Zenon DEF vars, provVars, memVars
<1> QED BY <1>0, <1>1, <1>2, <1>3, <1>4, <1>5, <1>6, Zenon DEF Next, Advance

\* Every step keeps these types.
LEMMA ContentTypedStep ==
    ASSUME TraversalsRight, OriginTypeOK, ContentTyped, [Next]_vars PROVE ContentTyped'
<1>1. op' = op /\ car' = car
  BY Zenon
  DEF Next, Advance, SyncContent, PutCar, NetworkOk, NetworkErr, OriginOccupied, OriginVacant,
         TaskFetched, TaskNotifies, ProvideCid, BitswapInsert, ReadInto, Cancel, CacheRequest,
         GraphsyncInsert, handle_graphsync, EngineReceives, EngineStep, Crash, reqVars, vars
<1>2. blocks' \subseteq Cids
  <2>1. \A r \in Reqs : Reach(cid[r]) \subseteq Cids
    BY ReachTyped, InterfaceAssumption, Zenon DEF OriginTypeOK
  <2>2. \A r \in Reqs : car[r] \subseteq Cids
    BY Zenon DEF ContentTyped
  <2> QED BY <2>1, <2>2, BlocksGrow, Zenon DEF ContentTyped
<1>3. cut' \subseteq Reqs
  <2>1. \/ cut' = cut \/ \E r \in Reqs : cut' = cut \cup {r} \/ cut' = cut \ {r}
        \/ cut' = cut \cup {r \in Reqs : task[r] \in {"bitswap", "graphsync", "fetch"}}
    BY Zenon
    DEF Next, Advance, SyncContent, PutCar, NetworkOk, NetworkErr, OriginOccupied, OriginVacant,
           TaskFetched, TaskNotifies, ProvideCid, BitswapInsert, ReadInto, Cancel, CacheRequest,
           GraphsyncInsert, handle_graphsync, EngineReceives, EngineStep, Crash, vars
  <2> QED BY <2>1, Zenon DEF ContentTyped
<1>4. crashes' \in 0..MaxCrashes
  <2>1. crashes' = crashes \/ (crashes < MaxCrashes /\ crashes' = crashes + 1)
    BY Zenon
    DEF Next, Advance, SyncContent, PutCar, NetworkOk, NetworkErr, OriginOccupied, OriginVacant,
           TaskFetched, TaskNotifies, ProvideCid, BitswapInsert, ReadInto, Cancel, CacheRequest,
           GraphsyncInsert, handle_graphsync, EngineReceives, EngineStep, Crash, vars
  <2> QED BY <2>1, InterfaceAssumption DEF ContentTyped
<1> QED BY <1>1, <1>2, <1>3, <1>4, CommandsTyped, Zenon DEF ContentTyped

\* They hold at the start.
LEMMA ContentTypedInit == Init => ContentTyped
BY InterfaceAssumption DEF Init, ProvInit, ContentTyped, EngineStates

-----------------------------------------------------------------------------
(* What the store lacks. *)

\* Bitswap and graphsync work for requests that put nothing.
NoPutFetches ==
    \A r \in Reqs : task[r] \in {"bitswap", "graphsync"} => op[r] \notin {"put_file", "upload"}

\* Only a get and a peer's CacheRequest start such a fetch.
LEMMA NoPutFetchesStep ==
    ASSUME OriginInv, NoPutFetches, [Next]_vars PROVE NoPutFetches'
<1>0. task \in [Reqs -> TaskStates]
  BY Zenon DEF OriginInv, OriginTypeOK
<1>1. op' = op
  BY Zenon
  DEF Next, Advance, SyncContent, PutCar, NetworkOk, NetworkErr, OriginOccupied, OriginVacant,
         TaskFetched, TaskNotifies, ProvideCid, BitswapInsert, ReadInto, Cancel, CacheRequest,
         GraphsyncInsert, handle_graphsync, EngineReceives, EngineStep, Crash, reqVars, vars
<1>2. ASSUME NEW r \in Reqs, op[r] \notin {"put_file", "upload"},
             task' = task \/ \E k \in TaskStates : task' = [task EXCEPT ![r] = k]
      PROVE  NoPutFetches'
  BY <1>0, <1>1, <1>2, Zenon DEF NoPutFetches
<1>3. ASSUME NEW r \in Reqs, NEW k \in TaskStates \ {"bitswap", "graphsync"},
             task' = task \/ task' = [task EXCEPT ![r] = k]
      PROVE  NoPutFetches'
  BY <1>0, <1>1, <1>3, Zenon DEF NoPutFetches
<1>4. ASSUME task' = task PROVE NoPutFetches'
  BY <1>1, <1>4, Zenon DEF NoPutFetches
<1>5. ASSUME NEW r \in Reqs, SyncContent(r) \/ CacheRequest(r) PROVE NoPutFetches'
  BY <1>2, <1>5, Zenon DEF SyncContent, CacheRequest, TaskStates
<1>6. ASSUME NEW r \in Reqs,
             NetworkOk(r) \/ NetworkErr(r) \/ OriginVacant(r) \/ TaskFetched(r) \/ TaskNotifies(r)
             \/ handle_graphsync(r)
      PROVE  NoPutFetches'
  <2>1. task' = task \/ \E k \in {"none", "fetch", "notify_ok", "notify_err", "done"} :
                           task' = [task EXCEPT ![r] = k]
    BY <1>6, Zenon DEF NetworkOk, NetworkErr, OriginVacant, TaskFetched, TaskNotifies,
                handle_graphsync
  <2> QED BY <1>3, <1>4, <2>1, Zenon DEF TaskStates
<1>7. ASSUME NEW r \in Reqs,
             OriginOccupied(r) \/ PutCar(r) \/ ProvideCid(r) \/ Cancel(r) \/ BitswapInsert(r)
             \/ ReadInto(r) \/ GraphsyncInsert(r)
      PROVE  NoPutFetches'
  BY <1>4, <1>7, Zenon DEF OriginOccupied, PutCar, ProvideCid, Cancel, BitswapInsert, ReadInto,
              GraphsyncInsert
<1>8. ASSUME EngineReceives \/ EngineStep \/ UNCHANGED vars PROVE NoPutFetches'
  BY <1>4, <1>8, Zenon DEF EngineReceives, EngineStep, vars
<1>9. ASSUME Crash PROVE NoPutFetches'
  <2>1. \A r \in Reqs : task'[r] = "none"
    BY <1>9, Zenon DEF Crash
  <2> QED BY <2>1, Zenon DEF NoPutFetches
<1> QED BY <1>5, <1>6, <1>7, <1>8, <1>9, Zenon DEF Next, Advance

\* A step in which whatever a request accounted for it still accounts for, or
\* has been made complete, and the blocks stored likewise.
LEMMA StepKeepsHoles ==
    ASSUME HolesExplained, blocks \subseteq blocks',
           \A r \in Reqs : \A root \in Accounts(r) : root \in Accounts(r)' \/ Complete(root)',
           \A root \in blocks' \ blocks :
               Complete(root)' \/ \E r \in Reqs : root \in Accounts(r)'
    PROVE  HolesExplained'
<1> SUFFICES ASSUME NEW root \in blocks', ~Complete(root)'
             PROVE  \E r \in Reqs : root \in Accounts(r)'
  BY Zenon DEF HolesExplained
<1>1. CASE root \in blocks
  <2>1. ~Complete(root)
    BY Zenon DEF Complete
  <2>2. PICK r \in Reqs : root \in Accounts(r)
    BY <1>1, <2>1, Zenon DEF HolesExplained
  <2> QED BY <2>2, Zenon
<1>2. CASE root \notin blocks
  BY <1>2, Zenon
<1> QED BY <1>1, <1>2, Zenon

\* With a DAG the DAGs in it are complete.
LEMMA CompleteBelow ==
    ASSUME NEW top \in Cids, Reach(top) \subseteq blocks', NEW root \in Reach(top)
    PROVE  Complete(root)'
BY ReachTransitive, Zenon DEF Complete

\* Storing blocks that a request accounts for.
LEMMA PartKeepsHoles ==
    ASSUME HolesExplained, NEW r \in Reqs, NEW P, P \subseteq Accounts(r)',
           blocks' = blocks \cup P, \A s \in Reqs : Accounts(s) \subseteq Accounts(s)'
    PROVE  HolesExplained'
<1>1. blocks \subseteq blocks' /\ \A root \in blocks' \ blocks : root \in P
  BY Zenon
<1> QED BY <1>1, StepKeepsHoles, Zenon

\* What a request accounts for, by what is under way and what was cut.
LEMMA AccountsFor ==
    ASSUME NEW r, NEW c
    PROVE  /\ c \in Accounts(r) <=>
                \/ task[r] \in {"bitswap", "graphsync"} /\ c \in Reach(cid[r])
                \/ (task[r] = "fetch" \/ r \in cut) /\ c \in Sent(r)
           /\ c \in Reach(cid[r]) /\ op[r] \notin {"put_file", "upload"} => c \in Sent(r)
           /\ c \in car[r] => c \in Sent(r)
BY Zenon DEF Accounts, Sent

\* Every step keeps the holes explained.
LEMMA HolesStep ==
    ASSUME TraversalsRight, OriginInv, NoPutFetches, HolesExplained, [Next]_vars
    PROVE  HolesExplained'
<1>1. /\ task \in [Reqs -> TaskStates]
      /\ \A r \in Reqs : pc[r] = "idle" => task[r] = "none"
      /\ \A r \in Reqs : cid[r] \in Cids
  BY InterfaceAssumption, Zenon DEF OriginInv, OriginTypeOK, FetchesListed
<1>2. UNCHANGED <<cid, op, car>>
  BY Zenon
  DEF Next, Advance, SyncContent, PutCar, NetworkOk, NetworkErr, OriginOccupied, OriginVacant,
         TaskFetched, TaskNotifies, ProvideCid, BitswapInsert, ReadInto, Cancel, CacheRequest,
         GraphsyncInsert, handle_graphsync, EngineReceives, EngineStep, Crash, reqVars, vars
<1>3. \A r \in Reqs : Sent(r)' = Sent(r)
  BY <1>2, Zenon DEF Sent, Reach
<1>4. ASSUME blocks' = blocks, \A r \in Reqs : Accounts(r) \subseteq Accounts(r)'
      PROVE  HolesExplained'
  BY <1>4, StepKeepsHoles, Zenon
\* A request goes on accounting for its blocks.
<1>5. ASSUME NEW s \in Reqs, task'[s] = task[s], s \in cut => s \in cut'
      PROVE  Accounts(s) \subseteq Accounts(s)'
  BY <1>5, <1>2, <1>3, AccountsFor, Zenon DEF Accounts
<1>6. ASSUME NEW r \in Reqs, task[r] = "none", blocks' = blocks, cut' = cut,
             NEW k \in TaskStates, task' = task \/ task' = [task EXCEPT ![r] = k]
      PROVE  HolesExplained'
  <2>1. Accounts(r) \subseteq Accounts(r)'
    BY <1>6, <1>2, <1>3, Zenon DEF Accounts
  <2>2. \A s \in Reqs : s # r => task'[s] = task[s]
    BY <1>1, <1>6, Zenon
  <2>3. \A s \in Reqs : Accounts(s) \subseteq Accounts(s)'
    BY <1>6, <1>5, <2>1, <2>2, Zenon
  <2> QED BY <1>4, <1>6, <2>3, Zenon
\* The fetch is given up, and the part that was stored stays.
<1>7. ASSUME NEW r \in Reqs, blocks' = blocks, cut' = cut \cup {r},
             task[r] \in {"bitswap", "graphsync", "fetch"},
             NEW k \in TaskStates, task' = [task EXCEPT ![r] = k]
      PROVE  HolesExplained'
  <2>1. Accounts(r) \subseteq Sent(r)
    BY <1>7, Zenon DEF Accounts, Sent, NoPutFetches
  <2>2. Sent(r) \subseteq Accounts(r)'
    BY <1>7, <1>3, Zenon DEF Accounts
  <2>3. \A s \in Reqs : s # r => task'[s] = task[s]
    BY <1>1, <1>7, Zenon
  <2>4. \A s \in Reqs : Accounts(s) \subseteq Accounts(s)'
    BY <1>7, <1>5, <2>1, <2>2, <2>3, Zenon
  <2> QED BY <1>4, <1>7, <2>4, Zenon
\* The DAG is complete.
<1>8. ASSUME NEW r \in Reqs, NEW P \in SUBSET Reach(cid[r]), blocks' = blocks \cup P,
             Reach(cid[r]) \subseteq blocks', cut' = cut, task[r] \in {"bitswap", "graphsync"},
             NEW k \in TaskStates, task' = [task EXCEPT ![r] = k]
      PROVE  HolesExplained'
  <2>1. \A root \in Reach(cid[r]) : Complete(root)'
    BY <1>1, <1>8, CompleteBelow, Zenon
  <2>2. \A root \in Accounts(r) : root \in Accounts(r)' \/ Complete(root)'
    BY <1>8, <1>3, <2>1, Zenon DEF Accounts
  <2>3. \A s \in Reqs : s # r => task'[s] = task[s]
    BY <1>1, <1>8, Zenon
  <2>4. \A s \in Reqs : s # r => Accounts(s) \subseteq Accounts(s)'
    BY <1>8, <1>5, <2>3, Zenon
  <2>5. \A root \in blocks' \ blocks : Complete(root)'
    BY <1>8, <2>1, Zenon
  <2>6. blocks \subseteq blocks'
    BY <1>8, Zenon
  <2> QED BY <2>2, <2>4, <2>5, <2>6, StepKeepsHoles, Zenon
<1>9. ASSUME NEW r \in Reqs, NEW P, P \subseteq Accounts(r)', blocks' = blocks \cup P,
             task' = task, cut \subseteq cut'
      PROVE  HolesExplained'
  <2>1. \A s \in Reqs : Accounts(s) \subseteq Accounts(s)'
    BY <1>9, <1>5, Zenon
  <2> QED BY <1>9, <2>1, PartKeepsHoles, Zenon
\* The blocks of a CAR file are all stored.
<1>10. ASSUME NEW r \in Reqs, blocks' = blocks \cup car[r], CarIsWhole(r)
      PROVE  \A root \in car[r] : Complete(root)'
  BY <1>10, Zenon DEF CarIsWhole, Complete
<1>11. ASSUME NEW r \in Reqs, SyncContent(r) \/ CacheRequest(r) PROVE HolesExplained'
  <2>1. /\ task[r] = "none" /\ blocks' = blocks /\ cut' = cut
        /\ \E k \in TaskStates : task' = task \/ task' = [task EXCEPT ![r] = k]
    BY <1>1, <1>11, Zenon DEF SyncContent, CacheRequest, TaskStates
  <2> QED BY <1>6, <2>1, Zenon
<1>12. ASSUME NEW r \in Reqs, OriginVacant(r) PROVE HolesExplained'
  <2>1. /\ blocks' = blocks /\ cut' = cut
        /\ task' = task \/ task' = [task EXCEPT ![r] = "fetch"]
    BY <1>12, Zenon DEF OriginVacant
  <2>2. ASSUME task' = [task EXCEPT ![r] = "fetch"] PROVE Accounts(r) \subseteq Accounts(r)'
    <3>1. Accounts(r) \subseteq Sent(r)
      BY Zenon DEF Accounts, Sent, NoPutFetches
    <3>2. task'[r] = "fetch"
      BY <1>1, <2>2, Zenon
    <3>3. Sent(r) \subseteq Accounts(r)'
      BY <1>3, <3>2, Zenon DEF Accounts
    <3> QED BY <3>1, <3>3, Zenon
  <2>3. \A s \in Reqs : s # r => task'[s] = task[s]
    BY <1>1, <2>1, Zenon
  <2>4. \A s \in Reqs : Accounts(s) \subseteq Accounts(s)'
    BY <1>5, <2>1, <2>2, <2>3, Zenon
  <2> QED BY <1>4, <2>1, <2>4, Zenon
<1>13. ASSUME NEW r \in Reqs, NetworkErr(r) PROVE HolesExplained'
  <2>1. /\ task[r] = "bitswap" /\ blocks' = blocks /\ cut' = cut \cup {r}
        /\ \E k \in TaskStates : task' = [task EXCEPT ![r] = k]
    BY <1>13, Zenon DEF NetworkErr, TaskStates
  <2> QED BY <1>7, <2>1, Zenon
<1>14. ASSUME NEW r \in Reqs, NetworkOk(r) PROVE HolesExplained'
  <2>1. /\ task[r] = "bitswap" /\ blocks' = blocks \cup {} /\ cut' = cut
        /\ \E k \in TaskStates : task' = [task EXCEPT ![r] = k]
    BY <1>14, Zenon DEF NetworkOk, TaskStates
  <2>2. Reach(cid[r]) \subseteq blocks'
    BY <1>1, <1>14, <2>1, NothingMissing, Zenon DEF NetworkOk
  <2> QED BY <1>8, <2>1, <2>2, Zenon
<1>15. ASSUME NEW r \in Reqs, handle_graphsync(r) PROVE HolesExplained'
  <2>1. /\ task[r] = "graphsync"
        /\ \E k \in TaskStates : task' = [task EXCEPT ![r] = k]
    BY <1>15, Zenon DEF handle_graphsync, TaskStates
  <2>2. CASE blocks' = blocks \cup Reach(cid[r]) /\ cut' = cut
    BY <1>8, <2>1, <2>2, Zenon
  <2>3. CASE blocks' = blocks /\ cut' = cut \cup {r}
    BY <1>7, <2>1, <2>3, Zenon
  <2> QED BY <1>15, <2>2, <2>3, Zenon DEF handle_graphsync
<1>16. ASSUME NEW r \in Reqs, TaskFetched(r) PROVE HolesExplained'
  <2>1. /\ task[r] = "fetch"
        /\ \E k \in TaskStates \ {"bitswap", "graphsync", "fetch"} : task' = [task EXCEPT ![r] = k]
    BY <1>16, Zenon DEF TaskFetched, TaskStates
  <2>2. \A s \in Reqs : s # r => task'[s] = task[s]
    BY <1>1, <2>1, Zenon
  <2>3. CASE blocks' = blocks \cup car[r] /\ CarIsWhole(r) /\ cut' = cut \ {r}
    <3>1. \A root \in car[r] : Complete(root)'
      BY <1>10, <2>3, Zenon
    <3>2. \A root \in Reach(cid[r]) : Complete(root)'
      BY <1>1, <2>3, CompleteBelow, Zenon DEF CarIsWhole
    <3>3. \A root \in Accounts(r) : Complete(root)'
      BY <3>1, <3>2, Zenon DEF Accounts, Sent
    <3>4. \A s \in Reqs : s # r => Accounts(s) \subseteq Accounts(s)'
      BY <1>5, <2>2, <2>3, Zenon
    <3>5. blocks \subseteq blocks' /\ \A root \in blocks' \ blocks : Complete(root)'
      BY <2>3, <3>1, Zenon
    <3> QED BY <3>3, <3>4, <3>5, StepKeepsHoles, Zenon
  <2>4. CASE blocks' = blocks \cup car[r] /\ cut' = cut \cup {r}
    <3>1. Accounts(r) \subseteq Sent(r)
      BY <2>1, Zenon DEF Accounts
    <3>2. Sent(r) \subseteq Accounts(r)'
      BY <1>3, <2>4, Zenon DEF Accounts
    <3>3. \A s \in Reqs : Accounts(s) \subseteq Accounts(s)'
      BY <1>5, <2>2, <2>4, <3>1, <3>2, Zenon
    <3>4. car[r] \subseteq Accounts(r)'
      BY <3>2, Zenon DEF Sent
    <3> QED BY <2>4, <3>3, <3>4, PartKeepsHoles, Zenon
  <2>5. CASE blocks' = blocks /\ cut' = cut \cup {r}
    BY <1>7, <2>1, <2>5, Zenon
  <2> QED BY <1>16, <2>3, <2>4, <2>5, Zenon DEF TaskFetched
<1>17. ASSUME NEW r \in Reqs, PutCar(r) PROVE HolesExplained'
  <2>1. task' = task
    BY <1>17, Zenon DEF PutCar
  <2>2. CASE blocks' = blocks \cup car[r] /\ CarIsWhole(r) /\ cut' = cut
    <3>1. \A root \in car[r] : Complete(root)'
      BY <1>10, <2>2, Zenon
    <3>2. \A s \in Reqs : Accounts(s) \subseteq Accounts(s)'
      BY <1>5, <2>1, <2>2, Zenon
    <3>3. blocks \subseteq blocks' /\ \A root \in blocks' \ blocks : Complete(root)'
      BY <2>2, <3>1, Zenon
    <3> QED BY <3>2, <3>3, StepKeepsHoles, Zenon
  <2>3. CASE cut' = cut \cup {r} /\ \E P \in SUBSET car[r] : blocks' = blocks \cup P
    <3>1. PICK P \in SUBSET car[r] : blocks' = blocks \cup P
      BY <2>3, Zenon
    <3>2. car[r] \subseteq Accounts(r)'
      BY <1>3, <2>3, Zenon DEF Accounts, Sent
    <3> QED BY <1>9, <2>1, <2>3, <3>1, <3>2, Zenon
  <2> QED BY <1>17, <2>2, <2>3, Zenon DEF PutCar
<1>18. ASSUME NEW r \in Reqs, BitswapInsert(r) PROVE HolesExplained'
  <2>1. PICK c \in Range(missing_blocks(blocks, cid[r]).missing) : blocks' = blocks \cup {c}
    BY <1>18, Zenon DEF BitswapInsert
  <2>2. c \in Reach(cid[r])
    BY <1>1, <2>1, MissingReached, Zenon
  <2>3. task[r] = "bitswap" /\ UNCHANGED <<task, cut>>
    BY <1>18, Zenon DEF BitswapInsert
  <2>4. {c} \subseteq Accounts(r)'
    BY <1>2, <2>2, <2>3, Zenon DEF Accounts
  <2> QED BY <1>9, <2>1, <2>3, <2>4, Zenon
<1>19. ASSUME NEW r \in Reqs, GraphsyncInsert(r) PROVE HolesExplained'
  <2>1. PICK P \in Parts(cid[r]) : blocks' = blocks \cup P
    BY <1>19, Zenon DEF GraphsyncInsert
  <2>2. P \subseteq Reach(cid[r])
    BY <1>1, <2>1, PartsReached, Zenon
  <2>3. task[r] = "graphsync" /\ UNCHANGED <<task, cut>>
    BY <1>19, Zenon DEF GraphsyncInsert
  <2>4. P \subseteq Accounts(r)'
    BY <1>2, <2>2, <2>3, Zenon DEF Accounts
  <2> QED BY <1>9, <2>1, <2>3, <2>4, Zenon
<1>20. ASSUME NEW r \in Reqs, ReadInto(r) PROVE HolesExplained'
  <2>1. PICK P \in SUBSET car[r] : blocks' = blocks \cup P
    BY <1>20, Zenon DEF ReadInto
  <2>2. task[r] = "fetch" /\ UNCHANGED <<task, cut>>
    BY <1>20, Zenon DEF ReadInto
  <2>3. P \subseteq Accounts(r)'
    BY <1>3, <2>1, <2>2, Zenon DEF Accounts, Sent
  <2> QED BY <1>9, <2>1, <2>2, <2>3, Zenon
<1>21. ASSUME Crash PROVE HolesExplained'
  <2>1. /\ blocks' = blocks
        /\ cut' = cut \cup {r \in Reqs : task[r] \in {"bitswap", "graphsync", "fetch"}}
    BY <1>21, Zenon DEF Crash
  <2>2. ASSUME NEW s \in Reqs PROVE Accounts(s) \subseteq Accounts(s)'
    <3>1. Accounts(s) \subseteq Sent(s)
      BY Zenon DEF Accounts, Sent, NoPutFetches
    <3>2. Accounts(s) = {} \/ s \in cut'
      BY <2>1, Zenon DEF Accounts
    <3>3. s \in cut' => Sent(s) \subseteq Accounts(s)'
      BY <1>3, Zenon DEF Accounts
    <3> QED BY <3>1, <3>2, <3>3, Zenon
  <2> QED BY <1>4, <2>1, <2>2, Zenon
<1>22. ASSUME UNCHANGED <<blocks, cut>>, \A s \in Reqs : task'[s] = task[s] PROVE HolesExplained'
  <2>1. \A s \in Reqs : Accounts(s) \subseteq Accounts(s)'
    BY <1>22, <1>5, Zenon
  <2> QED BY <1>4, <1>22, <2>1, Zenon
<1>23. ASSUME NEW r \in Reqs, OriginOccupied(r) \/ ProvideCid(r) \/ Cancel(r) PROVE HolesExplained'
  BY <1>22, <1>23, Zenon DEF OriginOccupied, ProvideCid, Cancel
<1>24. ASSUME EngineReceives \/ EngineStep \/ UNCHANGED vars PROVE HolesExplained'
  BY <1>22, <1>24, Zenon DEF EngineReceives, EngineStep, vars
<1>25. ASSUME NEW r \in Reqs, TaskNotifies(r) PROVE HolesExplained'
  <2>1. /\ UNCHANGED <<blocks, cut>> /\ task[r] \in {"notify_ok", "notify_err"}
        /\ task' = [task EXCEPT ![r] = "done"]
    BY <1>25, Zenon DEF TaskNotifies
  <2>2. \A s \in Reqs : s # r => task'[s] = task[s]
    BY <1>1, <2>1, Zenon
  <2>3. Accounts(r) \subseteq Accounts(r)'
    BY <1>3, <2>1, Zenon DEF Accounts
  <2>4. \A s \in Reqs : Accounts(s) \subseteq Accounts(s)'
    BY <1>5, <2>1, <2>2, <2>3, Zenon
  <2> QED BY <1>4, <2>1, <2>4, Zenon
<1> QED BY <1>11, <1>12, <1>13, <1>14, <1>15, <1>16, <1>17, <1>18, <1>19, <1>20, <1>21, <1>23, <1>24,
           <1>25, Zenon DEF Next, Advance

-----------------------------------------------------------------------------
(* What is advertised. *)

\* The entries an advertisement is being made of are those of a DAG that is
\* complete: some in chunks, the others left.
JobComplete ==
    /\ engine = "addresses" => job.root \in Cids /\ job.Entries = <<>>
    /\ engine \in {"chunks", "put", "save"} =>
         /\ Complete(job.root) /\ job.left \subseteq Cids
         /\ (UNION Range(job.Entries)) \cup job.left = Reach(job.root)
    /\ engine \in {"put", "save"} => job.left = {}

\* What the chain advertises is complete.
AdsComplete ==
    \A i \in 1..Len(saved) :
        /\ UNION Range(saved[i].Entries) = Reach(saved[i].root)
        /\ Complete(saved[i].root)

\* Nothing deletes a block: what is complete stays so.
LEMMA CompleteStays ==
    ASSUME TraversalsRight, OriginTypeOK, [Next]_vars PROVE blocks \subseteq blocks'
BY BlocksGrow, Zenon

\* A step that leaves the job and the chain as they are.
LEMMA QuietKeepsJob ==
    ASSUME JobComplete, AdsComplete, blocks \subseteq blocks', UNCHANGED <<engine, job, saved>>
    PROVE  JobComplete' /\ AdsComplete'
BY Zenon DEF JobComplete, AdsComplete, Complete

\* The engine's steps keep both.
LEMMA EngineKeepsJob ==
    ASSUME TraversalsRight, SlicesFit, ChainInv, JobComplete, AdsComplete, EngineAlone, blocks' = blocks
    PROVE  JobComplete' /\ AdsComplete'
<1>0. job = [root |-> job.root, Entries |-> job.Entries, left |-> job.left, prev |-> job.prev]
  BY Zenon DEF ChainInv, Shapes
<1>1. ASSUME saved' = saved, engine' \notin {"addresses", "chunks", "put", "save"}
      PROVE  JobComplete' /\ AdsComplete'
  BY <1>1, Zenon DEF JobComplete, AdsComplete, Complete
<1>2. CASE NoAddresses \/ StoreFails \/ gossip_announce \/ http_announce
  <2>1. saved' = saved /\ engine' \in {"idle", "dead", "http"}
    BY <1>2, Zenon DEF NoAddresses, StoreFails, gossip_announce, http_announce, Idle, diskVars
  <2> QED BY <1>1, <2>1, Zenon
<1>3. CASE create
  <2> DEFINE dag == dag_traversal(blocks, job.root)
  <2>1. engine = "addresses" /\ saved' = saved /\ job.root \in Cids /\ job.Entries = <<>>
    BY <1>3, Zenon DEF create, diskVars, JobComplete
  <2>2. CASE dag = Failed
    BY <1>1, <1>3, <2>1, <2>2, Zenon DEF create, Idle
  <2>3. CASE dag # Failed
    <3>1. engine' = "chunks" /\ job' = [job EXCEPT !.left = dag]
      BY <1>3, <2>3, Zenon DEF create
    <3>2. dag = Reach(job.root) /\ Reach(job.root) \subseteq blocks
      BY <2>1, <2>3, Zenon DEF TraversalsRight, DagResult
    <3> HIDE DEF dag
    <3>3. job'.root = job.root /\ job'.Entries = <<>> /\ job'.left = Reach(job.root)
      BY <1>0, <2>1, <3>1, <3>2, Zenon
    <3>4. Reach(job.root) \subseteq Cids
      BY <2>1, ReachTyped, Zenon
    <3>5. UNION Range(<<>>) = {}
      BY RangeEmpty, Zenon
    <3>6. JobComplete'
      BY <3>1, <3>2, <3>3, <3>4, <3>5, Zenon DEF JobComplete, Complete
    <3> QED BY <2>1, <3>6, Zenon DEF AdsComplete, Complete
  <2> QED BY <2>2, <2>3, Zenon
<1>4. CASE add_chunk
  <2>1. PICK e : e = Slice(job.left)
    BY Zenon
  <2>2. /\ engine = "chunks" /\ engine' = engine /\ saved' = saved
        /\ job' = [job EXCEPT !.Entries = Append(job.Entries, e), !.left = @ \ e]
    BY <1>4, <2>1, Zenon DEF add_chunk
  <2>3. /\ job'.root = job.root /\ job'.Entries = Append(job.Entries, e)
        /\ job'.left = job.left \ e
    BY <1>0, <2>2, Zenon
  <2>4. /\ Complete(job.root) /\ job.left \subseteq Cids
        /\ (UNION Range(job.Entries)) \cup job.left = Reach(job.root)
    BY <2>2, Zenon DEF JobComplete
  <2>5. e \subseteq job.left
    BY <2>1, <2>4, Zenon DEF SlicesFit
  <2>6. Range(Append(job.Entries, e)) = Range(job.Entries) \cup {e}
    BY AppendRange, Zenon DEF ChainInv, Shapes
  <2>7. (UNION Range(job'.Entries)) \cup job'.left = Reach(job.root)
    BY <2>3, <2>4, <2>5, <2>6, Zenon
  <2>8. JobComplete'
    BY <2>2, <2>3, <2>4, <2>7, Zenon DEF JobComplete, Complete
  <2> QED BY <2>2, <2>8, Zenon DEF AdsComplete, Complete
<1>5. CASE publish_take
  <2>1. /\ engine = "chunks" /\ engine' = "put" /\ saved' = saved /\ job.left = {}
        /\ job' = [job EXCEPT !.prev = head]
    BY <1>5, Zenon DEF publish_take, diskVars
  <2>2. job'.root = job.root /\ job'.Entries = job.Entries /\ job'.left = job.left
    BY <1>0, <2>1, Zenon
  <2>3. JobComplete'
    BY <2>1, <2>2, Zenon DEF JobComplete, Complete
  <2> QED BY <2>1, <2>3, Zenon DEF AdsComplete, Complete
<1>6. CASE publish_put
  <2>1. engine = "put" /\ engine' = "save" /\ UNCHANGED <<job, saved>>
    BY <1>6, Zenon DEF publish_put
  <2> QED BY <2>1, Zenon DEF JobComplete, AdsComplete, Complete
<1>7. CASE publish_save
  <2>1. engine = "save" /\ engine' = "gossip"
    BY <1>7, Zenon DEF publish_save
  <2>2. JobComplete'
    BY <2>1, Zenon DEF JobComplete
  <2>3. ASSUME NEW i \in 1..Len(saved')
        PROVE  /\ UNION Range(saved'[i].Entries) = Reach(saved'[i].root)
               /\ Reach(saved'[i].root) \subseteq blocks'
    <3>1. i \in 1..Len(saved) \/ i = Len(saved')
      BY <1>7, <2>3, SaveExtends
    <3>2. CASE i \in 1..Len(saved)
      <4>1. saved'[i] = saved[i]
        BY <1>7, <3>2, SaveExtends, Zenon
      <4> QED BY <3>2, <4>1, Zenon DEF AdsComplete, Complete
    <3>3. CASE i = Len(saved')
      <4>1. saved'[i] = [root |-> job.root, Entries |-> job.Entries]
        BY <1>7, <3>3, SaveExtends, Zenon
      <4>2. saved'[i].root = job.root /\ saved'[i].Entries = job.Entries
        BY <4>1
      <4>3. Complete(job.root) /\ UNION Range(job.Entries) = Reach(job.root)
        BY <2>1, Zenon DEF JobComplete
      <4> QED BY <4>2, <4>3, Zenon DEF Complete
    <3> QED BY <3>1, <3>2, <3>3, Zenon
  <2> QED BY <2>2, <2>3, Zenon DEF AdsComplete, Complete
<1> QED BY <1>2, <1>3, <1>4, <1>5, <1>6, <1>7, Zenon DEF EngineAlone

\* So does every other step.
LEMMA JobStep ==
    ASSUME TraversalsRight, SlicesFit, OriginInv, ContentTyped, ChainInv, JobComplete,
           AdsComplete, [Next]_vars
    PROVE  JobComplete' /\ AdsComplete'
<1>0. blocks \subseteq blocks'
  BY CompleteStays, Zenon DEF OriginInv
<1>1. CASE \E r \in Reqs : SyncContent(r) \/ PutCar(r) \/ Advance(r)
                           \/ BitswapInsert(r) \/ ReadInto(r) \/ Cancel(r)
                           \/ CacheRequest(r) \/ GraphsyncInsert(r) \/ handle_graphsync(r)
  <2>1. UNCHANGED <<engine, job, saved>>
    BY <1>1, ZenonT(30)
            DEF SyncContent, PutCar, Advance, BitswapInsert, ReadInto, Cancel, NetworkOk,
                NetworkErr, OriginOccupied, OriginVacant, TaskFetched, TaskNotifies,
                ProvideCid, CacheRequest, GraphsyncInsert, handle_graphsync,
                provVars, memVars, diskVars
  <2> QED BY <1>0, <2>1, QuietKeepsJob, Zenon
<1>2. CASE EngineReceives
  <2>1. /\ engine' = "addresses" /\ saved' = saved /\ blocks' = blocks /\ commands # <<>>
        /\ job' = [NoJob EXCEPT !.root = Head(commands).cid]
    BY <1>2, Zenon DEF EngineReceives, ReceivePut, diskVars
  <2>2. Head(commands) \in [req : Reqs, cid : Roots]
    <3>1. PICK S : S = [req : Reqs, cid : Roots]
      BY Zenon
    <3>2. Head(commands) \in S
      <4>1. commands \in Seq(S)
        BY <3>1, Zenon DEF ContentTyped
      <4> QED BY <2>1, <4>1
    <3> QED BY <3>1, <3>2, Zenon
  <2>3. Head(commands).cid \in Cids
    BY <2>2, InterfaceAssumption, Zenon
  <2>4. job'.root = Head(commands).cid /\ job'.Entries = <<>>
    BY <2>1, Zenon DEF NoJob
  <2>5. JobComplete'
    BY <2>1, <2>3, <2>4, Zenon DEF JobComplete
  <2> QED BY <2>1, <2>5, Zenon DEF AdsComplete, Complete
<1>3. CASE EngineStep
  BY <1>3, EngineKeepsJob, Zenon DEF EngineStep
<1>4. CASE Crash
  <2>1. engine' = "idle" /\ saved' = saved /\ blocks' = blocks
    BY <1>4, Zenon DEF Crash, Provider_new, Idle, diskVars
  <2> QED BY <2>1, Zenon DEF JobComplete, AdsComplete, Complete
<1>5. CASE UNCHANGED vars
  <2>1. UNCHANGED <<engine, job, saved>>
    BY <1>5, Zenon DEF vars, provVars, memVars, diskVars
  <2> QED BY <1>0, <2>1, QuietKeepsJob, Zenon
<1> QED BY <1>1, <1>2, <1>3, <1>4, <1>5, Zenon DEF Next

-----------------------------------------------------------------------------
(* missing_blocks *)

\* go is the loop of missing_blocks over the blocks in have; its stack is
\* empty, or a stack with one cid on top.
IsMissingLoop(go, have) ==
    /\ \A m \in Seq(Cids) :
         go[[stack |-> <<>>, missing |-> m]] = [ok |-> TRUE, missing |-> m]
    /\ \A s, m \in Seq(Cids), c \in Cids :
         LET next == go[[stack |-> Append(s, c), missing |-> m]] IN
         /\ c \notin have => next = go[[stack |-> s, missing |-> Append(m, c)]]
         /\ c \in have /\ c \in Opaque => next = Unreadable
         /\ c \in have /\ c \notin Opaque => next = go[[stack |-> s \o Links[c], missing |-> m]]

\* The loop exists, and missing_blocks runs it from its root.
LEMMA MissingDef ==
    ASSUME NEW have, NEW root \in Cids
    PROVE  \E go : /\ IsMissingLoop(go, have)
                   /\ missing_blocks(have, root) = go[[stack |-> <<root>>, missing |-> <<>>]]
<1> DEFINE c(l) == l.stack[Len(l.stack)]
           popped(l) == SubSeq(l.stack, 1, Len(l.stack) - 1)
           D == {l \in MissingLoop : l.stack = <<>> \/ (c(l) \in have /\ c(l) \in Opaque)}
           out == [l \in MissingLoop |-> IF l.stack = <<>> THEN [ok |-> TRUE, missing |-> l.missing]
                                         ELSE [ok |-> FALSE, missing |-> <<>>]]
           then(l) == IF c(l) \notin have
                        THEN [stack |-> popped(l), missing |-> Append(l.missing, c(l))]
                        ELSE [stack |-> popped(l) \o Links[c(l)], missing |-> l.missing]
           next == [l \in MissingLoop |-> IF l \in D THEN l ELSE then(l)]
           Eqn(f) == f = [l \in MissingLoop |->
                            IF l.stack = <<>> THEN [ok |-> TRUE, missing |-> l.missing]
                            ELSE IF c(l) \notin have
                              THEN f[[stack |-> popped(l), missing |-> Append(l.missing, c(l))]]
                            ELSE IF c(l) \in Opaque THEN [ok |-> FALSE, missing |-> <<>>]
                            ELSE f[[stack |-> popped(l) \o Links[c(l)], missing |-> l.missing]]]
           go == CHOOSE f : Eqn(f)
<1>1. next \in [MissingLoop -> MissingLoop]
  <2>1. ASSUME NEW l \in MissingLoop, l \notin D PROVE then(l) \in MissingLoop
    <3>1. l.stack \in Seq(Cids) /\ l.missing \in Seq(Cids) /\ l.stack # <<>>
      BY <2>1, Zenon DEF MissingLoop
    <3>2. c(l) \in Cids /\ popped(l) \in Seq(Cids)
      BY <3>1
    <3> HIDE DEF c, popped
    <3>3. Links[c(l)] \in Seq(Cids)
      BY <3>2, LinksTyped, Zenon
    <3>4. Append(l.missing, c(l)) \in Seq(Cids) /\ popped(l) \o Links[c(l)] \in Seq(Cids)
      BY <3>1, <3>2, <3>3
    <3> QED BY <3>1, <3>2, <3>4, Zenon DEF MissingLoop
  <2> HIDE DEF then, D
  <2> QED BY <2>1, Zenon
<1> HIDE DEF c, popped
<1>2. PICK f : f = [l \in MissingLoop |-> IF l \in D THEN out[l] ELSE f[next[l]]]
  <2>1. PICK f : Loops(f, MissingLoop, D, out, next)
    <3> HIDE DEF D, out, next
    <3> QED BY <1>1, TailRecursion, Zenon
  <2> QED BY <2>1, Zenon DEF Loops
<1>3. Eqn(f)
  <2>1. ASSUME NEW l \in MissingLoop
        PROVE  f[l] = IF l.stack = <<>> THEN [ok |-> TRUE, missing |-> l.missing]
                      ELSE IF c(l) \notin have
                        THEN f[[stack |-> popped(l), missing |-> Append(l.missing, c(l))]]
                      ELSE IF c(l) \in Opaque THEN [ok |-> FALSE, missing |-> <<>>]
                      ELSE f[[stack |-> popped(l) \o Links[c(l)], missing |-> l.missing]]
    <3>1. f[l] = IF l \in D THEN out[l] ELSE f[next[l]]
      <4> HIDE DEF D, out, next
      <4> QED BY <1>2, Zenon
    <3>2. CASE l \in D
      BY <3>1, <3>2, Zenon
    <3>3. CASE l \notin D
      <4>1. f[l] = f[then(l)]
        <5> HIDE DEF D, then
        <5> QED BY <3>1, <3>3, Zenon
      <4>2. l.stack # <<>> /\ (c(l) \notin have \/ c(l) \notin Opaque)
        BY <3>3, Zenon
      <4> QED BY <4>1, <4>2, Zenon
    <3> QED BY <3>2, <3>3, Zenon
  <2>2. f = [l \in MissingLoop |-> f[l]]
    <3> HIDE DEF D, out, next
    <3> QED BY <1>2, Zenon
  <2> QED BY <2>1, <2>2, Zenon
<1>4. Eqn(go)
  <2> HIDE DEF Eqn
  <2> QED BY <1>3, Zenon
<1>5. missing_blocks(have, root) = go[[stack |-> <<root>>, missing |-> <<>>]]
  BY Zenon DEF missing_blocks, c, popped
<1> HIDE DEF go
<1>6. \A l \in MissingLoop :
        go[l] = IF l.stack = <<>> THEN [ok |-> TRUE, missing |-> l.missing]
                ELSE IF c(l) \notin have
                  THEN go[[stack |-> popped(l), missing |-> Append(l.missing, c(l))]]
                ELSE IF c(l) \in Opaque THEN [ok |-> FALSE, missing |-> <<>>]
                ELSE go[[stack |-> popped(l) \o Links[c(l)], missing |-> l.missing]]
  BY <1>4, Zenon
<1>7. ASSUME NEW m \in Seq(Cids)
      PROVE  go[[stack |-> <<>>, missing |-> m]] = [ok |-> TRUE, missing |-> m]
  <2>0. PICK l : l = [stack |-> <<>>, missing |-> m]
    BY Zenon
  <2>1. l \in MissingLoop /\ l.stack = <<>> /\ l.missing = m
    BY <2>0 DEF MissingLoop
  <2> QED BY <1>6, <2>0, <2>1, Zenon
<1>8. ASSUME NEW s \in Seq(Cids), NEW m \in Seq(Cids), NEW x \in Cids
      PROVE  LET now == go[[stack |-> Append(s, x), missing |-> m]] IN
             /\ x \notin have => now = go[[stack |-> s, missing |-> Append(m, x)]]
             /\ x \in have /\ x \in Opaque => now = Unreadable
             /\ x \in have /\ x \notin Opaque =>
                  now = go[[stack |-> s \o Links[x], missing |-> m]]
  <2>0. PICK l : l = [stack |-> Append(s, x), missing |-> m]
    BY Zenon
  <2>1. l \in MissingLoop /\ l.stack = Append(s, x) /\ l.missing = m
    BY <2>0 DEF MissingLoop
  <2>2. Append(s, x) # <<>> /\ c(l) = x
    BY <2>1 DEF c
  <2>3. popped(l) = s
    <3>1. SubSeq(Append(s, x), 1, Len(Append(s, x)) - 1) = s
      OBVIOUS
    <3> QED BY <2>1, <3>1, Zenon DEF popped
  <2> QED BY <1>6, <2>0, <2>1, <2>2, <2>3, Zenon DEF Unreadable
<1>9. IsMissingLoop(go, have)
  BY <1>7, <1>8, Zenon DEF IsMissingLoop
<1> QED BY <1>5, <1>9, Zenon

\* Reading the cids of L from the top of any stack reports exactly the sequence
\* l; reading them meets a block that is there and cannot be decoded.
Reports(go, L, l) ==
    \A s, m \in Seq(Cids) :
      go[[stack |-> s \o L, missing |-> m]] = go[[stack |-> s, missing |-> m \o l]]

Stops(go, L) ==
    \A s, m \in Seq(Cids) : go[[stack |-> s \o L, missing |-> m]] = Unreadable

\* What the loop makes of the cids of L, whose blocks and theirs are all of R.
IsRead(go, have, L, R) ==
    \/ \E l \in Seq(Cids) : /\ Reports(go, L, l)
                            /\ Range(l) \subseteq R \ have
                            /\ (Range(l) = {}) <=> (R \subseteq have)
    \/ Stops(go, L) /\ R \cap have \cap Opaque # {}

\* Concatenations, regrouped
LEMMA JoinAssoc == \A a, b, c \in Seq(Cids) : (a \o b) \o c = a \o (b \o c)
OBVIOUS

\* with an element put at the end,
LEMMA AppendOfConcat ==
    ASSUME NEW S, NEW s \in Seq(S), NEW L \in Seq(S), NEW e \in S
    PROVE  s \o Append(L, e) = (s \o L) \o <<e>>
OBVIOUS

\* their elements,
LEMMA JoinRange ==
    ASSUME NEW S, NEW a \in Seq(S), NEW b \in Seq(S)
    PROVE  Range(a \o b) = Range(a) \cup Range(b)
<1>1. PICK c : c = a \o b
  BY Zenon
<1>2. /\ DOMAIN c = 1..(Len(a) + Len(b)) /\ DOMAIN a = 1..Len(a) /\ DOMAIN b = 1..Len(b)
      /\ Len(a) \in Nat /\ Len(b) \in Nat
      /\ \A i \in 1..(Len(a) + Len(b)) : c[i] = IF i <= Len(a) THEN a[i] ELSE b[i - Len(a)]
  BY <1>1
<1>3. ASSUME NEW i \in DOMAIN c PROVE c[i] \in Range(a) \cup Range(b)
  <2>1. CASE i <= Len(a)
    BY <1>2, <2>1 DEF Range
  <2>2. CASE ~(i <= Len(a))
    <3>1. i - Len(a) \in DOMAIN b /\ c[i] = b[i - Len(a)]
      BY <1>2, <2>2
    <3> QED BY <3>1, Zenon DEF Range
  <2> QED BY <2>1, <2>2, Zenon
<1>4. ASSUME NEW i \in DOMAIN a PROVE a[i] \in Range(c)
  <2>1. i \in DOMAIN c /\ c[i] = a[i]
    BY <1>2
  <2> QED BY <2>1, Zenon DEF Range
<1>5. ASSUME NEW i \in DOMAIN b PROVE b[i] \in Range(c)
  <2>1. PICK j \in DOMAIN c : j = Len(a) + i /\ c[j] = b[i]
    BY <1>2
  <2> QED BY <2>1, Zenon DEF Range
<1>6. \A x \in Range(c) : x \in Range(a) \cup Range(b)
  BY <1>3, Zenon DEF Range
<1>7. \A x \in Range(a) \cup Range(b) : x \in Range(c)
  BY <1>4, <1>5, Zenon DEF Range
<1>8. Range(c) = Range(a) \cup Range(b)
  BY <1>6, <1>7, Zenon
<1> QED BY <1>1, <1>8, Zenon

\* what is before the last element,
LEMMA LastApart ==
    ASSUME NEW S, NEW s \in Seq(S), Len(s) # 0
    PROVE  \E h \in Seq(S), e \in S : s = Append(h, e)
<1>1. PICK h : h = [i \in 1..(Len(s) - 1) |-> s[i]]
  BY Zenon
<1>2. h \in Seq(S) /\ s[Len(s)] \in S /\ s = Append(h, s[Len(s)])
  BY <1>1
<1> QED BY <1>2, Zenon

\* and typed.
LEMMA ConcatTyped ==
    ASSUME NEW S, NEW s \in Seq(S), NEW t \in Seq(S) PROVE s \o t \in Seq(S)
OBVIOUS

\* One more cid on top of cids already understood.
LEMMA ReadOneMore ==
    ASSUME NEW go, NEW have, NEW L \in Seq(Cids), NEW e \in Cids,
           NEW R \in SUBSET Cids, NEW Q \in SUBSET Cids,
           IsRead(go, have, L, R), IsRead(go, have, <<e>>, Q)
    PROVE  IsRead(go, have, Append(L, e), R \cup Q)
<1>1. \A s \in Seq(Cids) : s \o L \in Seq(Cids) /\ s \o Append(L, e) = (s \o L) \o <<e>>
  BY AppendOfConcat
<1>2. CASE Stops(go, <<e>>) /\ Q \cap have \cap Opaque # {}
  <2>1. Stops(go, Append(L, e))
    BY <1>1, <1>2, Zenon DEF Stops
  <2> QED BY <1>2, <2>1, Zenon DEF IsRead
<1>3. ASSUME NEW l \in Seq(Cids), Reports(go, <<e>>, l),
             Range(l) \subseteq Q \ have, (Range(l) = {}) <=> (Q \subseteq have)
      PROVE  IsRead(go, have, Append(L, e), R \cup Q)
  <2>1. \A s, m \in Seq(Cids) :
          /\ m \o l \in Seq(Cids)
          /\ go[[stack |-> s \o Append(L, e), missing |-> m]]
               = go[[stack |-> s \o L, missing |-> m \o l]]
    <3> SUFFICES ASSUME NEW s \in Seq(Cids), NEW m \in Seq(Cids)
                 PROVE  /\ m \o l \in Seq(Cids)
                        /\ go[[stack |-> s \o Append(L, e), missing |-> m]]
                             = go[[stack |-> s \o L, missing |-> m \o l]]
      BY Zenon
    <3>1. go[[stack |-> (s \o L) \o <<e>>, missing |-> m]]
            = go[[stack |-> s \o L, missing |-> m \o l]]
      BY <1>1, <1>3, Zenon DEF Reports
    <3>2. m \o l \in Seq(Cids)
      BY ConcatTyped, Zenon
    <3>3. s \o Append(L, e) = (s \o L) \o <<e>>
      BY <1>1, Zenon
    <3> QED BY <3>1, <3>2, <3>3, Zenon
  <2>2. CASE Stops(go, L) /\ R \cap have \cap Opaque # {}
    <3>1. Stops(go, Append(L, e))
      <4> SUFFICES ASSUME NEW s \in Seq(Cids), NEW m \in Seq(Cids)
                   PROVE  go[[stack |-> s \o Append(L, e), missing |-> m]] = Unreadable
        BY Zenon DEF Stops
      <4>1. m \o l \in Seq(Cids)
        BY ConcatTyped, Zenon
      <4>2. go[[stack |-> s \o L, missing |-> m \o l]] = Unreadable
        BY <2>2, <4>1, Zenon DEF Stops
      <4> QED BY <2>1, <4>2, Zenon
    <3> QED BY <2>2, <3>1, Zenon DEF IsRead
  <2>3. ASSUME NEW k \in Seq(Cids), Reports(go, L, k),
               Range(k) \subseteq R \ have, (Range(k) = {}) <=> (R \subseteq have)
        PROVE  IsRead(go, have, Append(L, e), R \cup Q)
    <3>1. l \o k \in Seq(Cids)
      OBVIOUS
    <3>2. ASSUME NEW s \in Seq(Cids), NEW m \in Seq(Cids)
          PROVE  go[[stack |-> s \o Append(L, e), missing |-> m]]
                   = go[[stack |-> s, missing |-> m \o (l \o k)]]
      <4>1. go[[stack |-> s \o L, missing |-> m \o l]] = go[[stack |-> s, missing |-> (m \o l) \o k]]
        BY <2>1, <2>3, Zenon DEF Reports
      <4>2. (m \o l) \o k = m \o (l \o k)
        BY <2>3, JoinAssoc, Zenon
      <4> QED BY <2>1, <4>1, <4>2, Zenon
    <3>3. Reports(go, Append(L, e), l \o k)
      BY <3>2, Zenon DEF Reports
    <3>4. Range(l \o k) = Range(l) \cup Range(k)
      BY JoinRange
    <3>5. Range(l \o k) \subseteq (R \cup Q) \ have
      BY <1>3, <2>3, <3>4, Zenon
    <3>6. (Range(l \o k) = {}) <=> (R \cup Q \subseteq have)
      BY <1>3, <2>3, <3>4, Zenon
    <3> QED BY <3>1, <3>3, <3>5, <3>6, Zenon DEF IsRead
  <2> QED BY <2>2, <2>3, Zenon DEF IsRead
<1> QED BY <1>2, <1>3, Zenon DEF IsRead

ReachOfAll(L) == UNION {ReachOf[d] : d \in Range(L)}

\* A sequence of cids each of which is understood is understood.
LEMMA ReadAll ==
    ASSUME NEW go, NEW have, NEW L \in Seq(Cids),
           \A d \in Range(L) : IsRead(go, have, <<d>>, ReachOf[d])
    PROVE  IsRead(go, have, L, ReachOfAll(L))
<1> DEFINE T == {n \in Nat : \A K \in Seq(Cids) :
                   Len(K) = n /\ (\A d \in Range(K) : IsRead(go, have, <<d>>, ReachOf[d]))
                     => IsRead(go, have, K, ReachOfAll(K))}
<1>1. 0 \in T
  <2>1. Reports(go, <<>>, <<>>)
    BY DEF Reports
  <2>2. ReachOfAll(<<>>) = {}
    BY RangeEmpty, Zenon DEF ReachOfAll
  <2>3. <<>> \in Seq(Cids)
    OBVIOUS
  <2>4. IsRead(go, have, <<>>, ReachOfAll(<<>>))
    BY <2>1, <2>2, <2>3, RangeEmpty, Zenon DEF IsRead
  <2>5. \A K \in Seq(Cids) : Len(K) = 0 => K = <<>>
    OBVIOUS
  <2> QED BY <2>4, <2>5, Zenon
<1>2. ASSUME NEW n \in Nat, n \in T PROVE n + 1 \in T
  <2> SUFFICES ASSUME NEW K \in Seq(Cids), Len(K) = n + 1,
                      \A d \in Range(K) : IsRead(go, have, <<d>>, ReachOf[d])
               PROVE  IsRead(go, have, K, ReachOfAll(K))
    OBVIOUS
  <2>1. PICK H \in Seq(Cids), e \in Cids : K = Append(H, e)
    <3>1. Len(K) # 0
      OBVIOUS
    <3> QED BY <3>1, LastApart, Zenon
  <2>2. Len(H) = n
    BY <2>1
  <2>3. Range(K) = Range(H) \cup {e}
    BY <2>1, AppendRange, Zenon
  <2>4. IsRead(go, have, H, ReachOfAll(H))
    BY <1>2, <2>2, <2>3, Zenon
  <2>5. IsRead(go, have, <<e>>, ReachOf[e])
    BY <2>3, Zenon
  <2>6. ReachOfAll(K) = ReachOfAll(H) \cup ReachOf[e]
    BY <2>3, Zenon DEF ReachOfAll
  <2>7. ReachOfAll(H) \in SUBSET Cids /\ ReachOf[e] \in SUBSET Cids
    <3>1. Range(H) \subseteq Cids
      BY DEF Range
    <3>2. \A d \in Cids : ReachOf[d] \subseteq Cids
      BY ReachTyped, Zenon DEF Reach
    <3> QED BY <3>1, <3>2, Zenon DEF ReachOfAll
  <2> QED BY <2>1, <2>4, <2>5, <2>6, <2>7, ReadOneMore
<1> HIDE DEF T
<1>3. Nat \subseteq T
  BY <1>1, <1>2, Induct, Zenon
<1>4. Len(L) \in T
  BY <1>3
<1> QED BY <1>4, Zenon DEF T

\* And so every cid is: by HashAssumption one that is not would refer only to
\* cids that are.
LEMMA ReadEvery ==
    ASSUME NEW go, NEW have, IsMissingLoop(go, have)
    PROVE  \A c \in Cids : IsRead(go, have, <<c>>, ReachOf[c])
<1> DEFINE Bad == {c \in Cids : ~IsRead(go, have, <<c>>, ReachOf[c])}
<1> SUFFICES ASSUME Bad # {} PROVE FALSE
  BY Zenon
<1>1. PICK c \in Bad : Range(Links[c]) \cap Bad = {}
  BY HashAssumption, Zenon
<1>2. c \in Cids /\ Links[c] \in Seq(Cids) /\ Range(Links[c]) \subseteq Cids
  BY LinksTyped, Zenon
<1>3. c \in ReachOf[c] /\ ReachOf[c] = {c} \cup ReachOfAll(Links[c])
  BY <1>2, ReachTyped, ReachUnfold, Zenon DEF Reach, ReachOfAll
<1>4. \A s \in Seq(Cids) : s \o <<c>> = Append(s, c)
  OBVIOUS
<1>8. \A s, m \in Seq(Cids) :
        LET next == go[[stack |-> s \o <<c>>, missing |-> m]] IN
        /\ c \notin have => next = go[[stack |-> s, missing |-> Append(m, c)]]
        /\ c \in have /\ c \in Opaque => next = Unreadable
        /\ c \in have /\ c \notin Opaque => next = go[[stack |-> s \o Links[c], missing |-> m]]
  <2> HIDE DEF Bad
  <2>0. c \in Cids
    BY <1>2, Zenon
  <2>1. \A s, m \in Seq(Cids) :
          LET next == go[[stack |-> Append(s, c), missing |-> m]] IN
          /\ c \notin have => next = go[[stack |-> s, missing |-> Append(m, c)]]
          /\ c \in have /\ c \in Opaque => next = Unreadable
          /\ c \in have /\ c \notin Opaque => next = go[[stack |-> s \o Links[c], missing |-> m]]
    BY <2>0, Zenon DEF IsMissingLoop
  <2>2. \A s, m \in Seq(Cids) :
          go[[stack |-> s \o <<c>>, missing |-> m]] = go[[stack |-> Append(s, c), missing |-> m]]
    BY <1>4, Zenon
  <2> TAKE s, m \in Seq(Cids)
  <2>3. PICK a : a = go[[stack |-> s \o <<c>>, missing |-> m]]
    BY Zenon
  <2>4. a = go[[stack |-> Append(s, c), missing |-> m]]
    BY <2>2, <2>3, Zenon
  <2>5. /\ c \notin have => a = go[[stack |-> s, missing |-> Append(m, c)]]
        /\ c \in have /\ c \in Opaque => a = Unreadable
        /\ c \in have /\ c \notin Opaque => a = go[[stack |-> s \o Links[c], missing |-> m]]
    BY <2>1, <2>4, Zenon
  <2> QED BY <2>3, <2>5, Zenon
<1>5. CASE c \notin have
  <2>1. <<c>> \in Seq(Cids) /\ Range(<<c>>) = {c}
    BY <1>2 DEF Range
  <2>2. Reports(go, <<c>>, <<c>>)
    BY <1>4, <1>5, <1>8, Zenon DEF Reports
  <2> QED BY <1>1, <1>3, <1>5, <2>1, <2>2, Zenon DEF IsRead
<1>6. CASE c \in have /\ c \in Opaque
  <2>1. Stops(go, <<c>>)
    BY <1>6, <1>8, Zenon DEF Stops
  <2> QED BY <1>1, <1>3, <1>6, <2>1, Zenon DEF IsRead
<1>7. CASE c \in have /\ c \notin Opaque
  <2>1. IsRead(go, have, Links[c], ReachOfAll(Links[c]))
    <3>1. \A d \in Range(Links[c]) : IsRead(go, have, <<d>>, ReachOf[d])
      BY <1>1, <1>2, Zenon
    <3> QED BY <1>2, <3>1, ReadAll, Zenon
  <2>2. \A s, m \in Seq(Cids) :
          go[[stack |-> s \o <<c>>, missing |-> m]] = go[[stack |-> s \o Links[c], missing |-> m]]
    BY <1>7, <1>8, Zenon
  <2>3. CASE Stops(go, Links[c]) /\ ReachOfAll(Links[c]) \cap have \cap Opaque # {}
    <3>1. Stops(go, <<c>>)
      BY <2>2, <2>3, Zenon DEF Stops
    <3> QED BY <1>1, <1>3, <2>3, <3>1, Zenon DEF IsRead
  <2>4. ASSUME NEW l \in Seq(Cids), Reports(go, Links[c], l),
               Range(l) \subseteq ReachOfAll(Links[c]) \ have,
               (Range(l) = {}) <=> (ReachOfAll(Links[c]) \subseteq have)
        PROVE  FALSE
    <3>1. Reports(go, <<c>>, l)
      BY <2>2, <2>4, ZenonT(30) DEF Reports
    <3>2. Range(l) \subseteq ReachOf[c] \ have /\ ((Range(l) = {}) <=> (ReachOf[c] \subseteq have))
      BY <1>3, <1>7, <2>4, Zenon
    <3> QED BY <1>1, <3>1, <3>2, Zenon DEF IsRead
  <2> QED BY <2>1, <2>3, <2>4, Zenon DEF IsRead
<1> QED BY <1>5, <1>6, <1>7, Zenon

\* What missing_blocks returns.
LEMMA MissingCorrect ==
    ASSUME NEW have, NEW root \in Cids
    PROVE  IsMissing(missing_blocks(have, root), have, root)
<1>1. PICK go : /\ IsMissingLoop(go, have)
                /\ missing_blocks(have, root) = go[[stack |-> <<root>>, missing |-> <<>>]]
  BY MissingDef, Zenon
<1>2. IsRead(go, have, <<root>>, Reach(root))
  BY <1>1, ReadEvery, Zenon DEF Reach
<1>3. <<>> \in Seq(Cids) /\ <<>> \o <<root>> = <<root>>
  OBVIOUS
<1>4. CASE Stops(go, <<root>>) /\ Reach(root) \cap have \cap Opaque # {}
  <2>1. go[[stack |-> <<>> \o <<root>>, missing |-> <<>>]] = Unreadable
    BY <1>3, <1>4, Zenon DEF Stops
  <2> QED BY <1>1, <1>3, <1>4, <2>1, Zenon DEF IsMissing
<1>5. ASSUME NEW l \in Seq(Cids), Reports(go, <<root>>, l),
             Range(l) \subseteq Reach(root) \ have,
             (Range(l) = {}) <=> (Reach(root) \subseteq have)
      PROVE  missing_blocks(have, root) = [ok |-> TRUE, missing |-> l]
  <2>1. go[[stack |-> <<>> \o <<root>>, missing |-> <<>>]] = go[[stack |-> <<>>, missing |-> <<>> \o l]]
    BY <1>3, <1>5, Zenon DEF Reports
  <2>2. <<>> \o l = l
    OBVIOUS
  <2>3. go[[stack |-> <<>>, missing |-> l]] = [ok |-> TRUE, missing |-> l]
    BY <1>1, Zenon DEF IsMissingLoop
  <2> QED BY <1>1, <1>3, <2>1, <2>2, <2>3, Zenon
<1> QED BY <1>2, <1>4, <1>5, Zenon DEF IsRead, IsMissing

-----------------------------------------------------------------------------
(* dag_traversal *)

Pick(current) == CHOOSE x \in current : TRUE

\* go is the loop of dag_traversal over the blocks in have.
IsDagLoop(go, have) ==
    \A current, refs \in SUBSET Cids :
        LET c == Pick(current)
            rest == current \ {c}
        IN  go[[current |-> current, refs |-> refs]] =
              IF current = {} THEN refs
              ELSE IF c \in refs THEN go[[current |-> rest, refs |-> refs]]
              ELSE IF c \notin have \ Opaque THEN Failed
              ELSE go[[current |-> rest \cup Range(Links[c]), refs |-> refs \cup {c}]]

\* The loop exists, and dag_traversal runs it from its root.
LEMMA DagDef ==
    ASSUME NEW have, NEW root \in Cids
    PROVE  \E go : /\ IsDagLoop(go, have)
                   /\ dag_traversal(have, root) = go[[current |-> {root}, refs |-> {}]]
<1> DEFINE c(l) == CHOOSE x \in l.current : TRUE
           D == {l \in DagLoop : l.current = {} \/ (c(l) \notin l.refs /\ c(l) \notin have \ Opaque)}
           out == [l \in DagLoop |-> IF l.current = {} THEN l.refs ELSE Failed]
           then(l) == IF c(l) \in l.refs THEN [current |-> l.current \ {c(l)}, refs |-> l.refs]
                      ELSE [current |-> (l.current \ {c(l)}) \cup Range(Links[c(l)]),
                            refs |-> l.refs \cup {c(l)}]
           next == [l \in DagLoop |-> IF l \in D THEN l ELSE then(l)]
           Eqn(f) == f = [l \in DagLoop |->
                            IF l.current = {} THEN l.refs
                            ELSE IF c(l) \in l.refs
                              THEN f[[current |-> l.current \ {c(l)}, refs |-> l.refs]]
                            ELSE IF c(l) \notin have \ Opaque THEN Failed
                            ELSE f[[current |-> (l.current \ {c(l)}) \cup Range(Links[c(l)]),
                                    refs |-> l.refs \cup {c(l)}]]]
           go == CHOOSE f : Eqn(f)
<1>1. next \in [DagLoop -> DagLoop]
  <2>1. ASSUME NEW l \in DagLoop, l \notin D PROVE then(l) \in DagLoop
    <3>1. l.current \in SUBSET Cids /\ l.refs \in SUBSET Cids /\ l.current # {}
      BY <2>1, Zenon DEF DagLoop
    <3>2. c(l) \in l.current
      BY <3>1, Zenon
    <3> HIDE DEF c
    <3>3. Range(Links[c(l)]) \subseteq Cids
      BY <3>1, <3>2, LinksTyped, Zenon
    <3> QED BY <3>1, <3>2, <3>3, Zenon DEF DagLoop
  <2> HIDE DEF then, D
  <2> QED BY <2>1, Zenon
<1> HIDE DEF c
<1>2. PICK f : f = [l \in DagLoop |-> IF l \in D THEN out[l] ELSE f[next[l]]]
  <2>1. PICK f : Loops(f, DagLoop, D, out, next)
    <3> HIDE DEF D, out, next
    <3> QED BY <1>1, TailRecursion, Zenon
  <2> QED BY <2>1, Zenon DEF Loops
<1>3. Eqn(f)
  <2>1. ASSUME NEW l \in DagLoop
        PROVE  f[l] = IF l.current = {} THEN l.refs
                      ELSE IF c(l) \in l.refs
                        THEN f[[current |-> l.current \ {c(l)}, refs |-> l.refs]]
                      ELSE IF c(l) \notin have \ Opaque THEN Failed
                      ELSE f[[current |-> (l.current \ {c(l)}) \cup Range(Links[c(l)]),
                              refs |-> l.refs \cup {c(l)}]]
    <3>1. f[l] = IF l \in D THEN out[l] ELSE f[next[l]]
      <4> HIDE DEF D, out, next
      <4> QED BY <1>2, Zenon
    <3>2. CASE l \in D
      BY <3>1, <3>2, Zenon
    <3>3. CASE l \notin D
      <4>1. f[l] = f[then(l)]
        <5> HIDE DEF D, then
        <5> QED BY <3>1, <3>3, Zenon
      <4>2. l.current # {} /\ (c(l) \in l.refs \/ c(l) \in have \ Opaque)
        BY <3>3, Zenon
      <4> QED BY <4>1, <4>2, Zenon
    <3> QED BY <3>2, <3>3, Zenon
  <2>2. f = [l \in DagLoop |-> f[l]]
    <3> HIDE DEF D, out, next
    <3> QED BY <1>2, Zenon
  <2> QED BY <2>1, <2>2, Zenon
<1>4. Eqn(go)
  <2> HIDE DEF Eqn
  <2> QED BY <1>3, Zenon
<1>5. dag_traversal(have, root) = go[[current |-> {root}, refs |-> {}]]
  BY Zenon DEF dag_traversal, c
<1> HIDE DEF go
<1>6. IsDagLoop(go, have)
  <2> SUFFICES ASSUME NEW current \in SUBSET Cids, NEW refs \in SUBSET Cids
               PROVE  LET x == Pick(current)
                          rest == current \ {x}
                      IN  go[[current |-> current, refs |-> refs]] =
                            IF current = {} THEN refs
                            ELSE IF x \in refs THEN go[[current |-> rest, refs |-> refs]]
                            ELSE IF x \notin have \ Opaque THEN Failed
                            ELSE go[[current |-> rest \cup Range(Links[x]),
                                     refs |-> refs \cup {x}]]
    BY Zenon DEF IsDagLoop
  <2>0. PICK l : l = [current |-> current, refs |-> refs]
    BY Zenon
  <2>1. l \in DagLoop /\ l.current = current /\ l.refs = refs
    BY <2>0, Zenon DEF DagLoop
  <2>2. c(l) = Pick(current)
    BY <2>1, Zenon DEF c, Pick
  <2>3. go[l] = IF l.current = {} THEN l.refs
                ELSE IF c(l) \in l.refs
                  THEN go[[current |-> l.current \ {c(l)}, refs |-> l.refs]]
                ELSE IF c(l) \notin have \ Opaque THEN Failed
                ELSE go[[current |-> (l.current \ {c(l)}) \cup Range(Links[c(l)]),
                         refs |-> l.refs \cup {c(l)}]]
    BY <1>4, <2>1, Zenon
  <2> QED BY <2>0, <2>1, <2>2, <2>3, Zenon
<1> QED BY <1>5, <1>6, Zenon

\* What the loop of dag_traversal knows: the blocks it has read are there and
\* are part of the DAG, and so is what they refer to.
DagInv(have, root, current, refs) ==
    /\ refs \subseteq have \ Opaque
    /\ root \in refs \cup current
    /\ refs \cup current \subseteq Reach(root)
    /\ \A d \in refs : Range(Links[d]) \subseteq refs \cup current

\* The loop gives the result from every state with refs.
DagEndsAt(go, have, root, refs) ==
    \A current \in SUBSET Cids :
        DagInv(have, root, current, refs) =>
            go[[current |-> current, refs |-> refs]] = DagResult(have, root)

INSTANCE FiniteSetTheorems

\* It does so if it does with one more block read.
LEMMA DagInner ==
    ASSUME NEW have, NEW root \in Cids, NEW go, IsDagLoop(go, have), NEW refs \in SUBSET Cids,
           \A c \in Cids \ refs : DagEndsAt(go, have, root, refs \cup {c})
    PROVE  DagEndsAt(go, have, root, refs)
<1> DEFINE Ends(current) == go[[current |-> current, refs |-> refs]] = DagResult(have, root)
           T == {n \in Nat : \A current \in SUBSET Cids :
                    DagInv(have, root, current, refs) /\ Cardinality(current) = n => Ends(current)}
<1>1. ASSUME NEW current \in SUBSET Cids, DagInv(have, root, current, refs), current # {},
             DagInv(have, root, current \ {Pick(current)}, refs) => Ends(current \ {Pick(current)})
      PROVE  Ends(current)
  <2>0. PICK c : c = Pick(current)
    BY Zenon
  <2>1. c \in current /\ c \in Cids /\ c \in Reach(root)
    BY <1>1, <2>0, Zenon DEF Pick, DagInv
  <2>2. go[[current |-> current, refs |-> refs]] =
              IF c \in refs THEN go[[current |-> current \ {c}, refs |-> refs]]
              ELSE IF c \notin have \ Opaque THEN Failed
              ELSE go[[current |-> (current \ {c}) \cup Range(Links[c]), refs |-> refs \cup {c}]]
    BY <1>1, <2>0, Zenon DEF IsDagLoop
  <2>3. CASE c \in refs
    <3>1. DagInv(have, root, current \ {c}, refs)
      BY <1>1, <2>3, Zenon DEF DagInv
    <3> QED BY <1>1, <2>0, <2>2, <2>3, <3>1, Zenon
  <2>4. CASE c \notin refs /\ c \notin have \ Opaque
    <3>1. DagResult(have, root) = Failed
      BY <2>1, <2>4, Zenon DEF DagResult
    <3> QED BY <2>2, <2>4, <3>1, Zenon
  <2>5. CASE c \notin refs /\ c \in have \ Opaque
    <3>1. PICK more : more = (current \ {c}) \cup Range(Links[c])
      BY Zenon
    <3>2. Range(Links[c]) \subseteq Reach(root) /\ Range(Links[c]) \subseteq Cids
      BY <2>1, ReachClosed, LinksTyped, Zenon
    <3>3. DagInv(have, root, more, refs \cup {c}) /\ more \in SUBSET Cids
      BY <1>1, <2>1, <2>5, <3>1, <3>2, Zenon DEF DagInv
    <3>4. DagEndsAt(go, have, root, refs \cup {c})
      BY <2>1, <2>5, Zenon
    <3>5. go[[current |-> more, refs |-> refs \cup {c}]] = DagResult(have, root)
      BY <3>3, <3>4, Zenon DEF DagEndsAt
    <3> QED BY <2>2, <2>5, <3>1, <3>5, Zenon
  <2> QED BY <2>3, <2>4, <2>5, Zenon
<1>2. ASSUME DagInv(have, root, {}, refs) PROVE Ends({})
  <2>1. go[[current |-> {}, refs |-> refs]] = refs
    BY Zenon DEF IsDagLoop
  <2>2. Reach(root) = refs
    BY <1>2, ReachLeast, Zenon DEF DagInv
  <2> QED BY <1>2, <2>1, <2>2, Zenon DEF DagResult, DagInv
<1>3. \A current \in SUBSET Cids : IsFiniteSet(current) /\ Cardinality(current) \in Nat
  BY BlocksAssumption, FS_Subset, FS_CardinalityType, Zenon
<1>4. 0 \in T
  <2>1. \A current \in SUBSET Cids : Cardinality(current) = 0 => current = {}
    BY <1>3, FS_EmptySet, Zenon
  <2> HIDE DEF Ends
  <2> QED BY <1>2, <2>1, Zenon
<1>5. ASSUME NEW n \in Nat, n \in T PROVE n + 1 \in T
  <2> SUFFICES ASSUME NEW current \in SUBSET Cids, DagInv(have, root, current, refs),
                      Cardinality(current) = n + 1
               PROVE  Ends(current)
    OBVIOUS
  <2>0. PICK c : c = Pick(current)
    BY Zenon
  <2>1. current # {}
    BY FS_EmptySet
  <2>2. c \in current
    BY <2>0, <2>1, Zenon DEF Pick
  <2>3. Cardinality(current \ {c}) = n
    BY <1>3, <2>2, FS_RemoveElement
  <2>4. DagInv(have, root, current \ {c}, refs) => Ends(current \ {c})
    <3> HIDE DEF Ends
    <3> QED BY <1>5, <2>3, Zenon
  <2> HIDE DEF Ends
  <2> QED BY <1>1, <2>0, <2>1, <2>4, Zenon
<1> HIDE DEF T
<1>6. Nat \subseteq T
  BY <1>4, <1>5, Induct, Zenon
<1> QED BY <1>3, <1>6, Zenon DEF T, DagEndsAt

\* dag_traversal returns what is reached from the root if all of it is there
\* and can be read, and fails otherwise.
LEMMA DagCorrect ==
    ASSUME NEW have, NEW root \in Cids
    PROVE  dag_traversal(have, root) = DagResult(have, root)
<1>1. PICK go : /\ IsDagLoop(go, have)
                /\ dag_traversal(have, root) = go[[current |-> {root}, refs |-> {}]]
  BY DagDef, Zenon
<1> DEFINE T == {n \in Nat : \A refs \in SUBSET Cids :
                    Cardinality(Cids \ refs) = n => DagEndsAt(go, have, root, refs)}
<1>2. \A refs \in SUBSET Cids : /\ IsFiniteSet(Cids \ refs)
                                /\ Cardinality(Cids \ refs) \in Nat
  BY BlocksAssumption, FS_Subset, FS_CardinalityType, Zenon
<1>3. 0 \in T
  <2> SUFFICES ASSUME NEW refs \in SUBSET Cids, Cardinality(Cids \ refs) = 0
               PROVE  DagEndsAt(go, have, root, refs)
    BY Zenon
  <2>1. Cids \ refs = {}
    BY <1>2, FS_EmptySet, Zenon
  <2> QED BY <1>1, <2>1, DagInner, Zenon
<1>4. ASSUME NEW n \in Nat, n \in T PROVE n + 1 \in T
  <2> SUFFICES ASSUME NEW refs \in SUBSET Cids, Cardinality(Cids \ refs) = n + 1
               PROVE  DagEndsAt(go, have, root, refs)
    OBVIOUS
  <2>1. ASSUME NEW c \in Cids \ refs PROVE DagEndsAt(go, have, root, refs \cup {c})
    <3>1. Cids \ (refs \cup {c}) = (Cids \ refs) \ {c} /\ refs \cup {c} \in SUBSET Cids
      BY Zenon
    <3>2. Cardinality((Cids \ refs) \ {c}) = n
      <4>1. PICK U : U = Cids \ refs
        BY Zenon
      <4>2. IsFiniteSet(U) /\ Cardinality(U) = n + 1 /\ c \in U
        BY <1>2, <4>1, Zenon
      <4>3. Cardinality(U \ {c}) = Cardinality(U) - 1
        BY <4>2, FS_RemoveElement, Zenon
      <4>4. Cardinality(U \ {c}) = n
        BY <4>2, <4>3
      <4> QED BY <4>1, <4>4, Zenon
    <3> QED BY <1>4, <3>1, <3>2, Zenon
  <2> QED BY <1>1, <2>1, DagInner, Zenon
<1> HIDE DEF T
<1>5. Nat \subseteq T
  BY <1>3, <1>4, Induct, Zenon
<1>6. DagEndsAt(go, have, root, {})
  <2>1. Cardinality(Cids \ {}) \in Nat
    BY <1>2, Zenon
  <2> QED BY <1>5, <2>1, Zenon DEF T
<1>7. DagInv(have, root, {root}, {})
  BY ReachTyped, Zenon DEF DagInv
<1> QED BY <1>1, <1>6, <1>7, Zenon DEF DagEndsAt

-----------------------------------------------------------------------------
(* So the loops and the slices are right. *)

\* The traversals.
LEMMA TraversalsAreRight == TraversalsRight
BY DagCorrect, MissingCorrect, Zenon DEF TraversalsRight

\* A finite set has a subset of every smaller size.
LEMMA SubsetOfSize ==
    ASSUME NEW S, IsFiniteSet(S), NEW n \in Nat, n <= Cardinality(S)
    PROVE  \E T \in SUBSET S : Cardinality(T) = n
<1> DEFINE Sizes == {k \in Nat : k <= Cardinality(S) => \E T \in SUBSET S : Cardinality(T) = k}
<1>1. 0 \in Sizes
  BY FS_EmptySet, Zenon
<1>2. ASSUME NEW k \in Nat, k \in Sizes PROVE k + 1 \in Sizes
  <2> SUFFICES ASSUME k + 1 <= Cardinality(S)
               PROVE  \E T \in SUBSET S : Cardinality(T) = k + 1
    OBVIOUS
  <2>1. Cardinality(S) \in Nat
    BY FS_CardinalityType, Zenon
  <2>2. PICK T \in SUBSET S : Cardinality(T) = k
    BY <1>2, <2>1
  <2>3. PICK x \in S : x \notin T
    <3>1. T # S
      BY <2>1, <2>2
    <3> QED BY <3>1, Zenon
  <2>4. IsFiniteSet(T)
    BY FS_Subset, Zenon
  <2>5. Cardinality(T \cup {x}) = Cardinality(T) + 1
    BY <2>3, <2>4, FS_AddElement, Zenon
  <2> QED BY <2>2, <2>3, <2>5, Zenon
<1> HIDE DEF Sizes
<1>3. Nat \subseteq Sizes
  BY <1>1, <1>2, Induct, Zenon
<1> QED BY <1>3, Zenon DEF Sizes

\* The slices.
LEMMA SlicesDoFit == SlicesFit
<1> SUFFICES ASSUME NEW left \in SUBSET Cids PROVE Slice(left) \subseteq left
  BY Zenon DEF SlicesFit
<1>1. CASE Cardinality(left) <= MAX_ENTRIES
  BY <1>1, Zenon DEF Slice
<1>2. CASE ~(Cardinality(left) <= MAX_ENTRIES)
  <2>1. IsFiniteSet(left)
    BY BlocksAssumption, FS_Subset, Zenon
  <2>2. Cardinality(left) \in Nat
    BY <2>1, FS_CardinalityType, Zenon
  <2>3. MAX_ENTRIES \in Nat /\ MAX_ENTRIES <= Cardinality(left)
    BY <1>2, <2>2, ProviderAssumption
  <2>4. \E T \in SUBSET left : Cardinality(T) = MAX_ENTRIES
    BY <2>1, <2>3, SubsetOfSize, Zenon
  <2>5. Slice(left) = CHOOSE T \in SUBSET left : Cardinality(T) = MAX_ENTRIES
    BY <1>2, Zenon DEF Slice
  <2> QED BY <2>4, <2>5, Zenon
<1> QED BY <1>1, <1>2, Zenon

-----------------------------------------------------------------------------
(* What holds always. *)

\* They hold always.
LEMMA ContentAlwaysTyped == Spec => []ContentTyped
<1>1. OriginInv => OriginTypeOK
  BY Zenon DEF OriginInv
<1>2. OriginTypeOK /\ ContentTyped /\ [Next]_vars => ContentTyped'
  BY ContentTypedStep, TraversalsAreRight, Zenon
<1> QED BY <1>1, <1>2, ContentTypedInit, OriginInvAlways, PTL DEF Spec

\* Whatever fetches, uploads and crashes leave in the store, dag_traversal and
\* missing_blocks agree with what can be reached (store.rs:37, store.rs:171).
THEOREM TraversalsAlwaysAgree == Spec => []TraversalsAgree
<1>1. ContentTyped => TraversalsAgree
  BY AgreeWhatever, TraversalsAreRight, Zenon DEF ContentTyped
<1> QED BY <1>1, ContentAlwaysTyped, PTL

\* The state is well typed, and the queue of the lock of pending_requests
\* holds exactly the requests and the tasks that are after it, whoever is
\* dropped while it waits (api.rs:299-330, 360-387).
THEOREM NodeTyped == Spec => []TypeOK
<1>1. OriginInv /\ LockInv /\ ContentTyped => TypeOK
  BY Zenon DEF OriginInv, OriginTypeOK, LockInv, ContentTyped, InLine, Queueing, Notifying, TypeOK
<1> QED BY <1>1, OriginInvAlways, LockInvAlways, ContentAlwaysTyped, PTL

\* A root whose DAG is not all there is in the store only while a fetch that
\* stores it is under way, after one that failed, or after a CAR file without
\* its DAG: whoever finds a root and trusts it (api.rs:266) errs in no other
\* case, whatever the CAR files of clients and of the origin hold.
THEOREM HolesAlwaysExplained == Spec => []HolesExplained
<1>1. Init => NoPutFetches /\ HolesExplained
  BY Zenon DEF Init, NoPutFetches, HolesExplained
<1>2. OriginInv /\ NoPutFetches /\ HolesExplained /\ [Next]_vars => NoPutFetches' /\ HolesExplained'
  BY HolesStep, NoPutFetchesStep, TraversalsAreRight, Zenon
<1> QED BY <1>1, <1>2, OriginInvAlways, PTL DEF Spec

\* At any moment, and so after any crash, the chunks of every advertisement of
\* the saved chain hold exactly the multihashes of its DAG, and the blocks of
\* the DAG are in the block store (engine.rs:229-249, provider.rs:122-157).
THEOREM ChainIsAlwaysComplete == Spec => []ChainIsComplete
<1>1. Init => JobComplete /\ AdsComplete
  BY DEF Init, ProvInit, JobComplete, AdsComplete
<1>2. OriginInv /\ ContentTyped /\ ChainInv /\ JobComplete /\ AdsComplete /\ [Next]_vars
        => JobComplete' /\ AdsComplete'
  BY JobStep, TraversalsAreRight, SlicesDoFit, Zenon
<1>3. ChainInv /\ AdsComplete => ChainIsComplete
  BY Zenon DEF ChainInv, AdsComplete, ChainIsComplete
<1> QED BY <1>1, <1>2, <1>3, OriginInvAlways, ContentAlwaysTyped, ChainInvAlways, PTL DEF Spec
=============================================================================
