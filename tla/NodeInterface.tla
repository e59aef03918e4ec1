---------------------------- MODULE NodeInterface ---------------------------
(***************************************************************************)
(* The node's content interface, NodeNetworkInterface (api.rs), with the   *)
(* block store and the index provider it works on.  A get goes through     *)
(* sync_content: content that is not in the store is asked of the network; *)
(* when the network has it not, of the origin, once for all concurrent     *)
(* requests; then it is provided.  A put stores a CAR file and provides    *)
(* its root.  A peer that has put content asks this node to replicate it:  *)
(* graphsync then fetches it into the same store, and nothing waits for it *)
(* or provides it.                                                         *)
(*                                                                         *)
(* A CAR file, of the origin or of a client, names the root in its header  *)
(* and nothing checks what blocks follow: they may be a part of the DAG,   *)
(* be without the root, and belong to other DAGs.  Bitswap and graphsync   *)
(* succeed with the whole DAG.                                             *)
(*                                                                         *)
(* pending_requests is behind a lock.  get_origin looks its entry up in    *)
(* the scrutinee of a match, so the guard lives until the match ends: a    *)
(* request that finds the entry occupied waits for its answer with the     *)
(* lock held, one that inserts it releases the lock with the match.        *)
(***************************************************************************)
EXTENDS IndexProvider

CONSTANTS
    Roots,      \* the root cids that are asked for
    Ops,        \* request -> what it may be
    Tasks,      \* the task that a request spawns, for each request
    TaskOf,     \* request -> its task, one to one
    Cars,       \* root cid -> what the blocks of a CAR file of it may be
    UrlParses,  \* the configured gateway address makes a valid URL
    MaxCrashes

\* get; get_data, and so stream and get_file; put_car in the handler of
\* put_file, and in the task that upload_handler spawns; a peer's CacheRequest.
OpKinds == {"get", "get_data", "put_file", "upload", "replicate"}

ASSUME InterfaceAssumption ==
    /\ Roots \subseteq Cids /\ None \notin Cids
    /\ Ops \in [Reqs -> SUBSET OpKinds]
    /\ TaskOf \in [Reqs -> Tasks] /\ Reqs \cap Tasks = {}
    /\ \A r, s \in Reqs : TaskOf[r] = TaskOf[s] => r = s
    /\ Cars \in [Roots -> SUBSET SUBSET Cids]
    /\ UrlParses \in BOOLEAN
    /\ MaxCrashes \in Nat

VARIABLES
    cid,        \* request -> the root cid it asks for; never changes
    op,         \* request -> what it does; never changes
    car,        \* request -> the blocks of the CAR file that it puts, or that the
                \* origin would send for it; never changes
    pc,         \* request -> where it is
    pending,    \* pending_requests: cid -> the requests with a channel there
    lockq,      \* its lock: the first holds it, the others wait in order
    task,       \* request -> the fetch made for it, by whatever means
    cut,        \* history: requests for which a part may have been stored
    crashes     \* how often the process was started again

reqVars == <<cid, op, car>>
vars == <<cid, op, car, pc, blocks, pending, lockq, task, cut, crashes, provVars>>

PcStates == {"idle", "network", "lock", "join", "origin", "provide", "provider",
             "ok", "err", "gone"}

TaskStates == {"none", "bitswap", "graphsync", "fetch", "notify_ok", "notify_err", "done"}

\* The types, and that the lock's queue holds exactly those who are after it:
\* a handler that is dropped leaves it.
TypeOK ==
    /\ cid \in [Reqs -> Roots]
    /\ op \in [Reqs -> OpKinds]
    /\ car \in [Reqs -> SUBSET Cids]
    /\ pc \in [Reqs -> PcStates]
    /\ blocks \subseteq Cids
    /\ IsMap(pending, Roots, SUBSET Reqs)
    /\ lockq \in Seq(Reqs \cup Tasks)
    /\ Range(lockq) = {r \in Reqs : pc[r] \in {"lock", "join"}} \cup
                      {TaskOf[r] : r \in {s \in Reqs : task[s] \in {"notify_ok", "notify_err"}}}
    /\ task \in [Reqs -> TaskStates]
    /\ cut \subseteq Reqs
    /\ crashes \in 0..MaxCrashes
    /\ commands \in Seq([req : Reqs, cid : Roots])
    /\ engine \in EngineStates

Init ==
    /\ cid \in [Reqs -> Roots]
    /\ op \in {f \in [Reqs -> OpKinds] : \A r \in Reqs : f[r] \in Ops[r]}
    /\ car \in {f \in [Reqs -> SUBSET Cids] :
                  \A r \in Reqs : IF op[r] = "replicate" THEN f[r] = {} ELSE f[r] \in Cars[cid[r]]}
    /\ pc = [r \in Reqs |-> "idle"]
    /\ blocks = {}
    /\ pending = EmptyMap
    /\ lockq = <<>>
    /\ task = [r \in Reqs |-> "none"]
    /\ cut = {}
    /\ crashes = 0
    /\ ProvInit

Goto(r, l) == pc' = [pc EXCEPT ![r] = l]

Holds(x) == lockq # <<>> /\ Head(lockq) = x

\* Where a request goes once its content is synced, or put: get reads the
\* root block, which may not have come, get_data the DAG.
Answer(r, have) ==
    IF \/ op[r] = "get" /\ cid[r] \notin have
       \/ op[r] = "get_data" /\ dag_traversal(have, cid[r]) = Failed
      THEN "err" ELSE "ok"

\* The blocks of the CAR file are the DAG of the root, or several DAGs.
CarIsWhole(r) == cid[r] \in car[r] /\ \A c \in car[r] : Reach(c) \subseteq car[r]

-----------------------------------------------------------------------------
SyncContent(r) ==
    /\ pc[r] = "idle"
    /\ op[r] \in {"get", "get_data"}
    /\ IF cid[r] \in blocks
         THEN Goto(r, Answer(r, blocks)) /\ UNCHANGED task
         ELSE Goto(r, "network") /\ task' = [task EXCEPT ![r] = "bitswap"]
    /\ UNCHANGED <<reqVars, blocks, pending, lockq, cut, crashes, provVars>>

\* Bitswap stores a block it has been missing.
BitswapInsert(r) ==
    /\ task[r] = "bitswap"
    /\ \E c \in Range(missing_blocks(blocks, cid[r]).missing) : blocks' = blocks \cup {c}
    /\ UNCHANGED <<reqVars, pc, pending, lockq, task, cut, crashes, provVars>>

\* Bitswap misses nothing more: get_network succeeds if its caller is still
\* there, and car_size reads the DAG.
NetworkOk(r) ==
    /\ task[r] = "bitswap"
    /\ missing_blocks(blocks, cid[r]) = [ok |-> TRUE, missing |-> <<>>]
    /\ task' = [task EXCEPT ![r] = "none"]
    /\ pc' = [pc EXCEPT ![r] = IF @ # "network" THEN @
                               ELSE IF dag_traversal(blocks, cid[r]) = Failed THEN "err"
                               ELSE "provide"]
    /\ UNCHANGED <<reqVars, blocks, pending, lockq, cut, crashes, provVars>>

\* The fetch from the network fails, at any block of it.
NetworkErr(r) ==
    /\ task[r] = "bitswap"
    /\ task' = [task EXCEPT ![r] = "none"]
    /\ cut' = cut \cup {r}
    /\ IF pc[r] = "network"
         THEN Goto(r, "lock") /\ lockq' = Append(lockq, r)
         ELSE UNCHANGED <<pc, lockq>>
    /\ UNCHANGED <<reqVars, blocks, pending, crashes, provVars>>

\* Entry::Occupied: the guard is still there when the request waits.
OriginOccupied(r) ==
    /\ pc[r] = "lock" /\ Holds(r)
    /\ cid[r] \in DOMAIN pending
    /\ pending' = Put(pending, cid[r], pending[cid[r]] \cup {r})
    /\ Goto(r, "join")
    /\ UNCHANGED <<reqVars, blocks, lockq, task, cut, crashes, provVars>>

\* Mutant: the first request makes no entry for the others to find.
OriginVacantUnlisted(r) ==
    /\ pc[r] = "lock" /\ Holds(r)
    /\ cid[r] \notin DOMAIN pending
    /\ lockq' = Tail(lockq)
    /\ Goto(r, "origin")
    /\ task' = [task EXCEPT ![r] = "fetch"]
    /\ UNCHANGED <<reqVars, blocks, pending, cut, crashes, provVars>>

\* Entry::Vacant: the entry is made and the lock released; if the URL then
\* does not parse the request fails and the entry stays.
OriginVacant(r) ==
    /\ pc[r] = "lock" /\ Holds(r)
    /\ cid[r] \notin DOMAIN pending
    /\ pending' = Put(pending, cid[r], {r})
    /\ lockq' = Tail(lockq)
    /\ IF UrlParses
         THEN Goto(r, "origin") /\ task' = [task EXCEPT ![r] = "fetch"]
         ELSE Goto(r, "err") /\ UNCHANGED task
    /\ UNCHANGED <<reqVars, blocks, cut, crashes, provVars>>

\* The spawned task stores some of the blocks of the CAR file it was sent.
ReadInto(r) ==
    /\ task[r] = "fetch"
    /\ \E P \in SUBSET car[r] : blocks' = blocks \cup P
    /\ UNCHANGED <<reqVars, pc, pending, lockq, task, cut, crashes, provVars>>

\* It has stored all of them, which may not be the DAG, or has failed: the
\* origin did not answer, or not with a CAR file of the root, or the store
\* failed.  It goes for the lock.
TaskFetched(r) ==
    /\ task[r] = "fetch"
    /\ \/ /\ task' = [task EXCEPT ![r] = "notify_ok"]
          /\ blocks' = blocks \cup car[r]
          /\ cut' = IF CarIsWhole(r) THEN cut \ {r} ELSE cut \cup {r}
       \/ /\ task' = [task EXCEPT ![r] = "notify_err"]
          /\ cut' = cut \cup {r}
          /\ UNCHANGED blocks
    /\ lockq' = Append(lockq, TaskOf[r])
    /\ UNCHANGED <<reqVars, pc, pending, crashes, provVars>>

\* Mutant: the entry is read, not removed.
TaskNotifiesKeepsEntry(r) ==
    /\ task[r] \in {"notify_ok", "notify_err"} /\ Holds(TaskOf[r])
    /\ pc' = [s \in Reqs |-> IF s \in GetOr(pending, cid[r], {}) /\ pc[s] = "origin"
                              THEN "provide" ELSE pc[s]]
    /\ lockq' = Tail(lockq)
    /\ task' = [task EXCEPT ![r] = "done"]
    /\ UNCHANGED <<reqVars, blocks, pending, cut, crashes, provVars>>

\* Mutant: a failure is logged and nobody told.
TaskNotifiesOnlyOk(r) ==
    /\ task[r] \in {"notify_ok", "notify_err"} /\ Holds(TaskOf[r])
    /\ pc' = [s \in Reqs |-> IF s \in GetOr(pending, cid[r], {}) /\ pc[s] = "origin"
                                /\ task[r] = "notify_ok"
                              THEN "provide" ELSE pc[s]]
    /\ lockq' = Tail(lockq)
    /\ pending' = Del(pending, cid[r])
    /\ task' = [task EXCEPT ![r] = "done"]
    /\ UNCHANGED <<reqVars, blocks, cut, crashes, provVars>>

\* The entry goes and everyone in it who is still there is told.
TaskNotifies(r) ==
    /\ task[r] \in {"notify_ok", "notify_err"} /\ Holds(TaskOf[r])
    /\ LET told == {s \in GetOr(pending, cid[r], {}) : pc[s] \in {"origin", "join"}}
       IN  pc' = [s \in Reqs |-> IF s \notin told THEN pc[s]
                                 ELSE IF task[r] = "notify_ok" THEN "provide" ELSE "err"]
    /\ lockq' = Tail(lockq)
    /\ pending' = Del(pending, cid[r])
    /\ task' = [task EXCEPT ![r] = "done"]
    /\ UNCHANGED <<reqVars, blocks, cut, crashes, provVars>>

\* put_car: load_car stores the blocks of the file, whatever they are, or
\* fails after some of them.
PutCar(r) ==
    /\ pc[r] = "idle"
    /\ op[r] \in {"put_file", "upload"}
    /\ \/ /\ Goto(r, "provide")
          /\ blocks' = blocks \cup car[r]
          /\ cut' = IF CarIsWhole(r) THEN cut ELSE cut \cup {r}
       \/ /\ Goto(r, "err")
          /\ \E P \in SUBSET car[r] : blocks' = blocks \cup P
          /\ cut' = cut \cup {r}
    /\ UNCHANGED <<reqVars, pending, lockq, task, crashes, provVars>>

\* handle_req_res of a CacheRequest: graphsync is asked to fetch the DAG from
\* the peer, which is answered at once.
CacheRequest(r) ==
    /\ pc[r] = "idle"
    /\ op[r] = "replicate"
    /\ Goto(r, "ok")
    /\ task' = [task EXCEPT ![r] = "graphsync"]
    /\ UNCHANGED <<reqVars, blocks, pending, lockq, cut, crashes, provVars>>

\* Graphsync stores some of the blocks the peer has sent.
GraphsyncInsert(r) ==
    /\ task[r] = "graphsync"
    /\ \E P \in Parts(cid[r]) : blocks' = blocks \cup P
    /\ UNCHANGED <<reqVars, pc, pending, lockq, task, cut, crashes, provVars>>

\* It has stored all of them, or has given up: handle_graphsync only logs it.
handle_graphsync(r) ==
    /\ task[r] = "graphsync"
    /\ task' = [task EXCEPT ![r] = "done"]
    /\ \/ blocks' = blocks \cup Reach(cid[r]) /\ UNCHANGED cut
       \/ cut' = cut \cup {r} /\ UNCHANGED blocks
    /\ UNCHANGED <<reqVars, pc, pending, lockq, crashes, provVars>>

\* provide_cid: the network has answered its Put, which is always Ok, or is
\* gone; the provider is sent one, unless its engine has ended.
ProvideCid(r) ==
    /\ pc[r] = "provide"
    /\ IF engine = "dead"
         THEN Goto(r, Answer(r, blocks)) /\ UNCHANGED commands
         ELSE Goto(r, "provider") /\ commands' = Append(commands, [req |-> r, cid |-> cid[r]])
    /\ UNCHANGED <<reqVars, blocks, pending, lockq, task, cut, crashes,
                   engine, job, head, diskVars, announced>>

\* The engine receives a Put and answers Ok to its caller, if it is there.
EngineReceives ==
    /\ ReceivePut
    /\ LET r == Head(commands).req IN
       pc' = [pc EXCEPT ![r] = IF @ = "provider" THEN Answer(r, blocks) ELSE @]
    /\ UNCHANGED <<reqVars, blocks, pending, lockq, task, cut, crashes>>

\* The other steps of the engine.  When it ends, the Puts in its channel go
\* with it and their callers, whose receivers fail, return Ok all the same.
EngineStep ==
    /\ EngineAlone
    /\ pc' = IF engine' = "dead"
               THEN [r \in Reqs |-> IF pc[r] = "provider" THEN Answer(r, blocks) ELSE pc[r]]
               ELSE pc
    /\ UNCHANGED <<reqVars, blocks, pending, lockq, task, cut, crashes>>

Waiting(r) == pc[r] \in {"network", "lock", "join", "origin", "provide", "provider"}

\* Mutant: the place in the queue is not given up.
CancelKeepsPlace(r) ==
    /\ Waiting(r)
    /\ Goto(r, "gone")
    /\ UNCHANGED <<reqVars, blocks, pending, lockq, task, cut, crashes, provVars>>

\* The client leaves and its handler is dropped, with its guard and its place
\* in the queue; its channel stays in the entry, a Put it has sent in the
\* engine's channel, and what was started for it goes on.  An upload is a
\* task of its own.
Cancel(r) ==
    /\ Waiting(r)
    /\ op[r] # "upload"
    /\ Goto(r, "gone")
    /\ lockq' = Leave(lockq, {r})
    /\ UNCHANGED <<reqVars, blocks, pending, task, cut, crashes, provVars>>

Fetching(r) == task[r] \in {"fetch", "notify_ok", "notify_err"}

\* The process ends, with everything but the two stores, and is started
\* again.
Crash ==
    /\ crashes < MaxCrashes
    /\ crashes' = crashes + 1
    /\ pc' = [r \in Reqs |-> IF Waiting(r) THEN "gone" ELSE pc[r]]
    /\ pending' = EmptyMap
    /\ lockq' = <<>>
    /\ cut' = cut \cup {r \in Reqs : task[r] \in {"bitswap", "graphsync", "fetch"}}
    /\ task' = [r \in Reqs |-> "none"]
    /\ Provider_new
    /\ UNCHANGED <<reqVars, blocks>>

-----------------------------------------------------------------------------
Advance(r) ==
    \/ NetworkOk(r) \/ NetworkErr(r) \/ OriginOccupied(r) \/ OriginVacant(r)
    \/ TaskFetched(r) \/ TaskNotifies(r) \/ ProvideCid(r)

Next ==
    \/ \E r \in Reqs : \/ SyncContent(r) \/ PutCar(r) \/ Advance(r)
                       \/ BitswapInsert(r) \/ ReadInto(r) \/ Cancel(r)
                       \/ CacheRequest(r) \/ GraphsyncInsert(r) \/ handle_graphsync(r)
    \/ EngineReceives \/ EngineStep \/ Crash

Spec == Init /\ [][Next]_vars

\* The network answers every get (NetworkService!GetsAnswered), the origin and
\* the indexer answer or the client's timeout ends the call, and tokio polls
\* what is ready.  No client has to leave, and nothing has to crash.
FairSpec ==
    /\ Spec
    /\ \A r \in Reqs : WF_vars(Advance(r))
    /\ WF_vars(EngineReceives) /\ WF_vars(EngineStep)

-----------------------------------------------------------------------------
(* Properties.                                                             *)

\* Concurrent requests for one cid share one fetch from the origin, whichever
\* of them leave and whenever new ones come.
OneFetchPerCid ==
    \A r, s \in Reqs : Fetching(r) /\ Fetching(s) /\ cid[r] = cid[s] => r = s

\* Whoever waits for the origin has a channel in the entry of its cid, and
\* while there is an entry a fetch is under way that will empty it.
WaitersHaveFetch ==
    /\ \A r \in Reqs : pc[r] \in {"origin", "join"} =>
         cid[r] \in DOMAIN pending /\ r \in pending[cid[r]]
    /\ UrlParses => \A d \in DOMAIN pending : \E r \in Reqs : Fetching(r) /\ cid[r] = d

\* All that may be sent for a request, or by it.
Sent(r) == car[r] \cup IF op[r] \in {"put_file", "upload"} THEN {} ELSE Reach(cid[r])

\* The blocks of which a request may have stored a part: of its DAG while
\* bitswap or graphsync fetches it, of all that was sent while the CAR file
\* is read and once it is cut.
Accounts(r) ==
    {c \in Reach(cid[r]) : task[r] \in {"bitswap", "graphsync"}} \cup
    {c \in Sent(r) : task[r] = "fetch" \/ r \in cut}

\* The root of content whose blocks are not all there (api.rs:266 looks for
\* the root only) is in the store only while a fetch that stores it is under
\* way, for a client or for a peer's CacheRequest, or after one was cut short
\* by a failure or a crash, or after a CAR file that did not hold its DAG.
\* So a fetch from the network that succeeds, and a CAR file that holds the
\* DAG, leave no hole, whatever was there before and whatever goes on beside.
HolesExplained ==
    \A root \in blocks : ~Complete(root) => \E r \in Reqs : root \in Accounts(r)

\* A request returns, provided no request ever finds another one's entry.
ReturnsUnlessJoined ==
    [](\A r \in Reqs : pc[r] # "join") => \A r \in Reqs : Waiting(r) ~> ~Waiting(r)

\* "there is a concurrent request for this cid, just wait for the first one
\* and return": what the comment at api.rs:301 says of a request that finds
\* the entry occupied.
JoinReturns == \A r \in Reqs : pc[r] = "join" ~> pc[r] # "join"
=============================================================================
