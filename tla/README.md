# A TLA+ development of Ursa

Specifications of the parts of this repository where order, concurrency and
failure decide whether the code is right: the gateway with its content cache;
a node's libp2p service, content interface, block store and index provider;
the consensus engine with the application it drives; the start of a node and
the tracker it registers with. TLC checks them on small instances; TLAPS proves
every safety property and every refinement among them for all instances.

Paths below are relative to `src/crates/`.

## The system

| Part | State | Operations | Hard behaviour | Status |
|---|---|---|---|---|
| Cache, `ursa-gateway/src/cache/tlrfu.rs` | `store`, `freq`, `ttl`, `used_size` | `get`, `insert`, `process_ttl_clean_up`, `purge` | three indexes of one set of entries; error returns half way; clock readings that repeat | `Tlrfu`, proved |
| List, `ursa-gateway/src/cache/lru.rs` | map, head, tail, node links | `insert`, `remove`, `remove_head` | removal at either end and in the middle; capacity | `LinkedLru`, proved |
| Gateway process, `ursa-gateway/src/{main,worker,server,admin}` | command channel, cache lock, signal channels, four workers | handlers, command tasks, purge, tick, shutdown | handlers dropped by a timeout while queueing for or holding the lock; commands that run after the state they were decided on has changed; order of shutdown | `Gateway`, proved |
| Network service, `ursa-network/src/service.rs` | `peers`, `bitswap_queries`, `response_channels`, `pending_responses`, summaries | `handle_command`, `handle_swarm_event` | several queries for one cid; callers that leave; connections of one peer | `NetworkService`, proved |
| Content interface, `ursa-rpc-service/src/api.rs` | `pending_requests` and its lock, the requests | `sync_content`, `get_origin` and its task, `put_car`, `provide_cid` | concurrent requests for one cid; cancellation; a guard held across an await; fetches cut short | `NodeInterface`, proved |
| Block store, `ursa-store` | blocks | `dag_traversal`, `missing_blocks`; the inserts of bitswap, graphsync, origin and puts | DAGs that share blocks, are incomplete, or cannot be read | `BlockStore`, proved |
| Index provider, `ursa-index-provider` | advertisement chain, head in memory and on disk | create, add_chunk, publish, announce | head taken before the next one is stored; answer before publication; failed writes; restart | `IndexProvider`, proved |
| Consensus, `ursa-consensus` | height, certificates, queries | `run`, `handle_cert`, `handle_abci_query`, the HTTP API | blocks that fail half way; clients that leave; an engine that stops | `Consensus`, proved |
| Application, `ursa-application` | current and committed state | init_chain, deliver_tx, end_block, commit, info, query | which state a query sees; state lost at a restart | `Application`, with `Consensus` |
| Node and CLI start, `ursa/src/{main,config}.rs`, `ursa/src/ursa/{mod,identity}.rs` | configuration file, key files | load, migrate, rewrite, generate, save, register | a node and a command that rewrite one file; a process that ends between truncating a file and filling it | `UrsaNode`, proved |
| Tracker, `ursa-tracker` | registrations | register, list | concurrent registrations of one id; an age computed without a sign | `Tracker`, with `UrsaNode` |
| Resolver, `ursa-gateway/src/resolver` | none | `resolve_content` | indexer and nodes that fail at any point; claimed sizes that are wrong | `Resolver`, with `Gateway` |
| Other configuration values, proxy, servers' routing, metrics, telemetry | none that persists | | | not modelled |

How they interact: a gateway handler reads the cache and sends commands to the
main worker, whose tasks write the cache; a node's HTTP handler calls the
content interface, which sends commands to the network service and to the
index provider and waits for their answers; network, origin, clients and peers
that replicate content all write one block store, which the index provider
reads. The consensus engine calls the application one ABCI call at a time. A
node registers with the tracker once, after it has started. `ursa rpc` reads, and
may rewrite, the configuration file of the node it calls.

"Proved" is said of safety; liveness is model-checked only.

## Modules

* `Maps`, `LruQueue`: finite maps and the queue operators shared by the others.
* `Tlrfu`: the cache. A method takes `&mut self`, so one call runs at a time;
  a call with a loop is a begin step and one step per turn (`Evict`,
  `CleanOne`), and each `?` that can be reached is an action that returns its
  error (`GetStale`, `InsertTooBig`, `CleanOrphan`). A body is its length.
  `ClockSteps` says how far `now()` moves between two reads: `{1, 3}` is a clock
  that always advances, `{-1, 0, 1}` one that repeats itself or is set back.
  A clock that reads a time before 1970, where `now()` panics, is left out.
* `ContentCache`: what the gateway may expect of the cache, without indexes.
  `Tlrfu!ImplementsContentCache` is the refinement, with
  `content[k] = store[k].len`.
* `LinkedLru` and `LruQueueSpec`: the linked list with node addresses, and the
  queue it implements. `Tlrfu` uses the queue.
* `Gateway`: composes the process around `ContentCache`, whose actions it takes
  inside the write lock. The lock is tokio's FIFO `RwLock`. A handler on a miss
  keeps its read guard until the resolver has answered; a task whose call
  failed keeps its write guard while it sends the signal: both follow from
  where the guard is dropped in the code.
* `Resolver`: `resolve_content` as a function of the indexer's reply and of what
  happens at each address in it; `Gateway` takes any of its results, with a body
  whose length need not be the size the metadata claims.
* `NetworkService`: one loop that takes one event or command at a time. A
  caller makes one call; its name also stands for its query and its request.
  The swarm is external: `conns`, `running`, `outbound`. It is assumed that a
  peer's request is delivered while a connection with it is open. Events that
  change no state of the service (ping, identify, autonat, gossip, kad, an
  inbound CarRequest) have no action; an inbound CacheRequest and graphsync
  change the block store and are actions of `NodeInterface`. `sync_block`
  always returns Ok, so the branch for its error is left out.
* `BlockStore`: a block is its cid, `Links` what it refers to. `dag_traversal`
  and `missing_blocks` are the two walks of `store.rs`, the first over a set and
  the second over a stack; `DagLoop` and `MissingLoop` are their loops as recursive
  functions. `Reach`, the least set that holds the root and is closed under links,
  is the reference they are compared with.
* `IndexProvider`: extends `BlockStore` with the engine's loop. Objects of the
  provider's store are named by their hash, so an advertisement is the sequence
  of all advertisements up to it, and a chunk the sequence of chunks up to it.
  `publish` is three steps (take the head, store the advertisement, store the
  head), with a failed write or a crash possible between any two.
* `NodeInterface`: extends `IndexProvider`. One process per request (a get, a
  get of the DAG, a put, an upload, or a peer's CacheRequest) and one per
  spawned task, with the queue of the `pending_requests` lock, the fetches
  behind it, and a crash that keeps the two stores only. The code checks of a CAR
  file, of the origin or of a client, that its header names the root and nothing
  else, so `Cars` lets it hold any blocks: a part of the DAG, no root, or blocks of
  other DAGs. Of bitswap and graphsync it is assumed that they succeed with the
  whole DAG only. `cut` is history: the requests whose fetch may have left a part,
  or whose CAR file was not whole. Errors of the block store itself are left out.
* `Application`, `Consensus`: a state's database is the sequence of what was
  executed on it. A certificate is a sequence of batches, any of which may be
  malformed, or missing when the engine reads it. Every `?` and `unwrap` on
  the engine's path is an action that stops it and drops its channels. A client
  of `abci_query` first waits for room in the channel (`SendQuery`), then for its
  answer, and may leave while it does either.
* `Ledger`, `LedgerOutline`: what clients of the consensus API may rely on. `Ledger`
  says what each block holds; `LedgerOutline` says only that the ledger grows one
  height at a time and is never rolled back but by a restart. Whether the genesis
  contracts come with `init_chain` or with the first block `Ledger` leaves open; that
  the code's own comment does not is the run `genesis`.
* `Tracker`: its handlers, with the await of the lookup between arrival and stamp
  and another step between stamp and write. `recent` is the subtraction in u64: a
  build with overflow checks panics where a release build wraps. `acked` is
  history: for each id the latest arrival that was answered OK. A registration
  that arrives while another of the id is stamped and not yet written is not
  recorded there: the one stamped first may be written last, and then the entry is
  older than the arrival. The tracker's clock is assumed not to be set back.
* `UrsaNode`: two processes for each node, `ursa` and `ursa rpc`, over one
  configuration file. A file states some of the identity, the server's domain and
  the deprecated domain of the provider, which may be no Multiaddr, and may
  have text that `toml::to_string` does not write. `loaded` is `from_str` with its
  defaults and the migration; a file that differs from what is written of it is
  truncated and filled, in two steps. A writer may meet the other's text and leave
  the end of it; one that ends leaves nothing, the first sections, or a line cut
  short. The node goes on to its key file, which is written in two steps as well,
  and to the tracker. `operator` and `disturbed` are history: the file the operator
  left, and the nodes of which a process ended while it filled the file or read it
  while the other filled it.
* `MC*`: constants and symmetry for TLC. `*Proofs`: theorems. `Induction`: the
  induction, the recursion and the facts about queues that they share.

An operator commented as a mutant is a wrong version of the definition below
it. It is used in no specification; replacing the definition by it violates the
property that `PROJECT.json` pairs it with.

## Runs

| Run | Result | What it shows | Bounds |
|---|---|---|---|
| `cache_strict` | holds | every stored key has one expiry entry; size bounded; LFU then LRU eviction; exact expiry; refinement of `ContentCache`. The list: links are right both ways; it is a FIFO queue | the cache or the list in each behaviour. Cache: 3 keys, lengths 1, 2, 4 against a size of 3: bodies that fit in threes, alone, or never; clock to 8, counters to 4. List: 4 keys, capacity 0, 3 or none |
| `tlrfu_coarse` | holds | what survives a clock that repeats: `store`/`freq` agreement, size, termination, the contract with expiry errors | 3 keys, clock to 2 with steps -1, 0, 1 |
| `tlrfu_collision` | violated | `ttl` has fewer entries than `store` after two operations at one reading of the clock | 2 keys |
| `gateway` | holds | lock soundness, main worker last, the only cause of self-shutdown | 2 requests, 2 keys, 1 clean-up, 1 purge, bodies that fit and do not, 8 replies of the indexer that take every exit of `resolve_content` |
| `gateway_live` | holds | requests answered, commands carried out, shutdown completes | 1 request with an oversized body, 2 clean-ups that may fail, 1 purge: three failures, the number that fills the signal channel and blocks a task with the lock |
| `network` | holds | no caller forgotten, peers and summaries follow connections, gets answered | 2 callers, 2 cids, 1 peer with up to 2 connections |
| `network_panic` | violated | a cancelled caller makes the service panic | as above |
| `content_node` | holds | one fetch per cid and everyone waiting registered with it; incomplete content only where a fetch is under way or was cut, or a CAR file was not whole; traversals that agree with reachability; a chain of advertisements that is complete, survives crashes and only grows; requests return unless one joins another | a get of a DAG beside a get, a put, an upload or a replication; 5 blocks under 3 roots that share blocks, one of them unreadable; chunks of 2 entries, so that a DAG needs two; 1 crash |
| `node_join` | violated | a joining request never returns | as above, 2 roots |
| `consensus` | holds | whole blocks or none; a ledger that is never rolled back and holds what the certificates say; begun blocks finish; clients are released | 2 blocks per run of the process, certificates of 1 and 2 batches, 3 transactions of which one cannot be decoded, 2 clients at a query channel for 1, any number of restarts |
| `genesis` | violated | after `init_chain` the genesis contracts are not committed | as above |
| `tracker` | holds | a node runs under its saved key, node and commands under the operator's settings; the node comes up unless a file stops it, and is listed for a month after its latest acknowledged registration | 1 node with its commands, no file, a file in the old format or one that does not load; 3 keys; 3 events (ends of processes, commands, ticks of the clock), 2 concurrent handlers, a month of 2 ticks, u64 as 8 |

Two requests are enough for a reader of a DAG to meet every other operation on
one cid, on two DAGs that share blocks, and around a crash, and for two requests
to share a fetch. What a third would add is a longer queue for the lock; the
invariants are proved for any number of requests, any graph of blocks and any
number of crashes.

The bounds on counters (`MaxClock`, `MaxCount`, `MaxConns`, `MaxTicks`,
`MaxPurges`, `MaxCrashes`, `MaxBlocks`, `MaxEvents`, `MaxTime`) stop calls, faults or
ticks from beginning; they never cut a call short. Deadlock
checking is off where the system really stops: after a panic of the network
service, and when all requests of `NodeInterface` are done or stuck.

### Fairness

tokio polls every task that can go on, timers fire, and `RwLock` serves its
waiters in order, so each step of a task, handler or worker is weakly fair.
`Gateway` assumes nothing of clients, of the resolver or of the provider's
stream: the request timeout alone answers a stuck request. `NetworkService`
assumes that bitswap completes every query, if only by a timeout.
`NodeInterface` assumes that the network answers, which is
`NetworkService!GetsAnswered`, and that the origin and the indexer answer or the
HTTP client's timeout ends the call. Nothing is assumed of graphsync.
`Consensus` assumes weak fairness of the engine's task and strong fairness of the
two branches of its `select!`, which polls them in random order; nothing of
Narwhal, of clients or of restarts. `UrsaNode` assumes that a process that was
started goes on and a node that ended is started again; nothing of the tracker, and
nobody need run a command.

## What disagrees with the code's own words

* `tlrfu_collision`: `tlrfu.rs` keys `ttl` by time alone; its tests assert one
  entry per key (`tlrfu.rs:271`). The tests use the nanosecond clock and do not
  meet two equal readings.
* `network_panic`: `service.rs:938` expects `handle_command` never to fail; it
  fails when the caller has gone.
* `node_join`: `api.rs:301` says to wait for the first request and return; the
  wait holds the lock the answer needs. It ends only if the waiting request is
  cancelled.
* `genesis`: `types.rs:167` says "Commit here", and the call below it builds the
  future of `commit` and drops it, so nothing is committed: queries before the
  first block see an empty state, and the first block commits the genesis
  contracts with its own. Awaiting the call there would wait for the lock on the
  current state that `init_chain` holds.

`gateway` also shows that a body larger than `max_size` but not larger than
`cache_control_max_size` makes the gateway shut down; nothing in the repository
says otherwise, so it is stated as what `FailsOnlyForTooBig` allows. `tracker`
allows a node to stay down over a `provider_config.domain` that is no Multiaddr:
`config.rs:49` unwraps it, and the `example.domain` of the repository's `README.md`
(line 79) is one. It also allows a configuration that is read half-written to be
taken for one with fewer settings; `SettingsKept` says that nothing else loses them.

## Proofs

`TlrfuProofs`. `IndexInv` is `TypeOK`, `IndexesAgree`, and that a pending insert is
of an absent key. `IndexesAgree` alone is not inductive: without the last part
the end of an insert could overwrite a stored entry and leave the old one in its
queue. `DetachAgrees` and `AttachAgrees` carry the argument: taking an entry out
of its queue and putting one at the end of a queue keep the indexes agreeing,
because numbers in a queue increase and name their entries. From it:
`TypeCorrect`, `IndexesAlwaysAgree`, `CapacityAlwaysRespected`, for any clock.
`StrictInv` adds the agreement of `ttl`, that every expiry is at most `ttl_buf`
after the last clock reading, and that queues are ordered by expiry; it is
inductive under `ClockAdvances`, the assumption `tlrfu_collision` shows to be
needed, and gives `TtlIndexAlwaysAgrees`, `EvictionOrder` and `ExpiryIsExact`.

`CacheProofs`. `SizeInv` adds to `IndexInv` that the store is finite and that
`used_size` is the sum of the lengths stored (`UsedSizeExact`). The sum is a
recursion that takes some element of the set first; `SumsAny` shows by induction on
the size of the set that any element may be taken first, so that storing a body
adds its length and dropping one takes it away. Every subtraction of the eviction
and expiry loops is then one of a body that is counted: none wraps, whatever the
clock. Every turn of the two loops that does not end its call takes exactly one
entry out of the finite store (`EveryTurnTakesOne`), so that a call has no more turns
than there were entries; that it takes them is `CallsReturn`, left to TLC with its
fairness. `ContractInv` is `SizeInv`, and `StrictInv` if the clock advances; under it
each action of the cache is a step of `ContentCache` or a stutter
(`CacheKeepsContract`), and `Gateway` may be reasoned about without the indexes. The
part about the clock is needed where a clean-up must not fail.

`GatewayProofs`. `GatewayInv` joins four invariants to the types, none of
them inductive alone. `OrderInv`: a server that is not up handles nothing and the
command channel closes last. `ProgressInv`: a command is sent once and is in the
channel only before its task exists; without it a request could start a task that
already holds the lock. `LockInv`: nobody is in two places of the lock, and everybody
in its queue is at the point of its work where it uses the lock; this is what a
timeout, which removes a handler from wherever it is, must keep. `CallInv`: the body
of an insert is that of some request, and an error has a cause. There is one lemma
for each action. They give `MainAlwaysStopsLast`, `LockAlwaysHeldByTheLiving` and
`AlwaysFailsOnlyForTooBig`.

`NodeInterfaceProofs`. `OriginInv` is the types of the tables, `OneFetchPerCid`,
`WaitersHaveFetch`, and `FetchesListed`: a fetch keeps the entry of its cid until it
notifies. Without the last a new request could find no entry and begin a second
fetch. `QuietKeepsOrigin` covers the actions that neither begin nor end a fetch.
`LockInv`: the queue of the lock of `pending_requests` holds exactly the requests and
tasks that are after it, each once, whoever is dropped while it waits.
`ChainInv` carries the chain: from the moment `publish` takes the head until it
saves the next one the job remembers the saved head (`JobFollowsHead`), its chunks
are stored, and what is announced is part of what is saved. It gives
`HeadIsAlwaysSaved`, `ChainIsAlwaysStored` and `ChainAlwaysOnlyGrows`, through crashes and
failed writes, for any DAGs and any size of chunk.

`ContentProofs`. First the two traversals, for any finite graph without cycles and
any part of it in the store. `dag_traversal` is proved by induction on the number
of blocks not yet read: what it has read is part of the DAG, and what those blocks
refer to is read or waiting (`DagInv`). For `missing_blocks`, which may visit a block
many times and has no such measure, each cid is shown to be understood: read from
the top of any stack, it adds a sequence of missing blocks that depends on the cid
alone. A cid that is not understood refers only to ones that are, if it is chosen
as `HashAssumption` allows, and is then understood too (`ReadEvery`). They give
`TraversalsAlwaysAgree`. `HolesAlwaysExplained` then follows action by action: a fetch
that ends without having been cut has brought all that `missing_blocks` names, and
no other step stores a root without its DAG but the reading of a CAR file that is
not whole, which `cut` records. `ChainIsAlwaysComplete` adds to
`ChainInv` that the entries of an advertisement being made are those of a complete
DAG, some in chunks and the others left (`JobComplete`), and that nothing deletes a
block.

`NodeProofs`, the libp2p service. `PeersAlwaysFollowConnections` is inductive with the
types. `WaiterInv` adds to `WaitersHaveQuery` the types, that `bitswap_queries` and
`running` have the same domain, and that a query is for the cid its caller asked
for. The equal domains are what makes it inductive: a query that bitswap completes
is then one the service knows, so its completion removes the channels of its cid
together with it, and no other cid loses its query. It gives `NoCallerForgotten` and
`QueriesAlwaysMatch`.

`NodeProofs`, start and tracker. `NodeInv` adds to `RunsUnderSavedKey` that keys are
generated once, belong to one node, and reach the tracker only after they were saved
(`OwnKeys`); without the first two, one node's late registration could name a key
another one is saving. `Stamps` says of each id that its entry is stamped no earlier
than its latest acknowledged registration arrived. For that to survive writes in any
order, a stamp not yet written must be no earlier either, nor earlier than any
registration in progress that will be recorded; this holds since those arrived when
no stamp was waiting, and a stamp is read after. It gives `RegisteredAlwaysListed`.
`TrackerAssumption` bounds the clock below 2^64 less a month, so that only a stamp after
the listing's clock wraps. `SettingsInv`, of nodes that are not disturbed: every
process that runs has what the operator asked for, and the file is the operator's or
made of those settings, or, while some process fills it, possibly empty.
`LoadedIsAsked` shows that either file is read as what was asked for, so that a
process that loads while nobody fills the file is right, and one that fills it finds
nothing longer than its own text. It gives `SettingsAlwaysKept`, for any files of the
operators.

`OrderProofs`, consensus. `ConsInv` is the types, where heights and states stand at each
point of the loop (`Phases`), `BetweenBlocks`, and that what is committed is a prefix
of what is executed. The prefix is what makes a commit an extension. From it,
`BetweenBlocksAlways`, and `NeverRollsBack`: the refinement of `LedgerOutline`.
`BlockInv` is about the middle of a block: if what is left of it can be delivered,
then the database, followed by what delivering the rest will add, is the base (what
is committed, with the genesis contracts under a first block) followed by a whole
certificate. Delivering a transaction or going to the next batch moves one element
from the right of that equation to the left; a batch that is missing or malformed
makes its premise false and stops the engine. At the end nothing is left, so a
commit adds one certificate (`LedgerHoldsCertificates`). `FlatMapProps` shows that the
flattening `Ledger` uses follows its recursion.

`OrderProofs`, the list. `ListInv` says that there is some sequence of nodes that
`head`, `tail`, the links in both directions and the map all follow. `LinkedIsList` and
`UnlinkedIsList` show that insert appends to that sequence and that remove drops one
place of it, at either end or in the middle. The walks from head and from tail are
recursions; by induction along the list they visit that sequence and its reverse
(`ListAlwaysMatchesStore`), so the order of the walk is the abstract queue and each
operation does to it what the queue's does (`ListIsAQueue`).

`Induction`. The prover cannot instantiate an induction rule that takes a predicate.
Here a property is the set of numbers that have it and a recursive step is a
function, so `Induct` and `Recursion` speak of sets only and can be cited; they rest
on the least element of a set of natural numbers. Where a module needs induction
for a few facts only, those facts are named as predicates (`TraversalsRight`,
`WalksGoRight`, `FlatMapsFold`, `OthersStay`), the lemmas about the steps assume them,
and the inductions that establish them stand at the end, before the theorems.

Only model-checked, since the prover has neither fairness nor ENABLED: the liveness
properties `CallsReturn`, `RequestsAnswered`, `CommandsCarriedOut`,
`ShutdownCompletes`, `GetsAnswered`, `ReturnsUnlessJoined`, `ClientsReleased`,
`BlocksFinish` and `NodesComeUp`.

The assumptions are on constants only. Sizes and times are natural numbers, clock
steps integers, bootstrap peers are peers; requests, tasks and the purge have
different names, and markers such as `Genesis` or `Torn` are not values of the sets
they stand beside. There are finitely many cids, and no block refers to itself
through any chain of blocks (`HashAssumption`), because a cid is the hash of its
block. The capacity of the list and its values are arbitrary, and so are the
replies of the indexer.

## Not modelled

* Content summaries, beyond the set of cids in them: the false positives of the
  cuckoo filter only make a get ask a peer in vain, which a failing query covers.
  Summaries of one peer that arrive out of order are not told apart; nothing
  says how fresh they must be.
* libp2p, RocksDB, Narwhal, revm and ipinfo.io: external, with the outcomes the
  code distinguishes.
* Reference counts of the list's nodes and advertisements left in `temp_ads`:
  questions of memory, on which no other state depends.
* Signatures, addresses and the wording of advertisements and answers.
* The other configuration values and options, routing, the proxy, metrics and
  telemetry: read once, stateless, or never read back.
* The identity named "random", which is never saved, and the stores and tasks that
  `main` sets up between the key and the tracker (`main.rs:86-170`): a failure there is
  `Stop`, and what the order of the tasks can lead to, an engine that starts before
  the application listens, is in `Consensus`.
