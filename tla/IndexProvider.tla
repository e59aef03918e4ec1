--------------------------- MODULE IndexProvider ----------------------------
(***************************************************************************)
(* The index provider: ProviderEngine's loop (engine.rs) and the chain of   *)
(* advertisements it keeps in a store of its own (provider.rs).  Objects in *)
(* that store are named by the hash of their contents, so an advertisement  *)
(* is the sequence of what it and those before it advertise, and a chunk of *)
(* entries the sequence of the entries in it and in the chunks it links to. *)
(* Signatures and addresses are left out.                                   *)
(***************************************************************************)
EXTENDS BlockStore

CONSTANTS
    Reqs,        \* callers of provide_cid
    None,        \* no cid
    MAX_ENTRIES  \* multihashes in a chunk

ASSUME ProviderAssumption == MAX_ENTRIES \in Nat \ {0}

VARIABLES
    commands,   \* Puts the engine has not received: callers and root cids
    engine,     \* what the engine is doing
    job,        \* the advertisement it makes: root, chunk, previous one
    head,       \* the head of the chain in memory; <<>> is none
    saved,      \* the head under HEAD_KEY
    ads,        \* advertisements in the provider's store
    chunks,     \* chunks in the provider's store
    announced   \* the head that was announced last; <<>> is none

memVars == <<commands, engine, job, head>>
diskVars == <<saved, ads, chunks>>
provVars == <<memVars, diskVars, announced>>

EngineStates == {"idle", "addresses", "chunks", "put", "save", "gossip", "http", "dead"}

NoJob == [root |-> None, Entries |-> <<>>, left |-> {}, prev |-> <<>>]

ProvInit ==
    /\ commands = <<>>
    /\ engine = "idle"
    /\ job = NoJob
    /\ head = <<>>
    /\ saved = <<>>
    /\ ads = {}
    /\ chunks = {}
    /\ announced = <<>>

Idle == engine' = "idle" /\ job' = NoJob
-----------------------------------------------------------------------------
\* A Put is received; its caller is answered (see NodeInterface) before
\* anything is published.  publish_local asks the network for addresses.
ReceivePut ==
    /\ engine = "idle"
    /\ commands # <<>>
    /\ commands' = Tail(commands)
    /\ engine' = "addresses"
    /\ job' = [NoJob EXCEPT !.root = Head(commands).cid]
    /\ UNCHANGED <<head, diskVars, announced>>

\* The network service is gone: the error is logged.
NoAddresses ==
    /\ engine = "addresses"
    /\ Idle
    /\ UNCHANGED <<commands, head, diskVars, announced>>

\* The advertisement is created and the DAG of its root read.  A DAG that is
\* not complete is an error, which is logged; the advertisement stays in
\* temp_ads, where nothing looks for it again.
create ==
    /\ engine = "addresses"
    /\ LET dag == dag_traversal(blocks, job.root) IN
       IF dag = Failed THEN Idle
       ELSE engine' = "chunks" /\ job' = [job EXCEPT !.left = dag]
    /\ UNCHANGED <<commands, head, diskVars, announced>>

\* The next slice of at most MAX_ENTRIES of the entries that are left.
Slice(left) ==
    IF Cardinality(left) <= MAX_ENTRIES THEN left
    ELSE CHOOSE T \in SUBSET left : Cardinality(T) = MAX_ENTRIES

\* Mutant: only the first slice is linked from the advertisement.
add_chunk_once ==
    /\ engine = "chunks"
    /\ job.left # {}
    /\ chunks' = chunks \cup {<<Slice(job.left)>>}
    /\ job' = [job EXCEPT !.Entries = <<Slice(job.left)>>, !.left = @ \ Slice(job.left)]
    /\ UNCHANGED <<commands, engine, head, saved, ads, announced>>

add_chunk ==
    /\ engine = "chunks"
    /\ job.left # {}
    /\ LET chunk == Append(job.Entries, Slice(job.left)) IN
       /\ chunks' = chunks \cup {chunk}
       /\ job' = [job EXCEPT !.Entries = chunk, !.left = @ \ Slice(job.left)]
    /\ UNCHANGED <<commands, engine, head, saved, ads, announced>>

NewAd == Append(job.prev, [root |-> job.root, Entries |-> job.Entries])

\* Mutant: the previous advertisement is read after the head was taken.
publish_take_late ==
    /\ engine = "chunks"
    /\ job.left = {}
    /\ head' = <<>>
    /\ engine' = "put"
    /\ job' = [job EXCEPT !.prev = head']
    /\ UNCHANGED <<commands, diskVars, announced>>

\* publish: under the write lock of head, the head is taken ...
publish_take ==
    /\ engine = "chunks"
    /\ job.left = {}
    /\ head' = <<>>
    /\ engine' = "put"
    /\ job' = [job EXCEPT !.prev = head]
    /\ UNCHANGED <<commands, diskVars, announced>>

\* ... the advertisement that links to it is put in the store ...
publish_put ==
    /\ engine = "put"
    /\ ads' = ads \cup {NewAd}
    /\ engine' = "save"
    /\ UNCHANGED <<commands, job, head, saved, chunks, announced>>

\* Mutant: the head that was taken is not put back.
publish_save_disk_only ==
    /\ engine = "save"
    /\ saved' = NewAd
    /\ engine' = "gossip"
    /\ UNCHANGED <<commands, job, head, ads, chunks, announced>>

\* ... and becomes the head, on disk and in memory.
publish_save ==
    /\ engine = "save"
    /\ saved' = NewAd
    /\ head' = NewAd
    /\ engine' = "gossip"
    /\ UNCHANGED <<commands, job, ads, chunks, announced>>

\* The store fails a write: the expect around add_chunk and publish ends the
\* engine's task.  The commands in its channel are dropped.
StoreFails ==
    /\ engine \in {"chunks", "put", "save"}
    /\ engine' = "dead"
    /\ commands' = <<>>
    /\ job' = NoJob
    /\ UNCHANGED <<head, diskVars, announced>>

\* The head in memory is announced by gossip; when that fails, by HTTP.
gossip_announce ==
    /\ engine = "gossip"
    /\ \/ Idle /\ announced' = head
       \/ engine' = "http" /\ UNCHANGED <<job, announced>>
    /\ UNCHANGED <<commands, head, diskVars>>

\* A failure of this is logged.
http_announce ==
    /\ engine = "http"
    /\ Idle
    /\ announced' \in {announced, head}
    /\ UNCHANGED <<commands, head, diskVars>>

\* The process ends and is started again: Provider::new reads HEAD_KEY.
Provider_new ==
    /\ commands' = <<>>
    /\ Idle
    /\ head' = saved
    /\ UNCHANGED <<diskVars, announced>>

\* The steps of the engine that nobody else takes part in.
EngineAlone ==
    \/ NoAddresses \/ create \/ add_chunk
    \/ publish_take \/ publish_put \/ publish_save \/ StoreFails
    \/ gossip_announce \/ http_announce
-----------------------------------------------------------------------------
(* Properties *)

\* The head in memory is the one on disk, so that /head (engine.rs:32) serves
\* what a restart would serve; or there is none, while publish has taken it,
\* and for good once a write of publish has failed and ended the engine.
HeadIsSaved == head = saved \/ (head = <<>> /\ engine \in {"put", "save", "dead"})

\* Every advertisement of the chain and every chunk of it is in the store.
ChainIsStored ==
    \A i \in 1..Len(saved) :
        /\ SubSeq(saved, 1, i) \in ads
        /\ \A j \in 1..Len(saved[i].Entries) : SubSeq(saved[i].Entries, 1, j) \in chunks

\* Whoever follows the chain from the saved head (provider.rs:140), at any
\* moment and after any crash, finds every advertisement and every chunk in
\* the provider's store; the chunks of an advertisement hold exactly the
\* multihashes of its DAG, and their blocks are in the block store.
ChainIsComplete ==
    /\ ChainIsStored
    /\ \A i \in 1..Len(saved) :
          /\ UNION Range(saved[i].Entries) = Reach(saved[i].root)
          /\ Complete(saved[i].root)

Extends(longer, chain) ==
    Len(chain) <= Len(longer) /\ SubSeq(longer, 1, Len(chain)) = chain

\* The chain is only ever extended, by one advertisement for each publish,
\* which links to the last (provider.rs:143), and no head is announced that
\* is not in it: a crash or a failed write between taking the head and saving
\* the next one neither cuts the chain nor forks it.
ChainOnlyGrows ==
    [][/\ \/ saved' = saved /\ ~(engine = "save" /\ engine' = "gossip")
          \/ Extends(saved', saved) /\ Len(saved') = Len(saved) + 1
       /\ Extends(saved', announced')]_provVars
=============================================================================
