----------------------------- MODULE Consensus ------------------------------
(***************************************************************************)
(* The consensus engine of a node (ursa-consensus/src/engine.rs), the HTTP  *)
(* API in front of it (server.rs), and the application it drives.  The      *)
(* engine calls the application synchronously, one ABCI call at a time;     *)
(* between two of its steps certificates arrive, clients ask and leave, and *)
(* the process may end.  Narwhal and its stores are external: certificates  *)
(* arrive in an order they choose, and a batch may be missing when it is    *)
(* read.                                                                    *)
(***************************************************************************)
EXTENDS Application

CONSTANTS
    Payloads,   \* payloads of certificates: sequences of batches
    Malformed,  \* in a batch that is not a WorkerMessage::Batch
    Missing,    \* stands for a batch the worker's store does not have
    Clients,    \* HTTP clients of abci_query
    QueryCap,   \* CHANNEL_CAPACITY of the query channel
    MaxBlocks   \* bound on certificates per run of the process

ASSUME ConsensusAssumption ==
    /\ Malformed \notin Txs /\ Missing \notin Txs
    /\ Payloads \subseteq Seq(Seq(Txs \cup {Malformed}))
    /\ QueryCap \in Nat \ {0} /\ MaxBlocks \in Nat

VARIABLES
    engine,             \* where the engine is in run and handle_cert
    last_block_height,
    todo,               \* batches of the certificate still to deliver
    rx_output,          \* certificates from Narwhal
    rx_abci_queries,    \* clients whose queries wait for the engine
    api,                \* the HTTP API is serving
    client,             \* what each client's handler is doing
    answer              \* the state each answered client was shown

chanVars == <<rx_output, rx_abci_queries>>
clientVars == <<api, client, answer>>
consVars == <<appVars, engine, last_block_height, todo, chanVars, clientVars>>

EngineStates == {"off", "new", "init", "idle", "block", "ended", "stopped"}
ClientStates == {"idle", "sending", "waiting", "answered", "left", "failed"}

ConsInit ==
    /\ AppInit
    /\ engine = "off"
    /\ last_block_height = 0
    /\ todo = <<>>
    /\ rx_output = <<>>
    /\ rx_abci_queries = <<>>
    /\ api = FALSE
    /\ client = [c \in Clients |-> "idle"]
    /\ answer = [c \in Clients |-> EmptyState]
-----------------------------------------------------------------------------
\* What a handler of abci_query awaits: room in the channel, or its answer.
Pending == {"sending", "waiting"}

\* The receiver is dropped with the queries in it: a handler's send fails
\* or its answer's sender is gone, the unwrap panics and the client's
\* connection is closed.
FailWaiting ==
    client' = [c \in Clients |-> IF client[c] \in Pending THEN "failed"
                                 ELSE client[c]]

\* Mutant: the queries in the channel are not dropped with the receiver.
StopEngineKeepingQueries ==
    /\ engine' = "stopped"
    /\ todo' = <<>>
    /\ rx_output' = <<>>
    /\ UNCHANGED <<appVars, last_block_height, rx_abci_queries, clientVars>>

\* run returned an error: process and consensus_start return it, the engine
\* and the receivers it owns are dropped.  Nothing starts it again.
StopEngine ==
    /\ engine' = "stopped"
    /\ todo' = <<>>
    /\ rx_output' = <<>>
    /\ rx_abci_queries' = <<>>
    /\ FailWaiting
    /\ UNCHANGED <<appVars, last_block_height, api, answer>>

\* consensus_start up to the spawn of the API server, whose bind may panic.
consensus_start ==
    /\ engine = "off"
    /\ engine' = "new"
    /\ api' \in BOOLEAN
    /\ UNCHANGED <<appVars, last_block_height, todo, chanVars, client, answer>>

\* The key, the committee file or a store cannot be read.
consensus_start_fails ==
    /\ engine = "off"
    /\ StopEngine

\* Engine::new with the application listening.
Engine_new ==
    /\ engine = "new"
    /\ app = "up"
    /\ engine' = "init"
    /\ last_block_height' = info
    /\ UNCHANGED <<appVars, todo, chanVars, clientVars>>

\* Engine::new before the application listens: the unwrap of connect panics.
Engine_new_panics ==
    /\ engine = "new"
    /\ app = "down"
    /\ StopEngine

engine_init_chain ==
    /\ engine = "init"
    /\ init_chain
    /\ engine' = "idle"
    /\ UNCHANGED <<last_block_height, todo, chanVars, clientVars>>

\* The genesis file is missing or wrong: the application's handler panics.
engine_init_chain_fails ==
    /\ engine = "init"
    /\ StopEngine
-----------------------------------------------------------------------------
\* Narwhal outputs a certificate.
NewCertificate(payload) ==
    /\ engine \notin {"off", "stopped"}
    /\ last_block_height + Len(rx_output) < MaxBlocks
    /\ rx_output' = Append(rx_output, payload)
    /\ UNCHANGED <<appVars, engine, last_block_height, todo, rx_abci_queries,
                   clientVars>>

\* Mutant: a batch that is not found is taken as empty.
reconstruct_found(payload, absent) ==
    [i \in DOMAIN payload |-> IF i \in absent THEN <<>> ELSE payload[i]]

\* The batches of a certificate as reconstruct_batch reads them; all are
\* read before the first is delivered.
reconstruct(payload, absent) ==
    [i \in DOMAIN payload |-> IF i \in absent THEN <<Missing>> ELSE payload[i]]

\* Mutant: a block starts from an empty state instead of the current one.
handle_cert_afresh ==
    /\ engine = "idle"
    /\ rx_output # <<>>
    /\ todo' = Head(rx_output)
    /\ current_state' = EmptyState
    /\ rx_output' = Tail(rx_output)
    /\ last_block_height' = last_block_height + 1
    /\ engine' = "block"
    /\ UNCHANGED <<app, committed_state, rx_abci_queries, clientVars>>

\* handle_cert up to the first deliver_tx.  begin_block does nothing.
handle_cert ==
    /\ engine = "idle"
    /\ rx_output # <<>>
    /\ \E absent \in SUBSET DOMAIN Head(rx_output) :
           todo' = reconstruct(Head(rx_output), absent)
    /\ rx_output' = Tail(rx_output)
    /\ last_block_height' = last_block_height + 1
    /\ engine' = "block"
    /\ UNCHANGED <<appVars, rx_abci_queries, clientVars>>

Delivering == engine = "block" /\ todo # <<>>

\* One transaction of the batch in hand.
engine_deliver_tx ==
    /\ Delivering
    /\ Head(todo) # <<>>
    /\ Head(Head(todo)) \in Txs
    /\ deliver_tx(Head(Head(todo)))
    /\ todo' = <<Tail(Head(todo))>> \o Tail(todo)
    /\ UNCHANGED <<engine, last_block_height, chanVars, clientVars>>

\* Mutant: an error ends the block but not the engine.
deliver_batch_abandons ==
    /\ Delivering
    /\ Head(todo) # <<>>
    /\ Head(Head(todo)) \notin Undecodable
    /\ todo' = <<>>
    /\ engine' = "idle"
    /\ UNCHANGED <<appVars, last_block_height, chanVars, clientVars>>

\* A batch that is missing or malformed, or a transaction on which the
\* application panics: what was delivered before stays in current_state.
deliver_batch_fails ==
    /\ Delivering
    /\ Head(todo) # <<>>
    /\ Head(Head(todo)) \notin Undecodable
    /\ StopEngine

\* Mutant: the same batch is delivered over and over.
NextBatchStuck ==
    /\ Delivering
    /\ Head(todo) = <<>>
    /\ UNCHANGED consVars

NextBatch ==
    /\ Delivering
    /\ Head(todo) = <<>>
    /\ todo' = Tail(todo)
    /\ UNCHANGED <<appVars, engine, last_block_height, chanVars, clientVars>>

engine_end_block ==
    /\ engine = "block"
    /\ todo = <<>>
    /\ end_block(last_block_height)
    /\ engine' = "ended"
    /\ UNCHANGED <<last_block_height, todo, chanVars, clientVars>>

engine_commit ==
    /\ engine = "ended"
    /\ commit
    /\ engine' = "idle"
    /\ UNCHANGED <<last_block_height, todo, chanVars, clientVars>>
-----------------------------------------------------------------------------
\* abci_query: the handler is at the send of its request.
abci_query(c) ==
    /\ api
    /\ client[c] = "idle"
    /\ client' = [client EXCEPT ![c] = "sending"]
    /\ UNCHANGED <<appVars, engine, last_block_height, todo, chanVars, api,
                   answer>>

\* The send ends when there is room in the channel, and the handler waits
\* for the answer.  With the engine gone the send fails, which is logged,
\* and the wait panics.
SendQuery(c) ==
    /\ client[c] = "sending"
    /\ \/ /\ engine # "stopped"
          /\ Len(rx_abci_queries) < QueryCap
          /\ rx_abci_queries' = Append(rx_abci_queries, c)
          /\ client' = [client EXCEPT ![c] = "waiting"]
       \/ /\ engine = "stopped"
          /\ client' = [client EXCEPT ![c] = "failed"]
          /\ UNCHANGED rx_abci_queries
    /\ UNCHANGED <<appVars, engine, last_block_height, todo, rx_output, api,
                   answer>>

\* The client closes its connection: the handler is dropped, its receiver
\* too; a query in the channel stays there.
ClientLeaves(c) ==
    /\ client[c] \in Pending
    /\ client' = [client EXCEPT ![c] = "left"]
    /\ UNCHANGED <<appVars, engine, last_block_height, todo, chanVars, api,
                   answer>>

Querying == engine = "idle" /\ rx_abci_queries # <<>>

handle_abci_query ==
    /\ Querying
    /\ client[Head(rx_abci_queries)] = "waiting"
    /\ client' = [client EXCEPT ![Head(rx_abci_queries)] = "answered"]
    /\ answer' = [answer EXCEPT ![Head(rx_abci_queries)] = query]
    /\ rx_abci_queries' = Tail(rx_abci_queries)
    /\ UNCHANGED <<appVars, engine, last_block_height, todo, rx_output, api>>

\* The application panics on the query, or the client has left and the send
\* of the answer fails: either ends the engine.
handle_abci_query_fails ==
    /\ Querying
    /\ StopEngine
-----------------------------------------------------------------------------
EngineStep ==
    \/ application_start /\ UNCHANGED <<engine, last_block_height, todo,
                                        chanVars, clientVars>>
    \/ consensus_start \/ consensus_start_fails
    \/ Engine_new \/ Engine_new_panics
    \/ engine_init_chain \/ engine_init_chain_fails
    \/ handle_cert \/ engine_deliver_tx \/ deliver_batch_fails \/ NextBatch
    \/ engine_end_block \/ engine_commit
    \/ handle_abci_query \/ handle_abci_query_fails

EnvStep ==
    \/ \E payload \in Payloads : NewCertificate(payload)
    \/ \E c \in Clients : abci_query(c) \/ SendQuery(c) \/ ClientLeaves(c)

\* The process ends, by Ctrl-C or a crash, and is started again later.
ProcessLost ==
    /\ AppLost
    /\ engine' = "off"
    /\ last_block_height' = 0
    /\ todo' = <<>>
    /\ rx_output' = <<>>
    /\ rx_abci_queries' = <<>>
    /\ api' = FALSE
    /\ FailWaiting
    /\ UNCHANGED answer

ConsNext == EngineStep \/ EnvStep \/ ProcessLost

ConsSpec == ConsInit /\ [][ConsNext]_consVars

\* The tasks of the application, of the engine and of the handlers run when
\* they can.
\* select! polls its two branches in random order, so a branch that is ready
\* again and again is taken.  Nothing is assumed of Narwhal, of clients and
\* of the process's end.
ConsFairness ==
    /\ WF_consVars(EngineStep)
    /\ SF_consVars(handle_cert)
    /\ SF_consVars(handle_abci_query \/ handle_abci_query_fails)
    /\ \A c \in Clients : WF_consVars(SendQuery(c))

ConsFairSpec == ConsSpec /\ ConsFairness
-----------------------------------------------------------------------------
(* Properties *)

\* Types of the application's and the engine's state.
ConsTypeOK ==
    /\ app \in {"down", "up"}
    /\ current_state \in States /\ committed_state \in States
    /\ engine \in EngineStates
    /\ last_block_height \in Nat
    /\ todo \in Seq(Seq(Txs \cup {Malformed, Missing}))
    /\ rx_output \in Seq(Payloads)
    /\ rx_abci_queries \in Seq(Clients)
    /\ api \in BOOLEAN
    /\ client \in [Clients -> ClientStates]
    /\ answer \in [Clients -> States]

\* Between two certificates (engine.rs:77) the engine's height is that of
\* the committed state, and the application holds nothing that is not
\* committed, save the genesis before the first block: nothing of a block
\* that failed half way is committed with a later one.
BetweenBlocks ==
    engine = "idle" =>
        /\ last_block_height = committed_state.block_height
        /\ IF last_block_height = 0
           THEN current_state = execute(committed_state, Genesis)
           ELSE current_state = committed_state

\* init_chain commits what it loads (types.rs:167): once the engine takes
\* certificates and queries, the genesis is in the committed state.
GenesisCommitted ==
    engine \in {"idle", "block", "ended"} =>
        /\ committed_state.db # <<>>
        /\ Head(committed_state.db) = Genesis

Outline == INSTANCE LedgerOutline WITH ledger <- committed_state, shown <- answer

\* The committed state (types.rs:279) is a ledger that is never rolled back:
\* as long as the process lives a commit extends it, by one height, and a
\* query is answered with the whole of it.
ImplementsOutline == Outline!OutlineSpec

ToLedger == INSTANCE Ledger WITH
    Certificates <- Payloads, ledger <- committed_state, shown <- answer

\* Queries and certificates take effect as in Ledger: whole certificates in
\* order (engine.rs:97), and answers from the state between two of them.
ImplementsLedger == ToLedger!LedgerSpec

\* A handler of abci_query (server.rs:60) does not wait for ever, neither
\* for room in a full channel nor for its answer.
ClientsReleased ==
    \A c \in Clients : client[c] \in Pending ~> client[c] \notin Pending

\* A block that was begun is committed unless the engine or the process
\* stops (engine.rs:97).
BlocksFinish ==
    \A h \in 1..MaxBlocks :
        (engine = "block" /\ last_block_height = h)
            ~> (committed_state.block_height = h \/ engine \in {"stopped", "off"})
=============================================================================
