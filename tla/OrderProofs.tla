---------------------------- MODULE OrderProofs ----------------------------
(***************************************************************************)
(* Proofs about the two parts of the system that promise an order.  The    *)
(* consensus engine with its application, for any transactions and         *)
(* certificates: what is committed is whole blocks, is never taken back,   *)
(* and is one certificate after the other.  The linked list of             *)
(* cache/lru.rs, for any keys, capacity and number of nodes: the links are *)
(* right in both directions after every call, and the list is a queue in   *)
(* the order of insertion.  What needs no induction comes first.           *)
(***************************************************************************)
EXTENDS LinkedLru, Consensus, TLAPS

-----------------------------------------------------------------------------
(* The consensus engine and its application.                               *)

\* Where the heights and the two states stand at each point of the engine's
\* loop.
Phases ==
    /\ engine \in {"off", "new", "init"} =>
           current_state = EmptyState /\ committed_state = EmptyState
    /\ engine = "init" => last_block_height = 0
    /\ engine \in {"block", "ended"} =>
           last_block_height = committed_state.block_height + 1
    /\ engine = "ended" => current_state.block_height = last_block_height
    /\ committed_state.block_height = 0 => committed_state = EmptyState

\* What is committed is a prefix of what is executed.
CommittedIsPrefix == Outline!IsPrefixOf(committed_state.db, current_state.db)

\* The inductive invariant.
ConsInv == ConsTypeOK /\ Phases /\ BetweenBlocks /\ CommittedIsPrefix

Log == Txs \cup {Genesis}

Batches == Seq(Txs \cup {Malformed, Missing})

-----------------------------------------------------------------------------
(* Sequences and states. *)

\* A sequence is a prefix of itself.
LEMMA PrefixReflexive == ASSUME NEW S, NEW s \in Seq(S) PROVE Outline!IsPrefixOf(s, s)
BY DEF Outline!IsPrefixOf

\* Appending to the longer sequence keeps the shorter one a prefix.
LEMMA PrefixAppend ==
    ASSUME NEW S, NEW s \in Seq(S), NEW t \in Seq(S), NEW e \in S, Outline!IsPrefixOf(s, t)
    PROVE  Outline!IsPrefixOf(s, Append(t, e))
<1>1. Append(t, e) \in Seq(S) /\ Len(Append(t, e)) = Len(t) + 1
  OBVIOUS
<1>2. Len(s) \in Nat /\ Len(t) \in Nat /\ Len(s) <= Len(t)
  BY DEF Outline!IsPrefixOf
<1>3. SubSeq(Append(t, e), 1, Len(s)) = SubSeq(t, 1, Len(s))
  BY <1>1, <1>2
<1> QED BY <1>1, <1>2, <1>3 DEF Outline!IsPrefixOf

\* Executing a transaction appends it to the database of a state.
LEMMA ExecuteProps ==
    ASSUME NEW state \in States, NEW tx \in Log
    PROVE  /\ execute(state, tx) \in States
           /\ execute(state, tx).block_height = state.block_height
           /\ execute(state, tx).db = Append(state.db, tx)
BY DEF execute, States, Log

\* The empty state is a state.
LEMMA EmptyStateTyped == EmptyState \in States
BY DEF EmptyState, States

\* The batches read for a certificate are batches.
LEMMA ReconstructTyped ==
    ASSUME NEW payload \in Payloads, NEW absent
    PROVE  reconstruct(payload, absent) \in Seq(Batches)
<1>1. payload \in Seq(Seq(Txs \cup {Malformed}))
  BY ConsensusAssumption, Zenon
<1>2. \A i \in 1..Len(payload) : payload[i] \in Batches
  <2> SUFFICES ASSUME NEW i \in 1..Len(payload) PROVE payload[i] \in Batches
    BY Zenon
  <2>1. payload[i] \in Seq(Txs \cup {Malformed})
    BY <1>1
  <2> QED BY <2>1 DEF Batches
<1>3. <<Missing>> \in Batches
  BY DEF Batches
<1>4. DOMAIN payload = 1..Len(payload) /\ Len(payload) \in Nat
  BY <1>1
<1> QED BY <1>2, <1>3, <1>4 DEF reconstruct

-----------------------------------------------------------------------------
(* The invariant. *)

\* The invariant holds before anything has started.
LEMMA ConsInvInit == ConsInit => ConsInv
<1> SUFFICES ASSUME ConsInit PROVE ConsInv
  BY Zenon
<1>1. ConsTypeOK
  <2>1. api \in BOOLEAN
    BY Zenon DEF ConsInit
  <2>2. /\ app \in {"down", "up"} /\ engine \in EngineStates
        /\ current_state \in States /\ committed_state \in States
    BY EmptyStateTyped, Zenon DEF ConsInit, AppInit, EngineStates
  <2>3. /\ last_block_height \in Nat
        /\ todo \in Seq(Seq(Txs \cup {Malformed, Missing}))
        /\ rx_output \in Seq(Payloads) /\ rx_abci_queries \in Seq(Clients)
    BY DEF ConsInit
  <2>4. client \in [Clients -> ClientStates] /\ answer \in [Clients -> States]
    BY EmptyStateTyped, Zenon DEF ConsInit, ClientStates
  <2> QED BY <2>1, <2>2, <2>3, <2>4, Zenon DEF ConsTypeOK
<1>2. CommittedIsPrefix
  BY EmptyStateTyped, PrefixReflexive, Zenon
     DEF ConsInit, AppInit, CommittedIsPrefix, States
<1> QED BY <1>1, <1>2, Zenon DEF ConsInv, ConsInit, AppInit, Phases, BetweenBlocks

\* Dropping the waiting clients keeps their type.
LEMMA FailWaitingTyped ==
    ASSUME client \in [Clients -> ClientStates], FailWaiting
    PROVE  client' \in [Clients -> ClientStates]
BY Zenon DEF FailWaiting, ClientStates

\* An engine that stops leaves the application as it is.
LEMMA EngineStopKeepsInv == ASSUME ConsInv, StopEngine PROVE ConsInv'
<1>1. ConsTypeOK'
  BY FailWaitingTyped DEF ConsInv, ConsTypeOK, StopEngine, appVars, EngineStates
<1>2. CommittedIsPrefix'
  BY Zenon DEF ConsInv, CommittedIsPrefix, StopEngine, appVars
<1> QED BY <1>1, <1>2, Zenon DEF ConsInv, StopEngine, appVars, Phases, BetweenBlocks

\* A step that leaves both states, the engine's place and its height alone.
LEMMA QuietKeepsInv ==
    ASSUME ConsInv, ConsTypeOK', UNCHANGED <<appVars, engine, last_block_height>>
    PROVE  ConsInv'
BY Zenon DEF ConsInv, Phases, BetweenBlocks, CommittedIsPrefix, appVars

\* The process ends.
LEMMA LossKeepsInv == ASSUME ConsInv, ProcessLost PROVE ConsInv'
<1>1. ConsTypeOK'
  <2>1. (api \in BOOLEAN)'
    BY Zenon DEF ProcessLost
  <2>2. (/\ app \in {"down", "up"} /\ engine \in EngineStates
         /\ current_state \in States /\ committed_state \in States)'
    BY EmptyStateTyped, Zenon DEF ProcessLost, AppLost, EngineStates
  <2>3. (/\ last_block_height \in Nat
         /\ todo \in Seq(Seq(Txs \cup {Malformed, Missing}))
         /\ rx_output \in Seq(Payloads) /\ rx_abci_queries \in Seq(Clients))'
    BY DEF ProcessLost
  <2>4. (client \in [Clients -> ClientStates] /\ answer \in [Clients -> States])'
    BY FailWaitingTyped, Zenon DEF ConsInv, ConsTypeOK, ProcessLost
  <2> QED BY <2>1, <2>2, <2>3, <2>4, Zenon DEF ConsTypeOK
<1>2. CommittedIsPrefix'
  BY EmptyStateTyped, PrefixReflexive, Zenon
     DEF ProcessLost, AppLost, CommittedIsPrefix, States
<1> QED BY <1>1, <1>2, Zenon DEF ConsInv, ProcessLost, AppLost, Phases, BetweenBlocks

\* Every step of the engine keeps the invariant.
LEMMA EngineKeepsInv == ASSUME ConsInv, EngineStep PROVE ConsInv'
<1> USE DEF ConsInv
<1>1. CASE application_start /\ UNCHANGED <<engine, last_block_height, todo,
                                             chanVars, clientVars>>
  <2>1. ConsTypeOK'
    BY <1>1, Zenon DEF ConsTypeOK, application_start, chanVars, clientVars
  <2> QED BY <1>1, <2>1, Zenon DEF application_start, Phases, BetweenBlocks, CommittedIsPrefix
<1>2. CASE consensus_start
  <2>1. ConsTypeOK'
    BY <1>2, Zenon DEF ConsTypeOK, consensus_start, chanVars, appVars, EngineStates
  <2> QED BY <1>2, <2>1, Zenon
          DEF consensus_start, appVars, Phases, BetweenBlocks, CommittedIsPrefix
<1>3. CASE Engine_new
  <2>1. last_block_height' = 0
    BY <1>3 DEF Engine_new, info, Phases, EmptyState
  <2>2. ConsTypeOK'
    BY <1>3, <2>1 DEF ConsTypeOK, Engine_new, chanVars, clientVars, appVars, EngineStates
  <2> QED BY <1>3, <2>1, <2>2, Zenon
          DEF Engine_new, appVars, Phases, BetweenBlocks, CommittedIsPrefix
<1>4. CASE engine_init_chain
  <2>1. /\ current_state = EmptyState /\ committed_state = EmptyState
        /\ last_block_height = 0
    BY <1>4, Zenon DEF engine_init_chain, Phases
  <2>2. /\ current_state' = execute(EmptyState, Genesis)
        /\ committed_state' = EmptyState
        /\ last_block_height' = 0 /\ engine' = "idle" /\ app' = app
    BY <1>4, <2>1, Zenon DEF engine_init_chain, init_chain
  <2>3. /\ current_state' \in States
        /\ current_state'.db = Append(EmptyState.db, Genesis)
    BY <2>2, ExecuteProps, EmptyStateTyped, Zenon DEF Log
  <2>4. ConsTypeOK'
    BY <1>4, <2>2, <2>3, EmptyStateTyped, Zenon
       DEF ConsTypeOK, engine_init_chain, chanVars, clientVars, EngineStates
  <2>5. CommittedIsPrefix'
    <3>1. EmptyState.db \in Seq(Log)
      BY DEF EmptyState
    <3>2. Outline!IsPrefixOf(EmptyState.db, Append(EmptyState.db, Genesis))
      BY <3>1, PrefixReflexive, PrefixAppend, Zenon DEF Log
    <3> QED BY <2>2, <2>3, <3>2, Zenon DEF CommittedIsPrefix
  <2>6. Phases' /\ BetweenBlocks'
    BY <2>2, Zenon DEF Phases, BetweenBlocks, EmptyState
  <2> QED BY <2>4, <2>5, <2>6, Zenon
<1>5. CASE handle_cert
  <2>1. Head(rx_output) \in Payloads /\ Tail(rx_output) \in Seq(Payloads)
    BY <1>5 DEF handle_cert, ConsTypeOK
  <2>2. todo' \in Seq(Batches)
    BY <1>5, <2>1, ReconstructTyped, Zenon DEF handle_cert
  <2>3. ConsTypeOK'
    BY <1>5, <2>1, <2>2 DEF ConsTypeOK, handle_cert, clientVars, appVars, EngineStates, Batches
  <2>4. Phases'
    BY <1>5, Zenon DEF handle_cert, appVars, Phases, BetweenBlocks, ConsTypeOK
  <2> QED BY <1>5, <2>3, <2>4, Zenon DEF handle_cert, appVars, BetweenBlocks, CommittedIsPrefix
<1>6. CASE engine_deliver_tx
  <2>1. Head(todo) \in Batches /\ Tail(todo) \in Seq(Batches)
    BY <1>6 DEF engine_deliver_tx, Delivering, ConsTypeOK, Batches
  <2>2. Tail(Head(todo)) \in Batches
    BY <1>6, <2>1 DEF engine_deliver_tx, Batches
  <2>3. todo' \in Seq(Batches)
    <3>1. <<Tail(Head(todo))>> \in Seq(Batches)
      BY <2>2
    <3> QED BY <3>1, <2>1, <1>6 DEF engine_deliver_tx
  <2>4. /\ current_state' \in States
        /\ current_state'.block_height = current_state.block_height
        /\ Outline!IsPrefixOf(committed_state.db, current_state'.db)
        /\ committed_state' = committed_state /\ app' = app
    <3> DEFINE tx == Head(Head(todo))
    <3>0. /\ current_state \in States /\ tx \in Log
          /\ current_state.db \in Seq(Log) /\ committed_state.db \in Seq(Log)
      BY <1>6, Zenon DEF engine_deliver_tx, ConsTypeOK, States, Log
    <3>1. deliver_tx(tx)
      BY <1>6, Zenon DEF engine_deliver_tx
    <3>2. CASE tx \in Undecodable
      BY <3>1, <3>2, <3>0, Zenon DEF deliver_tx, CommittedIsPrefix
    <3>3. CASE tx \notin Undecodable
      <4>1. current_state' = execute(current_state, tx)
        BY <3>1, <3>3, Zenon DEF deliver_tx
      <4> HIDE DEF tx
      <4>2. /\ current_state' \in States
            /\ current_state'.block_height = current_state.block_height
            /\ current_state'.db = Append(current_state.db, tx)
        <5>1. /\ execute(current_state, tx) \in States
              /\ execute(current_state, tx).block_height = current_state.block_height
              /\ execute(current_state, tx).db = Append(current_state.db, tx)
          BY <3>0, ExecuteProps, Zenon
        <5> QED BY <4>1, <5>1, Zenon
      <4>3. Outline!IsPrefixOf(committed_state.db, Append(current_state.db, tx))
        BY <3>0, PrefixAppend, Zenon DEF CommittedIsPrefix
      <4> QED BY <4>2, <4>3, <3>1, Zenon DEF deliver_tx
    <3> QED BY <3>2, <3>3, Zenon
  <2>5. ConsTypeOK'
    BY <1>6, <2>3, <2>4, Zenon DEF ConsTypeOK, engine_deliver_tx, chanVars, clientVars, Batches
  <2>6. Phases' /\ BetweenBlocks' /\ CommittedIsPrefix'
    BY <1>6, <2>4, Zenon
       DEF engine_deliver_tx, Delivering, Phases, BetweenBlocks, CommittedIsPrefix
  <2> QED BY <2>5, <2>6, Zenon
<1>7. CASE NextBatch
  <2>1. ConsTypeOK'
    BY <1>7 DEF ConsTypeOK, NextBatch, Delivering, chanVars, clientVars, appVars
  <2> QED BY <1>7, <2>1, QuietKeepsInv, Zenon DEF NextBatch
<1>8. CASE engine_end_block
  <2>1. /\ current_state' = [current_state EXCEPT !.block_height = last_block_height]
        /\ committed_state' = committed_state /\ app' = app
        /\ engine = "block" /\ engine' = "ended"
        /\ last_block_height' = last_block_height
    BY <1>8, Zenon DEF engine_end_block, end_block
  <2>2. /\ current_state' \in States /\ current_state'.db = current_state.db
        /\ current_state'.block_height = last_block_height
    <3>1. current_state \in States /\ last_block_height \in Nat
      BY Zenon DEF ConsTypeOK
    <3> QED BY <2>1, <3>1, Zenon DEF States
  <2>3. ConsTypeOK'
    BY <1>8, <2>1, <2>2, Zenon
       DEF ConsTypeOK, engine_end_block, chanVars, clientVars, EngineStates
  <2> QED BY <2>1, <2>2, <2>3, Zenon DEF Phases, BetweenBlocks, CommittedIsPrefix
<1>9. CASE engine_commit
  <2>1. /\ committed_state' = current_state /\ current_state' = current_state
        /\ engine = "ended" /\ engine' = "idle" /\ app' = app
        /\ last_block_height' = last_block_height
    BY <1>9, Zenon DEF engine_commit, commit
  <2>2. ConsTypeOK'
    BY <1>9, <2>1, Zenon DEF ConsTypeOK, engine_commit, chanVars, clientVars, EngineStates
  <2>3. last_block_height # 0 /\ current_state.block_height = last_block_height
    BY <2>1 DEF Phases, ConsTypeOK, States
  <2>4. CommittedIsPrefix'
    BY <2>1, PrefixReflexive, Zenon DEF CommittedIsPrefix, ConsTypeOK, States
  <2> QED BY <2>1, <2>2, <2>3, <2>4, Zenon DEF Phases, BetweenBlocks
<1>10. CASE handle_abci_query
  <2>1. Head(rx_abci_queries) \in Clients /\ Tail(rx_abci_queries) \in Seq(Clients)
    BY <1>10 DEF handle_abci_query, Querying, ConsTypeOK
  <2>2. query \in States
    BY Zenon DEF query, ConsTypeOK
  <2>3. ConsTypeOK'
    BY <1>10, <2>1, <2>2, Zenon DEF ConsTypeOK, handle_abci_query, appVars, ClientStates
  <2> QED BY <1>10, <2>3, QuietKeepsInv, Zenon DEF handle_abci_query
<1>11. CASE consensus_start_fails \/ Engine_new_panics \/ engine_init_chain_fails
            \/ deliver_batch_fails \/ handle_abci_query_fails
  BY <1>11, EngineStopKeepsInv, Zenon
     DEF consensus_start_fails, Engine_new_panics, engine_init_chain_fails,
         deliver_batch_fails, handle_abci_query_fails
<1> QED BY <1>1, <1>2, <1>3, <1>4, <1>5, <1>6, <1>7, <1>8, <1>9, <1>10, <1>11, Zenon
        DEF EngineStep

\* So do the steps of Narwhal and of the clients.
LEMMA EnvKeepsInv == ASSUME ConsInv, EnvStep PROVE ConsInv'
<1> USE DEF ConsInv
<1>1. ASSUME NEW payload \in Payloads, NewCertificate(payload) PROVE ConsInv'
  <2>1. ConsTypeOK'
    BY <1>1 DEF NewCertificate, ConsTypeOK, appVars, clientVars
  <2> QED BY <1>1, <2>1, QuietKeepsInv, Zenon DEF NewCertificate
<1>2. ASSUME NEW c \in Clients, abci_query(c) PROVE ConsInv'
  <2>1. client' \in [Clients -> ClientStates]
    BY <1>2, Zenon DEF abci_query, ConsTypeOK, ClientStates
  <2>2. ConsTypeOK'
    BY <1>2, <2>1, Zenon DEF abci_query, ConsTypeOK, appVars, chanVars
  <2> QED BY <1>2, <2>2, QuietKeepsInv, Zenon DEF abci_query
<1>3. ASSUME NEW c \in Clients, SendQuery(c) PROVE ConsInv'
  <2>0. client \in [Clients -> ClientStates] /\ rx_abci_queries \in Seq(Clients)
    BY Zenon DEF ConsTypeOK
  <2>1. client' \in [Clients -> ClientStates] /\ rx_abci_queries' \in Seq(Clients)
    <3>1. PICK s \in {"waiting", "failed"} : client' = [client EXCEPT ![c] = s]
      BY <1>3, Zenon DEF SendQuery
    <3>2. client' \in [Clients -> ClientStates]
      BY <2>0, <3>1, Zenon DEF ClientStates
    <3>3. rx_abci_queries' \in {rx_abci_queries, Append(rx_abci_queries, c)}
      BY <1>3, Zenon DEF SendQuery
    <3> QED BY <2>0, <3>2, <3>3
  <2>2. ConsTypeOK'
    BY <1>3, <2>1, Zenon DEF SendQuery, ConsTypeOK, appVars
  <2> QED BY <1>3, <2>2, QuietKeepsInv, Zenon DEF SendQuery
<1>4. ASSUME NEW c \in Clients, ClientLeaves(c) PROVE ConsInv'
  <2>1. client' \in [Clients -> ClientStates]
    BY <1>4, Zenon DEF ClientLeaves, ConsTypeOK, ClientStates
  <2>2. ConsTypeOK'
    BY <1>4, <2>1, Zenon DEF ClientLeaves, ConsTypeOK, appVars, chanVars
  <2> QED BY <1>4, <2>2, QuietKeepsInv, Zenon DEF ClientLeaves
<1> QED BY <1>1, <1>2, <1>3, <1>4, Zenon DEF EnvStep

\* The invariant is inductive.
LEMMA ConsInvStep == ConsInv /\ [ConsNext]_consVars => ConsInv'
<1> SUFFICES ASSUME ConsInv, [ConsNext]_consVars PROVE ConsInv'
  BY Zenon
<1>1. CASE UNCHANGED consVars
  <2>1. ConsTypeOK'
    BY <1>1, Zenon DEF ConsInv, ConsTypeOK, consVars, appVars, chanVars, clientVars
  <2> QED BY <1>1, <2>1, QuietKeepsInv, Zenon DEF consVars
<1> QED BY <1>1, EngineKeepsInv, EnvKeepsInv, LossKeepsInv, Zenon DEF ConsNext

\* The initial state is an empty ledger that nobody was shown.
LEMMA OutlineInitMaps == ConsInit => Outline!OutlineInit
BY Zenon DEF ConsInit, AppInit, EmptyState, Outline!OutlineInit, Outline!Nothing

\* A commit appends a block, an answer shows the ledger, the end of the
\* process loses it, and every other step leaves it alone.
LEMMA OutlineStepMaps ==
    ASSUME ConsInv, [ConsNext]_consVars
    PROVE  [Outline!OutlineNext]_<<committed_state, answer>>
<1>1. CASE engine_commit
  <2>1. /\ committed_state' = current_state /\ answer' = answer
        /\ engine = "ended"
    BY <1>1, Zenon DEF engine_commit, commit, clientVars
  <2>2. current_state.block_height = committed_state.block_height + 1
    BY <2>1, Zenon DEF ConsInv, Phases
  <2>3. Outline!Grow
    BY <2>1, <2>2, Zenon DEF ConsInv, CommittedIsPrefix, Outline!Grow
  <2> QED BY <2>3, Zenon DEF Outline!OutlineNext
<1>2. CASE ProcessLost
  <2>1. Outline!Lose
    BY <1>2, Zenon DEF ProcessLost, AppLost, EmptyState, Outline!Lose, Outline!Nothing
  <2> QED BY <2>1, Zenon DEF Outline!OutlineNext
<1>3. CASE handle_abci_query
  <2> DEFINE c == Head(rx_abci_queries)
  <2>1. c \in Clients
    BY <1>3 DEF handle_abci_query, Querying, ConsInv, ConsTypeOK
  <2>2. answer' = [answer EXCEPT ![c] = committed_state] /\ committed_state' = committed_state
    BY <1>3, Zenon DEF handle_abci_query, query, appVars
  <2> HIDE DEF c
  <2>3. Outline!ShowTo(c)
    BY <2>2, Zenon DEF Outline!ShowTo
  <2> QED BY <2>1, <2>3, Zenon DEF Outline!OutlineNext
<1>4. CASE UNCHANGED consVars
  BY <1>4, Zenon DEF consVars, appVars, clientVars
<1>5. CASE EnvStep
  <2>1. UNCHANGED <<committed_state, answer>>
    BY <1>5, Zenon DEF EnvStep, NewCertificate, abci_query, SendQuery,
              ClientLeaves, chanVars, appVars, clientVars
  <2> QED BY <2>1, Zenon
<1>6. CASE EngineStep /\ ~engine_commit /\ ~handle_abci_query
  <2>1. UNCHANGED <<committed_state, answer>>
    BY <1>6, Zenon DEF EngineStep, application_start, consensus_start,
                consensus_start_fails, Engine_new, Engine_new_panics,
                engine_init_chain, engine_init_chain_fails, init_chain,
                handle_cert, engine_deliver_tx, deliver_tx, deliver_batch_fails,
                NextBatch, engine_end_block, end_block,
                handle_abci_query_fails, StopEngine, appVars, clientVars
  <2> QED BY <2>1, Zenon
<1> QED BY <1>1, <1>2, <1>3, <1>4, <1>5, <1>6, Zenon DEF ConsNext

-----------------------------------------------------------------------------
(* What holds of every behaviour. *)

\* The engine and the application keep their types (engine.rs:36,
\* types.rs:28).
THEOREM ConsTypeCorrect == ConsSpec => []ConsTypeOK
<1>1. ConsInv => ConsTypeOK
  BY Zenon DEF ConsInv
<1> QED BY <1>1, ConsInvInit, ConsInvStep, PTL DEF ConsSpec

\* Between two certificates the application holds exactly what is committed,
\* at the engine's height (engine.rs:97): a block takes effect whole or the
\* engine never takes another.
THEOREM BetweenBlocksAlways == ConsSpec => []BetweenBlocks
<1>1. ConsInv => BetweenBlocks
  BY Zenon DEF ConsInv
<1> QED BY <1>1, ConsInvInit, ConsInvStep, PTL DEF ConsSpec

\* The committed state is a ledger that is only extended, one height with
\* each commit, that queries show whole, and that only the end of the process
\* takes back (types.rs:279, 353): engine and application implement
\* LedgerOutline.
THEOREM NeverRollsBack == ConsSpec => ImplementsOutline
<1>1. ConsInv /\ [ConsNext]_consVars => [Outline!OutlineNext]_<<committed_state, answer>>
  BY OutlineStepMaps, Zenon
<1>2. ConsSpec => []ConsInv
  BY ConsInvInit, ConsInvStep, PTL DEF ConsSpec
<1> QED BY <1>1, <1>2, OutlineInitMaps, PTL
        DEF ConsSpec, ImplementsOutline, Outline!OutlineSpec

-----------------------------------------------------------------------------
(* The linked list: what a call does to the links.                        *)

\* What the heap holds for a node.
NodeRecords == [data : LKeys, prev : Nodes \cup {Nil}, next : Nodes \cup {Nil}]

\* The node at place i of the list, if there is one.
At(s, i) == IF i \in 1..Len(s) THEN s[i] ELSE Nil

\* The nodes of l are those of s, and are linked in this order.
IsLinked(l, s) ==
    /\ s \in Seq(Nodes) /\ NoRepeats(s)
    /\ DOMAIN l.links = Range(s)
    /\ \A m \in Range(s) : l.links[m] \in NodeRecords
    /\ l.head = At(s, 1) /\ l.tail = At(s, Len(s))
    /\ \A i \in 1..Len(s) : /\ l.links[s[i]].prev = At(s, i - 1)
                            /\ l.links[s[i]].next = At(s, i + 1)

\* The map of l has one entry for each of them.
IsIndexed(l, s) ==
    /\ DOMAIN l.store \subseteq LKeys
    /\ \A k \in DOMAIN l.store : /\ l.store[k].value \in Values
                                 /\ l.store[k].node \in Range(s)
                                 /\ l.links[l.store[k].node].data = k
    /\ \A m \in Range(s) : /\ l.links[m].data \in DOMAIN l.store
                           /\ l.store[l.links[m].data].node = m

IsList(l, s) == IsLinked(l, s) /\ IsIndexed(l, s)

\* The key and the value of a node.
Entry(l, n) == [k |-> l.links[n].data, v |-> l.store[l.links[n].data].value]

\* new differs from links in the prev of n.
PrevIs(new, links, n, p) ==
    /\ DOMAIN new = DOMAIN links
    /\ \A m \in DOMAIN links :
         /\ new[m] \in NodeRecords
         /\ new[m].data = links[m].data
         /\ new[m].next = links[m].next
         /\ new[m].prev = IF m = n THEN p ELSE links[m].prev

\* Setting the prev of a neighbour does that and nothing else.
LEMMA SetPrevProps ==
    ASSUME NEW links, DOMAIN links \subseteq Nodes,
           \A m \in DOMAIN links : links[m] \in NodeRecords,
           NEW n \in DOMAIN links \cup {Nil}, NEW p \in Nodes \cup {Nil}
    PROVE  PrevIs(SetPrev(links, n, p), links, n, p)
BY NodeAssumption, Zenon DEF SetPrev, PrevIs, NodeRecords

\* new differs from links in the next of n.
NextIs(new, links, n, x) ==
    /\ DOMAIN new = DOMAIN links
    /\ \A m \in DOMAIN links :
         /\ new[m] \in NodeRecords
         /\ new[m].data = links[m].data
         /\ new[m].prev = links[m].prev
         /\ new[m].next = IF m = n THEN x ELSE links[m].next

\* The same for next.
LEMMA SetNextProps ==
    ASSUME NEW links, DOMAIN links \subseteq Nodes,
           \A m \in DOMAIN links : links[m] \in NodeRecords,
           NEW n \in DOMAIN links \cup {Nil}, NEW x \in Nodes \cup {Nil}
    PROVE  NextIs(SetNext(links, n, x), links, n, x)
BY NodeAssumption, Zenon DEF SetNext, NextIs, NodeRecords

\* The places of a list, and the nothing beyond its ends.
LEMMA AtProps ==
    ASSUME NEW s \in Seq(Nodes)
    PROVE  /\ Len(s) \in Nat /\ DOMAIN s = 1..Len(s)
           /\ \A i \in 1..Len(s) : s[i] \in Range(s) /\ s[i] \in Nodes /\ At(s, i) = s[i]
           /\ \A m \in Range(s) : m \in Nodes /\ \E i \in 1..Len(s) : m = s[i]
           /\ \A i \in Int : At(s, i) \in Range(s) \cup {Nil} /\ At(s, i) \in Nodes \cup {Nil}
           /\ \A i \in Int : i \notin 1..Len(s) => At(s, i) = Nil
BY DEF At, Range

\* The nodes of a list are those at its places.
LEMMA RangeIs ==
    ASSUME NEW s \in Seq(Nodes), NEW m
    PROVE  m \in Range(s) <=> \E i \in 1..Len(s) : m = s[i]
BY DEF Range

\* The places of a list with a node put at its end.
LEMMA AppendAt ==
    ASSUME NEW s \in Seq(Nodes), NEW n \in Nodes, NEW i \in Int
    PROVE  At(Append(s, n), i) = IF i = Len(s) + 1 THEN n ELSE At(s, i)
BY DEF At

\* A node goes to the end of the list.
LEMMA LinkedIsList ==
    ASSUME NEW l, NEW s, IsList(l, s), NEW k \in LKeys, k \notin DOMAIN l.store,
           NEW v \in Values, NEW n \in Nodes, n \notin DOMAIN l.links
    PROVE  /\ IsList(Linked(l, k, v, n), Append(s, n))
           /\ Entry(Linked(l, k, v, n), n) = [k |-> k, v |-> v]
           /\ \A m \in Range(s) : Entry(Linked(l, k, v, n), m) = Entry(l, m)
<1> DEFINE t == Append(s, n)
           set == SetNext(l.links, l.tail, n)
           lk == Linked(l, k, v, n)
<1>1. /\ s \in Seq(Nodes) /\ NoRepeats(s) /\ DOMAIN l.links = Range(s)
      /\ \A m \in Range(s) : l.links[m] \in NodeRecords
      /\ l.head = At(s, 1) /\ l.tail = At(s, Len(s))
      /\ \A i \in 1..Len(s) : /\ l.links[s[i]].prev = At(s, i - 1)
                              /\ l.links[s[i]].next = At(s, i + 1)
  BY Zenon DEF IsList, IsLinked
<1>2. /\ Len(s) \in Nat /\ Range(s) \subseteq Nodes /\ n \notin Range(s)
      /\ \A i \in 1..Len(s) : s[i] \in Range(s) /\ At(s, i) = s[i]
      /\ \A m \in Range(s) : \E i \in 1..Len(s) : m = s[i]
  BY <1>1, AtProps, Zenon
<1>3. /\ t \in Seq(Nodes) /\ Len(t) = Len(s) + 1 /\ t[Len(s) + 1] = n
      /\ \A i \in 1..Len(s) : t[i] = s[i]
      /\ \A i \in Int : At(t, i) = IF i = Len(s) + 1 THEN n ELSE At(s, i)
      /\ \A i \in Int : i \notin 1..Len(s) => At(s, i) = Nil
  BY <1>1, AppendAt, AtProps
<1>4. /\ NoRepeats(t) /\ Range(t) = Range(s) \cup {n}
  <2>0. \A m : /\ m \in Range(t) <=> \E i \in 1..Len(t) : m = t[i]
               /\ m \in Range(s) <=> \E i \in 1..Len(s) : m = s[i]
    <3> HIDE DEF t
    <3> QED BY <1>1, <1>3, RangeIs
  <2>1. Range(t) = Range(s) \cup {n}
    <3> HIDE DEF t
    <3> QED BY <1>2, <1>3, <2>0
  <2>2. NoRepeats(t)
    BY <1>1, <1>2, <1>3 DEF NoRepeats
  <2> QED BY <2>1, <2>2, Zenon
<1>5. /\ DOMAIN set = Range(s)
      /\ \A m \in Range(s) :
            /\ set[m] \in NodeRecords
            /\ set[m].data = l.links[m].data
            /\ set[m].prev = l.links[m].prev
            /\ set[m].next = IF m = l.tail THEN n ELSE l.links[m].next
  <2>1. l.tail \in DOMAIN l.links \cup {Nil}
    BY <1>1, AtProps
  <2>2. DOMAIN l.links \subseteq Nodes /\ \A m \in DOMAIN l.links : l.links[m] \in NodeRecords
    BY <1>1, <1>2, Zenon
  <2>3. NextIs(set, l.links, l.tail, n)
    BY <2>1, <2>2, SetNextProps, Zenon
  <2> QED BY <1>1, <2>3, Zenon DEF NextIs
<1>6. /\ lk.store = Put(l.store, k, [value |-> v, node |-> n])
      /\ lk.links = Put(set, n, [data |-> k, prev |-> l.tail, next |-> Nil])
      /\ lk.head = IF l.head = Nil THEN n ELSE l.head
      /\ lk.tail = n
  BY Zenon DEF Linked
<1> HIDE DEF t, set, lk
<1>7. /\ DOMAIN lk.links = Range(t)
      /\ lk.links[n] = [data |-> k, prev |-> l.tail, next |-> Nil]
      /\ \A m \in Range(s) : lk.links[m] = set[m]
  BY <1>2, <1>4, <1>5, <1>6 DEF Put
<1>8. \A m \in Range(t) : lk.links[m] \in NodeRecords
  <2>1. l.tail \in Nodes \cup {Nil}
    BY <1>1, AtProps
  <2>2. lk.links[n] \in NodeRecords
    BY <1>7, <2>1 DEF NodeRecords
  <2> QED BY <1>4, <1>5, <1>7, <2>2, Zenon
<1>9. lk.head = At(t, 1) /\ lk.tail = At(t, Len(t))
  <2>1. At(t, Len(t)) = n /\ At(t, 1) = IF Len(s) = 0 THEN n ELSE At(s, 1)
    BY <1>2, <1>3
  <2>2. At(s, 1) = Nil <=> Len(s) = 0
    <3>1. Len(s) # 0 => 1 \in 1..Len(s)
      BY <1>2
    <3>2. Len(s) = 0 => 1 \notin 1..Len(s)
      BY <1>2
    <3> QED BY <1>2, <1>3, <3>1, <3>2, NodeAssumption
  <2> QED BY <1>1, <1>6, <2>1, <2>2, Zenon
<1>10. ASSUME NEW i \in 1..Len(t)
       PROVE  /\ lk.links[t[i]].prev = At(t, i - 1)
              /\ lk.links[t[i]].next = At(t, i + 1)
  <2>1. CASE i = Len(s) + 1
    <3>1. At(t, i - 1) = l.tail /\ At(t, i + 1) = Nil
      BY <1>1, <1>2, <1>3, <2>1
    <3> QED BY <1>3, <1>7, <2>1, <3>1
  <2>2. CASE i # Len(s) + 1
    <3>1. i \in 1..Len(s) /\ t[i] = s[i] /\ s[i] \in Range(s)
      BY <1>2, <1>3, <2>2
    <3>2. /\ lk.links[t[i]].prev = At(s, i - 1)
          /\ lk.links[t[i]].next = IF s[i] = l.tail THEN n ELSE At(s, i + 1)
      <4>1. lk.links[t[i]] = set[s[i]]
        BY <1>7, <3>1
      <4>2. /\ set[s[i]].prev = l.links[s[i]].prev
            /\ set[s[i]].next = IF s[i] = l.tail THEN n ELSE l.links[s[i]].next
        BY <1>5, <3>1, Zenon
      <4>3. l.links[s[i]].prev = At(s, i - 1) /\ l.links[s[i]].next = At(s, i + 1)
        BY <1>1, <3>1, Zenon
      <4> QED BY <4>1, <4>2, <4>3, Zenon
    <3>3. At(t, i - 1) = At(s, i - 1) /\ At(t, i + 1) = IF i = Len(s) THEN n ELSE At(s, i + 1)
      BY <1>2, <1>3, <3>1
    <3>4. s[i] = l.tail <=> i = Len(s)
      <4>1. Len(s) \in 1..Len(s) /\ Len(s) \in DOMAIN s /\ i \in DOMAIN s
        BY <1>1, <1>2, <3>1
      <4> QED BY <1>1, <1>2, <4>1, Zenon DEF NoRepeats
    <3> QED BY <3>2, <3>3, <3>4, Zenon
  <2> QED BY <2>1, <2>2, Zenon
<1>11. IsLinked(lk, t)
  BY <1>3, <1>4, <1>7, <1>8, <1>9, <1>10, Zenon DEF IsLinked
<1>12. /\ DOMAIN lk.store = DOMAIN l.store \cup {k}
       /\ lk.store[k].value = v /\ lk.store[k].node = n
       /\ \A x \in DOMAIN l.store : lk.store[x] = l.store[x]
  BY <1>6 DEF Put
<1>13. IsIndexed(lk, t)
  <2>1. /\ DOMAIN l.store \subseteq LKeys
        /\ \A x \in DOMAIN l.store : /\ l.store[x].value \in Values
                                     /\ l.store[x].node \in Range(s)
                                     /\ l.links[l.store[x].node].data = x
        /\ \A m \in Range(s) : /\ l.links[m].data \in DOMAIN l.store
                               /\ l.store[l.links[m].data].node = m
    BY Zenon DEF IsList, IsIndexed
  <2>2. ASSUME NEW x \in DOMAIN lk.store
        PROVE  /\ lk.store[x].value \in Values
               /\ lk.store[x].node \in Range(t)
               /\ lk.links[lk.store[x].node].data = x
    <3>1. CASE x = k
      BY <1>4, <1>7, <1>12, <3>1
    <3>2. CASE x # k
      BY <1>4, <1>5, <1>7, <1>12, <2>1, <3>2
    <3> QED BY <3>1, <3>2, Zenon
  <2>3. ASSUME NEW m \in Range(t)
        PROVE  /\ lk.links[m].data \in DOMAIN lk.store
               /\ lk.store[lk.links[m].data].node = m
    <3>1. CASE m = n
      BY <1>7, <1>12, <3>1
    <3>2. CASE m # n
      BY <1>4, <1>5, <1>7, <1>12, <2>1, <3>2
    <3> QED BY <3>1, <3>2, Zenon
  <2> QED BY <1>12, <2>1, <2>2, <2>3, Zenon DEF IsIndexed
<1>14. Entry(lk, n) = [k |-> k, v |-> v]
  BY <1>7, <1>12 DEF Entry
<1>15. ASSUME NEW m \in Range(s) PROVE Entry(lk, m) = Entry(l, m)
  <2>1. lk.links[m].data = l.links[m].data
    BY <1>5, <1>7, Zenon
  <2>2. l.links[m].data \in DOMAIN l.store
    BY Zenon DEF IsList, IsIndexed
  <2> QED BY <1>12, <2>1, <2>2, Zenon DEF Entry
<1> QED BY <1>11, <1>13, <1>14, <1>15, Zenon DEF IsList, t, lk

\* s without its place j.
Cut(s, j) == [i \in 1..(Len(s) - 1) |-> IF i < j THEN s[i] ELSE s[i + 1]]

\* Dropping a place takes its node out of the list and no other.
LEMMA CutProps ==
    ASSUME NEW s \in Seq(Nodes), NoRepeats(s), NEW j \in 1..Len(s)
    PROVE  /\ Cut(s, j) \in Seq(Nodes) /\ Len(Cut(s, j)) = Len(s) - 1
           /\ NoRepeats(Cut(s, j)) /\ Range(Cut(s, j)) = Range(s) \ {s[j]}
<1> DEFINE t == Cut(s, j)
<1>1. Len(s) \in Nat /\ \A i \in 1..Len(s) : s[i] \in Nodes
  OBVIOUS
<1>2. t \in Seq(Nodes) /\ Len(t) = Len(s) - 1 /\ DOMAIN t = 1..(Len(s) - 1)
  <2>1. Len(s) - 1 \in Nat
    BY <1>1
  <2>2. t \in [1..(Len(s) - 1) -> Nodes]
    BY <1>1 DEF Cut
  <2> QED BY <2>1, <2>2
<1>3. \A i \in 1..(Len(s) - 1) : t[i] = IF i < j THEN s[i] ELSE s[i + 1]
  BY Zenon DEF Cut
<1> HIDE DEF t
<1>4. NoRepeats(t)
  BY <1>1, <1>2, <1>3 DEF NoRepeats
<1>5. ASSUME NEW m \in Range(t)
      PROVE  m \in Range(s) \ {s[j]}
  <2>1. PICK i \in 1..(Len(s) - 1) : m = t[i]
    BY <1>2, RangeIs, Zenon
  <2>2. PICK h \in 1..Len(s) : h # j /\ m = s[h]
    <3>1. CASE i < j
      BY <1>1, <1>3, <2>1, <3>1
    <3>2. CASE ~(i < j)
      BY <1>1, <1>3, <2>1, <3>2
    <3> QED BY <3>1, <3>2, Zenon
  <2>3. m \in Range(s)
    BY <2>2, RangeIs, Zenon
  <2> QED BY <1>1, <2>2, <2>3 DEF NoRepeats
<1>6. ASSUME NEW m \in Range(s), m # s[j]
      PROVE  m \in Range(t)
  <2>1. PICK h \in 1..Len(s) : m = s[h]
    BY RangeIs, Zenon
  <2>2. h # j
    BY <1>6, <2>1, Zenon
  <2>3. \E i \in 1..(Len(s) - 1) : m = t[i]
    <3>1. CASE h < j
      BY <1>1, <1>3, <2>1, <3>1
    <3>2. CASE h > j
      <4>1. h - 1 \in 1..(Len(s) - 1) /\ ~(h - 1 < j) /\ (h - 1) + 1 = h
        BY <1>1, <3>2
      <4> QED BY <1>3, <2>1, <4>1, Zenon
    <3> QED BY <2>2, <3>1, <3>2
  <2> QED BY <1>2, <2>3, RangeIs, Zenon
<1>7. Range(t) = Range(s) \ {s[j]}
  BY <1>5, <1>6, Zenon
<1> QED BY <1>2, <1>4, <1>7, Zenon DEF t

\* The places that are left.
LEMMA CutAt ==
    ASSUME NEW s \in Seq(Nodes), NoRepeats(s), NEW j \in 1..Len(s), NEW i \in Int
    PROVE  At(Cut(s, j), i) = IF i < j THEN At(s, i) ELSE At(s, i + 1)
<1>1. PICK t : t = Cut(s, j)
  BY Zenon
<1>2. Len(s) \in Nat /\ Len(t) = Len(s) - 1
  BY <1>1, CutProps
<1>3. i \in 1..Len(t) => t[i] = IF i < j THEN s[i] ELSE s[i + 1]
  BY <1>1, <1>2, Zenon DEF Cut
<1>4. /\ i < j => (i \in 1..Len(t) <=> i \in 1..Len(s))
      /\ ~(i < j) => (i \in 1..Len(t) <=> i + 1 \in 1..Len(s))
  BY <1>2
<1> QED BY <1>1, <1>3, <1>4, Zenon DEF At

\* A node leaves the list, from the head, the tail or between.
LEMMA UnlinkedIsList ==
    ASSUME NEW l, NEW s, IsList(l, s), NEW j \in 1..Len(s)
    PROVE  LET un == Unlinked(l, l.links[s[j]].data)
           IN  IsList(un, Cut(s, j)) /\ \A m \in Range(s) \ {s[j]} : Entry(un, m) = Entry(l, m)
<1> DEFINE t == Cut(s, j)
           n == s[j]
           k == l.links[n].data
           p == At(s, j - 1)
           x == At(s, j + 1)
           cut == Del(l.links, n)
           half == SetPrev(cut, x, p)
           new == SetNext(half, p, x)
           un == Unlinked(l, k)
<1>1. /\ s \in Seq(Nodes) /\ NoRepeats(s) /\ DOMAIN l.links = Range(s)
      /\ \A m \in Range(s) : l.links[m] \in NodeRecords
      /\ l.head = At(s, 1) /\ l.tail = At(s, Len(s))
      /\ \A i \in 1..Len(s) : /\ l.links[s[i]].prev = At(s, i - 1)
                              /\ l.links[s[i]].next = At(s, i + 1)
  BY Zenon DEF IsList, IsLinked
<1>2. /\ DOMAIN l.store \subseteq LKeys
      /\ \A y \in DOMAIN l.store : /\ l.store[y].value \in Values
                                   /\ l.store[y].node \in Range(s)
                                   /\ l.links[l.store[y].node].data = y
      /\ \A m \in Range(s) : /\ l.links[m].data \in DOMAIN l.store
                             /\ l.store[l.links[m].data].node = m
  BY Zenon DEF IsList, IsIndexed
<1>3. /\ Len(s) \in Nat /\ Range(s) \subseteq Nodes
      /\ \A i \in 1..Len(s) : s[i] \in Range(s) /\ At(s, i) = s[i]
      /\ \A i \in Int : At(s, i) \in Range(s) \cup {Nil} /\ At(s, i) \in Nodes \cup {Nil}
      /\ \A i \in Int : i \notin 1..Len(s) => At(s, i) = Nil
  BY <1>1, AtProps, Zenon
<1>4. /\ t \in Seq(Nodes) /\ Len(t) = Len(s) - 1
      /\ NoRepeats(t) /\ Range(t) = Range(s) \ {n}
  BY <1>1, CutProps, Zenon
<1>5. \A i \in 1..(Len(s) - 1) : t[i] = IF i < j THEN s[i] ELSE s[i + 1]
  BY Zenon DEF Cut
<1>5b. \A i \in Int : At(t, i) = IF i < j THEN At(s, i) ELSE At(s, i + 1)
  BY <1>1, CutAt, Zenon
<1>6. n \in Range(s) /\ k \in DOMAIN l.store /\ l.store[k].node = n
  BY <1>2, <1>3, Zenon
<1>7. /\ l.links[n].prev = p /\ l.links[n].next = x
      /\ p \in Nodes \cup {Nil} /\ x \in Nodes \cup {Nil}
      /\ p \in Range(s) \cup {Nil} /\ x \in Range(s) \cup {Nil}
  BY <1>1, <1>3
<1>8. p # n /\ x # n
  BY <1>1, <1>3, <1>6, NodeAssumption DEF At, NoRepeats
<1>9. /\ un.store = Del(l.store, k)
      /\ un.links = new
      /\ un.head = IF p = Nil THEN x ELSE l.head
      /\ un.tail = IF x = Nil THEN p ELSE l.tail
  BY <1>6, <1>7, Zenon DEF Unlinked
<1>10. /\ DOMAIN cut = Range(t)
       /\ \A m \in Range(t) : cut[m] = l.links[m] /\ cut[m] \in NodeRecords
  BY <1>1, <1>4, Zenon DEF Del, Restrict
<1> HIDE DEF cut
<1>11. Range(t) \subseteq Nodes /\ p \in Range(t) \cup {Nil} /\ x \in Range(t) \cup {Nil}
  BY <1>3, <1>4, <1>7, <1>8, Zenon
<1>12. PrevIs(half, cut, x, p)
  BY <1>7, <1>10, <1>11, SetPrevProps, Zenon
<1> HIDE DEF half
<1>13. NextIs(new, half, p, x)
  BY <1>7, <1>10, <1>11, <1>12, SetNextProps, Zenon DEF PrevIs
<1> HIDE DEF new, p, x
<1>14. /\ DOMAIN new = Range(t)
       /\ \A m \in Range(t) :
            /\ new[m] \in NodeRecords
            /\ new[m].data = l.links[m].data
            /\ new[m].prev = IF m = x THEN p ELSE l.links[m].prev
            /\ new[m].next = IF m = p THEN x ELSE l.links[m].next
  <2>1. DOMAIN new = Range(t) /\ DOMAIN half = Range(t)
    BY <1>10, <1>12, <1>13, Zenon DEF PrevIs, NextIs
  <2>2. ASSUME NEW m \in Range(t)
        PROVE  /\ new[m] \in NodeRecords
               /\ new[m].data = l.links[m].data
               /\ new[m].prev = IF m = x THEN p ELSE l.links[m].prev
               /\ new[m].next = IF m = p THEN x ELSE l.links[m].next
    BY <1>10, <1>12, <1>13, <2>1, Zenon DEF PrevIs, NextIs
  <2> QED BY <2>1, <2>2, Zenon
<1> HIDE DEF t, n, k, un
<1>15. un.head = At(t, 1) /\ un.tail = At(t, Len(t))
  <2>1. /\ At(t, 1) = IF j = 1 THEN At(s, 2) ELSE At(s, 1)
        /\ At(t, Len(t)) = IF j = Len(s) THEN At(s, Len(s) - 1) ELSE At(s, Len(s))
    <3>1. /\ 1 \in Int /\ Len(t) \in Int /\ 1 + 1 = 2 /\ Len(t) + 1 = Len(s) /\ Len(t) = Len(s) - 1
          /\ (1 < j <=> j # 1) /\ (Len(t) < j <=> j = Len(s))
      BY <1>3, <1>4
    <3> QED BY <1>5b, <3>1, Zenon
  <2>2. p = Nil <=> j = 1
    <3>1. j # 1 => j - 1 \in 1..Len(s)
      BY <1>3
    <3>2. j = 1 => j - 1 \in Int /\ j - 1 \notin 1..Len(s)
      BY <1>3
    <3> QED BY <1>3, <3>1, <3>2, NodeAssumption, Zenon DEF p
  <2>3. x = Nil <=> j = Len(s)
    <3>1. j # Len(s) => j + 1 \in 1..Len(s)
      BY <1>3
    <3>2. j = Len(s) => j + 1 \in Int /\ j + 1 \notin 1..Len(s)
      BY <1>3
    <3> QED BY <1>3, <3>1, <3>2, NodeAssumption, Zenon DEF x
  <2>4. (j = 1 => x = At(s, 2)) /\ (j = Len(s) => p = At(s, Len(s) - 1))
    <3>1. 1 + 1 = 2
      OBVIOUS
    <3> QED BY <3>1, Zenon DEF x, p
  <2> QED BY <1>1, <1>9, <2>1, <2>2, <2>3, <2>4, Zenon
<1>16. ASSUME NEW i \in 1..Len(t)
       PROVE  /\ new[t[i]].prev = At(t, i - 1)
              /\ new[t[i]].next = At(t, i + 1)
  <2>1. PICK h \in 1..Len(s) : h = (IF i < j THEN i ELSE i + 1) /\ t[i] = s[h] /\ h # j
    BY <1>3, <1>4, <1>5
  <2>2. /\ t[i] \in Range(t)
        /\ l.links[s[h]].prev = At(s, h - 1) /\ l.links[s[h]].next = At(s, h + 1)
    BY <1>1, <1>4, RangeIs, Zenon
  <2>3. /\ new[t[i]].prev = IF s[h] = x THEN p ELSE At(s, h - 1)
        /\ new[t[i]].next = IF s[h] = p THEN x ELSE At(s, h + 1)
    BY <1>14, <2>1, <2>2
  <2>4. (s[h] = x) <=> (h = j + 1)
    BY <1>1, <1>3, NodeAssumption DEF x, At, NoRepeats
  <2>5. (s[h] = p) <=> (h = j - 1)
    BY <1>1, <1>3, NodeAssumption DEF p, At, NoRepeats
  <2>6. new[t[i]].prev = At(t, i - 1)
    <3>1. i - 1 \in Int /\ (i - 1) + 1 = i
      BY <1>3, <1>4
    <3>2. At(t, i - 1) = IF i - 1 < j THEN At(s, i - 1) ELSE At(s, i)
      BY <1>5b, <3>1, Zenon
    <3>3. /\ i < j => h = i /\ h # j + 1 /\ i - 1 < j
          /\ i = j => h = j + 1 /\ i - 1 = j - 1 /\ i - 1 < j
          /\ i > j => h # j + 1 /\ h - 1 = i /\ ~(i - 1 < j)
          /\ i < j \/ i = j \/ i > j
      BY <1>3, <1>4, <2>1
    <3> QED BY <2>3, <2>4, <3>2, <3>3, Zenon DEF p
  <2>7. new[t[i]].next = At(t, i + 1)
    <3>1. i + 1 \in Int
      BY <1>3, <1>4
    <3>2. At(t, i + 1) = IF i + 1 < j THEN At(s, i + 1) ELSE At(s, (i + 1) + 1)
      BY <1>5b, <3>1, Zenon
    <3>3. /\ i + 1 < j => h = i /\ h # j - 1
          /\ i + 1 = j => h = j - 1 /\ (i + 1) + 1 = j + 1 /\ ~(i + 1 < j)
          /\ i + 1 > j => h # j - 1 /\ h + 1 = (i + 1) + 1 /\ ~(i + 1 < j)
          /\ i + 1 < j \/ i + 1 = j \/ i + 1 > j
      BY <1>3, <1>4, <2>1
    <3> QED BY <2>3, <2>5, <3>2, <3>3, Zenon DEF x
  <2> QED BY <2>6, <2>7, Zenon
<1>17. IsLinked(un, t)
  BY <1>4, <1>9, <1>14, <1>15, <1>16, Zenon DEF IsLinked
<1>18. DOMAIN un.store = DOMAIN l.store \ {k} /\ \A y \in DOMAIN un.store : un.store[y] = l.store[y]
  BY <1>9, Zenon DEF Del, Restrict
<1>19. IsIndexed(un, t)
  <2>1. ASSUME NEW y \in DOMAIN un.store
        PROVE  /\ un.store[y].value \in Values
               /\ un.store[y].node \in Range(t)
               /\ un.links[un.store[y].node].data = y
    <3>1. y # k /\ y \in DOMAIN l.store /\ un.store[y] = l.store[y]
      BY <1>18, Zenon
    <3>2. l.store[y].node # n
      BY <1>2, <3>1, Zenon DEF k
    <3> QED BY <1>2, <1>4, <1>9, <1>14, <3>1, <3>2
  <2>2. ASSUME NEW m \in Range(t)
        PROVE  /\ un.links[m].data \in DOMAIN un.store
               /\ un.store[un.links[m].data].node = m
    <3>1. m \in Range(s) /\ m # n /\ un.links[m].data = l.links[m].data
      BY <1>4, <1>9, <1>14, Zenon
    <3>2. l.links[m].data # k
      BY <1>2, <1>6, <3>1, Zenon
    <3> QED BY <1>2, <1>18, <3>1, <3>2
  <2> QED BY <1>2, <1>18, <2>1, <2>2, Zenon DEF IsIndexed
<1>20. ASSUME NEW m \in Range(t) PROVE Entry(un, m) = Entry(l, m)
  <2>1. un.links[m].data = l.links[m].data /\ un.links[m].data \in DOMAIN un.store
    BY <1>9, <1>14, <1>19, Zenon DEF IsIndexed
  <2> QED BY <1>18, <2>1, Zenon DEF Entry
<1> QED BY <1>4, <1>17, <1>19, <1>20, Zenon DEF IsList, t, un, k, n

\* Lru::new: nothing is linked.
LEMMA EmptyIsList ==
    ASSUME NEW l, l.store = EmptyMap, l.links = EmptyMap, l.head = Nil, l.tail = Nil
    PROVE  IsList(l, <<>>)
BY DEF IsList, IsLinked, IsIndexed, EmptyMap, At, Range, NoRepeats

-----------------------------------------------------------------------------
(* Every commit adds one certificate.                                      *)

\* FlatMap follows the recursion of its definition.
Flattens(f, S, V) ==
    /\ ToLedger!FlatMap(f, <<>>) = <<>>
    /\ \A s \in Seq(S) :
         /\ ToLedger!FlatMap(f, s) \in Seq(V)
         /\ s # <<>> => ToLedger!FlatMap(f, s) = f[Head(s)] \o ToLedger!FlatMap(f, Tail(s))

\* It does for any function that maps elements to sequences, as FlatMapProps
\* shows at the end; what follows from it comes before.
FlatMapsFold == \A S, V : \A f \in [S -> Seq(V)] : Flattens(f, S, V)

\* A sequence that is not empty has a head and a shorter tail.
LEMMA HeadTail ==
    ASSUME NEW S, NEW t \in Seq(S), t # <<>>
    PROVE  /\ Head(t) \in S /\ Tail(t) \in Seq(S)
           /\ Len(Tail(t)) \in Nat /\ Len(t) = Len(Tail(t)) + 1
OBVIOUS

\* Joining sequences.
LEMMA JoinProps ==
    ASSUME NEW S, NEW a \in Seq(S), NEW b \in Seq(S)
    PROVE  a \o b \in Seq(S) /\ <<>> \o b = b /\ a \o <<>> = a
OBVIOUS

\* Joining is associative, for transactions
LEMMA JoinTxs == \A a, b, c \in Seq(Txs) : (a \o b) \o c = a \o (b \o c)
OBVIOUS

\* and for the contents of a ledger.
LEMMA JoinLog == \A a, b, c \in Seq(Log) : (a \o b) \o c = a \o (b \o c)
OBVIOUS

\* The head and the tail of a sequence with an element put before it.
LEMMA JoinHead ==
    ASSUME NEW S, NEW e \in S, NEW r \in Seq(S)
    PROVE  /\ <<e>> \o r \in Seq(S) /\ <<e>> \o r # <<>>
           /\ Head(<<e>> \o r) = e /\ Tail(<<e>> \o r) = r
<1>1. PICK u : u = <<e>> \o r
  BY Zenon
<1>2. u \in Seq(S) /\ Len(u) = Len(r) + 1 /\ u[1] = e /\ \A i \in 1..Len(r) : u[i + 1] = r[i]
  BY <1>1
<1>3. u # <<>> /\ Head(u) = e
  BY <1>2
<1>4. Tail(u) = r
  <2>1. PICK w : w = Tail(u)
    BY Zenon
  <2>2. w \in Seq(S) /\ Len(w) = Len(r) /\ \A i \in 1..Len(r) : w[i] = r[i]
    BY <1>2, <1>3, <2>1
  <2>3. w = [i \in 1..Len(w) |-> w[i]] /\ r = [i \in 1..Len(r) |-> r[i]]
    BY <2>2
  <2> QED BY <2>1, <2>2, <2>3, Zenon
<1> QED BY <1>1, <1>2, <1>3, <1>4, Zenon

\* A sequence is its head before its tail.
LEMMA HeadThenTail ==
    ASSUME NEW S, NEW t \in Seq(S), t # <<>>
    PROVE  t = <<Head(t)>> \o Tail(t)
OBVIOUS

\* Appending joins a sequence of one.
LEMMA AppendIsJoin ==
    ASSUME NEW S, NEW t \in Seq(S), NEW e \in S
    PROVE  Append(t, e) = t \o <<e>>
OBVIOUS

\* What is executed of batches still to deliver: nothing of none, and what
\* the first transaction leaves before what the others do.
LEMMA ExecutedProps ==
    ASSUME FlatMapsFold, NEW t \in Seq(Seq(Txs))
    PROVE  /\ ToLedger!Executed(t) \in Seq(Txs)
           /\ t = <<>> => ToLedger!Executed(t) = <<>>
           /\ t # <<>> /\ Head(t) = <<>> => ToLedger!Executed(t) = ToLedger!Executed(Tail(t))
           /\ t # <<>> /\ Head(t) # <<>> =>
                ToLedger!Executed(t) = ToLedger!Effect[Head(Head(t))]
                                         \o ToLedger!Executed(<<Tail(Head(t))>> \o Tail(t))
<1> DEFINE E == ToLedger!Effect
           B == ToLedger!BatchEffect
           X(s) == ToLedger!Executed(s)
<1>1. E \in [Txs -> Seq(Txs)]
  BY DEF ToLedger!Effect
<1>2. Flattens(E, Txs, Txs)
  BY <1>1, Zenon DEF FlatMapsFold
<1>3. \A b \in Seq(Txs) : B[b] = ToLedger!FlatMap(E, b)
  BY Zenon DEF ToLedger!BatchEffect
<1>4. B \in [Seq(Txs) -> Seq(Txs)]
  BY <1>2, Zenon DEF ToLedger!BatchEffect, Flattens
<1>5. Flattens(B, Seq(Txs), Txs)
  BY <1>4, Zenon DEF FlatMapsFold
<1> HIDE DEF E, B
<1>6. /\ X(<<>>) = <<>>
      /\ \A s \in Seq(Seq(Txs)) : X(s) \in Seq(Txs) /\ (s # <<>> => X(s) = B[Head(s)] \o X(Tail(s)))
  BY <1>5, Zenon DEF ToLedger!Executed, Flattens, B
<1>7. /\ B[<<>>] = <<>>
      /\ \A b \in Seq(Txs) : B[b] \in Seq(Txs) /\ (b # <<>> => B[b] = E[Head(b)] \o B[Tail(b)])
  <2>1. B[<<>>] = <<>>
    <3>1. <<>> \in Seq(Txs)
      OBVIOUS
    <3> QED BY <1>2, <1>3, <3>1, Zenon DEF Flattens
  <2>2. ASSUME NEW b \in Seq(Txs), b # <<>> PROVE B[b] = E[Head(b)] \o B[Tail(b)]
    <3>1. Tail(b) \in Seq(Txs)
      BY <2>2, HeadTail, Zenon
    <3>2. ToLedger!FlatMap(E, b) = E[Head(b)] \o ToLedger!FlatMap(E, Tail(b))
      BY <1>2, <2>2, Zenon DEF Flattens
    <3> QED BY <1>3, <3>1, <3>2, Zenon
  <2> QED BY <1>4, <2>1, <2>2, Zenon
<1> HIDE DEF X
<1>8. ASSUME t # <<>>, Head(t) = <<>> PROVE X(t) = X(Tail(t))
  <2>1. Tail(t) \in Seq(Seq(Txs)) /\ X(Tail(t)) \in Seq(Txs)
    BY <1>6, <1>8, HeadTail, Zenon
  <2>2. X(t) = <<>> \o X(Tail(t))
    BY <1>6, <1>7, <1>8, Zenon
  <2> QED BY <2>1, <2>2, JoinProps, Zenon
<1>9. ASSUME t # <<>>, Head(t) # <<>>
      PROVE  X(t) = E[Head(Head(t))] \o X(<<Tail(Head(t))>> \o Tail(t))
  <2>1. PICK b \in Seq(Txs) : b = Head(t)
    BY <1>9, HeadTail, Zenon
  <2>2. PICK r \in Seq(Seq(Txs)) : r = Tail(t)
    BY <1>9, HeadTail, Zenon
  <2>3. PICK b2 \in Seq(Txs) : b2 = Tail(b)
    BY <1>9, <2>1, HeadTail, Zenon
  <2>4. PICK u \in Seq(Seq(Txs)) : u = <<b2>> \o r
    BY JoinHead, Zenon
  <2>5. u # <<>> /\ Head(u) = b2 /\ Tail(u) = r
    BY <2>4, JoinHead, Zenon
  <2>6. X(u) = B[b2] \o X(r)
    BY <1>6, <2>5, Zenon
  <2>7. X(t) = (E[Head(b)] \o B[b2]) \o X(r)
    <3>1. X(t) = B[b] \o X(r)
      BY <1>6, <1>9, <2>1, <2>2, Zenon
    <3>2. B[b] = E[Head(b)] \o B[b2]
      BY <1>7, <1>9, <2>1, <2>3, Zenon
    <3> QED BY <3>1, <3>2, Zenon
  <2>8. E[Head(b)] \in Seq(Txs) /\ B[b2] \in Seq(Txs) /\ X(r) \in Seq(Txs)
    <3>1. Head(b) \in Txs
      BY <1>9, <2>1, HeadTail, Zenon
    <3>2. E[Head(b)] \in Seq(Txs)
      BY <1>1, <3>1, Zenon
    <3> QED BY <1>6, <1>7, <3>2, Zenon
  <2>9. X(t) = E[Head(b)] \o (B[b2] \o X(r))
    <3> DEFINE Join(x, y) == x \o y
    <3>1. \A x, y, z \in Seq(Txs) : Join(Join(x, y), z) = Join(x, Join(y, z))
      BY JoinTxs, Zenon
    <3>2. X(t) = Join(Join(E[Head(b)], B[b2]), X(r))
      BY <2>7, Zenon
    <3> HIDE DEF Join
    <3>3. X(t) = Join(E[Head(b)], Join(B[b2], X(r)))
      BY <2>8, <3>1, <3>2, Zenon
    <3> QED BY <3>3, Zenon DEF Join
  <2> QED BY <2>1, <2>2, <2>3, <2>4, <2>6, <2>9, Zenon
<1> QED BY <1>6, <1>8, <1>9, Zenon DEF X, E

-----------------------------------------------------------------------------

\* What the ledger holds when the transactions of the next block come.
Base ==
    committed_state.db
        \o (IF committed_state.block_height = 0 THEN <<Genesis>> ELSE <<>>)

\* The whole certificate whose block has put db on the base, but for rest.
Explained(db, rest) ==
    \E payload \in Payloads : /\ ToLedger!Whole(payload)
                              /\ db \o rest = Base \o ToLedger!Executed(payload)

\* If what is left of a block can be delivered, delivering it completes a
\* certificate; and a block that has ended is a certificate.
BlockInv ==
    /\ engine = "block" /\ ToLedger!Whole(todo) =>
           Explained(current_state.db, ToLedger!Executed(todo))
    /\ engine = "ended" => Explained(current_state.db, <<>>)

\* The databases are sequences, also before a block.
LEMMA LedgerTyped ==
    ASSUME ConsInv
    PROVE  /\ current_state.db \in Seq(Log) /\ committed_state.db \in Seq(Log)
           /\ committed_state.block_height \in Nat /\ Base \in Seq(Log)
           /\ todo \in Seq(Batches)
<1>1. /\ current_state.db \in Seq(Log) /\ committed_state.db \in Seq(Log)
      /\ committed_state.block_height \in Nat /\ todo \in Seq(Batches)
  BY Zenon DEF ConsInv, ConsTypeOK, States, Log, Batches
<1>2. <<Genesis>> \in Seq(Log) /\ <<>> \in Seq(Log)
  BY DEF Log
<1>3. Base \in Seq(Log)
  BY <1>1, <1>2, JoinProps, Zenon DEF Base
<1> QED BY <1>1, <1>3, Zenon

\* Batches that can all be delivered.
LEMMA WholeIs ==
    ASSUME NEW t \in Seq(Batches)
    PROVE  ToLedger!Whole(t) <=> t \in Seq(Seq(Txs))
<1>1. DOMAIN t = 1..Len(t) /\ Len(t) \in Nat
  OBVIOUS
<1>2. ASSUME ToLedger!Whole(t) PROVE t \in Seq(Seq(Txs))
  <2>1. t \in [1..Len(t) -> Seq(Txs)]
    BY <1>1, <1>2 DEF ToLedger!Whole
  <2> QED BY <1>1, <2>1
<1>3. ASSUME t \in Seq(Seq(Txs)) PROVE ToLedger!Whole(t)
  BY <1>3 DEF ToLedger!Whole
<1> QED BY <1>2, <1>3, Zenon

\* Executed transactions are part of the log.
LEMMA ExecutedInLog ==
    ASSUME FlatMapsFold, NEW t \in Seq(Seq(Txs))
    PROVE  ToLedger!Executed(t) \in Seq(Log)
<1>1. ToLedger!Executed(t) \in Seq(Txs)
  BY ExecutedProps, Zenon
<1> QED BY <1>1 DEF Log

\* handle_cert: if every batch was found, what is left is the certificate.
LEMMA CertKeepsBlock ==
    ASSUME ConsInv, handle_cert
    PROVE  BlockInv'
<1>1. /\ engine = "idle" /\ engine' = "block"
      /\ current_state' = current_state /\ committed_state' = committed_state
  BY Zenon DEF handle_cert, appVars
<1>2. PICK payload \in Payloads : payload = Head(rx_output)
  <2>1. rx_output \in Seq(Payloads) /\ rx_output # <<>>
    BY Zenon DEF handle_cert, ConsInv, ConsTypeOK
  <2> QED BY <2>1, HeadTail, Zenon
<1>3. PICK absent \in SUBSET DOMAIN payload : todo' = reconstruct(payload, absent)
  BY <1>2, Zenon DEF handle_cert
<1>4. payload \in Seq(Seq(Txs \cup {Malformed}))
  BY ConsensusAssumption, Zenon
<1>5. ASSUME ToLedger!Whole(todo') PROVE todo' = payload
  <2>1. ASSUME NEW i \in absent PROVE FALSE
    <3>1. i \in DOMAIN todo' /\ todo'[i] = <<Missing>>
      BY <1>3, Zenon DEF reconstruct
    <3>2. <<Missing>> \in Seq(Txs)
      BY <1>5, <3>1, Zenon DEF ToLedger!Whole
    <3>3. Missing \in Txs
      <4>1. <<Missing>>[1] \in Txs
        BY <3>2
      <4> QED BY <4>1, Zenon
    <3> QED BY <3>3, ConsensusAssumption, Zenon
  <2>2. todo' = [i \in DOMAIN payload |-> payload[i]]
    BY <1>3, <2>1, Zenon DEF reconstruct
  <2>3. payload = [i \in DOMAIN payload |-> payload[i]]
    BY <1>4
  <2> QED BY <2>2, <2>3, Zenon
<1>6. current_state.db = Base
  <2>1. last_block_height = committed_state.block_height /\ committed_state \in States
    BY <1>1, Zenon DEF ConsInv, BetweenBlocks, ConsTypeOK
  <2>2. committed_state.db \in Seq(Log)
    BY LedgerTyped, Zenon
  <2>3. CASE committed_state.block_height = 0
    <3>1. current_state = execute(committed_state, Genesis)
      BY <1>1, <2>1, <2>3, Zenon DEF ConsInv, BetweenBlocks
    <3>2. Genesis \in Log
      BY Zenon DEF Log
    <3>3. current_state.db = Append(committed_state.db, Genesis)
      BY <2>1, <3>1, <3>2, ExecuteProps, Zenon
    <3>4. Append(committed_state.db, Genesis) = committed_state.db \o <<Genesis>>
      BY <2>2, <3>2, AppendIsJoin, Zenon
    <3> QED BY <2>3, <3>3, <3>4, Zenon DEF Base
  <2>4. CASE committed_state.block_height # 0
    <3>1. current_state = committed_state
      BY <1>1, <2>1, <2>4, Zenon DEF ConsInv, BetweenBlocks
    <3> QED BY <2>2, <2>4, <3>1, JoinProps, Zenon DEF Base
  <2> QED BY <2>3, <2>4, Zenon
<1>7. Base' = Base
  BY <1>1, Zenon DEF Base
<1>8. ASSUME ToLedger!Whole(todo')
      PROVE  \E p \in Payloads : /\ ToLedger!Whole(p)
                                 /\ current_state'.db \o ToLedger!Executed(todo')
                                      = Base' \o ToLedger!Executed(p)
  BY <1>1, <1>5, <1>6, <1>7, <1>8, Zenon
<1> QED BY <1>1, <1>8, Zenon DEF BlockInv, Explained

\* Delivering a transaction moves it from what is left to what is there.
LEMMA DeliverKeepsBlock ==
    ASSUME FlatMapsFold, ConsInv, BlockInv, engine_deliver_tx
    PROVE  BlockInv'
<1>1. /\ engine = "block" /\ engine' = "block" /\ committed_state' = committed_state
      /\ todo # <<>> /\ Head(todo) # <<>> /\ Head(Head(todo)) \in Txs
      /\ deliver_tx(Head(Head(todo)))
      /\ todo' = <<Tail(Head(todo))>> \o Tail(todo)
  BY Zenon DEF engine_deliver_tx, Delivering, deliver_tx
<1>2. current_state.db \in Seq(Log) /\ todo \in Seq(Batches) /\ Base' = Base
  BY <1>1, LedgerTyped, Zenon DEF Base
<1>3. PICK b \in Batches : b = Head(todo)
  BY <1>1, <1>2, HeadTail, Zenon
<1>4. PICK r \in Seq(Batches) : r = Tail(todo)
  BY <1>1, <1>2, HeadTail, Zenon
<1>5. PICK b2 \in Batches : b2 = Tail(b)
  BY <1>1, <1>3, HeadTail, Zenon DEF Batches
<1>6. todo' = <<b2>> \o r
  BY <1>1, <1>3, <1>4, <1>5, Zenon
<1>7. todo' \in Seq(Batches) /\ Head(todo') = b2 /\ Tail(todo') = r /\ todo' # <<>>
  BY <1>6, JoinHead, Zenon
<1>8. SUFFICES ASSUME ToLedger!Whole(todo')
               PROVE  \E p \in Payloads : /\ ToLedger!Whole(p)
                                          /\ current_state'.db \o ToLedger!Executed(todo')
                                               = Base' \o ToLedger!Executed(p)
  BY <1>1, Zenon DEF BlockInv, Explained
<1>9. todo' \in Seq(Seq(Txs)) /\ b2 \in Seq(Txs) /\ r \in Seq(Seq(Txs))
  <2>1. todo' \in Seq(Seq(Txs))
    BY <1>7, <1>8, WholeIs, Zenon
  <2> QED BY <1>7, <2>1, HeadTail, Zenon
<1>10. todo \in Seq(Seq(Txs)) /\ b \in Seq(Txs)
  <2>1. b \in Seq(Txs)
    <3>1. Head(b) \in Txs /\ b # <<>>
      BY <1>1, <1>3, Zenon
    <3>2. b = <<Head(b)>> \o Tail(b)
      BY <3>1, HeadThenTail, Zenon DEF Batches
    <3> QED BY <1>5, <1>9, <3>1, <3>2, JoinHead, Zenon
  <2>2. todo = <<b>> \o r
    BY <1>1, <1>2, <1>3, <1>4, HeadThenTail, Zenon
  <2> QED BY <1>9, <2>1, <2>2, JoinHead, Zenon
<1>11. PICK p \in Payloads : /\ ToLedger!Whole(p)
                             /\ current_state.db \o ToLedger!Executed(todo)
                                  = Base \o ToLedger!Executed(p)
  BY <1>1, <1>2, <1>10, WholeIs, Zenon DEF BlockInv, Explained
<1>12. PICK e : e = ToLedger!Effect[Head(b)]
  BY Zenon
<1>13. ToLedger!Executed(todo) = e \o ToLedger!Executed(todo')
  BY <1>1, <1>3, <1>10, <1>12, ExecutedProps, Zenon
<1>14. e \in Seq(Log) /\ current_state'.db = current_state.db \o e
  <2>1. Head(b) \in Txs /\ Head(b) \in Log /\ <<Head(b)>> \in Seq(Log) /\ <<>> \in Seq(Log)
    BY <1>1, <1>3 DEF Log
  <2>2. e = IF Head(b) \in Undecodable THEN <<>> ELSE <<Head(b)>>
    BY <1>12, <2>1, Zenon DEF ToLedger!Effect
  <2>3. CASE Head(b) \in Undecodable
    <3>1. current_state' = current_state
      BY <1>1, <1>3, <2>3, Zenon DEF deliver_tx
    <3> QED BY <1>2, <2>1, <2>2, <2>3, <3>1, JoinProps, Zenon
  <2>4. CASE Head(b) \notin Undecodable
    <3>1. current_state' = execute(current_state, Head(b)) /\ current_state \in States
      BY <1>1, <1>3, <2>4, Zenon DEF deliver_tx, ConsInv, ConsTypeOK
    <3>2. current_state'.db = Append(current_state.db, Head(b))
      BY <2>1, <3>1, ExecuteProps, Zenon
    <3>3. Append(current_state.db, Head(b)) = current_state.db \o <<Head(b)>>
      BY <1>2, <2>1, AppendIsJoin, Zenon
    <3> QED BY <2>1, <2>2, <2>4, <3>2, <3>3, Zenon
  <2> QED BY <2>3, <2>4, Zenon
<1>15. ToLedger!Executed(todo') \in Seq(Log)
  BY <1>9, ExecutedInLog, Zenon
<1>16. (current_state.db \o e) \o ToLedger!Executed(todo')
         = current_state.db \o (e \o ToLedger!Executed(todo'))
  <2>1. PICK x \in Seq(Log), y \in Seq(Log), z \in Seq(Log) :
          x = current_state.db /\ y = e /\ z = ToLedger!Executed(todo')
    BY <1>2, <1>14, <1>15, Zenon
  <2>2. (x \o y) \o z = x \o (y \o z)
    BY JoinLog, Zenon
  <2> QED BY <2>1, <2>2, Zenon
<1> QED BY <1>2, <1>11, <1>13, <1>14, <1>16, Zenon

\* An empty batch leaves nothing.
LEMMA NextBatchKeepsBlock ==
    ASSUME FlatMapsFold, ConsInv, BlockInv, NextBatch
    PROVE  BlockInv'
<1>1. /\ engine = "block" /\ engine' = "block" /\ todo # <<>> /\ Head(todo) = <<>>
      /\ todo' = Tail(todo) /\ UNCHANGED <<current_state, committed_state>>
  BY Zenon DEF NextBatch, Delivering, appVars
<1>2. todo \in Seq(Batches) /\ todo' \in Seq(Batches) /\ Base' = Base
  BY <1>1, LedgerTyped, HeadTail, Zenon DEF Base
<1>3. SUFFICES ASSUME ToLedger!Whole(todo')
               PROVE  \E p \in Payloads : /\ ToLedger!Whole(p)
                                          /\ current_state'.db \o ToLedger!Executed(todo')
                                               = Base' \o ToLedger!Executed(p)
  BY <1>1, Zenon DEF BlockInv, Explained
<1>4. todo \in Seq(Seq(Txs))
  <2>1. todo' \in Seq(Seq(Txs))
    BY <1>2, <1>3, WholeIs, Zenon
  <2>2. todo = <<Head(todo)>> \o todo'
    BY <1>1, <1>2, HeadThenTail, Zenon
  <2>3. Head(todo) \in Seq(Txs)
    <3>1. <<>> \in Seq(Txs)
      OBVIOUS
    <3> QED BY <1>1, <3>1, Zenon
  <2>4. \A e \in Seq(Txs), u \in Seq(Seq(Txs)) : <<e>> \o u \in Seq(Seq(Txs))
    BY JoinHead, Zenon
  <2> QED BY <2>1, <2>2, <2>3, <2>4, Zenon
<1>5. ToLedger!Executed(todo) = ToLedger!Executed(todo')
  BY <1>1, <1>4, ExecutedProps, Zenon
<1>6. PICK p \in Payloads : /\ ToLedger!Whole(p)
                            /\ current_state.db \o ToLedger!Executed(todo)
                                 = Base \o ToLedger!Executed(p)
  BY <1>1, <1>2, <1>4, WholeIs, Zenon DEF BlockInv, Explained
<1> QED BY <1>1, <1>2, <1>5, <1>6, Zenon

\* At the end of a block nothing is left.
LEMMA EndKeepsBlock ==
    ASSUME FlatMapsFold, ConsInv, BlockInv, engine_end_block
    PROVE  BlockInv'
<1>1. /\ engine = "block" /\ engine' = "ended" /\ todo = <<>>
      /\ current_state' = [current_state EXCEPT !.block_height = last_block_height]
      /\ committed_state' = committed_state /\ current_state \in States
  BY Zenon DEF engine_end_block, end_block, ConsInv, ConsTypeOK
<1>2. current_state'.db = current_state.db /\ Base' = Base
  BY <1>1, Zenon DEF States, Base
<1>3. <<>> \in Seq(Seq(Txs)) /\ <<>> \in Seq(Batches)
  OBVIOUS
<1>4. ToLedger!Whole(<<>>) /\ ToLedger!Executed(<<>>) = <<>>
  BY <1>3, WholeIs, ExecutedProps, Zenon
<1>5. PICK p \in Payloads : /\ ToLedger!Whole(p)
                            /\ current_state.db \o <<>> = Base \o ToLedger!Executed(p)
  BY <1>1, <1>4, Zenon DEF BlockInv, Explained
<1> QED BY <1>1, <1>2, <1>5, Zenon DEF BlockInv, Explained

\* The engine begins, carries on and ends blocks; nothing else is in one.
LEMMA BlockInvStep ==
    ASSUME FlatMapsFold, ConsInv, BlockInv, [ConsNext]_consVars
    PROVE  BlockInv'
<1>1. CASE UNCHANGED <<engine, current_state, committed_state, todo>>
  <2>1. Base' = Base
    BY <1>1, Zenon DEF Base
  <2> QED BY <1>1, <2>1, Zenon DEF BlockInv, Explained
<1>2. CASE engine' \notin {"block", "ended"}
  BY <1>2, Zenon DEF BlockInv
<1>3. CASE handle_cert \/ engine_deliver_tx \/ NextBatch \/ engine_end_block
  BY <1>3, CertKeepsBlock, DeliverKeepsBlock, NextBatchKeepsBlock, EndKeepsBlock, Zenon
<1>4. UNCHANGED consVars => UNCHANGED <<engine, current_state, committed_state, todo>>
  BY Zenon DEF consVars, appVars
<1>5. EnvStep => UNCHANGED <<engine, current_state, committed_state, todo>>
  BY Zenon DEF EnvStep, NewCertificate, abci_query, SendQuery,
              ClientLeaves, chanVars, appVars
<1>6. handle_abci_query => UNCHANGED <<engine, current_state, committed_state, todo>>
  BY Zenon DEF handle_abci_query, appVars
<1>7. ProcessLost \/ StopEngine \/ consensus_start \/ Engine_new \/ engine_init_chain
        \/ engine_commit => engine' \notin {"block", "ended"}
  BY Zenon DEF ProcessLost, StopEngine, consensus_start, Engine_new, engine_init_chain, engine_commit
<1>8. application_start /\ UNCHANGED <<engine, last_block_height, todo, chanVars, clientVars>>
        => UNCHANGED <<engine, current_state, committed_state, todo>>
  BY Zenon DEF application_start
<1>9. consensus_start_fails \/ Engine_new_panics \/ engine_init_chain_fails
        \/ deliver_batch_fails \/ handle_abci_query_fails => StopEngine
  BY Zenon DEF consensus_start_fails, Engine_new_panics, engine_init_chain_fails,
         deliver_batch_fails, handle_abci_query_fails
<1> QED BY <1>1, <1>2, <1>3, <1>4, <1>5, <1>6, <1>7, <1>8, <1>9, Zenon DEF ConsNext, EngineStep

\* A commit appends the block of one whole certificate.
LEMMA CommitMaps ==
    ASSUME ConsInv, BlockInv, engine_commit
    PROVE  ToLedger!AppendBlock
<1>1. /\ committed_state' = current_state /\ answer' = answer /\ engine = "ended"
      /\ current_state \in States
  BY Zenon DEF engine_commit, commit, clientVars, ConsInv, ConsTypeOK
<1>2. current_state.block_height = committed_state.block_height + 1
  BY <1>1, Zenon DEF ConsInv, Phases
<1>3. PICK p \in Payloads : /\ ToLedger!Whole(p)
                            /\ current_state.db \o <<>> = Base \o ToLedger!Executed(p)
  BY <1>1, Zenon DEF BlockInv, Explained
<1>4. current_state.db = Base \o ToLedger!Executed(p)
  <2>1. current_state.db \in Seq(Log)
    BY LedgerTyped, Zenon
  <2>2. current_state.db \o <<>> = current_state.db
    BY <2>1, JoinProps, Zenon
  <2> QED BY <1>3, <2>2, Zenon
<1>5. committed_state' = [block_height |-> committed_state.block_height + 1,
                          db |-> Base \o ToLedger!Executed(p)]
  BY <1>1, <1>2, <1>4, Zenon DEF States
<1>6. committed_state.block_height = 0 <=> committed_state = ToLedger!Empty
  <2>1. ToLedger!Empty = EmptyState /\ EmptyState.block_height = 0
    BY DEF EmptyState, ToLedger!Empty
  <2> QED BY <2>1, Zenon DEF ConsInv, Phases
<1> QED BY <1>1, <1>3, <1>5, <1>6, Zenon DEF ToLedger!AppendBlock, Base

\* An answer shows the committed state.
LEMMA QueryShows ==
    ASSUME ConsInv, handle_abci_query
    PROVE  \E c \in Clients : answer' = [answer EXCEPT ![c] = committed_state]
                              /\ committed_state' = committed_state
<1> DEFINE c == Head(rx_abci_queries)
<1>1. c \in Clients
  BY DEF handle_abci_query, Querying, ConsInv, ConsTypeOK
<1>2. answer' = [answer EXCEPT ![c] = committed_state] /\ committed_state' = committed_state
  BY Zenon DEF handle_abci_query, query, appVars
<1> QED BY <1>1, <1>2, Zenon

\* The steps other than a commit, an answer and the end of the process.
LEMMA OthersKeepLedger ==
    ASSUME [ConsNext]_consVars, ~engine_commit, ~handle_abci_query, ~ProcessLost
    PROVE  UNCHANGED <<committed_state, answer>>
<1>1. CASE UNCHANGED consVars
  BY <1>1, Zenon DEF consVars, appVars, clientVars
<1>2. CASE EnvStep
  BY <1>2, Zenon DEF EnvStep, NewCertificate, abci_query, SendQuery,
              ClientLeaves, chanVars, appVars, clientVars
<1>3. CASE EngineStep
  BY <1>3, Zenon DEF EngineStep, application_start, consensus_start,
              consensus_start_fails, Engine_new, Engine_new_panics,
              engine_init_chain, engine_init_chain_fails, init_chain,
              handle_cert, engine_deliver_tx, deliver_tx, deliver_batch_fails,
              NextBatch, engine_end_block, end_block,
              handle_abci_query_fails, StopEngine, appVars, clientVars
<1> QED BY <1>1, <1>2, <1>3, Zenon DEF ConsNext

\* Every step is a step of the ledger or leaves it alone.
LEMMA LedgerStepMaps ==
    ASSUME ConsInv, BlockInv, [ConsNext]_consVars
    PROVE  [ToLedger!LedgerNext]_<<committed_state, answer>>
<1>1. CASE engine_commit
  BY <1>1, CommitMaps, Zenon DEF ToLedger!LedgerNext
<1>2. CASE ProcessLost
  <2>1. ToLedger!Restart
    BY <1>2, Zenon DEF ProcessLost, AppLost, EmptyState, ToLedger!Restart, ToLedger!Empty
  <2> QED BY <2>1, Zenon DEF ToLedger!LedgerNext
<1>3. CASE handle_abci_query
  <2>1. \E c \in Clients : ToLedger!Show(c)
    BY <1>3, QueryShows, Zenon DEF ToLedger!Show
  <2> QED BY <2>1, Zenon DEF ToLedger!LedgerNext
<1> QED BY <1>1, <1>2, <1>3, OthersKeepLedger, Zenon

-----------------------------------------------------------------------------
(* The linked list: the walks along the links, and the queue.             *)

\* Two walks of length N start alike and go on alike.
Alike(f, g, N) ==
    /\ f = [i \in 1..N |-> f[i]] /\ g = [i \in 1..N |-> g[i]]
    /\ N > 0 => f[1] = g[1]
    /\ \A i \in 1..(N - 1) : f[i] = g[i] => f[i + 1] = g[i + 1]

\* Then they are the same walk, and a list has as many nodes as its map has
\* entries: AgreeByStep and SizeOfList show both at the end.
WalksGoRight ==
    /\ \A N \in Nat : \A f, g : Alike(f, g, N) => f = g
    /\ \A l, s : IsList(l, s) => Cardinality(DOMAIN l.store) = Len(s)

\* The walk from the head is the list,
LEMMA ForwardIsList ==
    ASSUME WalksGoRight, NEW l, NEW s, IsList(l, s)
    PROVE  Forward(l) = s
<1>1. /\ s \in Seq(Nodes)
      /\ l.head = At(s, 1) /\ l.tail = At(s, Len(s))
      /\ \A i \in 1..Len(s) : /\ l.links[s[i]].prev = At(s, i - 1)
                              /\ l.links[s[i]].next = At(s, i + 1)
  BY Zenon DEF IsList, IsLinked
<1>2. Len(s) \in Nat /\ DOMAIN s = 1..Len(s) /\ \A i \in 1..Len(s) : At(s, i) = s[i]
  BY <1>1, AtProps, Zenon
<1>3. Size(l) = Len(s)
  BY Zenon DEF WalksGoRight, Size
<1> DEFINE Walk(at) ==
             [i \in 1..Len(s) |-> IF i = 1 THEN l.head ELSE l.links[at[i - 1]].next]
           r == s
<1>4. r = Walk(r)
  <2>1. \A i \in 1..Len(s) : r[i] = Walk(r)[i]
    <3> TAKE i \in 1..Len(s)
    <3>1. CASE i = 1
      BY <1>1, <1>2, <3>1, Zenon
    <3>2. CASE i # 1
      BY <1>1, <1>2, <3>2
    <3> QED BY <3>1, <3>2, Zenon
  <2>2. r = [i \in 1..Len(s) |-> r[i]]
    BY <1>1, <1>2
  <2> QED BY <2>1, <2>2, Zenon
<1> HIDE DEF r
<1>5. Forward(l) = CHOOSE at : at = Walk(at)
  BY <1>3, Zenon DEF Forward
<1>6. PICK at : at = Forward(l)
  BY Zenon
<1>7. at = Walk(at)
  BY <1>4, <1>5, <1>6, Zenon
<1>8. at = [i \in 1..Len(s) |-> at[i]] /\ r = [i \in 1..Len(s) |-> r[i]]
  BY <1>4, <1>7, Zenon
<1>9. Len(s) > 0 => at[1] = r[1]
  BY <1>2, <1>4, <1>7
<1>10. ASSUME NEW i \in 1..(Len(s) - 1), at[i] = r[i]
       PROVE  at[i + 1] = r[i + 1]
  <2>1. i + 1 \in 1..Len(s) /\ (i + 1) - 1 = i /\ i + 1 # 1
    BY <1>2
  <2>2. at[i + 1] = Walk(at)[i + 1] /\ r[i + 1] = Walk(r)[i + 1]
    BY <1>4, <1>7, Zenon
  <2> QED BY <1>10, <2>1, <2>2, Zenon
<1>11. at = r
  <2>1. Alike(at, r, Len(s))
    BY <1>8, <1>9, <1>10, Zenon DEF Alike
  <2> QED BY <1>2, <2>1, Zenon DEF WalksGoRight
<1> QED BY <1>6, <1>11, Zenon DEF r

\* and the one from the tail its reverse.
LEMMA BackwardIsList ==
    ASSUME WalksGoRight, NEW l, NEW s, IsList(l, s)
    PROVE  Backward(l) = [i \in 1..Len(s) |-> s[Len(s) + 1 - i]]
<1>1. /\ s \in Seq(Nodes)
      /\ l.head = At(s, 1) /\ l.tail = At(s, Len(s))
      /\ \A i \in 1..Len(s) : /\ l.links[s[i]].prev = At(s, i - 1)
                              /\ l.links[s[i]].next = At(s, i + 1)
  BY Zenon DEF IsList, IsLinked
<1>2. Len(s) \in Nat /\ DOMAIN s = 1..Len(s) /\ \A i \in 1..Len(s) : At(s, i) = s[i]
  BY <1>1, AtProps, Zenon
<1>3. Size(l) = Len(s)
  BY Zenon DEF WalksGoRight, Size
<1> DEFINE Walk(at) ==
             [i \in 1..Len(s) |-> IF i = 1 THEN l.tail ELSE l.links[at[i - 1]].prev]
           r == [i \in 1..Len(s) |-> s[Len(s) + 1 - i]]
<1>4. r = Walk(r)
  <2>1. \A i \in 1..Len(s) : r[i] = Walk(r)[i]
    <3> TAKE i \in 1..Len(s)
    <3>1. CASE i = 1
      BY <1>1, <1>2, <3>1
    <3>2. CASE i # 1
      <4>1. PICK j : j = Len(s) + 2 - i
        BY Zenon
      <4>2. j \in 1..Len(s) /\ j - 1 \in 1..Len(s) /\ r[i - 1] = s[j] /\ r[i] = s[j - 1]
        BY <1>2, <3>2, <4>1
      <4>3. l.links[s[j]].prev = s[j - 1]
        BY <1>1, <1>2, <4>2, Zenon
      <4> QED BY <3>2, <4>2, <4>3, Zenon
    <3> QED BY <3>1, <3>2, Zenon
  <2>2. r = [i \in 1..Len(s) |-> r[i]]
    BY <1>1, <1>2, Zenon
  <2> QED BY <2>1, <2>2, Zenon
<1> HIDE DEF r
<1>5. Backward(l) = CHOOSE at : at = Walk(at)
  BY <1>3, Zenon DEF Backward
<1>6. PICK at : at = Backward(l)
  BY Zenon
<1>7. at = Walk(at)
  BY <1>4, <1>5, <1>6, Zenon
<1>8. at = [i \in 1..Len(s) |-> at[i]] /\ r = [i \in 1..Len(s) |-> r[i]]
  BY <1>4, <1>7, Zenon
<1>9. Len(s) > 0 => at[1] = r[1]
  BY <1>2, <1>4, <1>7
<1>10. ASSUME NEW i \in 1..(Len(s) - 1), at[i] = r[i]
       PROVE  at[i + 1] = r[i + 1]
  <2>1. i + 1 \in 1..Len(s) /\ (i + 1) - 1 = i /\ i + 1 # 1
    BY <1>2
  <2>2. at[i + 1] = Walk(at)[i + 1] /\ r[i + 1] = Walk(r)[i + 1]
    BY <1>4, <1>7, Zenon
  <2> QED BY <1>10, <2>1, <2>2, Zenon
<1>11. at = r
  <2>1. Alike(at, r, Len(s))
    BY <1>8, <1>9, <1>10, Zenon DEF Alike
  <2> QED BY <1>2, <2>1, Zenon DEF WalksGoRight
<1> QED BY <1>6, <1>11, Zenon DEF r

\* The list is linked in some order.
ListInv == lru.cap \in Caps /\ \E s : IsList(lru, s)

\* An order of the links is what ListMatchesStore asks for.
LEMMA ListInvImplies ==
    ASSUME WalksGoRight, ListInv
    PROVE  ListMatchesStore
<1>1. PICK s : IsList(lru, s)
  BY Zenon DEF ListInv
<1>2. /\ s \in Seq(Nodes) /\ DOMAIN lru.links = Range(s)
      /\ lru.head = At(s, 1) /\ lru.tail = At(s, Len(s))
      /\ \A i \in 1..Len(s) : /\ lru.links[s[i]].prev = At(s, i - 1)
                              /\ lru.links[s[i]].next = At(s, i + 1)
      /\ \A k \in DOMAIN lru.store : /\ lru.store[k].node \in Range(s)
                                     /\ lru.links[lru.store[k].node].data = k
      /\ \A m \in Range(s) : /\ lru.links[m].data \in DOMAIN lru.store
                             /\ lru.store[lru.links[m].data].node = m
  BY <1>1, Zenon DEF IsList, IsLinked, IsIndexed
<1>3. Len(s) \in Nat /\ DOMAIN s = 1..Len(s)
  BY <1>2, AtProps, Zenon
<1>4. Size(lru) = Len(s) /\ Forward(lru) = s /\ Backward(lru) = [i \in 1..Len(s) |-> s[Len(s) + 1 - i]]
  BY <1>1, ForwardIsList, BackwardIsList, Zenon DEF WalksGoRight, Size
<1>5. DOMAIN lru.links = {lru.store[k].node : k \in DOMAIN lru.store}
  BY <1>2, Zenon
<1>6. Size(lru) = 0 => lru.head = Nil /\ lru.tail = Nil
  BY <1>2, <1>3, <1>4 DEF At
<1>7. Size(lru) # 0 => lru.links[lru.tail].next = Nil /\ lru.links[lru.head].prev = Nil
  BY <1>2, <1>3, <1>4 DEF At
<1> QED BY <1>2, <1>3, <1>4, <1>5, <1>6, <1>7 DEF ListMatchesStore

\* The entries of a list in the order of its nodes.
IsQueueOf(q, l, s) == q = [i \in 1..Len(s) |-> Entry(l, s[i])]

\* They are its queue.
LEMMA QueueOfList ==
    ASSUME WalksGoRight, NEW l, NEW s, IsList(l, s)
    PROVE  IsQueueOf(Queue(l), l, s)
<1>1. Size(l) = Len(s) /\ Forward(l) = s
  BY ForwardIsList, Zenon DEF WalksGoRight, Size
<1> QED BY <1>1, Zenon DEF Queue, Entry, IsQueueOf

\* Each key has its place in the queue, and only one.
LEMMA QueueProps ==
    ASSUME WalksGoRight, NEW l, NEW s, IsList(l, s)
    PROVE  /\ Queue(l) \in Seq([k : LKeys, v : Values])
           /\ Len(Queue(l)) = Len(s)
           /\ \A i \in 1..Len(s) : Queue(l)[i] = Entry(l, s[i])
           /\ \A k : Abstract!HasKey(Queue(l), k) <=> k \in DOMAIN l.store
           /\ \A i, j \in 1..Len(s) : Queue(l)[i].k = Queue(l)[j].k => i = j
<1>1. /\ s \in Seq(Nodes) /\ NoRepeats(s) /\ DOMAIN l.store \subseteq LKeys
      /\ \A k \in DOMAIN l.store : /\ l.store[k].value \in Values
                                   /\ l.store[k].node \in Range(s)
                                   /\ l.links[l.store[k].node].data = k
      /\ \A m \in Range(s) : /\ l.links[m].data \in DOMAIN l.store
                             /\ l.store[l.links[m].data].node = m
  BY Zenon DEF IsList, IsLinked, IsIndexed
<1>2. /\ Len(s) \in Nat /\ DOMAIN s = 1..Len(s) /\ \A i \in 1..Len(s) : s[i] \in Range(s)
      /\ \A m \in Range(s) : \E i \in 1..Len(s) : m = s[i]
  BY <1>1, AtProps, Zenon
<1>3. \A m \in Range(s) : Entry(l, m) \in [k : LKeys, v : Values] /\ Entry(l, m).k = l.links[m].data
  BY <1>1, Zenon DEF Entry
<1>4. PICK q : q = Queue(l)
  BY Zenon
<1>5. q = [i \in 1..Len(s) |-> Entry(l, s[i])]
  BY <1>4, QueueOfList, Zenon DEF IsQueueOf
<1>6. q \in Seq([k : LKeys, v : Values]) /\ Len(q) = Len(s) /\ DOMAIN q = 1..Len(s)
  <2>1. PICK E : E = [k : LKeys, v : Values]
    BY Zenon
  <2>2. q \in [1..Len(s) -> E]
    BY <1>2, <1>3, <1>5, <2>1, Zenon
  <2>3. q \in Seq(E) /\ Len(q) = Len(s) /\ DOMAIN q = 1..Len(s)
    BY <1>2, <2>2
  <2> QED BY <2>1, <2>3, Zenon
<1>7. \A i \in 1..Len(s) : q[i] = Entry(l, s[i]) /\ q[i].k = l.links[s[i]].data
  BY <1>2, <1>3, <1>5, Zenon
<1>8. ASSUME NEW k PROVE Abstract!HasKey(q, k) <=> k \in DOMAIN l.store
  <2>1. Abstract!HasKey(q, k) <=> \E i \in 1..Len(s) : q[i].k = k
    BY <1>6, Zenon DEF Abstract!HasKey
  <2>2. ASSUME NEW i \in 1..Len(s), q[i].k = k PROVE k \in DOMAIN l.store
    <3>1. s[i] \in Range(s) /\ k = l.links[s[i]].data
      BY <1>2, <1>7, <2>2, Zenon
    <3> QED BY <1>1, <3>1, Zenon
  <2>3. ASSUME k \in DOMAIN l.store PROVE \E i \in 1..Len(s) : q[i].k = k
    <3>1. l.store[k].node \in Range(s) /\ l.links[l.store[k].node].data = k
      BY <1>1, <2>3, Zenon
    <3>2. PICK i \in 1..Len(s) : l.store[k].node = s[i]
      BY <1>2, <3>1, Zenon
    <3> QED BY <1>7, <3>1, <3>2, Zenon
  <2> QED BY <2>1, <2>2, <2>3, Zenon
<1>9. ASSUME NEW i \in 1..Len(s), NEW j \in 1..Len(s), q[i].k = q[j].k
      PROVE  i = j
  <2>1. /\ s[i] \in Range(s) /\ s[j] \in Range(s)
        /\ l.links[s[i]].data = l.links[s[j]].data
    BY <1>2, <1>7, <1>9, Zenon
  <2>2. s[i] = s[j]
    BY <1>1, <2>1, Zenon
  <2> QED BY <1>1, <1>2, <2>2, Zenon DEF NoRepeats
<1> QED BY <1>4, <1>6, <1>7, <1>8, <1>9, Zenon

\* Linking a node appends its entry.
LEMMA QueueLinked ==
    ASSUME WalksGoRight, NEW l, NEW s, IsList(l, s), NEW k \in LKeys, k \notin DOMAIN l.store,
           NEW v \in Values, NEW n \in Nodes, n \notin DOMAIN l.links
    PROVE  Queue(Linked(l, k, v, n)) = Abstract!PushBack(Queue(l), k, v)
<1> DEFINE t == Append(s, n)
<1>1. PICK lk : lk = Linked(l, k, v, n)
  BY Zenon
<1>2. PICK q : q = Queue(l)
  BY Zenon
<1>3. IsList(lk, t) /\ Entry(lk, n) = [k |-> k, v |-> v] /\ \A m \in Range(s) : Entry(lk, m) = Entry(l, m)
  BY <1>1, LinkedIsList
<1>4. IsQueueOf(Queue(lk), lk, t)
  BY <1>3, QueueOfList, Zenon
<1>5. /\ s \in Seq(Nodes) /\ Len(s) \in Nat /\ Len(t) = Len(s) + 1 /\ t[Len(s) + 1] = n
      /\ \A i \in 1..Len(s) : t[i] = s[i] /\ s[i] \in Range(s)
  <2>1. s \in Seq(Nodes)
    BY Zenon DEF IsList, IsLinked
  <2> QED BY <2>1, AtProps
<1> HIDE DEF t
<1>6. q \in Seq([k : LKeys, v : Values]) /\ Len(q) = Len(s) /\ \A i \in 1..Len(s) : q[i] = Entry(l, s[i])
  BY <1>2, QueueProps, Zenon
<1>7. \A i \in 1..Len(t) : Entry(lk, t[i]) = IF i = Len(s) + 1 THEN [k |-> k, v |-> v] ELSE q[i]
  BY <1>3, <1>5, <1>6
<1>8. Append(q, [k |-> k, v |-> v])
        = [i \in 1..(Len(q) + 1) |-> IF i = Len(q) + 1 THEN [k |-> k, v |-> v] ELSE q[i]]
  BY <1>6
<1>9. Queue(lk) = Append(q, [k |-> k, v |-> v])
  BY <1>4, <1>5, <1>6, <1>7, <1>8 DEF IsQueueOf
<1> QED BY <1>1, <1>2, <1>9, Zenon DEF Abstract!PushBack

\* Unlinking a node takes its entry out and nothing else.
LEMMA QueueUnlinked ==
    ASSUME WalksGoRight, NEW l, NEW s, IsList(l, s), NEW j \in 1..Len(s)
    PROVE  LET q == Queue(l)
           IN  Queue(Unlinked(l, l.links[s[j]].data))
                 = [i \in 1..(Len(q) - 1) |-> IF i < j THEN q[i] ELSE q[i + 1]]
<1> DEFINE t == Cut(s, j)
<1>1. PICK un : un = Unlinked(l, l.links[s[j]].data)
  BY Zenon
<1>2. PICK q : q = Queue(l)
  BY Zenon
<1>3. IsList(un, t) /\ \A m \in Range(s) \ {s[j]} : Entry(un, m) = Entry(l, m)
  BY <1>1, UnlinkedIsList, Zenon
<1>4. IsQueueOf(Queue(un), un, t)
  BY <1>3, QueueOfList, Zenon
<1>5. s \in Seq(Nodes) /\ NoRepeats(s) /\ Len(s) \in Nat /\ \A i \in 1..Len(s) : s[i] \in Range(s)
  <2>1. s \in Seq(Nodes) /\ NoRepeats(s)
    BY Zenon DEF IsList, IsLinked
  <2> QED BY <2>1, AtProps, Zenon
<1>6. Len(t) = Len(s) - 1
  BY <1>5, CutProps, Zenon
<1>7. Len(q) = Len(s) /\ \A i \in 1..Len(s) : q[i] = Entry(l, s[i])
  BY <1>2, QueueProps, Zenon
<1>8. \A i \in 1..Len(t) : t[i] = IF i < j THEN s[i] ELSE s[i + 1]
  BY <1>6, Zenon DEF Cut
<1> HIDE DEF t
<1>9. ASSUME NEW i \in 1..Len(t)
      PROVE  Entry(un, t[i]) = IF i < j THEN q[i] ELSE q[i + 1]
  <2>1. PICK h \in 1..Len(s) : h = (IF i < j THEN i ELSE i + 1) /\ h # j /\ t[i] = s[h]
    BY <1>5, <1>6, <1>8
  <2>2. s[h] # s[j]
    BY <1>5, <2>1 DEF NoRepeats
  <2>3. Entry(un, t[i]) = q[h]
    BY <1>3, <1>5, <1>7, <2>1, <2>2, Zenon
  <2> QED BY <2>1, <2>3, Zenon
<1>10. Queue(un) = [i \in 1..(Len(q) - 1) |-> IF i < j THEN q[i] ELSE q[i + 1]]
  BY <1>4, <1>6, <1>7, <1>9, Zenon DEF IsQueueOf
<1> QED BY <1>1, <1>2, <1>10, Zenon

\* The place of a key in the list and in the queue.
LEMMA PlaceOfKey ==
    ASSUME WalksGoRight, NEW l, NEW s, IsList(l, s), NEW k \in DOMAIN l.store
    PROVE  \E j \in 1..Len(s) : /\ l.links[s[j]].data = k
                                /\ j = Abstract!IndexOf(Queue(l), k)
                                /\ Queue(l)[j].v = l.store[k].value
<1>1. PICK q : q = Queue(l)
  BY Zenon
<1>2. /\ q \in Seq([k : LKeys, v : Values]) /\ Len(q) = Len(s)
      /\ \A i \in 1..Len(s) : q[i] = Entry(l, s[i])
      /\ Abstract!HasKey(q, k)
  BY <1>1, QueueProps, Zenon
<1>3. DOMAIN q = 1..Len(s)
  BY <1>2
<1>4. \E i \in DOMAIN q : q[i].k = k
  BY <1>2, Zenon DEF Abstract!HasKey
<1>5. PICK j \in 1..Len(s) : j = Abstract!IndexOf(q, k) /\ q[j].k = k
  BY <1>3, <1>4, Zenon DEF Abstract!IndexOf
<1>6. q[j] = Entry(l, s[j])
  BY <1>2, Zenon
<1>7. q[j].k = l.links[s[j]].data /\ q[j].v = l.store[l.links[s[j]].data].value
  BY <1>6 DEF Entry
<1> QED BY <1>1, <1>5, <1>7, Zenon

\* A list with a head starts with it.
LEMMA HeadOfList ==
    ASSUME WalksGoRight, NEW l, NEW s, IsList(l, s)
    PROVE  /\ l.head = Nil <=> Queue(l) = <<>>
           /\ l.head # Nil => /\ 1 \in 1..Len(s) /\ FirstKey(l) = l.links[s[1]].data
                              /\ Head(Queue(l)).v = l.store[FirstKey(l)].value
<1>1. s \in Seq(Nodes) /\ l.head = At(s, 1)
  BY Zenon DEF IsList, IsLinked
<1>2. PICK q : q = Queue(l)
  BY Zenon
<1>3. /\ q \in Seq([k : LKeys, v : Values]) /\ Len(q) = Len(s)
      /\ \A i \in 1..Len(s) : q[i] = Entry(l, s[i])
  BY <1>2, QueueProps, Zenon
<1>4. /\ Len(s) \in Nat
      /\ l.head # Nil <=> 1 \in 1..Len(s)
      /\ l.head # Nil => l.head = s[1]
  BY <1>1, NodeAssumption DEF At
<1>5. l.head = Nil <=> q = <<>>
  BY <1>3, <1>4
<1>6. l.head # Nil => Head(q) = Entry(l, s[1])
  BY <1>3, <1>4
<1> QED BY <1>2, <1>4, <1>5, <1>6 DEF FirstKey, Entry

\* Removing the head takes the first entry out.
LEMMA QueueHeadUnlinked ==
    ASSUME WalksGoRight, NEW l, NEW s, IsList(l, s), l.head # Nil
    PROVE  Queue(Unlinked(l, FirstKey(l))) = Tail(Queue(l))
<1>1. 1 \in 1..Len(s) /\ FirstKey(l) = l.links[s[1]].data
  BY HeadOfList, Zenon
<1>2. PICK q : q = Queue(l)
  BY Zenon
<1>3. q \in Seq([k : LKeys, v : Values]) /\ Len(q) = Len(s)
  BY <1>2, QueueProps, Zenon
<1>4. Queue(Unlinked(l, FirstKey(l))) = [i \in 1..(Len(q) - 1) |-> IF i < 1 THEN q[i] ELSE q[i + 1]]
  BY <1>1, <1>2, QueueUnlinked
<1>5. Tail(q) = [i \in 1..(Len(q) - 1) |-> q[i + 1]]
  <2>1. PICK E : E = [k : LKeys, v : Values]
    BY Zenon
  <2>2. q \in Seq(E) /\ q # <<>>
    BY <1>1, <1>3, <2>1
  <2>3. /\ Tail(q) \in Seq(E) /\ DOMAIN Tail(q) = 1..(Len(q) - 1)
        /\ \A i \in 1..(Len(q) - 1) : Tail(q)[i] = q[i + 1]
    BY <2>2
  <2>4. Tail(q) = [i \in DOMAIN Tail(q) |-> Tail(q)[i]]
    <3>1. PICK t : t = Tail(q)
      BY Zenon
    <3>2. t \in Seq(E)
      BY <2>3, <3>1, Zenon
    <3>3. t \in [1..Len(t) -> E]
      BY <3>2
    <3> QED BY <3>1, <3>3, Zenon
  <2> QED BY <2>3, <2>4, Zenon
<1> QED BY <1>2, <1>4, <1>5

-----------------------------------------------------------------------------
\* What a call that changes the list leaves: a list again, and its queue.
LEMMA InsertMaps ==
    ASSUME WalksGoRight, ListInv, NEW k \in LKeys, NEW v \in Values, Insert(k, v)
    PROVE  ListInv' /\ Abstract!QInsert(k, v) /\ lru'.cap = lru.cap
<1>1. PICK s : IsList(lru, s)
  BY Zenon DEF ListInv
<1>2. PICK n \in Nodes \ DOMAIN lru.links :
        lru' = Linked(IF AtCapacity(lru) THEN Unlinked(lru, FirstKey(lru)) ELSE lru, k, v, n)
  BY Zenon DEF Insert
<1>3. k \notin DOMAIN lru.store /\ (AtCapacity(lru) => lru.head # Nil) /\ result' = "ok"
  BY Zenon DEF Insert, Contains
<1>4. PICK room : room = IF AtCapacity(lru) THEN Unlinked(lru, FirstKey(lru)) ELSE lru
  BY Zenon
<1>5. PICK t : /\ IsList(room, t) /\ room.cap = lru.cap
               /\ DOMAIN room.store \subseteq DOMAIN lru.store
               /\ DOMAIN room.links \subseteq DOMAIN lru.links
               /\ Queue(room) = IF AtCapacity(lru) THEN Tail(Queue(lru)) ELSE Queue(lru)
  <2>1. CASE ~AtCapacity(lru)
    BY <1>1, <1>4, <2>1, Zenon
  <2>2. CASE AtCapacity(lru)
    <3>1. 1 \in 1..Len(s) /\ FirstKey(lru) = lru.links[s[1]].data
      BY <1>1, <1>3, <2>2, HeadOfList, Zenon
    <3>2. room = Unlinked(lru, FirstKey(lru))
      BY <1>4, <2>2, Zenon
    <3>3. IsList(room, Cut(s, 1))
      BY <1>1, <3>1, <3>2, UnlinkedIsList, Zenon
    <3>4. Queue(room) = Tail(Queue(lru))
      BY <1>1, <1>3, <2>2, <3>2, QueueHeadUnlinked, Zenon
    <3>5. DOMAIN room.links = Range(Cut(s, 1)) /\ DOMAIN lru.links = Range(s)
      BY <1>1, <3>3, Zenon DEF IsList, IsLinked
    <3>6. Range(Cut(s, 1)) = Range(s) \ {s[1]}
      BY <1>1, <3>1, CutProps, Zenon DEF IsList, IsLinked
    <3>7. room.cap = lru.cap /\ DOMAIN room.store \subseteq DOMAIN lru.store
      BY <3>2, Zenon DEF Unlinked, Del, Restrict
    <3> QED BY <2>2, <3>3, <3>4, <3>5, <3>6, <3>7, Zenon
  <2> QED BY <2>1, <2>2, Zenon
<1>6. k \notin DOMAIN room.store /\ n \notin DOMAIN room.links /\ lru' = Linked(room, k, v, n)
  <2>1. k \notin DOMAIN room.store /\ n \notin DOMAIN room.links
    BY <1>2, <1>3, <1>5, Zenon
  <2>2. lru' = Linked(room, k, v, n)
    BY <1>2, <1>4, Zenon
  <2> QED BY <2>1, <2>2, Zenon
<1>7. IsList(lru', Append(t, n))
  BY <1>5, <1>6, LinkedIsList, Zenon
<1>8. Queue(lru') = Abstract!PushBack(Queue(room), k, v)
  BY <1>5, <1>6, QueueLinked, Zenon
<1>9. lru'.cap = lru.cap
  BY <1>5, <1>6, Zenon DEF Linked
<1>10. ListInv'
  BY <1>7, <1>9, Zenon DEF ListInv
<1>11. Abstract!Full <=> AtCapacity(lru)
  <2>1. Len(Queue(lru)) = Cardinality(DOMAIN lru.store)
    BY <1>1, QueueProps, Zenon DEF WalksGoRight
  <2> QED BY <2>1, Zenon DEF Abstract!Full, AtCapacity
<1>12. ~Abstract!HasKey(Queue(lru), k) /\ (Abstract!Full => Queue(lru) # <<>>)
  BY <1>1, <1>3, <1>11, QueueProps, HeadOfList, Zenon
<1> QED BY <1>3, <1>5, <1>8, <1>9, <1>10, <1>11, <1>12, Zenon DEF Abstract!QInsert

\* remove of a key that is present, likewise.
LEMMA RemoveMaps ==
    ASSUME WalksGoRight, ListInv, NEW k \in LKeys, Remove(k)
    PROVE  ListInv' /\ Abstract!QRemove(k) /\ lru'.cap = lru.cap
<1>1. PICK s : IsList(lru, s)
  BY Zenon DEF ListInv
<1>2. k \in DOMAIN lru.store /\ result' = lru.store[k].value /\ lru' = Unlinked(lru, k)
  BY Zenon DEF Remove, Contains
<1>3. PICK j \in 1..Len(s) : /\ lru.links[s[j]].data = k
                             /\ j = Abstract!IndexOf(Queue(lru), k)
                             /\ Queue(lru)[j].v = lru.store[k].value
  BY <1>1, <1>2, PlaceOfKey
<1>4. IsList(lru', Cut(s, j))
  BY <1>1, <1>2, <1>3, UnlinkedIsList, Zenon
<1>5. lru'.cap = lru.cap
  BY <1>2, Zenon DEF Unlinked
<1>6. ListInv'
  BY <1>4, <1>5, Zenon DEF ListInv
<1>7. Queue(lru') = Abstract!Without(Queue(lru), k)
  <2>1. Queue(Unlinked(lru, lru.links[s[j]].data))
          = [i \in 1..(Len(Queue(lru)) - 1) |-> IF i < j THEN Queue(lru)[i] ELSE Queue(lru)[i + 1]]
    BY <1>1, QueueUnlinked
  <2> QED BY <1>2, <1>3, <2>1, Zenon DEF Abstract!Without
<1>8. Abstract!HasKey(Queue(lru), k) /\ result' = Abstract!ValueAt(Queue(lru), k)
  BY <1>1, <1>2, <1>3, QueueProps, Zenon DEF Abstract!ValueAt
<1> QED BY <1>5, <1>6, <1>7, <1>8, Zenon DEF Abstract!QRemove

\* remove_head of a list that is not empty, likewise.
LEMMA RemoveHeadMaps ==
    ASSUME WalksGoRight, ListInv, RemoveHead
    PROVE  ListInv' /\ Abstract!QRemoveHead /\ lru'.cap = lru.cap
<1>1. PICK s : IsList(lru, s)
  BY Zenon DEF ListInv
<1>2. /\ lru.head # Nil /\ result' = lru.store[FirstKey(lru)].value
      /\ lru' = Unlinked(lru, FirstKey(lru))
  BY Zenon DEF RemoveHead
<1>3. /\ 1 \in 1..Len(s) /\ FirstKey(lru) = lru.links[s[1]].data
      /\ Head(Queue(lru)).v = lru.store[FirstKey(lru)].value /\ Queue(lru) # <<>>
  BY <1>1, <1>2, HeadOfList, Zenon
<1>4. IsList(lru', Cut(s, 1))
  BY <1>1, <1>2, <1>3, UnlinkedIsList, Zenon
<1>5. lru'.cap = lru.cap
  BY <1>2, Zenon DEF Unlinked
<1>6. ListInv'
  BY <1>4, <1>5, Zenon DEF ListInv
<1>7. Queue(lru') = Tail(Queue(lru))
  BY <1>1, <1>2, QueueHeadUnlinked, Zenon
<1> QED BY <1>2, <1>3, <1>5, <1>6, <1>7, Zenon DEF Abstract!QRemoveHead

\* A call that changes nothing answers as the queue does.
LEMMA RefusalMaps ==
    ASSUME WalksGoRight, ListInv,
           \/ \E k \in LKeys : InsertPresent(k) \/ InsertFails(k) \/ RemoveAbsent(k)
           \/ RemoveHeadEmpty
    PROVE  UNCHANGED lru /\ Abstract!QNext
<1>1. PICK s : IsList(lru, s)
  BY Zenon DEF ListInv
<1>2. UNCHANGED lru
  BY Zenon DEF InsertPresent, InsertFails, RemoveHeadEmpty, RemoveAbsent
<1>3. UNCHANGED Queue(lru) /\ UNCHANGED lru.cap
  BY <1>2, Zenon
<1>4. ASSUME NEW k \in LKeys, InsertPresent(k) PROVE Abstract!QNext
  <2>1. k \in DOMAIN lru.store /\ result' = "exists"
    BY <1>4, Zenon DEF InsertPresent, Contains
  <2>2. lru.store[k].value \in Values
    BY <1>1, <2>1, Zenon DEF IsList, IsIndexed
  <2>3. Abstract!HasKey(Queue(lru), k)
    BY <1>1, <2>1, QueueProps, Zenon
  <2>4. Abstract!QInsert(k, lru.store[k].value)
    BY <1>3, <2>1, <2>3, Zenon DEF Abstract!QInsert
  <2> QED BY <1>2, <1>3, <2>2, <2>4, Zenon DEF Abstract!QNext
<1>5. ASSUME (\E k \in LKeys : InsertFails(k)) \/ RemoveHeadEmpty PROVE Abstract!QNext
  <2>1. lru.head = Nil /\ result' = "empty"
    BY <1>5, Zenon DEF InsertFails, RemoveHeadEmpty
  <2>2. Abstract!QRemoveHead
    BY <1>1, <1>3, <2>1, HeadOfList, Zenon DEF Abstract!QRemoveHead
  <2> QED BY <1>2, <1>3, <2>2, Zenon DEF Abstract!QNext
<1>6. ASSUME NEW k \in LKeys, RemoveAbsent(k) PROVE Abstract!QNext
  <2>1. k \notin DOMAIN lru.store /\ result' = "none"
    BY <1>6, Zenon DEF RemoveAbsent, Contains
  <2>2. Abstract!QRemove(k)
    BY <1>1, <1>3, <2>1, QueueProps, Zenon DEF Abstract!QRemove
  <2> QED BY <1>2, <1>3, <2>2, Zenon DEF Abstract!QNext
<1> QED BY <1>2, <1>4, <1>5, <1>6, Zenon

\* A new list is in order, and its queue is empty.
LEMMA ListInvInit ==
    ASSUME WalksGoRight, LruInit
    PROVE  ListInv /\ Abstract!QInit
<1>1. PICK c \in Caps : lru = New(c) /\ result = "ok"
  BY Zenon DEF LruInit
<1>2. lru.store = EmptyMap /\ lru.links = EmptyMap /\ lru.head = Nil /\ lru.tail = Nil /\ lru.cap = c
  BY <1>1, Zenon DEF New
<1>3. IsList(lru, <<>>)
  BY <1>2, EmptyIsList, Zenon
<1>4. Queue(lru) = <<>>
  BY <1>2, <1>3, HeadOfList, Zenon
<1> QED BY <1>1, <1>2, <1>3, <1>4, Zenon DEF ListInv, Abstract!QInit

\* Every call keeps it in order and maps to a call of the queue.
LEMMA ListInvStep ==
    ASSUME WalksGoRight, ListInv, [LruNext]_lruVars
    PROVE  ListInv' /\ [Abstract!QNext]_(Abstract!qVars)
<1>1. CASE UNCHANGED lruVars
  BY <1>1, Zenon DEF lruVars, ListInv, Abstract!qVars
<1>2. ASSUME NEW k \in LKeys, NEW v \in Values, Insert(k, v)
      PROVE  ListInv' /\ Abstract!QNext
  BY <1>2, InsertMaps, Zenon DEF Abstract!QNext
<1>3. ASSUME NEW k \in LKeys, Remove(k)
      PROVE  ListInv' /\ Abstract!QNext
  BY <1>3, RemoveMaps, Zenon DEF Abstract!QNext
<1>4. CASE RemoveHead
  BY <1>4, RemoveHeadMaps, Zenon DEF Abstract!QNext
<1>5. CASE \/ \E k \in LKeys : InsertPresent(k) \/ InsertFails(k) \/ RemoveAbsent(k)
           \/ RemoveHeadEmpty
  BY <1>5, RefusalMaps, Zenon DEF ListInv
<1> QED BY <1>1, <1>2, <1>3, <1>4, <1>5, Zenon DEF LruNext

-----------------------------------------------------------------------------
(* What follows is found by induction.                                     *)

INSTANCE Induction

INSTANCE FiniteSetTheorems

\* FlatMap of any function that maps elements to sequences is a fold.
LEMMA FlatMapProps ==
    ASSUME NEW S, NEW V, NEW f \in [S -> Seq(V)]
    PROVE  Flattens(f, S, V)
<1> DEFINE Q == Seq(S)
           W == [Q -> Seq(V)]
           base == [t \in Q |-> <<>>]
           turn(h) == [t \in Q |-> IF t = <<>> THEN <<>> ELSE f[Head(t)] \o h[Tail(t)]]
           step == [x \in Nat \X W |-> turn(x[2])]
<1>1. base \in W
  OBVIOUS
<1>2. \A t \in Q : t # <<>> => Head(t) \in S /\ f[Head(t)] \in Seq(V) /\ Tail(t) \in Q
  OBVIOUS
<1>3. step \in [Nat \X W -> W] /\ \A n \in Nat, h \in W : step[<<n, h>>] = turn(h)
  <2>1. ASSUME NEW h \in W PROVE turn(h) \in W
    <3>1. ASSUME NEW t \in Q PROVE (IF t = <<>> THEN <<>> ELSE f[Head(t)] \o h[Tail(t)]) \in Seq(V)
      <4>1. CASE t = <<>>
        BY <4>1
      <4>2. CASE t # <<>>
        <5>1. f[Head(t)] \in Seq(V) /\ h[Tail(t)] \in Seq(V)
          BY <1>2, <4>2, Zenon
        <5> QED BY <4>2, <5>1, JoinProps, Zenon
      <4> QED BY <4>1, <4>2, Zenon
    <3> QED BY <3>1, Zenon
  <2> HIDE DEF turn, W
  <2> QED BY <2>1, Zenon
<1> HIDE DEF base, step, W
<1>4. PICK F : Follows(F, W, base, step)
  BY <1>1, <1>3, Recursion, Zenon
<1>5. /\ F[0] = base
      /\ \A n \in Nat : F[n] \in W /\ F[n + 1] = turn(F[n])
  BY <1>3, <1>4, Zenon DEF Follows
<1> DEFINE G == [t \in Q |-> F[Len(t)][t]]
<1>6. G = turn(G)
  <2>1. ASSUME NEW t \in Q PROVE G[t] = turn(G)[t]
    <3>1. CASE t = <<>>
      <4>1. Len(t) = 0 /\ G[t] = base[t] /\ base[t] = <<>>
        BY <1>5, <3>1, Zenon DEF base
      <4> QED BY <3>1, <4>1, Zenon
    <3>2. CASE t # <<>>
      <4>1. PICK n \in Nat : n = Len(Tail(t)) /\ Len(t) = n + 1 /\ Tail(t) \in Q
        BY <3>2, HeadTail, Zenon
      <4>2. G[t] = F[n + 1][t] /\ G[Tail(t)] = F[n][Tail(t)]
        BY <4>1, Zenon
      <4>3. F[n + 1][t] = f[Head(t)] \o F[n][Tail(t)]
        BY <1>5, <3>2, Zenon
      <4>4. turn(G)[t] = f[Head(t)] \o G[Tail(t)]
        BY <3>2, Zenon
      <4> QED BY <4>2, <4>3, <4>4, Zenon
    <3> QED BY <3>1, <3>2, Zenon
  <2>2. G = [t \in Q |-> G[t]]
    BY Zenon
  <2> HIDE DEF G
  <2> QED BY <2>1, <2>2, Zenon
<1> DEFINE g == CHOOSE h : h = turn(h)
<1>7. g = turn(g)
  <2> HIDE DEF G, turn
  <2> QED BY <1>6, Zenon
<1>8. \A s : ToLedger!FlatMap(f, s) = g[s]
  BY Zenon DEF ToLedger!FlatMap
<1> HIDE DEF g, G
<1>9. \A t \in Q : g[t] = IF t = <<>> THEN <<>> ELSE f[Head(t)] \o g[Tail(t)]
  BY <1>7, Zenon
<1>10. \A t \in Q : g[t] \in Seq(V)
  <2> DEFINE T == {m \in Nat : \A t \in Q : Len(t) = m => g[t] \in Seq(V)}
  <2>1. 0 \in T
    BY <1>9
  <2>2. ASSUME NEW n \in Nat, n \in T PROVE n + 1 \in T
    <3> SUFFICES ASSUME NEW t \in Q, Len(t) = n + 1 PROVE g[t] \in Seq(V)
      OBVIOUS
    <3>1. t # <<>> /\ Tail(t) \in Q /\ Len(Tail(t)) = n
      <4>1. t # <<>>
        OBVIOUS
      <4> QED BY <4>1, HeadTail
    <3>2. g[Tail(t)] \in Seq(V) /\ f[Head(t)] \in Seq(V)
      BY <1>2, <2>2, <3>1, Zenon
    <3>3. f[Head(t)] \o g[Tail(t)] \in Seq(V)
      BY <3>2, JoinProps, Zenon
    <3> QED BY <1>9, <3>1, <3>3, Zenon
  <2> HIDE DEF T
  <2>3. Nat \subseteq T
    BY <2>1, <2>2, Induct, Zenon
  <2> QED BY <2>3 DEF T
<1>11. <<>> \in Q
  OBVIOUS
<1> QED BY <1>8, <1>9, <1>10, <1>11, Zenon DEF Flattens

\* The committed state is the ledger of module Ledger (engine.rs:97,
\* types.rs:279): each commit adds one whole certificate, its transactions
\* that can be decoded in their order and the genesis before the first, and a
\* query is answered from the state between two of them.
THEOREM LedgerHoldsCertificates == ConsSpec => ImplementsLedger
<1>0. FlatMapsFold
  BY FlatMapProps, Zenon DEF FlatMapsFold
<1>1. ConsInit => ToLedger!LedgerInit
  BY Zenon DEF ConsInit, AppInit, EmptyState, ToLedger!LedgerInit, ToLedger!Empty
<1>2. ConsInit => BlockInv
  BY Zenon DEF ConsInit, BlockInv
<1>3. ConsInv /\ BlockInv /\ [ConsNext]_consVars => BlockInv'
  BY <1>0, BlockInvStep, Zenon
<1>4. ConsInv /\ BlockInv /\ [ConsNext]_consVars => [ToLedger!LedgerNext]_<<committed_state, answer>>
  BY LedgerStepMaps, Zenon
<1> QED BY <1>1, <1>2, <1>3, <1>4, ConsInvInit, ConsInvStep, PTL
        DEF ConsSpec, ImplementsLedger, ToLedger!LedgerSpec

\* The map has as many entries as the list has nodes.
LEMMA SizeOfList ==
    ASSUME NEW l, NEW s, IsList(l, s)
    PROVE  Cardinality(DOMAIN l.store) = Len(s)
<1> DEFINE f == [i \in 1..Len(s) |-> l.links[s[i]].data]
<1>1. /\ s \in Seq(Nodes) /\ NoRepeats(s)
      /\ \A k \in DOMAIN l.store : /\ l.store[k].node \in Range(s)
                                   /\ l.links[l.store[k].node].data = k
      /\ \A m \in Range(s) : /\ l.links[m].data \in DOMAIN l.store
                             /\ l.store[l.links[m].data].node = m
  BY Zenon DEF IsList, IsLinked, IsIndexed
<1>2. /\ Len(s) \in Nat /\ DOMAIN s = 1..Len(s) /\ \A i \in 1..Len(s) : s[i] \in Range(s)
      /\ \A m \in Range(s) : \E i \in 1..Len(s) : m = s[i]
  BY <1>1, AtProps, Zenon
<1>3. f \in [1..Len(s) -> DOMAIN l.store]
  BY <1>1, <1>2, Zenon
<1>4. ASSUME NEW i \in 1..Len(s), NEW j \in 1..Len(s), f[i] = f[j]
      PROVE  i = j
  <2>1. s[i] = s[j]
    BY <1>1, <1>2, <1>4, Zenon
  <2> QED BY <1>1, <1>2, <2>1, Zenon DEF NoRepeats
<1>5. ASSUME NEW k \in DOMAIN l.store PROVE \E i \in 1..Len(s) : f[i] = k
  BY <1>1, <1>2
<1> HIDE DEF f
<1>6. f \in Bijection(1..Len(s), DOMAIN l.store)
  BY <1>3, <1>4, <1>5, Zenon DEF Bijection, Injection, Surjection, IsInjective
<1>7. ExistsBijection(1..Len(s), DOMAIN l.store)
  BY <1>6, Zenon DEF ExistsBijection
<1>8. IsFiniteSet(1..Len(s)) /\ Cardinality(1..Len(s)) = Len(s)
  <2>1. 1 \in Int /\ Len(s) \in Int
    BY <1>2
  <2>2. Cardinality(1..Len(s)) = IF 1 > Len(s) THEN 0 ELSE Len(s) - 1 + 1
    BY <2>1, FS_Interval, Zenon
  <2>3. IsFiniteSet(1..Len(s))
    BY <2>1, FS_Interval, Zenon
  <2> QED BY <1>2, <2>2, <2>3
<1> QED BY <1>7, <1>8, FS_Bijection, Zenon

\* Two walks that start alike and go on alike are the same.
LEMMA AgreeByStep ==
    ASSUME NEW N \in Nat, NEW f, NEW g, Alike(f, g, N)
    PROVE  f = g
<1> DEFINE S == {i \in Nat : i \in 1..N => f[i] = g[i]}
<1>1. 0 \in S
  OBVIOUS
<1>2. ASSUME NEW i \in Nat, i \in S PROVE i + 1 \in S
  <2> SUFFICES ASSUME i + 1 \in 1..N PROVE f[i + 1] = g[i + 1]
    OBVIOUS
  <2>1. CASE i = 0
    BY <2>1 DEF Alike
  <2>2. CASE i # 0
    <3>1. i \in 1..N /\ i \in 1..(N - 1)
      BY <2>2
    <3>2. f[i] = g[i]
      BY <1>2, <3>1, Zenon
    <3> QED BY <3>1, <3>2, Zenon DEF Alike
  <2> QED BY <2>1, <2>2, Zenon
<1> HIDE DEF S
<1>3. Nat \subseteq S
  BY <1>1, <1>2, Induct, Zenon
<1>4. \A i \in 1..N : f[i] = g[i]
  BY <1>3 DEF S
<1> QED BY <1>4, Zenon DEF Alike

\* After every call the list and the map hold the same entries, and the two
\* walks along the links are each other's reverse.
THEOREM ListAlwaysMatchesStore == LruSpec => []ListMatchesStore
<1>0. WalksGoRight
  BY AgreeByStep, SizeOfList, Zenon DEF WalksGoRight
<1>1. LruInit => ListInv
  BY <1>0, ListInvInit, Zenon
<1>2. ListInv /\ [LruNext]_lruVars => ListInv'
  BY <1>0, ListInvStep, Zenon
<1>3. ListInv => ListMatchesStore
  BY <1>0, ListInvImplies, Zenon
<1> QED BY <1>1, <1>2, <1>3, PTL DEF LruSpec

\* The linked list is a queue in the order of insertion: insert appends and
\* evicts the oldest at the capacity, remove takes out one entry, and the
\* answers are those of the queue.
THEOREM ListIsAQueue == LruSpec => ImplementsQueue
<1>0. WalksGoRight
  BY AgreeByStep, SizeOfList, Zenon DEF WalksGoRight
<1>1. LruInit => ListInv /\ Abstract!QInit
  BY <1>0, ListInvInit, Zenon
<1>2. ListInv /\ [LruNext]_lruVars => ListInv' /\ [Abstract!QNext]_(Abstract!qVars)
  BY <1>0, ListInvStep, Zenon
<1> QED BY <1>1, <1>2, PTL DEF LruSpec, ImplementsQueue, Abstract!QSpec
=============================================================================
