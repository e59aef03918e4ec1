----------------------------- MODULE NodeProofs -----------------------------
(***************************************************************************)
(* Proofs about a node's libp2p service, its start and the tracker, for    *)
(* any number of callers, peers, nodes, handlers and ids.  The service: no *)
(* caller of a get is forgotten, and what is known of peers follows their  *)
(* connections.  The processes and the tracker: a recent registration is   *)
(* listed, a node that is up runs under a key that is saved and its own,   *)
(* and under the settings of its file.                                     *)
(***************************************************************************)
EXTENDS NetworkService, UrsaNode, TLAPS

-----------------------------------------------------------------------------
(* The libp2p service.                                                     *)

\* HashMap::insert keeps a map's type, and changes the entry at k only.
LEMMA PutProps ==
    ASSUME NEW S, NEW T, NEW m, IsMap(m, S, T), NEW k \in S, NEW v \in T
    PROVE  /\ IsMap(Put(m, k, v), S, T)
           /\ DOMAIN Put(m, k, v) = DOMAIN m \cup {k}
           /\ \A x \in DOMAIN Put(m, k, v) : Put(m, k, v)[x] = IF x = k THEN v ELSE m[x]
BY Zenon DEF Put, IsMap

\* HashMap::remove keeps a map's type, and drops the entry at k only.
LEMMA DelProps ==
    ASSUME NEW S, NEW T, NEW m, IsMap(m, S, T), NEW k
    PROVE  /\ IsMap(Del(m, k), S, T)
           /\ DOMAIN Del(m, k) = DOMAIN m \ {k}
           /\ \A x \in DOMAIN Del(m, k) : Del(m, k)[x] = m[x]
BY Zenon DEF Del, Restrict, IsMap

\* A new map is empty.
LEMMA EmptyMapProps == ASSUME NEW S, NEW T PROVE IsMap(EmptyMap, S, T) /\ DOMAIN EmptyMap = {}
BY Zenon DEF EmptyMap, IsMap

\* Answering changes only the callers that are answered and still there.
LEMMA AnsweredProps ==
    ASSUME caller \in [Callers -> CallStates], NEW S, NEW st \in CallStates
    PROVE  /\ Answered(S, st) \in [Callers -> CallStates]
           /\ \A c \in Callers : Answered(S, st)[c] =
                IF c \in S /\ caller[c] # "gone" THEN st ELSE caller[c]
BY Zenon DEF Answered

\* Whether AnswerOrPanic answers or panics, it makes nobody wait.
LEMMA AnswerOrPanicProps ==
    ASSUME caller \in [Callers -> CallStates], service \in {"up", "down"},
           NEW c \in Callers, NEW st \in {"ok", "err"}, AnswerOrPanic(c, st)
    PROVE  /\ caller' \in [Callers -> CallStates]
           /\ service' \in {"up", "down"}
           /\ \A d \in Callers : caller'[d] = "waiting" => caller[d] = "waiting"
<1>1. CASE caller[c] = "gone"
  BY <1>1, Zenon DEF AnswerOrPanic, CallStates, Waits
<1>2. CASE caller[c] # "gone"
  <2>1. caller' = Answered({c}, st) /\ service' = service
    BY <1>2, Zenon DEF AnswerOrPanic
  <2> QED BY <2>1, Zenon DEF Answered, CallStates
<1> QED BY <1>1, <1>2, Zenon

\* A command is taken from the front of the channel.
LEMMA TakesProps ==
    ASSUME commands \in Seq(Callers), NEW c, NEW op, Takes(c, op)
    PROVE  c \in Callers /\ commands' \in Seq(Callers)
BY DEF Takes

-----------------------------------------------------------------------------
(* Types.                                                                  *)

\* The initial state is typed.
LEMMA TypeInit == Init => TypeOK
<1> SUFFICES ASSUME Init PROVE TypeOK
  BY Zenon
<1>1. /\ IsMap(bitswap_queries, Callers, Cids)
      /\ IsMap(response_channels, Cids, SUBSET Callers)
      /\ IsMap(pending_responses, Requests, Callers)
      /\ IsMap(peer_cached_content, Peers, SUBSET Cids)
      /\ IsMap(running, Callers, SUBSET Peers)
  BY EmptyMapProps, Zenon DEF Init
<1>2. caller \in [Callers -> CallStates] /\ conns \in [Peers -> 0..MaxConns]
  BY NetworkAssumption DEF Init, CallStates
<1> QED BY <1>1, <1>2, NetworkAssumption DEF Init, TypeOK

\* Every step keeps the types.
LEMMA TypeStep == TypeOK /\ [Next]_vars => TypeOK'
<1> SUFFICES ASSUME TypeOK, [Next]_vars PROVE TypeOK'
  BY Zenon
<1> SUFFICES TypeOK'
  BY Zenon
<1> USE NetworkAssumption
<1>0. CASE UNCHANGED vars
  BY <1>0, Zenon DEF vars, swarmVars, TypeOK
<1>1. CASE \E c \in Callers : Call(c)
  <2> PICK c \in Callers : Call(c)
    BY <1>1, Zenon
  <2>1. commands' \in Seq(Callers)
    <3>1. commands' = Append(commands, c) \/ commands' = commands
      BY Zenon DEF Call
    <3>2. commands \in Seq(Callers)
      BY Zenon DEF TypeOK
    <3>3. Append(commands, c) \in Seq(Callers)
      BY <3>2
    <3> QED BY <3>1, <3>2, <3>3, Zenon
  <2>2. caller' \in [Callers -> CallStates]
    <3>1. \E st \in CallStates : caller' = [caller EXCEPT ![c] = st]
      BY Zenon DEF Call, CallStates
    <3> QED BY <3>1, Zenon DEF TypeOK
  <2> QED BY <2>1, <2>2, Zenon DEF Call, TypeOK, swarmVars
<1>2. CASE \E c \in Callers : GoAway(c)
  BY <1>2, Zenon DEF GoAway, TypeOK, CallStates, swarmVars
<1>3. CASE \E c \in Callers : GetBitswapAlone(c)
  <2> PICK c \in Callers : GetBitswapAlone(c)
    BY <1>3, Zenon
  <2>1. commands' \in Seq(Callers)
    BY TakesProps, Zenon DEF GetBitswapAlone, TypeOK
  <2>2. caller' \in [Callers -> CallStates] /\ service' \in {"up", "down"}
    BY AnswerOrPanicProps, Zenon DEF GetBitswapAlone, TypeOK
  <2> QED BY <2>1, <2>2, Zenon DEF GetBitswapAlone, TypeOK, swarmVars
<1>4. CASE \E c \in Callers : GetBitswap(c)
  <2> PICK c \in Callers : GetBitswap(c)
    BY <1>4, Zenon
  <2> DEFINE d == ask[c].cid
             W == GetOr(response_channels, d, {}) \cup {c}
             P == Candidates(d)
  <2>1. commands' \in Seq(Callers)
    BY TakesProps, Zenon DEF GetBitswap, TypeOK
  <2>2. caller' \in [Callers -> CallStates]
    BY AnsweredProps, Zenon DEF GetBitswap, TypeOK, CallStates
  <2>3. d \in Cids /\ W \in SUBSET Callers /\ P \in SUBSET Peers
    BY Zenon DEF TypeOK, Asks, GetOr, Candidates, IsMap
  <2>4. /\ response_channels' = Put(response_channels, d, W)
        /\ bitswap_queries' = Put(bitswap_queries, c, d)
        /\ running' = Put(running, c, P)
    BY Zenon DEF GetBitswap
  <2> HIDE DEF d, W, P
  <2>5. IsMap(response_channels', Cids, SUBSET Callers)
    BY <2>3, <2>4, PutProps, Zenon DEF TypeOK
  <2>6. IsMap(bitswap_queries', Callers, Cids)
    BY <2>3, <2>4, PutProps, Zenon DEF TypeOK
  <2>7. IsMap(running', Callers, SUBSET Peers)
    BY <2>3, <2>4, PutProps, Zenon DEF TypeOK
  <2> QED BY <2>1, <2>2, <2>5, <2>6, <2>7, Zenon DEF GetBitswap, TypeOK
<1>5. CASE \E c \in Callers : PutCid(c)
  <2> PICK c \in Callers : PutCid(c)
    BY <1>5, Zenon
  <2>1. commands' \in Seq(Callers)
    BY TakesProps, Zenon DEF PutCid, TypeOK
  <2>2. caller' \in [Callers -> CallStates] /\ service' \in {"up", "down"}
    BY AnswerOrPanicProps, Zenon DEF PutCid, TypeOK
  <2>3. outbound' \subseteq Requests /\ cached_content' \subseteq Cids
    BY Zenon DEF PutCid, TypeOK, Requests, Asks
  <2> QED BY <2>1, <2>2, <2>3, Zenon DEF PutCid, TypeOK
<1>6. CASE \E c \in Callers : Query(c)
  <2> PICK c \in Callers : Query(c)
    BY <1>6, Zenon
  <2>1. commands' \in Seq(Callers)
    BY TakesProps, Zenon DEF Query, TypeOK
  <2>2. caller' \in [Callers -> CallStates] /\ service' \in {"up", "down"}
    BY AnswerOrPanicProps, Zenon DEF Query, TypeOK
  <2> QED BY <2>1, <2>2, Zenon DEF Query, TypeOK, swarmVars
<1>7. CASE \E c \in Callers : SendRequest(c)
  <2> PICK c \in Callers : SendRequest(c)
    BY <1>7, Zenon
  <2> DEFINE i == <<c, ask[c].peer, "user">>
  <2>1. commands' \in Seq(Callers)
    BY TakesProps, Zenon DEF SendRequest, TypeOK
  <2>2. caller' \in [Callers -> CallStates]
    BY AnsweredProps, Zenon DEF SendRequest, TypeOK, CallStates
  <2>3. i \in Requests
    BY Zenon DEF TypeOK, Asks, Requests
  <2>4. outbound' = outbound \cup {i} /\ pending_responses' = Put(pending_responses, i, c)
    BY Zenon DEF SendRequest
  <2> HIDE DEF i
  <2>5. IsMap(pending_responses', Requests, Callers)
    BY <2>3, <2>4, PutProps, Zenon DEF TypeOK
  <2> QED BY <2>1, <2>2, <2>3, <2>4, <2>5, Zenon DEF SendRequest, TypeOK
<1>8. CASE \E q \in Callers, st \in {"ok", "err"} : BitswapComplete(q, st)
  <2> PICK q \in Callers, st \in {"ok", "err"} : BitswapComplete(q, st)
    BY <1>8, Zenon
  <2>1. IsMap(running', Callers, SUBSET Peers)
    BY DelProps, Zenon DEF BitswapComplete, TypeOK
  <2>2. CASE q \in DOMAIN bitswap_queries
    <3>0. /\ bitswap_queries' = Del(bitswap_queries, q)
          /\ response_channels' = Del(response_channels, bitswap_queries[q])
      BY <2>2, Zenon DEF BitswapComplete
    <3>1. IsMap(bitswap_queries', Callers, Cids)
      BY <3>0, DelProps, Zenon DEF TypeOK
    <3>2. IsMap(response_channels', Cids, SUBSET Callers)
      BY <3>0, DelProps, Zenon DEF TypeOK
    <3>3. caller' \in [Callers -> CallStates]
      BY <2>2, AnsweredProps DEF BitswapComplete, TypeOK, CallStates
    <3> QED BY <2>1, <3>1, <3>2, <3>3, Zenon DEF BitswapComplete, TypeOK
  <2>3. CASE q \notin DOMAIN bitswap_queries
    BY <2>1, <2>3, Zenon DEF BitswapComplete, TypeOK
  <2> QED BY <2>2, <2>3, Zenon
<1>9. CASE \E i \in Requests : Response(i)
  <2> PICK i \in Requests : Response(i)
    BY <1>9, Zenon
  <2>1. caller' \in [Callers -> CallStates]
    BY AnsweredProps, Zenon DEF Response, TypeOK, CallStates
  <2>2. IsMap(pending_responses', Requests, Callers)
    BY DelProps, Zenon DEF Response, TypeOK
  <2> QED BY <2>1, <2>2, Zenon DEF Response, TypeOK
<1>10. CASE \E i \in Requests : OutboundFailure(i)
  BY <1>10, Zenon DEF OutboundFailure, TypeOK
<1>11. CASE \E p \in Peers : MdnsDiscovered(p) \/ ConnectionEstablished(p)
  BY <1>11 DEF MdnsDiscovered, ConnectionEstablished, TypeOK, swarmVars
<1>12. CASE \E p \in Peers : ConnectionClosed(p)
  <2> PICK p \in Peers : ConnectionClosed(p)
    BY <1>12, Zenon
  <2>0. \/ peer_cached_content' = peer_cached_content
        \/ peer_cached_content' = Del(peer_cached_content, p)
    BY Zenon DEF ConnectionClosed
  <2>1. IsMap(peer_cached_content', Peers, SUBSET Cids)
    <3>1. IsMap(peer_cached_content, Peers, SUBSET Cids)
      BY Zenon DEF TypeOK
    <3>2. IsMap(Del(peer_cached_content, p), Peers, SUBSET Cids)
      BY <3>1, DelProps, Zenon
    <3> QED BY <2>0, <3>1, <3>2, Zenon
  <2>2. conns' \in [Peers -> 0..MaxConns] /\ peers' \subseteq Peers
    BY DEF ConnectionClosed, TypeOK
  <2> QED BY <2>1, <2>2, Zenon DEF ConnectionClosed, TypeOK
<1>13. CASE \E p \in Peers, summary \in SUBSET Cids : StoreSummary(p, summary)
  <2> PICK p \in Peers, summary \in SUBSET Cids : StoreSummary(p, summary)
    BY <1>13, Zenon
  <2>1. IsMap(peer_cached_content', Peers, SUBSET Cids)
    BY PutProps, Zenon DEF StoreSummary, TypeOK
  <2> QED BY <2>1, Zenon DEF StoreSummary, TypeOK, swarmVars
<1> QED
  BY <1>0, <1>1, <1>2, <1>3, <1>4, <1>5, <1>6, <1>7, <1>8, <1>9, <1>10, <1>11, <1>12, <1>13, Zenon
  DEF Next, HandleCommand, Complete, Settle, PeerStep

\* The service's tables always have their types.
THEOREM ServiceTypeCorrect == Spec => []TypeOK
BY TypeInit, TypeStep, PTL DEF Spec

-----------------------------------------------------------------------------
(* Connections.                                                            *)

\* The peers that are connected are known, and summaries are theirs.
LEMMA PeersStep ==
    TypeOK /\ PeersFollowConnections /\ [Next]_vars => PeersFollowConnections'
<1> SUFFICES ASSUME TypeOK, PeersFollowConnections, [Next]_vars
             PROVE  PeersFollowConnections'
  BY Zenon
<1> SUFFICES PeersFollowConnections'
  BY Zenon
<1>1. CASE UNCHANGED <<conns, peers, peer_cached_content>>
  BY <1>1, Zenon DEF PeersFollowConnections
<1>2. CASE \E p \in Peers : MdnsDiscovered(p)
  BY <1>2, Zenon DEF MdnsDiscovered, PeersFollowConnections, swarmVars
<1>3. CASE \E p \in Peers : ConnectionEstablished(p)
  BY <1>3, NetworkAssumption DEF ConnectionEstablished, PeersFollowConnections, TypeOK, IsMap
<1>4. CASE \E p \in Peers : ConnectionClosed(p)
  <2> PICK p \in Peers : ConnectionClosed(p)
    BY <1>4, Zenon
  <2>1. \A r \in Peers : conns[r] \in Nat /\ conns'[r] = IF r = p THEN conns[p] - 1 ELSE conns[r]
    BY NetworkAssumption DEF ConnectionClosed, TypeOK
  <2>2. CASE conns[p] = 1 /\ p \in peers
    <3>1. peers' = peers \ {p} /\ peer_cached_content' = Del(peer_cached_content, p)
      BY <2>2, Zenon DEF ConnectionClosed
    <3>2. DOMAIN peer_cached_content' = DOMAIN peer_cached_content \ {p}
      BY <3>1, Zenon DEF Del, Restrict
    <3> QED BY <2>1, <2>2, <3>1, <3>2 DEF PeersFollowConnections, TypeOK, IsMap
  <2>3. CASE ~(conns[p] = 1 /\ p \in peers)
    <3>1. peers' = peers /\ peer_cached_content' = peer_cached_content /\ conns[p] > 0
      BY <2>3, Zenon DEF ConnectionClosed
    <3>2. conns[p] # 1
      BY <2>3, <3>1, Zenon DEF PeersFollowConnections
    <3> QED BY <2>1, <3>1, <3>2 DEF PeersFollowConnections, TypeOK, IsMap
  <2> QED BY <2>2, <2>3, Zenon
<1>5. CASE \E p \in Peers, summary \in SUBSET Cids : StoreSummary(p, summary)
  <2> PICK p \in Peers, summary \in SUBSET Cids : StoreSummary(p, summary)
    BY <1>5, Zenon
  <2>1. DOMAIN peer_cached_content' = DOMAIN peer_cached_content \cup {p}
    BY Zenon DEF StoreSummary, Put
  <2> QED BY <2>1, Zenon DEF StoreSummary, PeersFollowConnections, swarmVars
<1>6. CASE \E c \in Callers : HandleCommand(c)
  BY <1>1, <1>6, Zenon
  DEF HandleCommand, GetBitswapAlone, GetBitswap, PutCid, Query, SendRequest, swarmVars
<1>7. CASE \E c \in Callers : Call(c) \/ GoAway(c) \/ Complete(c)
  BY <1>1, <1>7, Zenon DEF Call, GoAway, Complete, BitswapComplete, swarmVars
<1>8. CASE \E i \in Requests : Settle(i)
  BY <1>1, <1>8, Zenon DEF Settle, Response, OutboundFailure
<1> QED
  BY <1>1, <1>2, <1>3, <1>4, <1>5, <1>6, <1>7, <1>8, Zenon DEF Next, PeerStep, vars, swarmVars

\* handle_swarm_event keeps `peers' a superset of the connected peers, and
\* drops a peer's summary with its last connection, for any number of peers
\* and connections.
THEOREM PeersAlwaysFollowConnections == Spec => []PeersFollowConnections
<1>1. Init => PeersFollowConnections
  BY EmptyMapProps DEF Init, PeersFollowConnections
<1> QED BY <1>1, TypeInit, TypeStep, PeersStep, PTL DEF Spec

-----------------------------------------------------------------------------
(* Waiting callers.                                                        *)

\* What makes WaitersHaveQuery inductive: a query is for the cid its caller
\* asked for, and the service's table of queries is bitswap's.
QueriesOfCallers == \A q \in DOMAIN bitswap_queries : bitswap_queries[q] = ask[q].cid

WaiterInv == TypeOK /\ QueriesOfCallers /\ QueriesMatchBitswap /\ WaitersHaveQuery

\* Initially nobody waits.
LEMMA WaiterInit == Init => WaiterInv
<1> SUFFICES ASSUME Init PROVE WaiterInv
  BY Zenon
<1>1. TypeOK
  BY TypeInit, Zenon
<1>2. DOMAIN EmptyMap = {}
  BY Zenon DEF EmptyMap
<1> QED BY <1>1, <1>2, Zenon DEF Init, WaiterInv, QueriesOfCallers, QueriesMatchBitswap, WaitersHaveQuery

\* Steps that leave the two tables alone and make nobody wait.
LEMMA WaiterFrame ==
    ASSUME WaiterInv, TypeOK',
           UNCHANGED <<ask, bitswap_queries, response_channels, running>>,
           service' = "up" => service = "up",
           \A c \in Callers : caller'[c] = "waiting" /\ ask[c].op = "get_bitswap"
                               => caller[c] = "waiting"
    PROVE  WaiterInv'
BY Zenon DEF WaiterInv, QueriesOfCallers, QueriesMatchBitswap, WaitersHaveQuery

\* GetBitswap registers the caller and starts the query that answers it.
LEMMA WaiterGet ==
    ASSUME WaiterInv, TypeOK', NEW c \in Callers, GetBitswap(c)
    PROVE  WaiterInv'
<1> DEFINE d == ask[c].cid
           W == GetOr(response_channels, d, {}) \cup {c}
<1>1. d \in Cids /\ service = "up"
  BY Zenon DEF WaiterInv, TypeOK, Asks, GetBitswap, Takes
<1>2. /\ response_channels' = Put(response_channels, d, W)
      /\ bitswap_queries' = Put(bitswap_queries, c, d)
      /\ running' = Put(running, c, Candidates(d))
      /\ caller' = Answered({c}, "waiting")
      /\ ask' = ask
  BY Zenon DEF GetBitswap
<1>3. /\ DOMAIN response_channels' = DOMAIN response_channels \cup {d}
      /\ response_channels'[d] = W
      /\ \A e \in DOMAIN response_channels : e # d => response_channels'[e] = response_channels[e]
  BY <1>2, Zenon DEF Put
<1>4. /\ DOMAIN bitswap_queries' = DOMAIN bitswap_queries \cup {c}
      /\ DOMAIN running' = DOMAIN running \cup {c}
      /\ bitswap_queries'[c] = d
      /\ \A q \in DOMAIN bitswap_queries : q # c => bitswap_queries'[q] = bitswap_queries[q]
  BY <1>2, Zenon DEF Put
<1>5. \A b \in Callers : caller'[b] = IF b = c /\ caller[b] # "gone" THEN "waiting" ELSE caller[b]
  BY <1>2, Zenon DEF Answered
<1>6. c \in W /\ (d \in DOMAIN response_channels => response_channels[d] \subseteq W)
  BY Zenon DEF GetOr
<1>7. d = ask[c].cid
  BY Zenon
<1> HIDE DEF d, W
<1>8. QueriesMatchBitswap' /\ QueriesOfCallers'
  BY <1>2, <1>4, <1>7, Zenon DEF WaiterInv, QueriesMatchBitswap, QueriesOfCallers
<1>9. WaitersHaveQuery'
  <2>1. ASSUME NEW b \in Callers, caller'[b] = "waiting", ask[b].op = "get_bitswap"
        PROVE  /\ ask[b].cid \in DOMAIN response_channels'
               /\ b \in response_channels'[ask[b].cid]
    BY <1>1, <1>3, <1>5, <1>6, <1>7, <2>1, Zenon DEF WaiterInv, WaitersHaveQuery
  <2>2. ASSUME NEW e \in DOMAIN response_channels'
        PROVE  \E q \in DOMAIN bitswap_queries' \cap DOMAIN running' : bitswap_queries'[q] = e
    <3>1. CASE e = d
      BY <1>4, <3>1, Zenon
    <3>2. CASE e # d
      <4>1. PICK q \in DOMAIN bitswap_queries \cap DOMAIN running : bitswap_queries[q] = e
        BY <1>1, <1>3, <3>2, Zenon DEF WaiterInv, WaitersHaveQuery
      <4>2. q # c
        BY <1>7, <3>2, <4>1, Zenon DEF WaiterInv, QueriesOfCallers
      <4> QED BY <1>4, <4>1, <4>2, Zenon
    <3> QED BY <3>1, <3>2, Zenon
  <2> QED BY <1>2, <2>1, <2>2, Zenon DEF WaitersHaveQuery
<1> QED BY <1>8, <1>9, Zenon DEF WaiterInv

\* The completion of one query answers everyone who waits for its cid, and
\* takes away no other cid's query.
LEMMA WaiterComplete ==
    ASSUME WaiterInv, TypeOK', NEW q \in Callers, NEW st \in {"ok", "err"},
           BitswapComplete(q, st)
    PROVE  WaiterInv'
<1>1. q \in DOMAIN running /\ q \in DOMAIN bitswap_queries /\ service = "up"
  BY Zenon DEF BitswapComplete, WaiterInv, QueriesMatchBitswap
<1> DEFINE d == bitswap_queries[q]
           W == GetOr(response_channels, d, {})
<1>2. /\ bitswap_queries' = Del(bitswap_queries, q)
      /\ running' = Del(running, q)
      /\ response_channels' = Del(response_channels, d)
      /\ caller' = Answered(W, st)
      /\ ask' = ask
  BY <1>1, Zenon DEF BitswapComplete
<1>3. /\ DOMAIN response_channels' = DOMAIN response_channels \ {d}
      /\ \A e \in DOMAIN response_channels' : response_channels'[e] = response_channels[e]
  BY <1>2, Zenon DEF Del, Restrict
<1>4. /\ DOMAIN bitswap_queries' = DOMAIN bitswap_queries \ {q}
      /\ DOMAIN running' = DOMAIN running \ {q}
      /\ \A r \in DOMAIN bitswap_queries' : bitswap_queries'[r] = bitswap_queries[r]
  BY <1>2, Zenon DEF Del, Restrict
<1>5. \A b \in Callers : caller'[b] = IF b \in W /\ caller[b] # "gone" THEN st ELSE caller[b]
  BY <1>2, Zenon DEF Answered
<1>6. d \in DOMAIN response_channels => W = response_channels[d]
  BY Zenon DEF GetOr
<1>7. bitswap_queries[q] = d
  BY Zenon
<1> HIDE DEF d, W
<1>8. QueriesMatchBitswap' /\ QueriesOfCallers'
  BY <1>2, <1>4, Zenon DEF WaiterInv, QueriesMatchBitswap, QueriesOfCallers
<1>9. WaitersHaveQuery'
  <2>1. ASSUME NEW b \in Callers, caller'[b] = "waiting", ask[b].op = "get_bitswap"
        PROVE  /\ ask[b].cid \in DOMAIN response_channels'
               /\ b \in response_channels'[ask[b].cid]
    <3>1. caller[b] = "waiting" /\ b \notin W
      BY <1>5, <2>1, Zenon
    <3>2. ask[b].cid \in DOMAIN response_channels /\ b \in response_channels[ask[b].cid]
      BY <1>1, <2>1, <3>1, Zenon DEF WaiterInv, WaitersHaveQuery
    <3>3. ask[b].cid # d
      BY <1>6, <3>1, <3>2, Zenon
    <3> QED BY <1>3, <3>2, <3>3, Zenon
  <2>2. ASSUME NEW e \in DOMAIN response_channels'
        PROVE  \E r \in DOMAIN bitswap_queries' \cap DOMAIN running' : bitswap_queries'[r] = e
    <3>1. e \in DOMAIN response_channels /\ e # d
      BY <1>3, Zenon
    <3>2. PICK r \in DOMAIN bitswap_queries \cap DOMAIN running : bitswap_queries[r] = e
      BY <1>1, <3>1, Zenon DEF WaiterInv, WaitersHaveQuery
    <3>3. r # q
      BY <1>7, <3>1, <3>2, Zenon
    <3> QED BY <1>4, <3>2, <3>3, Zenon
  <2> QED BY <1>2, <2>1, <2>2, Zenon DEF WaitersHaveQuery
<1> QED BY <1>8, <1>9, Zenon DEF WaiterInv

\* Every step keeps the invariant.
LEMMA WaiterStep == WaiterInv /\ [Next]_vars => WaiterInv'
<1> SUFFICES ASSUME WaiterInv, [Next]_vars PROVE WaiterInv'
  BY Zenon
<1> SUFFICES WaiterInv'
  BY Zenon
<1>0. TypeOK /\ TypeOK'
  BY TypeStep, Zenon DEF WaiterInv
<1>1. CASE UNCHANGED <<ask, bitswap_queries, response_channels, running, caller, service>>
  BY <1>0, <1>1, WaiterFrame, Zenon
<1>2. CASE \E c \in Callers : Call(c) \/ GoAway(c)
  <2> PICK c \in Callers : Call(c) \/ GoAway(c)
    BY <1>2, Zenon
  <2>1. UNCHANGED <<ask, bitswap_queries, response_channels, running, service>>
    BY Zenon DEF Call, GoAway, swarmVars
  <2>2. \E st \in {"queued", "dropped", "gone"} : caller' = [caller EXCEPT ![c] = st]
    BY Zenon DEF Call, GoAway
  <2>3. \A b \in Callers : caller'[b] = "waiting" => caller[b] = "waiting"
    BY <1>0, <2>2, Zenon DEF TypeOK
  <2> QED BY <1>0, <2>1, <2>3, WaiterFrame, Zenon
<1>3. CASE \E c \in Callers : GetBitswapAlone(c) \/ PutCid(c) \/ Query(c)
  <2> PICK c \in Callers : GetBitswapAlone(c) \/ PutCid(c) \/ Query(c)
    BY <1>3, Zenon
  <2>1. UNCHANGED <<ask, bitswap_queries, response_channels, running>> /\ service = "up"
    BY Zenon DEF GetBitswapAlone, PutCid, Query, swarmVars, Takes
  <2>2. \E st \in {"ok", "err"} : AnswerOrPanic(c, st)
    BY Zenon DEF GetBitswapAlone, PutCid, Query
  <2>3. \A b \in Callers : caller'[b] = "waiting" => caller[b] = "waiting"
    BY <1>0, <2>2, AnswerOrPanicProps, Zenon DEF TypeOK
  <2> QED BY <1>0, <2>1, <2>3, WaiterFrame, Zenon
<1>4. CASE \E c \in Callers : GetBitswap(c)
  BY <1>0, <1>4, WaiterGet, Zenon
<1>5. CASE \E c \in Callers : SendRequest(c)
  <2> PICK c \in Callers : SendRequest(c)
    BY <1>5, Zenon
  <2>1. UNCHANGED <<ask, bitswap_queries, response_channels, running, service>>
    BY Zenon DEF SendRequest
  <2>2. ask[c].op = "send_request" /\ caller' = Answered({c}, "waiting")
    BY Zenon DEF SendRequest, Takes
  <2>3. \A b \in Callers : caller'[b] = "waiting" /\ ask[b].op = "get_bitswap"
                             => caller[b] = "waiting"
    BY <2>2, Zenon DEF Answered
  <2> QED BY <1>0, <2>1, <2>3, WaiterFrame, Zenon
<1>6. CASE \E q \in Callers : Complete(q)
  BY <1>0, <1>6, WaiterComplete, Zenon DEF Complete
<1>7. CASE \E i \in Requests : Response(i)
  <2> PICK i \in Requests : Response(i)
    BY <1>7, Zenon
  <2>1. UNCHANGED <<ask, bitswap_queries, response_channels, running, service>>
    BY Zenon DEF Response
  <2>2. \A b \in Callers : caller'[b] = "waiting" => caller[b] = "waiting"
    BY Zenon DEF Response, Answered
  <2> QED BY <1>0, <2>1, <2>2, WaiterFrame, Zenon
<1>8. CASE \E i \in Requests : OutboundFailure(i)
  BY <1>1, <1>8, Zenon DEF OutboundFailure
<1>9. CASE \E p \in Peers : PeerStep(p)
  BY <1>1, <1>9, Zenon
  DEF PeerStep, MdnsDiscovered, ConnectionEstablished, ConnectionClosed, StoreSummary, swarmVars
<1> QED
  BY <1>1, <1>2, <1>3, <1>4, <1>5, <1>6, <1>7, <1>8, <1>9, Zenon
  DEF Next, HandleCommand, Settle, vars, swarmVars

\* No caller of a get is ever forgotten, for any number of callers, cids and
\* peers and any interleaving of their commands with completions.
THEOREM NoCallerForgotten == Spec => []WaitersHaveQuery
<1>1. WaiterInv => WaitersHaveQuery
  BY Zenon DEF WaiterInv
<1> QED BY <1>1, WaiterInit, WaiterStep, PTL DEF Spec

\* bitswap_queries holds exactly the queries that bitswap works on.
THEOREM QueriesAlwaysMatch == Spec => []QueriesMatchBitswap
<1>1. WaiterInv => QueriesMatchBitswap
  BY Zenon DEF WaiterInv
<1> QED BY <1>1, WaiterInit, WaiterStep, PTL DEF Spec

-----------------------------------------------------------------------------
(* Node processes and the tracker.                                         *)

\* An entry that was written for an acknowledged registration, or over it, is
\* stamped no earlier than it arrived; nor is one about to be written.
Stamps ==
    /\ DOMAIN acked \subseteq DOMAIN db
    /\ \A id \in DOMAIN acked : acked[id] <= db[id] /\ acked[id] <= clock
    /\ \A h \in Handlers : Registering(h) => reg[h].arrived <= clock
    /\ \A h \in Handlers : reg[h].pc = "store" =>
           /\ reg[h].id \in DOMAIN acked => acked[reg[h].id] <= reg[h].last_registered
           /\ \A g \in Handlers :
                 Registering(g) /\ reg[g].clear /\ reg[g].id = reg[h].id =>
                     reg[g].arrived <= reg[h].last_registered

\* An age that fits in u64 is not changed by the subtraction in u64.
LEMMA NoWrap == ASSUME NEW x \in Nat, NEW w \in Nat, x < w PROVE x % w = x
OBVIOUS

-----------------------------------------------------------------------------
(* The tracker. *)

TrackerInv == TrackerTypeOK /\ Stamps

Lookups == [pc : {"lookup"}, id : Ids, arrived : Times, clear : BOOLEAN]

Stores == [pc : {"store"}, id : Ids, arrived : Times, clear : BOOLEAN,
           last_registered : Times]

\* What the type of the handlers says about one of them.
LEMMA HandlerCases ==
    ASSUME TrackerInv, NEW h \in Handlers
    PROVE  /\ reg[h] = Free \/ reg[h] \in Lookups \/ reg[h] \in Stores
           /\ reg[h].pc = "free" => reg[h] = Free
           /\ reg[h].pc = "lookup" => reg[h] \in Lookups
           /\ reg[h].pc = "store" => reg[h] \in Stores
           /\ Registering(h) => reg[h].id \in Ids /\ reg[h].arrived \in Times
BY DEF TrackerInv, TrackerTypeOK, Lookups, Stores, Free, Registering

\* A handler that has become free is not registering.
LEMMA FreeIsIdle ==
    ASSUME NEW h, NEW g, reg'[h] = Free, g = h PROVE reg'[g].pc = "free"
BY DEF Free

\* A handler that becomes free leaves the invariant as it is.
LEMMA FreeingKeepsInv ==
    ASSUME TrackerInv, NEW h \in Handlers,
           reg' = [reg EXCEPT ![h] = Free],
           UNCHANGED <<clock, db, sd, acked>>
    PROVE  TrackerInv'
<1>1. TrackerTypeOK'
  BY Zenon DEF TrackerInv, TrackerTypeOK, IsMap
<1>2. \A g \in Handlers : g # h => reg'[g] = reg[g]
  BY Zenon DEF TrackerInv, TrackerTypeOK
<1>3. reg'[h] = Free
  BY Zenon DEF TrackerInv, TrackerTypeOK
<1>4. \A g \in Handlers : reg'[g].pc # "free" => reg'[g] = reg[g]
  BY <1>2, <1>3, FreeIsIdle, Zenon
<1>5. Stamps'
  BY <1>4 DEF TrackerInv, Stamps, Registering
<1> QED BY <1>1, <1>5, Zenon DEF TrackerInv

\* A registration arrives.
LEMMA ArrivalKeepsInv ==
    ASSUME TrackerInv, NEW h \in Handlers, NEW id \in Ids,
           registration_handler(h, id)
    PROVE  TrackerInv'
<1>1. clock \in Times /\ clock <= clock
  BY TrackerAssumption DEF TrackerInv, TrackerTypeOK, Times
<1> DEFINE new_reg == [pc |-> "lookup", id |-> id, arrived |-> clock,
                       clear |-> NoneStamped(id)]
<1>2. NoneStamped(id) \in BOOLEAN
  BY Zenon DEF NoneStamped
<1>3. new_reg \in Lookups
  BY <1>1, <1>2, Zenon DEF Lookups
<1>4. reg' = [reg EXCEPT ![h] = new_reg] /\ UNCHANGED <<clock, db, sd, acked>>
  BY Zenon DEF registration_handler
<1>5. /\ new_reg.pc = "lookup" /\ new_reg.id = id /\ new_reg.arrived = clock
      /\ new_reg.clear => NoneStamped(id)
  BY Zenon
<1> HIDE DEF new_reg
<1>6. TrackerTypeOK'
  BY <1>3, <1>4, Zenon DEF TrackerInv, TrackerTypeOK, IsMap, Lookups
<1>7. reg'[h] = new_reg /\ \A g \in Handlers : g # h => reg'[g] = reg[g]
  BY <1>4, Zenon DEF TrackerInv, TrackerTypeOK
<1>8. \A f \in Handlers : reg'[f].pc = "store" => f # h /\ reg'[f] = reg[f]
  BY <1>5, <1>7
<1>9. ASSUME NEW f \in Handlers, reg'[f].pc = "store",
             NEW g \in Handlers, Registering(g)', reg'[g].clear, reg'[g].id = reg'[f].id
      PROVE  reg'[g].arrived <= reg'[f].last_registered
  <2>1. reg'[f] = reg[f] /\ reg[f].pc = "store"
    BY <1>8, <1>9, Zenon
  <2>2. CASE g = h
    BY <1>5, <1>7, <1>9, <2>1, <2>2, Zenon DEF NoneStamped
  <2>3. CASE g # h
    BY <1>7, <1>9, <2>1, <2>3, Zenon DEF TrackerInv, Stamps, Registering
  <2> QED BY <2>2, <2>3, Zenon
<1>10. \A g \in Handlers : Registering(g)' => reg'[g].arrived <= clock
  BY <1>1, <1>5, <1>7, Zenon DEF TrackerInv, Stamps, Registering
<1>11. Stamps'
  BY <1>4, <1>8, <1>9, <1>10, Zenon DEF TrackerInv, Stamps
<1> QED BY <1>6, <1>11, Zenon DEF TrackerInv

\* A write puts a stamp that is no earlier than what is acknowledged.
LEMMA WriteKeepsStamps ==
    ASSUME TrackerInv, NEW h \in Handlers, db_write(h)
    PROVE  Stamps'
<1> DEFINE id == reg[h].id
           at == reg[h].arrived
           stamp == reg[h].last_registered
<1>1. reg[h] \in Stores /\ Registering(h) /\ reg[h].pc = "store"
  BY HandlerCases, Zenon DEF db_write, Registering
<1>2. /\ db' = Put(db, id, stamp) /\ clock' = clock
      /\ acked' = acked \/ (reg[h].clear /\ acked' = Put(acked, id, at))
  BY Zenon DEF db_write
<1>3. reg'[h] = Free /\ \A g \in Handlers : g # h => reg'[g] = reg[g]
  BY Zenon DEF db_write, TrackerInv, TrackerTypeOK
<1>4. /\ id \in DOMAIN acked => acked[id] <= stamp
      /\ reg[h].clear => at <= stamp
      /\ at <= clock
  BY <1>1, Zenon DEF TrackerInv, Stamps
<1>5. ASSUME NEW g \in Handlers, reg'[g].pc = "store"
      PROVE  /\ g # h /\ reg'[g] = reg[g] /\ reg[g].pc = "store"
             /\ reg[g].id = id /\ reg[h].clear => at <= reg[g].last_registered
  <2>1. g # h
    BY <1>3, <1>5, FreeIsIdle
  <2>2. reg'[g] = reg[g] /\ reg[g].pc = "store"
    BY <1>3, <1>5, <2>1, Zenon
  <2> QED BY <1>1, <2>1, <2>2, Zenon DEF TrackerInv, Stamps
<1>6. /\ DOMAIN acked' \subseteq DOMAIN db'
      /\ \A i \in DOMAIN acked' : acked'[i] <= db'[i] /\ acked'[i] <= clock'
  <2>1. DOMAIN db' = DOMAIN db \cup {id} /\ db'[id] = stamp
    BY <1>2, Zenon DEF Put
  <2>2. \A i \in DOMAIN db : i # id => db'[i] = db[i]
    BY <1>2, Zenon DEF Put
  <2>3. CASE acked' = acked
    BY <1>2, <1>4, <2>1, <2>2, <2>3, Zenon DEF TrackerInv, Stamps
  <2>4. CASE reg[h].clear /\ acked' = Put(acked, id, at)
    <3>1. /\ DOMAIN acked' = DOMAIN acked \cup {id} /\ acked'[id] = at
          /\ \A i \in DOMAIN acked : i # id => acked'[i] = acked[i]
      BY <2>4, Zenon DEF Put
    <3> QED BY <1>2, <1>4, <2>1, <2>2, <2>4, <3>1, Zenon DEF TrackerInv, Stamps
  <2> QED BY <1>2, <2>3, <2>4, Zenon
<1>7. ASSUME NEW g \in Handlers, reg'[g].pc = "store", reg'[g].id \in DOMAIN acked'
      PROVE  acked'[reg'[g].id] <= reg'[g].last_registered
  <2>1. /\ reg'[g] = reg[g] /\ reg[g].pc = "store"
        /\ reg[g].id \in DOMAIN acked => acked[reg[g].id] <= reg[g].last_registered
    BY <1>5, <1>7, Zenon DEF TrackerInv, Stamps
  <2>2. CASE acked' = acked
    BY <1>7, <2>1, <2>2, Zenon
  <2>3. CASE reg[h].clear /\ acked' = Put(acked, id, at)
    <3>1. \A i \in DOMAIN acked' : i # id => i \in DOMAIN acked /\ acked'[i] = acked[i]
      BY <2>3, Zenon DEF Put
    <3>2. acked'[id] = at
      BY <2>3, Zenon DEF Put
    <3>3. CASE reg[g].id = id
      BY <1>5, <1>7, <2>1, <2>3, <3>2, <3>3, Zenon
    <3>4. CASE reg[g].id # id
      BY <1>7, <2>1, <3>1, <3>4, Zenon
    <3> QED BY <3>3, <3>4, Zenon
  <2> QED BY <1>2, <2>2, <2>3, Zenon
<1>8. \A g \in Handlers : Registering(g)' => Registering(g) /\ reg'[g] = reg[g]
  BY <1>3, FreeIsIdle, Zenon DEF Registering
<1>9. \A f, g \in Handlers :
          reg'[f].pc = "store" /\ Registering(g)' /\ reg'[g].clear /\ reg'[g].id = reg'[f].id
              => reg'[g].arrived <= reg'[f].last_registered
  BY <1>5, <1>8, Zenon DEF TrackerInv, Stamps
<1>10. \A g \in Handlers : Registering(g)' => reg'[g].arrived <= clock'
  BY <1>2, <1>8, Zenon DEF TrackerInv, Stamps
<1> HIDE DEF id, at, stamp
<1> QED BY <1>6, <1>7, <1>9, <1>10, Zenon DEF Stamps

\* Every step of the tracker keeps its invariant.
LEMMA TrackerKeepsInv == ASSUME TrackerInv, TrackerStep PROVE TrackerInv'
<1>0. clock \in Times /\ Times \subseteq Nat
  BY TrackerAssumption DEF TrackerInv, TrackerTypeOK, Times
<1>1. CASE Tick
  <2>1. clock' \in Times /\ clock <= clock'
    BY <1>0, <1>1, TrackerAssumption DEF Tick, Times
  <2>2. TrackerTypeOK'
    BY <1>1, <2>1, Zenon DEF Tick, TrackerInv, TrackerTypeOK, IsMap
  <2>3. \A t \in Times : t <= clock => t <= clock'
    BY <1>0, <2>1
  <2>4. ASSUME NEW h \in Handlers, Registering(h)' PROVE (reg[h].arrived <= clock)'
    <3>1. reg[h].arrived <= clock /\ reg[h].arrived \in Times /\ reg' = reg
      BY <1>1, <2>4, HandlerCases, Zenon DEF Tick, TrackerInv, Stamps, Registering
    <3> QED BY <2>3, <3>1, Zenon
  <2>5. \A id \in DOMAIN acked : acked[id] <= clock'
    BY <2>3, Zenon DEF TrackerInv, TrackerTypeOK, IsMap, Stamps
  <2>6. Stamps'
    BY <1>1, <2>4, <2>5, Zenon DEF Tick, TrackerInv, Stamps, Registering
  <2> QED BY <2>2, <2>6, Zenon DEF TrackerInv
<1>2. CASE http_sd_handler
  BY <1>0, <1>2, Zenon DEF http_sd_handler, TrackerInv, TrackerTypeOK, IsMap, Stamps, Registering
<1>3. CASE http_sd_list
  BY <1>3, Zenon DEF http_sd_list, TrackerInv, TrackerTypeOK, IsMap, Stamps, Registering
<1>4. CASE http_sd_panics
  BY <1>4, Zenon DEF http_sd_panics, TrackerInv, TrackerTypeOK, IsMap, Stamps, Registering
<1>5. CASE TrackerLost
  BY <1>5, Zenon DEF TrackerLost, TrackerInv, TrackerTypeOK, IsMap, Stamps, Registering, Free
<1>6. ASSUME NEW h \in Handlers, get_ip_info_fails(h) \/ db_write_fails(h)
      PROVE  TrackerInv'
  BY <1>6, FreeingKeepsInv, Zenon DEF get_ip_info_fails, db_write_fails
<1>7. ASSUME NEW h \in Handlers, from_info(h) PROVE TrackerInv'
  <2> DEFINE new_reg == [pc |-> "store", id |-> reg[h].id,
                         arrived |-> reg[h].arrived, clear |-> reg[h].clear,
                         last_registered |-> clock]
  <2>1. Registering(h) /\ reg[h] \in Lookups
    BY <1>7, HandlerCases, Zenon DEF from_info, Registering
  <2>2. new_reg \in Stores
    BY <1>0, <2>1, Zenon DEF Lookups, Stores
  <2>3. reg' = [reg EXCEPT ![h] = new_reg] /\ UNCHANGED <<clock, db, sd, acked>>
    BY <1>7, Zenon DEF from_info
  <2>4. /\ new_reg.id = reg[h].id /\ new_reg.arrived = reg[h].arrived
        /\ new_reg.clear = reg[h].clear /\ new_reg.last_registered = clock
    BY Zenon
  <2> HIDE DEF new_reg
  <2>5. TrackerTypeOK'
    BY <2>2, <2>3, Zenon DEF TrackerInv, TrackerTypeOK, IsMap, Stores
  <2>6. reg'[h] = new_reg /\ \A g \in Handlers : g # h => reg'[g] = reg[g]
    BY <2>3, Zenon DEF TrackerInv, TrackerTypeOK
  <2>7. \A g \in Handlers : Registering(g)' =>
            /\ Registering(g) /\ reg'[g].id = reg[g].id
            /\ reg'[g].arrived = reg[g].arrived /\ reg'[g].clear = reg[g].clear
    BY <2>1, <2>4, <2>6, Zenon DEF Registering
  <2>8. \A g \in Handlers : Registering(g) => reg[g].arrived <= clock
    BY Zenon DEF TrackerInv, Stamps
  <2>9. ASSUME NEW f \in Handlers, reg'[f].pc = "store"
        PROVE  /\ reg'[f].id \in DOMAIN acked => acked[reg'[f].id] <= reg'[f].last_registered
               /\ \A g \in Handlers :
                     Registering(g)' /\ reg'[g].clear /\ reg'[g].id = reg'[f].id =>
                         reg'[g].arrived <= reg'[f].last_registered
    <3>1. CASE f = h
      BY <2>4, <2>6, <2>7, <2>8, <3>1, Zenon DEF TrackerInv, Stamps
    <3>2. CASE f # h
      BY <2>6, <2>7, <2>9, <3>2, Zenon DEF TrackerInv, Stamps
    <3> QED BY <3>1, <3>2, Zenon
  <2>10. Stamps'
    BY <2>3, <2>7, <2>8, <2>9, Zenon DEF TrackerInv, Stamps
  <2> QED BY <2>5, <2>10, Zenon DEF TrackerInv
<1>8. ASSUME NEW h \in Handlers, db_write(h) PROVE TrackerInv'
  <2>1. reg[h] \in Stores
    BY <1>8, HandlerCases, Zenon DEF db_write
  <2>2. /\ reg[h].id \in Ids /\ reg[h].last_registered \in Times
        /\ reg[h].arrived \in Times
    BY <2>1, Zenon DEF Stores
  <2>3. /\ db' = Put(db, reg[h].id, reg[h].last_registered)
        /\ acked' = acked \/ acked' = Put(acked, reg[h].id, reg[h].arrived)
        /\ reg' = [reg EXCEPT ![h] = Free] /\ clock' = clock /\ sd' = sd
    BY <1>8, Zenon DEF db_write
  <2>4. IsMap(db', Ids, Times) /\ IsMap(acked', Ids, Times)
    BY <2>2, <2>3, Zenon DEF TrackerInv, TrackerTypeOK, IsMap, Put
  <2>5. TrackerTypeOK'
    BY <2>3, <2>4, Zenon DEF TrackerInv, TrackerTypeOK
  <2> QED BY <1>8, <2>5, WriteKeepsStamps, Zenon DEF TrackerInv
<1> QED BY <1>1, <1>2, <1>3, <1>4, <1>5, <1>6, <1>7, <1>8, Zenon DEF TrackerStep

\* A listing has every node that registered within the month before it.
LEMMA ListingIsComplete ==
    ASSUME TrackerInv, http_sd_list, NEW id \in DOMAIN acked,
           sd.now - acked[id] < Month
    PROVE  id \in sd'.services \/ db[id] > sd.now
<1>1. /\ sd.now \in Nat /\ db[id] \in Nat /\ acked[id] \in Nat
      /\ sd.now <= MaxTime /\ id \in DOMAIN db /\ acked[id] <= db[id]
  BY TrackerAssumption
     DEF TrackerInv, TrackerTypeOK, Stamps, http_sd_list, IsMap, Times, Free
<1>2. CASE db[id] <= sd.now
  <2>1. sd.now - db[id] \in Nat /\ sd.now - db[id] < Month /\ sd.now - db[id] < U64
    BY <1>1, <1>2, TrackerAssumption
  <2>2. recent(sd.now, db[id])
    BY <2>1, NoWrap, TrackerAssumption, Zenon DEF recent
  <2> QED BY <1>1, <2>2, Zenon DEF http_sd_list
<1> QED BY <1>1, <1>2

-----------------------------------------------------------------------------
(* The processes. *)

\* The keys of a node: the one in use and those in its files.
Own(n) == ({key[n]} \cup {keystore[n][id] : id \in Identities}) \cap Ids

\* The ids the tracker knows, now or once its handlers have finished.
Known == DOMAIN db \cup {reg[h].id : h \in {g \in Handlers : Registering(g)}}

\* Keys are generated once, belong to one node, and are known to the tracker
\* only after they were saved.
OwnKeys ==
    /\ Known \subseteq used
    /\ \A n \in Nodes : Own(n) \subseteq used
    /\ \A m, n \in Nodes : m # n => Own(m) \cap Own(n) = {}
    /\ \A n \in Nodes :
           /\ Up(n) => KeyFile(n) = key[n]
           /\ Up(n) \/ proc[Node(n)] = "saving" => key[n] \in Ids
           /\ proc[Node(n)] = "saving" => key[n] \notin Known

\* A process that waits for a handler is registering, and waits for one.
Waiting ==
    \A n \in Nodes :
        call[n] # {} => proc[Node(n)] = "registering" /\ \E h \in Handlers : call[n] = {h}

\* The inductive invariant.
NodeInv == NodeTypeOK /\ Stamps /\ OwnKeys /\ Waiting

\* OwnKeys implies what the model checker was asked.
LEMMA OwnKeysSuffice == ASSUME NodeInv PROVE RunsUnderSavedKey
BY Zenon DEF NodeInv, OwnKeys, RunsUnderSavedKey, Known

\* Nobody has the key that is generated next.
LEMMA GenerateFresh ==
    ASSUME used \subseteq Ids, used # Ids PROVE generate \in Ids /\ generate \notin used
<1>1. \E k \in Ids : k \notin used
  BY Zenon
<1> QED BY <1>1, Zenon DEF generate

\* The two processes of a node, and of two nodes, are different.
LEMMA TwoProcs ==
    ASSUME NEW n \in Nodes
    PROVE  /\ Node(n) \in Procs /\ Node(n)[1] = n /\ Node(n)[2] = "node"
           /\ Rpc(n) \in Procs /\ Rpc(n)[1] = n /\ Rpc(n)[2] = "rpc"
           /\ \A m \in Nodes : m # n => Node(m) # Node(n)
BY DEF Procs, Node, Rpc

\* What a move of one node's process does to those of the nodes.
LEMMA NodeMoves ==
    ASSUME NodeTypeOK, NEW n \in Nodes, NEW state, proc' = [proc EXCEPT ![Node(n)] = state]
    PROVE  /\ proc'[Node(n)] = state
           /\ \A m \in Nodes : m # n => proc'[Node(m)] = proc[Node(m)]
BY TwoProcs, Zenon DEF NodeTypeOK

\* The identity that a node's settings name is one that has a file.
LEMMA IdentityNamed ==
    ASSUME NodeTypeOK, NEW n \in Nodes PROVE settings[Node(n)]["identity"] \in Identities
<1>1. settings[Node(n)] \in Settings
  BY TwoProcs, Zenon DEF NodeTypeOK
<1> QED BY <1>1, Zenon DEF Settings

\* What a process writes, or leaves behind when it ends, is a configuration.
LEMMA WrittenConfigs ==
    /\ EmptyMap \in Configs
    /\ \A s \in Settings : s \in Configs /\ Restrict(s, {"identity"}) \in Configs
<1>1. EmptyMap \in Configs
  <2>1. EmptyMap \in [{} -> Values]
    BY DEF EmptyMap
  <2>2. EmptyMap \in UNION {[D -> Values] : D \in SUBSET Keys}
    BY <2>1, Zenon
  <2> QED BY <2>1, <2>2, Zenon DEF Configs
<1>2. ASSUME NEW s \in Settings PROVE s \in Configs
  <2>1. s \in [{"identity", "domain"} -> Values] /\ {"identity", "domain"} \in SUBSET Keys
    BY DEF Settings, Identities, Values, Keys
  <2>2. \A k \in DOMAIN s : s[k] # "bad"
    BY DEF Settings, Identities
  <2>3. s \in UNION {[D -> Values] : D \in SUBSET Keys}
    BY <2>1, Zenon
  <2> QED BY <2>2, <2>3, Zenon DEF Configs
<1>3. ASSUME NEW s \in Settings PROVE Restrict(s, {"identity"}) \in Configs
  <2> DEFINE c == Restrict(s, {"identity"})
  <2>1. c \in [{"identity"} -> Values] /\ {"identity"} \in SUBSET Keys
    BY DEF Settings, Identities, Values, Keys, Restrict
  <2>2. \A k \in DOMAIN c : c[k] # "bad"
    BY DEF Settings, Identities, Restrict
  <2> HIDE DEF c
  <2>3. c \in UNION {[D -> Values] : D \in SUBSET Keys}
    BY <2>1, Zenon
  <2>4. c \in Configs
    BY <2>2, <2>3, Zenon DEF Configs
  <2> QED BY <2>4, Zenon DEF c
<1> QED BY <1>1, <1>2, <1>3, Zenon

\* A configuration that loads gives settings.
LEMMA LoadedSettings ==
    ASSUME NEW c \in Configs, Loads(c) PROVE loaded(c) \in Settings
<1>1. \A k \in DOMAIN c : c[k] \in Values /\ (c[k] = "bad" => k = "provider_domain")
  <2>1. PICK D \in SUBSET Keys : c \in [D -> Values]
    BY Zenon DEF Configs
  <2> QED BY <2>1, Zenon DEF Configs
<1>2. "provider_domain" \in DOMAIN c => c["provider_domain"] # "bad"
  BY Zenon DEF Loads, GetOr
<1>3. \A k \in DOMAIN c : c[k] \in Identities
  BY <1>1, <1>2, Zenon DEF Values, Identities
<1>4. parse(c) \in Settings
  BY <1>3, Zenon DEF parse, GetOr, Settings, Identities
<1> QED BY <1>3, <1>4, Zenon DEF loaded, migrate, Settings

\* Nothing is up, saved or registered at first.
LEMMA NodeInvInit == NodeInit => NodeInv
<1> SUFFICES ASSUME NodeInit PROVE NodeInv
  BY Zenon
<1>1. TrackerTypeOK /\ Stamps /\ Known = {}
  BY TrackerAssumption
     DEF NodeInit, TrackerInit, TrackerTypeOK, Stamps, IsMap, EmptyMap, Times,
         Free, Registering, Known
<1>2. NodeTypeOK
  <2>1. config \in [Nodes -> Configs \cup {Torn}]
    BY NodeAssumption, Zenon DEF NodeInit
  <2>2. settings \in [Procs -> Settings] /\ proc \in [Procs -> ProcStates]
    BY Zenon DEF NodeInit, Settings, Default, Identities, ProcStates
  <2> QED BY <1>1, <2>1, <2>2, Zenon DEF NodeInit, NodeTypeOK
<1>3. \A n \in Nodes : Own(n) = {}
  BY NodeAssumption, Zenon DEF NodeInit, Own
<1>4. \A n \in Nodes : proc[Node(n)] = "off"
  BY TwoProcs, Zenon DEF NodeInit
<1>5. OwnKeys
  BY <1>1, <1>3, <1>4, Zenon DEF OwnKeys, Up
<1>6. Waiting
  BY Zenon DEF NodeInit, Waiting
<1> QED BY <1>1, <1>2, <1>5, <1>6, Zenon DEF NodeInv

\* A step of the tracker gives it no id it does not know.
LEMMA TrackerLearnsNothing ==
    ASSUME TrackerInv, TrackerStep PROVE Known' \subseteq Known
<1>1. CASE Tick \/ http_sd_handler \/ http_sd_list \/ http_sd_panics
  BY <1>1, Zenon DEF Tick, http_sd_handler, http_sd_list, http_sd_panics, Known, Registering
<1>2. CASE TrackerLost
  BY <1>2, Zenon DEF TrackerLost, Known, Registering, Free
<1>3. ASSUME NEW h \in Handlers, get_ip_info_fails(h) \/ db_write_fails(h)
      PROVE  Known' \subseteq Known
  BY <1>3 DEF get_ip_info_fails, db_write_fails, Known, Registering, Free,
              TrackerInv, TrackerTypeOK
<1>4. ASSUME NEW h \in Handlers, from_info(h) PROVE Known' \subseteq Known
  BY <1>4, Zenon DEF from_info, Known, Registering, TrackerInv, TrackerTypeOK
<1>5. ASSUME NEW h \in Handlers, db_write(h) PROVE Known' \subseteq Known
  <2>1. reg[h].id \in Known
    BY <1>5, Zenon DEF db_write, Known, Registering
  <2>2. DOMAIN db' = DOMAIN db \cup {reg[h].id}
    BY <1>5, Zenon DEF db_write, Put
  <2>3. \A g \in Handlers : Registering(g)' => Registering(g) /\ reg'[g] = reg[g]
    BY <1>5, Zenon DEF db_write, Registering, Free, TrackerInv, TrackerTypeOK
  <2> QED BY <2>1, <2>2, <2>3, Zenon DEF Known
<1> QED BY <1>1, <1>2, <1>3, <1>4, <1>5, Zenon DEF TrackerStep

\* A step that changes no key and no key file, and only ends processes or
\* moves them on their way to the key.
LEMMA QuietStep ==
    ASSUME NodeInv, NodeTypeOK', Stamps', Waiting', Known' \subseteq Known,
           UNCHANGED <<keystore, key, used>>,
           \A n \in Nodes :
               /\ Up(n)' => Up(n) /\ settings'[Node(n)] = settings[Node(n)]
               /\ proc'[Node(n)] = "saving" => proc[Node(n)] = "saving"
    PROVE  NodeInv'
<1>1. \A n \in Nodes : Own(n)' = Own(n)
  BY Zenon DEF Own
<1>2. \A n \in Nodes : Up(n)' => KeyFile(n)' = KeyFile(n)
  BY Zenon DEF KeyFile
<1>3. OwnKeys'
  BY <1>1, <1>2, Zenon DEF NodeInv, OwnKeys
<1> QED BY <1>3, Zenon DEF NodeInv

\* A step that leaves the tracker and the key files alone and moves process p
\* between two points where it does not save and was not or is not up.
LEMMA MoveKeepsInv ==
    ASSUME NodeInv, NEW p \in Procs, NEW state, UNCHANGED trackerVars,
           UNCHANGED <<keystore, key, used>>, UNCHANGED call,
           config' \in [Nodes -> Configs \cup {Torn}],
           settings' \in [Procs -> Settings], disturbed' \subseteq Nodes,
           \/ state \in {"off", "rewrite", "writing", "command", "identity"}
           \/ state = "running" /\ proc[p] = "start" /\ settings' = settings,
           proc' = [proc EXCEPT ![p] = state], proc[p] # "registering",
           \A q \in Procs : q # p => settings'[q] = settings[q]
    PROVE  NodeInv'
<1>1. NodeTypeOK'
  BY Zenon DEF NodeInv, NodeTypeOK, TrackerTypeOK, trackerVars, IsMap, ProcStates
<1>2. Stamps' /\ Known' = Known
  BY Zenon DEF NodeInv, Stamps, Known, Registering, trackerVars
<1>3. proc'[p] = state /\ \A q \in Procs : q # p => proc'[q] = proc[q]
  BY Zenon DEF NodeInv, NodeTypeOK
<1>4. Waiting'
  <2> SUFFICES ASSUME NEW m \in Nodes, call'[m] # {}
               PROVE  proc'[Node(m)] = "registering" /\ \E h \in Handlers : call'[m] = {h}
    BY Zenon DEF Waiting
  <2>1. proc[Node(m)] = "registering" /\ \E h \in Handlers : call'[m] = {h}
    BY Zenon DEF NodeInv, Waiting
  <2>2. Node(m) # p /\ Node(m) \in Procs
    BY <2>1, TwoProcs, Zenon
  <2> QED BY <1>3, <2>1, <2>2, Zenon
<1>5. ASSUME NEW m \in Nodes
      PROVE  /\ Up(m)' => Up(m) /\ settings'[Node(m)] = settings[Node(m)]
             /\ proc'[Node(m)] = "saving" => proc[Node(m)] = "saving"
  <2>1. CASE Node(m) = p
    BY <1>3, <2>1, Zenon DEF Up
  <2>2. CASE Node(m) # p
    BY <1>3, <2>2, TwoProcs, Zenon DEF Up
  <2> QED BY <2>1, <2>2, Zenon
<1> QED BY <1>1, <1>2, <1>4, <1>5, QuietStep, Zenon

\* Every step of loading the configuration keeps the invariant, and so does
\* the end of a process that waits for nothing.
LEMMA ToConfigKeepsInv == ASSUME NodeInv, NEW p \in Procs, to_config(p) PROVE NodeInv'
<1>0. p[1] \in Nodes
  BY DEF Procs
<1>1. CASE load_or_default(p)
  <2>1. PICK state \in {"rewrite", "command", "identity"} :
            proc' = [proc EXCEPT ![p] = state]
    BY <1>1, Zenon DEF load_or_default, Next_pc
  <2>2. config[p[1]] \in Configs /\ Loads(config[p[1]])
    BY <1>0, <1>1, Zenon DEF load_or_default, Loads, NodeInv, NodeTypeOK
  <2>3. loaded(config[p[1]]) \in Settings
    BY <2>2, LoadedSettings, Zenon
  <2>4. /\ settings' \in [Procs -> Settings] /\ config' \in [Nodes -> Configs \cup {Torn}]
        /\ \A q \in Procs : q # p => settings'[q] = settings[q]
    BY <1>1, <2>3, Zenon DEF load_or_default, NodeInv, NodeTypeOK, fileVars
  <2>5. disturbed' \subseteq Nodes /\ proc[p] # "registering"
    BY <1>0, <1>1, Zenon DEF load_or_default, NodeInv, NodeTypeOK
  <2>6. UNCHANGED trackerVars /\ UNCHANGED <<keystore, key, used>> /\ UNCHANGED call
    BY <1>1, Zenon DEF load_or_default, fileVars
  <2> QED BY <2>1, <2>4, <2>5, <2>6, MoveKeepsInv, Zenon
<1>2. CASE write_create(p) \/ write_all(p)
  <2>1. PICK state \in {"writing", "command", "identity"} :
            proc' = [proc EXCEPT ![p] = state]
    BY <1>2, Zenon DEF write_create, write_all, Next_pc
  <2>2. Filled(p) \subseteq Configs \cup {Torn}
    BY WrittenConfigs, Zenon DEF Filled, NodeInv, NodeTypeOK
  <2>3. config' \in [Nodes -> Configs \cup {Torn}]
    BY <1>0, <1>2, <2>2, WrittenConfigs, Zenon
       DEF write_create, write_all, NodeInv, NodeTypeOK
  <2>4. settings' = settings /\ disturbed' \subseteq Nodes /\ proc[p] # "registering"
    BY <1>2, Zenon DEF write_create, write_all, NodeInv, NodeTypeOK
  <2>5. settings' \in [Procs -> Settings]
    BY <2>4, Zenon DEF NodeInv, NodeTypeOK
  <2>6. UNCHANGED trackerVars /\ UNCHANGED <<keystore, key, used>> /\ UNCHANGED call
    BY <1>2, Zenon DEF write_create, write_all
  <2> QED BY <2>1, <2>3, <2>4, <2>5, <2>6, MoveKeepsInv, Zenon
<1> QED BY <1>1, <1>2, Zenon DEF to_config

\* What a process that ends has in memory.
LEMMA EndsCleared ==
    ASSUME NodeTypeOK, NEW p \in Procs, Ends(p)
    PROVE  /\ proc' = [proc EXCEPT ![p] = "off"] /\ settings' \in [Procs -> Settings]
           /\ \A q \in Procs : q # p => settings'[q] = settings[q]
<1>1. Default \in Settings
  BY Zenon DEF Default, Settings, Identities
<1> QED BY <1>1, Zenon DEF Ends, NodeTypeOK

\* The steps of `ursa rpc` keep the invariant.
LEMMA CommandingKeepsInv == ASSUME NodeInv, NEW n \in Nodes, Commanding(n) PROVE NodeInv'
<1>1. CASE to_config(Rpc(n))
  BY <1>1, TwoProcs, ToConfigKeepsInv, Zenon
<1>2. CASE rpc_run(n)
  <2>1. Ends(Rpc(n)) /\ Rpc(n) \in Procs /\ proc[Rpc(n)] # "registering"
    BY <1>2, TwoProcs, Zenon DEF rpc_run
  <2>2. /\ config' \in [Nodes -> Configs \cup {Torn}] /\ disturbed' \subseteq Nodes
        /\ UNCHANGED trackerVars /\ UNCHANGED <<keystore, key, used>> /\ UNCHANGED call
    BY <1>2, Zenon DEF rpc_run, fileVars, NodeInv, NodeTypeOK
  <2> QED BY <2>1, <2>2, EndsCleared, MoveKeepsInv, Zenon DEF NodeInv
<1> QED BY <1>1, <1>2, Zenon DEF Commanding

\* Every step of a start keeps the invariant.
LEMMA StartingKeepsInv == ASSUME NodeInv, NEW n \in Nodes, Starting(n) PROVE NodeInv'
<1> USE DEF NodeInv
<1>0. Node(n) \in Procs /\ settings[Node(n)]["identity"] \in Identities
  BY TwoProcs, IdentityNamed, Zenon
<1>1. CASE to_config(Node(n))
  BY <1>0, <1>1, ToConfigKeepsInv, Zenon
<1>2. CASE load_panics(n)
  <2>1. Ends(Node(n)) /\ proc[Node(n)] # "registering"
    BY <1>2, Zenon DEF load_panics
  <2>2. /\ config' \in [Nodes -> Configs \cup {Torn}] /\ disturbed' \subseteq Nodes
        /\ UNCHANGED trackerVars /\ UNCHANGED <<keystore, key, used>> /\ UNCHANGED call
    BY <1>2, Zenon DEF load_panics, fileVars, NodeTypeOK
  <2> HIDE DEF NodeInv
  <2> QED BY <1>0, <2>1, <2>2, EndsCleared, MoveKeepsInv, Zenon DEF NodeInv
<1>3. CASE not_registered(n)
  <2>1. /\ config' \in [Nodes -> Configs \cup {Torn}] /\ disturbed' \subseteq Nodes
        /\ UNCHANGED trackerVars /\ UNCHANGED <<keystore, key, used>> /\ UNCHANGED call
        /\ proc' = [proc EXCEPT ![Node(n)] = "running"] /\ proc[Node(n)] = "start"
        /\ settings' = settings /\ settings' \in [Procs -> Settings]
    BY <1>3, Zenon DEF not_registered, fileVars, NodeTypeOK
  <2> HIDE DEF NodeInv
  <2> QED BY <1>0, <2>1, MoveKeepsInv, Zenon
<1>4. CASE load(n)
  <2>1. /\ key' = [key EXCEPT ![n] = KeyFile(n)] /\ KeyFile(n) \in Ids
        /\ proc' = [proc EXCEPT ![Node(n)] = "start"] /\ proc[Node(n)] = "identity"
        /\ settings' = settings /\ used' = used /\ keystore' = keystore
        /\ UNCHANGED <<trackerVars, config, call, disturbed>>
    BY <1>4, Zenon DEF load, fileVars
  <2>2. NodeTypeOK'
    BY <2>1, Zenon DEF trackerVars, NodeTypeOK, TrackerTypeOK, IsMap, ProcStates
  <2>3. /\ proc'[Node(n)] = "start"
        /\ \A m \in Nodes : m # n => proc'[Node(m)] = proc[Node(m)]
    BY <2>1, NodeMoves, Zenon
  <2>4. Stamps' /\ Known' = Known
    BY <2>1, Zenon DEF trackerVars, Stamps, Known, Registering
  <2>5. Waiting'
    BY <2>1, <2>3, Zenon DEF Waiting
  <2>6. KeyFile(n) \in Own(n)
    BY <1>0, <2>1, Zenon DEF KeyFile, Own
  <2>7. \A m \in Nodes : Own(m)' \subseteq Own(m)
    BY <2>1, <2>6, Zenon DEF Own, NodeTypeOK
  <2>8. \A m \in Nodes : KeyFile(m)' = KeyFile(m)
    BY <2>1, Zenon DEF KeyFile
  <2>9. key'[n] = KeyFile(n) /\ \A m \in Nodes : m # n => key'[m] = key[m]
    BY <2>1, Zenon DEF NodeTypeOK
  <2>10. \A m \in Nodes :
           /\ Up(m)' => KeyFile(m)' = key'[m]
           /\ Up(m)' \/ proc'[Node(m)] = "saving" => key'[m] \in Ids
           /\ proc'[Node(m)] = "saving" => key'[m] \notin Known'
    <3> SUFFICES ASSUME NEW m \in Nodes
                 PROVE  /\ Up(m)' => KeyFile(m)' = key'[m]
                        /\ Up(m)' \/ proc'[Node(m)] = "saving" => key'[m] \in Ids
                        /\ proc'[Node(m)] = "saving" => key'[m] \notin Known'
      BY Zenon
    <3>1. CASE m = n
      BY <2>1, <2>3, <2>8, <2>9, <3>1, Zenon
    <3>2. CASE m # n
      BY <2>3, <2>4, <2>8, <2>9, <3>2, Zenon DEF Up, OwnKeys
    <3> QED BY <3>1, <3>2, Zenon
  <2>11. OwnKeys'
    BY <2>1, <2>4, <2>7, <2>10, Zenon DEF OwnKeys
  <2> QED BY <2>2, <2>4, <2>5, <2>11, Zenon
<1>5. CASE new(n)
  <2>1. generate \in Ids /\ generate \notin used
    BY <1>5, GenerateFresh, Zenon DEF new, NodeTypeOK
  <2> DEFINE k == generate
             id == settings[Node(n)]["identity"]
  <2>2. /\ key' = [key EXCEPT ![n] = k] /\ used' = used \cup {k}
        /\ keystore' = [keystore EXCEPT ![n][id] = Torn]
        /\ proc' = [proc EXCEPT ![Node(n)] = "saving"] /\ settings' = settings
        /\ UNCHANGED <<trackerVars, config, call, disturbed>>
        /\ proc[Node(n)] = "identity"
    BY <1>5, Zenon DEF new
  <2>0. id \in Identities
    BY <1>0, Zenon
  <2> HIDE DEF k, id
  <2>3. NodeTypeOK'
    BY <2>0, <2>1, <2>2, Zenon DEF k, NodeTypeOK, TrackerTypeOK, IsMap, trackerVars, ProcStates
  <2>a. /\ proc'[Node(n)] = "saving"
        /\ \A m \in Nodes : m # n => proc'[Node(m)] = proc[Node(m)]
    BY <2>2, NodeMoves, Zenon
  <2>4. Stamps' /\ Known' = Known
    BY <2>2, Zenon DEF trackerVars, Stamps, Known, Registering
  <2>b. Waiting'
    BY <2>2, <2>a, Zenon DEF Waiting
  <2>5. Own(n)' \subseteq Own(n) \cup {k}
    BY <2>2, NodeAssumption, Zenon DEF Own, NodeTypeOK
  <2>6. \A m \in Nodes : m # n => Own(m)' = Own(m) /\ k \notin Own(m)
    BY <2>1, <2>2 DEF k, Own, NodeTypeOK, OwnKeys
  <2>7. ASSUME NEW m \in Nodes
        PROVE  /\ Up(m)' => /\ Up(m) /\ m # n
                            /\ KeyFile(m)' = KeyFile(m) /\ key'[m] = key[m]
               /\ proc'[Node(m)] = "saving" =>
                      \/ key'[m] = k /\ m = n
                      \/ proc[Node(m)] = "saving" /\ key'[m] = key[m]
    <3>1. CASE m = n
      BY <2>2, <2>a, <3>1, Zenon DEF NodeTypeOK, Up
    <3>2. CASE m # n
      <4>1. /\ keystore'[m] = keystore[m] /\ key'[m] = key[m]
            /\ proc'[Node(m)] = proc[Node(m)] /\ settings' = settings
        BY <2>2, <2>a, <3>2, Zenon DEF NodeTypeOK
      <4> QED BY <4>1, <3>2, Zenon DEF Up, KeyFile
    <3> QED BY <3>1, <3>2, Zenon
  <2>8. k \notin Known /\ k \in Ids
    BY <2>1, Zenon DEF k, OwnKeys
  <2>9. OwnKeys'
    <3>1. Known' \subseteq used' /\ \A m \in Nodes : Own(m)' \subseteq used'
      BY <2>2, <2>4, <2>5, <2>6, Zenon DEF OwnKeys
    <3>2. \A m, l \in Nodes : m # l => Own(m)' \cap Own(l)' = {}
      BY <2>5, <2>6 DEF OwnKeys
    <3>3. \A m \in Nodes :
             /\ Up(m)' => KeyFile(m)' = key'[m]
             /\ Up(m)' \/ proc'[Node(m)] = "saving" => key'[m] \in Ids
             /\ proc'[Node(m)] = "saving" => key'[m] \notin Known'
      BY <2>4, <2>7, <2>8, Zenon DEF OwnKeys
    <3> QED BY <3>1, <3>2, <3>3, Zenon DEF OwnKeys
  <2> QED BY <2>3, <2>4, <2>b, <2>9, Zenon
<1>6. CASE save(n)
  <2> DEFINE id == settings[Node(n)]["identity"]
  <2>1. /\ key' = key /\ used' = used /\ settings' = settings
        /\ keystore' = [keystore EXCEPT ![n][id] = key[n]]
        /\ proc' = [proc EXCEPT ![Node(n)] = "start"]
        /\ UNCHANGED <<trackerVars, config, call, disturbed>>
        /\ proc[Node(n)] = "saving"
    BY <1>6, Zenon DEF save
  <2>0. id \in Identities
    BY <1>0, Zenon
  <2>2. key[n] \in Ids
    BY <2>1, Zenon DEF OwnKeys
  <2>3. NodeTypeOK'
    <3> HIDE DEF id
    <3> QED BY <2>0, <2>1, <2>2, Zenon
            DEF NodeTypeOK, TrackerTypeOK, IsMap, trackerVars, ProcStates
  <2>a. /\ proc'[Node(n)] = "start"
        /\ \A m \in Nodes : m # n => proc'[Node(m)] = proc[Node(m)]
    BY <2>1, NodeMoves, Zenon
  <2>4. Stamps' /\ Known' = Known
    BY <2>1, Zenon DEF trackerVars, Stamps, Known, Registering
  <2>b. Waiting'
    BY <2>1, <2>a, Zenon DEF Waiting
  <2>5. \A m \in Nodes : Own(m)' \subseteq Own(m)
    <3> HIDE DEF id
    <3> QED BY <2>0, <2>1, <2>2, Zenon DEF Own, NodeTypeOK
  <2>6. /\ KeyFile(n)' = key[n]
        /\ \A m \in Nodes : m # n => KeyFile(m)' = KeyFile(m)
    BY <2>0, <2>1, Zenon DEF NodeTypeOK, KeyFile
  <2> HIDE DEF id
  <2>7. \A m \in Nodes :
             /\ Up(m)' => KeyFile(m)' = key'[m]
             /\ Up(m)' \/ proc'[Node(m)] = "saving" => key'[m] \in Ids
             /\ proc'[Node(m)] = "saving" => key'[m] \notin Known'
    BY <2>1, <2>2, <2>4, <2>6, <2>a, Zenon DEF OwnKeys, Up
  <2>8. OwnKeys'
    BY <2>1, <2>4, <2>5, <2>7, Zenon DEF OwnKeys
  <2> QED BY <2>3, <2>4, <2>b, <2>8, Zenon
<1>7. CASE register_with_tracker(n)
  <2>1. PICK h \in Handlers : registration_handler(h, key[n])
                              /\ call' = [call EXCEPT ![n] = {h}]
    BY <1>7, Zenon DEF register_with_tracker
  <2>2. /\ key' = key /\ used' = used /\ settings' = settings /\ keystore' = keystore
        /\ config' = config /\ disturbed' = disturbed
        /\ proc' = [proc EXCEPT ![Node(n)] = "registering"]
        /\ proc[Node(n)] = "start"
    BY <1>7, Zenon DEF register_with_tracker, fileVars
  <2>3. key[n] \in Ids /\ key[n] \in Own(n)
    BY <2>2, Zenon DEF OwnKeys, Up, Own
  <2>4. TrackerInv'
    BY <2>1, <2>3, ArrivalKeepsInv, Zenon DEF TrackerInv, NodeTypeOK
  <2>5. Known' \subseteq Known \cup {key[n]}
    BY <2>1, Zenon DEF registration_handler, Known, Registering, NodeTypeOK, TrackerTypeOK
  <2>a. /\ proc'[Node(n)] = "registering"
        /\ \A m \in Nodes : m # n => proc'[Node(m)] = proc[Node(m)]
    BY <2>2, NodeMoves, Zenon
  <2>6. NodeTypeOK' /\ Waiting'
    <3>1. NodeTypeOK'
      BY <2>1, <2>2, <2>4, Zenon DEF TrackerInv, NodeTypeOK, ProcStates
    <3>2. Waiting'
      BY <2>1, <2>a, Zenon DEF NodeTypeOK, Waiting
    <3> QED BY <3>1, <3>2, Zenon
  <2>7. \A m \in Nodes : /\ Own(m)' = Own(m)
                         /\ KeyFile(m)' = KeyFile(m)
                         /\ Up(m)' => Up(m)
                         /\ proc'[Node(m)] = "saving" => m # n /\ proc[Node(m)] = "saving"
    BY <2>2, <2>a, Zenon DEF Own, KeyFile, Up
  <2>8. \A m \in Nodes : m # n /\ proc[Node(m)] = "saving" => key[m] # key[n]
    <3> SUFFICES ASSUME NEW m \in Nodes, m # n, proc[Node(m)] = "saving"
                 PROVE  key[m] # key[n]
      BY Zenon
    <3>1. key[m] \in Own(m)
      BY Zenon DEF OwnKeys, Own
    <3> QED BY <3>1, <2>3, Zenon DEF OwnKeys
  <2>9. OwnKeys'
    BY <2>2, <2>3, <2>5, <2>7, <2>8 DEF OwnKeys
  <2> QED BY <2>4, <2>6, <2>9, Zenon DEF TrackerInv
<1> QED BY <1>1, <1>2, <1>3, <1>4, <1>5, <1>6, <1>7, Zenon DEF Starting

\* So do the end of a process and the steps of the tracker.
LEMMA NodeStopKeepsInv == ASSUME NodeInv, NEW p \in Procs, Stop(p) PROVE NodeInv'
<1>0. p[1] \in Nodes
  BY DEF Procs
<1>1. config' \in [Nodes -> Configs \cup {Torn}]
  <2>1. PICK c \in Interrupted(p) : config' = [config EXCEPT ![p[1]] = c]
    BY Zenon DEF Stop
  <2>2. Interrupted(p) \subseteq Configs \cup {Torn}
    BY <1>0, WrittenConfigs, Zenon DEF Interrupted, NodeInv, NodeTypeOK
  <2> QED BY <2>1, <2>2, Zenon DEF NodeInv, NodeTypeOK
<1>2. /\ proc' = [proc EXCEPT ![p] = "off"] /\ settings' \in [Procs -> Settings]
      /\ \A q \in Procs : q # p => settings'[q] = settings[q]
  BY EndsCleared, Zenon DEF Stop, NodeInv
<1>3. /\ call' = IF p[2] = "node" THEN [call EXCEPT ![p[1]] = {}] ELSE call
      /\ UNCHANGED <<keystore, key, used>> /\ UNCHANGED trackerVars
  BY Zenon DEF Stop
<1>4. disturbed' \subseteq Nodes
  BY <1>0, Zenon DEF Stop, NodeInv, NodeTypeOK
<1>5. call' \in [Nodes -> SUBSET Handlers]
  BY <1>3, Zenon DEF NodeInv, NodeTypeOK
<1>6. NodeTypeOK'
  BY <1>1, <1>2, <1>3, <1>4, <1>5, Zenon
     DEF NodeInv, NodeTypeOK, TrackerTypeOK, trackerVars, IsMap, ProcStates
<1>7. Stamps' /\ Known' = Known
  BY <1>3, Zenon DEF NodeInv, Stamps, Known, Registering, trackerVars
<1>8. proc'[p] = "off" /\ \A q \in Procs : q # p => proc'[q] = proc[q]
  BY <1>2, Zenon DEF NodeInv, NodeTypeOK
<1>9. Waiting'
  <2> SUFFICES ASSUME NEW m \in Nodes, call'[m] # {}
               PROVE  proc'[Node(m)] = "registering" /\ \E h \in Handlers : call'[m] = {h}
    BY Zenon DEF Waiting
  <2>1. Node(m) \in Procs /\ Node(m)[1] = m /\ Node(m)[2] = "node"
    BY TwoProcs, Zenon
  <2>2. Node(m) # p /\ call'[m] = call[m]
    BY <1>0, <1>3, <2>1, Zenon DEF NodeInv, NodeTypeOK
  <2> QED BY <1>8, <2>1, <2>2, Zenon DEF NodeInv, Waiting
<1>10. ASSUME NEW m \in Nodes
       PROVE  /\ Up(m)' => Up(m) /\ settings'[Node(m)] = settings[Node(m)]
              /\ proc'[Node(m)] = "saving" => proc[Node(m)] = "saving"
  <2>1. CASE Node(m) = p
    BY <1>8, <2>1, Zenon DEF Up
  <2>2. CASE Node(m) # p
    BY <1>2, <1>8, <2>2, TwoProcs, Zenon DEF Up
  <2> QED BY <2>1, <2>2, Zenon
<1> QED BY <1>3, <1>6, <1>7, <1>9, <1>10, QuietStep, Zenon

\* A step of the tracker, and the answers it gives.
LEMMA AnsweredKeepsInv == ASSUME NodeInv, TrackerStep, TrackerAnswered PROVE NodeInv'
<1>1. TrackerInv
  BY Zenon DEF NodeInv, NodeTypeOK, TrackerInv
<1>2. TrackerInv' /\ Known' \subseteq Known
  BY <1>1, TrackerKeepsInv, TrackerLearnsNothing, Zenon
<1>3. /\ proc' = [p \in Procs |->
                     IF p[2] = "node" /\ \E h \in call[p[1]] : reg'[h] = Free
                     THEN "running" ELSE proc[p]]
      /\ call' = [n \in Nodes |-> {h \in call[n] : reg'[h] # Free}]
      /\ UNCHANGED <<keystore, key, used>>
      /\ UNCHANGED <<config, settings, disturbed>>
  BY Zenon DEF TrackerAnswered, fileVars
<1>4. \A n \in Nodes :
          /\ (\E h \in call[n] : reg'[h] = Free) =>
                 proc[Node(n)] = "registering" /\ proc'[Node(n)] = "running"
          /\ ~(\E h \in call[n] : reg'[h] = Free) => proc'[Node(n)] = proc[Node(n)]
  BY <1>3, TwoProcs, Zenon DEF NodeInv, Waiting
<1>5. NodeTypeOK'
  <2>1. proc' \in [Procs -> ProcStates]
    BY <1>3, Zenon DEF NodeInv, NodeTypeOK, ProcStates
  <2>2. call' \in [Nodes -> SUBSET Handlers]
    BY <1>3, Zenon DEF NodeInv, NodeTypeOK
  <2> QED BY <1>2, <1>3, <2>1, <2>2, Zenon DEF NodeInv, NodeTypeOK, TrackerInv
<1>6. Waiting'
  <2> SUFFICES ASSUME NEW n \in Nodes, call'[n] # {}
               PROVE  proc'[Node(n)] = "registering" /\ \E h \in Handlers : call'[n] = {h}
    BY Zenon DEF Waiting
  <2>0. call'[n] = {h \in call[n] : reg'[h] # Free}
    BY <1>3, Zenon
  <2>1. call[n] # {}
    BY <2>0, Zenon
  <2>2. proc[Node(n)] = "registering"
    BY <2>1, Zenon DEF NodeInv, Waiting
  <2>3. PICK h \in Handlers : call[n] = {h}
    BY <2>1, Zenon DEF NodeInv, Waiting
  <2>4. call'[n] = {h} /\ reg'[h] # Free
    BY <2>0, <2>3, Zenon
  <2> QED BY <1>4, <2>2, <2>3, <2>4, Zenon
<1>7. \A m \in Nodes : /\ Up(m)' => Up(m) /\ settings'[Node(m)] = settings[Node(m)]
                       /\ proc'[Node(m)] = "saving" => proc[Node(m)] = "saving"
  BY <1>3, <1>4, Zenon DEF Up
<1> QED BY <1>2, <1>3, <1>5, <1>6, <1>7, QuietStep, Zenon DEF TrackerInv

\* The invariant is inductive.
LEMMA NodeInvStep == NodeInv /\ [NodeNext]_nodeVars => NodeInv'
<1> SUFFICES ASSUME NodeInv, [NodeNext]_nodeVars PROVE NodeInv'
  BY Zenon
<1>1. CASE UNCHANGED nodeVars
  <2>1. NodeTypeOK' /\ Stamps' /\ Waiting' /\ Known' = Known
    BY <1>1 DEF nodeVars, trackerVars, fileVars, procVars, NodeInv, NodeTypeOK,
                TrackerTypeOK, IsMap, Stamps, Waiting, Known, Registering
  <2>2. UNCHANGED <<keystore, key, used>> /\ UNCHANGED <<proc, settings>>
    BY <1>1, Zenon DEF nodeVars, fileVars, procVars
  <2> QED BY <2>1, <2>2, QuietStep, Zenon DEF Up
<1> QED BY <1>1, StartingKeepsInv, CommandingKeepsInv, NodeStopKeepsInv,
           AnsweredKeepsInv, Zenon DEF NodeNext

-----------------------------------------------------------------------------
(* The settings. *)

\* A process of n fills the configuration file.
Filling(n) == \E p \in Procs : p[1] = n /\ proc[p] = "writing"

\* What keeps an operator's settings: until a process of the node ends while
\* it fills the file, or reads it while another does, every process that runs
\* has what the operator asked for, and the file says it, or is empty
\* because it is being filled.
SettingsInv ==
    \A n \in Nodes : n \notin disturbed =>
        /\ \A p \in Procs : p[1] = n /\ proc[p] # "off" => settings[p] = Asked(n)
        /\ Filling(n) => config[n] \in {EmptyMap, Asked(n)}
        /\ ~Filling(n) => config[n] \in {operator[n], Asked(n)}

\* The operator's file is read as what it asks for, and so is the file that
\* is made of it: a second start changes nothing.
LEMMA LoadedIsAsked ==
    ASSUME NEW n
    PROVE  loaded(operator[n]) = Asked(n) /\ loaded(Asked(n)) = Asked(n)
BY DEF loaded, migrate, parse, GetOr, Asked

\* At first each file is the operator's.
LEMMA SettingsInvInit == NodeInit => SettingsInv
BY Zenon DEF NodeInit, SettingsInv, Filling

\* A step that touches no file, starts no process and begins and ends no
\* filling; processes may end.
LEMMA FilesUntouched ==
    ASSUME SettingsInv, UNCHANGED <<config, operator>>, disturbed \subseteq disturbed',
           \A p \in Procs :
               /\ proc'[p] = "off" \/ (proc[p] # "off" /\ settings'[p] = settings[p])
               /\ proc'[p] = "writing" <=> proc[p] = "writing"
    PROVE  SettingsInv'
<1>1. \A n \in Nodes : Filling(n)' <=> Filling(n)
  BY Zenon DEF Filling
<1>2. \A n \in Nodes : Asked(n)' = Asked(n)
  BY Zenon DEF Asked
<1> QED BY <1>1, <1>2, Zenon DEF SettingsInv

\* Reading the file, when nobody fills it, gives what was asked for.
LEMMA LoadingKeepsSettings ==
    ASSUME NodeInv, SettingsInv, NEW p \in Procs, load_or_default(p) PROVE SettingsInv'
<1>0. p[1] \in Nodes
  BY DEF Procs
<1>1. /\ UNCHANGED <<config, operator>> /\ disturbed \subseteq disturbed'
      /\ BeingFilled(p) => p[1] \in disturbed'
      /\ proc[p] = "off" /\ settings'[p] = loaded(config[p[1]])
      /\ \A q \in Procs : q # p => settings'[q] = settings[q] /\ proc'[q] = proc[q]
      /\ proc'[p] # "writing"
  BY Zenon DEF load_or_default, fileVars, NodeInv, NodeTypeOK, Next_pc
<1>2. \A n \in Nodes : Asked(n)' = Asked(n)
  BY <1>1, Zenon DEF Asked
<1>3. \A n \in Nodes : Filling(n)' <=> Filling(n)
  BY <1>1, Zenon DEF Filling
<1>4. p[1] \notin disturbed' => settings'[p] = Asked(p[1])
  <2> SUFFICES ASSUME p[1] \notin disturbed' PROVE settings'[p] = Asked(p[1])
    BY Zenon
  <2>1. ~Filling(p[1])
    BY <1>1, Zenon DEF Filling, BeingFilled
  <2>2. config[p[1]] \in {operator[p[1]], Asked(p[1])}
    BY <1>0, <1>1, <2>1, Zenon DEF SettingsInv
  <2> QED BY <1>1, <2>2, LoadedIsAsked, Zenon
<1>5. ASSUME NEW n \in Nodes, n \notin disturbed', NEW q \in Procs, q[1] = n,
             proc'[q] # "off"
      PROVE  settings'[q] = Asked(n)'
  <2>1. CASE q = p
    BY <1>2, <1>4, <1>5, <2>1, Zenon
  <2>2. CASE q # p
    BY <1>1, <1>2, <1>5, <2>2, Zenon DEF SettingsInv
  <2> QED BY <2>1, <2>2, Zenon
<1> QED BY <1>1, <1>2, <1>3, <1>5, Zenon DEF SettingsInv

\* Writing the file empties it, or fills it with what was asked for.
LEMMA WritingKeepsSettings ==
    ASSUME NodeInv, SettingsInv, NEW p \in Procs, write_create(p) \/ write_all(p)
    PROVE  SettingsInv'
<1>0. p[1] \in Nodes
  BY DEF Procs
<1>1. /\ UNCHANGED <<operator, disturbed, settings>> /\ proc[p] # "off"
      /\ \A q \in Procs : q # p => proc'[q] = proc[q]
      /\ \A n \in Nodes : n # p[1] => config'[n] = config[n]
  BY Zenon DEF write_create, write_all, NodeInv, NodeTypeOK
<1>2. \A n \in Nodes : Asked(n)' = Asked(n)
  BY <1>1, Zenon DEF Asked
<1>3. \A n \in Nodes : n # p[1] => (Filling(n)' <=> Filling(n))
  BY <1>1, Zenon DEF Filling
<1>4. ASSUME p[1] \notin disturbed
      PROVE  /\ Filling(p[1])' => config'[p[1]] \in {EmptyMap, Asked(p[1])}
             /\ ~Filling(p[1])' => config'[p[1]] = Asked(p[1])
  <2>1. CASE write_create(p)
    <3>1. config'[p[1]] = EmptyMap /\ proc'[p] = "writing"
      BY <1>0, <2>1, Zenon DEF write_create, NodeInv, NodeTypeOK
    <3> QED BY <3>1, Zenon DEF Filling
  <2>2. CASE write_all(p)
    <3>1. Filling(p[1]) /\ settings[p] = Asked(p[1])
      BY <1>0, <1>1, <1>4, <2>2, Zenon DEF write_all, Filling, SettingsInv
    <3>2. config[p[1]] \in {EmptyMap, Asked(p[1])}
      BY <1>0, <1>4, <3>1, Zenon DEF SettingsInv
    <3>3. Filled(p) = {Asked(p[1])}
      BY <3>1, <3>2, Zenon DEF Filled
    <3>4. config'[p[1]] = Asked(p[1])
      BY <1>0, <2>2, <3>3, Zenon DEF write_all, NodeInv, NodeTypeOK
    <3> QED BY <3>4, Zenon
  <2> QED BY <2>1, <2>2, Zenon
<1>5. ASSUME NEW n \in Nodes, n \notin disturbed', NEW q \in Procs, q[1] = n,
             proc'[q] # "off"
      PROVE  settings'[q] = Asked(n)'
  <2>1. proc[q] # "off"
    BY <1>1, <1>5, Zenon
  <2> QED BY <1>1, <1>2, <1>5, <2>1, Zenon DEF SettingsInv
<1>6. ASSUME NEW n \in Nodes, n \notin disturbed'
      PROVE  /\ Filling(n)' => config'[n] \in {EmptyMap, Asked(n)'}
             /\ ~Filling(n)' => config'[n] \in {operator'[n], Asked(n)'}
  <2>1. CASE n = p[1]
    BY <1>1, <1>2, <1>4, <1>6, <2>1, Zenon
  <2>2. CASE n # p[1]
    BY <1>1, <1>2, <1>3, <1>6, <2>2, Zenon DEF SettingsInv
  <2> QED BY <2>1, <2>2, Zenon
<1> QED BY <1>5, <1>6, Zenon DEF SettingsInv

\* Only loading the configuration touches it, or an end while it is filled.
LEMMA SettingsInvStep ==
    ASSUME NodeInv, SettingsInv, [NodeNext]_nodeVars PROVE SettingsInv'
<1>1. CASE UNCHANGED nodeVars
  <2>1. UNCHANGED <<config, settings, proc>> /\ UNCHANGED <<operator, disturbed>>
    BY <1>1, Zenon DEF nodeVars, fileVars, procVars
  <2> QED BY <2>1, FilesUntouched, Zenon
<1>2. CASE TrackerStep /\ TrackerAnswered
  <2>1. UNCHANGED <<config, settings, operator, disturbed>>
    BY <1>2, Zenon DEF TrackerAnswered, fileVars
  <2>2. \A p \in Procs : proc'[p] = proc[p] \/ (proc[p] = "registering" /\ proc'[p] = "running")
    <3> SUFFICES ASSUME NEW p \in Procs, proc'[p] # proc[p]
                 PROVE  proc[p] = "registering" /\ proc'[p] = "running"
      BY Zenon
    <3>1. p[2] = "node" /\ call[p[1]] # {} /\ proc'[p] = "running"
      BY <1>2, Zenon DEF TrackerAnswered
    <3>2. p[1] \in Nodes /\ p = Node(p[1])
      BY <3>1 DEF Procs, Node
    <3> QED BY <3>1, <3>2, Zenon DEF NodeInv, Waiting
  <2> QED BY <2>1, <2>2, FilesUntouched, Zenon
<1>3. ASSUME NEW p \in Procs, Stop(p) PROVE SettingsInv'
  <2>0. p[1] \in Nodes
    BY DEF Procs
  <2>1. /\ operator' = operator /\ disturbed \subseteq disturbed'
        /\ proc'[p] = "off"
        /\ \A q \in Procs : q # p => proc'[q] = proc[q] /\ settings'[q] = settings[q]
        /\ \A n \in Nodes : n # p[1] => config'[n] = config[n]
    BY <1>3, Zenon DEF Stop, Ends, NodeInv, NodeTypeOK
  <2>2. CASE proc[p] = "writing"
    <3>1. p[1] \in disturbed'
      BY <1>3, <2>2, Zenon DEF Stop
    <3>2. \A n \in Nodes : n # p[1] => /\ Asked(n)' = Asked(n)
                                       /\ Filling(n)' <=> Filling(n)
      BY <2>1, Zenon DEF Asked, Filling
    <3>3. ASSUME NEW n \in Nodes, n \notin disturbed'
          PROVE  /\ n # p[1] /\ n \notin disturbed
                 /\ config'[n] = config[n] /\ operator'[n] = operator[n]
      BY <2>1, <3>1, <3>3, Zenon
    <3>4. ASSUME NEW n \in Nodes, n \notin disturbed', NEW q \in Procs, q[1] = n,
                 proc'[q] # "off"
          PROVE  settings'[q] = Asked(n)'
      <4>1. proc[q] # "off" /\ settings'[q] = settings[q]
        BY <2>1, <3>4, Zenon
      <4> QED BY <3>2, <3>3, <3>4, <4>1, Zenon DEF SettingsInv
    <3>5. ASSUME NEW n \in Nodes, n \notin disturbed'
          PROVE  /\ Filling(n)' => config'[n] \in {EmptyMap, Asked(n)'}
                 /\ ~Filling(n)' => config'[n] \in {operator'[n], Asked(n)'}
      BY <3>2, <3>3, <3>5, Zenon DEF SettingsInv
    <3> QED BY <3>4, <3>5, Zenon DEF SettingsInv
  <2>3. CASE proc[p] # "writing"
    <3>1. config' = config
      BY <1>3, <2>0, <2>3, Zenon DEF Stop, Interrupted, NodeInv, NodeTypeOK
    <3>2. ASSUME NEW q \in Procs
          PROVE  /\ proc'[q] = "off" \/ (proc[q] # "off" /\ settings'[q] = settings[q])
                 /\ proc'[q] = "writing" <=> proc[q] = "writing"
      BY <2>1, <2>3, Zenon
    <3> QED BY <2>1, <3>1, <3>2, FilesUntouched, Zenon
  <2> QED BY <2>2, <2>3, Zenon
<1>4. ASSUME NEW p \in Procs, to_config(p) PROVE SettingsInv'
  BY <1>4, LoadingKeepsSettings, WritingKeepsSettings, Zenon DEF to_config
<1>5. ASSUME NEW n \in Nodes, rpc_run(n) \/ load_panics(n) PROVE SettingsInv'
  <2>1. PICK p \in Procs : Ends(p) /\ proc[p] \in {"command", "identity"}
    BY <1>5, TwoProcs, Zenon DEF rpc_run, load_panics
  <2>2. UNCHANGED <<config, operator, disturbed>>
    BY <1>5, Zenon DEF rpc_run, load_panics, fileVars
  <2>3. /\ proc'[p] = "off"
        /\ \A q \in Procs : q # p => proc'[q] = proc[q] /\ settings'[q] = settings[q]
    BY <2>1, Zenon DEF Ends, NodeInv, NodeTypeOK
  <2>4. ASSUME NEW q \in Procs
        PROVE  /\ proc'[q] = "off" \/ (proc[q] # "off" /\ settings'[q] = settings[q])
               /\ proc'[q] = "writing" <=> proc[q] = "writing"
    BY <2>1, <2>3, Zenon
  <2>5. disturbed \subseteq disturbed'
    BY <2>2, Zenon
  <2> QED BY <2>2, <2>4, <2>5, FilesUntouched, Zenon
<1>6. ASSUME NEW n \in Nodes,
             load(n) \/ new(n) \/ save(n) \/ register_with_tracker(n) \/ not_registered(n)
      PROVE  SettingsInv'
  <2>1. UNCHANGED <<config, settings, operator, disturbed>>
    BY <1>6, Zenon DEF load, new, save, register_with_tracker, not_registered, fileVars
  <2>2. PICK state \in {"start", "saving", "registering", "running"} :
            proc' = [proc EXCEPT ![Node(n)] = state]
    BY <1>6, Zenon DEF load, new, save, register_with_tracker, not_registered
  <2>3. proc[Node(n)] \in {"identity", "saving", "start"} /\ Node(n) \in Procs
    BY <1>6, TwoProcs, Zenon DEF load, new, save, register_with_tracker, not_registered
  <2>4. proc'[Node(n)] = state /\ \A p \in Procs : p # Node(n) => proc'[p] = proc[p]
    BY <2>2, <2>3, Zenon DEF NodeInv, NodeTypeOK
  <2> QED BY <2>1, <2>3, <2>4, FilesUntouched, Zenon
<1> QED BY <1>1, <1>2, <1>3, <1>4, <1>5, <1>6, TwoProcs, Zenon
        DEF NodeNext, Starting, Commanding

-----------------------------------------------------------------------------
(* What holds of every behaviour. *)

\* A node that is up runs under the key in its file (identity.rs:167), and
\* the tracker knows no id whose key is still being saved, for any number
\* of nodes and restarts.
THEOREM AlwaysUnderSavedKey == NodeSpec => []RunsUnderSavedKey
<1>1. NodeInv => RunsUnderSavedKey
  BY OwnKeysSuffice, Zenon
<1> QED BY <1>1, NodeInvInit, NodeInvStep, PTL DEF NodeSpec

\* A listing of the tracker has every node whose latest acknowledged arrival
\* is less than a month old (main.rs:123), whatever the month, the width of
\* the subtraction and the number of concurrent handlers, and in whatever
\* order their writes come.
THEOREM RegisteredAlwaysListed == NodeSpec => RegisteredAreListed
<1>1. NodeInv /\ [NodeNext]_nodeVars
        => [http_sd_list =>
               \A id \in DOMAIN acked :
                   sd.now - acked[id] < Month =>
                       id \in sd'.services \/ db[id] > sd.now]_trackerVars
  BY ListingIsComplete, Zenon DEF NodeInv, NodeTypeOK, TrackerInv
<1> QED BY <1>1, NodeInvInit, NodeInvStep, PTL DEF NodeSpec, RegisteredAreListed

\* No process runs with other settings than its operator asked for
\* (config.rs:66), for any number of nodes and any files of their operators,
\* however the starts, commands and rewrites interleave, unless a process of
\* the node ended while it filled the file or read it while another did.
THEOREM SettingsAlwaysKept == NodeSpec => []SettingsKept
<1>1. SettingsInv => SettingsKept
  <2>1. \A p \in Procs : p[1] \in Nodes
    BY DEF Procs
  <2> QED BY <2>1, Zenon DEF SettingsInv, SettingsKept
<1>2. NodeInv /\ SettingsInv /\ [NodeNext]_nodeVars => SettingsInv'
  BY SettingsInvStep, Zenon
<1> QED BY <1>1, <1>2, SettingsInvInit, NodeInvInit, NodeInvStep, PTL DEF NodeSpec
=============================================================================
