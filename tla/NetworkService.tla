--------------------------- MODULE NetworkService ---------------------------
(***************************************************************************)
(* The libp2p service of one node: UrsaService, a single loop that takes   *)
(* one swarm event or one command at a time.  Callers send a command and   *)
(* wait on a oneshot channel; the service answers at once, when a bitswap  *)
(* query completes, or when a peer responds.                               *)
(*                                                                         *)
(* A caller makes one call, and its name stands for all that is fresh in   *)
(* it: its oneshot channel, the bitswap query, the outbound request.       *)
(* The swarm is external: the connections it holds (conns), the queries    *)
(* bitswap works on (running, each with the peers it may ask) and the      *)
(* requests sent and not yet settled (outbound) stand for it.              *)
(***************************************************************************)
EXTENDS Integers, Sequences, FiniteSets, Maps

CONSTANTS
    Cids, Peers, Callers,
    BootstrapPeers, \* the peers named in config.bootstrap_nodes
    MaxConns        \* bound: connections with one peer (the code allows 8)

ASSUME NetworkAssumption ==
    BootstrapPeers \subseteq Peers /\ MaxConns \in Nat \ {0}

VARIABLES
    service,             \* "up", or "down" once a handler has panicked
    ask,                 \* caller -> what it asks for; never changes
    caller,              \* caller -> how its call stands
    commands,            \* command_receiver: the callers whose command it holds
    peers,
    bitswap_queries,     \* query -> cid
    response_channels,   \* cid -> the callers that wait for it
    pending_responses,   \* request -> its caller
    cached_content,      \* the cids this node's summary holds
    peer_cached_content, \* peer -> the cids its last summary holds
    conns, running, outbound

swarmVars == <<conns, running, outbound>>
vars == <<service, ask, caller, commands, peers, bitswap_queries, response_channels,
          pending_responses, cached_content, peer_cached_content, swarmVars>>

Asks == [op : {"get_bitswap", "put", "query", "send_request"}, cid : Cids, peer : Peers]

CallStates == {"idle", "queued", "waiting", "ok", "err", "dropped", "gone"}

\* An outbound request: who caused it, to whom it goes, what it asks.
Requests == Callers \X Peers \X {"cache", "summary", "user"}

TypeOK ==
    /\ service \in {"up", "down"}
    /\ ask \in [Callers -> Asks]
    /\ caller \in [Callers -> CallStates]
    /\ commands \in Seq(Callers)
    /\ peers \subseteq Peers
    /\ IsMap(bitswap_queries, Callers, Cids)
    /\ IsMap(response_channels, Cids, SUBSET Callers)
    /\ IsMap(pending_responses, Requests, Callers)
    /\ cached_content \subseteq Cids
    /\ IsMap(peer_cached_content, Peers, SUBSET Cids)
    /\ conns \in [Peers -> 0..MaxConns]
    /\ IsMap(running, Callers, SUBSET Peers)
    /\ outbound \subseteq Requests

Init ==
    /\ service = "up"
    /\ ask \in [Callers -> Asks]
    /\ caller = [c \in Callers |-> "idle"]
    /\ commands = <<>>
    /\ peers = BootstrapPeers
    /\ bitswap_queries = EmptyMap
    /\ response_channels = EmptyMap
    /\ pending_responses = EmptyMap
    /\ cached_content = {}
    /\ peer_cached_content = EmptyMap
    /\ conns = [p \in Peers |-> 0]
    /\ running = EmptyMap
    /\ outbound = {}

-----------------------------------------------------------------------------
(* Callers.                                                                *)

\* The callers after those in S have been answered: one that has gone does
\* not hear it.
Answered(S, st) ==
    [c \in Callers |-> IF c \in S /\ caller[c] # "gone" THEN st ELSE caller[c]]

Waits(c) == caller[c] \in {"queued", "waiting"}

Call(c) ==
    /\ caller[c] = "idle"
    /\ IF service = "up"
         THEN /\ caller' = [caller EXCEPT ![c] = "queued"]
              /\ commands' = Append(commands, c)
         ELSE /\ caller' = [caller EXCEPT ![c] = "dropped"]
              /\ UNCHANGED commands
    /\ UNCHANGED <<ask, service, peers, bitswap_queries, response_channels, pending_responses,
                   cached_content, peer_cached_content, swarmVars>>

\* The caller's future is dropped, as a server does when its client has gone.
GoAway(c) ==
    /\ Waits(c)
    /\ caller' = [caller EXCEPT ![c] = "gone"]
    /\ UNCHANGED <<ask, service, commands, peers, bitswap_queries, response_channels,
                   pending_responses, cached_content, peer_cached_content, swarmVars>>

-----------------------------------------------------------------------------
(* handle_command.                                                         *)

Takes(c, op) ==
    /\ service = "up"
    /\ commands # <<>> /\ c = Head(commands)
    /\ ask[c].op = op
    /\ commands' = Tail(commands)

\* `sender.send(..).map_err(..)?' and, in start, `.expect("Handle rpc
\* command.")': an answer nobody takes ends the service, and every channel it
\* held with it.
AnswerOrPanic(c, st) ==
    IF caller[c] = "gone"
      THEN /\ service' = "down"
           /\ caller' = [d \in Callers |-> IF Waits(d) THEN "dropped" ELSE caller[d]]
      ELSE /\ caller' = Answered({c}, st)
           /\ UNCHANGED service

GetBitswapAlone(c) ==
    /\ Takes(c, "get_bitswap")
    /\ peers = {}
    /\ AnswerOrPanic(c, "err")
    /\ UNCHANGED <<ask, peers, bitswap_queries, response_channels, pending_responses,
                   cached_content, peer_cached_content, swarmVars>>

\* The peers a query goes to: those with no summary, or with the cid in it.
Candidates(d) ==
    {p \in peers : p \in DOMAIN peer_cached_content => d \in peer_cached_content[p]}

\* Mutant: the channel replaces those of earlier callers.
GetBitswapReplaces(c) ==
    /\ Takes(c, "get_bitswap")
    /\ peers # {}
    /\ LET d == ask[c].cid
       IN  /\ response_channels' = Put(response_channels, d, {c})
           /\ bitswap_queries' = Put(bitswap_queries, c, d)
           /\ running' = Put(running, c, Candidates(d))
    /\ caller' = Answered({c}, "waiting")
    /\ UNCHANGED <<ask, service, peers, pending_responses, cached_content,
                   peer_cached_content, conns, outbound>>

GetBitswap(c) ==
    /\ Takes(c, "get_bitswap")
    /\ peers # {}
    /\ LET d == ask[c].cid
       IN  /\ response_channels' =
                Put(response_channels, d, GetOr(response_channels, d, {}) \cup {c})
           /\ bitswap_queries' = Put(bitswap_queries, c, d)
           /\ running' = Put(running, c, Candidates(d))
    /\ caller' = Answered({c}, "waiting")
    /\ UNCHANGED <<ask, service, peers, pending_responses, cached_content,
                   peer_cached_content, conns, outbound>>

PutCid(c) ==
    /\ Takes(c, "put")
    /\ outbound' = outbound \cup ({c} \X peers \X {"cache", "summary"})
    /\ cached_content' = cached_content \cup {ask[c].cid}
    /\ AnswerOrPanic(c, "ok")
    /\ UNCHANGED <<ask, peers, bitswap_queries, response_channels, pending_responses,
                   peer_cached_content, conns, running>>

\* GetPeers, GetListenerAddresses and the three gossipsub commands: the
\* service's own state is read, or another behaviour called, and answered.
Query(c) ==
    /\ Takes(c, "query")
    /\ AnswerOrPanic(c, "ok")
    /\ UNCHANGED <<ask, peers, bitswap_queries, response_channels, pending_responses,
                   cached_content, peer_cached_content, swarmVars>>

SendRequest(c) ==
    /\ Takes(c, "send_request")
    /\ LET i == <<c, ask[c].peer, "user">>
       IN  /\ outbound' = outbound \cup {i}
           /\ pending_responses' = Put(pending_responses, i, c)
    /\ caller' = Answered({c}, "waiting")
    /\ UNCHANGED <<ask, service, peers, bitswap_queries, response_channels, cached_content,
                   peer_cached_content, conns, running>>

-----------------------------------------------------------------------------
(* handle_swarm_event.                                                     *)

\* Mutant: the query is looked up, not removed.
BitswapCompleteKeepsQuery(q, st) ==
    /\ service = "up"
    /\ q \in DOMAIN running
    /\ running' = Del(running, q)
    /\ LET d == bitswap_queries[q]
       IN  /\ response_channels' = Del(response_channels, d)
           /\ caller' = Answered(GetOr(response_channels, d, {}), st)
    /\ UNCHANGED <<ask, service, commands, peers, bitswap_queries, pending_responses,
                   cached_content, peer_cached_content, conns, outbound>>

\* Mutant: only success is passed on.
BitswapCompleteOnlyOk(q, st) ==
    /\ service = "up"
    /\ q \in DOMAIN running
    /\ running' = Del(running, q)
    /\ bitswap_queries' = Del(bitswap_queries, q)
    /\ LET d == bitswap_queries[q]
       IN  IF st = "ok"
             THEN /\ response_channels' = Del(response_channels, d)
                  /\ caller' = Answered(GetOr(response_channels, d, {}), st)
             ELSE UNCHANGED <<response_channels, caller>>
    /\ UNCHANGED <<ask, service, commands, peers, pending_responses, cached_content,
                   peer_cached_content, conns, outbound>>

\* BitswapEvent::Complete: the first query to complete answers everyone who
\* waits for its cid; a later one finds nobody.
BitswapComplete(q, st) ==
    /\ service = "up"
    /\ q \in DOMAIN running
    /\ running' = Del(running, q)
    /\ IF q \in DOMAIN bitswap_queries
         THEN LET d == bitswap_queries[q]
              IN  /\ bitswap_queries' = Del(bitswap_queries, q)
                  /\ response_channels' = Del(response_channels, d)
                  /\ caller' = Answered(GetOr(response_channels, d, {}), st)
         ELSE UNCHANGED <<bitswap_queries, response_channels, caller>>
    /\ UNCHANGED <<ask, service, commands, peers, pending_responses, cached_content,
                   peer_cached_content, conns, outbound>>

\* RequestResponseMessage::Response.
Response(i) ==
    /\ service = "up"
    /\ i \in outbound
    /\ outbound' = outbound \ {i}
    /\ pending_responses' = Del(pending_responses, i)
    /\ caller' = Answered({pending_responses[j] : j \in DOMAIN pending_responses \cap {i}}, "ok")
    /\ UNCHANGED <<ask, service, commands, peers, bitswap_queries, response_channels,
                   cached_content, peer_cached_content, conns, running>>

\* OutboundFailure, the answer to a request that timed out or could not be
\* sent, changes nothing.
OutboundFailure(i) ==
    /\ service = "up"
    /\ i \in outbound
    /\ outbound' = outbound \ {i}
    /\ UNCHANGED <<ask, service, caller, commands, peers, bitswap_queries, response_channels,
                   pending_responses, cached_content, peer_cached_content, conns, running>>

\* A StoreSummary request.
StoreSummary(p, summary) ==
    /\ service = "up"
    /\ conns[p] > 0
    /\ peer_cached_content' = Put(peer_cached_content, p, summary)
    /\ UNCHANGED <<ask, service, caller, commands, peers, bitswap_queries, response_channels,
                   pending_responses, cached_content, swarmVars>>

MdnsDiscovered(p) ==
    /\ service = "up"
    /\ peers' = peers \cup {p}
    /\ UNCHANGED <<ask, service, caller, commands, bitswap_queries, response_channels,
                   pending_responses, cached_content, peer_cached_content, swarmVars>>

ConnectionEstablished(p) ==
    /\ service = "up"
    /\ conns[p] < MaxConns
    /\ conns' = [conns EXCEPT ![p] = @ + 1]
    /\ peers' = peers \cup {p}
    /\ UNCHANGED <<ask, service, caller, commands, bitswap_queries, response_channels,
                   pending_responses, cached_content, peer_cached_content, running, outbound>>

\* Mutant: num_established is not looked at.
ConnectionClosedAny(p) ==
    /\ service = "up"
    /\ conns[p] > 0
    /\ conns' = [conns EXCEPT ![p] = @ - 1]
    /\ peers' = peers \ {p}
    /\ peer_cached_content' = Del(peer_cached_content, p)
    /\ UNCHANGED <<ask, service, caller, commands, bitswap_queries, response_channels,
                   pending_responses, cached_content, running, outbound>>

\* The peer goes with its last connection, and its summary with it.
ConnectionClosed(p) ==
    /\ service = "up"
    /\ conns[p] > 0
    /\ conns' = [conns EXCEPT ![p] = @ - 1]
    /\ IF conns[p] = 1 /\ p \in peers
         THEN /\ peers' = peers \ {p}
              /\ peer_cached_content' = Del(peer_cached_content, p)
         ELSE UNCHANGED <<peers, peer_cached_content>>
    /\ UNCHANGED <<ask, service, caller, commands, bitswap_queries, response_channels,
                   pending_responses, cached_content, running, outbound>>

-----------------------------------------------------------------------------
HandleCommand(c) == GetBitswapAlone(c) \/ GetBitswap(c) \/ PutCid(c) \/ Query(c) \/ SendRequest(c)

Complete(q) == \E st \in {"ok", "err"} : BitswapComplete(q, st)

Settle(i) == Response(i) \/ OutboundFailure(i)

PeerStep(p) ==
    \/ MdnsDiscovered(p) \/ ConnectionEstablished(p) \/ ConnectionClosed(p)
    \/ \E summary \in SUBSET Cids : StoreSummary(p, summary)

Next ==
    \/ \E c \in Callers : Call(c) \/ GoAway(c) \/ HandleCommand(c) \/ Complete(c)
    \/ \E i \in Requests : Settle(i)
    \/ \E p \in Peers : PeerStep(p)

Spec == Init /\ [][Next]_vars

\* tokio's select! takes a branch that stays ready, and bitswap completes
\* every query, if only with a timeout.
FairSpec ==
    /\ Spec
    /\ \A c \in Callers : WF_vars(HandleCommand(c)) /\ WF_vars(Complete(c))

-----------------------------------------------------------------------------
(* Properties.                                                             *)

\* No caller is forgotten: whoever waits for a cid is in its response
\* channels, and for every cid with response channels a query is under way
\* whose completion answers them.  (handle_bitswap removes all the channels of
\* a cid with one query, while other queries for it may be running.)
WaitersHaveQuery ==
    service = "up" =>
      /\ \A c \in Callers :
           caller[c] = "waiting" /\ ask[c].op = "get_bitswap" =>
             /\ ask[c].cid \in DOMAIN response_channels
             /\ c \in response_channels[ask[c].cid]
      /\ \A d \in DOMAIN response_channels :
           \E q \in DOMAIN bitswap_queries \cap DOMAIN running : bitswap_queries[q] = d

\* The service knows a connected peer, and keeps a summary only of peers it
\* is connected with, however many connections they open and close: no query
\* is filtered by what a peer said before it left.
PeersFollowConnections ==
    /\ \A p \in Peers : conns[p] > 0 => p \in peers
    /\ \A p \in DOMAIN peer_cached_content : conns[p] > 0

\* Every query the service waits for is one that bitswap works on, and the
\* other way round: neither table grows without the other.
QueriesMatchBitswap == DOMAIN bitswap_queries = DOMAIN running

\* A get is answered in the end, unless its caller has gone.
GetsAnswered ==
    \A c \in Callers :
      ask[c].op = "get_bitswap" /\ Waits(c) ~> ~Waits(c)

\* handle_command never fails: what `.expect("Handle rpc command.")' in start
\* asserts.
CommandsHandled == service = "up"
=============================================================================
