----------------------------- MODULE MCGateway ------------------------------
(***************************************************************************)
(* Gateway for TLC.  The indexer fails or has no result; lists nobody of    *)
(* the network, or nobody with a usable address; lists nodes that are asked *)
(* in vain, that refuse, or that send a body, after others that are passed  *)
(* over; and claims sizes on either side of the limit.                      *)
(***************************************************************************)
EXTENDS Gateway, TLC

ReqSymmetry == Permutations(Reqs) \cup Permutations(Keys)

Node(metadata, size, addrs) == [metadata |-> metadata, size |-> size, addrs |-> addrs]

Lists(providers) == [ok |-> TRUE, multihash_results |-> <<providers>>]

MCReplies ==
    {[ok |-> FALSE, multihash_results |-> <<>>], [ok |-> TRUE, multihash_results |-> <<>>],
     Lists(<<Node("other", 1, <<"ok">>), Node("undecodable", 1, <<"ok">>)>>),
     Lists(<<Node("fleek", 1, <<"incomplete">>), Node("fleek", 1, <<"ok">>)>>),
     Lists(<<Node("fleek", 1, <<"unparsable", "unreachable">>)>>),
     Lists(<<Node("fleek", 1, <<"refused", "ok">>)>>),
     Lists(<<Node("other", 9, <<"refused">>),
             Node("fleek", 1, <<"incomplete", "unparsable", "unreachable", "ok">>)>>),
     Lists(<<Node("fleek", 9, <<"ok">>)>>)}
=============================================================================
