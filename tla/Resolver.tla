------------------------------ MODULE Resolver ------------------------------
(***************************************************************************)
(* The gateway's resolver (resolver/mod.rs): which node is asked for a cid, *)
(* and what comes of it.  It keeps no state, so that resolve_content is a   *)
(* function of what it meets: the reply of the indexer, and what happens at *)
(* each address in it.                                                      *)
(***************************************************************************)
EXTENDS Naturals, Sequences

\* An address without host or port; one that makes no URI; one where nobody
\* answers; one where a node answers with a status that is not 200, or with
\* 200 and a body.
Addresses == {"incomplete", "unparsable", "unreachable", "refused", "ok"}

\* Metadata that cannot be decoded, that of another network, and that of
\* the Fleek network, with the size it claims for the content.
Providers ==
    [metadata : {"undecodable", "other", "fleek"}, size : Nat, addrs : Seq(Addresses)]

CONSTANT Replies   \* replies of the indexer; not ok stands for every error

ASSUME RepliesAssumption ==
    Replies \subseteq [ok : BOOLEAN, multihash_results : Seq(Seq(Providers))]

\* The providers of the first result that belong to the network, in order.
FleekProviders(reply) ==
    IF reply.ok /\ reply.multihash_results # <<>>
      THEN SelectSeq(Head(reply.multihash_results), LAMBDA p : p.metadata = "fleek")
      ELSE <<>>

\* The addresses of a provider that have a host and a port.
ProviderAddresses(provider) == SelectSeq(provider.addrs, LAMBDA a : a # "incomplete")

\* The answers they give, in the order they are asked.
Answers(addrs) == SelectSeq(addrs, LAMBDA a : a \in {"refused", "ok"})

\* The first answer from the first provider, with the size from its metadata.
resolve_content(reply) ==
    LET providers == FleekProviders(reply)
        answers == IF providers = <<>> THEN <<>>
                   ELSE Answers(ProviderAddresses(Head(providers)))
    IN  IF answers = <<>> THEN [status |-> "error", size |-> 0]
        ELSE [status |-> Head(answers), size |-> Head(providers).size]

\* What a call may return.
NodeResponses == {resolve_content(reply) : reply \in Replies}
=============================================================================
