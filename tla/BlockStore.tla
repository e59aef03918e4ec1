----------------------------- MODULE BlockStore -----------------------------
(***************************************************************************)
(* The block store of a node and what ursa-store computes on it.  A block   *)
(* is its cid; Links gives the cids its data refers to.  Nothing deletes a  *)
(* block.                                                                   *)
(***************************************************************************)
EXTENDS Integers, Sequences, FiniteSets, Maps

CONSTANTS
    Cids,
    Links,   \* cid -> the cids its block refers to, in their order there
    Opaque   \* blocks whose references cannot be read

ASSUME BlocksAssumption ==
    IsFiniteSet(Cids) /\ Links \in [Cids -> Seq(Cids)] /\ Opaque \subseteq Cids

\* A cid is the hash of its block, so no block refers to itself, be it through
\* others: some block of any set refers to none in it.
ASSUME HashAssumption ==
    \A S \in SUBSET Cids : S # {} => \E c \in S : Range(Links[c]) \cap S = {}

VARIABLE blocks   \* the blocks in the store

\* What stands for an error of dag_traversal: its result holds the root.
Failed == {}

\* The local variables of the two loops below.
DagLoop     == [current : SUBSET Cids, refs : SUBSET Cids]
MissingLoop == [stack : Seq(Cids), missing : Seq(Cids)]

\* Mutant: a block whose references cannot be read has none.
dag_traversal_lenient(have, root_cid) ==
    LET Go[l \in DagLoop] ==
          IF l.current = {} THEN l.refs
          ELSE LET c == CHOOSE x \in l.current : TRUE
                   rest == l.current \ {c}
               IN  IF c \in l.refs THEN Go[[current |-> rest, refs |-> l.refs]]
                   ELSE IF c \notin have THEN Failed
                   ELSE Go[[current |-> IF c \in Opaque THEN rest ELSE rest \cup Range(Links[c]),
                            refs |-> l.refs \cup {c}]]
    IN  Go[[current |-> {root_cid}, refs |-> {}]]

\* dag_traversal over the blocks in have: the cids of its result, or Failed
\* when a block is missing or cannot be read.
dag_traversal(have, root_cid) ==
    LET Go[l \in DagLoop] ==
          IF l.current = {} THEN l.refs
          ELSE LET c == CHOOSE x \in l.current : TRUE
                   rest == l.current \ {c}
               IN  IF c \in l.refs THEN Go[[current |-> rest, refs |-> l.refs]]
                   ELSE IF c \notin have \ Opaque THEN Failed
                   ELSE Go[[current |-> rest \cup Range(Links[c]), refs |-> l.refs \cup {c}]]
    IN  Go[[current |-> {root_cid}, refs |-> {}]]

\* Mutant: only the root is looked for.
missing_blocks_root(have, cid) ==
    [ok |-> TRUE, missing |-> IF cid \in have THEN <<>> ELSE <<cid>>]

\* missing_blocks: the blocks bitswap has to fetch next, one for each path
\* of present blocks that leads to it; an error when a block on the way
\* cannot be read.
missing_blocks(have, cid) ==
    LET Go[l \in MissingLoop] ==
          IF l.stack = <<>> THEN [ok |-> TRUE, missing |-> l.missing]
          ELSE LET c == l.stack[Len(l.stack)]
                   popped == SubSeq(l.stack, 1, Len(l.stack) - 1)
               IN
               IF c \notin have
                 THEN Go[[stack |-> popped, missing |-> Append(l.missing, c)]]
               ELSE IF c \in Opaque THEN [ok |-> FALSE, missing |-> <<>>]
               ELSE Go[[stack |-> popped \o Links[c], missing |-> l.missing]]
    IN  Go[[stack |-> <<cid>>, missing |-> <<>>]]
-----------------------------------------------------------------------------
(* Reference definitions *)

\* root -> the cids in every set that holds it and, with a block, those the
\* block refers to.
ReachOf ==
    [root \in Cids |->
        {c \in Cids : \A S \in SUBSET Cids :
            root \in S /\ (\A d \in S : Range(Links[d]) \subseteq S) => c \in S}]

Reach(root) == ReachOf[root]

\* What a fetch that was cut short may leave: blocks that were asked for
\* because a block before them refers to them.
PartsOf ==
    [root \in Cids |->
        {P \in SUBSET Reach(root) :
            root \in P /\ \A c \in P \ {root} : \E p \in P : c \in Range(Links[p])}]

Parts(root) == PartsOf[root]

Complete(root) == Reach(root) \subseteq blocks

\* Whatever blocks are there: dag_traversal (store.rs:37) returns exactly the
\* blocks reachable from the root, whatever they share, and fails exactly
\* when one of them is missing or unreadable; missing_blocks (store.rs:171)
\* names only blocks of the DAG that are missing, and none of them exactly
\* when the DAG is complete.
TraversalsAgree ==
    \A root \in Cids :
        LET found == missing_blocks(blocks, root)
            missing == Range(found.missing)
        IN  /\ dag_traversal(blocks, root) =
                   IF Reach(root) \subseteq blocks \ Opaque THEN Reach(root) ELSE Failed
            /\ missing \subseteq Reach(root) \ blocks
            /\ found.ok => (missing = {} <=> Complete(root))
            /\ ~found.ok => Reach(root) \cap blocks \cap Opaque # {}
=============================================================================
