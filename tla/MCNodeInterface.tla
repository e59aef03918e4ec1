-------------------------- MODULE MCNodeInterface ---------------------------
(***************************************************************************)
(* NodeInterface for TLC: two requests and their tasks, and two DAGs of     *)
(* three blocks.  d1 refers to b twice, once through a; d2 shares b with it *)
(* and has a block that cannot be read.                                     *)
(***************************************************************************)
EXTENDS NodeInterface, TLC

CONSTANTS r1, r2, t1, t2, d1, d2, a, b, z

MCTaskOf == (r1 :> t1) @@ (r2 :> t2)

MCLinks ==
    (d1 :> <<a, b>>) @@ (a :> <<b>>) @@ (d2 :> <<b, z>>) @@ (b :> <<>>) @@ (z :> <<>>)

\* A CAR file holds the DAG; or lacks a block of it and brings the root of
\* another; or lacks the root.
MCCars ==
    (d1 :> {{d1, a, b}, {d1, b, d2}}) @@ (d2 :> {{d2, b, z}, {b}}) @@ (a :> {{a, b}})

MCOps == (r1 :> {"get_data"}) @@ (r2 :> {"get", "put_file", "upload", "replicate"})
=============================================================================
