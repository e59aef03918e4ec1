---------------------------- MODULE Application -----------------------------
(***************************************************************************)
(* The EVM application behind the ABCI server: ursa-application.  One       *)
(* action or operator per ABCI call.  The database of a state is the        *)
(* sequence of what was executed on it, so two states differ exactly when   *)
(* different transactions, or the same in another order, built them.        *)
(* What revm computes is external.                                          *)
(***************************************************************************)
EXTENDS Naturals, Sequences

CONSTANTS
    Txs,          \* transactions
    Undecodable,  \* those that serde_json does not accept as a request
    Genesis       \* the contracts of the genesis file and their init calls

ASSUME TxAssumption == Undecodable \subseteq Txs /\ Genesis \notin Txs

VARIABLES
    app,              \* "down" until the ABCI server has bound its address
    current_state,    \* the state blocks are executed on
    committed_state   \* the state Info and Query read

appVars == <<app, current_state, committed_state>>

\* State as App::new builds it; the demo account in it never changes.
EmptyState == [block_height |-> 0, db |-> <<>>]

States == [block_height : Nat, db : Seq(Txs \cup {Genesis})]

AppInit ==
    /\ app = "down"
    /\ current_state = EmptyState
    /\ committed_state = EmptyState

\* A state with tx executed and the result committed to its database.
execute(state, tx) == [state EXCEPT !.db = Append(@, tx)]

\* application_start: App::new and the server's bind.
application_start ==
    /\ app = "down"
    /\ app' = "up"
    /\ UNCHANGED <<current_state, committed_state>>

\* init_chain works on current_state only: the future of its commit is
\* built and dropped, so nothing runs of it.  (Awaited there, it would wait
\* for the lock on current_state that init_chain holds.)
init_chain ==
    /\ current_state' = execute(current_state, Genesis)
    /\ UNCHANGED <<app, committed_state>>

\* deliver_tx of a transaction that does not panic.
deliver_tx(tx) ==
    /\ current_state' = IF tx \in Undecodable THEN current_state
                        ELSE execute(current_state, tx)
    /\ UNCHANGED <<app, committed_state>>

end_block(height) ==
    /\ current_state' = [current_state EXCEPT !.block_height = height]
    /\ UNCHANGED <<app, committed_state>>

commit ==
    /\ committed_state' = current_state
    /\ UNCHANGED <<app, current_state>>

info == committed_state.block_height

\* A read-only execution: what a query returns is a function of this state.
query == committed_state

\* The process ends: nothing of the application is on disk.
AppLost ==
    /\ app' = "down"
    /\ current_state' = EmptyState
    /\ committed_state' = EmptyState
=============================================================================
