----------------------------- MODULE KernelLedger -----------------------------
(* The kernel implements the ledger of runs: its rows are the ledger's, and *)
(* everything else it keeps is hidden.                                      *)
EXTENDS Kernel

RowOwner == [r \in Runs |-> IF runStatus[r] = "absent" THEN None ELSE sess[r]]

Ledger == INSTANCE RunLedger WITH status <- runStatus, owner <- RowOwner

\* Every change of a run's row, whichever coroutine, timer or restart makes
\* it, is a step the ledger allows: no row skips a state, comes back from an
\* outcome or is born beside an unfinished one.
ImplementsLedger == Ledger!Spec
=============================================================================
