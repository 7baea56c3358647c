---------------------------- MODULE ConfirmedLog ----------------------------
(***************************************************************************)
(* What a blockchain promises its callers (blockchain::Abstract), whatever *)
(* maps and indices it keeps: confirmed transactions form a log that only  *)
(* grows, a transaction keeps the number it got, and a call that reports   *)
(* success has added its transaction.                                      *)
(***************************************************************************)
EXTENDS Naturals, Sequences

CONSTANT Txs   \* the transactions clients hand over

VARIABLES
    log,       \* the confirmed transactions in the order of their numbers
    added      \* the transactions whose call returned true

vars == <<log, added>>

Confirmed == {log[n] : n \in DOMAIN log}

Init ==
    /\ log = <<>>
    /\ added = {}

\* A transaction is confirmed with the next number.
Confirm(tx) ==
    /\ tx \notin Confirmed
    /\ log' = Append(log, tx)
    /\ UNCHANGED added

\* createAndAddConfirmedTransaction returns true.
Return(tx) ==
    /\ tx \in Confirmed \ added
    /\ added' = added \cup {tx}
    /\ UNCHANGED log

Next == \E tx \in Txs : Confirm(tx) \/ Return(tx)

Spec == Init /\ [][Next]_vars

=============================================================================
