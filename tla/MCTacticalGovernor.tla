-------------------------- MODULE MCTacticalGovernor --------------------------
(* Small instances of the governor: results of -2 and +1 against a limit of   *)
(* -4, two losses in a row for a pause of one tick, a window of two ticks.    *)
EXTENDS TacticalGovernor, TLC

CONSTANTS c1, c2, c3
MCOutcomes == {-2, 1}
MCLimit == -4
\* A refused question changes nothing a later call reads: its successors are
\* those of the state it was asked in.
NotRefused == verdict \in {"none", "admitted"}
Interchangeable == Permutations(Closes)
=============================================================================
