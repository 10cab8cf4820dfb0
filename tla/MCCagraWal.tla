----------------------------- MODULE MCCagraWal -----------------------------
(* Instances of CagraWal for TLC.                                           *)
EXTENDS CagraWal, TLC

Symmetry == Permutations(Vec)

Setting(mut, snap, crash, reuse, window, faults) ==
  [mutations |-> mut, snapshots |-> snap, crashes |-> crash, reuse |-> reuse,
   fsync |-> TRUE, window |-> window, faults |-> faults]

\* Crashes and power cuts alone, with and without fsync; two crashes around a
\* snapshot; everything that may fail.
MCSettings ==
  {Setting(4, 0, 2, TRUE, TRUE, {"power"}),
   [Setting(3, 0, 2, TRUE, TRUE, {"power"}) EXCEPT !.fsync = FALSE],
   Setting(3, 1, 2, FALSE, TRUE, {}),
   Setting(3, 1, 1, FALSE, TRUE, {"power", "disk", "reopen", "replay"})}

\* The free list after a reload, no crash between snapshot and truncation.
MCReload == {Setting(3, 1, 1, TRUE, FALSE, {})}
=============================================================================
