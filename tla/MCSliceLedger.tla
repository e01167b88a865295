--------------------------- MODULE MCSliceLedger ---------------------------
(* Instances of SliceLedger for TLC.                                        *)
EXTENDS SliceLedger, TLC

\* One slice with two tasks; remeasured, it splits into one slice each.
TaskOf1 == (1 :> {"a", "b"}) @@ (2 :> {"a"}) @@ (3 :> {"b"})
Replacement1 == (1 :> {2, 3})

\* Every retry waits a tick.
MCBackoff == <<1, 1, 1>>
=============================================================================
