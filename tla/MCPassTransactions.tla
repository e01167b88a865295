------------------------ MODULE MCPassTransactions ------------------------
(* PassTransactions for TLC: three tasks in two slices. *)
EXTENDS PassTransactions
MCSlices == {{1, 2}, {3}}
MCTrial == {{1, 2}}
===========================================================================
