---------------------------- MODULE MCPageCalls ----------------------------
(* Instances of PageCalls for TLC.                                          *)
EXTENDS PageCalls
=============================================================================
