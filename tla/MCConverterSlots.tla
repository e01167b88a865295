------------------------- MODULE MCConverterSlots -------------------------
(* ConverterSlots for TLC. *)
EXTENDS ConverterSlots
MCRun == {"r1", "r2", "r3"}
===========================================================================
