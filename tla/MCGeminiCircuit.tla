---------------------------- MODULE MCGeminiCircuit ----------------------------
(***************************************************************************)
(* Small instances of GeminiCircuit for TLC.                               *)
(***************************************************************************)
EXTENDS GeminiCircuit, TLC

\* Each call leads with a model of its own, except that a third has the first.
CONSTANTS c1, c2, m1, m2
TwoChains == [c \in Calls |-> IF c = c2 THEN <<m2, m1>> ELSE <<m1, m2>>]
================================================================================
