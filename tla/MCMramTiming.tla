----------------------------- MODULE MCMramTiming -----------------------------
(* The DRAM model with its clocks scaled down (as in MCTiming), alone, in the *)
(* two corners of its protocol that the code leaves open.                     *)
EXTENDS MramTiming

CONSTANT Traffic

\* begin addresses and lengths.
MCRequests ==
  CASE Traffic = "longest" -> {<<0, 8>>, <<0, 8 * UnitsWrap>>}
    [] Traffic = "words" -> {<<0, 8>>, <<16, 8>>}

===============================================================================
