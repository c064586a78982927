--------------------------- MODULE MCTelnetOption ---------------------------
(* Options for TLC: TTYPE opens in both directions and is supported in     *)
(* both; MSSP opens only with WILL, though it is supported in both, so     *)
(* that it waits in the holder of answers to a DO that is never sent; SGA  *)
(* is not opened and not supported: offers of it are refused.              *)
EXTENDS TelnetOption
=============================================================================
