--------------------------- MODULE MCStaticWheel ---------------------------
(* Instances of StaticWheel for TLC: two tasks, the second of which starts  *)
(* suspended.                                                               *)
EXTENDS StaticWheel
=============================================================================
