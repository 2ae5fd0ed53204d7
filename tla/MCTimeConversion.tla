--------------------------- MODULE MCTimeConversion ---------------------------
(* Seconds of four bits (-8 .. 7) and two ticks per second: the least and  *)
(* the greatest i64, the epoch, the second after it and the half seconds   *)
(* on both sides of it are all in range.                                   *)
EXTENDS TimeConversion
=============================================================================
