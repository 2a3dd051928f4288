--------------------------- MODULE MC_AdaptorLoop ---------------------------
(* Model-checking instance of AdaptorLoop.  Sizes are scaled down: a     *)
(* payload of 2 bytes and 1-byte header and footer (a framed segment of  *)
(* 4), so that short images exercise every branch of the segment code:   *)
(* image i1 (3 bytes) has a raw last segment 1 and a nonsensical PAK     *)
(* segment 0; i2 (10 bytes) has a good PAK last segment 1.               *)
EXTENDS AdaptorLoop

MC_ImageLength == [i \in {"i1", "i2"} |-> IF i = "i1" THEN 3 ELSE 10]
=============================================================================
