--------------------------- MODULE MCAsyncLogging ---------------------------
(* AsyncLogging on a small instance: records of one byte except for one,   *)
(* of two bytes, that does not fill the rest of a buffer exactly.          *)
EXTENDS AsyncLogging

CONSTANTS long

MCRecordSize == [r \in Records |-> IF r = long THEN 2 ELSE 1]
=============================================================================
