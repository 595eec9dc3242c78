--------------------------- MODULE MCAsyncLogging ---------------------------
(* Small instances of AsyncLogging for TLC.                                 *)
EXTENDS AsyncLogging

\* The third second has the local time of the second one.
SummerTimeEnds == <<1, 2, 2>>
=============================================================================
