------------------------------ MODULE MCLimiter ------------------------------
(* An instance of Limiter for TLC.                                          *)
EXTENDS Limiter, TLC

CONSTANTS c1, c2, t1, t2

\* The minute's window holds less and regains faster than the day's, so that
\* either can be the one that runs short.
MCWindows == {"minute", "day"}
MCCapacity == [w \in MCWindows |-> IF w = "minute" THEN 3 ELSE 4]
MCRate == [w \in MCWindows |-> IF w = "minute" THEN 2 ELSE 1]
==============================================================================
