------------------------------- MODULE MCFanOut -------------------------------
(* Instances of FanOut for TLC.                                             *)
EXTENDS FanOut, TLC

CONSTANTS m1, m2, e1, h1, x1

MCNodes == Mesh \cup Externals

\* The mesh alone, a node of it with the external, or the external alone.
MCSelections == {<<m1, m2>>, <<m1, e1>>, <<e1>>}
===============================================================================
