------------------------------- MODULE MCLinks -------------------------------
(* An instance of Links for TLC.                                            *)
EXTENDS Links

CONSTANTS n1, n2, a1, a2

MCNoLocals == {{}, {n2}}
MCRecords == {<<a1, a2>>, <<a2>>}
MCFirstRecord == <<a1, a2>>
MCRtt == [a \in Addresses |-> IF a = a1 THEN 1 ELSE 2]
==============================================================================
