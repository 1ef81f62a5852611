------------------------------ MODULE MCMonitor ------------------------------
(* An instance of Monitor for TLC.                                          *)
EXTENDS Monitor

Archive == [kind |-> "full", n |-> 0]
MCConfigs == {[mod |-> 1, endpoint |-> 1, archival |-> Archive],
              [mod |-> 2, endpoint |-> 2, archival |-> [kind |-> "trailing", n |-> 2]]}
MCOverrides == {NoOverride}
MCNodes == {[start |-> 1, keeps |-> 9], [start |-> 1, keeps |-> 1]}
MCLimits == {NoLimits, [groups |-> 2, rounds |-> 2, budget |-> 4, multiplier |-> 2]}
==============================================================================
