------------------------------- MODULE MCFleet -------------------------------
(* An instance of Fleet for TLC: this agent's node, a peer and an external. *)
EXTENDS Fleet, TLC

CONSTANTS n1, n2, ext

MCMode == {"fallback", "loadbalancer"}
Trailing == [kind |-> "trailing", n |-> 3]
Archive == [kind |-> "full", n |-> 0]
Stock == [NoCaps EXCEPT !.archival = Trailing, !.lookback = 2]
Fork == [Stock EXCEPT !.timeTravel = TRUE,
           !.simulate = [groups |-> 2, rounds |-> 1, budget |-> 2, multiplier |-> 2]]
Wide == [Stock EXCEPT !.dev = TRUE,
           !.simulate = [groups |-> 1, rounds |-> 2, budget |-> 3, multiplier |-> 1]]
Hosted == [Stock EXCEPT !.archival = Archive]
Brief == [Stock EXCEPT !.archival = [kind |-> "trailing", n |-> 2]]

MCRank == n1 :> 1 @@ n2 :> 2 @@ ext :> 3

\* What the directory has of a node that stands at round 5, or 3.
News(seen, told, heard, declared) ==
  [seen |-> seen, told |-> told, heard |-> heard, declared |-> declared]
Exact == News(5, 5, TRUE, {})
Old == News(3, 3, TRUE, {})           \* a late heartbeat
Probed == News(5, 3, TRUE, {})        \* an old heartbeat and a later probe
ProbedFirst == News(3, 5, TRUE, {})   \* and an earlier one
Unheard == News(5, 5, FALSE, {})      \* a probe alone
Declared == News(4, 4, FALSE, Declarable)
Checked == News(5, 5, FALSE, Declarable)
CheckedOnce == News(3, 3, FALSE, Declarable)

Situation(m, c1, c2, c3, at1, seen1, i2, i3, o1, o2, o3) ==
  [mode |-> m, caps |-> (n1 :> c1 @@ n2 :> c2 @@ ext :> c3),
   at |-> (n1 :> at1 @@ n2 :> 5 @@ ext :> 5),
   seen |-> (n1 :> seen1 @@ n2 :> i2.seen @@ ext :> i3.seen),
   told |-> (n1 :> seen1 @@ n2 :> i2.told @@ ext :> i3.told),
   heard |-> {n1} \cup (IF i2.heard THEN {n2} ELSE {}),
   declared |-> (n1 :> {} @@ n2 :> i2.declared @@ ext :> i3.declared),
   out |-> (n1 :> o1 @@ n2 :> o2 @@ ext :> o3)]

\* Old, missing and partial news of nodes that are up, and every outage with news
\* that is exact or a round old.
MCSituations ==
  {Situation(m, c1, c2, e[1], l, l - d, i2, e[2], "no", "no", "no") :
     m \in MCMode, c1 \in {Stock, Fork}, c2 \in {Stock, Fork, Wide}, l \in {3, 5}, d \in {0, 1},
     i2 \in {Exact, Old, Probed, ProbedFirst, Unheard, Declared},
     e \in {<<Hosted, Checked>>, <<Stock, CheckedOnce>>, <<Brief, Unheard>>}}
  \cup
  {Situation(m, c1, c2, Hosted, l, l, i2, Checked, o1, o2, o3) :
     m \in MCMode, c1 \in {Stock, Fork}, c2 \in {Stock, Fork, Wide}, l \in {3, 5},
     i2 \in {Exact, News(4, 4, TRUE, {})},
     o1 \in {"no", "offline"}, o2 \in {"no", "silent", "offline", "draining", "busy"},
     o3 \in {"no", "offline", "expired"}}

Body == [groups |-> 1, rounds |-> <<>>, round |-> 0, budget |-> 0, fork |-> FALSE, dev |-> FALSE]

MCRequests ==
  {[path |-> p, method |-> "GET", round |-> r, body |-> Body] :
     p \in {"block", "header", "delta", "boxes", "account"}, r \in {0, 1, 2, 3, 4, 6}}
  \cup
  {[path |-> "simulate", method |-> "POST", round |-> NoRound, body |-> b] :
     b \in {Body, [Body EXCEPT !.round = 2], [Body EXCEPT !.round = 3],
            [Body EXCEPT !.rounds = <<2, 0>>], [Body EXCEPT !.groups = 2],
            [Body EXCEPT !.groups = 2, !.dev = TRUE], [Body EXCEPT !.round = 3, !.groups = 2]}}
==============================================================================
