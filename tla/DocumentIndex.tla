---------------------------- MODULE DocumentIndex ----------------------------
(***************************************************************************)
(* What a search index beside a document store promises on its own, when   *)
(* nothing is said of how changes reach it: it makes nothing up.  An entry *)
(* shows a change only after the store has reported it, and only as it was *)
(* reported; which of the reported ones it shows is left open.             *)
(***************************************************************************)
CONSTANTS Entry, Nothing

VARIABLES
    reported,    \* the changes the store has reported: what an entry became
    shown        \* what the index shows of each entry

Init ==
    \A e \in Entry : shown[e] = Nothing \/ [entry |-> e, value |-> shown[e]] \in reported

(* The store reports a change.                                              *)
Report ==
    /\ \E change \in reported' : reported' = reported \cup {change}
    /\ UNCHANGED shown

(* A change becomes visible to queries.                                     *)
Reflect ==
    /\ \E change \in reported : shown' = [shown EXCEPT ![change.entry] = change.value]
    /\ UNCHANGED reported

Next == Report \/ Reflect

Spec == Init /\ [][Next]_<<reported, shown>>
=============================================================================
