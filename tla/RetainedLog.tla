---------------------------- MODULE RetainedLog ----------------------------
(***************************************************************************)
(* What the delivery log promises to a partner, without tasks, statements  *)
(* or failures: it shows the newest Limit deliveries ever recorded, and    *)
(* nothing else ever happens to it than that a delivery is recorded.       *)
(***************************************************************************)
EXTENDS Recency

CONSTANTS Partner, Entry

VARIABLE log        \* Partner -> the deliveries the partner is shown

Init == log = [p \in Partner |-> {}]

(* A delivery may be recorded after newer ones; it then takes its place     *)
(* among them, or none if Limit newer ones are there.                       *)
Record(p, e) == log' = [log EXCEPT ![p] = Newest(@ \cup {e})]

Next == \E p \in Partner, e \in Entry : Record(p, e)

Spec == Init /\ [][Next]_log

=============================================================================
