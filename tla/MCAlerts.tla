----------------------------- MODULE MCAlerts -----------------------------
(* Small instances of Alerts for TLC. *)
EXTENDS Alerts

CONSTANTS r1, r2, e1, e2, w1, w2

(* Each behaviour draws one of these: two schedulers at one rule; two       *)
(* workers, one of which may stop or stall; rules that are edited; a rule   *)
(* over two issues, read page by page.                                      *)
SmallBudgets ==
    {[rules |-> {r1}, schedulers |-> {e1, e2}, workers |-> {},
      changes |-> 2, edits |-> 0, faults |-> 0],
     [rules |-> {r1}, schedulers |-> {e1}, workers |-> {w1, w2},
      changes |-> 1, edits |-> 0, faults |-> 3],
     [rules |-> {r1}, schedulers |-> {e1}, workers |-> {w1},
      changes |-> 2, edits |-> 1, faults |-> 1],
     [rules |-> {r1, r2}, schedulers |-> {e1}, workers |-> {},
      changes |-> 2, edits |-> 0, faults |-> 1]}
=============================================================================
