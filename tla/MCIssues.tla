------------------------------ MODULE MCIssues ------------------------------
(* Small instances of Issues for TLC. *)
EXTENDS Issues, TLC

CONSTANTS r1, r2, v1, v2

(* Two events arrive on one day. *)
Arrivals == (1 :> 1 @@ 2 :> 1 @@ 3 :> 2)

Readable == [state |-> "processed", symbolication |-> "readable", type |-> "crash"]
Missing == [state |-> "awaiting_symbols", symbolication |-> "missing", type |-> "crash"]
Partial == [state |-> "processed", symbolication |-> "partial", type |-> "hang"]

(* Each behaviour draws one of these: representatives and moves between     *)
(* releases; resolution and regression; the daily counts; lists.            *)
SmallBudgets ==
    {[issues |-> {1}, variants |-> {v1, v2}, qualities |-> {1, 2}, releases |-> {r1, r2},
      results |-> {Readable}, events |-> {1, 2, 3}, publications |-> 5, stamps |-> {NoValue},
      changes |-> 0, repairs |-> 0, days |-> {}, lists |-> 0],
     [issues |-> {1}, variants |-> {v1}, qualities |-> {1}, releases |-> {r1, r2},
      results |-> {Readable}, events |-> {1, 3}, publications |-> 3,
      stamps |-> {NoValue, 1, 2}, changes |-> 2, repairs |-> 1, days |-> {}, lists |-> 0],
     [issues |-> {1}, variants |-> {v1}, qualities |-> {1}, releases |-> {NoValue, r1},
      results |-> {Readable, Missing, Partial}, events |-> {1, 3}, publications |-> 4,
      stamps |-> {NoValue}, changes |-> 0, repairs |-> 0, days |-> {1}, lists |-> 0],
     [issues |-> {1, 2}, variants |-> {v1}, qualities |-> {1}, releases |-> {NoValue},
      results |-> {Readable}, events |-> {1, 2, 3}, publications |-> 4, stamps |-> {NoValue},
      changes |-> 0, repairs |-> 0, days |-> {}, lists |-> 1]}
=============================================================================
