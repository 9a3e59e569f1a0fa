---------------------------- MODULE MCCandleFeed -----------------------------
(***************************************************************************)
(* A day of five periods around the price 10000.  Four shapes of bars: a   *)
(* quiet one, a spike up that comes back, and one each that moves up and   *)
(* down and stays.  The spike reaches 0.2%, past the 0.1% of a sweep; the  *)
(* smaller differences are within the 0.08% of equal levels.  The levels   *)
(* of the day before lie between, so that every kind of reaction occurs.   *)
(***************************************************************************)
EXTENDS CandleFeed

Shape(o, h, l, c) == [open |-> o, high |-> h, low |-> l, close |-> c]

MCShapes ==
  {Shape(10000, 10004, 9996, 10000), Shape(10000, 10020, 9996, 10000),
   Shape(10004, 10020, 10003, 10020), Shape(9996, 9997, 9980, 9980)}

MCPrevDay == [high |-> 10002, low |-> 9998]

MCWidths == {2, 4}

\* The days of this instance can be compared with their mirror images.
ASSUME DaysAreMirrorable == Mirrorable
=============================================================================
