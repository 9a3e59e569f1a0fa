----------------------------- MODULE DataQuality -----------------------------
(***************************************************************************)
(* data/validation.py: how one fetched payload, and then a whole bundle of *)
(* them, is judged against an information boundary asOf.                   *)
(*                                                                         *)
(* A fetch result is a record of what the judgement looks at:              *)
(*   fate   "lost"      no response at all (http_status is None)           *)
(*          "rejected"  an HTTP error status                               *)
(*          "badjson"   a response that is not JSON                        *)
(*          "empty"     JSON null, which is None in the result             *)
(*          "malformed" the shape check found an issue                     *)
(*          "synthetic" marked by the upstream as made up                  *)
(*          "hollow"    sound, but nothing a decision needs is in it: no   *)
(*                      ltp, or no option leg                              *)
(*          "whole"     sound and usable                                   *)
(*   stamp  the time the payload says it was observed at, or NoStamp       *)
(* A bundle's results are a sequence in the order of Endpoints, the order  *)
(* in which fetch_snapshot asks for them.                                  *)
(***************************************************************************)
EXTENDS Integers, Sequences, FiniteSets

CONSTANTS
  Endpoints,     \* the logical names, in the order they are fetched
  Critical,      \* those with EndpointCriticality.CRITICAL
  Extracted,     \* those build_market_snapshot checks for usable content
  Tolerance,     \* freshness tolerance of each endpoint
  NoStamp        \* the payload carries no time stamp that parses

Names == {Endpoints[i] : i \in DOMAIN Endpoints}

ASSUME EndpointsAssumption ==
  /\ Endpoints \in Seq(Names)
  /\ Endpoints # << >>
  /\ Critical \subseteq Names
  /\ Extracted \subseteq Critical
  /\ Tolerance \in [Names -> Nat]
  /\ NoStamp \notin Int

Fates == {"lost", "rejected", "badjson", "empty", "malformed", "synthetic",
          "hollow", "whole"}

\* Only a payload that parsed has a time stamp to extract.
Parsed == {"malformed", "synthetic", "hollow", "whole"}

Results == [fate : Fates, stamp : Int \cup {NoStamp}]

SourceStatuses == {"OK", "STALE", "MISSING", "ERROR"}

Age(r, asOf) == asOf - r.stamp

\* Slip: a payload is as old as the distance of its stamp from asOf.
AssessSourceStatusAbs(r, asOf, tolerance) ==
  IF r.fate = "lost"                        THEN "MISSING"
  ELSE IF r.fate \notin {"hollow", "whole"} THEN "ERROR"
  ELSE IF r.stamp = NoStamp                 THEN "OK"
  ELSE IF Age(r, asOf) > tolerance \/ - Age(r, asOf) > tolerance THEN "STALE"
  ELSE "OK"

(***************************************************************************)
(* assess_source_status: error or no data, shape issues, the synthetic     *)
(* mark, and only then the age.  Without a time stamp the payload counts   *)
(* as fresh; a stamp after the boundary is an error, never "very fresh".   *)
(***************************************************************************)
AssessSourceStatus(r, asOf, tolerance) ==
  IF r.fate = "lost"                        THEN "MISSING"
  ELSE IF r.fate \notin {"hollow", "whole"} THEN "ERROR"
  ELSE IF r.stamp = NoStamp                 THEN "OK"
  ELSE IF Age(r, asOf) < 0                  THEN "ERROR"
  ELSE IF Age(r, asOf) > tolerance          THEN "STALE"
  ELSE "OK"

StatusAt(results, i, asOf) ==
  AssessSourceStatus(results[i], asOf, Tolerance[Endpoints[i]])

CriticalIn(results) == {i \in DOMAIN results : Endpoints[i] \in Critical}

\* Slip: one healthy critical source is enough.
CriticalEndpointsOkAny(results, asOf) ==
  /\ \E i \in CriticalIn(results) : StatusAt(results, i, asOf) = "OK"
  /\ \A i \in CriticalIn(results) :
       ~ (Endpoints[i] \in Extracted /\ results[i].fate # "whole")

(***************************************************************************)
(* critical_endpoints_ok: there is a critical source, every one of them is *)
(* OK, and those the snapshot needs something from did yield it.           *)
(***************************************************************************)
CriticalEndpointsOk(results, asOf) ==
  /\ CriticalIn(results) # {}
  /\ \A i \in CriticalIn(results) :
       /\ StatusAt(results, i, asOf) = "OK"
       /\ Endpoints[i] \in Extracted => results[i].fate = "whole"
=============================================================================
