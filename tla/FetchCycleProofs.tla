--------------------------- MODULE FetchCycleProofs ---------------------------
(***************************************************************************)
(* The tick for every number of underlyings and endpoints, every time-out  *)
(* and number of retries, every tolerance and every upstream.              *)
(***************************************************************************)
EXTENDS FetchCycle, TLAPS

USE DEF vars

-----------------------------------------------------------------------------
(***************************************************************************)
(* Type correctness.                                                       *)
(***************************************************************************)
LEMMA ConstantTypes ==
  /\ Len(Endpoints) \in Nat \ {0} /\ DOMAIN Endpoints = 1 .. Len(Endpoints)
  /\ PerEndpoint \in Nat /\ PerBundle \in Nat /\ TickBound \in Nat
<1>1. Len(Endpoints) \in Nat \ {0} /\ DOMAIN Endpoints = 1 .. Len(Endpoints)
  BY EndpointsAssumption
<1>2. Attempts \in Nat \ {0} /\ Timeout \in Nat /\ MaxBackoff \in Nat /\ Underlyings \in Nat
  BY CycleAssumption
<1>3. PerEndpoint \in Nat
  BY <1>2 DEF PerEndpoint
<1>4. PerBundle \in Nat
  BY <1>1, <1>3 DEF PerBundle
<1>5. QED
  BY <1>1, <1>2, <1>3, <1>4 DEF TickBound

\* A stage of TypeOK: what every state of the walk is.
LEMMA PathsAreStates ==
  /\ AnalysisPath \in Seq(EngineStates) /\ ReadyPath \in Seq(EngineStates)
  /\ <<"STARTUP", "DATA_LOADING">> \in Seq(EngineStates)
  /\ <<"STARTUP", "DATA_LOADING", "DATA_VALIDATION", "SESSION_COMPLETE">> \in Seq(EngineStates)
  /\ <<"DATA_VALIDATION">> \in Seq(EngineStates)
  /\ <<"DATA_VALIDATION", "NO_TRADE">> \in Seq(EngineStates)
  /\ "NO_TRADE" \in EngineStates
BY DEF AnalysisPath, ReadyPath, EngineStates

LEMMA LongerPath ==
  ASSUME NEW p \in Seq(EngineStates), NEW q \in Seq(EngineStates)
  PROVE  p \o q \in Seq(EngineStates) /\ \A s \in EngineStates : Append(p, s) \in Seq(EngineStates)
OBVIOUS

LEMMA FetchedTypeOK ==
  ASSUME TypeOK, NEW r \in Results, Len(results) < Len(Endpoints), Fetched(r)
  PROVE  TypeOK'
<1>1. results' \in Seq(Results) /\ Len(results') = Len(results) + 1 /\ Len(results) \in Nat
  BY DEF Fetched, TypeOK
<1>2. attempt' \in 0 .. Attempts /\ pc' \in {"request", "assess"}
  BY CycleAssumption DEF Fetched
<1>3. Len(results') <= Len(Endpoints)
  BY <1>1, ConstantTypes
<1>4. UNCHANGED <<clock, asOf, left, requestedAt, path, signal>> /\ began' = clock
  BY DEF Fetched
<1>5. QED
  BY <1>1, <1>2, <1>3, <1>4 DEF TypeOK

\* A request is only made for an endpoint that has no result yet.
RequestsAreOpen ==
  /\ pc \in {"request", "backoff"} => Len(results) < Len(Endpoints) /\ attempt >= 1
  /\ pc = "backoff" => attempt < Attempts

EnterIsFresh == pc \in {"enter", "idle"} => results = << >>

\* The current underlying is counted in left.
LeftWhileBusy == pc # "idle" => left >= 1

TypeInv == TypeOK /\ RequestsAreOpen /\ EnterIsFresh /\ LeftWhileBusy

LEMMA FailureIsResult ==
  /\ [fate |-> "rejected", stamp |-> NoStamp] \in Results
  /\ [fate |-> "lost", stamp |-> NoStamp] \in Results
BY DEF Results, Fates

LEMMA AnswerIsResult ==
  ASSUME clock \in Nat, NEW fate \in Answers, NEW stamp \in StampsAt(clock)
  PROVE  [fate |-> fate, stamp |-> stamp] \in Results
BY CycleAssumption DEF Results, StampsAt

LEMMA InitTypeInv == Init => TypeInv
<1> SUFFICES ASSUME Init PROVE TypeInv
  OBVIOUS
<1>1. << >> \in Seq(Results) /\ << >> \in Seq(EngineStates) /\ Len(<< >>) = 0
  OBVIOUS
<1>2. QED
  BY <1>1, ConstantTypes, CycleAssumption
     DEF Init, TypeInv, TypeOK, RequestsAreOpen, EnterIsFresh, LeftWhileBusy

LEMMA FetchedTypeInv ==
  ASSUME TypeInv, pc = "request", NEW r \in Results, Fetched(r)
  PROVE  TypeInv'
<1>1. Len(results) < Len(Endpoints)
  BY DEF TypeInv, RequestsAreOpen
<1>2. TypeOK'
  BY <1>1, FetchedTypeOK DEF TypeInv
<1>3. Len(results') = Len(results) + 1
  BY DEF Fetched, TypeInv, TypeOK
<1>4. RequestsAreOpen'
  <2>1. Len(results) \in Nat
    BY DEF TypeInv, TypeOK
  <2>2. pc' # "backoff" /\ (pc' = "request" => Len(results) + 1 # Len(Endpoints) /\ attempt' = 1)
    BY DEF Fetched
  <2>3. pc' = "request" => Len(results') < Len(Endpoints)
    <3>1. \A a, b \in Nat : a < b /\ a + 1 # b => a + 1 < b
      OBVIOUS
    <3>2. Len(Endpoints) \in Nat
      BY ConstantTypes
    <3>3. QED
      BY <1>1, <1>3, <2>1, <2>2, <3>1, <3>2
  <2>4. QED
    BY <2>2, <2>3 DEF RequestsAreOpen
<1>5. EnterIsFresh' /\ LeftWhileBusy'
  BY DEF Fetched, EnterIsFresh, LeftWhileBusy, TypeInv
<1>6. QED
  BY <1>2, <1>4, <1>5 DEF TypeInv

LEMMA NextTypeInv == TypeInv /\ [Next]_vars => TypeInv'
<1> SUFFICES ASSUME TypeInv, [Next]_vars
             PROVE  TypeInv'
  OBVIOUS
<1>0. TypeOK /\ Attempts \in Nat \ {0} /\ Underlyings \in Nat \ {0}
  BY CycleAssumption DEF TypeInv
<1>1. CASE StartTick
  BY <1>0, <1>1 DEF StartTick, TypeInv, TypeOK, RequestsAreOpen, EnterIsFresh, LeftWhileBusy
<1>2. CASE EnterCycle
  <2>1. path' \in Seq(EngineStates)
    BY <1>2, PathsAreStates DEF EnterCycle
  <2>2. Len(results) = 0
    BY <1>2 DEF EnterCycle, TypeInv, EnterIsFresh
  <2>3. QED
    BY <1>0, <1>2, <2>1, <2>2, ConstantTypes
       DEF EnterCycle, TypeInv, TypeOK, RequestsAreOpen, EnterIsFresh, LeftWhileBusy
<1>3. CASE Answer
  <2>1. PICK fate \in Answers, stamp \in StampsAt(clock) :
          Fetched([fate |-> fate, stamp |-> stamp])
    BY <1>3 DEF Answer
  <2>2. QED
    BY <1>0, <1>3, <2>1, AnswerIsResult, FetchedTypeInv DEF Answer, TypeOK
<1>4. CASE Reject
  BY <1>4, FailureIsResult, FetchedTypeInv DEF Reject
<1>5. CASE Retry
  BY <1>0, <1>5 DEF Retry, MayRetry, TypeInv, TypeOK, RequestsAreOpen, EnterIsFresh, LeftWhileBusy
<1>6. CASE TryAgain
  BY <1>0, <1>6 DEF TryAgain, TypeInv, TypeOK, RequestsAreOpen, EnterIsFresh, LeftWhileBusy
<1>7. CASE GiveUp
  <2>1. PICK fate \in {"lost", "rejected"} : Fetched([fate |-> fate, stamp |-> NoStamp])
    BY <1>7 DEF GiveUp
  <2>2. QED
    BY <1>7, <2>1, FailureIsResult, FetchedTypeInv DEF GiveUp
<1>8. CASE Assess
  <2>1. path' \in Seq(EngineStates)
    <3>1. path \in Seq(EngineStates)
      BY <1>0 DEF TypeOK
    <3>2. path \o <<"DATA_VALIDATION">> \in Seq(EngineStates)
      BY <3>1, PathsAreStates, LongerPath
    <3>3. path \o <<"DATA_VALIDATION">> \o AnalysisPath \in Seq(EngineStates)
      BY <3>2, PathsAreStates, LongerPath
    <3>4. path \o <<"DATA_VALIDATION", "NO_TRADE">> \in Seq(EngineStates)
      BY <3>1, PathsAreStates, LongerPath
    <3>5. QED
      BY <1>8, <3>3, <3>4 DEF Assess
  <2>2. QED
    BY <1>0, <1>8, <2>1 DEF Assess, TypeInv, TypeOK, RequestsAreOpen, EnterIsFresh, LeftWhileBusy
<1>9. CASE Decide
  <2>1. path' \in Seq(EngineStates)
    <3>1. path \in Seq(EngineStates)
      BY <1>0 DEF TypeOK
    <3>2. QED
      BY <1>9, <3>1, PathsAreStates, LongerPath DEF Decide
  <2>2. QED
    BY <1>0, <1>9, <2>1 DEF Decide, TypeInv, TypeOK, RequestsAreOpen, EnterIsFresh, LeftWhileBusy
<1>10. CASE NextCycle
  <2>1. << >> \in Seq(Results) /\ << >> \in Seq(EngineStates) /\ Len(<< >>) = 0
    OBVIOUS
  <2>2. left' \in 0 .. Underlyings
    BY <1>0, <1>10 DEF NextCycle, TypeInv, TypeOK, LeftWhileBusy
  <2>3. QED
    BY <1>0, <1>10, <2>1, <2>2, ConstantTypes
       DEF NextCycle, TypeInv, TypeOK, RequestsAreOpen, EnterIsFresh, LeftWhileBusy
<1>11. CASE ClockAdvances
  BY <1>0, <1>11 DEF ClockAdvances, TypeInv, TypeOK, RequestsAreOpen, EnterIsFresh, LeftWhileBusy
<1>12. CASE UNCHANGED vars
  BY <1>12 DEF TypeInv, TypeOK, RequestsAreOpen, EnterIsFresh, LeftWhileBusy
<1>13. CASE Raise
  <2>1. << >> \in Seq(Results) /\ << >> \in Seq(EngineStates) /\ Len(<< >>) = 0
    OBVIOUS
  <2>2. QED
    BY <1>0, <1>13, <2>1, ConstantTypes
       DEF Raise, TypeInv, TypeOK, RequestsAreOpen, EnterIsFresh, LeftWhileBusy
<1>14. QED
  BY <1>1, <1>2, <1>3, <1>4, <1>5, <1>7, <1>6, <1>8, <1>9, <1>10,
     <1>11, <1>12, <1>13
     DEF Next, Steps, Finished

THEOREM TickTypeCorrect == Spec => []TypeOK
<1>1. TypeInv => TypeOK
  BY DEF TypeInv
<1>2. QED
  BY <1>1, InitTypeInv, NextTypeInv, PTL DEF Spec

-----------------------------------------------------------------------------
(***************************************************************************)
(* How long a tick may take.  The bound alone is not inductive: Budget     *)
(* says how much of it each stage has left, in underlyings served,         *)
(* endpoints fetched and attempts made.                                    *)
(***************************************************************************)
LEMMA Products ==
  ASSUME NEW a \in Nat, NEW b \in Nat, NEW c \in Nat, a <= b
  PROVE  a * c \in Nat /\ a * c <= b * c /\ (a + 1) * c = a * c + c
OBVIOUS

LEMMA ProductByZero == \A c \in Nat : 0 * c = 0
OBVIOUS

\* What the attempts before the current one, and the waits between them, took.
Spent(stage, n) ==
  IF stage = "request" THEN (n - 1) * (Timeout + MaxBackoff)
  ELSE (n - 1) * (Timeout + MaxBackoff) + Timeout

WaitLimit(stage) == IF stage = "request" THEN Timeout ELSE MaxBackoff

Served == (Underlyings - left) * PerBundle

Budget ==
  /\ asOf <= clock
  /\ pc = "enter" => clock - asOf <= Served
  /\ pc \in {"request", "backoff"} =>
       /\ began - asOf <= Served + Len(results) * PerEndpoint + Spent(pc, attempt)
       /\ began <= clock /\ clock - began <= WaitLimit(pc)
  /\ pc \in {"assess", "decide", "done"} => clock - asOf <= Served + PerBundle

TickInv == TypeInv /\ Budget

LEMMA Quantities ==
  ASSUME TypeInv
  PROVE  /\ Served \in Nat /\ Len(results) \in Nat /\ Len(results) * PerEndpoint \in Nat
         /\ clock \in Nat /\ asOf \in Nat /\ began \in Nat /\ attempt \in Nat
         /\ Timeout \in Nat /\ MaxBackoff \in Nat
         /\ PerEndpoint \in Nat /\ PerBundle \in Nat
<1>1. /\ Underlyings - left \in Nat /\ Len(results) \in Nat
      /\ clock \in Nat /\ asOf \in Nat /\ began \in Nat /\ attempt \in Nat
  BY CycleAssumption DEF TypeInv, TypeOK
<1>2. QED
  BY <1>1, ConstantTypes, CycleAssumption, Products DEF Served

\* All attempts of an endpoint fit into its share.
LEMMA AttemptsFit ==
  ASSUME NEW n \in 1 .. Attempts
  PROVE  /\ Spent("request", n) \in Nat /\ Spent("backoff", n) \in Nat
         /\ Spent("request", n) + Timeout = Spent("backoff", n)
         /\ Spent("request", n) + Timeout <= PerEndpoint
         /\ Spent("backoff", n) + MaxBackoff = Spent("request", n + 1)
         /\ Spent("request", 1) = 0
<1> DEFINE c == Timeout + MaxBackoff
<1>1. n - 1 \in Nat /\ Attempts - 1 \in Nat /\ n - 1 <= Attempts - 1
      /\ Timeout \in Nat /\ MaxBackoff \in Nat /\ c \in Nat /\ Attempts \in Nat
  BY CycleAssumption
<1>2. (n - 1) * c \in Nat /\ (n - 1) * c <= (Attempts - 1) * c /\ n * c = (n - 1) * c + c
  <2>1. (n - 1) + 1 = n
    BY <1>1
  <2>2. QED
    BY <1>1, <2>1, Products
<1>3. PerEndpoint = (Attempts - 1) * c + Timeout
  <2>1. Attempts * Timeout = (Attempts - 1) * Timeout + Timeout
    <3>1. (Attempts - 1) + 1 = Attempts
      BY <1>1
    <3>2. QED
      BY <1>1, <3>1, Products
  <2>2. (Attempts - 1) * c = (Attempts - 1) * Timeout + (Attempts - 1) * MaxBackoff
    BY <1>1
  <2>3. (Attempts - 1) * Timeout \in Nat /\ (Attempts - 1) * MaxBackoff \in Nat
    BY <1>1
  <2>4. QED
    BY <1>1, <2>1, <2>2, <2>3 DEF PerEndpoint
<1>4. Spent("request", n) = (n - 1) * c /\ Spent("backoff", n) = (n - 1) * c + Timeout
  BY DEF Spent
<1>5. Spent("request", n + 1) = n * c
  <2>1. (n + 1) - 1 = n
    BY <1>1
  <2>2. QED
    BY <2>1 DEF Spent
<1>6. Spent("request", 1) = 0
  BY <1>1 DEF Spent
<1> HIDE DEF c
<1>7. (n - 1) * c + c = ((n - 1) * c + Timeout) + MaxBackoff
  BY <1>1, <1>2 DEF c
<1>8. QED
  <2>1. \A x, y, t \in Nat : x <= y => x + t <= y + t
    OBVIOUS
  <2>2. (Attempts - 1) * c \in Nat
    BY <1>1, Products
  <2>3. Spent("request", n) + Timeout <= PerEndpoint
    BY <1>1, <1>2, <1>3, <1>4, <2>1, <2>2
  <2>4. Spent("request", n) \in Nat /\ Spent("backoff", n) \in Nat
    BY <1>1, <1>2, <1>4
  <2>5. QED
    BY <1>2, <1>4, <1>5, <1>6, <1>7, <2>3, <2>4

LEMMA FetchedBudget ==
  ASSUME TickInv, pc = "request", NEW r, Fetched(r),
         Len(results') = Len(results) + 1
  PROVE  Budget'
<1> DEFINE n == Len(results)
           N == Len(Endpoints)
<1>1. attempt \in 1 .. Attempts /\ n < N /\ n \in Nat /\ N \in Nat
  BY ConstantTypes DEF TickInv, TypeInv, TypeOK, RequestsAreOpen
<1>2. clock - asOf <= Served + n * PerEndpoint + PerEndpoint
  <2>1. /\ began - asOf <= Served + n * PerEndpoint + Spent("request", attempt)
        /\ clock - began <= Timeout
    BY DEF TickInv, Budget, WaitLimit
  <2>2. Spent("request", attempt) \in Nat /\ Spent("request", attempt) + Timeout <= PerEndpoint
    BY <1>1, AttemptsFit
  <2>3. \A s, e, u, t, p, k, b, a \in Int :
          b - a <= s + e + u /\ k - b <= t /\ u + t <= p => k - a <= s + e + p
    OBVIOUS
  <2>4. /\ Served \in Int /\ n * PerEndpoint \in Int /\ Spent("request", attempt) \in Int
        /\ Timeout \in Int /\ PerEndpoint \in Int /\ clock \in Int /\ began \in Int
        /\ asOf \in Int
    BY <2>2, Quantities DEF TickInv
  <2>5. QED
    BY <2>1, <2>2, <2>3, <2>4
<1>3. /\ n * PerEndpoint \in Nat /\ (n + 1) * PerEndpoint = n * PerEndpoint + PerEndpoint
      /\ N * PerEndpoint = PerBundle
  BY <1>1, ConstantTypes, Products DEF PerBundle
<1>4. /\ clock' = clock /\ asOf' = asOf /\ began' = clock /\ Served' = Served
      /\ pc' \in {"request", "assess"}
      /\ pc' = "assess" => n + 1 = N
      /\ pc' = "request" => attempt' = 1
  BY DEF Fetched, Served
<1>5. asOf <= clock
  BY DEF TickInv, Budget
<1>6. CASE pc' = "assess"
  <2>1. (n + 1) * PerEndpoint = PerBundle
    BY <1>3, <1>4, <1>6
  <2>2. clock - asOf <= Served + PerBundle
    BY <1>2, <1>3, <2>1, Quantities, SMTT(60) DEF TickInv
  <2>3. QED
    BY <1>4, <1>5, <1>6, <2>2 DEF Budget
<1>7. CASE pc' = "request"
  <2>1. Spent(pc', attempt') = 0
    BY <1>1, <1>4, <1>7, AttemptsFit
  <2>2. Len(results') * PerEndpoint = n * PerEndpoint + PerEndpoint
    BY <1>3
  <2>3. clock - asOf <= Served + Len(results') * PerEndpoint + Spent(pc', attempt')
    <3>1. /\ clock - asOf \in Int /\ Served \in Int
          /\ n * PerEndpoint \in Int /\ PerEndpoint \in Int
      BY <1>3, Quantities DEF TickInv
    <3>2. \A k, s, e, p \in Int : k <= s + e + p => k <= s + (e + p) + 0
      OBVIOUS
    <3>3. clock - asOf <= Served + (n * PerEndpoint + PerEndpoint) + 0
      BY <1>2, <3>1, <3>2
    <3>4. QED
      BY <2>1, <2>2, <3>3
  <2>4. clock - clock <= WaitLimit(pc')
    BY <1>7, Quantities DEF TickInv, WaitLimit
  <2>5. clock <= clock
    BY Quantities DEF TickInv
  <2>6. QED
    BY <1>4, <1>5, <1>7, <2>3, <2>4, <2>5 DEF Budget
<1>8. QED
  BY <1>4, <1>6, <1>7

LEMMA InitTickInv == Init => TickInv
BY InitTypeInv DEF Init, TickInv, Budget

\* A stage that keeps what Budget speaks of.
LEMMA BudgetKept ==
  ASSUME TickInv, pc \in {"assess", "decide"}, pc' \in {"decide", "done"},
         UNCHANGED <<clock, asOf, left>>
  PROVE  Budget'
BY DEF TickInv, Budget, Served

LEMMA NextBudget == TickInv /\ [Next]_vars => TickInv'
<1> SUFFICES ASSUME TickInv, [Next]_vars
             PROVE  Budget'
  BY NextTypeInv DEF TickInv
<1>0. /\ TypeInv /\ TypeInv' /\ TypeOK /\ asOf <= clock
      /\ Underlyings \in Nat \ {0} /\ left \in 0 .. Underlyings
      /\ pc \in {"request", "backoff"} => attempt \in 1 .. Attempts
  BY NextTypeInv, CycleAssumption DEF TickInv, TypeInv, TypeOK, RequestsAreOpen, Budget
<1>a. /\ Served \in Nat /\ Len(results) \in Nat /\ Len(results) * PerEndpoint \in Nat
      /\ clock \in Nat /\ asOf \in Nat /\ began \in Nat /\ attempt \in Nat
      /\ Timeout \in Nat /\ MaxBackoff \in Nat /\ PerEndpoint \in Nat /\ PerBundle \in Nat
  BY <1>0, Quantities
<1>1. CASE StartTick
  <2>1. Served' = 0
    BY <1>0, <1>1, <1>a, ProductByZero DEF StartTick, Served
  <2>2. QED
    BY <1>1, <1>a, <2>1 DEF StartTick, Budget
<1>2. CASE EnterCycle
  <2>1. Served' = Served /\ clock' = clock /\ asOf' = asOf /\ clock - asOf <= Served
    BY <1>2 DEF EnterCycle, Served, TickInv, Budget
  <2>2. CASE pc' = "done"
    BY <1>0, <1>a, <2>1, <2>2 DEF Budget
  <2>3. CASE pc' = "request"
    <3>1. attempt' = 1 /\ began' = clock /\ results' = << >>
      BY <1>0, <1>2, <2>3 DEF EnterCycle, TypeInv, EnterIsFresh
    <3>2. Spent(pc', attempt') = 0
      BY <1>a, <2>3, <3>1 DEF Spent
    <3>3. Len(results') = 0 /\ Len(results') * PerEndpoint = 0
      BY <1>a, <3>1, ProductByZero
    <3>4. QED
      BY <1>0, <1>a, <2>1, <2>3, <3>1, <3>2, <3>3 DEF Budget, WaitLimit
  <2>4. QED
    BY <1>2, <2>2, <2>3 DEF EnterCycle
<1>b. ASSUME NEW r, pc = "request", Fetched(r)
      PROVE  Budget'
  <2>1. Len(results') = Len(results) + 1
    BY <1>0, <1>b DEF Fetched, TypeOK
  <2>2. QED
    BY <1>b, <2>1, FetchedBudget
<1>3. CASE Answer
  BY <1>3, <1>b DEF Answer
<1>4. CASE Reject
  BY <1>4, <1>b DEF Reject
<1>5. CASE Retry
  <2>1. /\ pc = "request" /\ pc' = "backoff" /\ began' = clock
        /\ UNCHANGED <<clock, asOf, left, results, attempt>>
    BY <1>5 DEF Retry
  <2>2. /\ began - asOf <= Served + Len(results) * PerEndpoint + Spent("request", attempt)
        /\ clock - began <= Timeout
    BY <2>1 DEF TickInv, Budget, WaitLimit
  <2>3. /\ Spent("request", attempt) + Timeout = Spent("backoff", attempt)
        /\ Spent("request", attempt) \in Nat /\ Spent("backoff", attempt) \in Nat
    BY <1>0, <2>1, AttemptsFit
  <2>4. clock - asOf <= Served + Len(results) * PerEndpoint + Spent("backoff", attempt)
    <3> DEFINE s == Served + Len(results) * PerEndpoint
    <3>1. s \in Int
      BY <1>a
    <3> HIDE DEF s
    <3>2. began - asOf <= s + Spent("request", attempt)
      BY <2>2 DEF s
    <3>3. clock - asOf <= s + Spent("backoff", attempt)
      BY <1>a, <2>2, <2>3, <3>1, <3>2
    <3>4. QED
      BY <3>3 DEF s
  <2>5. Served' = Served
    BY <2>1 DEF Served
  <2>6. clock - clock <= WaitLimit("backoff") /\ clock <= clock
    BY <1>a DEF WaitLimit
  <2>7. QED
    BY <1>0, <2>1, <2>4, <2>5, <2>6 DEF Budget
<1>6. CASE TryAgain
  <2>1. /\ pc = "backoff" /\ pc' = "request" /\ began' = clock /\ attempt' = attempt + 1
        /\ UNCHANGED <<clock, asOf, left, results>>
    BY <1>6 DEF TryAgain
  <2>2. /\ began - asOf <= Served + Len(results) * PerEndpoint + Spent("backoff", attempt)
        /\ clock - began <= MaxBackoff
    BY <2>1 DEF TickInv, Budget, WaitLimit
  <2>3. /\ Spent("backoff", attempt) + MaxBackoff = Spent("request", attempt + 1)
        /\ Spent("backoff", attempt) \in Nat
    BY <1>0, <2>1, AttemptsFit
  <2>4. clock - asOf <= Served + Len(results) * PerEndpoint + Spent("request", attempt + 1)
    <3> DEFINE s == Served + Len(results) * PerEndpoint
    <3>1. s \in Int
      BY <1>a
    <3> HIDE DEF s
    <3>2. began - asOf <= s + Spent("backoff", attempt)
      BY <2>2 DEF s
    <3>3. clock - asOf <= s + Spent("request", attempt + 1)
      BY <1>a, <2>2, <2>3, <3>1, <3>2
    <3>4. QED
      BY <3>3 DEF s
  <2>5. Served' = Served
    BY <2>1 DEF Served
  <2>6. clock - clock <= WaitLimit("request") /\ clock <= clock
    BY <1>a DEF WaitLimit
  <2>7. QED
    BY <1>0, <2>1, <2>4, <2>5, <2>6 DEF Budget
<1>7. CASE GiveUp
  BY <1>7, <1>b DEF GiveUp
<1>8. CASE Assess
  BY <1>8, BudgetKept DEF Assess
<1>9. CASE Decide
  BY <1>9, BudgetKept DEF Decide
<1>10. CASE NextCycle
  <2>1. clock' = clock /\ asOf' = asOf /\ clock - asOf <= Served + PerBundle
        /\ pc' \in {"idle", "enter"} /\ left' = left - 1 /\ left \in 1 .. Underlyings
    BY <1>0, <1>10 DEF NextCycle, TickInv, Budget, TypeInv, LeftWhileBusy
  <2>2. Served' = Served + PerBundle
    <3>1. Underlyings - left \in Nat /\ Underlyings - left' = (Underlyings - left) + 1
      BY <1>0, <2>1
    <3>2. ((Underlyings - left) + 1) * PerBundle = (Underlyings - left) * PerBundle + PerBundle
      BY <1>a, <3>1, Products
    <3>3. QED
      BY <3>1, <3>2 DEF Served
  <2>3. QED
    BY <1>0, <2>1, <2>2 DEF Budget
<1>11. CASE ClockAdvances
  <2>1. /\ clock' = clock + 1 /\ UNCHANGED <<pc, asOf, left, results, attempt, began>>
        /\ pc \in {"idle", "request", "backoff"}
        /\ pc # "idle" => clock < began + WaitLimit(pc)
    BY <1>11 DEF ClockAdvances, WaitLimit
  <2>2. Served' = Served
    BY <2>1 DEF Served
  <2>3. asOf' <= clock'
    BY <1>0, <1>a, <2>1
  <2>4. CASE pc = "idle"
    BY <2>1, <2>3, <2>4 DEF Budget
  <2>5. CASE pc \in {"request", "backoff"}
    <3>1. WaitLimit(pc) \in Nat /\ clock < began + WaitLimit(pc) /\ began <= clock
      BY <1>a, <2>1, <2>5 DEF TickInv, Budget, WaitLimit
    <3>2. \A k, b, w \in Nat : b <= k /\ k < b + w => b <= k + 1 /\ (k + 1) - b <= w
      OBVIOUS
    <3>3. began' <= clock' /\ clock' - began' <= WaitLimit(pc)'
      BY <1>a, <2>1, <3>1, <3>2
    <3>4. began' - asOf' <= Served' + Len(results') * PerEndpoint + Spent(pc', attempt')
      BY <2>1, <2>2, <2>5 DEF TickInv, Budget
    <3>5. QED
      BY <2>1, <2>3, <2>5, <3>3, <3>4 DEF Budget
  <2>6. QED
    BY <2>1, <2>4, <2>5
<1>12. CASE UNCHANGED vars
  BY <1>12 DEF TickInv, Budget, Served
<1>13. CASE Raise
  BY <1>0, <1>13 DEF Raise, TickInv, Budget
<1>14. QED
  BY <1>1, <1>2, <1>3, <1>4, <1>5, <1>6, <1>7, <1>8, <1>9, <1>10, <1>11, <1>12, <1>13
     DEF Next, Steps, Finished

\* What Budget allows at every stage is at most the bound.
LEMMA BudgetBounds == TickInv => TickIsBounded
<1> SUFFICES ASSUME TickInv, pc # "idle"
             PROVE  clock - asOf <= TickBound
  BY DEF TickIsBounded
<1>1. /\ Served \in Nat /\ Len(results) \in Nat /\ Len(results) * PerEndpoint \in Nat
      /\ clock \in Nat /\ asOf \in Nat /\ began \in Nat /\ attempt \in Nat
      /\ Timeout \in Nat /\ MaxBackoff \in Nat /\ PerEndpoint \in Nat /\ PerBundle \in Nat
  BY Quantities DEF TickInv
<1>2. Served + PerBundle <= TickBound
  <2>1. left \in 1 .. Underlyings /\ Underlyings \in Nat
    BY CycleAssumption DEF TickInv, TypeInv, TypeOK, LeftWhileBusy
  <2>2. Underlyings - left \in Nat /\ (Underlyings - left) + 1 \in Nat
        /\ (Underlyings - left) + 1 <= Underlyings
    BY <2>1
  <2>3. ((Underlyings - left) + 1) * PerBundle = Served + PerBundle
    BY <1>1, <2>2, Products DEF Served
  <2>4. ((Underlyings - left) + 1) * PerBundle <= Underlyings * PerBundle
    BY <1>1, <2>1, <2>2, Products
  <2>5. QED
    BY <2>3, <2>4 DEF TickBound
<1>3. TickBound \in Nat
  BY ConstantTypes
<1>4. CASE pc \in {"enter", "assess", "decide", "done"}
  BY <1>1, <1>2, <1>3, <1>4 DEF TickInv, Budget
<1>5. CASE pc \in {"request", "backoff"}
  <2>1. attempt \in 1 .. Attempts /\ Len(results) < Len(Endpoints) /\ Len(Endpoints) \in Nat
        /\ (pc = "backoff" => attempt + 1 \in 1 .. Attempts)
    BY <1>5, ConstantTypes, CycleAssumption DEF TickInv, TypeInv, TypeOK, RequestsAreOpen
  <2>2. /\ began - asOf <= Served + Len(results) * PerEndpoint + Spent(pc, attempt)
        /\ clock - began <= WaitLimit(pc)
    BY <1>5 DEF TickInv, Budget
  <2>3. /\ Spent(pc, attempt) \in Nat /\ WaitLimit(pc) \in Nat
        /\ Spent(pc, attempt) + WaitLimit(pc) <= PerEndpoint
    <3>1. CASE pc = "request"
      BY <1>1, <2>1, <3>1, AttemptsFit DEF WaitLimit
    <3>2. CASE pc = "backoff"
      <4>1. /\ Spent("backoff", attempt) + MaxBackoff = Spent("request", attempt + 1)
            /\ Spent("backoff", attempt) \in Nat
        BY <2>1, AttemptsFit
      <4>2. Spent("request", attempt + 1) \in Nat
            /\ Spent("request", attempt + 1) + Timeout <= PerEndpoint
        BY <2>1, <3>2, AttemptsFit
      <4>3. QED
        BY <1>1, <3>2, <4>1, <4>2 DEF WaitLimit
    <3>3. QED
      BY <1>5, <3>1, <3>2
  <2>4. Len(results) * PerEndpoint + PerEndpoint <= PerBundle
    <3>1. Len(results) + 1 \in Nat /\ Len(results) + 1 <= Len(Endpoints)
      BY <1>1, <2>1
    <3>2. (Len(results) + 1) * PerEndpoint <= Len(Endpoints) * PerEndpoint
      BY <1>1, <2>1, <3>1, Products
    <3>3. (Len(results) + 1) * PerEndpoint = Len(results) * PerEndpoint + PerEndpoint
      BY <1>1, Products
    <3>4. QED
      BY <3>2, <3>3 DEF PerBundle
  <2>5. \A a, b, k, s, e, u, w, p, m, t \in Int :
          /\ b - a <= s + e + u /\ k - b <= w /\ u + w <= p /\ e + p <= m /\ s + m <= t
          => k - a <= t
    OBVIOUS
  <2>6. QED
    BY <1>1, <1>2, <1>3, <2>2, <2>3, <2>4, <2>5
<1>6. QED
  BY <1>4, <1>5 DEF TickInv, TypeInv, TypeOK

(***************************************************************************)
(* The bound of a tick, for every number of endpoints, underlyings,        *)
(* attempts and every time-out (client.py:81-86, run_engine.py:349-350).   *)
(***************************************************************************)
THEOREM TicksAreBounded == Spec => []TickIsBounded
BY InitTickInv, NextBudget, BudgetBounds, PTL DEF Spec

-----------------------------------------------------------------------------
(***************************************************************************)
(* Why a tick ends.  WorkLeft counts the steps of the code that are still  *)
(* to come at most, every attempt taken to fail: an attempt is a request   *)
(* and a wait, and a cycle has four more steps.                            *)
(***************************************************************************)
AttemptsWork == 2 * Attempts

CycleWork == Len(Endpoints) * AttemptsWork + 4

\* What the endpoints after the one being asked for take, n of them answered.
UnaskedWork(n) == (Len(Endpoints) - n - 1) * AttemptsWork

StageWork(stage, n, a) ==
  IF stage = "enter" THEN CycleWork
  ELSE IF stage = "request" THEN UnaskedWork(n) + 2 * (Attempts - a) + 5
  ELSE IF stage = "backoff" THEN UnaskedWork(n) + 2 * (Attempts - a) + 4
  ELSE IF stage = "assess" THEN 3
  ELSE IF stage = "decide" THEN 2
  ELSE 1

WorkLeft ==
  IF pc = "idle" THEN 0
  ELSE (left - 1) * CycleWork + StageWork(pc, Len(results), attempt)

\* Steps of the code and of the clock that the tick may still take.
StepsLeft == WorkLeft + (TickBound - (clock - asOf))

LEMMA Works ==
  /\ AttemptsWork \in Nat /\ CycleWork \in Nat
  /\ \A n \in 0 .. Len(Endpoints) - 1 :
       /\ UnaskedWork(n) \in Nat
       /\ n + 1 < Len(Endpoints) => UnaskedWork(n) = UnaskedWork(n + 1) + AttemptsWork
  /\ UnaskedWork(0) + AttemptsWork + 4 = CycleWork
<1> DEFINE N == Len(Endpoints)
<1>1. N \in Nat \ {0} /\ AttemptsWork \in Nat
  BY ConstantTypes, CycleAssumption DEF AttemptsWork
<1> HIDE DEF N
<1>2. \A m \in Nat : m * AttemptsWork \in Nat
                     /\ (m + 1) * AttemptsWork = m * AttemptsWork + AttemptsWork
  BY <1>1, Products
<1>3. CycleWork = N * AttemptsWork + 4 /\ CycleWork \in Nat
  BY <1>1, <1>2 DEF CycleWork, N
<1>4. \A n : UnaskedWork(n) = (N - n - 1) * AttemptsWork
  BY DEF UnaskedWork, N
<1>5. ASSUME NEW n \in 0 .. N - 1
      PROVE  /\ UnaskedWork(n) \in Nat
             /\ n + 1 < N => UnaskedWork(n) = UnaskedWork(n + 1) + AttemptsWork
  <2>1. N - n - 1 \in Nat
    BY <1>1
  <2>2. UnaskedWork(n) \in Nat
    BY <1>2, <1>4, <2>1
  <2>3. ASSUME n + 1 < N
        PROVE  UnaskedWork(n) = UnaskedWork(n + 1) + AttemptsWork
    <3>1. N - (n + 1) - 1 \in Nat /\ N - n - 1 = (N - (n + 1) - 1) + 1
      BY <1>1, <2>3
    <3>2. QED
      BY <1>2, <1>4, <3>1
  <2>4. QED
    BY <2>2, <2>3
<1>6. UnaskedWork(0) + AttemptsWork = N * AttemptsWork
  <2>1. N - 0 - 1 \in Nat /\ N = (N - 0 - 1) + 1
    BY <1>1
  <2>2. QED
    BY <1>2, <1>4, <2>1
<1>7. UnaskedWork(0) \in Nat
  BY <1>1, <1>5
<1>8. UnaskedWork(0) + AttemptsWork + 4 = CycleWork
  BY <1>1, <1>3, <1>6, <1>7
<1>9. QED
  BY <1>1, <1>3, <1>5, <1>8 DEF N

LEMMA StageWorkType ==
  ASSUME NEW stage, NEW n \in Nat, NEW a \in Nat,
         stage \in {"request", "backoff"} => n < Len(Endpoints) /\ a <= Attempts
  PROVE  StageWork(stage, n, a) \in Nat
<1>1. Len(Endpoints) \in Nat /\ Attempts \in Nat /\ CycleWork \in Nat
  BY ConstantTypes, CycleAssumption, Works
<1>2. stage \in {"request", "backoff"} => UnaskedWork(n) \in Nat /\ Attempts - a \in Nat
  BY <1>1, Works
<1>3. QED
  BY <1>1, <1>2 DEF StageWork

WorkIsNat == WorkLeft \in Nat

LEMMA WorkType == TypeInv => WorkIsNat
<1> SUFFICES ASSUME TypeInv PROVE WorkLeft \in Nat
  BY DEF WorkIsNat
<1>1. /\ Len(results) \in Nat /\ attempt \in Nat /\ attempt <= Attempts
      /\ pc \in {"request", "backoff"} => Len(results) < Len(Endpoints)
  BY CycleAssumption DEF TypeInv, TypeOK, RequestsAreOpen
<1>2. StageWork(pc, Len(results), attempt) \in Nat
  BY <1>1, StageWorkType
<1>3. pc # "idle" => left - 1 \in Nat
  BY CycleAssumption DEF TypeInv, TypeOK, LeftWhileBusy
<1>4. pc # "idle" => (left - 1) * CycleWork \in Nat
  BY <1>3, Products, Works
<1>5. QED
  BY <1>2, <1>4 DEF WorkLeft

\* Within one underlying only the work of the stage changes.
LEMMA StageShrinks ==
  ASSUME TypeInv, pc # "idle", pc' # "idle", left' = left,
         StageWork(pc', Len(results'), attempt') \in Nat,
         StageWork(pc', Len(results'), attempt') < StageWork(pc, Len(results), attempt)
  PROVE  WorkLeft' < WorkLeft
<1> DEFINE others == (left - 1) * CycleWork
           before == StageWork(pc, Len(results), attempt)
           after == StageWork(pc', Len(results'), attempt')
<1>1. left - 1 \in Nat
  BY CycleAssumption DEF TypeInv, TypeOK, LeftWhileBusy
<1>2. others \in Nat
  BY <1>1, Products, Works
<1>3. before \in Nat
  <2>1. /\ Len(results) \in Nat /\ attempt \in Nat /\ attempt <= Attempts
        /\ pc \in {"request", "backoff"} => Len(results) < Len(Endpoints)
    BY CycleAssumption DEF TypeInv, TypeOK, RequestsAreOpen
  <2>2. QED
    BY <2>1, StageWorkType
<1>4. WorkLeft = others + before /\ WorkLeft' = others + after
  BY DEF WorkLeft
<1>5. after \in Nat /\ after < before
  OBVIOUS
<1> HIDE DEF others, before, after
<1>6. QED
  BY <1>2, <1>3, <1>4, <1>5

LEMMA FetchedShrinks ==
  ASSUME TypeInv, pc = "request", NEW r, Fetched(r)
  PROVE  WorkLeft' < WorkLeft
<1> DEFINE n == Len(results)
           N == Len(Endpoints)
<1>1. /\ n \in Nat /\ n < N /\ N \in Nat /\ attempt \in 1 .. Attempts /\ Attempts \in Nat \ {0}
      /\ results \in Seq(Results)
  BY ConstantTypes, CycleAssumption DEF TypeInv, TypeOK, RequestsAreOpen
<1>2. Len(results') = n + 1 /\ left' = left
  BY <1>1 DEF Fetched
<1>3. StageWork(pc, n, attempt) = UnaskedWork(n) + 2 * (Attempts - attempt) + 5
  BY DEF StageWork
<1>4. UnaskedWork(n) \in Nat /\ (n + 1 < N => UnaskedWork(n) = UnaskedWork(n + 1) + AttemptsWork)
  BY <1>1, Works
<1> HIDE DEF n, N
<1>5. StageWork(pc, n, attempt) \in Nat /\ StageWork(pc, n, attempt) >= UnaskedWork(n) + 5
  BY <1>1, <1>3, <1>4
<1>6. CASE pc' = "assess"
  <2>1. StageWork(pc', n + 1, attempt') = 3
    BY <1>6 DEF StageWork
  <2>2. 3 < StageWork(pc, n, attempt)
    BY <1>4, <1>5
  <2>3. QED
    BY <1>2, <1>6, <2>1, <2>2, StageShrinks DEF n
<1>7. CASE pc' # "assess"
  <2>1. pc' = "request" /\ attempt' = 1 /\ n + 1 # N
    BY <1>7 DEF Fetched, n, N
  <2>2. n + 1 \in 0 .. N - 1 /\ n + 1 < N
    BY <1>1, <2>1
  <2>3. UnaskedWork(n + 1) \in Nat /\ UnaskedWork(n) = UnaskedWork(n + 1) + AttemptsWork
    BY <1>4, <2>2, Works DEF N
  <2>4. StageWork(pc', n + 1, attempt') = UnaskedWork(n + 1) + 2 * (Attempts - 1) + 5
    BY <2>1 DEF StageWork
  <2>5. UnaskedWork(n + 1) + 2 * (Attempts - 1) + 5 < UnaskedWork(n) + 5
        /\ UnaskedWork(n + 1) + 2 * (Attempts - 1) + 5 \in Nat
    BY <1>1, <2>3 DEF AttemptsWork
  <2>6. UnaskedWork(n + 1) + 2 * (Attempts - 1) + 5 < StageWork(pc, n, attempt)
    BY <1>4, <1>5, <2>5
  <2>7. QED
    BY <1>2, <2>1, <2>4, <2>5, <2>6, StageShrinks DEF n
<1>8. QED
  BY <1>6, <1>7

LEMMA StepShrinks ==
  ASSUME TypeInv, pc # "idle", Steps
  PROVE  WorkLeft' < WorkLeft /\ clock' = clock /\ asOf' = asOf
<1> DEFINE n == Len(results)
<1>1. /\ n \in Nat /\ attempt \in Nat /\ Attempts \in Nat \ {0} /\ Len(Endpoints) \in Nat \ {0}
      /\ pc \in {"request", "backoff"} => n < Len(Endpoints) /\ attempt \in 1 .. Attempts
      /\ pc = "backoff" => attempt < Attempts
      /\ pc = "enter" => n = 0
  BY ConstantTypes, CycleAssumption DEF TypeInv, TypeOK, RequestsAreOpen, EnterIsFresh
<1>2. /\ pc \in {"request", "backoff"} => UnaskedWork(n) \in Nat
      /\ UnaskedWork(0) \in Nat /\ AttemptsWork \in Nat
      /\ UnaskedWork(0) + AttemptsWork + 4 = CycleWork
  BY <1>1, Works
<1>3. CASE EnterCycle
  <2>1. /\ pc = "enter" /\ left' = left /\ results' = results /\ clock' = clock /\ asOf' = asOf
        /\ pc' \in {"request", "done"} /\ (pc' = "request" => attempt' = 1)
    BY <1>3 DEF EnterCycle
  <2>2. StageWork(pc, n, attempt) = CycleWork
    BY <2>1 DEF StageWork
  <2>3. pc' = "request" =>
          StageWork(pc', 0, attempt') = UnaskedWork(0) + 2 * (Attempts - 1) + 5
    BY <2>1 DEF StageWork
  <2>4. pc' = "done" => StageWork(pc', 0, attempt') = 1
    BY DEF StageWork
  <2>5. /\ UnaskedWork(0) + 2 * (Attempts - 1) + 5 < CycleWork /\ 1 < CycleWork
        /\ UnaskedWork(0) + 2 * (Attempts - 1) + 5 \in Nat
    BY <1>1, <1>2 DEF AttemptsWork
  <2>6. StageWork(pc', 0, attempt') \in Nat /\ StageWork(pc', 0, attempt') < CycleWork
    BY <2>1, <2>3, <2>4, <2>5
  <2>7. Len(results') = 0 /\ n = 0
    BY <1>1, <2>1
  <2>8. QED
    BY <2>1, <2>2, <2>6, <2>7, StageShrinks
<1>4. CASE Answer
  BY <1>4, FetchedShrinks DEF Answer, Fetched
<1>5. CASE Reject
  BY <1>5, FetchedShrinks DEF Reject, Fetched
<1>6. CASE GiveUp
  BY <1>6, FetchedShrinks DEF GiveUp, Fetched
<1>7. CASE Retry
  <2>1. /\ pc = "request" /\ pc' = "backoff"
        /\ UNCHANGED <<clock, asOf, left, results, attempt>>
    BY <1>7 DEF Retry
  <2>2. /\ StageWork(pc, n, attempt) = UnaskedWork(n) + 2 * (Attempts - attempt) + 5
        /\ StageWork(pc', n, attempt) = UnaskedWork(n) + 2 * (Attempts - attempt) + 4
    BY <2>1 DEF StageWork
  <2> HIDE DEF n
  <2>3. StageWork(pc', n, attempt) \in Nat
        /\ StageWork(pc', n, attempt) < StageWork(pc, n, attempt)
    BY <1>1, <1>2, <2>1, <2>2
  <2>4. QED
    BY <2>1, <2>3, StageShrinks DEF n
<1>8. CASE TryAgain
  <2>1. /\ pc = "backoff" /\ pc' = "request" /\ attempt' = attempt + 1
        /\ UNCHANGED <<clock, asOf, left, results>>
    BY <1>8 DEF TryAgain
  <2>2. /\ StageWork(pc, n, attempt) = UnaskedWork(n) + 2 * (Attempts - attempt) + 4
        /\ StageWork(pc', n, attempt') = UnaskedWork(n) + 2 * (Attempts - (attempt + 1)) + 5
    BY <2>1 DEF StageWork
  <2> HIDE DEF n
  <2>3. StageWork(pc', n, attempt') \in Nat
        /\ StageWork(pc', n, attempt') < StageWork(pc, n, attempt)
    BY <1>1, <1>2, <2>1, <2>2
  <2>4. QED
    BY <2>1, <2>3, StageShrinks DEF n
<1>9. CASE Assess
  <2>1. /\ pc = "assess" /\ pc' \in {"decide", "done"}
        /\ UNCHANGED <<clock, asOf, left, results, attempt>>
    BY <1>9 DEF Assess
  <2>2. StageWork(pc, n, attempt) = 3 /\ StageWork(pc', n, attempt) \in {1, 2}
    BY <2>1 DEF StageWork
  <2>3. QED
    BY <2>1, <2>2, StageShrinks
<1>10. CASE Decide
  <2>1. pc = "decide" /\ pc' = "done" /\ UNCHANGED <<clock, asOf, left, results, attempt>>
    BY <1>10 DEF Decide
  <2>2. StageWork(pc, n, attempt) = 2 /\ StageWork(pc', n, attempt) = 1
    BY <2>1 DEF StageWork
  <2>3. QED
    BY <2>1, <2>2, StageShrinks
<1>11. CASE NextCycle
  <2>1. /\ pc = "done" /\ left' = left - 1 /\ pc' = (IF left = 1 THEN "idle" ELSE "enter")
        /\ UNCHANGED <<clock, asOf>>
    BY <1>11 DEF NextCycle
  <2>2. left \in Nat \ {0} /\ CycleWork \in Nat
    BY <2>1, CycleAssumption, Works DEF TypeInv, TypeOK, LeftWhileBusy
  <2>3. (left - 1) * CycleWork \in Nat
    BY <2>2, Products
  <2>4. WorkLeft = (left - 1) * CycleWork + 1
    BY <2>1 DEF WorkLeft, StageWork
  <2>5. WorkLeft' < WorkLeft
    <3>1. CASE left = 1
      BY <2>1, <2>3, <2>4, <3>1 DEF WorkLeft
    <3>2. CASE left # 1
      <4>1. WorkLeft' = (left - 1 - 1) * CycleWork + CycleWork
        BY <2>1, <3>2 DEF WorkLeft, StageWork, CycleWork, AttemptsWork
      <4>2. left - 1 - 1 \in Nat /\ left - 1 = (left - 1 - 1) + 1
        BY <2>2, <3>2
      <4>3. (left - 1) * CycleWork = (left - 1 - 1) * CycleWork + CycleWork
        BY <2>2, <4>2, Products
      <4>4. QED
        BY <2>3, <2>4, <4>1, <4>3
    <3>3. QED
      BY <3>1, <3>2
  <2>6. QED
    BY <2>1, <2>5
<1>12. CASE Raise
  <2>1. pc \in {"assess", "decide"} /\ pc' = "idle" /\ UNCHANGED <<clock, asOf>>
    BY <1>12 DEF Raise
  <2>2. left \in Nat \ {0} /\ CycleWork \in Nat
    BY <2>1, CycleAssumption, Works DEF TypeInv, TypeOK, LeftWhileBusy
  <2>3. (left - 1) * CycleWork \in Nat
    BY <2>2, Products
  <2>4. WorkLeft' = 0 /\ WorkLeft \in {(left - 1) * CycleWork + 2, (left - 1) * CycleWork + 3}
    BY <2>1 DEF WorkLeft, StageWork
  <2>5. QED
    BY <2>1, <2>3, <2>4
<1>13. QED
  BY <1>3, <1>4, <1>5, <1>6, <1>7, <1>8, <1>9, <1>10, <1>11, <1>12 DEF Steps

LEMMA ClockShrinks ==
  ASSUME pc # "idle", ClockAdvances
  PROVE  WorkLeft' = WorkLeft /\ clock' = clock + 1 /\ asOf' = asOf
BY DEF ClockAdvances, WorkLeft, StageWork, UnaskedWork, CycleWork, AttemptsWork

LEMMA TickRunsOut ==
  TickInv /\ WorkIsNat' /\ [Next]_vars => [pc # "idle" => StepsLeft' < StepsLeft]_vars
<1> SUFFICES ASSUME TickInv, WorkIsNat', Next, pc # "idle"
             PROVE  StepsLeft' < StepsLeft
  OBVIOUS
<1>1. /\ WorkLeft \in Nat /\ clock \in Nat /\ asOf \in Nat /\ TickBound \in Nat
      /\ WorkLeft' \in Nat
  BY WorkType, ConstantTypes DEF TickInv, TypeInv, TypeOK, WorkIsNat
<1>2. /\ StepsLeft = WorkLeft + (TickBound - (clock - asOf))
      /\ StepsLeft' = WorkLeft' + (TickBound - (clock' - asOf'))
  BY DEF StepsLeft, TickBound, PerBundle, PerEndpoint
<1>3. \/ WorkLeft' < WorkLeft /\ clock' = clock /\ asOf' = asOf
      \/ WorkLeft' = WorkLeft /\ clock' = clock + 1 /\ asOf' = asOf
  BY StepShrinks, ClockShrinks DEF Next, StartTick, Finished, TickInv
<1>4. QED
  BY <1>1, <1>2, <1>3

LEMMA StepsAreLeft == TickInv => (pc # "idle" => StepsLeft \in Nat)
<1> SUFFICES ASSUME TickInv, pc # "idle" PROVE StepsLeft \in Nat
  OBVIOUS
<1>1. clock - asOf <= TickBound
  BY BudgetBounds DEF TickIsBounded
<1>2. WorkLeft \in Nat /\ clock \in Nat /\ asOf \in Nat /\ TickBound \in Nat
  BY WorkType, ConstantTypes DEF TickInv, TypeInv, TypeOK, WorkIsNat
<1>3. QED
  BY <1>1, <1>2 DEF StepsLeft

(***************************************************************************)
(* Whatever the upstream does, a tick takes finitely many steps: each one, *)
(* of the code or of the clock, uses up some of a number that is fixed     *)
(* when the tick starts (client.py:81-86, runtime.py:71-137).  What is     *)
(* left of EveryTickEnds is that some step is always possible.             *)
(***************************************************************************)
THEOREM TicksRunOut ==
  Spec => /\ [](pc # "idle" => StepsLeft \in Nat)
          /\ [][pc # "idle" => StepsLeft' < StepsLeft]_vars
<1>1. TickInv => TypeInv
  BY DEF TickInv
<1>2. QED
  BY <1>1, InitTickInv, NextBudget, StepsAreLeft, WorkType, TickRunsOut, PTL DEF Spec

-----------------------------------------------------------------------------
(***************************************************************************)
(* The walk of a cycle.  WalkInv names every path there is.                *)
(***************************************************************************)
Loading == <<"STARTUP", "DATA_LOADING">>

Outside == <<"STARTUP", "DATA_LOADING", "DATA_VALIDATION", "SESSION_COMPLETE">>

Refused == Loading \o <<"DATA_VALIDATION", "NO_TRADE">>

Analysed == Loading \o <<"DATA_VALIDATION">> \o AnalysisPath

Declined == Append(Analysed, "NO_TRADE")

Announced == Analysed \o ReadyPath

InSession == IsWithinSession(Window, asOf % DayLength)

WalkInv ==
  /\ pc \in {"idle", "enter"} => path = << >>
  /\ pc \in {"request", "backoff", "assess"} => path = Loading /\ InSession
  /\ pc = "decide" => path = Analysed /\ InSession /\ LiveAccepts
  /\ pc # "done" => signal = "none"
  /\ pc = "done" =>
       \/ path = Outside /\ signal = "none" /\ ~ InSession
       \/ path = Refused /\ signal = "NO_TRADE" /\ InSession
       \/ path = Declined /\ signal = "NO_TRADE" /\ InSession /\ LiveAccepts
       \/ path = Announced /\ signal = "TRADE_READY" /\ InSession /\ LiveAccepts

LEMMA InitWalk == Init => WalkInv
BY DEF Init, WalkInv

LEMMA NextWalk == WalkInv /\ [Next]_vars => WalkInv'
<1> SUFFICES ASSUME WalkInv, [Next]_vars
             PROVE  WalkInv'
  OBVIOUS
<1>1. CASE StartTick
  BY <1>1 DEF StartTick, WalkInv
<1>2. CASE EnterCycle
  BY <1>2 DEF EnterCycle, WalkInv, Loading, Outside, InSession
<1>a. ASSUME NEW r, pc = "request", Fetched(r)
      PROVE  WalkInv'
  BY <1>a DEF Fetched, WalkInv, InSession
<1>3. CASE Answer
  BY <1>3, <1>a DEF Answer
<1>4. CASE Reject
  BY <1>4, <1>a DEF Reject
<1>5. CASE Retry
  BY <1>5 DEF Retry, WalkInv, InSession
<1>6. CASE TryAgain
  BY <1>6 DEF TryAgain, WalkInv, InSession
<1>7. CASE GiveUp
  BY <1>7, <1>a DEF GiveUp
<1>8. CASE Assess
  <2>1. path = Loading /\ signal = "none" /\ InSession'
    BY <1>8 DEF Assess, WalkInv, InSession
  <2>2. CASE LiveAccepts
    <3>1. path' = Analysed /\ pc' = "decide" /\ signal' = signal /\ LiveAccepts'
      BY <1>8, <2>1, <2>2 DEF Assess, LiveAccepts, Analysed
    <3>2. QED
      BY <2>1, <3>1 DEF WalkInv
  <2>3. CASE ~ LiveAccepts
    <3>1. path' = Refused /\ pc' = "done" /\ signal' = "NO_TRADE"
      BY <1>8, <2>1, <2>3 DEF Assess, LiveAccepts, Refused
    <3>2. QED
      BY <2>1, <3>1 DEF WalkInv
  <2>4. QED
    BY <2>2, <2>3
<1>9. CASE Decide
  <2>1. path = Analysed /\ LiveAccepts /\ InSession'
    BY <1>9 DEF Decide, WalkInv, InSession
  <2>2. LiveAccepts' /\ pc' = "done"
    BY <1>9, <2>1 DEF Decide, LiveAccepts
  <2>3. \/ path' = Announced /\ signal' = "TRADE_READY"
        \/ path' = Declined /\ signal' = "NO_TRADE"
    BY <1>9, <2>1 DEF Decide, Announced, Declined
  <2>4. QED
    BY <2>1, <2>2, <2>3 DEF WalkInv
<1>10. CASE NextCycle
  BY <1>10 DEF NextCycle, WalkInv
<1>11. CASE ClockAdvances
  BY <1>11 DEF ClockAdvances, WalkInv, LiveAccepts, InSession
<1>12. CASE UNCHANGED vars
  BY <1>12 DEF WalkInv, LiveAccepts, InSession
<1>13. CASE Raise
  BY <1>13 DEF Raise, WalkInv
<1>14. QED
  BY <1>1, <1>2, <1>3, <1>4, <1>5, <1>6, <1>7, <1>8, <1>9, <1>10, <1>11, <1>12, <1>13
     DEF Next, Steps, Finished

LEMMA Edges ==
  /\ "DATA_LOADING" \in Transitions["STARTUP"]
  /\ "DATA_VALIDATION" \in Transitions["DATA_LOADING"]
  /\ "SESSION_COMPLETE" \in Transitions["DATA_VALIDATION"]
  /\ "NO_TRADE" \in Transitions["DATA_VALIDATION"]
  /\ "MARKET_ANALYSIS" \in Transitions["DATA_VALIDATION"]
  /\ "STRUCTURE_ANALYSIS" \in Transitions["MARKET_ANALYSIS"]
  /\ "AUTHORIZATION" \in Transitions["STRUCTURE_ANALYSIS"]
  /\ "NO_TRADE" \in Transitions["AUTHORIZATION"]
  /\ "CONTRACT_SELECTION" \in Transitions["AUTHORIZATION"]
  /\ "TRADE_ENGINEERING" \in Transitions["CONTRACT_SELECTION"]
  /\ "RISK_VALIDATION" \in Transitions["TRADE_ENGINEERING"]
  /\ "TRADE_READY" \in Transitions["RISK_VALIDATION"]
BY DEF Transitions, EngineStates

Documented(p) == \A k \in 1 .. Len(p) - 1 : p[k + 1] \in Transitions[p[k]]

LastOf(p) == p[Len(p)]

\* Two documented walks, joined by an edge, are one.
LEMMA Joined ==
  ASSUME NEW p \in Seq(EngineStates), NEW q \in Seq(EngineStates),
         Documented(p), Documented(q), p # << >>, q # << >>,
         q[1] \in Transitions[LastOf(p)]
  PROVE  /\ Documented(p \o q) /\ LastOf(p \o q) = LastOf(q)
         /\ p \o q \in Seq(EngineStates) /\ p \o q # << >>
<1>1. /\ Len(p) \in Nat \ {0} /\ Len(q) \in Nat \ {0} /\ Len(p \o q) = Len(p) + Len(q)
      /\ p \o q \in Seq(EngineStates)
      /\ \A i \in 1 .. Len(p) : (p \o q)[i] = p[i]
      /\ \A i \in 1 .. Len(q) : (p \o q)[Len(p) + i] = q[i]
  OBVIOUS
<1>2. LastOf(p \o q) = LastOf(q) /\ p \o q # << >>
  BY <1>1 DEF LastOf
<1>3. ASSUME NEW k \in 1 .. Len(p \o q) - 1
      PROVE  (p \o q)[k + 1] \in Transitions[(p \o q)[k]]
  <2>1. CASE k < Len(p)
    BY <1>1, <2>1 DEF Documented
  <2>2. CASE k = Len(p)
    BY <1>1, <2>2 DEF LastOf
  <2>3. CASE k > Len(p)
    <3> DEFINE i == k - Len(p)
    <3>1. i \in 1 .. Len(q) - 1 /\ k = Len(p) + i /\ k + 1 = Len(p) + (i + 1)
          /\ i \in 1 .. Len(q) /\ i + 1 \in 1 .. Len(q)
      BY <1>1, <2>3
    <3> HIDE DEF i
    <3>2. (p \o q)[k] = q[i] /\ (p \o q)[k + 1] = q[i + 1]
      BY <1>1, <3>1
    <3>3. QED
      BY <3>1, <3>2 DEF Documented
  <2>4. QED
    BY <1>1, <2>1, <2>2, <2>3
<1>4. QED
  BY <1>1, <1>2, <1>3 DEF Documented

LEMMA AppendJoins == ASSUME NEW p \in Seq(EngineStates), NEW s \in EngineStates
                     PROVE  Append(p, s) = p \o <<s>> /\ <<s>> \in Seq(EngineStates)
OBVIOUS

LEMMA ShortWalks ==
  /\ Documented(<< >>) /\ Documented(Loading) /\ Documented(Outside)
  /\ Documented(<<"DATA_VALIDATION">>) /\ Documented(<<"DATA_VALIDATION", "NO_TRADE">>)
  /\ Documented(AnalysisPath) /\ Documented(ReadyPath) /\ Documented(<<"NO_TRADE">>)
BY Edges DEF Documented, Loading, Outside, AnalysisPath, ReadyPath

\* Every path of WalkInv: documented, with its last state.
LEMMA PathsAreDocumented ==
  /\ Documented(<< >>) /\ Documented(Loading)
  /\ Documented(Outside) /\ LastOf(Outside) = "SESSION_COMPLETE"
  /\ Documented(Refused) /\ LastOf(Refused) = "NO_TRADE"
  /\ Documented(Analysed)
  /\ Documented(Declined) /\ LastOf(Declined) = "NO_TRADE"
  /\ Documented(Announced) /\ LastOf(Announced) = "TRADE_READY"
<1> DEFINE v == <<"DATA_VALIDATION">>
           w == <<"DATA_VALIDATION", "NO_TRADE">>
           n == <<"NO_TRADE">>
<1>1. /\ Loading \in Seq(EngineStates) /\ v \in Seq(EngineStates) /\ w \in Seq(EngineStates)
      /\ n \in Seq(EngineStates)
      /\ AnalysisPath \in Seq(EngineStates) /\ ReadyPath \in Seq(EngineStates)
  BY PathsAreStates DEF Loading
<1>2. /\ Loading # << >> /\ v # << >> /\ w # << >> /\ n # << >>
      /\ AnalysisPath # << >> /\ ReadyPath # << >>
  BY DEF Loading, AnalysisPath, ReadyPath
<1>3. /\ LastOf(Loading) = "DATA_LOADING" /\ LastOf(v) = "DATA_VALIDATION"
      /\ LastOf(w) = "NO_TRADE" /\ LastOf(n) = "NO_TRADE"
      /\ LastOf(AnalysisPath) = "AUTHORIZATION" /\ LastOf(ReadyPath) = "TRADE_READY"
      /\ LastOf(Outside) = "SESSION_COMPLETE"
  BY DEF LastOf, Loading, AnalysisPath, ReadyPath, Outside
<1>4. /\ v[1] = "DATA_VALIDATION" /\ w[1] = "DATA_VALIDATION" /\ n[1] = "NO_TRADE"
      /\ AnalysisPath[1] = "MARKET_ANALYSIS" /\ ReadyPath[1] = "CONTRACT_SELECTION"
  BY DEF AnalysisPath, ReadyPath
<1>5. Documented(v) /\ Documented(w) /\ Documented(n)
  BY ShortWalks
<1> HIDE DEF v, w, n
<1>6. Documented(Loading \o w) /\ LastOf(Loading \o w) = "NO_TRADE"
  BY <1>1, <1>2, <1>3, <1>4, <1>5, ShortWalks, Edges, Joined
<1>7. /\ Documented(Loading \o v) /\ LastOf(Loading \o v) = "DATA_VALIDATION"
      /\ Loading \o v \in Seq(EngineStates) /\ Loading \o v # << >>
  BY <1>1, <1>2, <1>3, <1>4, <1>5, ShortWalks, Edges, Joined
<1> DEFINE a == (Loading \o v) \o AnalysisPath
<1>8. /\ Documented(a) /\ LastOf(a) = "AUTHORIZATION"
      /\ a \in Seq(EngineStates) /\ a # << >>
  BY <1>1, <1>2, <1>3, <1>4, <1>7, ShortWalks, Edges, Joined, ZenonT(60)
<1> HIDE DEF a
<1>9. Documented(a \o ReadyPath) /\ LastOf(a \o ReadyPath) = "TRADE_READY"
  BY <1>1, <1>2, <1>3, <1>4, <1>8, ShortWalks, Edges, Joined
<1>10. Documented(a \o n) /\ LastOf(a \o n) = "NO_TRADE"
  BY <1>1, <1>2, <1>3, <1>4, <1>5, <1>8, Edges, Joined
<1>11. Append(a, "NO_TRADE") = a \o n
  BY <1>8, PathsAreStates, AppendJoins DEF n
<1>12. Analysed = a /\ Refused = Loading \o w /\ Announced = a \o ReadyPath
       /\ Declined = Append(a, "NO_TRADE")
  BY DEF Analysed, Refused, Announced, Declined, a, v, w
<1>13. QED
  BY <1>3, <1>6, <1>8, <1>9, <1>10, <1>11, <1>12, ShortWalks

LEMMA RefusedIsNotAnalysed ==
  \A k \in DOMAIN Refused : Refused[k] # "MARKET_ANALYSIS"
<1> DEFINE w == <<"DATA_VALIDATION", "NO_TRADE">>
<1>1. /\ Loading \in Seq(EngineStates) /\ w \in Seq(EngineStates)
      /\ Len(Loading) = 2 /\ Len(w) = 2
      /\ \A i \in 1 .. 2 : Loading[i] # "MARKET_ANALYSIS" /\ w[i] # "MARKET_ANALYSIS"
  BY PathsAreStates DEF Loading
<1> HIDE DEF w
<1>2. /\ DOMAIN (Loading \o w) = 1 .. 4
      /\ \A i \in 1 .. 2 : (Loading \o w)[i] = Loading[i]
      /\ \A i \in 1 .. 2 : (Loading \o w)[2 + i] = w[i]
  <2>1. \A p, q \in Seq(EngineStates) :
          /\ DOMAIN (p \o q) = 1 .. Len(p) + Len(q)
          /\ \A i \in 1 .. Len(p) : (p \o q)[i] = p[i]
          /\ \A i \in 1 .. Len(q) : (p \o q)[Len(p) + i] = q[i]
    OBVIOUS
  <2>2. /\ DOMAIN (Loading \o w) = 1 .. Len(Loading) + Len(w)
        /\ \A i \in 1 .. Len(Loading) : (Loading \o w)[i] = Loading[i]
        /\ \A i \in 1 .. Len(w) : (Loading \o w)[Len(Loading) + i] = w[i]
    BY <1>1, <2>1, Zenon
  <2>3. 1 .. 2 + 2 = 1 .. 4
    OBVIOUS
  <2>4. QED
    BY <1>1, <2>2, <2>3, Zenon
<1>3. \A k \in 1 .. 4 : k \in 1 .. 2 \/ \E i \in 1 .. 2 : k = 2 + i
  <2>1. ASSUME NEW k \in 1 .. 4, k \notin 1 .. 2
        PROVE  \E i \in 1 .. 2 : k = 2 + i
    <3>1. k - 2 \in 1 .. 2 /\ k = 2 + (k - 2)
      BY <2>1
    <3>2. QED
      BY <3>1
  <2>2. QED
    BY <2>1
<1>4. \A k \in 1 .. 4 : (Loading \o w)[k] # "MARKET_ANALYSIS"
  BY <1>1, <1>2, <1>3
<1>5. QED
  BY <1>2, <1>4 DEF Refused, w

LEMMA WalkIsDocumented == TypeOK /\ WalkInv => PathIsDocumented
<1> SUFFICES ASSUME TypeOK, WalkInv
             PROVE  PathIsDocumented
  OBVIOUS
<1>1. \/ path \in {<< >>, Loading, Outside, Refused}
      \/ path \in {Analysed, Declined, Announced} /\ LiveAccepts
  BY DEF WalkInv, TypeOK
<1>2. Documented(path)
  BY <1>1, PathsAreDocumented
<1>3. pc = "done" =>
        /\ LastOf(path) \in TerminalStates
        /\ (LastOf(path) = "SESSION_COMPLETE") <=> (signal = "none")
        /\ signal # "none" => LastOf(path) = signal
        /\ (signal = "none") <=> ~ InSession
  <2>1. /\ LastOf(Outside) = "SESSION_COMPLETE" /\ LastOf(Refused) = "NO_TRADE"
        /\ LastOf(Declined) = "NO_TRADE" /\ LastOf(Announced) = "TRADE_READY"
    BY PathsAreDocumented
  <2>2. pc = "done" =>
          \/ LastOf(path) = "SESSION_COMPLETE" /\ signal = "none"
          \/ LastOf(path) = "NO_TRADE" /\ signal = "NO_TRADE"
          \/ LastOf(path) = "TRADE_READY" /\ signal = "TRADE_READY"
    BY <2>1 DEF WalkInv
  <2>3. {"SESSION_COMPLETE", "NO_TRADE", "TRADE_READY"} \subseteq TerminalStates
    BY DEF TerminalStates
  <2> DEFINE l == LastOf(path)
  <2>4. pc = "done" => l \in TerminalStates
    BY <2>2, <2>3
  <2>5. pc = "done" => (signal # "none" => l = signal)
    BY <2>2
  <2>6. pc = "done" => ((l = "SESSION_COMPLETE") <=> (signal = "none"))
    BY <2>2
  <2>7. pc = "done" => ((signal = "none") <=> ~ InSession)
    BY DEF WalkInv
  <2>8. QED
    BY <2>4, <2>5, <2>6, <2>7
<1>4. "MARKET_ANALYSIS" \in {path[k] : k \in DOMAIN path} => LiveAccepts
  <2>1. CASE path = << >>
    BY <2>1
  <2>2. CASE path \in {Loading, Outside}
    BY <2>2 DEF Loading, Outside
  <2>3. CASE path = Refused
    BY <2>3, RefusedIsNotAnalysed
  <2>4. QED
    BY <1>1, <2>1, <2>2, <2>3
<1>5. QED
  BY <1>2, <1>3, <1>4 DEF Documented, LastOf, PathIsDocumented, InSession

(***************************************************************************)
(* Every cycle walks the documented state machine, whatever is fetched,    *)
(* ends with a signal exactly in the session, and enters the analysis only *)
(* past the gate (runtime.py:71-137).                                      *)
(***************************************************************************)
THEOREM CyclesWalkTheStateMachine == Spec => []PathIsDocumented
<1>1. TypeInv => TypeOK
  BY DEF TypeInv
<1>2. QED
  BY <1>1, InitTypeInv, NextTypeInv, InitWalk, NextWalk, WalkIsDocumented, PTL DEF Spec

-----------------------------------------------------------------------------
(***************************************************************************)
(* What a signal rests on.  Beside the budget and the walk: a bundle is    *)
(* complete when it is judged, and asked for after the tick's now.         *)
(***************************************************************************)
BundleInv ==
  /\ pc \in {"assess", "decide"} => Len(results) = Len(Endpoints)
  /\ signal # "none" => Len(results) = Len(Endpoints)
  /\ pc \in {"request", "backoff", "assess", "decide"} \/ results # << >> => asOf <= requestedAt
  /\ asOf <= clock /\ requestedAt <= clock

LEMMA InitBundle == Init => BundleInv
BY DEF Init, BundleInv

LEMMA NextBundle == TypeInv /\ WalkInv /\ BundleInv /\ [Next]_vars => BundleInv'
<1> SUFFICES ASSUME TypeInv, WalkInv, BundleInv, [Next]_vars
             PROVE  BundleInv'
  OBVIOUS
<1>0. TypeOK /\ clock \in Nat /\ asOf \in Nat /\ requestedAt \in Nat
  BY DEF TypeInv, TypeOK
<1>1. CASE StartTick
  BY <1>0, <1>1 DEF StartTick, BundleInv, WalkInv, TypeInv, EnterIsFresh
<1>2. CASE EnterCycle
  BY <1>0, <1>2 DEF EnterCycle, BundleInv, WalkInv, TypeInv, EnterIsFresh
<1>a. ASSUME NEW r, pc = "request", Fetched(r)
      PROVE  BundleInv'
  <2>1. Len(results') = Len(results) + 1
    BY <1>0, <1>a DEF Fetched, TypeOK
  <2>2. QED
    BY <1>a, <2>1 DEF Fetched, BundleInv, WalkInv
<1>3. CASE Answer
  BY <1>3, <1>a DEF Answer
<1>4. CASE Reject
  BY <1>4, <1>a DEF Reject
<1>5. CASE Retry
  BY <1>5 DEF Retry, BundleInv
<1>6. CASE TryAgain
  BY <1>6 DEF TryAgain, BundleInv
<1>7. CASE GiveUp
  BY <1>7, <1>a DEF GiveUp
<1>8. CASE Assess
  BY <1>8 DEF Assess, BundleInv
<1>9. CASE Decide
  BY <1>9 DEF Decide, BundleInv
<1>10. CASE NextCycle
  BY <1>0, <1>10 DEF NextCycle, BundleInv
<1>11. CASE ClockAdvances
  BY <1>0, <1>11 DEF ClockAdvances, BundleInv
<1>12. CASE UNCHANGED vars
  BY <1>12 DEF BundleInv
<1>13. CASE Raise
  BY <1>0, <1>13 DEF Raise, BundleInv
<1>14. QED
  BY <1>1, <1>2, <1>3, <1>4, <1>5, <1>6, <1>7, <1>8, <1>9, <1>10, <1>11, <1>12, <1>13
     DEF Next, Steps, Finished

\* What is known of a result of the bundle.
LEMMA ResultTypes ==
  ASSUME TypeOK, NEW i \in CriticalIn(results)
  PROVE  /\ results[i].fate \in Fates /\ results[i].stamp \in Int \cup {NoStamp}
         /\ Tolerance[Endpoints[i]] \in Nat
<1>1. i \in DOMAIN results /\ i \in 1 .. Len(Endpoints)
  BY ConstantTypes DEF CriticalIn, TypeOK
<1>2. Endpoints[i] \in Names
  BY <1>1, ConstantTypes DEF Names
<1>3. results[i] \in Results
  BY <1>1 DEF TypeOK
<1>4. QED
  BY <1>2, <1>3, EndpointsAssumption DEF Results

\* A payload is OK exactly in these cases.
LEMMA OkMeans ==
  ASSUME NEW t \in Int, NEW i, results[i].stamp \in Int \cup {NoStamp},
         results[i].fate \in Fates, Tolerance[Endpoints[i]] \in Nat
  PROVE  StatusAt(results, i, t) = "OK" <=>
           /\ results[i].fate \in {"hollow", "whole"}
           /\ results[i].stamp # NoStamp =>
                /\ results[i].stamp \in Int
                /\ 0 <= t - results[i].stamp
                /\ t - results[i].stamp <= Tolerance[Endpoints[i]]
BY EndpointsAssumption, SMTT(60) DEF StatusAt, AssessSourceStatus, Age

LEMMA ReadyIsSound ==
  TypeInv /\ TickIsBounded /\ WalkInv /\ BundleInv => ReadyRestsOnSoundData
<1> SUFFICES ASSUME TypeInv, TickIsBounded, WalkInv, BundleInv, signal = "TRADE_READY"
             PROVE  /\ Len(results) = Len(Endpoints)
                    /\ \A i \in CriticalIn(results) : SoundAt(i, TickBound)
  BY DEF ReadyRestsOnSoundData
<1>1. TypeOK /\ pc = "done" /\ LiveAccepts /\ Len(results) = Len(Endpoints)
  BY DEF TypeInv, WalkInv, BundleInv
<1>2. clock - asOf <= TickBound /\ clock \in Nat /\ asOf \in Nat /\ TickBound \in Nat
  BY <1>1, ConstantTypes DEF TickIsBounded, TypeOK
<1>3. ASSUME NEW i \in CriticalIn(results)
      PROVE  SoundAt(i, TickBound)
  <2>1. /\ StatusAt(results, i, asOf) = "OK"
        /\ Endpoints[i] \in Extracted => results[i].fate = "whole"
    BY <1>1 DEF LiveAccepts, CriticalEndpointsOk
  <2>2. /\ results[i].fate \in Fates /\ results[i].stamp \in Int \cup {NoStamp}
        /\ Tolerance[Endpoints[i]] \in Nat
    BY <1>1, ResultTypes
  <2>3. /\ results[i].fate \in {"hollow", "whole"}
        /\ results[i].stamp # NoStamp =>
             /\ results[i].stamp \in Int
             /\ 0 <= asOf - results[i].stamp
             /\ asOf - results[i].stamp <= Tolerance[Endpoints[i]]
    BY <1>2, <2>1, <2>2, OkMeans
  <2>4. QED
    BY <1>2, <2>1, <2>2, <2>3 DEF SoundAt
<1>4. QED
  BY <1>1, <1>3

(***************************************************************************)
(* A TRADE_READY never rests on missing, broken or future data, nor on     *)
(* data older than their tolerance and the longest tick together           *)
(* (validation.py:248-279, 318-325, runtime.py:96-109).                    *)
(***************************************************************************)
THEOREM ReadySignalsAreSound == Spec => []ReadyRestsOnSoundData
BY InitTickInv, NextBudget, BudgetBounds, InitTypeInv, NextTypeInv, InitWalk, NextWalk,
   InitBundle, NextBundle, ReadyIsSound, PTL DEF Spec

LEMMA GapExplains == TypeInv /\ BundleInv => ReplayDiffersOnlyInTheGap
<1> SUFFICES ASSUME TypeInv, BundleInv, results # << >>
             PROVE  /\ ReplayAccepts /\ ~ LiveAccepts =>
                         \E i \in CriticalIn(results) :
                           /\ results[i].stamp # NoStamp
                           /\ asOf < results[i].stamp /\ results[i].stamp <= requestedAt
                    /\ LiveAccepts /\ ~ ReplayAccepts =>
                         \E i \in CriticalIn(results) :
                           /\ results[i].stamp # NoStamp
                           /\ Age(results[i], asOf) \in 0 .. Tolerance[Endpoints[i]]
                           /\ Age(results[i], requestedAt) > Tolerance[Endpoints[i]]
  BY DEF ReplayDiffersOnlyInTheGap
<1>1. TypeOK /\ asOf \in Nat /\ requestedAt \in Nat /\ asOf <= requestedAt
  BY DEF TypeInv, TypeOK, BundleInv
<1>2. ASSUME NEW i \in CriticalIn(results), NEW t \in {asOf, requestedAt}
      PROVE  /\ results[i].stamp \in Int \cup {NoStamp} /\ Tolerance[Endpoints[i]] \in Nat
             /\ StatusAt(results, i, t) = "OK" <=>
                  /\ results[i].fate \in {"hollow", "whole"}
                  /\ results[i].stamp # NoStamp =>
                       /\ results[i].stamp \in Int
                       /\ 0 <= t - results[i].stamp
                       /\ t - results[i].stamp <= Tolerance[Endpoints[i]]
  <2>1. /\ results[i].fate \in Fates /\ results[i].stamp \in Int \cup {NoStamp}
        /\ Tolerance[Endpoints[i]] \in Nat
    BY <1>1, ResultTypes
  <2>2. t \in Int
    BY <1>1
  <2>3. QED
    BY <2>1, <2>2, OkMeans
<1>3. ASSUME ReplayAccepts, ~ LiveAccepts
      PROVE  \E i \in CriticalIn(results) :
               /\ results[i].stamp # NoStamp
               /\ asOf < results[i].stamp /\ results[i].stamp <= requestedAt
  <2>1. PICK i \in CriticalIn(results) : StatusAt(results, i, asOf) # "OK"
    BY <1>3 DEF ReplayAccepts, LiveAccepts, CriticalEndpointsOk
  <2>2. StatusAt(results, i, requestedAt) = "OK"
    BY <1>3 DEF ReplayAccepts, CriticalEndpointsOk
  <2>3. /\ results[i].stamp # NoStamp /\ results[i].stamp \in Int
        /\ asOf < results[i].stamp /\ results[i].stamp <= requestedAt
    BY <1>1, <1>2, <2>1, <2>2
  <2>4. QED
    BY <2>3
<1>4. ASSUME LiveAccepts, ~ ReplayAccepts
      PROVE  \E i \in CriticalIn(results) :
               /\ results[i].stamp # NoStamp
               /\ Age(results[i], asOf) \in 0 .. Tolerance[Endpoints[i]]
               /\ Age(results[i], requestedAt) > Tolerance[Endpoints[i]]
  <2>1. PICK i \in CriticalIn(results) : StatusAt(results, i, requestedAt) # "OK"
    BY <1>4 DEF ReplayAccepts, LiveAccepts, CriticalEndpointsOk
  <2>2. StatusAt(results, i, asOf) = "OK"
    BY <1>4 DEF LiveAccepts, CriticalEndpointsOk
  <2>3. /\ results[i].stamp # NoStamp /\ results[i].stamp \in Int
        /\ asOf - results[i].stamp \in 0 .. Tolerance[Endpoints[i]]
        /\ requestedAt - results[i].stamp > Tolerance[Endpoints[i]]
    BY <1>1, <1>2, <2>1, <2>2
  <2>4. QED
    BY <2>3 DEF Age
<1>5. QED
  BY <1>3, <1>4

(***************************************************************************)
(* Live and replayed verdicts differ only through what was observed, or    *)
(* ran out of its tolerance, between the tick's now and the request        *)
(* (replay/engine.py:38, runtime.py:96).                                   *)
(***************************************************************************)
THEOREM ReplayDiffersInTheGap == Spec => []ReplayDiffersOnlyInTheGap
BY InitTypeInv, NextTypeInv, InitWalk, NextWalk, InitBundle, NextBundle, GapExplains, PTL
   DEF Spec
=============================================================================
