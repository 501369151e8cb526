---------------------------- MODULE ApiTestProofs ----------------------------
(***************************************************************************)
(* Proof that the API test page implements the safety part of SingleFlight *)
(* under the mapping of ApiTest: busy is `loading`, the request in flight  *)
(* is the endpoint of the test in flight.                                  *)
(*                                                                         *)
(* The mapping is a function of the state only if at most one test is in   *)
(* flight, and the steps map to Start and Settle only if `loading` is set  *)
(* exactly while one is: the inductive invariant says both.                *)
(***************************************************************************)
EXTENDS ApiTest, TLAPS

\* At most one test in flight, and `loading` exactly while there is one.
OneTest ==
    /\ loading <=> inFlight # {}
    /\ \A t1, t2 \in inFlight : t1 = t2

IInv == TypeOK /\ OneTest

\* The mapping of a single test in flight, now and after a step.
LEMMA TestOfSingleton ==
    ASSUME NEW t, inFlight = {t}
    PROVE  TestOf = t.endpoint
<1>1. (CHOOSE u \in inFlight : TRUE) = t /\ inFlight # {}
  OBVIOUS
<1> QED
  BY <1>1 DEF TestOf

LEMMA TestOfSingletonPrime ==
    ASSUME NEW t, inFlight' = {t}
    PROVE  TestOf' = t.endpoint
<1>1. (CHOOSE u \in inFlight' : TRUE) = t /\ inFlight' # {}
  OBVIOUS
<1> QED
  BY <1>1 DEF TestOf

LEMMA InitIInv == Init => IInv
BY DEF Init, IInv, TypeOK, OneTest, Test, Errors, NoError, Endpoints

\* Every step keeps at most one test in flight, flagged by `loading`.
LEMMA NextIInv == IInv /\ [Next]_vars => IInv'
<1> SUFFICES ASSUME IInv, [Next]_vars PROVE IInv'
  OBVIOUS
<1>1. ASSUME NEW e \in Endpoints, Click(e) PROVE IInv'
  <2>1. inFlight = {}
    BY <1>1 DEF Click, IInv, OneTest
  <2>2. inFlight' = {[endpoint |-> e, stage |-> "fetch"]} /\ loading'
    BY <1>1, <2>1 DEF Click, Begin
  <2>3. TypeOK'
    BY <1>1, <2>2 DEF Click, Begin, IInv, TypeOK, Test
  <2>4. OneTest'
    BY <2>2 DEF OneTest
  <2> QED
    BY <2>3, <2>4 DEF IInv
<1>2. ASSUME NEW t \in inFlight, FetchRejects(t) PROVE IInv'
  BY <1>2 DEF FetchRejects, Fail, IInv, TypeOK, OneTest, Errors
<1>3. ASSUME NEW t \in inFlight, NEW s \in Statuses, FetchResolves(t, s)
      PROVE  IInv'
  <2>1. CASE ~Ok(s) /\ Fail(t, <<"HTTP", s>>)
    BY <2>1 DEF Fail, IInv, TypeOK, OneTest, Errors
  <2>2. CASE Ok(s) /\ inFlight' = (inFlight \ {t}) \cup {[t EXCEPT !.stage = "json"]}
                   /\ UNCHANGED <<testResult, loading, error>>
    <3>1. inFlight = {t}
      BY DEF IInv, OneTest
    <3>2. inFlight' = {[t EXCEPT !.stage = "json"]}
      BY <2>2, <3>1
    <3> QED
      BY <2>2, <3>2 DEF IInv, TypeOK, OneTest, Test
  <2> QED
    BY <1>3, <2>1, <2>2 DEF FetchResolves
<1>4. ASSUME NEW t \in inFlight, NEW d \in Payloads, JsonParses(t, d)
      PROVE  IInv'
  BY <1>4 DEF JsonParses, IInv, TypeOK, OneTest
<1>5. ASSUME NEW t \in inFlight, JsonFails(t) PROVE IInv'
  BY <1>5 DEF JsonFails, Fail, IInv, TypeOK, OneTest, Errors
<1>6. CASE UNCHANGED vars
  BY <1>6 DEF vars, IInv, TypeOK, OneTest
<1> QED
  BY <1>1, <1>2, <1>3, <1>4, <1>5, <1>6 DEF Next, Progress

\* The endpoint the mapping takes for the test in flight.
LEMMA TestOfInFlight ==
    ASSUME IInv, NEW t \in inFlight
    PROVE  inFlight = {t} /\ TestOf = t.endpoint
<1>1. inFlight = {t}
  BY DEF IInv, OneTest
<1> QED
  BY <1>1, TestOfSingleton

-----------------------------------------------------------------------------
(***************************************************************************)
(* The refinement.                                                         *)
(***************************************************************************)

LEMMA InitRefines == Init => Flight!Init
<1> SUFFICES ASSUME Init PROVE Flight!Init
  OBVIOUS
<1> DEFINE m == [endpoint |-> "/hierarchical-tags/test", stage |-> "fetch"]
<1>1. TestOf = m.endpoint
  BY TestOfSingleton DEF Init
<1> QED
  BY <1>1 DEF Init, Flight!Init, Endpoints

\* Each step of the page is a Start, a Settle, or leaves the mapped state.
LEMMA NextRefines == IInv /\ [Next]_vars => [Flight!Next]_Flight!vars
<1> SUFFICES ASSUME IInv, [Next]_vars PROVE [Flight!Next]_Flight!vars
  OBVIOUS
<1>1. ASSUME NEW e \in Endpoints, Click(e) PROVE Flight!Start(e)
  <2>1. inFlight = {} /\ TestOf = "none"
    BY <1>1 DEF Click, IInv, OneTest, TestOf
  <2>2. inFlight' = {[endpoint |-> e, stage |-> "fetch"]}
    BY <1>1, <2>1 DEF Click, Begin
  <2>3. TestOf' = [endpoint |-> e, stage |-> "fetch"].endpoint
    BY <2>2, TestOfSingletonPrime
  <2> QED
    BY <1>1, <2>1, <2>3 DEF Click, Begin, Flight!Start
\* A test that ends: the set empties, `loading` drops.
<1>2. ASSUME NEW t \in inFlight, inFlight' = inFlight \ {t}, loading' = FALSE
      PROVE  Flight!Settle
  <2>1. inFlight = {t} /\ TestOf = t.endpoint
    BY TestOfInFlight
  <2>2. t.endpoint # "none"
    BY DEF IInv, TypeOK, Test, Endpoints
  <2>3. TestOf' = "none"
    BY <1>2, <2>1 DEF TestOf
  <2> QED
    BY <1>2, <2>1, <2>2, <2>3 DEF Flight!Settle
<1>3. ASSUME NEW t \in inFlight, NEW s \in Statuses, FetchResolves(t, s)
      PROVE  [Flight!Next]_Flight!vars
  <2>1. CASE ~Ok(s) /\ Fail(t, <<"HTTP", s>>)
    BY <2>1, <1>2 DEF Fail, Flight!Next
  <2>2. CASE Ok(s) /\ inFlight' = (inFlight \ {t}) \cup {[t EXCEPT !.stage = "json"]}
                   /\ UNCHANGED <<testResult, loading, error>>
    <3>1. inFlight = {t} /\ TestOf = t.endpoint
      BY TestOfInFlight
    <3>2. t \in Test
      BY DEF IInv, TypeOK
    <3>3. inFlight' = {[t EXCEPT !.stage = "json"]}
      BY <2>2, <3>1
    <3>4. TestOf' = [t EXCEPT !.stage = "json"].endpoint
      BY <3>3, TestOfSingletonPrime
    <3>5. TestOf' = t.endpoint
      BY <3>2, <3>4 DEF Test
    <3> QED
      BY <2>2, <3>1, <3>5 DEF Flight!vars
  <2> QED
    BY <1>3, <2>1, <2>2 DEF FetchResolves
<1>4. CASE UNCHANGED vars
  BY <1>4 DEF vars, Flight!vars, TestOf
<1> QED
  BY <1>1, <1>2, <1>3, <1>4
  DEF Next, Progress, Flight!Next, FetchRejects, JsonParses, JsonFails, Fail

\* The page never starts a second test while one is in flight, shows
\* "Testing..." exactly while one is, and drops it only when that test's
\* fetch() or json() settles: every behaviour of ApiTest is one of
\* SingleFlight (safety part).
THEOREM ApiTestRefinesSingleFlight == Spec => Flight!SafeSpec
<1>1. Init => IInv /\ Flight!Init
  BY InitIInv, InitRefines
<1>2. IInv /\ [Next]_vars => IInv' /\ [Flight!Next]_Flight!vars
  BY NextIInv, NextRefines
<1> QED
  BY <1>1, <1>2, PTL DEF Spec, Flight!SafeSpec
=============================================================================
