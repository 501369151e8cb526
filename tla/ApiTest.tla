------------------------------- MODULE ApiTest -------------------------------
(***************************************************************************)
(* The API test page (pages/ApiTest/index.tsx): two buttons and a mount    *)
(* effect that each run a test of one endpoint, sharing the state hooks    *)
(* testResult, loading and error.                                          *)
(*                                                                         *)
(* A test awaits twice: fetch() for the response, then response.json() for *)
(* its body.  Each continuation is one JavaScript turn, so a test in       *)
(* flight is at one of two stages.  Only the buttons' `disabled={loading}` *)
(* keeps a second test from starting.                                      *)
(***************************************************************************)
EXTENDS Naturals

CONSTANTS
    Statuses,    \* HTTP statuses (numbers) the server may answer with
    Payloads,    \* JSON bodies a successful answer may carry
    NoResult     \* testResult's initial null

\* testApi and testHierarchicalTags: the same handler on two endpoints.
Endpoints == {"/hierarchical-tags/test", "/hierarchical-tags"}

\* response.ok
Ok(s) == s \in 200..299

\* err.message, as setError keeps it: the rejection of fetch or of json(),
\* or the `HTTP ${status}: ...` error thrown for a response that is not ok.
Errors == {<<"network">>, <<"parse">>} \cup {<<"HTTP", s>> : s \in Statuses}

NoError == <<>>

VARIABLES
    testResult,  \* useState testResult: the body of the last good answer
    loading,     \* useState loading (disables both buttons)
    error,       \* useState error
    inFlight     \* the tests awaiting fetch() or response.json()

vars == <<testResult, loading, error, inFlight>>

\* A test in flight: its endpoint, and the promise it awaits.
Test == [endpoint : Endpoints, stage : {"fetch", "json"}]

TypeOK ==
    /\ testResult \in Payloads \cup {NoResult}
    /\ loading \in BOOLEAN
    /\ error \in Errors \cup {NoError}
    /\ inFlight \subseteq Test

\* The start of a test: setLoading(true), setError(''), then fetch().
Begin(e) ==
    /\ loading' = TRUE
    /\ error' = NoError
    /\ inFlight' = inFlight \cup {[endpoint |-> e, stage |-> "fetch"]}

\* Mount: the state hooks start empty and the effect calls testApi().
Init ==
    /\ testResult = NoResult
    /\ loading = TRUE
    /\ error = NoError
    /\ inFlight = {[endpoint |-> "/hierarchical-tags/test", stage |-> "fetch"]}

\* The catch, then the finally: the test ends with err.message shown.
Fail(t, msg) ==
    /\ error' = msg
    /\ loading' = FALSE
    /\ inFlight' = inFlight \ {t}
    /\ UNCHANGED testResult

\* A click on "Test Simple Endpoint" (testApi) or "Test Hierarchical Tags"
\* (testHierarchicalTags); both are disabled while loading.
Click(e) ==
    /\ ~loading
    /\ Begin(e)
    /\ UNCHANGED testResult

\* fetch() rejects (network error): caught, message shown.
FetchRejects(t) ==
    /\ t \in inFlight /\ t.stage = "fetch"
    /\ Fail(t, <<"network">>)

\* fetch() resolves with status s: a response that is not ok is thrown as
\* an Error and caught; an ok one goes on to await response.json().
FetchResolves(t, s) ==
    /\ t \in inFlight /\ t.stage = "fetch"
    /\ \/ /\ ~Ok(s)
          /\ Fail(t, <<"HTTP", s>>)
       \/ /\ Ok(s)
          /\ inFlight' = (inFlight \ {t}) \cup {[t EXCEPT !.stage = "json"]}
          /\ UNCHANGED <<testResult, loading, error>>

\* response.json() resolves with body d: setTestResult(d), then finally.
JsonParses(t, d) ==
    /\ t \in inFlight /\ t.stage = "json"
    /\ testResult' = d
    /\ loading' = FALSE
    /\ inFlight' = inFlight \ {t}
    /\ UNCHANGED error

\* response.json() rejects (a body that is not JSON): caught.
JsonFails(t) ==
    /\ t \in inFlight /\ t.stage = "json"
    /\ Fail(t, <<"parse">>)

\* The continuation that test t awaits runs, with whatever outcome.
Progress(t) ==
    \/ FetchRejects(t)
    \/ \E s \in Statuses : FetchResolves(t, s)
    \/ \E d \in Payloads : JsonParses(t, d)
    \/ JsonFails(t)

Next ==
    \/ \E e \in Endpoints : Click(e)
    \/ \E t \in inFlight : Progress(t)

\* Each promise settles: fetch() rejects on network failure, and the
\* browser ends a body that stalls; nothing on the page cancels a test.
Spec == Init /\ [][Next]_vars /\ WF_vars(\E t \in inFlight : Progress(t))

-----------------------------------------------------------------------------
(***************************************************************************)
(* Properties.                                                             *)
(***************************************************************************)

\* The endpoint under test, if a test is in flight.
TestOf == IF inFlight = {} THEN "none" ELSE (CHOOSE t \in inFlight : TRUE).endpoint

\* The page as a single-flight requester (proved in ApiTestProofs): a
\* test starts only when none is in flight, and "Testing..." is shown
\* exactly while one is.
Flight == INSTANCE SingleFlight
              WITH Requests <- Endpoints, NoRequest <- "none",
                   busy <- loading, current <- TestOf

\* The page's own words: the green "Success! API is working." alert is
\* never shown next to the red error alert of a failed test.
AlertsAgree == ~(error # NoError /\ testResult # NoResult)
=============================================================================
