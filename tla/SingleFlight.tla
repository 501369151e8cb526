---------------------------- MODULE SingleFlight ----------------------------
(***************************************************************************)
(* What a page promises about its requests (spec 1 and 5): a single       *)
(* request in flight per user action, a loading indicator that is up       *)
(* exactly while it is, and a request that eventually settles, after      *)
(* which the next may start.  Nothing is said of what the answer does.    *)
(*                                                                         *)
(* The detailed models implement this one under a refinement mapping:     *)
(* HierarchicalTagDropdown (a request is the parent it asks children of)   *)
(* and ApiTest (a request is the endpoint it tests).                      *)
(***************************************************************************)
CONSTANTS
    Requests,    \* what a request can be for
    NoRequest    \* no request in flight (not one of Requests)

VARIABLES
    busy,        \* the loading indicator
    current      \* the request in flight, or NoRequest

vars == <<busy, current>>

TypeOK ==
    /\ busy \in BOOLEAN
    /\ current \in Requests \cup {NoRequest}

\* A page may mount with its first request already issued.
Init ==
    /\ current \in Requests \cup {NoRequest}
    /\ busy = (current # NoRequest)

\* A request starts only when none is in flight, and raises the indicator.
Start(r) ==
    /\ current = NoRequest
    /\ current' = r
    /\ busy' = TRUE

\* The request in flight settles, whatever its outcome; the indicator drops.
Settle ==
    /\ current # NoRequest
    /\ current' = NoRequest
    /\ busy' = FALSE

Next == (\E r \in Requests : Start(r)) \/ Settle

SafeSpec == Init /\ [][Next]_vars

Spec == SafeSpec /\ WF_vars(Settle)
=============================================================================
