------------------------------ MODULE MCApiTest ------------------------------
(***************************************************************************)
(* The API test page with an ok status, a 404 (routes not registered) and  *)
(* a 500, and two bodies a good answer may carry, so that a later answer   *)
(* can differ from the one shown.                                          *)
(***************************************************************************)
EXTENDS ApiTest

CONSTANTS p1, p2

MCStatuses == {200, 404, 500}

MCPayloads == {p1, p2}
=============================================================================
