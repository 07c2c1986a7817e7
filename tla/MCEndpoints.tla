------------------------------ MODULE MCEndpoints ------------------------------
(* Endpoints on small instances. *)
EXTENDS Endpoints

CONSTANTS a1, a2

\* The ws endpoint moves, the status endpoint is switched on and off and wants the
\* address that ws leaves.
Moving == {[ws |-> a1, status |-> Off], [ws |-> a1, status |-> a2],
           [ws |-> a2, status |-> a1]}
=============================================================================
