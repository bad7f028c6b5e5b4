---------------------------- MODULE MCIdempotency -----------------------------
(* A small instance of the idempotency middleware for TLC: two requests on  *)
(* the first pod, a third on the second.                                    *)
EXTENDS Idempotency, TLC

CONSTANTS p1, p2, r1, r2, r3, A, B

MCPodOf == (r1 :> p1) @@ (r2 :> p1) @@ (r3 :> p2)

\* Payloads are alike: the first request's may be fixed.
MCPayloadsOf == (r1 :> {A}) @@ (r2 :> {A, B}) @@ (r3 :> {A, B})
===============================================================================
