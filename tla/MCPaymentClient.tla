---------------------------- MODULE MCPaymentClient ----------------------------
(* Small instances of the paid request path.                               *)
EXTENDS PaymentClient, TLC

Interchangeable == Permutations(Requests)

\* A delivery, a refusal, a re-challenge, a redirect and a server error.
EveryStatus == {200, 302, 402, 403, 500}
===============================================================================
