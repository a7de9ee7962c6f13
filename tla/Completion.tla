------------------------------ MODULE Completion ------------------------------
(***************************************************************************)
(* What becomes of a reservation once its signature has been transmitted:  *)
(* the disposition table of core/completion.ts, and the settlement         *)
(* evidence core/client.ts reads from the PAYMENT-RESPONSE header.         *)
(***************************************************************************)
EXTENDS Naturals

\* "success" and "unsuccessful" decode; "absent" is no header, "malformed" one
\* that does not decode.
Evidence == {"success", "unsuccessful", "absent", "malformed"}

\* How one signature-bearing request ended; only a response has the last two.
Results(statuses) ==
    [kind : {"response"}, status : statuses, settlement : Evidence]
      \cup [kind : {"redirect-blocked", "transport-failure"}, status : {0},
            settlement : {"absent"}]

IsSuccessStatus(status) == status \in 200 .. 299

\* A 402 is met with a fresh attempt while the policy permits one.
Rechallenges(attempt, maxPaidAttempts) == attempt < maxPaidAttempts

\* Mutants of ClassifyPaidAttempt: the status line is read before the evidence,
\* and a server error is taken for a refusal.
StatusFirst(attempt, maxPaidAttempts, result) ==
    IF result.kind # "response" THEN "ambiguous"
    ELSE IF result.status = 402
    THEN IF Rechallenges(attempt, maxPaidAttempts) THEN "rechallenge" ELSE "failed"
    ELSE IF result.status >= 500 \/ result.status \in 300 .. 399 THEN "ambiguous"
    ELSE IF ~IsSuccessStatus(result.status) THEN "failed"
    ELSE IF result.settlement = "malformed" THEN "ambiguous"
    ELSE IF result.settlement = "unsuccessful" THEN "failed"
    ELSE "commit"

ServerErrorRefuses(attempt, maxPaidAttempts, result) ==
    IF result.kind # "response" THEN "ambiguous"
    ELSE IF result.settlement = "success" /\ ~IsSuccessStatus(result.status)
    THEN "paid-undelivered"
    ELSE IF result.settlement = "malformed" THEN "ambiguous"
    ELSE IF result.status = 402
    THEN IF Rechallenges(attempt, maxPaidAttempts) THEN "rechallenge" ELSE "failed"
    ELSE IF result.status \in 300 .. 399 THEN "ambiguous"
    ELSE IF ~IsSuccessStatus(result.status) THEN "failed"
    ELSE IF result.settlement = "unsuccessful" THEN "failed"
    ELSE "commit"

\* The table.  The order of its rows is part of the contract.
ClassifyPaidAttempt(attempt, maxPaidAttempts, result) ==
    IF result.kind # "response" THEN "ambiguous"
    ELSE IF result.settlement = "success" /\ ~IsSuccessStatus(result.status)
    THEN "paid-undelivered"
    ELSE IF result.settlement = "malformed" THEN "ambiguous"
    ELSE IF result.status = 402
    THEN IF Rechallenges(attempt, maxPaidAttempts) THEN "rechallenge" ELSE "failed"
    ELSE IF result.status >= 500 \/ result.status \in 300 .. 399 THEN "ambiguous"
    ELSE IF ~IsSuccessStatus(result.status) THEN "failed"
    ELSE IF result.settlement = "unsuccessful" THEN "failed"
    ELSE "commit"
===============================================================================
