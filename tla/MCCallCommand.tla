---------------------------- MODULE MCCallCommand ------------------------------
(* A small instance of the command and the program.                        *)
EXTENDS CallCommand

\* The script runs the command at most twice.
TwoRuns == 1 .. 2

\* A delivery, a re-challenge (the last one refuses) and a server error.
SomeStatuses == {200, 402, 500}

\* policy, liquidity, protocol, signer and transport.
NothingPaid == {3, 4, 5, 6, 7}
===============================================================================
