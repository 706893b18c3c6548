--------------------------- MODULE MCLinkSession ---------------------------
(* A small instance of LinkSession for TLC.                                  *)
EXTENDS LinkSession

Setup(fast, replies, secret, limit, frames) ==
    [fast |-> fast, replies |-> replies, secret |-> secret, limit |-> limit,
     frames |-> frames]

\* At one rate: with the daemon's secret, with none and with another.  Another rate is asked
\* for, of a firmware that does not answer and of one that does.
MCSetups == {Setup(FALSE, FALSE, "same", TRUE, 2), Setup(FALSE, FALSE, "none", FALSE, 2),
             Setup(FALSE, FALSE, "other", FALSE, 2),
             Setup(TRUE, FALSE, "same", FALSE, 1), Setup(TRUE, TRUE, "same", FALSE, 1)}
============================================================================
