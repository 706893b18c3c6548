------------------------- MODULE MCSerialTransport -------------------------
(* A small instance of SerialTransport for TLC.                             *)
EXTENDS SerialTransport

CONSTANTS t1, b1, b2

MCTask == {t1}
MCBuffer == {b1, b2}
MCLarge == {b2}
============================================================================
