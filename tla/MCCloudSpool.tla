---------------------------- MODULE MCCloudSpool ----------------------------
(* A small instance of CloudSpool for TLC.                                   *)
EXTENDS CloudSpool

CONSTANTS t1, t2

MCTask == {t1, t2}
MCLeftovers == {<<>>, <<1, Bad>>, <<1, 2, 3>>}
============================================================================
