----------------------------- MODULE MCRequests -----------------------------
(* A small instance of Requests for TLC: up to three calls.                         *)
EXTENDS Requests

CONSTANTS k1, k2

Ipc(k)   == [origin |-> "ipc", corr |-> k]
Cloud(k) == [origin |-> "cloud", corr |-> k]

\* The same correlation data twice, and requests of the cloud, which come one by one.
MCSetups == {<<Ipc(k1), Ipc(k1)>>, <<Ipc(k1), Cloud(k1), Cloud(k2)>>,
             <<Cloud(k1), Ipc(None)>>}
============================================================================
