----------------------------- MODULE MCClientPool -----------------------------
(***************************************************************************)
(* Four threads that share at most three clients.                          *)
(***************************************************************************)
EXTENDS ClientPool, TLC

CONSTANTS T1, T2, T3, T4, C1, C2, C3

FourThreads == {T1, T2, T3, T4}

ThreeClients == {C1, C2, C3}

ZeroToTwo == 0 .. 2
OneOrTwo == 1 .. 2

=============================================================================
