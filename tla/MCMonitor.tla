------------------------------ MODULE MCMonitor ------------------------------
(***************************************************************************)
(* Monitor for the model checker: a seed, a server that replies may add,   *)
(* and two threads, of which one only waits for servers.                   *)
(***************************************************************************)
EXTENDS Monitor

CONSTANTS s1, s2, t1, t2

Servers == {s1, s2}
OneSeed == {s1}
Threads == {t1, t2}
OneConnects == {t1}
==============================================================================
