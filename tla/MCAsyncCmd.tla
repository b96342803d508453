----------------------------- MODULE MCAsyncCmd -----------------------------
(* AsyncCmd on a small instance.                                           *)
EXTENDS AsyncCmd

CONSTANTS c1, c2, c3

MCCmd == {c1, c2, c3}
MCFirst == <<c1, c2>>
MCRequest == <<1, 1>>

=============================================================================
