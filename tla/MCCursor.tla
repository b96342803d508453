------------------------------- MODULE MCCursor -------------------------------
(***************************************************************************)
(* Cursor for the model checker.                                           *)
(***************************************************************************)
EXTENDS Cursor

CONSTANTS c1, c2

Two == {c1, c2}

Asks(kind, limit, size) ==
    [kind |-> kind, limit |-> limit, batchSize |-> size, tailable |-> FALSE]
Tailable(kind, limit, size) == [Asks(kind, limit, size) EXCEPT !.tailable = TRUE]

\* Every kind of query, with limits that end with a batch, in one and without any.
Various ==
    {Asks("query", 0, 2), Asks("query", 2, 1), Asks("query", -2, 0), Asks("exhaust", 0, 2),
     Asks("find", 2, 0), Asks("aggregate", 0, 0), Tailable("query", 0, 0),
     Tailable("find", 2, 1)}

ThreeAndOne == c1 :> 3 @@ c2 :> 1

\* Each beside a cursor in exhaust.
BesideExhaust == {c1 :> q @@ c2 :> Asks("exhaust", 0, 2) : q \in Various}
===============================================================================
