------------------------------ MODULE ResultSet ------------------------------
(***************************************************************************)
(* What a cursor promises: the documents of its query, each once and in    *)
(* the order the server has them, until there are no more or an error is   *)
(* reported.  It says nothing of batches, requests or connections.         *)
(***************************************************************************)
EXTENDS Integers, Sequences

CONSTANTS
    Cursor,     \* the cursors
    Query       \* what they ask for

VARIABLES
    query,      \* the query of each cursor
    docs,       \* how many documents match it, which are numbered from 1
    given,      \* those the cursor has returned, in order
    end         \* whether it has said that there are no more, or failed

vars == <<query, docs, given, end>>

Init ==
    /\ query \in [Cursor -> Query]
    /\ docs \in [Cursor -> Nat]
    /\ given = [c \in Cursor |-> <<>>]
    /\ end = [c \in Cursor |-> "none"]

Magnitude(n) == IF n < 0 THEN -n ELSE n

\* How many documents the application is to get.
Wanted(c) ==
    LET limit == Magnitude(query[c].limit)
    IN IF limit = 0 \/ docs[c] < limit THEN docs[c] ELSE limit

\* The next document.
Give(c) ==
    /\ end[c] = "none"
    /\ Len(given[c]) < Wanted(c)
    /\ given' = [given EXCEPT ![c] = Append(@, Len(@) + 1)]
    /\ UNCHANGED <<query, docs, end>>

\* The application is told that there are no more, when it has had them all or asked
\* for a single batch.  Of a tailable cursor nobody can say so.
NoMore(c) ==
    /\ end[c] = "none"
    /\ ~query[c].tailable
    /\ Len(given[c]) = Wanted(c) \/ query[c].limit < 0
    /\ end' = [end EXCEPT ![c] = "noMore"]
    /\ UNCHANGED <<query, docs, given>>

Fail(c) ==
    /\ end' = [end EXCEPT ![c] = "failed"]
    /\ UNCHANGED <<query, docs, given>>

\* Somebody inserts a document that a tailable cursor will see.
Insert(c) ==
    /\ query[c].tailable
    /\ docs' = [docs EXCEPT ![c] = @ + 1]
    /\ UNCHANGED <<query, given, end>>

Next == \E c \in Cursor : Give(c) \/ NoMore(c) \/ Fail(c) \/ Insert(c)

Spec == Init /\ [][Next]_vars
=============================================================================
