--------------------------- MODULE MCBulkOperation ---------------------------
(***************************************************************************)
(* Instances of BulkOperation.  A document may have the size 2, a command  *)
(* 3 and a message 4, so that inserts of size 2 go one by one in commands  *)
(* and two by two in messages, the smaller operations two by two, and an   *)
(* insert of size 4 nowhere.                                               *)
(***************************************************************************)
EXTENDS BulkOperation

Op(t, s) == [type |-> t, size |-> s, collation |-> FALSE, upsert |-> FALSE]

\* What is split into batches or fits in none, next to other types of command, one of
\* which needs a server that knows collations.
Mixed == {Op("insert", 2), Op("insert", 4), [Op("update", 1) EXCEPT !.upsert = TRUE],
          Op("delete", 1), [Op("update", 1) EXCEPT !.collation = TRUE]}

Plain == {o \in Mixed : ~o.collation}
=============================================================================
