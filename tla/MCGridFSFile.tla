---------------------------- MODULE MCGridFSFile ----------------------------
(* GridFSFile on a small instance.                                         *)
EXTENDS GridFSFile

MCReads == {<<4, 3>>}

MCWrites == {<<1>>, <<2, 1, 2>>}

=============================================================================
