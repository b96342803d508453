----------------------------- MODULE MCCommands -----------------------------
(* Servers of five generations, handles with every concern, and options that *)
(* are given alone or meet each other.                                       *)
EXTENDS Commands

CONSTANTS n1, n2

MCWire == {0, 2, 3, 4, 5}
MCName == {n1, n2}
MCMaxUsers == 2

MCSettings ==
    {[client |-> c, secondary |-> c = "default", handle |-> h, readConcern |-> h = "own",
      mongos |-> c = "own"] :
        c \in Concern, h \in Concern}

MCOptions ==
    {{}, {"writeConcern"}, {"writeConcern", "document"}, {"document"}, {"readConcern"},
     {"collation", "readConcern"}, {"writeConcern", "serverId"}, {"invalid"}}

=============================================================================
