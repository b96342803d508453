------------------------------ MODULE ByteFile ------------------------------
(***************************************************************************)
(* What an open GridFS file promises its caller: a sequence of bytes with  *)
(* a position, that is read, written and saved.  GridFSFile implements it. *)
(***************************************************************************)
EXTENDS Integers, Sequences

CONSTANT ChunkSize

VARIABLES
    bytes,      \* the contents
    at,         \* the position
    todo,       \* what is still to be written
    got,        \* what the call under way has read
    safe,       \* everything that was written is saved
    broken      \* a failure was kept from the caller: nothing is promised any more

Init ==
    /\ bytes = <<>> /\ at = 0 /\ todo = <<>> /\ got = <<>>
    /\ safe \in BOOLEAN /\ broken = FALSE

\* A gap between the end and the position reads as zeros.
Extended(length) == [i \in 1 .. length |-> IF i <= Len(bytes) THEN bytes[i] ELSE 0]

BeginWrite ==
    /\ todo = <<>> /\ todo' \in Seq(Nat)
    /\ safe' = FALSE /\ got' = <<>>
    /\ UNCHANGED <<bytes, at>>

Extend ==
    /\ todo # <<>> /\ at > Len(bytes)
    /\ bytes' = Extended(at)
    /\ UNCHANGED <<at, todo, got, safe>>

\* Writes take effect in parts, in the order of the bytes.
Write ==
    /\ todo # <<>> /\ at <= Len(bytes)
    /\ \E m \in 1 .. Len(todo) :
          /\ at' = at + m
          /\ bytes' = SubSeq(bytes, 1, at) \o SubSeq(todo, 1, m) \o SubSeq(bytes, at + m + 1, Len(bytes))
          /\ todo' = SubSeq(todo, m + 1, Len(todo))
    /\ safe' = FALSE
    /\ UNCHANGED got

Read ==
    /\ \E m \in 1 .. Len(bytes) - at :
          /\ at' = at + m
          /\ got' = got \o SubSeq(bytes, at + 1, at + m)
    /\ UNCHANGED <<bytes, todo, safe>>

EndRead == got' = <<>> /\ UNCHANGED <<bytes, at, todo, safe>>

\* The weak point: what was written to a chunk, and is not saved, may be forgotten.
Forgets ==
    /\ ~safe /\ todo = <<>>
    /\ Len(bytes') = Len(bytes)
    /\ \E k \in 0 .. Len(bytes) \div ChunkSize :
          \A i \in 1 .. Len(bytes) : (i - 1) \div ChunkSize # k => bytes'[i] = bytes[i]

Forget == Forgets /\ UNCHANGED <<at, todo, got, safe>>

Seek == at' \in Nat /\ got' = <<>> /\ UNCHANGED <<bytes, todo, safe>>

\* Saving happens on request, and may happen at other times.
Save == todo = <<>> /\ safe' = TRUE /\ got' = <<>> /\ UNCHANGED <<bytes, at, todo>>

SeekAndSave == at' \in Nat /\ safe' = TRUE /\ got' = <<>> /\ UNCHANGED <<bytes, todo>>

\* A call fails, in a place that the caller is not told.
Fail ==
    /\ at' \in Nat /\ todo' = <<>>
    /\ UNCHANGED bytes \/ Forgets
    /\ got' = <<>>

\* The file, once saved, is closed and opened again.
Reopen ==
    /\ safe /\ bytes' = bytes
    /\ at' = 0 /\ got' = <<>> /\ todo' = <<>> /\ safe' = TRUE

Normal ==
    \/ BeginWrite \/ Extend \/ Write \/ Read \/ EndRead \/ Forget
    \/ Seek \/ Save \/ SeekAndSave \/ Fail \/ Reopen

Next == broken' \/ (~broken /\ ~broken' /\ Normal)

vars == <<bytes, at, todo, got, safe, broken>>

Spec == Init /\ [][Next]_vars

=============================================================================
