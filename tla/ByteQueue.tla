----------------------------- MODULE ByteQueue -----------------------------
(***************************************************************************)
(* What a Buffer promises its users, without indices, capacity or moves:    *)
(* bytes come out in the order they went in, each once, and unaltered.      *)
(***************************************************************************)
EXTENDS Naturals, Sequences

CONSTANT Bytes

VARIABLES content,      \* the bytes put and not yet taken
          call,         \* the last call: its kind, and the bytes it was given
                        \* or the number of bytes it asked for
          taken         \* the string the last call handed out

vars == <<content, call, taken>>

Init == content = <<>> /\ call.op = "none" /\ taken = <<>>

\* The bytes given, all of them and no others, come behind those waiting
Put == /\ call'.op = "put" /\ call'.data \in Seq(Bytes)
       /\ content' = content \o call'.data
       /\ taken' = <<>>

Rest(n) == SubSeq(content, n + 1, Len(content))

\* As many bytes as were asked for go, the oldest first
Drop == /\ call'.op = "drop" /\ call'.len \in 0..Len(content)
        /\ content' = Rest(call'.len)
        /\ taken' = <<>>

Take == /\ call'.op = "take" /\ call'.len \in 0..Len(content)
        /\ content' = Rest(call'.len)
        /\ taken' = SubSeq(content, 1, call'.len)

Next == Put \/ Drop \/ Take

Spec == Init /\ [][Next]_vars
=============================================================================
