----------------------------- MODULE MCConsole -----------------------------
(* Instances of Console for TLC. *)
EXTENDS Console

CONSTANT Alphabet       \* the bytes clients send

OnePassword == <<"p">>

(* bursts of up to two bytes                                               *)
UpToTwo == UNION {[1..n -> Alphabet] : n \in 0..2}
=============================================================================
