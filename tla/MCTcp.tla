------------------------------- MODULE MCTcp -------------------------------
(* Instances of Tcp for TLC. *)
EXTENDS TcpTable, TLC

CONSTANTS a1, a2, b1      \* endpoints: a1 and a2 share an address

MCIpOf == [x \in {a1, a2, b1} |-> IF x = b1 THEN "b" ELSE "a"]

(* one or two connections; sequence numbers wrap within the first          *)
IssOne == <<2 * HALF - 2>>
IssTwo == <<2 * HALF - 2, 5>>

(* bound of the run with three clients: bytes are queued only once two     *)
(* connections of different hosts have been opened and taken note of, and  *)
(* no client leaves or comes after that; a slot may still be admitted,     *)
(* dropped or given up at any time                                         *)
LateBytes ==
  nput > 0 => /\ nsyn = Len(ISS) /\ \A i \in Slots : ~conns[i].just_estab
              /\ clients[b1].st = "estab"
              /\ {clients[a1].st, clients[a2].st} = {"closed", "estab"}

(* nothing but its name tells a1 from a2                                   *)
Alike == Permutations({a1, a2})
=============================================================================
