----------------------------- MODULE MC_RoomOps -----------------------------
(* Room operations over two accounts, one room, one participant object,   *)
(* a negative and a zero fee, empty and one-character keys, and names of  *)
(* 0, 1, 128, 129, 256 and 257 characters, all one-byte (ASCII) or all    *)
(* two-byte (e.g. Cyrillic or accented Latin) characters: the lengths on  *)
(* both sides of the 256 limit, counted in characters and in bytes.       *)
EXTENDS RoomOps

CONSTANTS a1, a2, r1, p1

MCAccounts == {a1, a2}
MCRooms == {r1}
MCParticipants == {p1}
MCAmounts == {-1, 0}
MCNames == {[i \in 1 .. n |-> w] : n \in {0, 1, 128, 129, 256, 257}, w \in {1, 2}}
MCKeys == {<<>>, <<1>>}

=============================================================================
