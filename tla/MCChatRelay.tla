---------------------------- MODULE MCChatRelay ----------------------------
(* Small instances of ChatRelay for TLC. *)
EXTENDS ChatRelay, TLC

CONSTANTS c1, s1, s2, r1, x1

OneConn == {c1}
TwoSubs == {s1, s2}
OneRoom == {r1}
NoRoom == {}
ChatAndOther == {r1, x1}
Other == {x1}
OneRound == {1}
TwoRounds == {1, 2}

\* Ids and connections are interchangeable: no definition names one.
SubSymmetry == Permutations(SubId) \cup Permutations(Conn)
=============================================================================
