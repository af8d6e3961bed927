---------------------------- MODULE MCRefresher ----------------------------
(* Small instances of Refresher for TLC. *)
EXTENDS Refresher

CONSTANTS a, b, c, local, near, far, n1

A == [publicKey |-> a, ip |-> near]
B == [publicKey |-> b, ip |-> near]
C == [publicKey |-> c, ip |-> far]

ThreeArchivers == {A, B, C}
SeedA == <<A>>
\* Archivers may disagree on who is active.
Disagreeing == {<<B, A>>, <<C>>}
OneNodeList == {<<n1>>}
Nobody == {}
OnlyA == {a}
OnlyB == {b}
=============================================================================
