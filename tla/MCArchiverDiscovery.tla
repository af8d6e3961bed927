------------------------ MODULE MCArchiverDiscovery ------------------------
(* Small instances of ArchiverDiscovery for TLC. *)
EXTENDS ArchiverDiscovery

CONSTANTS a, b, c, local, near, far

A == [publicKey |-> a, ip |-> near]
B == [publicKey |-> b, ip |-> near]
C == [publicKey |-> c, ip |-> far]

ThreeArchivers == {A, B, C}
SeedA == <<A>>
\* Archivers may disagree on who is active, and repeat one another.
Disagreeing == {<<B, A>>, <<C>>}
=============================================================================
