-------------------------- MODULE MCNodeSelection --------------------------
(* Small instances of NodeSelection for TLC. *)
EXTENDS NodeSelection, TLC

CONSTANTS t1, t2, n1, n2, n3

OneTask == {t1}
TwoTasks == {t1, t2}
TwoNodes == {n1, n2}
ThreeNodes == {n1, n2, n3}

\* A refresh may shrink the list, grow it back, or repeat it.
Shrinking == {<<n1, n2>>, <<n2>>}
OneNode == {<<n1>>}
EitherNode == {<<n1>>, <<n2>>}
TwoList == {<<n1, n2>>}
ThreeList == {<<n1, n2, n3>>, <<n3, n1>>}

\* Tasks are interchangeable: no definition names one.
TaskSymmetry == Permutations(Task)
=============================================================================
