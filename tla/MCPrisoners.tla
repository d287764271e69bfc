------------------------------ MODULE MCPrisoners ------------------------------
(* Which threads of Prisoners cannot be created. *)
EXTENDS Prisoners

NoneFails == {}

\* The first round may set nobody's flag but prisoner 0's, the second leave two
\* threads behind, of which prisoner 1's uses drawer locks, and the third set her
\* flag; the last may be abandoned as well.
SomeFail == {<<1, 0>>, <<2, 1>>, <<2, 2>>, <<4, 1>>}

================================================================================
