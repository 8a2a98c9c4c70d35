---------------------------- MODULE MCWorkspace ----------------------------
(****************************************************************************)
(* Small instances of Workspace for TLC.                                    *)
(****************************************************************************)
EXTENDS Workspace

CONSTANTS p1, p2, empty, c1, c2

MCPath == {p1, p2}

\* Two files of one name in two directories.
MCStem == [p \in MCPath |-> "name"]

\* c2 is c1 with other newlines.
MCAsText == [c \in Content |-> IF c = c2 THEN c1 ELSE c]

MCPathSymmetry == Permutations(MCPath)

\* Begins with the other newlines in one file or more: the workspaces in which
\* reading and writing back make a difference.
NewlinesInit == Init /\ \E p \in Path : files[p] = c2
=============================================================================
