----------------------- MODULE MCComposerCommands -----------------------
(***************************************************************************)
(* Small instances of ComposerCommands for TLC.                          *)
(***************************************************************************)
EXTENDS ComposerCommands, TLC

CONSTANTS e1, e2, e3, p1, p2, p3, b1, c1, c2, s1

Symmetry == Permutations(Edit) \cup Permutations(Placeholder) \cup Permutations(Caret)
=============================================================================
