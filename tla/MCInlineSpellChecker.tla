----------------------- MODULE MCInlineSpellChecker -----------------------
(* A small instance of InlineSpellChecker for TLC.                         *)
EXTENDS InlineSpellChecker

\* One limit that is soon reached and one that never is.
Limits == {2, 8}
=============================================================================
