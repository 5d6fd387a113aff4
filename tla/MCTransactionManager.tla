------------------------ MODULE MCTransactionManager ------------------------
(***************************************************************************)
(* Small instances of TransactionManager for TLC.                          *)
(***************************************************************************)
EXTENDS TransactionManager, TLC

CONSTANTS t1, t2, t3, b1, b2

Limits    == {-1, 0, 1}
TwoLimits == {-1, 1}
NoLimit   == {-1}

\* Call-outs that may misbehave, by the handling they meet.
UndoFaults    == {<<"own", "Undo", "fail">>, <<"own", "Redo", "fail">>,
                  <<"will", "Undo", "fail">>, <<"will", "Redo", "fail">>}
VetoFaults    == {<<"will", "Undo", "veto">>}
DidUndoFaults == {<<"did", "Undo", "fail">>}
MergeFaults   == {<<"will", "Merge", "fail">>}
DoFaults      == {<<"own", "Do", "fail">>, <<"will", "Do", "veto">>}
AllFaults     == UndoFaults \cup VetoFaults \cup DidUndoFaults
                   \cup MergeFaults \cup DoFaults

\* A listener that fails WillMerge() makes the manager lose a transaction that
\* has been executed, and the redo stack with it: no history does that.
HistoryFaults == AllFaults \ MergeFaults

Symmetry == Permutations(Transaction)
=============================================================================
