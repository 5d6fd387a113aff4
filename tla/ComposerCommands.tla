-------------------------- MODULE ComposerCommands --------------------------
(***************************************************************************)
(* nsComposerCommandsUpdater listening to an editor: to its transaction    *)
(* manager, for the undo and redo commands, and to the document state that *)
(* the modification count stands for, for the save command                 *)
(* (mozilla/editor/composer/src).                                          *)
(*                                                                         *)
(* Every step of the editor is taken together with what its notifications  *)
(* make the updater do. Left out: the timer that updates the style         *)
(* commands after a change of selection.                                   *)
(***************************************************************************)
EXTENDS EditorTransactions

VARIABLES
  mFirstDoOfFirstUndo,
  mDirtyState,   \* mDocDirtyState of the editor and mDirtyState of the updater
  shown          \* the last reported status of the commands

updater == <<mFirstDoOfFirstUndo, mDirtyState, shown>>
cvars   == <<evars, updater>>

\* The commands' status when CommandStatusChanged() makes the user interface
\* ask for it: CanUndo(), CanRedo(), and whether there is something to save.
Status(u, r) == [undo |-> u # <<>>, redo |-> r # <<>>]

ComposerInit ==
  /\ Init
  /\ mFirstDoOfFirstUndo = TRUE
  /\ mDirtyState = FALSE
  /\ shown = Status(undo, redo)

\* NotifyDocumentListeners(): on a change from or to a modification count of
\* zero the listeners are told, and the updater updates the commands.
DirtyIgnored == FALSE                                               \* mutant
DirtyChanges == (mods = 0) # (mods' = 0)

Reports(update) ==
  /\ mDirtyState' = IF DirtyChanges THEN ~mDirtyState ELSE mDirtyState
  /\ shown' = IF update \/ DirtyChanges THEN Status(undo', redo') ELSE shown

\* DidDo(): only the first do that makes an undo possible is reported.
DidDo ==
  /\ mFirstDoOfFirstUndo' = (mFirstDoOfFirstUndo /\ Len(undo') # 1)
  /\ Reports(mFirstDoOfFirstUndo /\ Len(undo') = 1)

NoReset == mFirstDoOfFirstUndo                                      \* mutant
Reset   == mFirstDoOfFirstUndo \/ undo' = <<>>

\* DidUndo(), once the item is on the redo stack.
DidUndo ==
  /\ mFirstDoOfFirstUndo' = Reset
  /\ Reports(TRUE)

\* DidRedo(); DidUndo() for the children before it, the item still to be moved.
DidRedo ==
  /\ mFirstDoOfFirstUndo' =
       (mFirstDoOfFirstUndo \/ (Last(redo) \in Batch /\ undo = <<>>))
  /\ Reports(TRUE)

Unheard == UNCHANGED mFirstDoOfFirstUndo /\ Reports(FALSE)

ComposerNext ==
  \/ (\E p \in Placeholder : StartPlaceholder(p)) /\ DidDo
  \/ (\E e \in Edit : DoTransaction(e)) /\ DidDo
  \/ (\E n \in Name : BeginPlaceHolderTransaction(n)) /\ Unheard
  \/ EndPlaceHolderTransaction /\ Unheard
  \/ (\E b \in Batch : BeginTransaction(b)) /\ Unheard
  \/ EndTransaction /\ Unheard
  \/ Undo /\ DidUndo
  \/ Redo /\ DidRedo
  \/ EndComposition /\ Unheard
  \/ (\E s \in Caret \cup Span : SetSelection(s)) /\ Unheard
  \/ (\E aEnable \in MayDisable : EnableUndo(aEnable)) /\ Unheard
  \/ ResetModificationCount /\ Unheard

ComposerSpec == ComposerInit /\ [][ComposerNext]_cvars

-----------------------------------------------------------------------------
(* Properties.                                                             *)

\* "Only need to update if the status of the Undo menu item changes": whenever
\* the editor is idle the undo command shows whether there is something to undo.
UndoCommandShown == depth = 0 /\ open = <<>> => shown.undo = (undo # <<>>)

\* The save command is disabled only for a document that is the saved one, as
\* long as nothing is undone that was there when it was saved.
SaveCommandShown == ~mDirtyState /\ saved \subseteq doc => doc = saved
=============================================================================
