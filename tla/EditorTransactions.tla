------------------------- MODULE EditorTransactions -------------------------
(***************************************************************************)
(* nsEditor's use of the transaction manager: placeholder batches, which   *)
(* gather the transactions of one operation in a PlaceholderTxn that later *)
(* typing may reopen, manager batches around them, undo and redo with the  *)
(* selections they restore, and the modification count                     *)
(* (mozilla/editor/libeditor/base).                                        *)
(*                                                                         *)
(* The editor runs on one thread and no call-out fails, so a call of the   *)
(* manager is one step; what a failing one does is TransactionManager's    *)
(* subject, and the manager's own state is UndoHistory's. What a leaf      *)
(* transaction does is abstracted to its membership in `doc'. Left out:    *)
(* the merging of successive IMETextTxns inside a placeholder and of       *)
(* InsertTextTxns outside, and mForwarding, whose placeholder is released  *)
(* as soon as it has been set.                                             *)
(***************************************************************************)
EXTENDS Integers, Sequences, FiniteSets, SequencesExt

CONSTANTS
  Edit,         \* leaf transactions: text inserted, a node deleted, ...
  Placeholder,  \* PlaceholderTxn objects
  Batch,        \* the manager's dummy items of BeginTransaction()
  Caret,        \* collapsed selections
  Span,         \* other selections
  NoRange,      \* the selection with no range, and an empty nsSelectionState
  Name,         \* transaction names
  NoName,       \* the null one
  Mergeable,    \* gTypingTxnName, gIMETxnName, gDeleteTxnName
  NoTxn,        \* a null mPlaceHolderTxn
  MayDisable,   \* arguments of EnableUndo()
  MaxNesting,   \* bound on nested placeholder batches
  MaxMods       \* bound on the modification count

Item      == Edit \cup Placeholder \cup Batch
Selection == Caret \cup Span \cup {NoRange}

ASSUME EditorAssumption ==
  /\ Edit \cap Placeholder = {} /\ Edit \cap Batch = {} /\ Placeholder \cap Batch = {}
  /\ NoTxn \notin Item /\ NoRange \notin Caret \cup Span /\ Caret \cap Span = {}
  /\ NoName \in Name \ Mergeable /\ Mergeable \subseteq Name /\ MayDisable \subseteq BOOLEAN
  /\ MaxNesting \in Nat /\ MaxMods \in Nat

VARIABLES
  limit, open, undo, redo, parts,    \* the transaction manager's, see UndoHistory
  depth,       \* mPlaceHolderBatch
  current,     \* mPlaceHolderTxn
  name,        \* mPlaceHolderName
  selState,    \* mSelState: the selection when the outermost batch began
  starting,    \* DoTransaction() has made the placeholder it needs first
  plc,         \* each placeholder's own state
  selection,   \* the editor's selection
  doc,         \* the edits in effect in the document
  mods,        \* mModCount
  saved,       \* doc when the modification count was last reset
  before,      \* doc when the outermost placeholder batch began
  holder,      \* the placeholder that holds the batch's edits
  began,       \* for each placeholder, <<doc, selection>> at its first batch's beginning
  ended        \* for each placeholder, the selection at its last batch's end

manager == <<limit, open, undo, redo, parts>>
batch   == <<depth, current, name, selState, starting>>
ghosts  == <<saved, before, holder, began, ended>>
evars   == <<manager, batch, plc, selection, doc, mods, ghosts>>

Mgr == INSTANCE UndoHistory WITH
  Group <- Batch, Passing <- {}, Joining <- Placeholder, Limits <- {-1, 0}

-----------------------------------------------------------------------------
(* PlaceholderTxn.                                                         *)

NewPlaceholder ==
  [name |-> name, absorb |-> TRUE, committed |-> FALSE,
   start |-> selState, end |-> NoRange, kids |-> <<>>]

\* Merge(): an open placeholder takes everything in. One whose batch is over
\* is reopened by a placeholder of its own name that begins where it ended,
\* and of which nothing else is kept.
Reopens(q, r) ==
  /\ q.name \in Mergeable /\ ~q.committed
  /\ r.name = q.name
  /\ r.start \in Caret /\ r.start = q.end

Takes(q, x, r) == q.absorb \/ (x \in Placeholder /\ Reopens(q, r))
MergeKeeping(q, x) ==                                               \* mutant
  IF ~q.absorb THEN [q EXCEPT !.absorb = TRUE, !.end = selection, !.kids = Append(@, x)]
  ELSE IF x \in Edit THEN [q EXCEPT !.kids = Append(@, x)] ELSE q
Merge(q, x) ==
  IF ~q.absorb THEN [q EXCEPT !.absorb = TRUE, !.end = selection]
  ELSE IF x \in Edit THEN [q EXCEPT !.kids = Append(@, x)] ELSE q

\* EndPlaceHolderBatch().
BatchEndUntold(q) == [q EXCEPT !.absorb = FALSE]                    \* mutant
BatchEnd(q) == [q EXCEPT !.absorb = FALSE, !.end = selection]

Commit(q) == [q EXCEPT !.committed = TRUE]

\* The placeholder that PeekUndoStack() finds on a stack, if one is there.
TopPlaceholder(stack) ==
  IF stack # <<>> /\ Last(stack) \in Placeholder THEN {Last(stack)} ELSE {}

\* An item and what it is made of, the least set that holds it and the parts of
\* what it holds; the edits among them.
Within(x) ==
  {y \in Item : \A C \in SUBSET Item :
                 x \in C /\ (\A z \in C : ToSet(parts[z]) \subseteq C) => y \in C}
Content(x) ==
  (Within(x) \cap Edit) \cup UNION {ToSet(plc[p].kids) : p \in Within(x) \cap Placeholder}

FreshEdit(e) == e \notin doc \cup saved \cup Mgr!Held
                         \cup UNION {ToSet(plc[p].kids) : p \in Placeholder}
FreshPlaceholder(p) == p \notin Mgr!Held

-----------------------------------------------------------------------------
Init ==
  /\ Mgr!Start
  /\ depth = 0 /\ current = NoTxn /\ name = NoName /\ selState = NoRange
  /\ starting = FALSE
  /\ selection \in Caret
  /\ plc = [p \in Placeholder |-> NewPlaceholder]
  /\ doc = {} /\ mods = 0
  /\ saved = {} /\ before = {} /\ holder = NoTxn
  /\ began = [p \in Placeholder |-> <<{}, NoRange>>]
  /\ ended = [p \in Placeholder |-> NoRange]

\* The manager has executed x: it is dropped, becomes part of the open batch,
\* is merged into the top of the undo stack or pushed on it. The table of
\* placeholders was t.
Record(x, t) ==
  \/ /\ limit = 0
     /\ plc' = t /\ UNCHANGED <<undo, redo, parts>>
  \/ /\ limit # 0 /\ open # <<>>
     /\ parts' = [parts EXCEPT ![Last(open)] = Append(@, x)]
     /\ plc' = t /\ UNCHANGED <<undo, redo>>
  \/ /\ limit # 0 /\ open = <<>>
     /\ redo' = <<>>
     /\ LET takers == {q \in TopPlaceholder(undo) :
                         Takes(t[q], x, IF x \in Placeholder THEN t[x] ELSE t[q])}
        IN  IF takers = {}
            THEN undo' = Append(undo, x) /\ plc' = t
            ELSE undo' = undo /\ plc' = [q \in Placeholder |->
                                   IF q \in takers THEN Merge(t[q], x) ELSE t[q]]
     /\ UNCHANGED parts

\* DoAfterDoTransaction(); no transaction here is transient.
Uncounted == mods                                                   \* mutant
Counted   == mods + 1

\* DoTransaction() in a placeholder batch that has no placeholder yet makes
\* one, executes it, and then remembers the one on top of the undo stack.
StartPlaceholder(p) ==
  /\ depth > 0 /\ current = NoTxn /\ mods + 1 < MaxMods
  /\ FreshPlaceholder(p) /\ \E e \in Edit : FreshEdit(e)
  /\ Record(p, [plc EXCEPT ![p] = NewPlaceholder])
  /\ current' = IF TopPlaceholder(undo') = {} THEN p ELSE Last(undo')
  /\ selState' = NoRange
  /\ starting' = TRUE
  /\ mods' = Counted
  /\ holder' = IF open = <<>> /\ undo' = undo /\ limit # 0 THEN Last(undo) ELSE p
  /\ began' = [began EXCEPT ![p] = <<before, selState>>]
  /\ ended' = [ended EXCEPT ![p] = NoRange]
  /\ UNCHANGED <<limit, open, depth, name, selection, doc, saved, before>>

\* The transaction itself is executed; it may move the caret.
DoTransaction(e) ==
  /\ depth > 0 => current # NoTxn
  /\ mods < MaxMods /\ FreshEdit(e)
  /\ Record(e, plc)
  /\ doc' = doc \cup {e}
  /\ selection' \in Caret \cup {selection}
  /\ starting' = FALSE
  /\ mods' = Counted
  /\ UNCHANGED <<limit, open, depth, current, name, selState, ghosts>>

BeginPlaceHolderTransaction(n) ==
  /\ ~starting /\ depth < MaxNesting
  /\ depth' = depth + 1
  /\ IF depth = 0
     THEN /\ current' = NoTxn /\ name' = n /\ selState' = selection
          /\ before' = doc /\ holder' = NoTxn
     ELSE UNCHANGED <<current, name, selState, before, holder>>
  /\ UNCHANGED <<manager, starting, plc, selection, doc, mods, saved, began, ended>>

AnyEnd == TRUE                                                      \* mutant
OutermostEnd == depth = 1
EndPlaceHolderTransaction ==
  /\ ~starting /\ depth > 0
  /\ depth' = depth - 1
  /\ selState' = IF OutermostEnd THEN NoRange ELSE selState
  /\ plc' = IF OutermostEnd /\ current # NoTxn
            THEN [plc EXCEPT ![current] = BatchEnd(@)] ELSE plc
  /\ ended' = IF depth = 1 /\ holder # NoTxn
              THEN [ended EXCEPT ![holder] = selection] ELSE ended
  /\ before' = IF depth = 1 THEN {} ELSE before
  /\ holder' = IF depth = 1 THEN NoTxn ELSE holder
  /\ UNCHANGED <<manager, current, name, starting, selection, doc, mods, saved, began>>

\* Callers begin a manager batch around placeholder batches, never inside one.
BeginTransaction(b) ==
  /\ depth = 0
  /\ Mgr!Begin(b)
  /\ UNCHANGED <<batch, plc, selection, doc, mods, ghosts>>

EndTransaction ==
  /\ depth = 0 /\ open # <<>>
  /\ IF parts[Last(open)] = <<>> \/ limit = 0 THEN Mgr!EndUnrecorded
     ELSE Mgr!EndInside \/ Mgr!EndOutside
  /\ UNCHANGED <<batch, plc, selection, doc, mods, ghosts>>

\* The selection after an item's parts have been undone or redone: the one a
\* placeholder restores; otherwise a part's, or the caret where an edit left it.
SelectionsAfter(x, sel) ==
  IF x \in Placeholder THEN {sel[x]}
  ELSE {sel[p] : p \in Within(x) \cap Placeholder} \cup Caret \cup {selection}
StartSel == [p \in Placeholder |-> plc[p].start]
EndSel   == [p \in Placeholder |-> plc[p].end]

\* A composition that is still going on is ended first, which commits the
\* placeholder on top of the undo stack.
Committing == {plc} \cup {[plc EXCEPT ![p] = Commit(@)] : p \in TopPlaceholder(undo)}

UndoWrongEnd(x) == SelectionsAfter(x, EndSel)                       \* mutant
UndoneSelections(x) == SelectionsAfter(x, StartSel)
Undo ==
  /\ depth = 0 /\ -mods < MaxMods
  /\ Mgr!Undo
  /\ plc' \in Committing
  /\ doc' = doc \ Content(Last(undo))
  /\ selection' \in UndoneSelections(Last(undo))
  /\ mods' = mods - 1
  /\ UNCHANGED <<batch, ghosts>>

Redo ==
  /\ depth = 0 /\ mods < MaxMods
  /\ Mgr!Redo
  /\ doc' = doc \cup Content(Last(redo))
  /\ selection' \in SelectionsAfter(Last(redo), EndSel)
  /\ mods' = mods + 1
  /\ UNCHANGED <<batch, plc, ghosts>>

EndComposition ==
  /\ ~starting
  /\ plc' \in Committing
  /\ UNCHANGED <<manager, batch, selection, doc, mods, ghosts>>

\* The user, a script or the editing rules move the selection.
SetSelection(s) ==
  /\ ~starting
  /\ selection' = s
  /\ UNCHANGED <<manager, batch, plc, doc, mods, ghosts>>

\* Disabling clears the stacks, but the limit stays while a batch is open.
EnableUndo(aEnable) ==
  /\ depth = 0
  /\ limit' = IF open # <<>> THEN limit ELSE IF aEnable THEN -1 ELSE 0
  /\ undo' = IF aEnable THEN undo ELSE <<>>
  /\ redo' = IF aEnable THEN redo ELSE <<>>
  /\ UNCHANGED <<open, parts, batch, plc, selection, doc, mods, ghosts>>

\* The document has been saved.
ResetModificationCount ==
  /\ depth = 0 /\ open = <<>>
  /\ mods' = 0 /\ saved' = doc
  /\ UNCHANGED <<manager, batch, plc, selection, doc, before, holder, began, ended>>

EditorNext ==
  \/ \E p \in Placeholder : StartPlaceholder(p)
  \/ \E e \in Edit : DoTransaction(e)
  \/ \E n \in Name : BeginPlaceHolderTransaction(n)
  \/ EndPlaceHolderTransaction
  \/ \E b \in Batch : BeginTransaction(b)
  \/ EndTransaction
  \/ Undo
  \/ Redo
  \/ EndComposition
  \/ \E s \in Caret \cup Span : SetSelection(s)
  \/ \E aEnable \in MayDisable : EnableUndo(aEnable)
  \/ ResetModificationCount

EditorSpec == Init /\ [][EditorNext]_evars
-----------------------------------------------------------------------------
(* Properties.                                                             *)

\* Every variable has its type; only an outermost batch still to execute its
\* first transaction holds a saved selection.
PlaceholderState ==
  [name : Name, absorb : BOOLEAN, committed : BOOLEAN,
   start : Selection, end : Selection, kids : Seq(Edit)]
EditorTypeOK ==
  /\ limit \in {-1, 0} /\ parts \in [Item -> Seq(Item)]
  /\ open \in Seq(Batch) /\ undo \in Seq(Item) /\ redo \in Seq(Item)
  /\ depth \in 0..MaxNesting /\ current \in Placeholder \cup {NoTxn}
  /\ name \in Name /\ selState \in Selection
  /\ selState # NoRange => depth > 0 /\ current = NoTxn
  /\ starting \in BOOLEAN /\ (starting => depth > 0)
  /\ plc \in [Placeholder -> PlaceholderState]
  /\ selection \in Selection /\ doc \subseteq Edit /\ mods \in Int

\* Undoing an operation gives back the document and the selection of the moment
\* its first placeholder batch began, however many batches it has taken in.
UndoRestoresOperation ==
  [][\A p \in TopPlaceholder(undo) :
       redo' = Append(redo, p) => <<doc', selection'>> = began[p]]_evars

\* Redoing it gives back the selection of the moment its last batch ended: the
\* placeholder was told of that end, and of no other.
RedoRestoresSelection ==
  [][\A p \in TopPlaceholder(redo) : undo' = Append(undo, p) => selection' = ended[p]]_evars

\* A placeholder transaction is there "to wrap up any further transaction while
\* the batch is open": the newest undo entry holds all that the batch has done.
BatchIsOneEntry ==
  depth > 0 /\ open = <<>> /\ limit # 0 /\ doc # before =>
    undo # <<>> /\ doc \ before \subseteq Content(Last(undo))

\* The placeholder that DoTransaction() remembers is "either the one we just
\* created, or an earlier one that we are now merging into".
RemembersOwnPlaceholder == depth > 0 /\ current # NoTxn => current = holder

\* Of the modification count, "zero means unchanged": the document is the saved
\* one.
CleanMeansSaved == mods = 0 => doc = saved

\* And so it is as long as nothing is undone that was there when it was saved.
CleanWhileAhead == saved \subseteq doc => CleanMeansSaved
=============================================================================
