---------------------------- MODULE EditorProof ----------------------------
(***************************************************************************)
(* The editor's transactions and the commands that follow them: type       *)
(* correctness for any nesting, what the commands show, what undo and redo *)
(* give back, and when the document is the saved one.                      *)
(***************************************************************************)
EXTENDS ComposerCommands, SequenceTheorems, TLAPS

-----------------------------------------------------------------------------
(* Sequences, and the manager's operators.                                 *)

\* The part of a sequence between two positions, possibly empty.
LEMMA SubSeqOp ==
  ASSUME NEW S, NEW s \in Seq(S), NEW m \in 1..Len(s)+1, NEW n \in (m-1)..Len(s)
  PROVE  SubSeq(s, m, n) \in Seq(S) /\ Len(SubSeq(s, m, n)) = n - m + 1
  OBVIOUS

\* The last element and the others.
LEMMA FrontOp ==
  ASSUME NEW S, NEW s \in Seq(S), s # <<>>
  PROVE  Last(s) \in S /\ Front(s) \in Seq(S) /\ Len(Front(s)) = Len(s) - 1
<1>1. Len(s) \in Nat /\ Len(s) # 0
  BY EmptySeq
<1>2. Last(s) \in S
  BY <1>1, ElementOfSeq DEF Last
<1>3. 1 \in 1..Len(s)+1 /\ Len(s) - 1 \in (1 - 1)..Len(s)
  BY <1>1
<1>4. Front(s) \in Seq(S) /\ Len(Front(s)) = Len(s) - 1 - 1 + 1
  BY <1>3, SubSeqOp DEF Front
<1>. QED  BY <1>1, <1>2, <1>4

\* The manager takes sequences apart in the same way.
LEMMA SameOperators ==
  /\ \A s : Mgr!Front(s) = Front(s) /\ Mgr!Last(s) = Last(s) /\ Mgr!ToSet(s) = ToSet(s)
  /\ \A s, n : Mgr!Latest(s, n) = SubSeq(s, Len(s) - n + 1, Len(s))
  BY DEF Mgr!Front, Mgr!Last, Mgr!ToSet, Mgr!Latest, Front, Last, ToSet

\* The elements of a sequence over S are in S.
LEMMA ElementsOp ==
  ASSUME NEW S, NEW s \in Seq(S)
  PROVE  ToSet(s) \subseteq S
  BY DEF ToSet

\* A new placeholder, one that merges, that is told of the end of its batch, or
\* that is committed is a placeholder.
LEMMA PlaceholderTypes ==
  ASSUME name \in Name, selState \in Selection, selection \in Selection
  PROVE  /\ NewPlaceholder \in PlaceholderState
         /\ \A q \in PlaceholderState :
              /\ BatchEnd(q) \in PlaceholderState /\ Commit(q) \in PlaceholderState
              /\ \A x \in Item \ Batch : Merge(q, x) \in PlaceholderState
<1>1. NoRange \in Selection /\ <<>> \in Seq(Edit)
  BY DEF Selection
<1>2. NewPlaceholder \in PlaceholderState
  BY <1>1 DEF NewPlaceholder, PlaceholderState
<1>3. ASSUME NEW q \in PlaceholderState
      PROVE  /\ BatchEnd(q) \in PlaceholderState /\ Commit(q) \in PlaceholderState
             /\ \A x \in Item \ Batch : Merge(q, x) \in PlaceholderState
  <2>1. BatchEnd(q) \in PlaceholderState /\ Commit(q) \in PlaceholderState
    BY DEF BatchEnd, Commit, PlaceholderState
  <2>2. ASSUME NEW x \in Item \ Batch
        PROVE  Merge(q, x) \in PlaceholderState
    <3>1. q.kids \in Seq(Edit)
      BY DEF PlaceholderState
    <3>2. x \in Edit => Append(q.kids, x) \in Seq(Edit)
      BY <3>1, AppendProperties
    <3>. QED  BY <3>2 DEF Merge, PlaceholderState
  <2>. QED  BY <2>1, <2>2
<1>. QED  BY <1>2, <1>3

\* A placeholder on top of a stack.
LEMMA TopOp ==
  ASSUME NEW s
  PROVE  TopPlaceholder(s) \subseteq Placeholder
  BY DEF TopPlaceholder

\* Recording an item leaves items on the stacks.
LEMMA RecordType ==
  ASSUME EditorTypeOK, NEW x \in Item \ Batch, NEW t \in [Placeholder -> PlaceholderState],
         Record(x, t)
  PROVE  /\ undo' \in Seq(Item) /\ redo' \in Seq(Item) /\ parts' \in [Item -> Seq(Item)]
         /\ plc' \in [Placeholder -> PlaceholderState]
<1>1. /\ open \in Seq(Batch) /\ undo \in Seq(Item) /\ redo \in Seq(Item) /\ x \in Item
      /\ parts \in [Item -> Seq(Item)] /\ <<>> \in Seq(Item)
      /\ name \in Name /\ selState \in Selection /\ selection \in Selection
  BY DEF EditorTypeOK
<1>2. Append(undo, x) \in Seq(Item)
  BY <1>1, AppendProperties
<1>3. open # <<>> => [parts EXCEPT ![Last(open)] = Append(@, x)] \in [Item -> Seq(Item)]
  <2>. SUFFICES ASSUME open # <<>>
                PROVE  [parts EXCEPT ![Last(open)] = Append(@, x)] \in [Item -> Seq(Item)]
    OBVIOUS
  <2>1. Last(open) \in Item
    BY <1>1, FrontOp DEF Item
  <2>2. Append(parts[Last(open)], x) \in Seq(Item)
    BY <1>1, <2>1, AppendProperties
  <2>. QED  BY <1>1, <2>2
<1>4. ASSUME NEW takers
      PROVE  [q \in Placeholder |-> IF q \in takers THEN Merge(t[q], x) ELSE t[q]]
               \in [Placeholder -> PlaceholderState]
  BY <1>1, PlaceholderTypes
<1>5. CASE limit = 0
  <2>1. plc' = t /\ UNCHANGED <<undo, redo, parts>>
    BY <1>5 DEF Record
  <2>. QED  BY <1>1, <2>1
<1>6. CASE limit # 0 /\ open # <<>>
  <2>1. /\ parts' = [parts EXCEPT ![Last(open)] = Append(@, x)]
        /\ plc' = t /\ UNCHANGED <<undo, redo>>
    BY <1>6 DEF Record
  <2>2. /\ parts' \in [Item -> Seq(Item)] /\ plc' \in [Placeholder -> PlaceholderState]
        /\ undo' = undo /\ redo' = redo
    BY <1>1, <1>3, <1>6, <2>1
  <2>. QED  BY <1>1, <2>2
<1>7. CASE limit # 0 /\ open = <<>>
  <2>1. /\ redo' = <<>> /\ UNCHANGED parts
        /\ \/ undo' = Append(undo, x) /\ plc' = t
           \/ \E takers : /\ undo' = undo
                          /\ plc' = [q \in Placeholder |-> IF q \in takers THEN Merge(t[q], x) ELSE t[q]]
    BY <1>7 DEF Record
  <2>2. undo' \in Seq(Item) /\ redo' \in Seq(Item) /\ parts' \in [Item -> Seq(Item)]
    BY ONLY <1>1, <1>2, <2>1
  <2>3. plc' \in [Placeholder -> PlaceholderState]
    BY ONLY <1>4, <2>1, t \in [Placeholder -> PlaceholderState]
  <2>. QED  BY <2>2, <2>3
<1>. QED  BY <1>5, <1>6, <1>7

\* What the manager's own methods leave behind.
LEMMA ManagerType ==
  ASSUME EditorTypeOK
  PROVE  /\ \A b \in Batch : Mgr!Begin(b) =>
              /\ open' \in Seq(Batch) /\ UNCHANGED <<limit, undo, redo, parts>>
         /\ Mgr!EndUnrecorded \/ Mgr!EndInside \/ Mgr!EndOutside =>
              /\ open' \in Seq(Batch) /\ undo' \in Seq(Item) /\ redo' \in Seq(Item)
              /\ parts' \in [Item -> Seq(Item)] /\ limit' = limit
         /\ Mgr!Undo \/ Mgr!Redo =>
              /\ undo' \in Seq(Item) /\ redo' \in Seq(Item)
              /\ UNCHANGED <<limit, open, parts>>
<1>1. /\ open \in Seq(Batch) /\ undo \in Seq(Item) /\ redo \in Seq(Item)
      /\ parts \in [Item -> Seq(Item)] /\ limit \in {-1, 0} /\ Batch \subseteq Item
  BY DEF EditorTypeOK, Item
<1>2. ASSUME NEW b \in Batch, Mgr!Begin(b)
      PROVE  open' \in Seq(Batch) /\ UNCHANGED <<limit, undo, redo, parts>>
  BY <1>1, <1>2, AppendProperties DEF Mgr!Begin
<1>3. open # <<>> => Last(open) \in Item /\ Front(open) \in Seq(Batch)
  BY <1>1, FrontOp
<1>4. ASSUME Mgr!EndUnrecorded
      PROVE  /\ open' \in Seq(Batch) /\ undo' \in Seq(Item) /\ redo' \in Seq(Item)
             /\ parts' \in [Item -> Seq(Item)] /\ limit' = limit
  BY <1>1, <1>3, <1>4, SameOperators DEF Mgr!EndUnrecorded
<1>5. ASSUME Mgr!EndInside
      PROVE  /\ open' \in Seq(Batch) /\ undo' \in Seq(Item) /\ redo' \in Seq(Item)
             /\ parts' \in [Item -> Seq(Item)] /\ limit' = limit
  <2>1. /\ Len(open) > 1 /\ open' = Front(open) /\ UNCHANGED <<limit, undo, redo>>
        /\ parts' = [parts EXCEPT ![Last(Front(open))] = Append(@, Last(open))]
    BY <1>5, SameOperators DEF Mgr!EndInside
  <2>2. open # <<>> /\ Len(Front(open)) # 0
    <3>1. open \in Seq(Batch) /\ Len(open) > 1
      BY <1>1, <2>1
    <3>2. open # <<>> /\ Len(open) \in Nat
      BY ONLY <3>1
    <3>. QED  BY ONLY <3>1, <3>2, FrontOp
  <2>3. Last(Front(open)) \in Item
    <3>1. Front(open) \in Seq(Batch) /\ Front(open) # <<>>
      BY <1>3, <2>2, EmptySeq
    <3>. QED  BY <1>1, <3>1, FrontOp
  <2>4. Append(parts[Last(Front(open))], Last(open)) \in Seq(Item)
    BY <1>1, <1>3, <2>2, <2>3, AppendProperties
  <2>. QED  BY <1>1, <1>3, <2>1, <2>2, <2>4
<1>6. ASSUME Mgr!EndOutside
      PROVE  /\ open' \in Seq(Batch) /\ undo' \in Seq(Item) /\ redo' \in Seq(Item)
             /\ parts' \in [Item -> Seq(Item)] /\ limit' = limit
  <2>1. /\ open' = <<>> /\ redo' = <<>> /\ UNCHANGED <<limit, parts>>
        /\ Len(open) = 1
        /\ undo' = undo \/ undo' = Append(SubSeq(undo, Len(undo) - Len(undo) + 1, Len(undo)), Last(open))
    <3>1. ~(limit > 0)
      BY <1>1
    <3>2. /\ open' = <<>> /\ redo' = <<>> /\ UNCHANGED <<limit, parts>> /\ Len(open) = 1
          /\ undo' = undo \/ undo' = Append(Mgr!Latest(undo, Len(undo)), Mgr!Last(open))
      BY <1>6, <3>1 DEF Mgr!EndOutside
    <3>. QED  BY <3>2, SameOperators
  <2>2. SubSeq(undo, Len(undo) - Len(undo) + 1, Len(undo)) = undo
    <3>1. Len(undo) \in Nat /\ Len(undo) - Len(undo) + 1 = 1
      BY <1>1
    <3>. QED  BY <1>1, <3>1, SubSeqFull
  <2>3. open # <<>>
    <3>1. open \in Seq(Batch) /\ Len(open) = 1
      BY <1>1, <2>1
    <3>. QED  BY ONLY <3>1
  <2>4. Append(undo, Last(open)) \in Seq(Item)
    BY <1>1, <1>3, <2>3, AppendProperties
  <2>5. undo' \in Seq(Item)
    BY <1>1, <2>1, <2>2, <2>4
  <2>6. <<>> \in Seq(Batch) /\ <<>> \in Seq(Item)
    OBVIOUS
  <2>. QED  BY <1>1, <2>1, <2>5, <2>6
<1>7. ASSUME Mgr!Undo \/ Mgr!Redo
      PROVE  undo' \in Seq(Item) /\ redo' \in Seq(Item) /\ UNCHANGED <<limit, open, parts>>
  <2>1. ASSUME NEW s \in Seq(Item), NEW r \in Seq(Item), s # <<>>
        PROVE  Front(s) \in Seq(Item) /\ Append(r, Last(s)) \in Seq(Item)
    BY <2>1, FrontOp, AppendProperties
  <2>. QED  BY <1>1, <1>7, <2>1, SameOperators DEF Mgr!Undo, Mgr!Redo
<1>. QED  BY <1>2, <1>4, <1>5, <1>6, <1>7

\* What an undo or redo may restore is a selection, and its edits are edits.
LEMMA RestoredType ==
  ASSUME EditorTypeOK, NEW x
  PROVE  /\ Content(x) \subseteq Edit
         /\ UndoneSelections(x) \subseteq Selection /\ SelectionsAfter(x, EndSel) \subseteq Selection
<1>1. plc \in [Placeholder -> PlaceholderState] /\ selection \in Selection
  BY DEF EditorTypeOK
<1>2. \A p \in Placeholder : /\ plc[p].start \in Selection /\ plc[p].end \in Selection
                             /\ ToSet(plc[p].kids) \subseteq Edit
  BY <1>1, ElementsOp DEF PlaceholderState
<1>3. Content(x) \subseteq Edit
  BY <1>2 DEF Content
<1>4. ASSUME NEW sel, \A p \in Placeholder : sel[p] \in Selection
      PROVE  SelectionsAfter(x, sel) \subseteq Selection
  BY <1>1, <1>4 DEF SelectionsAfter, Selection
<1>5. \A p \in Placeholder : StartSel[p] \in Selection /\ EndSel[p] \in Selection
  BY <1>2 DEF StartSel, EndSel
<1>. QED  BY <1>3, <1>4, <1>5 DEF UndoneSelections

\* Committing the top placeholder leaves placeholders.
LEMMA CommittingType ==
  ASSUME EditorTypeOK
  PROVE  Committing \subseteq [Placeholder -> PlaceholderState]
<1>1. plc \in [Placeholder -> PlaceholderState]
  BY DEF EditorTypeOK
<1>2. ASSUME NEW p \in TopPlaceholder(undo)
      PROVE  [plc EXCEPT ![p] = Commit(@)] \in [Placeholder -> PlaceholderState]
  <2>1. p \in Placeholder
    BY TopOp
  <2>2. Commit(plc[p]) \in PlaceholderState
    BY <1>1, <2>1, PlaceholderTypes DEF EditorTypeOK
  <2>. QED  BY <1>1, <2>2
<1>. QED  BY <1>1, <1>2 DEF Committing

-----------------------------------------------------------------------------
(* Type correctness.                                                       *)

LEMMA EditorStep ==
  ASSUME EditorTypeOK, EditorNext
  PROVE  EditorTypeOK'
<1>1. /\ limit \in {-1, 0} /\ parts \in [Item -> Seq(Item)]
      /\ open \in Seq(Batch) /\ undo \in Seq(Item) /\ redo \in Seq(Item)
      /\ depth \in 0..MaxNesting /\ current \in Placeholder \cup {NoTxn}
      /\ name \in Name /\ selState \in Selection
      /\ selState # NoRange => depth > 0 /\ current = NoTxn
      /\ starting \in BOOLEAN /\ (starting => depth > 0)
      /\ plc \in [Placeholder -> PlaceholderState]
      /\ selection \in Selection /\ doc \subseteq Edit /\ mods \in Int
      /\ Caret \subseteq Selection /\ Span \subseteq Selection /\ NoRange \in Selection
      /\ MaxNesting \in Nat
  BY EditorAssumption DEF EditorTypeOK, Selection
<1>2. mods + 1 \in Int /\ mods - 1 \in Int
  BY <1>1
<1>3. ASSUME NEW p \in Placeholder, StartPlaceholder(p)
      PROVE  EditorTypeOK'
  <2>1. p \in Item \ Batch
    BY EditorAssumption DEF Item
  <2>2. [plc EXCEPT ![p] = NewPlaceholder] \in [Placeholder -> PlaceholderState]
    BY <1>1, PlaceholderTypes
  <2>3. /\ undo' \in Seq(Item) /\ redo' \in Seq(Item) /\ parts' \in [Item -> Seq(Item)]
        /\ plc' \in [Placeholder -> PlaceholderState]
    BY <1>3, <2>1, <2>2, RecordType DEF StartPlaceholder
  <2>4. current' \in Placeholder
    BY <1>3 DEF StartPlaceholder, TopPlaceholder
  <2>. QED  BY <1>1, <1>2, <1>3, <2>3, <2>4 DEF EditorTypeOK, StartPlaceholder, Counted
<1>4. ASSUME NEW e \in Edit, DoTransaction(e)
      PROVE  EditorTypeOK'
  <2>1. e \in Item \ Batch
    BY EditorAssumption DEF Item
  <2>2. /\ undo' \in Seq(Item) /\ redo' \in Seq(Item) /\ parts' \in [Item -> Seq(Item)]
        /\ plc' \in [Placeholder -> PlaceholderState]
    BY <1>1, <1>4, <2>1, RecordType DEF DoTransaction
  <2>3. selection' \in Selection /\ doc' \subseteq Edit
    BY <1>1, <1>4 DEF DoTransaction
  <2>. QED  BY <1>1, <1>2, <1>4, <2>2, <2>3 DEF EditorTypeOK, DoTransaction, Counted
<1>5. ASSUME NEW n \in Name, BeginPlaceHolderTransaction(n)
      PROVE  EditorTypeOK'
  <2>1. depth' \in 0..MaxNesting /\ depth' > 0
    BY <1>1, <1>5 DEF BeginPlaceHolderTransaction
  <2>2. CASE depth = 0
    BY <1>1, <1>5, <2>1, <2>2 DEF EditorTypeOK, BeginPlaceHolderTransaction, manager
  <2>3. CASE depth # 0
    BY <1>1, <1>5, <2>1, <2>3 DEF EditorTypeOK, BeginPlaceHolderTransaction, manager
  <2>. QED  BY <2>2, <2>3
<1>6. CASE EndPlaceHolderTransaction
  <2>1. depth' \in 0..MaxNesting /\ ~starting /\ starting' = starting /\ current' = current
    BY <1>1, <1>6 DEF EndPlaceHolderTransaction
  <2>2. plc' \in [Placeholder -> PlaceholderState]
    <3>1. CASE OutermostEnd /\ current # NoTxn
      <4>1. current \in Placeholder /\ BatchEnd(plc[current]) \in PlaceholderState
        BY <1>1, <3>1, PlaceholderTypes
      <4>2. plc' = [plc EXCEPT ![current] = BatchEnd(@)]
        BY <1>6, <3>1 DEF EndPlaceHolderTransaction
      <4>. QED  BY <1>1, <4>1, <4>2
    <3>2. CASE ~(OutermostEnd /\ current # NoTxn)
      BY <1>1, <1>6, <3>2 DEF EndPlaceHolderTransaction
    <3>. QED  BY <3>1, <3>2
  <2>3. selState' \in Selection /\ (selState' # NoRange => depth' > 0 /\ current' = NoTxn)
    BY <1>1, <1>6, <2>1 DEF EndPlaceHolderTransaction, OutermostEnd
  <2>. QED  BY <1>1, <1>6, <2>1, <2>2, <2>3 DEF EditorTypeOK, EndPlaceHolderTransaction, manager
<1>7. ASSUME NEW b \in Batch, BeginTransaction(b)
      PROVE  EditorTypeOK'
  <2>1. open' \in Seq(Batch) /\ UNCHANGED <<limit, undo, redo, parts>>
    BY <1>7, ManagerType DEF BeginTransaction
  <2>2. UNCHANGED <<batch, plc, selection, doc, mods>>
    BY <1>7 DEF BeginTransaction
  <2>3. UNCHANGED <<depth, current, name, selState, starting>>
    BY <2>2 DEF batch
  <2>. QED  BY <1>1, <2>1, <2>2, <2>3 DEF EditorTypeOK
<1>8. CASE EndTransaction
  <2>1. Mgr!EndUnrecorded \/ Mgr!EndInside \/ Mgr!EndOutside
    BY <1>8 DEF EndTransaction
  <2>. QED  BY <1>1, <1>8, <2>1, ManagerType DEF EditorTypeOK, EndTransaction, batch
<1>9. CASE Undo
  <2>1. plc' \in [Placeholder -> PlaceholderState]
    BY <1>9, CommittingType DEF Undo
  <2>2. doc' \subseteq Edit /\ selection' \in Selection
    BY <1>1, <1>9, RestoredType DEF Undo
  <2>. QED  BY <1>1, <1>2, <1>9, <2>1, <2>2, ManagerType DEF EditorTypeOK, Undo, batch
<1>10. CASE Redo
  <2>1. doc' \subseteq Edit /\ selection' \in Selection
    BY <1>1, <1>10, RestoredType DEF Redo
  <2>. QED  BY <1>1, <1>2, <1>10, <2>1, ManagerType DEF EditorTypeOK, Redo, batch
<1>11. CASE EndComposition
  <2>1. plc' \in [Placeholder -> PlaceholderState]
    BY <1>11, CommittingType DEF EndComposition
  <2>. QED  BY <1>1, <1>11, <2>1 DEF EditorTypeOK, EndComposition, batch, manager
<1>12. ASSUME NEW s \in Caret \cup Span, SetSelection(s)
       PROVE  EditorTypeOK'
  BY <1>1, <1>12 DEF EditorTypeOK, SetSelection, batch, manager
<1>13. ASSUME NEW aEnable \in MayDisable, EnableUndo(aEnable)
       PROVE  EditorTypeOK'
  <2>1. <<>> \in Seq(Item)
    OBVIOUS
  <2>2. limit' \in {-1, 0} /\ undo' \in Seq(Item) /\ redo' \in Seq(Item)
    BY <1>1, <1>13, <2>1 DEF EnableUndo
  <2>. QED  BY <1>1, <1>13, <2>2 DEF EditorTypeOK, EnableUndo, batch
<1>14. CASE ResetModificationCount
  BY <1>1, <1>14 DEF EditorTypeOK, ResetModificationCount, batch, manager
<1>. QED
  BY <1>3, <1>4, <1>5, <1>6, <1>7, <1>8, <1>9, <1>10, <1>11, <1>12, <1>13, <1>14 DEF EditorNext

\* The updater listens to the editor and never stands in its way: what it sees
\* is what the editor does without it.
LEMMA ListensOnly == ComposerSpec => EditorSpec
<1>1. ComposerInit => Init
  BY DEF ComposerInit
<1>2. [ComposerNext]_cvars => [EditorNext]_evars
  BY DEF ComposerNext, EditorNext, cvars
<1>. QED  BY <1>1, <1>2, PTL DEF ComposerSpec, EditorSpec

\* The editor starts well formed.
LEMMA EditorInitially ==
  ASSUME Init
  PROVE  EditorTypeOK
<1>1. /\ limit = -1 /\ open = <<>> /\ undo = <<>> /\ redo = <<>>
      /\ parts = [x \in Item |-> <<>>]
  BY DEF Init, Mgr!Start
<1>2. <<>> \in Seq(Item) /\ <<>> \in Seq(Batch)
  OBVIOUS
<1>3. name \in Name /\ selState \in Selection /\ selection \in Selection
  BY EditorAssumption DEF Init, Selection
<1>4. plc \in [Placeholder -> PlaceholderState]
  BY <1>3, PlaceholderTypes DEF Init
<1>5. /\ limit \in {-1, 0} /\ parts \in [Item -> Seq(Item)]
      /\ open \in Seq(Batch) /\ undo \in Seq(Item) /\ redo \in Seq(Item)
  BY <1>1, <1>2
<1>6. /\ depth \in 0..MaxNesting /\ current \in Placeholder \cup {NoTxn}
      /\ selState = NoRange /\ starting = FALSE /\ doc \subseteq Edit /\ mods \in Int
  BY EditorAssumption DEF Init
<1>. QED  BY <1>3, <1>4, <1>5, <1>6 DEF EditorTypeOK

\* The editor's batches, placeholders, stacks and selections are well formed for
\* any number of them: a merged placeholder holds edits only, and a saved
\* selection belongs to an outermost batch that has not made its placeholder yet.
THEOREM EditorTypeCorrect == ComposerSpec => []EditorTypeOK
<1>1. Init => EditorTypeOK
  BY EditorInitially
<1>2. EditorTypeOK /\ [EditorNext]_evars => EditorTypeOK'
  <2>1. EditorTypeOK /\ UNCHANGED evars => EditorTypeOK'
    BY DEF EditorTypeOK, evars, manager, batch
  <2>. QED  BY <2>1, EditorStep
<1>. QED  BY <1>1, <1>2, ListensOnly, PTL DEF EditorSpec

-----------------------------------------------------------------------------
(* The undo command.                                                       *)

\* The editor's callers never disable undo, and no batch of the manager is open
\* when a transaction is done: what ends such a batch tells the updater nothing.
UndoAlwaysOn == Batch = {} /\ MayDisable \subseteq {TRUE}

\* What keeps the undo command right between two reports: mFirstDoOfFirstUndo is
\* still TRUE whenever there is nothing to undo, so that the do that makes an undo
\* possible is reported.
UndoReported ==
  /\ limit = -1 /\ open = <<>>
  /\ shown.undo = (undo # <<>>)
  /\ undo = <<>> => mFirstDoOfFirstUndo

\* A do leaves something to undo, and is the only item there if nothing was.
LEMMA DoLeavesUndo ==
  ASSUME EditorTypeOK, limit # 0, open = <<>>, NEW x \in Item, NEW t, Record(x, t)
  PROVE  undo' # <<>> /\ (undo = <<>> => Len(undo') = 1)
<1>1. undo \in Seq(Item)
  BY DEF EditorTypeOK
<1>2. Append(undo, x) # <<>> /\ (undo = <<>> => Len(Append(undo, x)) = 1)
  BY <1>1
<1>3. undo' = Append(undo, x) \/ (undo' = undo /\ undo # <<>>)
  BY DEF Record, TopPlaceholder
<1>. QED  BY <1>2, <1>3

\* "Only need to update if the status of the Undo menu item changes": the undo
\* command always shows whether there is something to undo, whatever is typed,
\* merged, undone, redone or saved.  It says nothing of the redo command.
THEOREM UndoCommandRight ==
  ASSUME UndoAlwaysOn
  PROVE  ComposerSpec => []UndoCommandShown
<1>1. ComposerInit => UndoReported
  BY DEF ComposerInit, Init, Mgr!Start, UndoReported, Status
<1>2. EditorTypeOK /\ UndoReported /\ [ComposerNext]_cvars => UndoReported'
  <2>. SUFFICES ASSUME EditorTypeOK, UndoReported, [ComposerNext]_cvars
                PROVE  UndoReported'
    OBVIOUS
  <2>1. /\ limit = -1 /\ open = <<>> /\ shown.undo = (undo # <<>>)
        /\ undo = <<>> => mFirstDoOfFirstUndo
        /\ undo \in Seq(Item)
    BY DEF UndoReported, EditorTypeOK
  <2>2. \A u, r : Status(u, r).undo = (u # <<>>)
    BY DEF Status
  <2>3. ASSUME UNCHANGED <<limit, open, undo, mFirstDoOfFirstUndo>>, Reports(FALSE)
        PROVE  UndoReported'
    BY <2>1, <2>2, <2>3 DEF UndoReported, Reports
  <2>4. ASSUME NEW x \in Item, NEW t, Record(x, t), UNCHANGED <<limit, open>>, DidDo
        PROVE  UndoReported'
    <3>1. undo' # <<>> /\ (undo = <<>> => Len(undo') = 1)
      BY <2>1, <2>4, DoLeavesUndo
    <3>2. shown' = Status(undo', redo') \/ (shown' = shown /\ ~(mFirstDoOfFirstUndo /\ Len(undo') = 1))
      BY <2>4 DEF DidDo, Reports
    <3>3. shown'.undo = TRUE
      BY <2>1, <2>2, <3>1, <3>2
    <3>. QED  BY <2>1, <2>4, <3>1, <3>3 DEF UndoReported
  <2>5. ASSUME NEW p \in Placeholder, StartPlaceholder(p), DidDo
        PROVE  UndoReported'
    BY <2>4, <2>5 DEF StartPlaceholder, Item
  <2>6. ASSUME NEW e \in Edit, DoTransaction(e), DidDo
        PROVE  UndoReported'
    BY <2>4, <2>6 DEF DoTransaction, Item
  <2>7. ASSUME Undo, DidUndo
        PROVE  UndoReported'
    <3>1. UNCHANGED <<limit, open>>
      BY <2>7 DEF Undo, Mgr!Undo
    <3>2. shown' = Status(undo', redo') /\ (undo' = <<>> => mFirstDoOfFirstUndo')
      BY <2>7 DEF DidUndo, Reports, Reset
    <3>. QED  BY <2>1, <2>2, <3>1, <3>2 DEF UndoReported
  <2>8. ASSUME Redo, DidRedo
        PROVE  UndoReported'
    <3>1. UNCHANGED <<limit, open>> /\ undo' # <<>>
      <4>1. undo' = Append(undo, Last(redo)) /\ UNCHANGED <<limit, open>>
        BY <2>8, SameOperators DEF Redo, Mgr!Redo
      <4>2. Last(redo) \in Item
        <5>1. redo \in Seq(Item) /\ redo # <<>>
          BY <2>8 DEF Redo, Mgr!Redo, EditorTypeOK
        <5>. QED  BY <5>1, FrontOp
      <4>3. Append(undo, Last(redo)) # <<>>
        <5>1. undo \in Seq(Item) /\ Last(redo) \in Item
          BY <2>1, <4>2
        <5>. QED  BY ONLY <5>1, AppendProperties
      <4>. QED  BY <4>1, <4>3
    <3>2. shown' = Status(undo', redo')
      BY <2>8 DEF DidRedo, Reports
    <3>. QED  BY <2>1, <2>2, <3>1, <3>2 DEF UndoReported
  <2>9. ASSUME NEW b \in Batch, BeginTransaction(b)
        PROVE  FALSE
    BY <2>9 DEF UndoAlwaysOn
  <2>10. ASSUME EndTransaction
         PROVE  FALSE
    BY <2>1, <2>10 DEF EndTransaction
  <2>11. ASSUME NEW aEnable \in MayDisable, EnableUndo(aEnable), Unheard
         PROVE  UndoReported'
    <3>1. aEnable = TRUE
      BY DEF UndoAlwaysOn
    <3>2. limit' = -1 /\ undo' = undo /\ open' = open
      BY <2>1, <2>11, <3>1 DEF EnableUndo
    <3>. QED  BY <2>1, <2>3, <2>11, <3>2 DEF Unheard
  <2>12. ASSUME \/ \E n \in Name : BeginPlaceHolderTransaction(n)
                \/ EndPlaceHolderTransaction \/ EndComposition \/ ResetModificationCount
                \/ \E s \in Caret \cup Span : SetSelection(s),
                Unheard
         PROVE  UndoReported'
    BY <2>3, <2>12 DEF BeginPlaceHolderTransaction, EndPlaceHolderTransaction, EndComposition,
                       ResetModificationCount, SetSelection, Unheard, manager
  <2>13. ASSUME UNCHANGED cvars
         PROVE  UndoReported'
    BY <2>1, <2>13 DEF UndoReported, cvars, evars, manager, updater
  <2>. QED
    BY <2>5, <2>6, <2>7, <2>8, <2>9, <2>10, <2>11, <2>12, <2>13 DEF ComposerNext
<1>3. UndoReported => UndoCommandShown
  BY DEF UndoReported, UndoCommandShown
<1>. QED  BY <1>1, <1>2, <1>3, EditorTypeCorrect, PTL DEF ComposerSpec
-----------------------------------------------------------------------------
(* A placeholder batch is one undo entry.                                  *)

\* While a batch is open outside any batch of the manager, what it has done so
\* far is in the placeholder that DoTransaction() remembers, which is the newest
\* undo entry and still takes everything in. It cannot be left at "the newest
\* entry holds it", since the next edit must find that entry open.
OneEntry ==
  depth > 0 /\ open = <<>> /\ limit # 0 =>
    IF current = NoTxn THEN doc = before
    ELSE /\ undo # <<>> /\ Last(undo) = current
         /\ plc[current].absorb
         /\ doc \ before \subseteq ToSet(plc[current].kids)

\* An appended element is the last one, and adds itself to the elements.
LEMMA AppendOp ==
  ASSUME NEW S, NEW s \in Seq(S), NEW x \in S
  PROVE  /\ Append(s, x) # <<>> /\ Last(Append(s, x)) = x
         /\ ToSet(Append(s, x)) = ToSet(s) \cup {x}
<1>1. Append(s, x) # <<>> /\ Last(Append(s, x)) = x
  BY AppendProperties DEF Last
<1>2. /\ Len(s) \in Nat /\ Len(Append(s, x)) = Len(s) + 1
      /\ \A i \in 1..Len(s) : Append(s, x)[i] = s[i]
      /\ Append(s, x)[Len(s) + 1] = x
  BY AppendProperties
<1>3. DOMAIN s = 1..Len(s) /\ DOMAIN Append(s, x) = 1..(Len(s) + 1)
  BY <1>2, AppendProperties
<1>4. 1..(Len(s) + 1) = 1..Len(s) \cup {Len(s) + 1}
  BY <1>2
<1>. QED  BY <1>1, <1>2, <1>3, <1>4 DEF ToSet

\* Recording an item inside the batch leaves a placeholder on top that takes
\* everything in: the one that was there, or the item itself.
LEMMA RecordInBatch ==
  ASSUME EditorTypeOK, limit # 0, open = <<>>, NEW x \in Item \ Batch,
         NEW t \in [Placeholder -> PlaceholderState], Record(x, t),
         x \in Placeholder => t[x].absorb
  PROVE  LET p == Last(undo')
         IN  /\ undo' # <<>>
             /\ \/ p = x /\ plc' = t
                \/ /\ p \in Placeholder /\ undo' = undo /\ undo # <<>>
                   /\ plc' = [t EXCEPT ![p] = Merge(t[p], x)]
<1>1. undo \in Seq(Item) /\ x \in Item
  BY DEF EditorTypeOK
<1>2. Append(undo, x) # <<>> /\ Last(Append(undo, x)) = x
  BY <1>1, AppendOp
<1>3. \/ undo' = Append(undo, x) /\ plc' = t
      \/ \E p \in Placeholder :
            /\ undo' = undo /\ undo # <<>> /\ Last(undo) = p
            /\ plc' = [q \in Placeholder |-> IF q = p THEN Merge(t[q], x) ELSE t[q]]
  <2>. DEFINE takers == {q \in TopPlaceholder(undo) :
                          Takes(t[q], x, IF x \in Placeholder THEN t[x] ELSE t[q])}
  <2>1. IF takers = {}
        THEN undo' = Append(undo, x) /\ plc' = t
        ELSE /\ undo' = undo
             /\ plc' = [q \in Placeholder |-> IF q \in takers THEN Merge(t[q], x) ELSE t[q]]
    BY DEF Record
  <2>2. takers # {} => /\ undo # <<>> /\ Last(undo) \in Placeholder
                      /\ takers = {Last(undo)}
    BY DEF TopPlaceholder
  <2>. HIDE DEF takers
  <2>. QED  BY <2>1, <2>2
<1>. QED  BY <1>2, <1>3

\* The batch's edits stay in its placeholder through every step of the editor.
LEMMA OneEntryStep ==
  ASSUME EditorTypeOK, OneEntry, EditorNext
  PROVE  OneEntry'
<1>1. /\ undo \in Seq(Item) /\ depth \in 0..MaxNesting /\ current \in Placeholder \cup {NoTxn}
      /\ plc \in [Placeholder -> PlaceholderState] /\ MaxNesting \in Nat
      /\ name \in Name /\ selState \in Selection /\ selection \in Selection
      /\ NoTxn \notin Placeholder /\ Edit \cap Placeholder = {}
  BY EditorAssumption DEF EditorTypeOK, Item
<1>2. ASSUME depth' = 0
      PROVE  OneEntry'
  BY <1>2 DEF OneEntry
<1>3. ASSUME NEW p \in Placeholder, StartPlaceholder(p)
      PROVE  OneEntry'
  <2>. SUFFICES ASSUME open = <<>>, limit # 0
                PROVE  OneEntry'
    BY <1>3 DEF StartPlaceholder, OneEntry
  <2>. DEFINE t == [plc EXCEPT ![p] = NewPlaceholder]
              q == Last(undo')
  <2>1. doc = before /\ doc' = doc /\ before' = before
    BY <1>3 DEF StartPlaceholder, OneEntry
  <2>2. /\ t \in [Placeholder -> PlaceholderState] /\ t[p].absorb
        /\ p \in Item \ Batch
    BY <1>1, PlaceholderTypes, EditorAssumption DEF NewPlaceholder, Item
  <2>3. undo' # <<>> /\ \/ q = p /\ plc' = t
                        \/ q \in Placeholder /\ plc' = [t EXCEPT ![q] = Merge(t[q], p)]
    BY <1>3, <2>2, RecordInBatch DEF StartPlaceholder
  <2>4. q \in Placeholder /\ plc'[q].absorb
    <3>1. \A r \in PlaceholderState : Merge(r, p).absorb
      BY <1>1 DEF Merge, PlaceholderState
    <3>. QED  BY <1>1, <2>2, <2>3, <3>1
  <2>5. current' = q
    BY <1>3, <2>3, <2>4 DEF StartPlaceholder, TopPlaceholder
  <2>. QED  BY <1>1, <2>1, <2>3, <2>4, <2>5 DEF OneEntry
<1>4. ASSUME NEW e \in Edit, DoTransaction(e)
      PROVE  OneEntry'
  <2>. SUFFICES ASSUME open = <<>>, limit # 0, depth > 0
                PROVE  OneEntry'
    BY <1>4 DEF DoTransaction, OneEntry
  <2>1. /\ current \in Placeholder /\ undo # <<>> /\ Last(undo) = current
        /\ plc[current].absorb /\ doc \ before \subseteq ToSet(plc[current].kids)
    BY <1>1, <1>4 DEF DoTransaction, OneEntry
  <2>2. TopPlaceholder(undo) = {current} /\ Takes(plc[current], e, plc[current])
    BY <2>1 DEF TopPlaceholder, Takes
  <2>3. undo' = undo /\ plc' = [plc EXCEPT ![current] = Merge(plc[current], e)]
    <3>1. e \notin Placeholder
      BY <1>1
    <3>2. {q \in TopPlaceholder(undo) : Takes(plc[q], e, plc[q])} = {current}
      BY <2>2
    <3>3. /\ undo' = undo
          /\ plc' = [q \in Placeholder |-> IF q \in {current} THEN Merge(plc[q], e) ELSE plc[q]]
      BY <1>4, <3>1, <3>2 DEF DoTransaction, Record
    <3>. QED  BY <1>1, <2>1, <3>3
  <2>4. plc'[current] = [plc[current] EXCEPT !.kids = Append(@, e)]
    BY <1>1, <2>1, <2>3 DEF Merge
  <2>5. plc[current].kids \in Seq(Edit) /\ plc[current] \in PlaceholderState
    BY <1>1, <2>1 DEF PlaceholderState
  <2>6. /\ plc'[current].absorb
        /\ ToSet(plc'[current].kids) = ToSet(plc[current].kids) \cup {e}
    BY <2>1, <2>4, <2>5, AppendOp DEF PlaceholderState
  <2>7. /\ current' = current /\ doc' = doc \cup {e} /\ before' = before
    BY <1>4 DEF DoTransaction, ghosts
  <2>. QED  BY <1>1, <2>1, <2>3, <2>6, <2>7 DEF OneEntry
<1>5. ASSUME NEW n \in Name, BeginPlaceHolderTransaction(n)
      PROVE  OneEntry'
  BY <1>1, <1>5 DEF BeginPlaceHolderTransaction, OneEntry, manager
<1>6. CASE EndPlaceHolderTransaction
  <2>1. CASE depth = 1
    BY <1>2, <1>6, <2>1 DEF EndPlaceHolderTransaction
  <2>2. CASE depth # 1
    BY <1>1, <1>6, <2>2 DEF EndPlaceHolderTransaction, OutermostEnd, OneEntry, manager
  <2>. QED  BY <2>1, <2>2
<1>7. ASSUME \/ \E b \in Batch : BeginTransaction(b)
             \/ EndTransaction \/ Undo \/ Redo
             \/ \E aEnable \in MayDisable : EnableUndo(aEnable)
             \/ ResetModificationCount
      PROVE  OneEntry'
  <2>1. depth = 0 /\ UNCHANGED depth
    BY <1>7 DEF BeginTransaction, EndTransaction, Undo, Redo, EnableUndo,
                ResetModificationCount, batch
  <2>. QED  BY <1>2, <2>1
<1>8. CASE EndComposition
  <2>1. plc' = plc \/ \E p \in Placeholder : plc' = [plc EXCEPT ![p] = Commit(@)]
    BY <1>8, TopOp DEF EndComposition, Committing
  <2>2. \A r \in PlaceholderState : Commit(r).absorb = r.absorb /\ Commit(r).kids = r.kids
    BY DEF Commit, PlaceholderState
  <2>3. \A p \in Placeholder : plc[p] \in PlaceholderState /\ plc'[p] \in {plc[p], Commit(plc[p])}
    BY <1>1, <2>1
  <2>4. \A p \in Placeholder : plc'[p].absorb = plc[p].absorb /\ plc'[p].kids = plc[p].kids
    BY <2>2, <2>3
  <2>. QED  BY <1>1, <1>8, <2>4 DEF EndComposition, OneEntry, manager, batch, ghosts
<1>9. ASSUME NEW s \in Caret \cup Span, SetSelection(s)
      PROVE  OneEntry'
  <2>1. UNCHANGED <<depth, open, limit, current, doc, before, undo, plc>>
    BY <1>9 DEF SetSelection, manager, batch, ghosts
  <2>. QED  BY <2>1 DEF OneEntry
<1>. QED  BY <1>3, <1>4, <1>5, <1>6, <1>7, <1>8, <1>9 DEF EditorNext

\* An item is one of the things it is made of.
LEMMA HoldsItself ==
  ASSUME NEW x \in Item
  PROVE  x \in Within(x)
  BY DEF Within

\* A placeholder batch that is open outside the manager's batches has all that it
\* has done, and whatever its own edits are, in the newest undo entry: one undo
\* takes the whole operation back.
THEOREM OneUndoEntry == ComposerSpec => []BatchIsOneEntry
<1>1. Init => OneEntry
  BY DEF Init, OneEntry
<1>2. EditorTypeOK /\ OneEntry /\ [EditorNext]_evars => OneEntry'
  <2>1. OneEntry /\ UNCHANGED evars => OneEntry'
    BY DEF OneEntry, evars, manager, batch, ghosts
  <2>. QED  BY <2>1, OneEntryStep
<1>3. EditorTypeOK /\ OneEntry => BatchIsOneEntry
  <2>. SUFFICES ASSUME EditorTypeOK, OneEntry, depth > 0, open = <<>>, limit # 0, doc # before
                PROVE  undo # <<>> /\ doc \ before \subseteq Content(Last(undo))
    BY DEF BatchIsOneEntry
  <2>1. /\ current \in Placeholder /\ undo # <<>> /\ Last(undo) = current
        /\ doc \ before \subseteq ToSet(plc[current].kids)
    BY DEF OneEntry, EditorTypeOK
  <2>2. current \in Within(current) \cap Placeholder
    BY <2>1, HoldsItself DEF Item
  <2>. QED  BY <2>1, <2>2 DEF Content
<1>. QED  BY <1>1, <1>2, <1>3, EditorTypeCorrect, ListensOnly, PTL DEF EditorSpec

-----------------------------------------------------------------------------
(* The items to be undone and to be redone are one line of moments of the  *)
(* document; undo and redo walk along it, an edit replaces what lies ahead,*)
(* and merging only adds to the item just behind.                          *)

\* No batch of the manager is open around a placeholder batch: DoTransaction()
\* may then take an earlier entry for the placeholder it has just made, which the
\* run for RemembersOwnPlaceholder shows.
NoBatchAround == Batch = {}

-----------------------------------------------------------------------------
(* The line of moments.                                                    *)

\* The items between them, the undone ones after the done ones.
Moments == Len(undo) + Len(redo)
Line(i) == IF i <= Len(undo) THEN undo[i] ELSE redo[Moments + 1 - i]

\* An item's edits, where no item has parts.
Edits(x) == IF x \in Placeholder THEN ToSet(plc[x].kids) ELSE {x}

\* st[i] is the document with i items done. Each item adds its edits, all of them
\* new, and a placeholder's first batch began with the document as it was without.
Timeline(st) ==
  /\ st \in [0..Moments -> SUBSET Edit]
  /\ st[Len(undo)] = doc
  /\ \A i, j \in 0..Moments : i <= j => st[i] \subseteq st[j]
  /\ \A i, j \in 1..Moments : Line(i) = Line(j) => i = j
  /\ \A i \in 1..Moments :
       /\ st[i] = st[i - 1] \cup Edits(Line(i)) /\ st[i - 1] \cap Edits(Line(i)) = {}
       /\ Edits(Line(i)) # {} \/ (starting /\ i = Len(undo))
       /\ Line(i) \in Placeholder => began[Line(i)][1] = st[i - 1]

\* The saved document is out of reach, or n items made it. The modification count
\* then is ahead of the items done since by one for each merge, which only adds.
OutOfReach(st) == \E e \in saved : e \notin st[Moments]
SavedAt(st, n) ==
  /\ saved \subseteq st[n]
  /\ mods + n >= Len(undo) /\ (mods + n = Len(undo) => saved = st[n])
  /\ \A i \in 1..n : Edits(Line(i)) \cap saved # {}
Reachable(st) == OutOfReach(st) \/ \E n \in 0..Moments : SavedAt(st, n)

LineInv == \E st : Timeline(st) /\ Reachable(st)

\* Outside any batch of the manager an item has no parts, and with undo disabled
\* there are no items.
Quiet ==
  /\ open = <<>> /\ parts = [x \in Item |-> <<>>]
  /\ limit = 0 => undo = <<>> /\ redo = <<>>

\* The placeholder that DoTransaction() remembers holds the batch's edits, and it
\* alone has not been told of its last batch's end.
Told ==
  /\ starting => depth > 0 /\ current # NoTxn
  /\ IF depth > 0 /\ current # NoTxn THEN holder = current ELSE holder = NoTxn
  /\ \A p \in Placeholder : p # holder => plc[p].end = ended[p]
  /\ \A p \in Placeholder : plc[p].start = began[p][2]

GhostsTyped ==
  /\ saved \subseteq Edit /\ before \subseteq Edit
  /\ began \in [Placeholder -> (SUBSET Edit) \X Selection]
  /\ ended \in [Placeholder -> Selection]

UndoInv == EditorTypeOK /\ GhostsTyped /\ Quiet /\ OneEntry /\ Told /\ LineInv

-----------------------------------------------------------------------------
(* Lemmas.                                                                 *)

\* An item holds its own edits and nothing else.
LEMMA ContentOp ==
  ASSUME NoBatchAround, Quiet, NEW x \in Item
  PROVE  Content(x) = Edits(x)
<1>1. \A z \in Item : ToSet(parts[z]) = {}
  BY DEF Quiet, ToSet
<1>2. Within(x) = {x}
  <2>1. \A z \in {x} : ToSet(parts[z]) \subseteq {x}
    BY <1>1
  <2>2. \A y \in Within(x) : y \in {x}
    BY <2>1 DEF Within
  <2>. QED  BY <2>2, HoldsItself
<1>3. CASE x \in Placeholder
  <2>1. x \notin Edit
    BY <1>3, EditorAssumption
  <2>. QED  BY <1>2, <1>3, <2>1 DEF Content, Edits
<1>4. CASE x \notin Placeholder
  <2>1. x \in Edit
    BY <1>4 DEF Item, NoBatchAround
  <2>. QED  BY <1>2, <1>4, <2>1 DEF Content, Edits
<1>. QED  BY <1>3, <1>4

\* Recording an item: dropped, pushed, or taken by the placeholder on top.
LEMMA RecordCases ==
  ASSUME Quiet, NEW x, NEW t \in [Placeholder -> PlaceholderState], Record(x, t)
  PROVE  /\ parts' = parts
         /\ \/ limit = 0 /\ undo' = undo /\ redo' = redo /\ plc' = t
            \/ /\ limit # 0 /\ undo' = Append(undo, x) /\ redo' = <<>> /\ plc' = t
               /\ \A q \in Placeholder : undo # <<>> /\ Last(undo) = q => ~t[q].absorb
            \/ \E q \in Placeholder :
                 /\ limit # 0 /\ undo' = undo /\ undo # <<>> /\ Last(undo) = q /\ redo' = <<>>
                 /\ plc' = [t EXCEPT ![q] = Merge(t[q], x)]
                 /\ Takes(t[q], x, IF x \in Placeholder THEN t[x] ELSE t[q])
<1>1. open = <<>>
  BY DEF Quiet
<1>2. CASE limit = 0
  BY <1>1, <1>2 DEF Record
<1>3. CASE limit # 0
  <2>. DEFINE takers == {q \in TopPlaceholder(undo) :
                          Takes(t[q], x, IF x \in Placeholder THEN t[x] ELSE t[q])}
  <2>1. /\ redo' = <<>> /\ parts' = parts
        /\ IF takers = {}
           THEN undo' = Append(undo, x) /\ plc' = t
           ELSE /\ undo' = undo
                /\ plc' = [q \in Placeholder |-> IF q \in takers THEN Merge(t[q], x) ELSE t[q]]
    BY <1>1, <1>3 DEF Record
  <2>2. ASSUME takers # {}
        PROVE  \E q \in Placeholder :
                 /\ undo # <<>> /\ Last(undo) = q /\ takers = {q}
                 /\ Takes(t[q], x, IF x \in Placeholder THEN t[x] ELSE t[q])
    BY <2>2 DEF TopPlaceholder
  <2>5. ASSUME takers = {}, NEW q \in Placeholder, undo # <<>>, Last(undo) = q
        PROVE  ~t[q].absorb
    BY <2>5 DEF TopPlaceholder, Takes
  <2>. HIDE DEF takers
  <2>3. CASE takers = {}
    BY <1>3, <2>1, <2>3, <2>5
  <2>4. CASE takers # {}
    <3>1. PICK q \in Placeholder :
            /\ undo # <<>> /\ Last(undo) = q /\ takers = {q}
            /\ Takes(t[q], x, IF x \in Placeholder THEN t[x] ELSE t[q])
      BY <2>2, <2>4
    <3>2. plc' = [t EXCEPT ![q] = Merge(t[q], x)]
      BY <2>1, <2>4, <3>1
    <3>. QED  BY <1>3, <2>1, <2>4, <3>1, <3>2
  <2>. QED  BY <2>3, <2>4
<1>. QED  BY <1>2, <1>3

\* The items on the line are those on the stacks.
LEMMA LineOp ==
  ASSUME EditorTypeOK
  PROVE  /\ Len(undo) \in Nat /\ Len(redo) \in Nat /\ Moments \in Nat /\ Len(undo) <= Moments
         /\ \A i \in 1..Moments : Line(i) \in ToSet(undo) \cup ToSet(redo) /\ Line(i) \in Item
         /\ undo # <<>> => Len(undo) \in 1..Moments /\ Line(Len(undo)) = Last(undo)
<1>1. undo \in Seq(Item) /\ redo \in Seq(Item)
  BY DEF EditorTypeOK
<1>2. /\ Len(undo) \in Nat /\ Len(redo) \in Nat
      /\ DOMAIN undo = 1..Len(undo) /\ DOMAIN redo = 1..Len(redo)
      /\ undo # <<>> => Len(undo) # 0
  BY <1>1, EmptySeq
<1>3. Moments \in Nat /\ Len(undo) <= Moments
  BY <1>2 DEF Moments
<1>4. ASSUME NEW i \in 1..Moments
      PROVE  Line(i) \in ToSet(undo) \cup ToSet(redo) /\ Line(i) \in Item
  <2>1. CASE i <= Len(undo)
    BY <1>1, <1>2, <1>3, <2>1 DEF Line, ToSet
  <2>2. CASE ~(i <= Len(undo))
    <3>0. Moments + 1 - i \in 1..Len(redo)
      BY <1>2, <2>2 DEF Moments
    <3>1. PICK j \in 1..Len(redo) : j = Moments + 1 - i
      BY <3>0
    <3>2. Line(i) = redo[j]
      BY <2>2, <3>1 DEF Line
    <3>3. redo[j] \in ToSet(redo) /\ redo[j] \in Item
      BY <1>1, <1>2 DEF ToSet
    <3>. QED  BY <3>2, <3>3
  <2>. QED  BY <2>1, <2>2
<1>5. undo # <<>> => Len(undo) \in 1..Moments /\ Line(Len(undo)) = Last(undo)
  BY <1>2, <1>3 DEF Line, Last
<1>. QED  BY <1>2, <1>3, <1>4, <1>5

\* The line after an item has been pushed, or what lay ahead been dropped.
LEMMA LinePush ==
  ASSUME EditorTypeOK, NEW x \in Item, undo' = Append(undo, x), redo' = <<>>,
         NEW k \in Nat, k = Len(undo)
  PROVE  /\ Len(undo') = k + 1 /\ Moments' = k + 1
         /\ \A i \in 1..k : Line(i)' = Line(i)
         /\ Line(k + 1)' = x
<1>1. undo \in Seq(Item)
  BY DEF EditorTypeOK
<1>2. PICK u \in Seq(Item) : u = Append(undo, x)
  BY <1>1, AppendProperties
<1>3. /\ Len(u) = k + 1 /\ u[k + 1] = x
      /\ \A i \in 1..k : u[i] = undo[i]
  BY <1>1, <1>2, AppendProperties
<1>4. undo' = u /\ Len(redo') = 0
  BY <1>2
<1>5. Len(undo') = k + 1 /\ Moments' = k + 1
  BY <1>3, <1>4 DEF Moments
<1>6. \A i \in 1..(k + 1) : Line(i)' = u[i]
  BY <1>4, <1>5 DEF Line
<1>7. \A i \in 1..k : Line(i) = undo[i] /\ i \in 1..(k + 1)
  BY DEF Line
<1>8. k + 1 \in 1..(k + 1)
  OBVIOUS
<1>. QED  BY <1>3, <1>5, <1>6, <1>7, <1>8

LEMMA LineCut ==
  ASSUME EditorTypeOK, undo' = undo, redo' = <<>>
  PROVE  /\ Len(undo') = Len(undo) /\ Moments' = Len(undo)
         /\ \A i \in 1..Len(undo) : Line(i)' = Line(i)
<1>1. undo \in Seq(Item) /\ Len(undo) \in Nat
  BY DEF EditorTypeOK
<1>. QED  BY <1>1 DEF Moments, Line

\* The line while an item is undone or redone: the same.
LEMMA LineMove ==
  ASSUME EditorTypeOK, Mgr!Undo \/ Mgr!Redo
  PROVE  /\ Moments' = Moments /\ \A i \in 1..Moments : Line(i)' = Line(i)
         /\ Mgr!Undo => Len(undo') = Len(undo) - 1 /\ undo # <<>>
         /\ Mgr!Redo => /\ Len(undo') = Len(undo) + 1 /\ redo # <<>>
                        /\ Len(undo) + 1 \in 1..Moments /\ Line(Len(undo) + 1) = Last(redo)
<1>1. /\ undo \in Seq(Item) /\ redo \in Seq(Item) /\ Len(undo) \in Nat /\ Len(redo) \in Nat
      /\ undo # <<>> => Len(undo) # 0
      /\ redo # <<>> => Len(redo) # 0
  BY EmptySeq DEF EditorTypeOK
<1>2. ASSUME NEW from \in Seq(Item), NEW to \in Seq(Item), from # <<>>
      PROVE  LET f == Front(from)  a == Append(to, Last(from))
             IN  /\ Len(f) = Len(from) - 1 /\ \A i \in 1..(Len(from) - 1) : f[i] = from[i]
                 /\ Len(a) = Len(to) + 1 /\ \A i \in 1..Len(to) : a[i] = to[i]
                 /\ a[Len(to) + 1] = from[Len(from)]
  <2>1. Last(from) \in Item /\ Front(from) \in Seq(Item) /\ Len(Front(from)) = Len(from) - 1
    BY <1>2, FrontOp
  <2>2. \A i \in 1..(Len(from) - 1) : Front(from)[i] = from[i]
    BY <1>2, <2>1 DEF Front
  <2>. QED  BY <2>1, <2>2, AppendProperties DEF Last
<1>3. CASE Mgr!Undo
  <2>1. undo # <<>> /\ undo' = Front(undo) /\ redo' = Append(redo, Last(undo))
    BY <1>3, SameOperators DEF Mgr!Undo
  <2>2. /\ Len(undo') = Len(undo) - 1 /\ \A i \in 1..(Len(undo) - 1) : undo'[i] = undo[i]
        /\ Len(redo') = Len(redo) + 1 /\ \A i \in 1..Len(redo) : redo'[i] = redo[i]
        /\ redo'[Len(redo) + 1] = undo[Len(undo)]
    BY <1>1, <1>2, <2>1
  <2>3. Moments' = Moments
    BY <1>1, <2>2 DEF Moments
  <2>4. ASSUME NEW i \in 1..Moments
        PROVE  Line(i)' = Line(i)
    <3>1. CASE i \in 1..(Len(undo) - 1)
      BY <1>1, <2>2, <3>1 DEF Line
    <3>2. CASE i = Len(undo)
      BY <1>1, <2>2, <2>3, <3>2 DEF Line, Moments
    <3>3. CASE i > Len(undo)
      <4>0. Moments + 1 - i \in 1..Len(redo)
        BY <1>1, <3>3 DEF Moments
      <4>1. PICK j \in 1..Len(redo) : j = Moments + 1 - i
        BY <4>0
      <4>2. Line(i) = redo[j] /\ Line(i)' = redo'[j]
        BY <1>1, <2>2, <2>3, <3>3, <4>1 DEF Line
      <4>. QED  BY <2>2, <4>2
    <3>. QED  BY <1>1, <3>1, <3>2, <3>3 DEF Moments
  <2>5. ~Mgr!Redo
    <3>1. Mgr!Redo => Len(undo') = Len(undo) + 1
      <4>1. Mgr!Redo => redo # <<>> /\ undo' = Append(undo, Last(redo))
        BY SameOperators DEF Mgr!Redo
      <4>. QED  BY <1>1, <1>2, <4>1
    <3>. QED  BY <1>1, <2>2, <3>1
  <2>. QED  BY <2>1, <2>2, <2>3, <2>4, <2>5
<1>4. CASE Mgr!Redo
  <2>1. redo # <<>> /\ redo' = Front(redo) /\ undo' = Append(undo, Last(redo))
    BY <1>4, SameOperators DEF Mgr!Redo
  <2>2. /\ Len(redo') = Len(redo) - 1 /\ \A i \in 1..(Len(redo) - 1) : redo'[i] = redo[i]
        /\ Len(undo') = Len(undo) + 1 /\ \A i \in 1..Len(undo) : undo'[i] = undo[i]
        /\ undo'[Len(undo) + 1] = redo[Len(redo)]
    BY <1>1, <1>2, <2>1
  <2>3. Moments' = Moments
    BY <1>1, <2>2 DEF Moments
  <2>4. ASSUME NEW i \in 1..Moments
        PROVE  Line(i)' = Line(i)
    <3>1. CASE i \in 1..Len(undo)
      BY <1>1, <2>2, <3>1 DEF Line
    <3>2. CASE i = Len(undo) + 1
      <4>1. Moments + 1 - i = Len(redo)
        BY <1>1, <3>2 DEF Moments
      <4>2. Line(i) = redo[Len(redo)] /\ Line(i)' = undo'[i]
        BY <1>1, <2>2, <3>2, <4>1 DEF Line
      <4>. QED  BY <2>2, <3>2, <4>2
    <3>3. CASE i > Len(undo) + 1
      <4>0. Moments + 1 - i \in 1..(Len(redo) - 1)
        BY <1>1, <3>3 DEF Moments
      <4>1. PICK j \in 1..(Len(redo) - 1) : j = Moments + 1 - i
        BY <4>0
      <4>2. Line(i) = redo[j] /\ Line(i)' = redo'[j]
        BY <1>1, <2>2, <2>3, <3>3, <4>1 DEF Line
      <4>. QED  BY <2>2, <4>2
    <3>. QED  BY <1>1, <3>1, <3>2, <3>3 DEF Moments
  <2>5. ~Mgr!Undo
    <3>1. Mgr!Undo => Len(undo') = Len(undo) - 1
      <4>1. Mgr!Undo => undo # <<>> /\ undo' = Front(undo)
        BY SameOperators DEF Mgr!Undo
      <4>. QED  BY <1>1, <1>2, <4>1
    <3>. QED  BY <1>1, <2>2, <3>1
  <2>6. Len(undo) + 1 \in 1..Moments /\ Line(Len(undo) + 1) = Last(redo)
    <3>1. Len(redo) # 0 /\ Moments + 1 - (Len(undo) + 1) = Len(redo)
      BY <1>1, <2>1 DEF Moments
    <3>. QED  BY <1>1, <3>1 DEF Line, Moments, Last
  <2>. QED  BY <2>1, <2>2, <2>3, <2>4, <2>5, <2>6
<1>. QED  BY <1>3, <1>4

-----------------------------------------------------------------------------
(* How each kind of step changes the line.                                 *)

\* Neither the stacks nor what their items hold.
LEMMA LineKept ==
  ASSUME LineInv, UNCHANGED <<undo, redo, doc, saved, began, mods>>,
         \A p \in Placeholder : plc'[p].kids = plc[p].kids, starting' = starting
  PROVE  LineInv'
<1>1. \A i : Line(i)' = Line(i)
  BY DEF Line, Moments
<1>2. \A i : Edits(Line(i))' = Edits(Line(i))
  BY <1>1 DEF Edits
<1>3. Moments' = Moments /\ Len(undo') = Len(undo)
  BY DEF Moments
<1>4. PICK st : Timeline(st) /\ Reachable(st)
  BY DEF LineInv
<1>5. Timeline(st)'
  BY <1>1, <1>2, <1>3, <1>4 DEF Timeline
<1>6. Reachable(st)'
  BY <1>1, <1>2, <1>3, <1>4 DEF Reachable, OutOfReach, SavedAt
<1>. QED  BY <1>5, <1>6 DEF LineInv

\* An item walks along the line.
LEMMA LineWalked ==
  ASSUME EditorTypeOK, LineInv, ~starting, Mgr!Undo \/ Mgr!Redo,
         \A p \in Placeholder : plc'[p].kids = plc[p].kids, UNCHANGED <<began, saved, starting>>,
         Mgr!Undo => doc' = doc \ Edits(Last(undo)) /\ mods' = mods - 1,
         Mgr!Redo => doc' = doc \cup Edits(Last(redo)) /\ mods' = mods + 1
  PROVE  LineInv'
<1>1. PICK st : Timeline(st) /\ Reachable(st)
  BY DEF LineInv
<1>2. /\ Moments' = Moments /\ Moments \in Nat /\ Len(undo) \in Nat /\ Len(undo) <= Moments
      /\ \A i \in 1..Moments : Line(i)' = Line(i) /\ Edits(Line(i))' = Edits(Line(i))
  BY LineOp, LineMove DEF Edits
<1>5. ASSUME doc' = st[Len(undo')]
      PROVE  Timeline(st)'
  <2>2. \A i \in 1..Moments :
          /\ Edits(Line(i)) # {}
          /\ st[i] = st[i - 1] \cup Edits(Line(i)) /\ st[i - 1] \cap Edits(Line(i)) = {}
          /\ Line(i) \in Placeholder => began[Line(i)][1] = st[i - 1]
    BY <1>1 DEF Timeline
  <2>3. /\ st \in [0..Moments -> SUBSET Edit]
        /\ \A i, j \in 0..Moments : i <= j => st[i] \subseteq st[j]
        /\ \A i, j \in 1..Moments : Line(i) = Line(j) => i = j
    BY <1>1 DEF Timeline
  <2>4. /\ st \in [0..Moments' -> SUBSET Edit]
        /\ \A i, j \in 0..Moments' : i <= j => st[i] \subseteq st[j]
    BY <1>2, <2>3
  <2>5. \A i, j \in 1..Moments' : Line(i)' = Line(j)' => i = j
    BY <1>2, <2>3
  <2>6. \A i \in 1..Moments' :
          /\ st[i] = st[i - 1] \cup Edits(Line(i))' /\ st[i - 1] \cap Edits(Line(i))' = {}
          /\ Edits(Line(i))' # {}
          /\ Line(i)' \in Placeholder => began'[Line(i)'][1] = st[i - 1]
    BY <1>2, <2>2
  <2>. QED  BY <1>5, <2>4, <2>5, <2>6 DEF Timeline
<1>3. CASE Mgr!Undo
  <2>1. /\ Len(undo') = Len(undo) - 1 /\ Len(undo) \in 1..Moments
        /\ Line(Len(undo)) = Last(undo) /\ mods' = mods - 1
    BY <1>3, LineMove, LineOp
  <2>2. doc' = st[Len(undo')]
    <3>1. /\ st[Len(undo)] = st[Len(undo) - 1] \cup Edits(Last(undo))
          /\ st[Len(undo) - 1] \cap Edits(Last(undo)) = {} /\ doc = st[Len(undo)]
      BY <1>1, <2>1 DEF Timeline
    <3>2. doc' = doc \ Edits(Last(undo))
      BY <1>3
    <3>. QED  BY <2>1, <3>1, <3>2
  <2>. QED
    <3>1. Timeline(st)'
      BY <1>5, <2>2
    <3>2. mods \in Int
      BY DEF EditorTypeOK
    <3>3. ASSUME NEW n \in 0..Moments, SavedAt(st, n)
          PROVE  SavedAt(st, n)'
      <4>1. /\ (mods + n >= Len(undo)) <=> (mods' + n >= Len(undo'))
            /\ (mods + n = Len(undo)) <=> (mods' + n = Len(undo'))
        BY <1>2, <2>1, <3>2
      <4>2. \A i \in 1..n : Edits(Line(i))' = Edits(Line(i))
        BY <1>2
      <4>. QED  BY <3>3, <4>1, <4>2 DEF SavedAt
    <3>4. Reachable(st)'
      BY <1>1, <1>2, <3>3 DEF Reachable, OutOfReach
    <3>. QED  BY <3>1, <3>4 DEF LineInv
<1>4. CASE Mgr!Redo
  <2>1. /\ Len(undo') = Len(undo) + 1 /\ Len(undo) + 1 \in 1..Moments
        /\ Line(Len(undo) + 1) = Last(redo) /\ mods' = mods + 1
    BY <1>4, LineMove
  <2>2. doc' = st[Len(undo')]
    <3>1. st[Len(undo) + 1] = st[Len(undo) + 1 - 1] \cup Edits(Last(redo)) /\ doc = st[Len(undo)]
      BY <1>1, <2>1 DEF Timeline
    <3>2. Len(undo) + 1 - 1 = Len(undo)
      BY <1>2
    <3>. QED  BY <1>4, <2>1, <3>1, <3>2
  <2>. QED
    <3>1. Timeline(st)'
      BY <1>5, <2>2
    <3>2. mods \in Int
      BY DEF EditorTypeOK
    <3>3. ASSUME NEW n \in 0..Moments, SavedAt(st, n)
          PROVE  SavedAt(st, n)'
      <4>1. /\ (mods + n >= Len(undo)) <=> (mods' + n >= Len(undo'))
            /\ (mods + n = Len(undo)) <=> (mods' + n = Len(undo'))
        BY <1>2, <2>1, <3>2
      <4>2. \A i \in 1..n : Edits(Line(i))' = Edits(Line(i))
        BY <1>2
      <4>. QED  BY <3>3, <4>1, <4>2 DEF SavedAt
    <3>4. Reachable(st)'
      BY <1>1, <1>2, <3>3 DEF Reachable, OutOfReach
    <3>. QED  BY <3>1, <3>4 DEF LineInv
<1>. QED  BY <1>3, <1>4

\* A new item is pushed, with edits K.
LEMMA LinePushed ==
  ASSUME EditorTypeOK, LineInv, ~starting,
         NEW x \in Item, undo' = Append(undo, x), redo' = <<>>, x \notin ToSet(undo),
         NEW K \in SUBSET Edit, K \cap (doc \cup saved) = {}, K # {} \/ starting',
         doc' = doc \cup K, mods' = mods + 1, saved' = saved,
         Edits(x)' = K, x \in Placeholder => began'[x][1] = doc,
         \A y \in ToSet(undo) : Edits(y)' = Edits(y) /\ began'[y] = began[y]
  PROVE  LineInv'
<1>0. PICK k \in Nat : k = Len(undo)
  BY LineOp
<1>1. PICK st : Timeline(st) /\ Reachable(st)
  BY DEF LineInv
<1>2. /\ k \in Nat /\ Moments \in Nat /\ k <= Moments /\ Len(undo') = k + 1 /\ Moments' = k + 1
      /\ \A i \in 1..k : Line(i)' = Line(i) /\ Line(i) \in ToSet(undo)
      /\ Line(k + 1)' = x
  <2>1. DOMAIN undo = 1..k
    BY <1>0 DEF EditorTypeOK
  <2>2. \A i \in 1..k : Line(i) = undo[i]
    BY <1>0 DEF Line
  <2>3. \A i \in 1..k : Line(i) \in ToSet(undo)
    BY <2>1, <2>2 DEF ToSet
  <2>4. Moments \in Nat /\ k <= Moments
    BY <1>0, LineOp
  <2>5. /\ Len(undo') = k + 1 /\ Moments' = k + 1 /\ Line(k + 1)' = x
        /\ \A i \in 1..k : Line(i)' = Line(i)
    BY <1>0, LinePush
  <2>. QED  BY <2>3, <2>4, <2>5
<1>9. PICK st2 : st2 = [i \in 0..(k + 1) |-> IF i <= k THEN st[i] ELSE doc']
  OBVIOUS
<1>3. /\ \A i \in 0..k : st2[i] = st[i] /\ i \in 0..Moments
      /\ st2[k + 1] = doc' /\ st[k] = doc
      /\ \A i \in 0..(k + 1) : i \in 0..k \/ i = k + 1
      /\ DOMAIN st2 = 0..(k + 1)
  <2>1. \A i \in 0..k : i <= k /\ i \in 0..(k + 1) /\ i \in 0..Moments
    BY <1>2
  <2>2. k + 1 \in 0..(k + 1) /\ ~(k + 1 <= k) /\ \A i \in 0..(k + 1) : i \in 0..k \/ i = k + 1
    BY <1>2
  <2>3. st[k] = doc
    BY <1>0, <1>1 DEF Timeline
  <2>. QED  BY <1>9, <2>1, <2>2, <2>3
<1>4. st2 \in [0..(k + 1) -> SUBSET Edit]
  <2>1. st[k] \in SUBSET Edit /\ \A i \in 0..k : st[i] \in SUBSET Edit
    BY <1>1, <1>2, <1>3 DEF Timeline
  <2>2. doc' \in SUBSET Edit
    BY DEF EditorTypeOK
  <2>. QED  BY <1>3, <1>9, <2>1, <2>2
<1>5. /\ \A i, j \in 0..k : i <= j => st[i] \subseteq st[j]
      /\ \A i \in 0..k : st[i] \subseteq doc
  <2>1. \A i, j \in 0..k : i <= j => st[i] \subseteq st[j]
    BY <1>1, <1>3 DEF Timeline
  <2>2. k \in 0..k /\ \A i \in 0..k : i <= k
    BY <1>2
  <2>. QED  BY <1>3, <2>1, <2>2
<1>6. \A i \in 1..k : /\ i \in 1..Moments /\ i # k + 1 /\ i - 1 \in 0..k /\ i \in 0..k
                      /\ Edits(Line(i))' = Edits(Line(i)) /\ began'[Line(i)] = began[Line(i)]
  <2>. SUFFICES ASSUME NEW i \in 1..k
                PROVE  /\ i \in 1..Moments /\ i # k + 1 /\ i - 1 \in 0..k /\ i \in 0..k
                       /\ Edits(Line(i))' = Edits(Line(i)) /\ began'[Line(i)] = began[Line(i)]
    OBVIOUS
  <2>1. i \in 1..Moments /\ i # k + 1 /\ i - 1 \in 0..k /\ i \in 0..k
    BY <1>2
  <2>2. PICK y : y = Line(i)
    OBVIOUS
  <2>3. y \in ToSet(undo) /\ Line(i)' = y
    BY <1>2, <2>2
  <2>4. Edits(Line(i))' = Edits(y)' /\ Edits(y)' = Edits(y) /\ began'[y] = began[y]
    BY <2>3 DEF Edits
  <2>. QED  BY <2>1, <2>2, <2>4
<1>7. Timeline(st2)'
  <2>1. st2 \in [0..Moments' -> SUBSET Edit] /\ st2[Len(undo')] = doc'
    BY <1>2, <1>3, <1>4
  <2>2. ASSUME NEW i \in 0..(k + 1), NEW j \in 0..(k + 1), i <= j
        PROVE  st2[i] \subseteq st2[j]
    <3>1. CASE j = k + 1
      BY <1>3, <1>5, <3>1
    <3>2. CASE j # k + 1
      <4>1. i \in 0..k /\ j \in 0..k
        BY <1>2, <2>2, <3>2
      <4>. QED  BY <1>3, <1>5, <2>2, <4>1
    <3>. QED  BY <3>1, <3>2
  <2>3. ASSUME NEW i \in 1..(k + 1), NEW j \in 1..(k + 1), Line(i)' = Line(j)'
        PROVE  i = j
    <3>1. (i \in 1..k \/ i = k + 1) /\ (j \in 1..k \/ j = k + 1)
      BY <1>2
    <3>2. \A m, n \in 1..k : Line(m) = Line(n) => m = n
      BY <1>1, <1>6 DEF Timeline
    <3>. QED  BY <1>2, <2>3, <3>1, <3>2
  <2>4. ASSUME NEW i \in 1..(k + 1)
        PROVE  /\ st2[i] = st2[i - 1] \cup Edits(Line(i))' /\ st2[i - 1] \cap Edits(Line(i))' = {}
               /\ Edits(Line(i))' # {} \/ (starting' /\ i = Len(undo'))
               /\ Line(i)' \in Placeholder => began'[Line(i)'][1] = st2[i - 1]
    <3>1. CASE i \in 1..k
      <4>1. /\ st[i] = st[i - 1] \cup Edits(Line(i)) /\ st[i - 1] \cap Edits(Line(i)) = {}
            /\ Edits(Line(i)) # {}
            /\ Line(i) \in Placeholder => began[Line(i)][1] = st[i - 1]
        BY <1>1, <1>6, <3>1 DEF Timeline
      <4>. QED  BY <1>2, <1>3, <1>6, <3>1, <4>1
    <3>2. CASE i = k + 1
      <4>1. i - 1 = k /\ k \in 0..k
        BY <1>2, <3>2
      <4>2. Edits(Line(i))' = K
        BY <1>2, <3>2 DEF Edits
      <4>. QED  BY <1>2, <1>3, <3>2, <4>1, <4>2
    <3>. QED  BY <1>2, <3>1, <3>2
  <2>. QED  BY <1>2, <2>1, <2>2, <2>3, <2>4 DEF Timeline
<1>8. Reachable(st2)'
  <2>1. ASSUME NEW e \in saved, e \notin doc
        PROVE  OutOfReach(st2)'
    BY <1>2, <1>3, <2>1 DEF OutOfReach
  <2>2. CASE OutOfReach(st)
    <3>1. PICK e \in saved : e \notin st[Moments]
      BY <2>2 DEF OutOfReach
    <3>2. st[k] \subseteq st[Moments]
      BY <1>1, <1>2 DEF Timeline
    <3>. QED  BY <1>3, <2>1, <3>1, <3>2 DEF Reachable
  <2>3. ASSUME NEW n \in 0..Moments, SavedAt(st, n), n <= k
        PROVE  SavedAt(st2, n)' /\ n \in 0..Moments'
    <3>1. n \in 0..k /\ mods \in Int
      BY <1>2, <2>3 DEF EditorTypeOK
    <3>2. /\ (mods + n >= k) <=> (mods' + n >= Len(undo'))
          /\ (mods + n = k) <=> (mods' + n = Len(undo'))
      BY <1>2, <3>1
    <3>3. \A i \in 1..n : Edits(Line(i))' = Edits(Line(i))
      BY <1>2, <1>6, <2>3
    <3>4. saved \subseteq st[n] /\ mods + n >= k /\ (mods + n = k => saved = st[n])
      BY <1>0, <2>3 DEF SavedAt
    <3>5. \A i \in 1..n : Edits(Line(i)) \cap saved # {}
      BY <2>3 DEF SavedAt
    <3>. QED  BY <1>2, <1>3, <3>1, <3>2, <3>3, <3>4, <3>5 DEF SavedAt
  <2>4. ASSUME NEW n \in 0..Moments, SavedAt(st, n), ~(n <= k)
        PROVE  OutOfReach(st2)'
    <3>1. k + 1 \in 1..n /\ k + 1 \in 1..Moments /\ k + 1 - 1 = k
      BY <1>2, <2>4
    <3>2. Edits(Line(k + 1)) \cap saved # {}
      BY <2>4, <3>1 DEF SavedAt
    <3>3. st[k + 1 - 1] \cap Edits(Line(k + 1)) = {}
      BY <1>1, <3>1 DEF Timeline
    <3>. QED  BY <1>3, <2>1, <3>1, <3>2, <3>3
  <2>. QED  BY <1>1, <2>2, <2>3, <2>4 DEF Reachable
<1>. QED  BY <1>7, <1>8 DEF LineInv

\* The placeholder on top takes a new item in, with edits K.
LEMMA LineMerged ==
  ASSUME EditorTypeOK, LineInv, undo # <<>>, undo' = undo, redo' = <<>>,
         NEW q \in Item, q = Last(undo),
         NEW K \in SUBSET Edit, K \cap (doc \cup saved) = {}, K # {} \/ ~starting,
         doc' = doc \cup K, mods' = mods + 1, saved' = saved,
         Edits(q)' = Edits(q) \cup K,
         \A y \in ToSet(undo) : (y # q => Edits(y)' = Edits(y)) /\ began'[y] = began[y]
  PROVE  LineInv'
<1>0. PICK k \in Nat : k = Len(undo)
  BY LineOp
<1>1. PICK st : Timeline(st) /\ Reachable(st)
  BY DEF LineInv
<1>2. /\ k # 0 /\ Moments \in Nat /\ k <= Moments /\ Len(undo') = k /\ Moments' = k
      /\ \A i \in 1..k : Line(i)' = Line(i) /\ Line(i) \in ToSet(undo)
      /\ Line(k) = q
  <2>1. DOMAIN undo = 1..k /\ k # 0
    BY <1>0, EmptySeq DEF EditorTypeOK
  <2>2. \A i \in 1..k : Line(i) = undo[i]
    BY <1>0 DEF Line
  <2>3. \A i \in 1..k : Line(i) \in ToSet(undo)
    BY <2>1, <2>2 DEF ToSet
  <2>4. Moments \in Nat /\ k <= Moments /\ Line(k) = q
    BY <1>0, LineOp
  <2>5. Len(undo') = k /\ Moments' = k /\ \A i \in 1..k : Line(i)' = Line(i)
    BY <1>0, LineCut
  <2>. QED  BY <2>1, <2>3, <2>4, <2>5
<1>3. PICK st2 : st2 = [i \in 0..k |-> IF i < k THEN st[i] ELSE doc']
  OBVIOUS
<1>4. /\ \A i \in 0..(k - 1) : st2[i] = st[i] /\ i \in 0..k /\ i \in 0..Moments
      /\ st2[k] = doc' /\ st[k] = doc
      /\ \A i \in 0..k : i \in 0..(k - 1) \/ i = k
  <2>1. \A i \in 0..(k - 1) : i < k /\ i \in 0..k /\ i \in 0..Moments
    BY <1>2
  <2>2. k \in 0..k /\ ~(k < k) /\ \A i \in 0..k : i \in 0..(k - 1) \/ i = k
    BY <1>2
  <2>3. st[k] = doc
    BY <1>0, <1>1 DEF Timeline
  <2>. QED  BY <1>3, <2>1, <2>2, <2>3
<1>5. st2 \in [0..k -> SUBSET Edit]
  <2>1. \A i \in 0..(k - 1) : st[i] \in SUBSET Edit
    BY <1>1, <1>4 DEF Timeline
  <2>2. doc' \in SUBSET Edit
    BY DEF EditorTypeOK
  <2>. QED  BY <1>3, <1>4, <2>1, <2>2
<1>6. /\ \A i, j \in 0..(k - 1) : i <= j => st[i] \subseteq st[j]
      /\ \A i \in 0..(k - 1) : st[i] \subseteq doc
  <2>1. \A i, j \in 0..(k - 1) : i <= j => st[i] \subseteq st[j]
    BY <1>1, <1>4 DEF Timeline
  <2>2. k \in 0..Moments /\ \A i \in 0..(k - 1) : i <= k
    BY <1>2
  <2>3. \A i \in 0..(k - 1) : st[i] \subseteq st[k]
    BY <1>1, <1>4, <2>2 DEF Timeline
  <2>. QED  BY <1>4, <2>1, <2>3
<1>7. \A i \in 1..k : /\ i \in 1..Moments /\ i - 1 \in 0..(k - 1)
                      /\ Edits(Line(i))' = IF i = k THEN Edits(q) \cup K ELSE Edits(Line(i))
                      /\ began'[Line(i)] = began[Line(i)]
  <2>. SUFFICES ASSUME NEW i \in 1..k
                PROVE  /\ i \in 1..Moments /\ i - 1 \in 0..(k - 1)
                       /\ Edits(Line(i))' = IF i = k THEN Edits(q) \cup K ELSE Edits(Line(i))
                       /\ began'[Line(i)] = began[Line(i)]
    OBVIOUS
  <2>1. i \in 1..Moments /\ i - 1 \in 0..(k - 1) /\ k \in 1..Moments
    BY <1>2
  <2>2. PICK y : y = Line(i)
    OBVIOUS
  <2>3. y \in ToSet(undo) /\ Line(i)' = y
    BY <1>2, <2>2
  <2>4. Edits(Line(i))' = Edits(y)' /\ began'[y] = began[y]
    BY <2>3 DEF Edits
  <2>5. y = q <=> i = k
    BY <1>1, <1>2, <2>1, <2>2 DEF Timeline
  <2>. QED  BY <2>1, <2>2, <2>3, <2>4, <2>5
<1>8. Timeline(st2)'
  <2>1. st2 \in [0..Moments' -> SUBSET Edit] /\ st2[Len(undo')] = doc'
    BY <1>2, <1>4, <1>5
  <2>2. ASSUME NEW i \in 0..k, NEW j \in 0..k, i <= j
        PROVE  st2[i] \subseteq st2[j]
    <3>1. CASE j = k
      BY <1>4, <1>6, <3>1
    <3>2. CASE j # k
      <4>1. i \in 0..(k - 1) /\ j \in 0..(k - 1)
        BY <1>2, <2>2, <3>2
      <4>. QED  BY <1>4, <1>6, <2>2, <4>1
    <3>. QED  BY <3>1, <3>2
  <2>3. \A i, j \in 1..k : Line(i)' = Line(j)' => i = j
    BY <1>1, <1>2, <1>7 DEF Timeline
  <2>4. ASSUME NEW i \in 1..k
        PROVE  /\ st2[i] = st2[i - 1] \cup Edits(Line(i))' /\ st2[i - 1] \cap Edits(Line(i))' = {}
               /\ Edits(Line(i))' # {}
               /\ Line(i)' \in Placeholder => began'[Line(i)'][1] = st2[i - 1]
    <3>1. /\ st[i] = st[i - 1] \cup Edits(Line(i)) /\ st[i - 1] \cap Edits(Line(i)) = {}
          /\ Edits(Line(i)) # {} \/ (starting /\ i = k)
          /\ Line(i) \in Placeholder => began[Line(i)][1] = st[i - 1]
      BY <1>0, <1>1, <1>7 DEF Timeline
    <3>2. st2[i - 1] = st[i - 1] /\ st[i - 1] \subseteq doc
      BY <1>4, <1>6, <1>7
    <3>3. CASE i = k
      BY <1>2, <1>4, <1>7, <3>1, <3>2, <3>3
    <3>4. CASE i # k
      <4>1. i \in 0..(k - 1)
        BY <1>2, <3>4
      <4>. QED  BY <1>2, <1>4, <1>7, <3>1, <3>2, <3>4, <4>1
    <3>. QED  BY <3>3, <3>4
  <2>. QED  BY <1>2, <2>1, <2>2, <2>3, <2>4 DEF Timeline
<1>9. Reachable(st2)'
  <2>1. ASSUME NEW e \in saved, e \notin doc
        PROVE  OutOfReach(st2)'
    BY <1>2, <1>4, <2>1 DEF OutOfReach
  <2>2. CASE OutOfReach(st)
    <3>1. PICK e \in saved : e \notin st[Moments]
      BY <2>2 DEF OutOfReach
    <3>2. st[k] \subseteq st[Moments]
      BY <1>1, <1>2 DEF Timeline
    <3>. QED  BY <1>4, <2>1, <3>1, <3>2 DEF Reachable
  <2>3. ASSUME NEW n \in 0..Moments, SavedAt(st, n), n <= k
        PROVE  SavedAt(st2, n)' /\ n \in 0..Moments'
    <3>1. n \in 0..k /\ mods \in Int
      BY <1>2, <2>3 DEF EditorTypeOK
    <3>2. mods + n >= k
      BY <1>0, <2>3 DEF SavedAt
    <3>3. mods' + n >= Len(undo') /\ mods' + n # Len(undo')
      BY <1>2, <3>1, <3>2
    <3>4. saved \subseteq st2[n]
      <4>1. saved \subseteq st[n]
        BY <2>3 DEF SavedAt
      <4>. QED  BY <1>4, <3>1, <4>1
    <3>5. \A i \in 1..n : Edits(Line(i))' \cap saved # {}
      <4>1. \A i \in 1..n : Edits(Line(i)) \cap saved # {}
        BY <2>3 DEF SavedAt
      <4>2. \A i \in 1..n : i \in 1..k
        BY <1>2, <2>3
      <4>3. \A i \in 1..n : Edits(Line(i)) \subseteq Edits(Line(i))'
        BY <1>2, <1>7, <4>2
      <4>. QED  BY <4>1, <4>3
    <3>. QED  BY <1>2, <3>1, <3>3, <3>4, <3>5 DEF SavedAt
  <2>4. ASSUME NEW n \in 0..Moments, SavedAt(st, n), ~(n <= k)
        PROVE  OutOfReach(st2)'
    <3>1. k + 1 \in 1..n /\ k + 1 \in 1..Moments /\ k + 1 - 1 = k
      BY <1>2, <2>4
    <3>2. Edits(Line(k + 1)) \cap saved # {}
      BY <2>4, <3>1 DEF SavedAt
    <3>3. st[k + 1 - 1] \cap Edits(Line(k + 1)) = {}
      BY <1>1, <3>1 DEF Timeline
    <3>. QED  BY <1>4, <2>1, <3>1, <3>2, <3>3
  <2>. QED  BY <1>1, <2>2, <2>3, <2>4 DEF Reachable
<1>. QED  BY <1>8, <1>9 DEF LineInv

\* With undo disabled, an item is dropped; or the stacks are cleared.
LEMMA LineDropped ==
  ASSUME EditorTypeOK, LineInv, undo' = <<>>, redo' = <<>>, saved' = saved,
         NEW K \in SUBSET Edit, K \cap (doc \cup saved) = {}, doc' = doc \cup K,
         mods' = mods \/ (mods' = mods + 1 /\ undo = <<>>), K = {} \/ mods' = mods + 1
  PROVE  LineInv'
<1>1. PICK st : Timeline(st) /\ Reachable(st)
  BY DEF LineInv
<1>2. PICK k \in Nat : k = Len(undo)
  BY LineOp
<1>3. Moments \in Nat /\ k <= Moments /\ Moments' = 0 /\ Len(undo') = 0 /\ st[k] = doc
  BY <1>1, <1>2, LineOp DEF Moments, Timeline
<1>4. PICK st2 : st2 = [i \in 0..0 |-> doc']
  OBVIOUS
<1>5. st2 \in [0..0 -> SUBSET Edit] /\ st2[0] = doc' /\ 0..0 = {0} /\ 1..0 = {}
  BY <1>4 DEF EditorTypeOK
<1>6. Timeline(st2)'
  BY <1>3, <1>5 DEF Timeline
<1>7. ASSUME NEW e \in saved, e \notin doc
      PROVE  Reachable(st2)'
  BY <1>3, <1>5, <1>7 DEF OutOfReach, Reachable
<1>8. ASSUME OutOfReach(st)
      PROVE  Reachable(st2)'
  <2>1. PICK e \in saved : e \notin st[Moments]
    BY <1>8 DEF OutOfReach
  <2>2. st[k] \subseteq st[Moments]
    BY <1>1, <1>3 DEF Timeline
  <2>. QED  BY <1>3, <1>7, <2>1, <2>2
<1>9. ASSUME NEW n \in 0..Moments, SavedAt(st, n), n <= k
      PROVE  Reachable(st2)'
  <2>1. /\ saved \subseteq st[n] /\ mods + n >= k /\ (mods + n = k => saved = st[n])
    BY <1>2, <1>9 DEF SavedAt
  <2>2. st[n] \subseteq st[k] /\ mods \in Int
    BY <1>1, <1>3, <1>9 DEF Timeline, EditorTypeOK
  <2>3. saved \subseteq st2[0]
    BY <1>3, <1>5, <2>1, <2>2
  <2>4. mods' + 0 >= 0 /\ (mods' + 0 = 0 => K = {} /\ mods + n = k /\ n = k)
    <3>1. undo = <<>> => k = 0
      BY <1>2
    <3>. QED  BY <1>3, <1>9, <2>1, <2>2, <3>1
  <2>5. mods' + 0 = 0 => saved = st2[0]
    BY <1>3, <1>5, <2>1, <2>4
  <2>. QED  BY <1>3, <1>5, <2>3, <2>4, <2>5 DEF SavedAt, Reachable
<1>10. ASSUME NEW n \in 0..Moments, SavedAt(st, n), ~(n <= k)
       PROVE  Reachable(st2)'
  <2>1. k + 1 \in 1..n /\ k + 1 \in 1..Moments /\ k + 1 - 1 = k
    BY <1>3, <1>10
  <2>2. Edits(Line(k + 1)) \cap saved # {}
    BY <1>10, <2>1 DEF SavedAt
  <2>3. st[k + 1 - 1] \cap Edits(Line(k + 1)) = {}
    BY <1>1, <2>1 DEF Timeline
  <2>. QED  BY <1>3, <1>7, <2>1, <2>2, <2>3
<1>11. Reachable(st2)'
  BY <1>1, <1>8, <1>9, <1>10 DEF Reachable
<1>. QED  BY <1>6, <1>11 DEF LineInv

\* The document is saved: all that has been done made it.
LEMMA LineSaved ==
  ASSUME EditorTypeOK, LineInv, ~starting, mods' = 0, saved' = doc,
         UNCHANGED <<undo, redo, doc, plc, began, starting>>
  PROVE  LineInv'
<1>1. PICK st : Timeline(st) /\ Reachable(st)
  BY DEF LineInv
<1>2. PICK k \in Nat : k = Len(undo)
  BY LineOp
<1>3. Moments \in Nat /\ k <= Moments /\ st[k] = doc
  BY <1>1, <1>2, LineOp DEF Timeline
<1>4. \A i : Line(i)' = Line(i) /\ Edits(Line(i))' = Edits(Line(i))
  BY DEF Line, Edits, Moments
<1>5. Moments' = Moments /\ Len(undo') = k
  BY <1>2 DEF Moments
<1>6. Timeline(st)'
  BY <1>1, <1>2, <1>4, <1>5 DEF Timeline
<1>7. ASSUME NEW i \in 1..k
      PROVE  Edits(Line(i)) \cap doc # {}
  <2>1. i \in 1..Moments /\ i \in 0..Moments /\ k \in 0..Moments /\ i <= k
    BY <1>3
  <2>2. st[i] = st[i - 1] \cup Edits(Line(i)) /\ Edits(Line(i)) # {} /\ st[i] \subseteq st[k]
    BY <1>1, <2>1 DEF Timeline
  <2>. QED  BY <1>3, <2>2
<1>8. SavedAt(st, k)'
  BY <1>3, <1>4, <1>5, <1>7 DEF SavedAt
<1>9. k \in 0..Moments'
  BY <1>3, <1>5
<1>. QED  BY <1>6, <1>8, <1>9 DEF LineInv, Reachable

-----------------------------------------------------------------------------
(* The invariant.                                                          *)

\* Merging and committing leave a placeholder's beginning, and merging an edit
\* into one that is open its end; only an edit is held.
LEMMA MergeOp ==
  ASSUME NEW r \in PlaceholderState
  PROVE  /\ \A x : Merge(r, x).start = r.start
         /\ \A x : x \notin Edit => Merge(r, x).kids = r.kids
         /\ \A x \in Edit : r.absorb => /\ Merge(r, x).end = r.end
                                        /\ ToSet(Merge(r, x).kids) = ToSet(r.kids) \cup {x}
         /\ Commit(r).start = r.start /\ Commit(r).end = r.end /\ Commit(r).kids = r.kids
         /\ BatchEnd(r).start = r.start /\ BatchEnd(r).end = selection /\ BatchEnd(r).kids = r.kids
<1>1. ASSUME NEW x
      PROVE  Merge(r, x).start = r.start /\ (x \notin Edit => Merge(r, x).kids = r.kids)
  BY DEF Merge, PlaceholderState
<1>2. ASSUME NEW x \in Edit, r.absorb
      PROVE  Merge(r, x).end = r.end /\ ToSet(Merge(r, x).kids) = ToSet(r.kids) \cup {x}
  <2>1. Merge(r, x) = [r EXCEPT !.kids = Append(@, x)]
    BY <1>2 DEF Merge
  <2>2. Merge(r, x).kids = Append(r.kids, x) /\ Merge(r, x).end = r.end /\ r.kids \in Seq(Edit)
    BY <2>1 DEF PlaceholderState
  <2>. QED  BY <2>2, AppendOp
<1>3. /\ Commit(r).start = r.start /\ Commit(r).end = r.end /\ Commit(r).kids = r.kids
      /\ BatchEnd(r).start = r.start /\ BatchEnd(r).end = selection /\ BatchEnd(r).kids = r.kids
  BY DEF Commit, BatchEnd, PlaceholderState
<1>. QED  BY <1>1, <1>2, <1>3

\* What is on a stack is not fresh.
LEMMA FreshOp ==
  ASSUME EditorTypeOK
  PROVE  /\ \A p : FreshPlaceholder(p) => p \notin ToSet(undo) /\ p \notin ToSet(redo)
         /\ \A e : FreshEdit(e) => e \notin ToSet(undo) /\ e \notin doc \cup saved
  BY SameOperators DEF FreshPlaceholder, FreshEdit, Mgr!Held

\* A batch makes its placeholder.
LEMMA StartUndoInv ==
  ASSUME UndoInv, NEW p \in Placeholder, StartPlaceholder(p)
  PROVE  GhostsTyped' /\ Quiet' /\ Told' /\ LineInv'
<1>1. /\ EditorTypeOK /\ GhostsTyped /\ Quiet /\ OneEntry /\ Told /\ LineInv
      /\ undo \in Seq(Item) /\ plc \in [Placeholder -> PlaceholderState]
      /\ began \in [Placeholder -> (SUBSET Edit) \X Selection]
      /\ ended \in [Placeholder -> Selection]
      /\ name \in Name /\ selState \in Selection /\ selection \in Selection
      /\ p \in Item /\ p \notin Edit /\ p # NoTxn
  BY EditorAssumption DEF UndoInv, GhostsTyped, EditorTypeOK, Item
<1>2. /\ depth > 0 /\ current = NoTxn /\ ~starting /\ holder = NoTxn /\ open = <<>>
      /\ p \notin ToSet(undo)
  <2>1. depth > 0 /\ current = NoTxn /\ FreshPlaceholder(p)
    BY DEF StartPlaceholder
  <2>2. p \notin ToSet(undo)
    BY <1>1, <2>1, FreshOp
  <2>3. ~starting /\ holder = NoTxn /\ open = <<>>
    BY <1>1, <2>1 DEF Told, Quiet
  <2>. QED  BY <2>1, <2>2, <2>3
<1>3. PICK t : t = [plc EXCEPT ![p] = NewPlaceholder]
  OBVIOUS
<1>4. /\ t \in [Placeholder -> PlaceholderState]
      /\ t[p].start = selState /\ t[p].end = NoRange /\ ToSet(t[p].kids) = {}
      /\ \A r \in Placeholder : r # p => t[r] = plc[r]
  <2>1. NewPlaceholder.start = selState /\ NewPlaceholder.end = NoRange /\ ToSet(NewPlaceholder.kids) = {}
    BY DEF NewPlaceholder, ToSet
  <2>. QED  BY <1>1, <1>3, <2>1, PlaceholderTypes
<1>5. /\ began' = [began EXCEPT ![p] = <<before, selState>>] /\ ended' = [ended EXCEPT ![p] = NoRange]
      /\ UNCHANGED <<limit, open, depth, selection, doc, saved, before>>
      /\ starting' = TRUE /\ mods' = mods + 1
      /\ current' = (IF TopPlaceholder(undo') = {} THEN p ELSE Last(undo'))
      /\ holder' = IF open = <<>> /\ undo' = undo /\ limit # 0 THEN Last(undo) ELSE p
  BY DEF StartPlaceholder, Counted
<1>6. /\ parts' = parts
      /\ \/ limit = 0 /\ undo' = undo /\ redo' = redo /\ plc' = t
         \/ limit # 0 /\ undo' = Append(undo, p) /\ redo' = <<>> /\ plc' = t
         \/ \E q \in Placeholder :
              /\ limit # 0 /\ undo' = undo /\ undo # <<>> /\ Last(undo) = q /\ redo' = <<>>
              /\ plc' = [t EXCEPT ![q] = Merge(t[q], p)]
  <2>1. Record(p, t)
    BY <1>3 DEF StartPlaceholder
  <2>. QED  BY <1>1, <1>4, <2>1, RecordCases
<1>7. GhostsTyped'
  BY <1>1, <1>5 DEF GhostsTyped, Selection
<1>8. /\ began'[p] = <<before, selState>> /\ ended'[p] = NoRange
      /\ \A r \in Placeholder : r # p => began'[r] = began[r] /\ ended'[r] = ended[r]
  BY <1>1, <1>5
<1>9. /\ \A r \in Placeholder : t[r].start = began'[r][2] /\ t[r].end = ended'[r]
      /\ NoTxn \notin Placeholder
  <2>1. NoTxn \notin Placeholder
    BY EditorAssumption DEF Item
  <2>2. \A r \in Placeholder : plc[r].start = began[r][2] /\ plc[r].end = ended[r]
    BY <1>1, <1>2, <2>1 DEF Told
  <2>. QED  BY <1>4, <1>8, <2>1, <2>2
<1>10. \A y \in ToSet(undo) : y \in Item /\ y # p
  BY <1>1, <1>2, ElementsOp
<1>11. CASE limit = 0 /\ undo' = undo /\ redo' = redo /\ plc' = t
  <2>1. undo = <<>> /\ redo = <<>>
    BY <1>1, <1>11 DEF Quiet
  <2>2. LineInv'
    <3>1. {} \in SUBSET Edit /\ doc' = doc \cup {}
      BY <1>5
    <3>. QED  BY <1>1, <1>5, <1>11, <2>1, <3>1, LineDropped
  <2>3. current' = p /\ holder' = p
    BY <1>5, <1>11, <2>1 DEF TopPlaceholder
  <2>4. Told'
    BY <1>1, <1>2, <1>5, <1>9, <1>11, <2>3 DEF Told
  <2>5. Quiet'
    BY <1>1, <1>5, <1>6, <1>11 DEF Quiet
  <2>. QED  BY <1>7, <2>2, <2>4, <2>5
<1>12. CASE limit # 0 /\ undo' = Append(undo, p) /\ redo' = <<>> /\ plc' = t
  <2>1. undo' # undo /\ undo' # <<>> /\ Last(undo') = p
    <3>1. undo \in Seq(Item) /\ p \in Item
      BY <1>1
    <3>2. Append(undo, p) # undo /\ Append(undo, p) # <<>> /\ Last(Append(undo, p)) = p
      BY <3>1, AppendOp
    <3>. QED  BY <1>12, <3>2
  <2>2. current' = p /\ holder' = p
    BY <1>5, <1>12, <2>1 DEF TopPlaceholder
  <2>3. LineInv'
    <3>1. {} \in SUBSET Edit /\ doc' = doc \cup {} /\ {} \cap (doc \cup saved) = {}
      BY <1>5
    <3>2. Edits(p)' = {} /\ began'[p][1] = doc
      <4>1. before = doc
        BY <1>1, <1>2, <1>12 DEF OneEntry
      <4>. QED  BY <1>4, <1>8, <1>12, <4>1 DEF Edits
    <3>3. \A y \in ToSet(undo) : Edits(y)' = Edits(y)
      BY <1>4, <1>10, <1>12 DEF Edits
    <3>4. \A y \in ToSet(undo) : began'[y] = began[y]
      BY <1>1, <1>5, <1>10
    <3>. QED  BY <1>1, <1>2, <1>5, <1>12, <3>1, <3>2, <3>3, <3>4, LinePushed
  <2>4. Told'
    BY <1>1, <1>2, <1>5, <1>9, <1>12, <2>2 DEF Told
  <2>5. Quiet'
    BY <1>1, <1>5, <1>6, <1>12 DEF Quiet
  <2>. QED  BY <1>7, <2>3, <2>4, <2>5
<1>13. ASSUME NEW q \in Placeholder, limit # 0, undo' = undo, undo # <<>>, Last(undo) = q, redo' = <<>>,
              plc' = [t EXCEPT ![q] = Merge(t[q], p)]
       PROVE  GhostsTyped' /\ Quiet' /\ Told' /\ LineInv'
  <2>1. q \in ToSet(undo) /\ q # p /\ q \in Item
    <3>1. undo \in Seq(Item) /\ DOMAIN undo = 1..Len(undo) /\ Len(undo) \in 1..Len(undo)
      BY <1>1, <1>13, EmptySeq
    <3>. QED  BY <1>10, <1>13, <3>1 DEF ToSet, Last
  <2>2. current' = q /\ holder' = q
    BY <1>2, <1>5, <1>13 DEF TopPlaceholder
  <2>3. /\ plc'[q].start = t[q].start /\ plc'[q].kids = t[q].kids
        /\ \A r \in Placeholder : r # q => plc'[r] = t[r]
    BY <1>1, <1>4, <1>13, MergeOp
  <2>4. LineInv'
    <3>1. {} \in SUBSET Edit /\ doc' = doc \cup {} /\ {} \cap (doc \cup saved) = {}
      BY <1>5
    <3>2. Edits(q)' = Edits(q) \cup {}
      BY <1>4, <2>1, <2>3 DEF Edits
    <3>3. \A y \in ToSet(undo) : y # q => Edits(y)' = Edits(y)
      BY <1>4, <1>10, <2>3 DEF Edits
    <3>4. \A y \in ToSet(undo) : began'[y] = began[y]
      BY <1>1, <1>5, <1>10
    <3>. QED  BY <1>1, <1>2, <1>5, <1>13, <2>1, <3>1, <3>2, <3>3, <3>4, LineMerged
  <2>5. Told'
    <3>1. \A r \in Placeholder : plc'[r].start = began'[r][2] /\ (r # q => plc'[r].end = ended'[r])
      BY <1>9, <2>3
    <3>. QED  BY <1>1, <1>2, <1>5, <1>9, <2>2, <3>1 DEF Told
  <2>6. Quiet'
    BY <1>1, <1>5, <1>6, <1>13 DEF Quiet
  <2>. QED  BY <1>7, <2>4, <2>5, <2>6
<1>. QED  BY <1>6, <1>11, <1>12, <1>13

\* A transaction is done.
LEMMA DoUndoInv ==
  ASSUME UndoInv, NEW e \in Edit, DoTransaction(e)
  PROVE  GhostsTyped' /\ Quiet' /\ Told' /\ LineInv'
<1>1. /\ EditorTypeOK /\ GhostsTyped /\ Quiet /\ OneEntry /\ Told /\ LineInv
      /\ undo \in Seq(Item) /\ plc \in [Placeholder -> PlaceholderState]
      /\ e \in Item /\ e \notin Placeholder
  BY EditorAssumption DEF UndoInv, EditorTypeOK, Item
<1>2. /\ e \notin ToSet(undo) /\ e \notin doc \cup saved
      /\ {e} \in SUBSET Edit /\ {e} \cap (doc \cup saved) = {}
  BY <1>1, FreshOp DEF DoTransaction
<1>3. /\ doc' = doc \cup {e} /\ mods' = mods + 1 /\ starting' = FALSE
      /\ UNCHANGED <<limit, open, depth, current, name, selState, saved, before, holder, began, ended>>
  BY DEF DoTransaction, Counted, ghosts
<1>4. /\ parts' = parts
      /\ \/ limit = 0 /\ undo' = undo /\ redo' = redo /\ plc' = plc
         \/ /\ limit # 0 /\ undo' = Append(undo, e) /\ redo' = <<>> /\ plc' = plc
            /\ \A q \in Placeholder : undo # <<>> /\ Last(undo) = q => ~plc[q].absorb
         \/ \E q \in Placeholder :
              /\ limit # 0 /\ undo' = undo /\ undo # <<>> /\ Last(undo) = q /\ redo' = <<>>
              /\ plc' = [plc EXCEPT ![q] = Merge(plc[q], e)] /\ plc[q].absorb
  <2>1. Record(e, plc)
    BY DEF DoTransaction
  <2>2. \A q : Takes(plc[q], e, IF e \in Placeholder THEN plc[e] ELSE plc[q]) => plc[q].absorb
    BY <1>1 DEF Takes
  <2>. QED  BY <1>1, <2>1, <2>2, RecordCases
<1>5. GhostsTyped'
  BY <1>1, <1>3 DEF GhostsTyped
<1>6. ASSUME \A r \in Placeholder : plc'[r].start = plc[r].start /\ plc'[r].end = plc[r].end
      PROVE  Told'
  BY <1>1, <1>3, <1>6 DEF Told
<1>7. CASE limit = 0 /\ undo' = undo /\ redo' = redo /\ plc' = plc
  <2>1. undo = <<>> /\ redo = <<>>
    BY <1>1, <1>7 DEF Quiet
  <2>2. LineInv'
    BY <1>1, <1>2, <1>3, <1>7, <2>1, LineDropped
  <2>3. Quiet'
    BY <1>1, <1>3, <1>4, <1>7 DEF Quiet
  <2>. QED  BY <1>5, <1>6, <1>7, <2>2, <2>3
<1>8. CASE /\ limit # 0 /\ undo' = Append(undo, e) /\ redo' = <<>> /\ plc' = plc
           /\ \A q \in Placeholder : undo # <<>> /\ Last(undo) = q => ~plc[q].absorb
  <2>1. ~starting
    <3>. SUFFICES ASSUME starting
                  PROVE  FALSE
      OBVIOUS
    <3>1. depth > 0 /\ current # NoTxn /\ open = <<>> /\ current \in Placeholder
      BY <1>1 DEF Told, Quiet, EditorTypeOK
    <3>. QED  BY <1>1, <1>8, <3>1 DEF OneEntry
  <2>2. Edits(e)' = {e} /\ \A y \in ToSet(undo) : Edits(y)' = Edits(y) /\ began'[y] = began[y]
    BY <1>1, <1>3, <1>8 DEF Edits
  <2>3. LineInv'
    <3>1. {e} # {}
      OBVIOUS
    <3>. QED  BY <1>1, <1>2, <1>3, <1>8, <2>1, <2>2, <3>1, LinePushed
  <2>4. Quiet'
    BY <1>1, <1>3, <1>4, <1>8 DEF Quiet
  <2>. QED  BY <1>5, <1>6, <1>8, <2>3, <2>4
<1>9. ASSUME NEW q \in Placeholder, limit # 0, undo' = undo, undo # <<>>, Last(undo) = q, redo' = <<>>,
             plc' = [plc EXCEPT ![q] = Merge(plc[q], e)], plc[q].absorb
      PROVE  GhostsTyped' /\ Quiet' /\ Told' /\ LineInv'
  <2>1. /\ plc'[q].start = plc[q].start /\ plc'[q].end = plc[q].end
        /\ ToSet(plc'[q].kids) = ToSet(plc[q].kids) \cup {e}
        /\ \A r \in Placeholder : r # q => plc'[r] = plc[r]
    <3>1. plc'[q] = Merge(plc[q], e) /\ \A r \in Placeholder : r # q => plc'[r] = plc[r]
      BY ONLY <1>1, <1>9
    <3>2. plc[q] \in PlaceholderState /\ plc[q].absorb
      BY ONLY <1>1, <1>9
    <3>3. e \in Edit
      BY <1>1
    <3>. QED  BY ONLY <3>1, <3>2, <3>3, MergeOp
  <2>2. LineInv'
    <3>1. /\ Edits(q)' = Edits(q) \cup {e} /\ q \in Item /\ {e} # {}
          /\ \A y \in ToSet(undo) : y # q => Edits(y)' = Edits(y)
      BY <2>1 DEF Edits, Item
    <3>2. \A y \in ToSet(undo) : began'[y] = began[y]
      BY <1>3
    <3>. QED  BY <1>1, <1>2, <1>3, <1>9, <3>1, <3>2, LineMerged
  <2>3. Told'
    BY <1>6, <2>1
  <2>4. Quiet'
    BY <1>1, <1>3, <1>4, <1>9 DEF Quiet
  <2>. QED  BY <1>5, <2>2, <2>3, <2>4
<1>. QED  BY <1>4, <1>7, <1>8, <1>9

\* Committing a placeholder touches neither its selections nor its edits.
LEMMA CommittingKeeps ==
  ASSUME EditorTypeOK, plc' \in Committing
  PROVE  \A r \in Placeholder : /\ plc'[r].start = plc[r].start /\ plc'[r].end = plc[r].end
                              /\ plc'[r].kids = plc[r].kids
<1>1. plc \in [Placeholder -> PlaceholderState]
  BY DEF EditorTypeOK
<1>2. plc' = plc \/ \E p \in Placeholder : plc' = [plc EXCEPT ![p] = Commit(@)]
  BY TopOp DEF Committing
<1>3. \A r \in Placeholder : plc'[r] = plc[r] \/ plc'[r] = Commit(plc[r])
  BY <1>1, <1>2
<1>. QED  BY <1>1, <1>3, MergeOp

\* What is undone is no longer in effect, and what is redone is again.
LEMMA WalkUndoInv ==
  ASSUME NoBatchAround, UndoInv, Undo \/ Redo
  PROVE  GhostsTyped' /\ Quiet' /\ Told' /\ LineInv'
<1>1. /\ EditorTypeOK /\ GhostsTyped /\ Quiet /\ Told /\ LineInv
      /\ undo \in Seq(Item) /\ redo \in Seq(Item)
      /\ UNCHANGED <<depth, current, starting, saved, before, holder, began, ended>>
      /\ depth = 0 /\ (Mgr!Undo \/ Mgr!Redo)
  BY DEF UndoInv, EditorTypeOK, Undo, Redo, batch, ghosts
<1>2. \A r \in Placeholder : /\ plc'[r].start = plc[r].start /\ plc'[r].end = plc[r].end
                           /\ plc'[r].kids = plc[r].kids
  <2>1. plc' \in Committing
    BY DEF Undo, Redo, Committing
  <2>. QED  BY <1>1, <2>1, CommittingKeeps
<1>3. GhostsTyped' /\ Told'
  BY <1>1, <1>2 DEF GhostsTyped, Told
<1>4. Quiet'
  BY <1>1 DEF Quiet, Mgr!Undo, Mgr!Redo
<1>5. ~starting
  BY <1>1 DEF Told
<1>6. CASE Undo
  <2>1. ~Mgr!Redo
    BY <1>1, <1>6, LineMove DEF Undo
  <2>2. doc' = doc \ Edits(Last(undo)) /\ mods' = mods - 1
    <3>1. Last(undo) \in Item
      BY <1>1, <1>6, FrontOp DEF Undo, Mgr!Undo
    <3>. QED  BY <1>1, <1>6, <3>1, ContentOp DEF Undo
  <2>. QED  BY <1>1, <1>2, <1>3, <1>4, <1>5, <2>1, <2>2, LineWalked
<1>7. CASE Redo
  <2>1. ~Mgr!Undo
    BY <1>1, <1>7, LineMove DEF Redo
  <2>2. doc' = doc \cup Edits(Last(redo)) /\ mods' = mods + 1
    <3>1. Last(redo) \in Item
      BY <1>1, <1>7, FrontOp DEF Redo, Mgr!Redo
    <3>. QED  BY <1>1, <1>7, <3>1, ContentOp DEF Redo
  <2>. QED  BY <1>1, <1>2, <1>3, <1>4, <1>5, <2>1, <2>2, LineWalked
<1>. QED  BY <1>6, <1>7

\* Every step of the editor keeps the line.
LEMMA UndoStep ==
  ASSUME NoBatchAround, UndoInv, EditorNext
  PROVE  UndoInv'
<1>1. /\ EditorTypeOK /\ GhostsTyped /\ Quiet /\ OneEntry /\ Told /\ LineInv
      /\ plc \in [Placeholder -> PlaceholderState] /\ selection \in Selection
      /\ depth \in 0..MaxNesting /\ MaxNesting \in Nat
      /\ current \in Placeholder \cup {NoTxn} /\ NoTxn \notin Placeholder
      /\ doc \subseteq Edit
  BY EditorAssumption DEF UndoInv, EditorTypeOK, Item
<1>2. EditorTypeOK' /\ OneEntry'
  BY <1>1, EditorStep, OneEntryStep
<1>. SUFFICES GhostsTyped' /\ Quiet' /\ Told' /\ LineInv'
  BY <1>2 DEF UndoInv
<1>3. ASSUME NEW p \in Placeholder, StartPlaceholder(p)
      PROVE  GhostsTyped' /\ Quiet' /\ Told' /\ LineInv'
  BY <1>3, StartUndoInv
<1>4. ASSUME NEW e \in Edit, DoTransaction(e)
      PROVE  GhostsTyped' /\ Quiet' /\ Told' /\ LineInv'
  BY <1>4, DoUndoInv
<1>5. CASE Undo \/ Redo
  BY <1>5, WalkUndoInv
<1>6. ASSUME UNCHANGED <<undo, redo, doc, saved, began, mods, starting>>,
             \A p \in Placeholder : plc'[p].kids = plc[p].kids
      PROVE  LineInv'
  BY <1>1, <1>6, LineKept
<1>7. ASSUME NEW n \in Name, BeginPlaceHolderTransaction(n)
      PROVE  GhostsTyped' /\ Quiet' /\ Told' /\ LineInv'
  <2>1. UNCHANGED <<limit, open, undo, redo, parts, doc, saved, began, ended, mods, starting, plc>>
    BY <1>7 DEF BeginPlaceHolderTransaction, manager
  <2>2. Told'
    BY <1>1, <1>7, <2>1 DEF Told, BeginPlaceHolderTransaction
  <2>3. GhostsTyped' /\ Quiet'
    BY <1>1, <1>7, <2>1 DEF GhostsTyped, Quiet, BeginPlaceHolderTransaction
  <2>. QED  BY <1>6, <2>1, <2>2, <2>3
<1>8. CASE EndPlaceHolderTransaction
  <2>1. UNCHANGED <<limit, open, undo, redo, parts, doc, saved, began, mods, starting, current>>
    BY <1>8 DEF EndPlaceHolderTransaction, manager
  <2>2. CASE depth = 1 /\ current # NoTxn
    <3>1. /\ holder = current /\ current \in Placeholder /\ holder' = NoTxn /\ depth' = 0
          /\ plc' = [plc EXCEPT ![current] = BatchEnd(plc[current])]
          /\ ended' = [ended EXCEPT ![current] = selection] /\ before' = {} /\ ~starting
      BY <1>1, <1>8, <2>2 DEF Told, EndPlaceHolderTransaction, OutermostEnd
    <3>2. \A p \in Placeholder :
            /\ plc'[p].kids = plc[p].kids /\ plc'[p].start = plc[p].start
            /\ plc'[p].end = (IF p = current THEN selection ELSE plc[p].end)
            /\ ended'[p] = (IF p = current THEN selection ELSE ended[p])
      BY <1>1, <3>1, MergeOp DEF GhostsTyped
    <3>3. Told'
      BY <1>1, <2>1, <3>1, <3>2 DEF Told
    <3>4. GhostsTyped' /\ Quiet'
      BY <1>1, <2>1, <3>1 DEF GhostsTyped, Quiet
    <3>. QED  BY <1>6, <2>1, <3>2, <3>3, <3>4
  <2>3. CASE ~(depth = 1 /\ current # NoTxn)
    <3>1. /\ plc' = plc /\ ended' = ended /\ ~starting /\ depth' = depth - 1 /\ depth > 0
          /\ before' \in {before, {}} /\ holder' = (IF depth = 1 THEN NoTxn ELSE holder)
      <4>1. depth = 1 => holder = NoTxn
        BY <1>1, <2>3 DEF Told
      <4>. QED  BY <1>8, <2>3, <4>1 DEF EndPlaceHolderTransaction, OutermostEnd
    <3>2. Told'
      BY <1>1, <2>1, <2>3, <3>1 DEF Told
    <3>3. GhostsTyped' /\ Quiet'
      BY <1>1, <2>1, <3>1 DEF GhostsTyped, Quiet
    <3>. QED  BY <1>6, <2>1, <3>1, <3>2, <3>3
  <2>. QED  BY <2>2, <2>3
<1>9. ASSUME NEW b \in Batch, BeginTransaction(b)
      PROVE  FALSE
  BY DEF NoBatchAround
<1>10. CASE EndTransaction
  BY <1>1, <1>10 DEF EndTransaction, Quiet
<1>11. CASE EndComposition
  <2>1. UNCHANGED <<limit, open, undo, redo, parts, depth, current, starting, doc, mods,
                    saved, before, holder, began, ended>>
    BY <1>11 DEF EndComposition, manager, batch, ghosts
  <2>2. \A r \in Placeholder : /\ plc'[r].start = plc[r].start /\ plc'[r].end = plc[r].end
                             /\ plc'[r].kids = plc[r].kids
    BY <1>1, <1>11, CommittingKeeps DEF EndComposition
  <2>3. GhostsTyped' /\ Quiet' /\ Told'
    BY <1>1, <2>1, <2>2 DEF GhostsTyped, Quiet, Told
  <2>. QED  BY <1>6, <2>1, <2>2, <2>3
<1>12. ASSUME NEW s \in Caret \cup Span, SetSelection(s)
       PROVE  GhostsTyped' /\ Quiet' /\ Told' /\ LineInv'
  <2>1. UNCHANGED <<limit, open, undo, redo, parts, depth, current, starting, plc, doc, mods,
                    saved, before, holder, began, ended>>
    BY <1>12 DEF SetSelection, manager, batch, ghosts
  <2>2. GhostsTyped' /\ Quiet' /\ Told'
    BY <1>1, <2>1 DEF GhostsTyped, Quiet, Told
  <2>. QED  BY <1>6, <2>1, <2>2
<1>13. ASSUME NEW aEnable \in MayDisable, EnableUndo(aEnable)
       PROVE  GhostsTyped' /\ Quiet' /\ Told' /\ LineInv'
  <2>1. UNCHANGED <<open, parts, depth, current, starting, plc, doc, mods,
                    saved, before, holder, began, ended>>
    BY <1>13 DEF EnableUndo, batch, ghosts
  <2>2. GhostsTyped' /\ Told'
    BY <1>1, <2>1 DEF GhostsTyped, Told
  <2>3. Quiet'
    BY <1>1, <1>13, <2>1 DEF Quiet, EnableUndo
  <2>4. CASE aEnable
    <3>1. undo' = undo /\ redo' = redo
      BY <1>13, <2>4 DEF EnableUndo
    <3>. QED  BY <1>6, <2>1, <2>2, <2>3, <3>1
  <2>5. CASE ~aEnable
    <3>1. undo' = <<>> /\ redo' = <<>>
      BY <1>13, <2>5 DEF EnableUndo
    <3>2. {} \in SUBSET Edit /\ {} \cap (doc \cup saved) = {} /\ doc' = doc \cup {}
      BY <2>1
    <3>3. LineInv'
      BY <1>1, <2>1, <3>1, <3>2, LineDropped
    <3>. QED  BY <2>2, <2>3, <3>3
  <2>. QED  BY <2>4, <2>5
<1>14. CASE ResetModificationCount
  <2>1. /\ UNCHANGED <<limit, open, undo, redo, parts, depth, current, starting, plc, doc,
                       before, holder, began, ended>>
        /\ depth = 0 /\ mods' = 0 /\ saved' = doc
    BY <1>14 DEF ResetModificationCount, manager, batch
  <2>2. GhostsTyped' /\ Quiet' /\ Told' /\ ~starting
    BY <1>1, <2>1 DEF GhostsTyped, Quiet, Told
  <2>3. LineInv'
    BY <1>1, <2>1, <2>2, LineSaved
  <2>. QED  BY <2>2, <2>3
<1>. QED
  BY <1>3, <1>4, <1>5, <1>7, <1>8, <1>9, <1>10, <1>11, <1>12, <1>13, <1>14 DEF EditorNext

\* The line begins with nothing done.
LEMMA UndoInitially ==
  ASSUME Init, EditorTypeOK
  PROVE  UndoInv
<1>1. /\ limit = -1 /\ open = <<>> /\ undo = <<>> /\ redo = <<>>
      /\ parts = [x \in Item |-> <<>>] /\ depth = 0 /\ doc = {} /\ saved = {} /\ before = {}
      /\ holder = NoTxn /\ mods = 0 /\ starting = FALSE
      /\ plc = [p \in Placeholder |-> NewPlaceholder]
      /\ began = [p \in Placeholder |-> <<{}, NoRange>>]
      /\ ended = [p \in Placeholder |-> NoRange]
      /\ selState = NoRange
  BY DEF Init, Mgr!Start
<1>2. GhostsTyped /\ Quiet /\ OneEntry
  BY <1>1 DEF GhostsTyped, Quiet, OneEntry, Selection
<1>3. Told
  BY <1>1 DEF Told, NewPlaceholder
<1>4. LineInv
  <2>1. PICK st : st = [i \in 0..0 |-> {}]
    OBVIOUS
  <2>2. 0..0 = {0} /\ 1..0 = {} /\ Moments = 0 /\ Len(undo) = 0
    BY <1>1 DEF Moments
  <2>3. Timeline(st)
    BY <1>1, <2>1, <2>2 DEF Timeline
  <2>4. SavedAt(st, 0)
    BY <1>1, <2>1, <2>2 DEF SavedAt
  <2>. QED  BY <2>2, <2>3, <2>4 DEF LineInv, Reachable
<1>. QED  BY <1>2, <1>3, <1>4 DEF UndoInv

LEMMA UndoInvariant ==
  ASSUME NoBatchAround
  PROVE  EditorSpec => []UndoInv
<1>1. Init => UndoInv
  BY UndoInitially, EditorInitially
<1>2. UndoInv /\ [EditorNext]_evars => UndoInv'
  <2>1. ASSUME UndoInv, UNCHANGED evars
        PROVE  UndoInv'
    <3>1. EditorTypeOK' /\ GhostsTyped' /\ Quiet' /\ OneEntry' /\ Told'
      BY <2>1 DEF UndoInv, EditorTypeOK, GhostsTyped, Quiet, OneEntry, Told, evars, manager, batch, ghosts
    <3>2. LineInv'
      BY <2>1, LineKept DEF UndoInv, evars, manager, batch, ghosts
    <3>. QED  BY <3>1, <3>2 DEF UndoInv
  <2>. QED  BY <2>1, UndoStep
<1>. QED  BY <1>1, <1>2, PTL DEF EditorSpec

-----------------------------------------------------------------------------
(* Theorems.                                                               *)

\* Along the line the document is determined: the saved one is passed with the
\* modification count at zero only there.
LEMMA CleanOnLine ==
  ASSUME UndoInv
  PROVE  CleanWhileAhead
<1>1. PICK st : Timeline(st) /\ Reachable(st)
  BY DEF UndoInv, LineInv
<1>2. PICK k \in Nat : k = Len(undo)
  BY LineOp DEF UndoInv
<1>3. Moments \in Nat /\ k <= Moments /\ st[k] = doc
  BY <1>1, <1>2, LineOp DEF UndoInv, Timeline
<1>. SUFFICES ASSUME saved \subseteq doc, mods = 0
              PROVE  doc = saved
  BY DEF CleanWhileAhead, CleanMeansSaved
<1>4. ASSUME OutOfReach(st)
      PROVE  FALSE
  <2>1. st[k] \subseteq st[Moments]
    BY <1>1, <1>3 DEF Timeline
  <2>. QED  BY <1>3, <1>4, <2>1 DEF OutOfReach
<1>5. PICK n \in 0..Moments : SavedAt(st, n)
  BY <1>1, <1>4 DEF Reachable
<1>6. CASE n = k
  BY <1>2, <1>3, <1>5, <1>6 DEF SavedAt
<1>7. CASE n # k
  <2>1. k + 1 \in 1..n /\ k + 1 \in 1..Moments /\ k + 1 - 1 = k
    BY <1>2, <1>3, <1>5, <1>7 DEF SavedAt
  <2>2. Edits(Line(k + 1)) \cap saved # {}
    BY <1>5, <2>1 DEF SavedAt
  <2>3. st[k + 1 - 1] \cap Edits(Line(k + 1)) = {}
    BY <1>1, <2>1 DEF Timeline
  <2>. QED  BY <1>3, <2>1, <2>2, <2>3
<1>. QED  BY <1>6, <1>7

\* Of the modification count, "zero means unchanged": so it is, whatever has been
\* typed, merged, undone and redone, until something is undone that was there when
\* the document was saved.
THEOREM CountMeansSaved ==
  ASSUME NoBatchAround
  PROVE  ComposerSpec => []CleanWhileAhead
  BY CleanOnLine, UndoInvariant, ListensOnly, PTL

\* The save command follows the count: every change of the count from or to zero is
\* reported, so a disabled command means that there is nothing to save.
THEOREM SaveCommandRight ==
  ASSUME NoBatchAround
  PROVE  ComposerSpec => []SaveCommandShown
<1>. DEFINE Dirty == mDirtyState = (mods # 0)
<1>1. ComposerInit => Dirty
  BY DEF ComposerInit, Init
<1>2. Dirty /\ [ComposerNext]_cvars => Dirty'
  <2>1. ASSUME Dirty, NEW b, Reports(b)
        PROVE  Dirty'
    BY <2>1 DEF Reports, DirtyChanges
  <2>2. ASSUME Dirty, ComposerNext
        PROVE  Dirty'
    <3>1. \E b : Reports(b)
      BY <2>2 DEF ComposerNext, DidDo, DidUndo, DidRedo, Unheard
    <3>. QED  BY <2>1, <2>2, <3>1
  <2>3. ASSUME Dirty, UNCHANGED cvars
        PROVE  Dirty'
    BY <2>3 DEF cvars, evars, updater
  <2>. QED  BY <2>2, <2>3
<1>3. Dirty /\ CleanWhileAhead => SaveCommandShown
  BY DEF CleanWhileAhead, CleanMeansSaved, SaveCommandShown
<1>. HIDE DEF Dirty
<1>. QED  BY <1>1, <1>2, <1>3, CountMeansSaved, PTL DEF ComposerSpec

\* The placeholder that DoTransaction() remembers is "either the one we just
\* created, or an earlier one that we are now merging into": the one that holds the
\* batch's edits, as long as no batch of the manager is open.
THEOREM RemembersItsOwn ==
  ASSUME NoBatchAround
  PROVE  ComposerSpec => []RemembersOwnPlaceholder
<1>1. UndoInv => RemembersOwnPlaceholder
  BY DEF UndoInv, Told, RemembersOwnPlaceholder
<1>. QED  BY <1>1, UndoInvariant, ListensOnly, PTL

\* A step that takes the last element from one sequence and appends it to the other
\* is an undo or a redo.
LEMMA OnlyUndoMoves ==
  ASSUME UndoInv, NoBatchAround, EditorNext, NEW p \in TopPlaceholder(undo), redo' = Append(redo, p)
  PROVE  Undo
<1>1. /\ undo \in Seq(Item) /\ redo \in Seq(Item) /\ p \in Item /\ undo # <<>> /\ Last(undo) = p
      /\ plc \in [Placeholder -> PlaceholderState] /\ Quiet /\ limit # 0 /\ EditorTypeOK
  BY DEF UndoInv, EditorTypeOK, Quiet, TopPlaceholder, Item
<1>2. redo' # redo /\ redo' # <<>> /\ Len(redo') = Len(redo) + 1
  BY <1>1, AppendOp, AppendProperties
<1>3. \A x, t : Record(x, t) => redo' = <<>>
  BY <1>1 DEF Record, Quiet
<1>4. ~Redo
  <2>1. Redo => redo # <<>> /\ redo' = Front(redo)
    BY SameOperators DEF Redo, Mgr!Redo
  <2>2. redo # <<>> => Len(Front(redo)) = Len(redo) - 1
    BY <1>1, FrontOp
  <2>3. Len(redo) \in Nat
    BY <1>1
  <2>. QED  BY <1>2, <2>1, <2>2, <2>3
<1>5. \A b \in Batch : ~BeginTransaction(b)
  BY DEF NoBatchAround
<1>. QED
  BY <1>1, <1>2, <1>3, <1>4, <1>5
  DEF EditorNext, StartPlaceholder, DoTransaction, BeginPlaceHolderTransaction,
      EndPlaceHolderTransaction, EndTransaction, EndComposition, SetSelection, EnableUndo,
      ResetModificationCount, manager, Quiet

LEMMA OnlyRedoMoves ==
  ASSUME UndoInv, NoBatchAround, EditorNext, NEW p \in TopPlaceholder(redo), undo' = Append(undo, p)
  PROVE  Redo
<1>1. /\ undo \in Seq(Item) /\ redo \in Seq(Item) /\ p \in Item /\ p \in Placeholder
      /\ p \in ToSet(redo) /\ redo # <<>> /\ Last(redo) = p
      /\ plc \in [Placeholder -> PlaceholderState] /\ Quiet /\ EditorTypeOK
  <2>1. /\ undo \in Seq(Item) /\ redo \in Seq(Item) /\ p \in Item /\ p \in Placeholder
        /\ redo # <<>> /\ Last(redo) = p
        /\ plc \in [Placeholder -> PlaceholderState] /\ Quiet /\ EditorTypeOK
    BY DEF UndoInv, EditorTypeOK, TopPlaceholder, Item
  <2>2. Len(redo) \in DOMAIN redo
    BY <2>1, EmptySeq
  <2>. QED  BY <2>1, <2>2 DEF ToSet, Last
<1>2. Last(undo') = p /\ undo' # undo /\ Len(undo') = Len(undo) + 1
  BY <1>1, AppendOp, AppendProperties
<1>3. ASSUME NEW x \in Item, NEW t \in [Placeholder -> PlaceholderState], Record(x, t)
      PROVE  x = p
  <2>1. undo' = undo \/ undo' = Append(undo, x)
    BY <1>1, <1>3, RecordCases
  <2>2. Last(Append(undo, x)) = x
    BY <1>1, AppendOp
  <2>. QED  BY <1>2, <2>1, <2>2
<1>4. \A q \in Placeholder : ~StartPlaceholder(q)
  <2>. SUFFICES ASSUME NEW q \in Placeholder, StartPlaceholder(q)
                PROVE  FALSE
    OBVIOUS
  <2>1. [plc EXCEPT ![q] = NewPlaceholder] \in [Placeholder -> PlaceholderState]
    BY <1>1, PlaceholderTypes DEF EditorTypeOK
  <2>2. q = p
    BY <1>3, <2>1 DEF StartPlaceholder, Item
  <2>. QED  BY <1>1, <2>2, FreshOp DEF StartPlaceholder
<1>5. \A e \in Edit : ~DoTransaction(e)
  BY <1>1, <1>3, EditorAssumption DEF DoTransaction, Item
<1>6. ~Undo
  <2>1. Undo => undo # <<>> /\ undo' = Front(undo)
    BY SameOperators DEF Undo, Mgr!Undo
  <2>2. undo # <<>> => Len(Front(undo)) = Len(undo) - 1
    BY <1>1, FrontOp
  <2>3. Len(undo) \in Nat
    BY <1>1
  <2>. QED  BY <1>2, <2>1, <2>2, <2>3
<1>7. \A b \in Batch : ~BeginTransaction(b)
  BY DEF NoBatchAround
<1>8. undo' # <<>>
  BY <1>1, AppendOp
<1>. QED
  BY <1>1, <1>2, <1>4, <1>5, <1>6, <1>7, <1>8
  DEF EditorNext, BeginPlaceHolderTransaction,
      EndPlaceHolderTransaction, EndTransaction, EndComposition, SetSelection, EnableUndo,
      ResetModificationCount, manager, Quiet

\* Undoing an operation, which may have taken in the batches of any number of later
\* ones, gives back the document and the selection of the moment it began.
THEOREM UndoRestores ==
  ASSUME NoBatchAround
  PROVE  ComposerSpec => UndoRestoresOperation
<1>1. ASSUME UndoInv, [EditorNext]_evars,
             NEW p \in TopPlaceholder(undo), redo' = Append(redo, p)
      PROVE  <<doc', selection'>> = began[p]
  <2>1. /\ undo \in Seq(Item) /\ redo \in Seq(Item) /\ p \in Placeholder /\ p \in Item
        /\ undo # <<>> /\ Last(undo) = p /\ Quiet /\ EditorTypeOK /\ GhostsTyped /\ Told
    BY <1>1 DEF UndoInv, EditorTypeOK, TopPlaceholder, Item
  <2>2. redo' # redo
    BY <1>1, <2>1, AppendProperties
  <2>3. EditorNext
    BY <1>1, <2>2 DEF evars, manager
  <2>4. Undo
    BY <1>1, <2>3, OnlyUndoMoves
  <2>5. doc' = doc \ Edits(p) /\ selection' = plc[p].start
    BY <2>1, <2>4, ContentOp DEF Undo, UndoneSelections, SelectionsAfter, StartSel
  <2>6. PICK st : Timeline(st)
    BY <1>1 DEF UndoInv, LineInv
  <2>7. Len(undo) \in 1..Moments /\ Line(Len(undo)) = p
    BY <2>1, LineOp
  <2>8. /\ doc = st[Len(undo) - 1] \cup Edits(p) /\ st[Len(undo) - 1] \cap Edits(p) = {}
        /\ began[p][1] = st[Len(undo) - 1]
    BY <2>1, <2>6, <2>7 DEF Timeline
  <2>9. plc[p].start = began[p][2] /\ began[p] = <<began[p][1], began[p][2]>>
    BY <2>1 DEF Told, GhostsTyped
  <2>10. doc' = began[p][1]
    BY <2>5, <2>8
  <2>. QED  BY <2>5, <2>9, <2>10
<1>2. UndoInv /\ [EditorNext]_evars =>
        [\A p \in TopPlaceholder(undo) :
           redo' = Append(redo, p) => <<doc', selection'>> = began[p]]_evars
  BY <1>1
<1>. QED  BY <1>2, UndoInvariant, ListensOnly, PTL DEF EditorSpec, UndoRestoresOperation

\* Redoing it gives back the selection of the moment its last batch ended.
THEOREM RedoRestores ==
  ASSUME NoBatchAround
  PROVE  ComposerSpec => RedoRestoresSelection
<1>1. ASSUME UndoInv, [EditorNext]_evars,
             NEW p \in TopPlaceholder(redo), undo' = Append(undo, p)
      PROVE  selection' = ended[p]
  <2>1. /\ undo \in Seq(Item) /\ p \in Placeholder /\ p \in Item /\ Last(redo) = p /\ Told
        /\ NoTxn \notin Placeholder
    BY <1>1, EditorAssumption DEF UndoInv, EditorTypeOK, TopPlaceholder, Item
  <2>2. undo' # undo
    BY <1>1, <2>1, AppendProperties
  <2>3. EditorNext
    BY <1>1, <2>2 DEF evars, manager
  <2>4. Redo
    BY <1>1, <2>3, OnlyRedoMoves
  <2>5. selection' = plc[p].end /\ depth = 0
    BY <2>1, <2>4 DEF Redo, SelectionsAfter, EndSel
  <2>6. holder = NoTxn
    BY <2>1, <2>5 DEF Told
  <2>. QED  BY <2>1, <2>5, <2>6 DEF Told
<1>2. UndoInv /\ [EditorNext]_evars =>
        [\A p \in TopPlaceholder(redo) : undo' = Append(undo, p) => selection' = ended[p]]_evars
  BY <1>1
<1>. QED  BY <1>2, UndoInvariant, ListensOnly, PTL DEF EditorSpec, RedoRestoresSelection
=============================================================================
