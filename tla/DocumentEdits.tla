---------------------------- MODULE DocumentEdits ----------------------------
(***************************************************************************)
(* The editor's elementary and compound changes of the document            *)
(* (editor/libeditor/base): nsEditor's node and text operations, the       *)
(* transactions they execute, what undo and redo of those do, and the      *)
(* range updater kept in step with them.                                   *)
(*                                                                         *)
(* An operation of the user registers a range item (BeforeEdit), makes     *)
(* some changes, drops the item and leaves one entry on the undo stack     *)
(* (AfterEdit). Undo and redo act between operations.                      *)
(***************************************************************************)
EXTENDS RangeUpdater

CONSTANTS Documents,  \* the trees to start from
          Strings,    \* what may be typed
          MaxEdits    \* bound on the changes made in a behaviour

VARIABLES editor,   \* dom, range, lock, txns: see RangeUpdater
          began,    \* the document an operation under way started from, or <<>>
          undo,     \* the undo stack: [txns, before, after], the last two ghosts
          redo,     \* the redo stack
          used,     \* the nodes and characters that exist
          edits,    \* the changes made so far
          edit      \* ghost: the last change

vars == <<editor, began, undo, redo, used, edits, edit>>

-----------------------------------------------------------------------------
(* Transactions. Each records what its DoTransaction finds out.            *)

Txn(type, n, parent, other, at, data) ==
  [type |-> type, node |-> n, parent |-> parent, other |-> other, offset |-> at, data |-> data]

\* An offset of -1, or one past the end, means the end.
Within(d, p, at) == IF at = -1 \/ at > Len(d[p]) THEN Len(d[p]) ELSE at

ChildAt(d, p, at) == IF at < Len(d[p]) THEN d[p][at + 1] ELSE NoNode

CreateElementTxn(d, n, p, at) ==
  Txn("create", n, p, ChildAt(d, p, Within(d, p, at)), Within(d, p, at), <<>>)

InsertElementTxn(d, n, p, at) == Txn("insert", n, p, NoNode, Within(d, p, at), <<>>)

DeleteElementTxn(d, n) == Txn("delete", n, Parent(d, n), NextSibling(d, n), 0, <<>>)

SplitElementTxn(d, right, at, left) == Txn("split", right, Parent(d, right), left, at, <<>>)

JoinElementTxn(d, left, right) == Txn("join", right, Parent(d, left), left, Len(d[left]), <<>>)

InsertTextTxn(t, at, string) == Txn("insertText", t, NoNode, NoNode, at, string)

DeleteTextTxn(d, t, at, count) ==
  Txn("deleteText", t, NoNode, NoNode, at, SubSeq(d[t], at + 1, at + count))

\* The new node takes the first part; the right one keeps its identity.
SplitNodeImpl(d, right, at, left, parent) ==
  InsertBefore([d EXCEPT ![left] = SubSeq(d[right], 1, at), ![right] = SubSeq(@, at + 1, Len(@))],
               parent, left, right)

\* The right node is kept; a left text node keeps its text too, for a later undo.
JoinNodesImpl(d, right, left, parent) ==
  RemoveChild([d EXCEPT ![right] = d[left] \o @, ![left] = IF left \in Text THEN @ ELSE <<>>],
              parent, left)

\* Undo of a join and redo of a split: the left node comes back as it was.
Resplit(d, right, at, left, parent) ==
  InsertBefore([d EXCEPT ![left] = IF left \in Text THEN @ ELSE @ \o SubSeq(d[right], 1, at),
                         ![right] = SubSeq(@, at + 1, Len(@))],
               parent, left, right)

DoTxn(d, t) ==
  CASE t.type \in {"create", "insert"} -> Put(d, t.parent, t.offset, t.node)
    [] t.type = "delete" -> RemoveChild(d, t.parent, t.node)
    [] t.type = "split" -> SplitNodeImpl(d, t.node, t.offset, t.other, t.parent)
    [] t.type = "join" -> JoinNodesImpl(d, t.node, t.other, t.parent)
    [] t.type = "insertText" -> InsertData(d, t.node, t.offset, t.data)
    [] t.type = "deleteText" -> DeleteData(d, t.node, t.offset, Len(t.data))

UndoTxn(d, t) ==
  CASE t.type \in {"create", "insert"} -> RemoveChild(d, t.parent, t.node)
    [] t.type = "delete" -> InsertBefore(d, t.parent, t.node, t.other)
    [] t.type = "split" -> JoinNodesImpl(d, t.node, t.other, t.parent)
    [] t.type = "join" -> Resplit(d, t.node, t.offset, t.other, t.parent)
    [] t.type = "insertText" -> DeleteData(d, t.node, t.offset, Len(t.data))
    [] t.type = "deleteText" -> InsertData(d, t.node, t.offset, t.data)

\* A created text node comes back empty; a split must not make a new left node.
RedoTxn(d, t) ==
  CASE t.type = "create" ->
         InsertBefore([d EXCEPT ![t.node] = IF t.node \in Text THEN <<>> ELSE @], t.parent, t.node, t.other)
    [] t.type = "split" -> Resplit(d, t.node, t.offset, t.other, t.parent)
    [] OTHER -> DoTxn(d, t)

UndoAllForward(d, txns) == FoldLeft(UndoTxn, d, txns)               \* mutant
\* The entry of an operation undoes its transactions from the last to the first.
UndoAll(d, txns) == FoldLeft(UndoTxn, d, Reverse(txns))
RedoAll(d, txns) == FoldLeft(RedoTxn, d, txns)

-----------------------------------------------------------------------------
(* The operations of nsEditor, from an editor to an editor.                *)

DoTransaction(e, t) == [e EXCEPT !.dom = DoTxn(@, t), !.txns = Append(@, t)]

CreateNode(e, n, p, at) ==
  SelAdjCreateNode(DoTransaction(e, CreateElementTxn(e.dom, n, p, at)), p, at)

InsertNode(e, n, p, at) ==
  SelAdjInsertNode(DoTransaction(e, InsertElementTxn(e.dom, n, p, at)), p, at)

\* The transaction itself has the ranges adjusted, before it takes the node out.
DeleteNode(e, n) == DoTransaction(SelAdjDeleteNode(e, n), DeleteElementTxn(e.dom, n))

SplitNode(e, right, at, left) ==
  SelAdjSplitNode(DoTransaction(e, SplitElementTxn(e.dom, right, at, left)), right, at, left)

JoinNodes(e, left, right) ==
  LET l == Location(e.dom, right)
  IN  SelAdjJoinNodes(DoTransaction(e, JoinElementTxn(e.dom, left, right)),
                      left, right, l.node, l.offset, Len(e.dom[left]))

InsertTextIntoTextNode(e, t, at, string) ==
  SelAdjInsertText(DoTransaction(e, InsertTextTxn(t, at, string)), t, at, string)

\* In an element, the text comes in a new node that is filled before it is inserted.
InsertTextIntoElement(e, n, p, at, string) ==
  InsertNode([e EXCEPT !.dom[n] = string], n, p, at)

DeleteText(e, t, at, count) ==
  SelAdjDeleteText(DoTransaction(e, DeleteTextTxn(e.dom, t, at, count)), t, at, count)

\* A selection is deleted in the node it starts in, then the nodes wholly in it,
\* which are looked for first, then in the node it ends in.
DeleteFrom(e, x) ==
  LET count == Len(e.dom[x.node]) - x.offset
  IN  IF x.node \in Text /\ count > 0 THEN DeleteText(e, x.node, x.offset, count) ELSE e
DeleteUpTo(e, x) ==
  IF x.node \in Text /\ x.offset > 0 THEN DeleteText(e, x.node, 0, x.offset) ELSE e

DeleteRangeOpen(e, x, y) ==                                         \* mutant
  FoldLeft(DeleteNode, DeleteFrom(e, x), NodesBetween(e.dom, x, y))
DeleteRange(e, x, y) ==
  IF x.node # y.node
  THEN DeleteUpTo(FoldLeft(DeleteNode, DeleteFrom(e, x), NodesBetween(e.dom, x, y)), y)
  ELSE IF x.node \in Text THEN DeleteText(e, x.node, x.offset, y.offset - x.offset)
  ELSE FoldLeft(DeleteNode, e, SubSeq(e.dom[x.node], x.offset + 1, y.offset))

\* The children go over one by one from the first, each to the end of the new container.
ReplaceContainer(e, old, new) ==
  LET l     == Location(e.dom, old)
      moved == FoldLeft(LAMBDA f, c : InsertNode(DeleteNode(f, c), c, new, -1), Will(e), e.dom[old])
  IN  DidReplaceContainer(DeleteNode(InsertNode(moved, new, l.node, l.offset), old), old, new)

RemoveContainerForward(e, n) ==                                     \* mutant
  LET l     == Location(e.dom, n)
      moved == FoldLeft(LAMBDA f, c : InsertNode(DeleteNode(f, c), c, l.node, l.offset), Will(e), e.dom[n])
  IN  DidRemoveContainer(DeleteNode(moved, n), n, l.node, l.offset, Len(e.dom[n]))
\* The children go out one by one from the last, each to where the container is.
RemoveContainer(e, n) ==
  LET l     == Location(e.dom, n)
      moved == FoldLeft(LAMBDA f, c : InsertNode(DeleteNode(f, c), c, l.node, l.offset),
                        Will(e), Reverse(e.dom[n]))
  IN  DidRemoveContainer(DeleteNode(moved, n), n, l.node, l.offset, Len(e.dom[n]))

InsertContainerAbove(e, n, new) ==
  LET l == Location(e.dom, n)
  IN  DidInsertContainer(InsertNode(InsertNode(DeleteNode(Will(e), n), n, new, 0), new, l.node, l.offset))

\* Further along in its own parent, the target moves when the node is taken out.
Target(l, p, at) == IF p = l.node /\ l.offset < at THEN at - 1 ELSE at

MoveNode(e, n, p, at) ==
  LET l == Location(e.dom, n)
  IN  IF l = Point(p, at) THEN e
      ELSE DidMoveNode(InsertNode(DeleteNode(Will(e), n), n, p, Target(l, p, at)), l.node, l.offset, p, at)

-----------------------------------------------------------------------------
(* Actions.                                                                *)

Tree == editor.dom

Change(op, n, other, at, count) ==
  [op |-> op, node |-> n, other |-> other, offset |-> at, count |-> count]
NoChange == Change("none", NoNode, NoNode, 0, 0)

Init ==
  /\ \E d \in Documents :
       /\ editor = [dom |-> d, range |-> <<>>, lock |-> FALSE, txns |-> <<>>]
       /\ used = {Root} \cup UNION {ToSet(d[n]) : n \in Node}
  /\ began = <<>> /\ undo = <<>> /\ redo = <<>> /\ edits = 0 /\ edit = NoChange

\* An operation starts. Range items are adjusted each on its own, so that all there
\* might be are registered: one at every point of the document.
BeforeEdit ==
  /\ began = <<>>
  /\ editor' = [editor EXCEPT !.range = [x \in Points(Tree) |-> x]]
  /\ began' = Written(Tree)
  /\ edit' = NoChange
  /\ UNCHANGED <<undo, redo, used, edits>>

\* It ends: the range is dropped and the transactions become one undo entry.
AfterEdit ==
  /\ began # <<>>
  /\ began' = <<>>
  /\ editor' = [editor EXCEPT !.range = <<>>, !.txns = <<>>]
  /\ IF editor.txns = <<>> THEN UNCHANGED <<undo, redo>>
     ELSE /\ undo' = Append(undo, [txns |-> editor.txns, before |-> began, after |-> Written(Tree)])
          /\ redo' = <<>>
  /\ edit' = NoChange
  /\ UNCHANGED <<used, edits>>

\* A change during an operation; made are the nodes and characters that are new.
Edit(e, change, made) ==
  /\ made \cap used = {}
  /\ editor' = e /\ edit' = change /\ used' = used \cup made
  /\ edits' = edits + 1
  /\ UNCHANGED <<began, undo, redo>>

\* Which unused node is taken makes no difference.
Fresh(S) == IF S \subseteq used THEN {} ELSE {CHOOSE n \in S \ used : TRUE}

Inner == Attached(Tree) \ {Root}
Offsets(n) == 0..Len(Tree[n])

CreatesNode ==
  \E p \in Attached(Tree) \cap Element, n \in Fresh(Element) \cup Fresh(Text) : \E at \in Offsets(p) :
    Edit(CreateNode(editor, n, p, at), Change("create", n, p, at, 0), {n})

DeletesNode == \E n \in Inner : Edit(DeleteNode(editor, n), Change("delete", n, NoNode, 0, 0), {})

SplitsNode ==
  \E n \in Inner : \E at \in Offsets(n), left \in Fresh(IF n \in Text THEN Text ELSE Element) :
    Edit(SplitNode(editor, n, at, left), Change("split", n, left, at, 0), {left})

\* Two neighbours of a kind.
JoinsNodes ==
  \E left \in Inner :
    LET right == NextSibling(Tree, left)
    IN  /\ right # NoNode
        /\ left \in Text <=> right \in Text
        /\ Edit(JoinNodes(editor, left, right), Change("join", right, left, 0, 0), {})

InsertsText ==
  \E string \in Strings, n \in Attached(Tree) : \E at \in Offsets(n) :
    \/ /\ n \in Text
       /\ Edit(InsertTextIntoTextNode(editor, n, at, string), Change("insertText", n, NoNode, at, 0), ToSet(string))
    \/ \E t \in Fresh(Text) :
         /\ n \in Element
         /\ Edit(InsertTextIntoElement(editor, t, n, at, string),
                 Change("insert", t, n, at, 0), ToSet(string) \cup {t})

\* DeleteText() and the deletion of a selection.
DeletesRange ==
  \E w \in {Written(Tree)}, x, y \in Points(Tree) :
    /\ Position(Tree, w, x) < Position(Tree, w, y)
    /\ Edit(DeleteRange(editor, x, y), Change("deleteRange", x.node, y.node, x.offset, y.offset), {})

ReplacesContainer ==
  \E old \in Inner \cap Element, new \in Fresh(Element) :
    Edit(ReplaceContainer(editor, old, new), Change("replaceContainer", old, new, 0, 0), {new})

RemovesContainer ==
  \E n \in Inner \cap Element :
    Edit(RemoveContainer(editor, n), Change("removeContainer", n, NoNode, 0, 0), {})

InsertsContainerAbove ==
  \E n \in Inner, new \in Fresh(Element) :
    Edit(InsertContainerAbove(editor, n, new), Change("insertContainer", new, n, 0, 0), {new})

MovesNode ==
  \E n \in Inner, p \in Attached(Tree) \cap Element : \E at \in Offsets(p) :
    /\ p # n /\ ~IsDescendantOf(Tree, p, n)
    /\ Edit(MoveNode(editor, n, p, at), Change("move", n, p, at, 0), {})

Undo ==
  /\ began = <<>> /\ undo # <<>>
  /\ editor' = [editor EXCEPT !.dom = UndoAll(@, Last(undo).txns)]
  /\ undo' = Front(undo) /\ redo' = Append(redo, Last(undo))
  /\ edit' = NoChange
  /\ UNCHANGED <<began, used, edits>>

Redo ==
  /\ began = <<>> /\ redo # <<>>
  /\ editor' = [editor EXCEPT !.dom = RedoAll(@, Last(redo).txns)]
  /\ redo' = Front(redo) /\ undo' = Append(undo, Last(redo))
  /\ edit' = NoChange
  /\ UNCHANGED <<began, used, edits>>

Next ==
  \/ BeforeEdit \/ AfterEdit \/ Undo \/ Redo
  \/ /\ began # <<>> /\ edits < MaxEdits
     /\ \/ CreatesNode \/ DeletesNode \/ SplitsNode \/ JoinsNodes
        \/ InsertsText \/ DeletesRange
        \/ ReplacesContainer \/ RemovesContainer \/ InsertsContainerAbove \/ MovesNode

Spec == Init /\ [][Next]_vars

-----------------------------------------------------------------------------
(* Properties.                                                             *)

\* The tree is a tree: every node that exists has one place or none, and the
\* root and the points of the range item are in the document. The updater is
\* never left locked (nsSelectionState.cpp, mLock).
DocumentTypeOK ==
  /\ editor.lock = FALSE
  /\ editor.dom \in [Node -> Seq(Node \cup Char)]
  /\ \A n \in Text : ToSet(Tree[n]) \subseteq Char
  /\ \A n \in Element : ToSet(Tree[n]) \subseteq Node
  /\ IsInjective(Written(Tree))

\* A kept point is always a place in the document, whatever was deleted,
\* joined or replaced around it: the selection can be restored from it
\* (nsRangeStore::GetRange).
PointsInTree == \A i \in DOMAIN editor.range : InTree(Tree, editor.range[i])

\* Undo and redo of an operation go from the one document it made to the one it
\* found and back, although each transaction remembers only a reference node, an
\* offset or a text, and nodes that went out come back with what they then held.
DocumentIsHistory ==
  began = <<>> =>
    /\ undo # <<>> => Written(Tree) = Last(undo).after
    /\ redo # <<>> => Written(Tree) = Last(redo).before

\* The two cases in which nsRangeUpdater is wrong: a point inside deleted text, when
\* the text before it in the node is kept, goes in front of some or all of what is
\* kept (the whole length is taken off its offset); and MoveNode() tells
\* DidMoveNode() the target before it adjusts it, so that a point behind the new
\* next sibling of a node moved along in its parent ends up in front of it.
InDeletedText(x) ==
  \E i \in DOMAIN editor'.txns \ DOMAIN editor.txns :
    LET t == editor'.txns[i]
    IN  /\ t.type = "deleteText" /\ t.node = x.node /\ t.offset > 0
        /\ x.offset - t.offset \in 1..(Len(t.data) - 1)

BehindTarget(x) ==
  /\ edit'.op = "move"
  /\ LET l == Location(Tree, edit'.node)
     IN  l.node = edit'.other /\ l.offset < edit'.offset /\ x = Point(edit'.other, edit'.offset + 1)

\* The nodes whose tags a change moves by itself: those a split or a join divides or unites.
Divided == IF edit'.op \in {"split", "join"} THEN {Tag(edit'.node, "open")} ELSE {}

\* What a moved node takes along.
Carried(w) == IF edit'.op = "move" THEN Inside(w, edit'.node) ELSE {}

\* Nothing that is in the document before and after a change, written w and v, passes
\* a kept point that was x and is y, except that what is carried along with a moved
\* node passes the points outside it, and the rest those inside.
StaysPut(x, y, w, v, carried) ==
  LET with   == Tag(x.node, "open") \in carried
      others == {t \in (ToSet(w) \cap ToSet(v)) \ Divided : t \in carried <=> with}
  IN  /\ InTree(Tree', y)
      /\ others \cap Before(Tree, w, x) = others \cap Before(Tree', v, y)

\* StaysPut for the points that are not excepted.
AllStay(Excepted(_)) ==
  \A w \in {Written(Tree)}, v \in {Written(Tree')} : \A carried \in {Carried(w)} :
    \A i \in DOMAIN editor.range \cap DOMAIN editor'.range :
      Excepted(editor.range[i]) \/ StaysPut(editor.range[i], editor'.range[i], w, v, carried)

\* A kept point stays where it is among the text and the nodes around it, through
\* every change and through the many changes a compound one consists of
\* (nsRangeUpdater's gravity methods against what the transactions do).
PointsKept == [][AllStay(LAMBDA x : InDeletedText(x) \/ BehindTarget(x))]_vars

\* Splitting, joining and exchanging containers changes structure only: the text
\* reads the same (nsEditor::SplitNode, JoinNodes, ReplaceContainer,
\* RemoveContainer, InsertContainerAbove).
TextReadsOn ==
  [][edit'.op \in {"split", "join", "replaceContainer", "removeContainer", "insertContainer"}
       => Letters(Tree') = Letters(Tree)]_vars

\* Deleting a selection takes out what is wholly in it and nothing else: a node it
\* only starts or ends in stays (DeleteRangeTxn, whose parts are worked out before
\* the first of them is executed).
DeletesWhatIsSelected ==
  [][edit'.op = "deleteRange" =>
       \A w \in {Written(Tree)} :
         \A part \in {Between(Tree, w, Point(edit'.node, edit'.offset), Point(edit'.other, edit'.count))} :
           Written(Tree') = SelectSeq(w, LAMBDA t : t \notin part)]_vars
=============================================================================
