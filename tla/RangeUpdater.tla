---------------------------- MODULE RangeUpdater ----------------------------
(***************************************************************************)
(* nsRangeUpdater (editor/libeditor/base/nsSelectionState.cpp): the        *)
(* editor's own gravity rules. While an operation rewrites the document, a *)
(* registered range item (the selection it will restore, a point a rule    *)
(* still needs) is adjusted after each elementary change, and after each   *)
(* compound one by what the compound change amounts to: the elementary     *)
(* changes inside a Will.../Did... pair are ignored (mLock).               *)
(*                                                                         *)
(* An editor is a record with the document tree, the registered points     *)
(* (range: from where each was to where it is now), mLock, and the         *)
(* transactions executed so far.                                           *)
(***************************************************************************)
EXTENDS DocumentTree

Kept(e) == {e.range[i] : i \in DOMAIN e.range}

\* One adjustment of every registered point.
Adjusted(e, moved) ==
  IF e.lock THEN e ELSE [e EXCEPT !.range = [i \in DOMAIN @ |-> moved[@[i]]]]

Shifted(x, by) == [x EXCEPT !.offset = @ + by]

After(x, n, at) == x.node = n /\ x.offset > at

SelAdjCreateNode(e, parent, at) ==
  Adjusted(e, [x \in Kept(e) |-> IF After(x, parent, at) THEN Shifted(x, 1) ELSE x])

SelAdjInsertNode(e, parent, at) == SelAdjCreateNode(e, parent, at)

SelAdjDeleteNodeAlone(e, n) ==                                      \* mutant
  LET l == Location(e.dom, n)
  IN  Adjusted(e, [x \in Kept(e) |->
        IF x.node = n THEN l
        ELSE IF After(x, l.node, l.offset) THEN Shifted(x, -1) ELSE x])
\* Before the node is taken out: what was in it goes where it was.
SelAdjDeleteNode(e, n) ==
  LET l == Location(e.dom, n)
  IN  Adjusted(e, [x \in Kept(e) |->
        IF x.node = n \/ IsDescendantOf(e.dom, x.node, n) THEN l
        ELSE IF After(x, l.node, l.offset) THEN Shifted(x, -1) ELSE x])

\* After the split.
SelAdjSplitNode(e, right, at, left) ==
  LET l == Location(e.dom, right)
      f == SelAdjInsertNode(e, l.node, l.offset - 1)
  IN  Adjusted(f, [x \in Kept(f) |->
        IF x.node # right THEN x
        ELSE IF x.offset > at THEN Shifted(x, -at) ELSE [x EXCEPT !.node = left]])

\* After the join; at is where the right node was, leftLength how much the left one held.
SelAdjJoinNodesUnshifted(e, left, right, parent, at, leftLength) ==  \* mutant
  Adjusted(e, [x \in Kept(e) |->
    CASE After(x, parent, at) -> Shifted(x, -1)
      [] x = Point(parent, at) -> Point(right, leftLength)
      [] x.node = left -> [x EXCEPT !.node = right]
      [] OTHER -> x])
SelAdjJoinNodes(e, left, right, parent, at, leftLength) ==
  Adjusted(e, [x \in Kept(e) |->
    CASE After(x, parent, at) -> Shifted(x, -1)
      [] x = Point(parent, at) -> Point(right, leftLength)
      [] x.node = right -> Shifted(x, leftLength)
      [] x.node = left -> [x EXCEPT !.node = right]
      [] OTHER -> x])

SelAdjInsertText(e, t, at, string) ==
  Adjusted(e, [x \in Kept(e) |-> IF After(x, t, at) THEN Shifted(x, Len(string)) ELSE x])

SelAdjDeleteText(e, t, at, length) ==
  Adjusted(e, [x \in Kept(e) |->
    IF After(x, t, at)
    THEN [x EXCEPT !.offset = IF @ < length THEN 0 ELSE @ - length] ELSE x])

-----------------------------------------------------------------------------
(* The Will.../Did... pairs.                                               *)

Will(e) == [e EXCEPT !.lock = TRUE]

Did(e, moved) == Adjusted([e EXCEPT !.lock = FALSE], moved)

DidReplaceContainer(e, old, new) ==
  Did(e, [x \in Kept(e) |-> IF x.node = old THEN [x EXCEPT !.node = new] ELSE x])

DidRemoveContainer(e, n, parent, at, length) ==
  Did(e, [x \in Kept(e) |->
    IF x.node = n THEN Point(parent, x.offset + at)
    ELSE IF After(x, parent, at) THEN Shifted(x, length - 1) ELSE x])

DidInsertContainerLocked(e) == e                                    \* mutant
DidInsertContainer(e) == [e EXCEPT !.lock = FALSE]

\* Like a delete in the old parent and like an insert in the new one.
DidMoveNode(e, oldParent, oldAt, newParent, newAt) ==
  LET deleted(x)  == IF After(x, oldParent, oldAt) THEN Shifted(x, -1) ELSE x
      inserted(x) == IF After(x, newParent, newAt) THEN Shifted(x, 1) ELSE x
  IN  Did(e, [x \in Kept(e) |-> inserted(deleted(x))])
=============================================================================
