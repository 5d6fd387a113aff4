---------------------------- MODULE UndoHistory ----------------------------
(***************************************************************************)
(* What nsITransactionManager promises its clients: a history of items,    *)
(* each undone and redone as a whole. An item is a transaction or a batch; *)
(* what is executed while it is open becomes part of it, in the order in   *)
(* which it ended, and stays so: undoing and redoing never change an item. *)
(***************************************************************************)
EXTENDS Integers, Sequences, SequencesExt

CONSTANTS
  Item,        \* transactions and batches
  Group,       \* the batches: dropped when they end empty
  Passing,     \* transient transactions: dropped when they end
  Joining,     \* transactions the next one may join
  Limits       \* limits that may be set, negative for none

VARIABLES
  limit,       \* how many items undo and redo may hold together
  open,        \* items being executed or batched, the innermost last
  undo,        \* items that can be undone, the newest last
  redo,        \* items that can be redone, the next last
  parts        \* for each item, what was executed while it was open

history == <<limit, open, undo, redo, parts>>

\* Fresh items are neither held nor part of another.
Held == ToSet(open) \cup ToSet(undo) \cup ToSet(redo) \cup UNION {ToSet(parts[x]) : x \in Item}

Start ==
  /\ limit = -1
  /\ open = <<>> /\ undo = <<>> /\ redo = <<>>
  /\ parts = [x \in Item |-> <<>>]

\* The newest n elements of a sequence.
Latest(s, n) == SubSeq(s, Len(s) - n + 1, Len(s))
Least(m, n)  == IF m < n THEN m ELSE n

Begin(x) ==
  /\ x \notin Held /\ parts[x] = <<>>
  /\ open' = Append(open, x)
  /\ UNCHANGED <<limit, undo, redo, parts>>

\* The innermost open item has failed: it and its parts are forgotten.
Abandon ==
  /\ open # <<>> /\ open' = Front(open)
  /\ UNCHANGED <<limit, undo, redo, parts>>

\* It has ended, and nothing is to be remembered of it.
EndUnrecorded ==
  /\ open # <<>> /\ open' = Front(open)
  /\ \/ limit = 0
     \/ Last(open) \in Passing
     \/ Last(open) \in Group /\ parts[Last(open)] = <<>>
  /\ UNCHANGED <<limit, undo, redo, parts>>

\* It has ended inside another item, and becomes the last part of that.
EndInside ==
  /\ Len(open) > 1 /\ open' = Front(open)
  /\ parts' = [parts EXCEPT ![Last(Front(open))] = Append(@, Last(open))]
  /\ UNCHANGED <<limit, undo, redo>>

\* It has ended, and there is nothing to redo any more. It joins the newest
\* item, or becomes the newest; the oldest makes room for it.
EndOutside ==
  /\ Len(open) = 1 /\ open' = <<>>
  /\ redo' = <<>>
  /\ \/ /\ undo # <<>> /\ Last(undo) \in Joining /\ Last(open) \notin Group
        /\ UNCHANGED undo
     \/ LET kept == IF limit > 0 THEN Least(limit - 1, Len(undo)) ELSE Len(undo)
        IN  undo' = Append(Latest(undo, kept), Last(open))
  /\ UNCHANGED <<limit, parts>>

Undo ==
  /\ open = <<>> /\ undo # <<>>
  /\ undo' = Front(undo) /\ redo' = Append(redo, Last(undo))
  /\ UNCHANGED <<limit, open, parts>>

Redo ==
  /\ open = <<>> /\ redo # <<>>
  /\ redo' = Front(redo) /\ undo' = Append(undo, Last(redo))
  /\ UNCHANGED <<limit, open, parts>>

Forget ==
  /\ undo' = <<>> /\ redo' = <<>>
  /\ UNCHANGED <<limit, open, parts>>

\* A new limit keeps what would be undone or redone first: as much of redo as
\* it allows, then as much of undo as there is room left for.
SetLimit(m) ==
  /\ open = <<>>
  /\ limit' = m
  /\ LET redos == IF m < 0 THEN Len(redo) ELSE Least(m, Len(redo))
         undos == IF m < 0 THEN Len(undo) ELSE Least(m - redos, Len(undo))
     IN  redo' = Latest(redo, redos) /\ undo' = Latest(undo, undos)
  /\ UNCHANGED <<open, parts>>

Step ==
  \/ \E x \in Item : Begin(x)
  \/ Abandon
  \/ EndUnrecorded
  \/ EndInside
  \/ EndOutside
  \/ Undo
  \/ Redo
  \/ Forget
  \/ \E m \in Limits : SetLimit(m)

History == Start /\ [][Step]_history
=============================================================================
