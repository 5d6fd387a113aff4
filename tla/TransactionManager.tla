------------------------- MODULE TransactionManager -------------------------
(***************************************************************************)
(* The editor's transaction manager: nsTransactionManager, the             *)
(* nsTransactionItem tree it keeps on its do, undo and redo stacks, and    *)
(* the stacks themselves (mozilla/editor/txmgr/src).                       *)
(*                                                                         *)
(* A method that runs a transaction is split at every point where the      *)
(* transaction's own code has control, because that code may call the      *)
(* manager again: the activations in progress are the frames of `calls'.   *)
(* Everything between two such points is one action.                       *)
(*                                                                         *)
(* What a transaction does to the document is abstracted to its membership *)
(* in `doc', the set of the transactions in effect.                        *)
(***************************************************************************)
EXTENDS Integers, Sequences, FiniteSets, SequencesExt

CONSTANTS
  Transaction,   \* nsITransaction objects; an item is named by its transaction
  Batch,         \* the dummy items BeginBatch() makes (mTransaction == null)
  Transient,     \* transactions whose GetIsTransient() answers true
  Merging,       \* transactions whose Merge() may absorb the next transaction
  MaxCounts,     \* arguments of SetMaxTransactionCount()
  FaultKinds,    \* triples <<when, op, outcome>> of call-outs that may misbehave
  MaxFaults,     \* bound on the number of misbehaving call-outs
  Flaky,         \* TRUE: a misbehaving call-out may also succeed
  Reentrant,     \* the transaction methods that call the manager
  Balanced,      \* TRUE: a transaction ends the batches it begins
  MaxDepth       \* bound on nested activations

Item    == Transaction \cup Batch
Method  == {"do", "undo", "redo"}
Result  == {"ok", "fail"}
Phase   == {"kids", "self", "recover", "rollback", "return"}
Frame   == [op : Method, item : Item, phase : Phase, left : Nat, res : Result]

ASSUME ItemAssumption  == Transaction \cap Batch = {}
ASSUME TraitAssumption == Transient \subseteq Transaction
                       /\ Merging \subseteq Transaction
ASSUME CountAssumption == MaxCounts \subseteq Int
ASSUME EnvAssumption   == Reentrant \subseteq Method
                       /\ Flaky \in BOOLEAN /\ Balanced \in BOOLEAN
                       /\ MaxFaults \in Nat /\ MaxDepth \in Nat

VARIABLES
  maxCount,    \* mMaxTransactionCount
  doStack,     \* mDoStack
  undoStack,   \* mUndoStack
  redoStack,   \* mRedoStack
  undoKids,    \* every item's own mUndoStack
  redoKids,    \* every item's own mRedoStack
  calls,       \* activations in progress, the innermost last
  used,        \* items made so far
  faulty,      \* the call-outs that misbehave in this behaviour
  doc,         \* the transactions in effect in the document
  absorbed,    \* for each transaction, those its Merge() took in
  base,        \* for each transaction, doc when it was executed
  forgotten,   \* items dropped by a rule of the interface
  shown        \* transactions the first listener's Did* calls say are in effect

stacks == <<doStack, undoStack, redoStack>>
kids   == <<undoKids, redoKids>>
ghosts == <<absorbed, base>>
vars   == <<maxCount, stacks, kids, calls, used, faulty, doc, ghosts,
            forgotten, shown>>

-----------------------------------------------------------------------------
(* nsTransactionStack: the top is the end of the sequence.                 *)

PushAtBottom(s, x) == <<x>> \o s                                   \* mutant
Push(s, x) == Append(s, x)
PopNothing(s) == s                                                  \* mutant
Pop(s)     == Front(s)
PeekBottom(s) == s[1]                                               \* mutant
Peek(s)    == Last(s)

-----------------------------------------------------------------------------
(* Call-outs: listeners and transactions.                                  *)

\* A call-out about an item, and how it may misbehave.
Misbehaviours == {<<x, k[1], k[2], k[3]>> : x \in Item, k \in FaultKinds}

\* What the call-out <<when, op>> about item x may answer: "ok" or, if it
\* misbehaves, one of the outcomes in `bad'.
Outcomes(when, op, x, bad) ==
  LET now == {o \in bad : <<x, when, op, o>> \in faulty}
  IN  IF now = {} THEN {"ok"} ELSE IF Flaky THEN now \cup {"ok"} ELSE now

\* The Will*Notify loops: the first listener to throw ("fail") or to interrupt
\* ("veto") ends the notification and decides its outcome.
WillNotify(op, x) == Outcomes("will", op, x, {"fail", "veto"})

\* The Did*Notify loops: the first listener to throw ends the notification.
DidNotify(op, x) == Outcomes("did", op, x, {"fail"})

\* A transaction's own DoTransaction(), UndoTransaction(), RedoTransaction().
OwnResults(op, x) == Outcomes("own", op, x, {"fail"})

\* The result of an operation and then of its Did*Notify.
Combine(result, result2) == IF result = "ok" THEN result2 ELSE result

\* The first listener keeps track of what it was told is in effect.
Told(op, x, result) ==
  IF result = "fail" \/ x \in Batch THEN shown
  ELSE IF op = "undo" THEN shown \ {x} ELSE shown \cup {x}

\* What a transaction's own methods do to the document.
Effects(t) == {t} \cup absorbed[t]
Execute(op, t) == IF op = "undo" THEN doc \ Effects(t) ELSE doc \cup Effects(t)

-----------------------------------------------------------------------------
(* Activations.                                                            *)

Top         == Last(calls)
Replace(f)  == Append(Front(calls), f)
Running     == calls # <<>> /\ Top.phase \in {"self", "rollback"}
RunningOp   == IF Top.phase = "rollback" THEN "undo" ELSE Top.op

\* Code outside the manager has control: nothing is in progress, or the
\* transaction being run calls the manager.
ClientRuns ==
  \/ calls = <<>>
  \/ Running /\ RunningOp \in Reentrant /\ Len(calls) < MaxDepth

\* A transaction is executing its DoTransaction(), or a batch is open.
NotExecuting == FALSE                                               \* mutant
Executing == doStack # <<>>

\* The activations of nsTransactionItem::UndoTransaction, RedoTransaction.
Activate(op, x, phase, left) ==
  [op |-> op, item |-> x, phase |-> phase, left |-> left, res |-> "ok"]
UndoFrameOneMore(x) == Activate("undo", x, "kids", Len(undoKids[x]) + 1)  \* mutant
UndoFrameOneLess(x) == Activate("undo", x, "kids", Len(undoKids[x]) - 1)  \* mutant
UndoFrame(x) == Activate("undo", x, "kids", Len(undoKids[x]))
RedoFrame(x) ==
  IF x \in Batch THEN Activate("redo", x, "kids", Len(redoKids[x]))
                 ELSE Activate("redo", x, "self", 0)

\* RecoverFromUndoError() redoes the children, RecoverFromRedoError() undoes
\* them, and then takes back what the item's own transaction redid.
NoRecovery(op, x) == Activate(op, x, "recover", 0)                  \* mutant
RecoverFrame(op, x) ==
  Activate(op, x, "recover", Len(IF op = "undo" THEN redoKids[x] ELSE undoKids[x]))
KeepsOwn(f)  == FALSE                                               \* mutant
TakesBack(f) == f.op = "redo" /\ f.res = "ok" /\ f.item \notin Batch

\* UndoChildren() is the loop of an undo and of the recovery from a failed
\* redo; RedoChildren() the other way round.
UndoesKids(f) == (f.op = "undo") = (f.phase = "kids")
Source(f)     == IF UndoesKids(f) THEN undoKids[f.item] ELSE redoKids[f.item]

Init ==
  /\ maxCount = -1
  /\ doStack = <<>> /\ undoStack = <<>> /\ redoStack = <<>>
  /\ undoKids = [x \in Item |-> <<>>]
  /\ redoKids = [x \in Item |-> <<>>]
  /\ calls = <<>>
  /\ used = {}
  /\ faulty \in {ToSet(s) : s \in BoundedSeq(Misbehaviours, MaxFaults)}
  /\ doc = {}
  /\ absorbed = [t \in Transaction |-> {}]
  /\ base = [t \in Transaction |-> {}]
  /\ forgotten = {}
  /\ shown = {}

-----------------------------------------------------------------------------
(* EndTransaction(): what becomes of the item at the top of the do stack.  *)

IsTransient(x) == x \in Transient
EmptyBatch(x)  == x \in Batch /\ undoKids[x] = <<>> /\ redoKids[x] = <<>>

\* An empty batch, a transient transaction, or no undo at all: it is let go.
Release(x) ==
  /\ EmptyBatch(x) \/ IsTransient(x) \/ maxCount = 0
  /\ forgotten' = IF IsTransient(x) \/ maxCount = 0 THEN forgotten \cup {x} ELSE forgotten
  /\ UNCHANGED <<undoStack, redoStack, undoKids, absorbed>>

\* Another item is being executed: this one becomes its child.
AddChild(x, rest) ==
  /\ ~EmptyBatch(x) /\ ~IsTransient(x) /\ maxCount # 0
  /\ rest # <<>>
  /\ undoKids' = [undoKids EXCEPT ![Peek(rest)] = Push(@, x)]
  /\ UNCHANGED <<undoStack, redoStack, absorbed, forgotten>>

\* Push on the undo stack; at the limit the oldest item is dropped first.
AboveMax == maxCount > 0 /\ Len(undoStack) > maxCount               \* mutant
AtMax    == maxCount > 0 /\ Len(undoStack) >= maxCount
PushUndo(x) ==
  LET kept == IF AtMax /\ undoStack # <<>> THEN Tail(undoStack) ELSE undoStack
  IN  /\ undoStack' = Push(kept, x)
      /\ forgotten' = forgotten \cup (ToSet(undoStack) \ ToSet(kept))

\* Merge() is offered to the top of the undo stack, if neither is a batch.
MayMerge(x) == /\ x \in Transaction /\ undoStack # <<>>
               /\ Peek(undoStack) \in Transaction

\* Transactions that merge, like the editor's typing, are leaves.
Absorbs(top, x) == top \in Merging /\ undoKids[top] = <<>> /\ undoKids[x] = <<>>

\* The item was not nested: the redo stack is cleared, and the transaction is
\* merged into the top of the undo stack or pushed on it.
Record(x, result) ==
  /\ ~EmptyBatch(x) /\ ~IsTransient(x) /\ maxCount # 0
  /\ redoStack' = <<>>
  /\ UNCHANGED undoKids
  /\ \/ /\ ~MayMerge(x)
        /\ PushUndo(x) /\ result = "ok"
        /\ UNCHANGED absorbed
     \/ /\ MayMerge(x)
        /\ \E w \in WillNotify("Merge", x) :
             \/ /\ w = "fail" /\ result = "fail"
                /\ UNCHANGED <<undoStack, absorbed, forgotten>>
             \/ /\ w = "ok" /\ Absorbs(Peek(undoStack), x)
                /\ absorbed' = [absorbed EXCEPT ![Peek(undoStack)] = @ \cup Effects(x)]
                /\ result \in DidNotify("Merge", x)
                /\ UNCHANGED <<undoStack, forgotten>>
             \/ /\ w \in {"ok", "veto"}
                /\ PushUndo(x) /\ result = "ok"
                /\ UNCHANGED absorbed

EndTransaction(result) ==
  LET x == Peek(doStack)  rest == Pop(doStack) IN
  /\ doStack' = rest
  /\ \/ Release(x) /\ result = "ok"
     \/ AddChild(x, rest) /\ result = "ok"
     \/ rest = <<>> /\ Record(x, result)

-----------------------------------------------------------------------------
(* The manager's methods.                                                  *)

\* DoTransaction() up to the call of the transaction's own DoTransaction().
\* The transaction's effect comes before those of the transactions it runs.
DoTransaction(t) ==
  /\ ClientRuns /\ t \notin used
  /\ "ok" \in WillNotify("Do", t)
  /\ doStack' = Push(doStack, t)
  /\ calls' = Append(calls, Activate("do", t, "self", 0))
  /\ used' = used \cup {t}
  /\ base' = [base EXCEPT ![t] = doc]
  /\ doc' = doc \cup {t}
  /\ UNCHANGED <<maxCount, undoStack, redoStack, kids, faulty, absorbed,
                 forgotten, shown>>

\* A listener refuses the transaction: it is never executed.
RefuseTransaction(t) ==
  /\ ClientRuns /\ t \notin used
  /\ WillNotify("Do", t) \cap {"fail", "veto"} # {}
  /\ used' = used \cup {t}
  /\ UNCHANGED <<maxCount, stacks, kids, calls, faulty, doc, ghosts,
                 forgotten, shown>>

\* The transaction's DoTransaction() returns. What is then taken off the do
\* stack is its own item only if the batches it began have been ended.
DoCompletes == /\ calls # <<>> /\ Top.op = "do" /\ doStack # <<>>
               /\ Balanced => Peek(doStack) = Top.item

DoFailsStaying ==                                                   \* mutant
  /\ DoCompletes /\ "fail" \in OwnResults("Do", Top.item)
  /\ calls' = Front(calls)
  /\ doc' = Execute("undo", Top.item)
  /\ UNCHANGED <<maxCount, stacks, kids, used, faulty, ghosts, forgotten, shown>>
DoFails ==
  /\ DoCompletes /\ "fail" \in OwnResults("Do", Top.item)
  /\ calls' = Front(calls)
  /\ doStack' = Pop(doStack)
  /\ doc' = Execute("undo", Top.item)
  /\ UNCHANGED <<maxCount, undoStack, redoStack, kids, used, faulty, ghosts,
                 forgotten, shown>>

DoSucceeds ==
  /\ DoCompletes /\ "ok" \in OwnResults("Do", Top.item)
  /\ calls' = Front(calls)
  /\ \E result \in Result :
       /\ EndTransaction(result)
       /\ shown' = Told("do", Top.item, result)
  /\ UNCHANGED <<maxCount, redoKids, used, faulty, doc, base>>

BeginBatch(b) ==
  /\ ClientRuns /\ b \notin used
  /\ "ok" \in WillNotify("BeginBatch", b)
  /\ doStack' = Push(doStack, b)
  /\ used' = used \cup {b}
  /\ UNCHANGED <<maxCount, undoStack, redoStack, kids, calls, faulty, doc,
                 ghosts, forgotten, shown>>

\* EndBatch() refuses an item that has a transaction.
AnythingOnTop == doStack # <<>>                                     \* mutant
BatchOnTop    == doStack # <<>> /\ Peek(doStack) \in Batch

EndBatch ==
  /\ ClientRuns
  /\ BatchOnTop
  /\ "ok" \in WillNotify("EndBatch", Peek(doStack))
  /\ EndTransaction("ok")
  /\ UNCHANGED <<maxCount, redoKids, calls, used, faulty, doc, base, shown>>

\* UndoTransaction(), RedoTransaction(): ignored while a transaction is
\* executed or a batch is open, and when the stack is empty. The item stays
\* on its stack until it has succeeded.
UndoTransaction ==
  /\ ClientRuns
  /\ ~Executing /\ undoStack # <<>>
  /\ "ok" \in WillNotify("Undo", Peek(undoStack))
  /\ calls' = Append(calls, UndoFrame(Peek(undoStack)))
  /\ UNCHANGED <<maxCount, stacks, kids, used, faulty, doc, ghosts,
                 forgotten, shown>>

RedoTransaction ==
  /\ ClientRuns
  /\ ~Executing /\ redoStack # <<>>
  /\ "ok" \in WillNotify("Redo", Peek(redoStack))
  /\ calls' = Append(calls, RedoFrame(Peek(redoStack)))
  /\ UNCHANGED <<maxCount, stacks, kids, used, faulty, doc, ghosts,
                 forgotten, shown>>

Clear ==
  /\ ClientRuns
  /\ undoStack' = <<>> /\ redoStack' = <<>>
  /\ forgotten' = forgotten \cup ToSet(undoStack) \cup ToSet(redoStack)
  /\ UNCHANGED <<maxCount, doStack, kids, calls, used, faulty, doc, ghosts, shown>>

\* The newest n items of a stack, what popping at its bottom leaves.
OldestKept(s, n) == SubSeq(s, 1, n)                                 \* mutant
Newest(s, n) == SubSeq(s, Len(s) - n + 1, Len(s))

\* How many items SetMaxTransactionCount(m) keeps: the oldest undo items go
\* first, then the bottom of the redo stack, until the two stacks together are
\* within the limit.
KeptRedos(m) == IF m >= 0 /\ Len(redoStack) > m THEN m ELSE Len(redoStack)
KeptUndos(m) ==
  IF m < 0 \/ Len(undoStack) + Len(redoStack) <= m THEN Len(undoStack)
  ELSE m - KeptRedos(m)

SetMaxTransactionCount(m) ==
  /\ ClientRuns /\ ~Executing
  /\ maxCount' = IF m < 0 THEN -1 ELSE m
  /\ undoStack' = Newest(undoStack, KeptUndos(m))
  /\ redoStack' = Newest(redoStack, KeptRedos(m))
  /\ forgotten' = forgotten \cup (ToSet(undoStack) \ ToSet(undoStack'))
                           \cup (ToSet(redoStack) \ ToSet(redoStack'))
  /\ UNCHANGED <<doStack, kids, calls, used, faulty, doc, ghosts, shown>>

-----------------------------------------------------------------------------
(* nsTransactionItem: undoing and redoing a tree of items.                 *)

\* One round of UndoChildren() or RedoChildren(), up to the child's own
\* UndoTransaction() or RedoTransaction(). A veto ends the loop with success.
NextChild ==
  /\ calls # <<>> /\ Top.phase \in {"kids", "recover"} /\ Top.left > 0
  /\ Source(Top) # <<>>
  /\ LET child == Peek(Source(Top))
         will  == WillNotify(IF UndoesKids(Top) THEN "Undo" ELSE "Redo", child)
     IN  \/ /\ "ok" \in will
            /\ calls' = Append(calls, IF UndoesKids(Top) THEN UndoFrame(child)
                                                         ELSE RedoFrame(child))
         \/ /\ "veto" \in will
            /\ calls' = Replace([Top EXCEPT !.left = 0, !.res = "ok"])
         \/ /\ "fail" \in will
            /\ calls' = Replace([Top EXCEPT !.left = 0, !.res = "fail"])
  /\ UNCHANGED <<maxCount, stacks, kids, used, faulty, doc, ghosts, forgotten, shown>>

\* The loop over the children is over: recover, go on to the transaction's own
\* UndoTransaction(), or return.
AfterChildren(f) ==
  IF f.res = "fail" THEN RecoverFrame(f.op, f.item)
  ELSE IF f.op = "undo" /\ f.item \notin Batch THEN [f EXCEPT !.phase = "self"]
  ELSE [f EXCEPT !.phase = "return"]

ChildrenDone ==
  /\ calls # <<>> /\ Top.phase = "kids" /\ Top.left = 0
  /\ calls' = Replace(AfterChildren(Top))
  /\ UNCHANGED <<maxCount, stacks, kids, used, faulty, doc, ghosts, forgotten, shown>>

\* RecoverFromUndoError(), RecoverFromRedoError(): the children are back; a
\* redo also takes back the transaction's own. The operation has failed.
Failed(f) == [f EXCEPT !.phase = "return", !.res = "fail"]

RecoveryDone ==
  /\ calls # <<>> /\ Top.phase = "recover" /\ Top.left = 0
  /\ calls' = Replace(IF TakesBack(Top) THEN [Top EXCEPT !.phase = "rollback"]
                                        ELSE Failed(Top))
  /\ UNCHANGED <<maxCount, stacks, kids, used, faulty, doc, ghosts, forgotten, shown>>

\* The transaction's own UndoTransaction() or RedoTransaction() returns r: an
\* undo is complete or gives the children back, a redo goes on to the children
\* or has failed.
AfterOwn(f, r) ==
  IF f.phase = "rollback" \/ (f.op = "redo" /\ r = "fail") THEN Failed(f)
  ELSE IF r = "fail" THEN RecoverFrame("undo", f.item)
  ELSE IF f.op = "undo" THEN [f EXCEPT !.phase = "return"]
  ELSE Activate("redo", f.item, "kids", Len(redoKids[f.item]))

TransactionReturns ==
  /\ Running /\ Top.op # "do"
  /\ \E r \in OwnResults(IF RunningOp = "undo" THEN "Undo" ELSE "Redo", Top.item) :
       /\ doc' = IF r = "ok" THEN Execute(RunningOp, Top.item) ELSE doc
       /\ calls' = Replace(AfterOwn(Top, r))
  /\ UNCHANGED <<maxCount, stacks, kids, used, faulty, ghosts, forgotten, shown>>

\* The innermost activation was made by a loop over children.
Caller == Last(Front(calls))
InLoop == Len(calls) > 1 /\ Caller.phase \in {"kids", "recover"}

\* The end of a round: one child fewer, whatever became of it.
Retries(f, result) ==                                               \* mutant
  [f EXCEPT !.left = IF result = "ok" THEN @ - 1 ELSE @, !.res = result]
NextRound(f, result) == [f EXCEPT !.left = @ - 1, !.res = result]

\* A child's activation returns to the loop that made it: on success the child
\* on top moves to the other stack; then the listeners are told, by DidUndo in
\* either loop, and the loop goes on whatever the result.
ChildReturns ==
  LET parent == Caller  x == parent.item  src == Source(parent)
      result == IF Top.res = "ok" /\ src # <<>> THEN "ok" ELSE "fail"
  IN
  /\ calls # <<>> /\ Top.phase = "return" /\ InLoop
  /\ \E d \in DidNotify("Undo", Top.item) :
       calls' = Append(Front(Front(calls)), NextRound(parent, Combine(result, d)))
  /\ undoKids' = [undoKids EXCEPT ![x] =
       IF result = "fail" THEN @ ELSE IF UndoesKids(parent) THEN Pop(@) ELSE Push(@, Peek(src))]
  /\ redoKids' = [redoKids EXCEPT ![x] =
       IF result = "fail" THEN @ ELSE IF UndoesKids(parent) THEN Push(@, Peek(src)) ELSE Pop(@)]
  /\ shown' = Told("undo", Top.item, result)
  /\ UNCHANGED <<maxCount, stacks, used, faulty, doc, ghosts, forgotten>>

\* Which of the Did*Notify loops the manager calls.
AlwaysUndo(op) == "undo"                                            \* mutant
Reported(op) == op

\* The activation the manager made returns: on success the item now on top of
\* the stack, normally the one undone, moves to the other stack.
ManagerReturns ==
  LET src == IF Top.op = "undo" THEN undoStack ELSE redoStack
      result == IF Top.res = "ok" /\ src # <<>> THEN "ok" ELSE "fail"
  IN
  /\ calls # <<>> /\ Top.phase = "return" /\ ~InLoop
  /\ calls' = Front(calls)
  /\ undoStack' = IF result = "fail" THEN undoStack
                  ELSE IF Top.op = "undo" THEN Pop(undoStack) ELSE Push(undoStack, Peek(src))
  /\ redoStack' = IF result = "fail" THEN redoStack
                  ELSE IF Top.op = "undo" THEN Push(redoStack, Peek(src)) ELSE Pop(redoStack)
  /\ shown' = Told(Reported(Top.op), Top.item, result)
  /\ UNCHANGED <<maxCount, doStack, kids, used, faulty, doc, ghosts, forgotten>>

Client ==
  \/ \E t \in Transaction : DoTransaction(t)
  \/ \E t \in Transaction : RefuseTransaction(t)
  \/ \E b \in Batch : BeginBatch(b)
  \/ EndBatch
  \/ UndoTransaction
  \/ RedoTransaction
  \/ Clear
  \/ \E m \in MaxCounts : SetMaxTransactionCount(m)

Manager ==
  \/ DoFails
  \/ DoSucceeds
  \/ NextChild
  \/ ChildrenDone
  \/ RecoveryDone
  \/ TransactionReturns
  \/ ChildReturns
  \/ ManagerReturns

Next == Client \/ Manager

Spec == Init /\ [][Next]_vars

\* Activations run to their end on the editor's one thread, and a balanced
\* transaction gets to end each batch it has begun.
FairSpec == Spec /\ WF_vars(Manager) /\ WF_vars(calls # <<>> /\ EndBatch)

-----------------------------------------------------------------------------
(* What the stacks say about the document.                                 *)

\* The items in S and, through the children f[x] of each item x, below them: the
\* least set that holds S and the children of what it holds.
Reach(f, S) ==
  {y \in Item : \A C \in SUBSET Item :
                 S \subseteq C /\ (\A x \in C : ToSet(f[x]) \subseteq C) => y \in C}

AllKids     == [x \in Item |-> undoKids[x] \o redoKids[x]]
InEffect(S) == UNION {Effects(t) : t \in S \cap Transaction}

\* What the undo stack accounts for, and what no stack has to account for
\* because a rule of the interface let it go.
Done      == InEffect(Reach(undoKids, ToSet(undoStack)))
Untracked == InEffect(Reach(AllKids, forgotten))

AtRest == calls = <<>> /\ doStack = <<>>

-----------------------------------------------------------------------------
(* The history the manager keeps: GetChild() counts an item's children in  *)
(* the order they were added, the done ones from the bottom of its undo    *)
(* stack and the undone ones from the top of its redo stack.               *)

Children(x) == undoKids[x] \o Reverse(redoKids[x])

Abstract == INSTANCE UndoHistory WITH
  Group <- Batch, Passing <- Transient, Joining <- Merging, Limits <- MaxCounts \cup {-1},
  limit <- maxCount, open <- doStack, undo <- undoStack, redo <- redoStack,
  parts <- [x \in Item |-> Children(x)]

-----------------------------------------------------------------------------
(* Properties.                                                             *)

\* Every variable has its type: the stacks hold items, the activations are
\* well formed, the document consists of transactions.
TypeOK ==
  /\ maxCount \in Int
  /\ doStack \in Seq(Item) /\ undoStack \in Seq(Item) /\ redoStack \in Seq(Item)
  /\ undoKids \in [Item -> Seq(Item)] /\ redoKids \in [Item -> Seq(Item)]
  /\ calls \in Seq(Frame)
  /\ used \subseteq Item /\ forgotten \subseteq Item
  /\ doc \subseteq Transaction /\ shown \subseteq Transaction
  /\ absorbed \in [Transaction -> SUBSET Transaction]
  /\ base \in [Transaction -> SUBSET Transaction]

\* Only a transaction has methods of its own to run, and a loop over children
\* that waits for one has counted it: `left' cannot go below zero.
ActivationOK(s) ==
  \A i \in DOMAIN s :
    /\ s[i].phase \in {"self", "rollback"} => s[i].item \in Transaction
    /\ i < Len(s) /\ s[i].phase \in {"kids", "recover"} => s[i].left > 0
ActivationsOK == ActivationOK(calls)

\* maxTransactionCount bounds "both the undo and redo stacks" together, whatever
\* is pushed, undone, redone, merged or pruned, and by whom.
StackBound == maxCount >= 0 => Len(undoStack) + Len(redoStack) <= maxCount

\* The lists that hold items: the three stacks and every item's own two.
Holder == {<<"open">>, <<"undo">>, <<"redo">>} \cup {"undo", "redo"} \X Item
HeldBy == [h \in Holder |->
  IF h = <<"open">> THEN doStack
  ELSE IF h = <<"undo">> THEN undoStack
  ELSE IF h = <<"redo">> THEN redoStack
  ELSE IF h[1] = "undo" THEN undoKids[h[2]] ELSE redoKids[h[2]]]

\* No item is held twice, by two stacks or by two parents or by one of them at
\* two places: moving an item from stack to stack (push, pop, add child) neither
\* copies it nor leaves it with the owner it had, whatever re-entrant calls do
\* to the stacks between the Peek() and the Pop().
OwnedOnce(held) ==
  \A h, k \in DOMAIN held : \A i \in DOMAIN held[h], j \in DOMAIN held[k] :
    held[h][i] = held[k][j] => h = k /\ i = j
ItemOwnedOnce == OwnedOnce(HeldBy)

\* When nothing is in progress the document has exactly the effects of the
\* items that the undo stack and their done children account for, whichever
\* undo, redo, merge, batch or failure came before.
StacksMatchDocument == AtRest => doc \ Untracked = Done \ Untracked

\* When nothing is in progress an item on the undo stack is done to its last
\* descendant and one on the redo stack undone to its last descendant: a batch
\* or a transaction with children is never half undone.
TreesAreWhole ==
  AtRest => /\ \A x \in Reach(AllKids, ToSet(undoStack)) : redoKids[x] = <<>>
            /\ \A x \in Reach(AllKids, ToSet(redoStack)) : undoKids[x] = <<>>

\* UndoChildren() and RedoChildren() count their rounds before they start, and
\* dereference what Peek() finds in each: the stack never runs out before.
LoopNeverPeeksEmpty ==
  \A i \in DOMAIN calls :
    calls[i].phase \in {"kids", "recover"} => calls[i].left <= Len(Source(calls[i]))

\* nsITransaction::undoTransaction() "restores the state to what it was before
\* the transaction was executed": whenever it is called, everything done since
\* has been undone already, so what it leaves is what was there.
UndoRestoresState ==
  [][\A t \in Transaction :
       (Running /\ Top.item = t /\ RunningOp = "undo" /\ t \notin doc')
         => doc' \ Untracked = base[t] \ Untracked]_vars

\* redoTransaction() is called only in the state its doTransaction() saw.
RedoFromSameState ==
  [][\A t \in Transaction :
       (Running /\ Top.item = t /\ Top.op = "redo" /\ t \in doc' \ doc)
         => doc \ Untracked = base[t] \ Untracked]_vars

\* A listener that goes by the Did* calls knows what the undo and redo stacks
\* hold: their items, and nothing undone is believed to be in effect.
ListenerTracksStacks ==
  AtRest => /\ ToSet(undoStack) \cap Transaction \subseteq shown
            /\ shown \cap Reach(AllKids, ToSet(redoStack)) = {}

\* "It is illegal to call UndoTransaction() while the transaction manager is
\* executing a transaction's DoTransaction() method", and so for redo: neither
\* ever runs inside one, however deep the re-entrance.
UndoNeverDuringDo ==
  \A i, j \in DOMAIN calls : i < j /\ calls[i].op = "do" => calls[j].op = "do"

\* What makes it so: each transaction being executed has put an item on the do
\* stack that no call but the end of such a transaction takes off, even where
\* batches are ended by those who did not begin them.
DoFrames(s) == {i \in DOMAIN s : s[i].op = "do"}
OfTransactions(s) == {i \in DOMAIN s : s[i] \in Transaction}
DosAccounted == Cardinality(DoFrames(calls)) <= Cardinality(OfTransactions(doStack))

\* When no transaction is being executed only open batches are left on the do
\* stack: an item stuck there would refuse every later undo and redo.
OnlyBatchesStayOpen == calls = <<>> => ToSet(doStack) \subseteq Batch

\* nsTransactionManager implements the history its interface promises: an item
\* is moved as a whole by each undo or redo that succeeds, by no other call, and
\* its children keep their order however undo, redo and recovery move them.
KeepsHistory == Abstract!History

\* Every call into the manager returns, whichever call-outs fail.
EveryCallReturns == calls # <<>> ~> calls = <<>>
=============================================================================
