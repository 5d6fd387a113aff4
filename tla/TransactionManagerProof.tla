---------------------- MODULE TransactionManagerProof ----------------------
(***************************************************************************)
(* Theorems about TransactionManager, for every value of its constants:    *)
(* type correctness, the bound that maxTransactionCount puts on the undo   *)
(* and redo stacks, that no undo or redo runs while a transaction is       *)
(* being executed, that none stays open, and that every item has one owner. *)
(* The re-entrance, the faults and the number of items are arbitrary.      *)
(***************************************************************************)
EXTENDS TransactionManager, SequenceTheorems, FiniteSetTheorems, TLAPS

-----------------------------------------------------------------------------
(* Sequences.                                                              *)

\* The part of a sequence between two positions, possibly empty.
LEMMA SubSeqOp ==
  ASSUME NEW S, NEW s \in Seq(S), NEW m \in 1..Len(s)+1, NEW n \in (m-1)..Len(s)
  PROVE  SubSeq(s, m, n) \in Seq(S) /\ Len(SubSeq(s, m, n)) = n - m + 1
  OBVIOUS

\* The last element of a non-empty sequence, and what comes before it.
LEMMA FrontOp ==
  ASSUME NEW S, NEW s \in Seq(S), s # <<>>
  PROVE  /\ Last(s) \in S
         /\ Front(s) \in Seq(S) /\ Len(Front(s)) = Len(s) - 1
         /\ \A i \in 1..(Len(s) - 1) : Front(s)[i] = s[i]
<1>1. Len(s) \in Nat /\ Len(s) # 0
  BY EmptySeq
<1>2. Last(s) \in S
  BY <1>1, ElementOfSeq DEF Last
<1>3. 1 \in 1..Len(s)+1 /\ Len(s) - 1 \in (1 - 1)..Len(s)
  BY <1>1
<1>4. Front(s) \in Seq(S) /\ Len(Front(s)) = Len(s) - 1 - 1 + 1
  BY <1>3, SubSeqOp DEF Front
<1>5. \A i \in 1..(Len(s) - 1) : Front(s)[i] = s[i]
  BY <1>1 DEF Front
<1>. QED  BY <1>1, <1>2, <1>4, <1>5

\* What Push() of nsTransactionStack leaves.
LEMMA PushOp ==
  ASSUME NEW S, NEW s \in Seq(S), NEW x \in S
  PROVE  Push(s, x) \in Seq(S) /\ Len(Push(s, x)) = Len(s) + 1
  BY DEF Push

\* And what Peek() and Pop() return of a stack that is not empty.
LEMMA PopOp ==
  ASSUME NEW S, NEW s \in Seq(S), s # <<>>
  PROVE  Peek(s) \in S /\ Pop(s) \in Seq(S) /\ Len(Pop(s)) = Len(s) - 1
  BY FrontOp DEF Peek, Pop

-----------------------------------------------------------------------------
(* Activations.                                                            *)

\* A frame that may be the innermost, and one that may wait for another.
FrameOK(f)  == f.phase \in {"self", "rollback"} => f.item \in Transaction
MayWait(f)  == f.phase \in {"kids", "recover"} => f.left > 0

\* Entering an activation keeps the activations well formed.
LEMMA EnterOp ==
  ASSUME NEW s \in Seq(Frame), ActivationOK(s), NEW f \in Frame, FrameOK(f),
         s # <<>> => MayWait(Last(s))
  PROVE  Append(s, f) \in Seq(Frame) /\ ActivationOK(Append(s, f))
<1>1. Len(s) \in Nat /\ (s # <<>> <=> Len(s) # 0)
  BY EmptySeq
<1>2. /\ Append(s, f) \in Seq(Frame) /\ Len(Append(s, f)) = Len(s) + 1
      /\ \A i \in 1..Len(s) : Append(s, f)[i] = s[i]
      /\ Append(s, f)[Len(s) + 1] = f
  BY AppendProperties
<1>3. ASSUME NEW i \in 1..(Len(s) + 1)
      PROVE  LET g == Append(s, f)[i] IN
               /\ FrameOK(g)
               /\ i < Len(s) + 1 => MayWait(g)
  <2>1. CASE i = Len(s) + 1
    BY <1>2, <2>1
  <2>2. CASE i = Len(s)
    BY <1>1, <1>2, <2>2 DEF ActivationOK, FrameOK, Last
  <2>3. CASE i < Len(s)
    BY <1>1, <1>2, <2>3 DEF ActivationOK, FrameOK, MayWait
  <2>. QED  BY <1>1, <2>1, <2>2, <2>3
<1>. QED  BY <1>1, <1>2, <1>3 DEF ActivationOK, FrameOK, MayWait

\* So does leaving the innermost; its caller has been waiting.
LEMMA LeaveOp ==
  ASSUME NEW s \in Seq(Frame), ActivationOK(s), s # <<>>
  PROVE  /\ Front(s) \in Seq(Frame) /\ ActivationOK(Front(s))
         /\ Last(s) \in Frame /\ FrameOK(Last(s))
         /\ Front(s) # <<>> => Last(Front(s)) \in Frame /\ MayWait(Last(Front(s)))
<1>1. Len(s) \in Nat /\ Len(s) # 0
  BY EmptySeq
<1>2. /\ Last(s) \in Frame
      /\ Front(s) \in Seq(Frame) /\ Len(Front(s)) = Len(s) - 1
      /\ \A i \in 1..(Len(s) - 1) : Front(s)[i] = s[i]
  BY FrontOp
<1>3. ActivationOK(Front(s))
  BY <1>1, <1>2 DEF ActivationOK
<1>4. FrameOK(Last(s))
  BY <1>1 DEF ActivationOK, FrameOK, Last
<1>5. ASSUME Front(s) # <<>>
      PROVE  Last(Front(s)) \in Frame /\ MayWait(Last(Front(s)))
  <2>1. Len(Front(s)) \in 1..(Len(s) - 1)
    BY <1>1, <1>2, <1>5, EmptySeq
  <2>2. Last(Front(s)) = s[Len(s) - 1] /\ Len(s) - 1 \in 1..Len(s)
    BY <1>1, <1>2, <2>1 DEF Last
  <2>. QED  BY <1>1, <1>2, <1>5, <2>1, <2>2, FrontOp DEF ActivationOK, MayWait
<1>. QED  BY <1>2, <1>3, <1>4, <1>5

\* And so does changing the innermost.
LEMMA ReplaceOp ==
  ASSUME NEW s \in Seq(Frame), ActivationOK(s), s # <<>>, NEW f \in Frame, FrameOK(f)
  PROVE  Append(Front(s), f) \in Seq(Frame) /\ ActivationOK(Append(Front(s), f))
  BY LeaveOp, EnterOp

-----------------------------------------------------------------------------
(* Type correctness.                                                       *)

\* A call-out answers with one of the outcomes its caller knows.
LEMMA OutcomesType ==
  ASSUME NEW op, NEW x
  PROVE  /\ WillNotify(op, x) \subseteq {"ok", "fail", "veto"}
         /\ DidNotify(op, x) \subseteq Result
         /\ OwnResults(op, x) \subseteq Result
  BY DEF WillNotify, DidNotify, OwnResults, Outcomes, Result

\* The activations the manager makes are well formed.
LEMMA FrameTypes ==
  ASSUME undoKids \in [Item -> Seq(Item)], redoKids \in [Item -> Seq(Item)],
         NEW x \in Item
  PROVE  /\ UndoFrame(x) \in Frame /\ FrameOK(UndoFrame(x))
         /\ RedoFrame(x) \in Frame /\ FrameOK(RedoFrame(x))
         /\ \A op \in Method : RecoverFrame(op, x) \in Frame /\ FrameOK(RecoverFrame(op, x))
         /\ Activate("redo", x, "kids", Len(redoKids[x])) \in Frame
         /\ FrameOK(Activate("redo", x, "kids", Len(redoKids[x])))
<1>1. Len(undoKids[x]) \in Nat /\ Len(redoKids[x]) \in Nat
  OBVIOUS
<1>2. x \in Batch \/ x \in Transaction
  BY DEF Item
<1>. QED
  BY <1>1, <1>2 DEF UndoFrame, RedoFrame, RecoverFrame, Activate, Frame, FrameOK,
                    Method, Phase, Result

\* The manager leaves an activation as one that may be the innermost.
LEMMA NextFrameTypes ==
  ASSUME undoKids \in [Item -> Seq(Item)], redoKids \in [Item -> Seq(Item)],
         NEW f \in Frame
  PROVE  /\ AfterChildren(f) \in Frame /\ FrameOK(AfterChildren(f))
         /\ Failed(f) \in Frame /\ FrameOK(Failed(f))
         /\ \A r \in Result : AfterOwn(f, r) \in Frame /\ FrameOK(AfterOwn(f, r))
<1>1. f.item \in Item /\ f.op \in Method /\ "undo" \in Method
  BY DEF Frame, Method
<1>2. /\ \A op \in Method : RecoverFrame(op, f.item) \in Frame /\ FrameOK(RecoverFrame(op, f.item))
      /\ Activate("redo", f.item, "kids", Len(redoKids[f.item])) \in Frame
      /\ FrameOK(Activate("redo", f.item, "kids", Len(redoKids[f.item])))
  BY <1>1, FrameTypes
<1>3. [f EXCEPT !.phase = "return"] \in Frame /\ FrameOK([f EXCEPT !.phase = "return"])
  BY DEF Frame, FrameOK, Phase
<1>4. f.item \notin Batch => /\ [f EXCEPT !.phase = "self"] \in Frame
                             /\ FrameOK([f EXCEPT !.phase = "self"])
  BY <1>1 DEF Frame, FrameOK, Phase, Item
<1>5. Failed(f) \in Frame /\ FrameOK(Failed(f))
  BY DEF Failed, Frame, FrameOK, Phase, Result
<1>6. AfterChildren(f) \in Frame /\ FrameOK(AfterChildren(f))
  BY <1>1, <1>2, <1>3, <1>4 DEF AfterChildren
<1>7. ASSUME NEW r \in Result
      PROVE  AfterOwn(f, r) \in Frame /\ FrameOK(AfterOwn(f, r))
  BY <1>1, <1>2, <1>3, <1>5 DEF AfterOwn
<1>. QED  BY <1>5, <1>6, <1>7

\* What the first listener believes stays a set of transactions.
LEMMA ToldType ==
  ASSUME shown \subseteq Transaction, NEW op, NEW x \in Item, NEW result
  PROVE  Told(op, x, result) \subseteq Transaction
  BY DEF Told, Item

\* So does the document.
LEMMA ExecuteType ==
  ASSUME doc \subseteq Transaction, absorbed \in [Transaction -> SUBSET Transaction],
         NEW op, NEW t \in Transaction
  PROVE  Execute(op, t) \subseteq Transaction
  BY DEF Execute, Effects

\* EndTransaction() leaves items on the stacks.
LEMMA EndTransactionType ==
  ASSUME TypeOK, doStack # <<>>, NEW result, EndTransaction(result)
  PROVE  /\ doStack' \in Seq(Item) /\ undoStack' \in Seq(Item) /\ redoStack' \in Seq(Item)
         /\ undoKids' \in [Item -> Seq(Item)]
         /\ absorbed' \in [Transaction -> SUBSET Transaction]
         /\ forgotten' \subseteq Item
<1>. DEFINE x == Peek(doStack)  rest == Pop(doStack)
<1>1. /\ x \in Item /\ rest \in Seq(Item)
      /\ undoStack \in Seq(Item) /\ redoStack \in Seq(Item)
  BY PopOp DEF TypeOK
<1>2. doStack' = rest
  BY DEF EndTransaction
<1>3. CASE Release(x)
  BY <1>1, <1>2, <1>3 DEF Release, TypeOK
<1>4. CASE AddChild(x, rest)
  <2>1. Peek(rest) \in Item /\ Push(undoKids[Peek(rest)], x) \in Seq(Item)
    BY <1>1, <1>4, PopOp, PushOp DEF AddChild, TypeOK
  <2>2. undoKids' \in [Item -> Seq(Item)]
    BY <1>4, <2>1 DEF AddChild, TypeOK
  <2>. QED  BY <1>1, <1>2, <1>4, <2>2 DEF AddChild, TypeOK
<1>5. CASE Record(x, result)
  <2>1. redoStack' = <<>> /\ UNCHANGED undoKids
    BY <1>5 DEF Record
  <2>2. ASSUME PushUndo(x)
        PROVE  undoStack' \in Seq(Item) /\ forgotten' \subseteq Item
    <3>1. undoStack # <<>> => Tail(undoStack) \in Seq(Item)
      BY <1>1
    <3>2. \A kept \in Seq(Item) : Push(kept, x) \in Seq(Item)
      BY <1>1, PushOp
    <3>3. ToSet(undoStack) \subseteq Item
      BY <1>1 DEF ToSet
    <3>. QED  BY <1>1, <2>2, <3>1, <3>2, <3>3 DEF PushUndo, TypeOK
  <2>3. MayMerge(x) => x \in Transaction /\ Peek(undoStack) \in Transaction
    BY DEF MayMerge
  <2>4. ASSUME MayMerge(x),
               absorbed' = [absorbed EXCEPT ![Peek(undoStack)] = @ \cup Effects(x)]
        PROVE  absorbed' \in [Transaction -> SUBSET Transaction]
    <3>1. Effects(x) \subseteq Transaction
      BY <2>3, <2>4 DEF Effects, TypeOK
    <3>. QED  BY <2>3, <2>4, <3>1 DEF TypeOK
  <2>5. /\ UNCHANGED <<undoStack, forgotten>> \/ PushUndo(x)
        /\ \/ UNCHANGED absorbed
           \/ MayMerge(x) /\ absorbed' = [absorbed EXCEPT ![Peek(undoStack)] = @ \cup Effects(x)]
    BY <1>5 DEF Record
  <2>6. absorbed' \in [Transaction -> SUBSET Transaction]
    BY <2>4, <2>5 DEF TypeOK
  <2>7. undoStack' \in Seq(Item) /\ forgotten' \subseteq Item
    BY <1>1, <2>2, <2>5 DEF TypeOK
  <2>. QED  BY <1>1, <1>2, <2>1, <2>6, <2>7 DEF TypeOK
<1>. QED  BY <1>3, <1>4, <1>5 DEF EndTransaction

\* TypeOK alone is not inductive: that `left' stays a natural number and that
\* a frame whose own transaction runs has one is what ActivationsOK adds.
Typed == TypeOK /\ ActivationsOK

\* What SetMaxTransactionCount() keeps of the two stacks.
LEMMA PruneOp ==
  ASSUME undoStack \in Seq(Item), redoStack \in Seq(Item), NEW m \in Int
  PROVE  /\ Newest(undoStack, KeptUndos(m)) \in Seq(Item)
         /\ Newest(redoStack, KeptRedos(m)) \in Seq(Item)
         /\ m >= 0 => Len(Newest(undoStack, KeptUndos(m)))
                       + Len(Newest(redoStack, KeptRedos(m))) <= m
<1>. DEFINE u == Len(undoStack)  r == Len(redoStack)
            ku == KeptUndos(m)   kr == KeptRedos(m)
<1>1. u \in Nat /\ r \in Nat
  OBVIOUS
<1>2. kr \in 0..r /\ ku \in 0..u /\ (m >= 0 => ku + kr <= m)
  <2>1. CASE m < 0
    BY <1>1, <2>1 DEF KeptUndos, KeptRedos
  <2>2. CASE m >= 0 /\ r > m
    BY <1>1, <2>2 DEF KeptUndos, KeptRedos
  <2>3. CASE m >= 0 /\ r <= m /\ u + r <= m
    BY <1>1, <2>3 DEF KeptUndos, KeptRedos
  <2>4. CASE m >= 0 /\ r <= m /\ u + r > m
    <3>1. kr = r /\ ku = m - r
      BY <1>1, <2>4 DEF KeptUndos, KeptRedos
    <3>. QED  BY <1>1, <2>4, <3>1
  <2>. QED  BY <1>1, <2>1, <2>2, <2>3, <2>4
<1>3. ASSUME NEW s \in Seq(Item), NEW n \in 0..Len(s)
      PROVE  Newest(s, n) \in Seq(Item) /\ Len(Newest(s, n)) = n
  <2>1. Len(s) - n + 1 \in 1..Len(s)+1 /\ Len(s) \in (Len(s) - n + 1 - 1)..Len(s)
    OBVIOUS
  <2>2. Newest(s, n) \in Seq(Item) /\ Len(Newest(s, n)) = Len(s) - (Len(s) - n + 1) + 1
    BY <2>1, SubSeqOp DEF Newest
  <2>. QED  BY <2>2
<1>. HIDE DEF ku, kr
<1>4. /\ Newest(undoStack, ku) \in Seq(Item) /\ Len(Newest(undoStack, ku)) = ku
      /\ Newest(redoStack, kr) \in Seq(Item) /\ Len(Newest(redoStack, kr)) = kr
  BY <1>2, <1>3
<1>. QED  BY <1>2, <1>4 DEF ku, kr

\* The methods a client calls keep the state well typed.
LEMMA ClientTyped ==
  ASSUME Typed, Client
  PROVE  Typed'
<1>. USE DEF Typed
<1>1. /\ calls \in Seq(Frame) /\ ActivationOK(calls)
      /\ undoKids \in [Item -> Seq(Item)] /\ redoKids \in [Item -> Seq(Item)]
      /\ doStack \in Seq(Item) /\ undoStack \in Seq(Item) /\ redoStack \in Seq(Item)
  BY DEF TypeOK, ActivationsOK
<1>2. ClientRuns /\ calls # <<>> => MayWait(Last(calls))
  BY DEF ClientRuns, Running, Top, MayWait
<1>3. ASSUME NEW t \in Transaction, DoTransaction(t)
      PROVE  Typed'
  <2>1. t \in Item
    BY DEF Item
  <2>2. Push(doStack, t) \in Seq(Item)
    BY <1>1, <2>1, PushOp
  <2>3. /\ Activate("do", t, "self", 0) \in Frame
        /\ FrameOK(Activate("do", t, "self", 0))
    BY <2>1 DEF Activate, Frame, FrameOK, Method, Phase, Result
  <2>4. calls' \in Seq(Frame) /\ ActivationOK(calls')
    BY <1>1, <1>2, <1>3, <2>3, EnterOp DEF DoTransaction
  <2>. QED
    BY <1>3, <2>1, <2>2, <2>4
    DEF DoTransaction, TypeOK, ActivationsOK, kids
<1>4. ASSUME NEW t \in Transaction, RefuseTransaction(t)
      PROVE  Typed'
  BY <1>4 DEF RefuseTransaction, TypeOK, ActivationsOK, stacks, kids, ghosts, Item
<1>5. ASSUME NEW b \in Batch, BeginBatch(b)
      PROVE  Typed'
  <2>1. b \in Item
    BY DEF Item
  <2>2. Push(doStack, b) \in Seq(Item)
    BY <1>1, <2>1, PushOp
  <2>. QED  BY <1>5, <2>1, <2>2 DEF BeginBatch, TypeOK, ActivationsOK, kids, ghosts
<1>6. CASE EndBatch
  <2>1. doStack # <<>> /\ EndTransaction("ok")
    BY <1>6 DEF EndBatch, BatchOnTop
  <2>. QED  BY <1>6, <2>1, EndTransactionType DEF EndBatch, TypeOK, ActivationsOK
<1>7. CASE UndoTransaction
  <2>1. Peek(undoStack) \in Item
    BY <1>1, <1>7, PopOp DEF UndoTransaction
  <2>2. calls' \in Seq(Frame) /\ ActivationOK(calls')
    BY <1>1, <1>2, <1>7, <2>1, FrameTypes, EnterOp DEF UndoTransaction
  <2>. QED  BY <1>7, <2>2 DEF UndoTransaction, TypeOK, ActivationsOK, stacks, kids, ghosts
<1>8. CASE RedoTransaction
  <2>1. Peek(redoStack) \in Item
    BY <1>1, <1>8, PopOp DEF RedoTransaction
  <2>2. calls' \in Seq(Frame) /\ ActivationOK(calls')
    BY <1>1, <1>2, <1>8, <2>1, FrameTypes, EnterOp DEF RedoTransaction
  <2>. QED  BY <1>8, <2>2 DEF RedoTransaction, TypeOK, ActivationsOK, stacks, kids, ghosts
<1>9. CASE Clear
  <2>1. ToSet(undoStack) \subseteq Item /\ ToSet(redoStack) \subseteq Item
    BY <1>1 DEF ToSet
  <2>. QED  BY <1>9, <2>1 DEF Clear, TypeOK, ActivationsOK, kids, ghosts
<1>10. ASSUME NEW m \in MaxCounts, SetMaxTransactionCount(m)
       PROVE  Typed'
  <2>1. m \in Int
    BY CountAssumption
  <2>2. undoStack' \in Seq(Item) /\ redoStack' \in Seq(Item)
    BY <1>1, <1>10, <2>1, PruneOp DEF SetMaxTransactionCount
  <2>3. ToSet(undoStack) \subseteq Item /\ ToSet(redoStack) \subseteq Item
    BY <1>1 DEF ToSet
  <2>. QED
    BY <1>10, <2>1, <2>2, <2>3 DEF SetMaxTransactionCount, TypeOK, ActivationsOK, kids, ghosts
<1>. QED  BY <1>3, <1>4, <1>5, <1>6, <1>7, <1>8, <1>9, <1>10 DEF Client

\* The manager's own steps keep the state well typed.
LEMMA ManagerTyped ==
  ASSUME Typed, Manager
  PROVE  Typed'
<1>. USE DEF Typed
<1>1. /\ calls \in Seq(Frame) /\ ActivationOK(calls)
      /\ undoKids \in [Item -> Seq(Item)] /\ redoKids \in [Item -> Seq(Item)]
      /\ doStack \in Seq(Item) /\ undoStack \in Seq(Item) /\ redoStack \in Seq(Item)
  BY DEF TypeOK, ActivationsOK
<1>2. calls # <<>> =>
        /\ Top \in Frame /\ FrameOK(Top) /\ Top.item \in Item
        /\ Front(calls) \in Seq(Frame) /\ ActivationOK(Front(calls))
        /\ \A f \in Frame : FrameOK(f) => /\ Replace(f) \in Seq(Frame)
                                          /\ ActivationOK(Replace(f))
  BY <1>1, LeaveOp, ReplaceOp DEF Top, Replace, Frame
<1>3. CASE DoFails
  <2>1. Pop(doStack) \in Seq(Item)
    BY <1>1, <1>3, PopOp DEF DoFails, DoCompletes
  <2>2. doc' \subseteq Transaction
    BY <1>3 DEF DoFails, Execute, TypeOK
  <2>. QED
    BY <1>2, <1>3, <2>1, <2>2
    DEF DoFails, DoCompletes, TypeOK, ActivationsOK, kids, ghosts
<1>4. CASE DoSucceeds
  <2>1. PICK result \in Result : /\ EndTransaction(result)
                                 /\ shown' = Told("do", Top.item, result)
    BY <1>4 DEF DoSucceeds
  <2>2. doStack # <<>> /\ calls # <<>> /\ calls' = Front(calls)
    BY <1>4 DEF DoSucceeds, DoCompletes
  <2>3. shown' \subseteq Transaction
    BY <1>2, <2>1, <2>2, ToldType DEF TypeOK
  <2>4. /\ doStack' \in Seq(Item) /\ undoStack' \in Seq(Item) /\ redoStack' \in Seq(Item)
        /\ undoKids' \in [Item -> Seq(Item)]
        /\ absorbed' \in [Transaction -> SUBSET Transaction]
        /\ forgotten' \subseteq Item
    BY <2>1, <2>2, EndTransactionType
  <2>5. UNCHANGED <<maxCount, redoKids, used, faulty, doc, base>>
    BY <1>4 DEF DoSucceeds
  <2>. QED  BY <1>2, <2>2, <2>3, <2>4, <2>5 DEF TypeOK, ActivationsOK
<1>5. CASE NextChild
  <2>1. calls # <<>> /\ Top.left > 0 /\ Source(Top) # <<>>
    BY <1>5 DEF NextChild
  <2>2. Source(Top) \in Seq(Item)
    BY <1>1, <1>2, <2>1 DEF Source
  <2>3. Peek(Source(Top)) \in Item
    BY <2>1, <2>2, PopOp
  <2>4. /\ [Top EXCEPT !.left = 0, !.res = "ok"] \in Frame
        /\ FrameOK([Top EXCEPT !.left = 0, !.res = "ok"])
        /\ [Top EXCEPT !.left = 0, !.res = "fail"] \in Frame
        /\ FrameOK([Top EXCEPT !.left = 0, !.res = "fail"])
    BY <1>2, <2>1 DEF Frame, FrameOK, Result
  <2>5. MayWait(Last(calls))
    BY <2>1 DEF MayWait, Top
  <2>6. \A f \in Frame : FrameOK(f) => /\ Append(calls, f) \in Seq(Frame)
                                       /\ ActivationOK(Append(calls, f))
    BY <1>1, <2>5, EnterOp
  <2>7. \/ \E f \in Frame : FrameOK(f) /\ calls' = Append(calls, f)
        \/ \E f \in Frame : FrameOK(f) /\ calls' = Replace(f)
    <3>1. /\ UndoFrame(Peek(Source(Top))) \in Frame /\ FrameOK(UndoFrame(Peek(Source(Top))))
          /\ RedoFrame(Peek(Source(Top))) \in Frame /\ FrameOK(RedoFrame(Peek(Source(Top))))
      BY <1>1, <2>3, FrameTypes
    <3>. QED  BY <1>5, <2>4, <3>1 DEF NextChild
  <2>8. calls' \in Seq(Frame) /\ ActivationOK(calls')
    BY <1>2, <2>1, <2>6, <2>7
  <2>. QED  BY <1>5, <2>8 DEF NextChild, TypeOK, ActivationsOK, stacks, kids, ghosts
<1>6. CASE ChildrenDone
  <2>1. calls' \in Seq(Frame) /\ ActivationOK(calls')
    BY <1>1, <1>2, <1>6, NextFrameTypes DEF ChildrenDone
  <2>. QED  BY <1>6, <2>1 DEF ChildrenDone, TypeOK, ActivationsOK, stacks, kids, ghosts
<1>7. CASE RecoveryDone
  <2>1. TakesBack(Top) => /\ [Top EXCEPT !.phase = "rollback"] \in Frame
                          /\ FrameOK([Top EXCEPT !.phase = "rollback"])
    BY <1>2, <1>7 DEF RecoveryDone, TakesBack, Frame, FrameOK, Phase, Item
  <2>2. calls' \in Seq(Frame) /\ ActivationOK(calls')
    BY <1>1, <1>2, <1>7, <2>1, NextFrameTypes DEF RecoveryDone
  <2>. QED  BY <1>7, <2>2 DEF RecoveryDone, TypeOK, ActivationsOK, stacks, kids, ghosts
<1>8. CASE TransactionReturns
  <2>1. calls # <<>> /\ Top.item \in Transaction
    BY <1>2, <1>8 DEF TransactionReturns, Running, FrameOK
  <2>2. PICK r \in Result : /\ doc' = IF r = "ok" THEN Execute(RunningOp, Top.item) ELSE doc
                            /\ calls' = Replace(AfterOwn(Top, r))
    BY <1>8, OutcomesType DEF TransactionReturns
  <2>3. doc' \subseteq Transaction
    BY <2>1, <2>2, ExecuteType DEF TypeOK
  <2>4. calls' \in Seq(Frame) /\ ActivationOK(calls')
    BY <1>1, <1>2, <2>1, <2>2, NextFrameTypes
  <2>. QED
    BY <1>8, <2>3, <2>4 DEF TransactionReturns, TypeOK, ActivationsOK, stacks, kids, ghosts
<1>9. CASE ChildReturns
  <2>. DEFINE x == Caller.item  src == Source(Caller)
              result == IF Top.res = "ok" /\ src # <<>> THEN "ok" ELSE "fail"
  <2>1. calls # <<>> /\ InLoop
    BY <1>9 DEF ChildReturns
  <2>2. Front(calls) # <<>>
    <3>1. calls \in Seq(Frame) /\ calls # <<>>
      BY <1>1, <2>1
    <3>2. Front(calls) \in Seq(Frame) /\ Len(Front(calls)) = Len(calls) - 1
      BY ONLY <3>1, FrontOp
    <3>3. Len(calls) \in Nat /\ Len(calls) > 1
      BY <2>1, <3>1 DEF InLoop
    <3>4. Len(Front(calls)) # 0
      BY ONLY <3>2, <3>3
    <3>. QED  BY ONLY <3>2, <3>4, EmptySeq
  <2>3. /\ Caller \in Frame /\ FrameOK(Caller) /\ Caller.left > 0 /\ x \in Item
        /\ \A f \in Frame : FrameOK(f) => /\ Append(Front(Front(calls)), f) \in Seq(Frame)
                                          /\ ActivationOK(Append(Front(Front(calls)), f))
    BY <1>1, <1>2, <2>1, <2>2, LeaveOp, ReplaceOp DEF Caller, InLoop, MayWait, Frame
  <2>4. PICK d \in Result :
          calls' = Append(Front(Front(calls)), NextRound(Caller, Combine(result, d)))
    BY <1>9, OutcomesType DEF ChildReturns
  <2>5. Combine(result, d) \in Result
    BY DEF Combine, Result
  <2>6. NextRound(Caller, Combine(result, d)) \in Frame
        /\ FrameOK(NextRound(Caller, Combine(result, d)))
    <3>1. Caller.left - 1 \in Nat
      BY <2>3 DEF Frame
    <3>2. ASSUME NEW r \in Result
          PROVE  NextRound(Caller, r) \in Frame /\ FrameOK(NextRound(Caller, r))
      BY <2>3, <3>1 DEF NextRound, Frame, FrameOK
    <3>. QED  BY <2>5, <3>2
  <2>7. calls' \in Seq(Frame) /\ ActivationOK(calls')
    BY <2>3, <2>4, <2>6
  <2>8. shown' \subseteq Transaction
    BY <1>2, <1>9, <2>1, ToldType DEF ChildReturns, TypeOK
  <2>9. result = "ok" => src # <<>> /\ src \in Seq(Item)
    BY <1>1, <2>3 DEF Source
  <2>10. ASSUME result = "ok"
         PROVE  \A s \in Seq(Item) : Push(s, Peek(src)) \in Seq(Item)
    BY <2>9, <2>10, PopOp, PushOp
  <2>11. undoKids' \in [Item -> Seq(Item)]
    <3>1. CASE result = "fail"
      BY <1>1, <1>9, <3>1 DEF ChildReturns
    <3>2. CASE result = "ok" /\ UndoesKids(Caller)
      <4>1. Pop(undoKids[x]) \in Seq(Item)
        BY <1>1, <2>3, <2>9, <3>2, PopOp DEF Source
      <4>2. undoKids' = [undoKids EXCEPT ![x] = Pop(@)]
        BY <1>9, <3>2 DEF ChildReturns
      <4>. QED  BY <1>1, <2>3, <4>1, <4>2
    <3>3. CASE result = "ok" /\ ~UndoesKids(Caller)
      <4>1. undoKids' = [undoKids EXCEPT ![x] = Push(@, Peek(src))]
        BY <1>9, <3>3 DEF ChildReturns
      <4>. QED  BY <1>1, <2>3, <2>10, <3>3, <4>1
    <3>. QED  BY <3>1, <3>2, <3>3
  <2>12. redoKids' \in [Item -> Seq(Item)]
    <3>1. CASE result = "fail"
      BY <1>1, <1>9, <3>1 DEF ChildReturns
    <3>2. CASE result = "ok" /\ UndoesKids(Caller)
      <4>1. redoKids' = [redoKids EXCEPT ![x] = Push(@, Peek(src))]
        BY <1>9, <3>2 DEF ChildReturns
      <4>. QED  BY <1>1, <2>3, <2>10, <3>2, <4>1
    <3>3. CASE result = "ok" /\ ~UndoesKids(Caller)
      <4>1. Pop(redoKids[x]) \in Seq(Item)
        BY <1>1, <2>3, <2>9, <3>3, PopOp DEF Source
      <4>2. redoKids' = [redoKids EXCEPT ![x] = Pop(@)]
        BY <1>9, <3>3 DEF ChildReturns
      <4>. QED  BY <1>1, <2>3, <4>1, <4>2
    <3>. QED  BY <3>1, <3>2, <3>3
  <2>. QED
    BY <1>9, <2>7, <2>8, <2>11, <2>12 DEF ChildReturns, TypeOK, ActivationsOK, stacks, ghosts
<1>10. CASE ManagerReturns
  <2>1. calls # <<>> /\ calls' = Front(calls)
    BY <1>10 DEF ManagerReturns
  <2>2. shown' \subseteq Transaction
    BY <1>2, <1>10, <2>1, ToldType DEF ManagerReturns, TypeOK
  <2>3. /\ undoStack # <<>> => /\ Pop(undoStack) \in Seq(Item)
                               /\ Push(redoStack, Peek(undoStack)) \in Seq(Item)
        /\ redoStack # <<>> => /\ Pop(redoStack) \in Seq(Item)
                               /\ Push(undoStack, Peek(redoStack)) \in Seq(Item)
    BY <1>1, PopOp, PushOp
  <2>4. undoStack' \in Seq(Item) /\ redoStack' \in Seq(Item)
    BY <1>1, <1>10, <2>3 DEF ManagerReturns
  <2>. QED
    BY <1>2, <1>10, <2>1, <2>2, <2>4 DEF ManagerReturns, TypeOK, ActivationsOK, kids, ghosts
<1>. QED  BY <1>3, <1>4, <1>5, <1>6, <1>7, <1>8, <1>9, <1>10 DEF Manager

\* The state of the manager and of its items is well typed, and its
\* activations well formed, however its methods are nested and whatever fails.
THEOREM TypeCorrect == Spec => [](TypeOK /\ ActivationsOK)
<1>1. Init => Typed
  BY DEF Init, Typed, TypeOK, ActivationsOK, ActivationOK
<1>2. Typed /\ [Next]_vars => Typed'
  <2>1. Typed /\ Next => Typed'
    BY ClientTyped, ManagerTyped DEF Next
  <2>2. Typed /\ UNCHANGED vars => Typed'
    BY DEF Typed, TypeOK, ActivationsOK, vars, stacks, kids, ghosts
  <2>. QED  BY <2>1, <2>2
<1>. QED  BY <1>1, <1>2, PTL DEF Spec, Typed

-----------------------------------------------------------------------------
(* The limit of undo and redo items.                                       *)

\* EndTransaction() makes room for what it pushes, by clearing the redo stack
\* and dropping the oldest undo item.
LEMMA EndTransactionBound ==
  ASSUME TypeOK, StackBound, doStack # <<>>, NEW result, EndTransaction(result)
  PROVE  maxCount >= 0 => Len(undoStack') + Len(redoStack') <= maxCount
<1>. DEFINE x == Peek(doStack)
<1>1. /\ x \in Item /\ maxCount \in Int
      /\ undoStack \in Seq(Item) /\ redoStack \in Seq(Item)
      /\ Len(undoStack) \in Nat /\ Len(redoStack) \in Nat
  BY PopOp DEF TypeOK
<1>2. CASE UNCHANGED <<undoStack, redoStack>>
  BY <1>2 DEF StackBound
<1>3. CASE Record(x, result)
  <2>1. maxCount # 0 /\ redoStack' = <<>> /\ Len(redoStack') = 0
    BY <1>3 DEF Record
  <2>2. ASSUME PushUndo(x), maxCount > 0
        PROVE  Len(undoStack') <= maxCount
    <3>. DEFINE kept == IF AtMax /\ undoStack # <<>> THEN Tail(undoStack) ELSE undoStack
    <3>1. kept \in Seq(Item) /\ Len(kept) \in Nat /\ Len(kept) < maxCount
      <4>1. CASE AtMax /\ undoStack # <<>>
        BY <1>1, <2>2, <4>1 DEF StackBound
      <4>2. CASE AtMax /\ undoStack = <<>>
        BY <1>1, <2>2, <4>2 DEF AtMax
      <4>3. CASE ~AtMax
        BY <1>1, <2>2, <4>3 DEF AtMax
      <4>. QED  BY <4>1, <4>2, <4>3
    <3>2. undoStack' = Push(kept, x)
      BY <2>2 DEF PushUndo
    <3>. HIDE DEF kept
    <3>3. Len(undoStack') = Len(kept) + 1
      BY <1>1, <3>1, <3>2, PushOp
    <3>. QED  BY <1>1, <3>1, <3>3
  <2>3. undoStack' = undoStack \/ PushUndo(x)
    BY <1>3 DEF Record
  <2>4. CASE undoStack' = undoStack
    BY <1>1, <2>1, <2>4 DEF StackBound
  <2>5. CASE PushUndo(x)
    <3>1. maxCount >= 0 => Len(undoStack') <= maxCount
      BY <1>1, <2>1, <2>2, <2>5
    <3>2. Len(undoStack') \in Nat
      BY EndTransactionType
    <3>. QED  BY <1>1, <2>1, <3>1, <3>2
  <2>. QED  BY <2>3, <2>4, <2>5
<1>. QED  BY <1>2, <1>3 DEF EndTransaction, Release, AddChild

\* The undo and redo stacks together never hold more than maxTransactionCount
\* items, whatever is merged, nested, vetoed, failed, re-entered or pruned.
THEOREM StacksBounded == Spec => []StackBound
<1>1. Init => StackBound
  BY DEF Init, StackBound
<1>2. Typed /\ StackBound /\ [Next]_vars => StackBound'
  <2>. SUFFICES ASSUME Typed, StackBound, [Next]_vars
                PROVE  StackBound'
    OBVIOUS
  <2>1. /\ maxCount \in Int
        /\ undoStack \in Seq(Item) /\ redoStack \in Seq(Item)
        /\ Len(undoStack) \in Nat /\ Len(redoStack) \in Nat
    BY DEF Typed, TypeOK
  <2>2. CASE UNCHANGED <<maxCount, undoStack, redoStack>>
    BY <2>2 DEF StackBound
  <2>3. ASSUME doStack # <<>>, UNCHANGED maxCount, NEW result, EndTransaction(result)
        PROVE  StackBound'
    BY <2>3, EndTransactionBound DEF StackBound, Typed
  <2>4. CASE DoSucceeds
    BY <2>3, <2>4 DEF DoSucceeds, DoCompletes
  <2>5. CASE EndBatch
    BY <2>3, <2>5 DEF EndBatch, BatchOnTop
  <2>6. CASE Clear
    BY <2>1, <2>6 DEF Clear, StackBound
  <2>7. ASSUME NEW m \in MaxCounts, SetMaxTransactionCount(m)
        PROVE  StackBound'
    <3>1. m \in Int /\ maxCount' = IF m < 0 THEN -1 ELSE m
      BY <2>7, CountAssumption DEF SetMaxTransactionCount
    <3>2. m >= 0 => Len(undoStack') + Len(redoStack') <= m
      BY <2>1, <2>7, <3>1, PruneOp DEF SetMaxTransactionCount
    <3>. QED  BY <3>1, <3>2 DEF StackBound
  <2>8. CASE ManagerReturns
    <3>1. /\ undoStack # <<>> =>
               /\ Len(Pop(undoStack)) = Len(undoStack) - 1
               /\ Len(Push(redoStack, Peek(undoStack))) = Len(redoStack) + 1
          /\ redoStack # <<>> =>
               /\ Len(Pop(redoStack)) = Len(redoStack) - 1
               /\ Len(Push(undoStack, Peek(redoStack))) = Len(undoStack) + 1
      BY <2>1, PopOp, PushOp
    <3>2. Len(undoStack') + Len(redoStack') = Len(undoStack) + Len(redoStack)
      <4>1. \/ UNCHANGED <<undoStack, redoStack>>
            \/ /\ undoStack # <<>> /\ undoStack' = Pop(undoStack)
               /\ redoStack' = Push(redoStack, Peek(undoStack))
            \/ /\ redoStack # <<>> /\ redoStack' = Pop(redoStack)
               /\ undoStack' = Push(undoStack, Peek(redoStack))
        BY ONLY <2>8 DEF ManagerReturns
      <4>2. Len(undoStack) \in Nat /\ Len(redoStack) \in Nat
        BY ONLY <2>1
      <4>. QED  BY ONLY <3>1, <4>1, <4>2
    <3>. QED  BY <2>8, <3>2 DEF ManagerReturns, StackBound
  <2>. QED
    BY <2>2, <2>4, <2>5, <2>6, <2>7, <2>8
    DEF Next, Client, Manager, DoTransaction, RefuseTransaction, BeginBatch, UndoTransaction,
        RedoTransaction, DoFails, NextChild, ChildrenDone, RecoveryDone, TransactionReturns,
        ChildReturns, vars, stacks
<1>. QED  BY <1>1, <1>2, TypeCorrect, PTL DEF Spec, Typed

-----------------------------------------------------------------------------
(* No undo or redo while a transaction is being executed.                  *)

\* The positions of a sequence that hold an element of A.
Where(s, A) == {i \in DOMAIN s : s[i] \in A}

\* How many there are after a push and after a pop.
LEMMA WhereOp ==
  ASSUME NEW S, NEW s \in Seq(S), NEW A
  PROVE  /\ Cardinality(Where(s, A)) \in Nat
         /\ Cardinality(Where(s, A)) = 0 <=> \A i \in DOMAIN s : s[i] \notin A
         /\ \A x \in S : Cardinality(Where(Append(s, x), A)) =
                          Cardinality(Where(s, A)) + (IF x \in A THEN 1 ELSE 0)
         /\ s # <<>> => Cardinality(Where(s, A)) =
                          Cardinality(Where(Front(s), A)) + (IF Last(s) \in A THEN 1 ELSE 0)
<1>1. ASSUME NEW r \in Seq(S)
      PROVE  IsFiniteSet(Where(r, A)) /\ Cardinality(Where(r, A)) \in Nat
  <2>1. Where(r, A) \in SUBSET (1..Len(r)) /\ IsFiniteSet(1..Len(r))
    BY FS_Interval DEF Where
  <2>. QED  BY <2>1, FS_Subset, FS_CardinalityType
<1>2. ASSUME NEW r \in Seq(S), NEW x \in S
      PROVE  Cardinality(Where(Append(r, x), A)) =
               Cardinality(Where(r, A)) + (IF x \in A THEN 1 ELSE 0)
  <2>1. /\ Len(Append(r, x)) = Len(r) + 1 /\ Append(r, x) \in Seq(S)
        /\ \A i \in 1..Len(r) : Append(r, x)[i] = r[i]
        /\ Append(r, x)[Len(r) + 1] = x
    BY AppendProperties
  <2>2. Where(Append(r, x), A) =
          IF x \in A THEN Where(r, A) \cup {Len(r) + 1} ELSE Where(r, A)
    BY <2>1 DEF Where
  <2>3. Len(r) + 1 \notin Where(r, A)
    BY DEF Where
  <2>4. CASE x \in A
    <3>1. Cardinality(Where(r, A) \cup {Len(r) + 1}) = Cardinality(Where(r, A)) + 1
      BY <1>1, <2>3, FS_AddElement
    <3>. QED  BY <2>2, <2>4, <3>1
  <2>5. CASE x \notin A
    BY <1>1, <2>2, <2>5
  <2>. QED  BY <2>4, <2>5
<1>3. ASSUME s # <<>>
      PROVE  Cardinality(Where(s, A)) =
               Cardinality(Where(Front(s), A)) + (IF Last(s) \in A THEN 1 ELSE 0)
  <2>1. Last(s) \in S /\ Front(s) \in Seq(S) /\ s = Append(Front(s), Last(s))
    <3>1. /\ Len(s) \in Nat /\ Len(s) # 0 /\ Last(s) \in S
          /\ Front(s) \in Seq(S) /\ Len(Front(s)) = Len(s) - 1
          /\ \A i \in 1..(Len(s) - 1) : Front(s)[i] = s[i]
      BY <1>3, FrontOp, EmptySeq
    <3>2. /\ Append(Front(s), Last(s)) \in Seq(S)
          /\ Len(Append(Front(s), Last(s))) = Len(Front(s)) + 1
          /\ \A i \in 1..Len(Front(s)) : Append(Front(s), Last(s))[i] = Front(s)[i]
          /\ Append(Front(s), Last(s))[Len(Front(s)) + 1] = Last(s)
      BY <3>1, AppendProperties
    <3>3. /\ Len(s) = Len(Append(Front(s), Last(s)))
          /\ \A i \in 1..Len(s) : s[i] = Append(Front(s), Last(s))[i]
      BY <3>1, <3>2 DEF Last
    <3>4. s = Append(Front(s), Last(s))
      BY <3>2, <3>3, SeqEqual
    <3>. QED  BY <3>1, <3>4
  <2>. QED  BY <1>2, <2>1
<1>4. Cardinality(Where(s, A)) = 0 <=> \A i \in DOMAIN s : s[i] \notin A
  <2>1. Cardinality(Where(s, A)) = 0 <=> Where(s, A) = {}
    BY <1>1, FS_EmptySet
  <2>. QED  BY <2>1 DEF Where
<1>. QED  BY <1>1, <1>2, <1>3, <1>4

\* The activations of a transaction's doTransaction().
DoFrame == {f \in Frame : f.op = "do"}

\* DoFrames(), in terms of Where().
LEMMA CountedOp ==
  ASSUME NEW s \in Seq(Frame)
  PROVE  DoFrames(s) = Where(s, DoFrame)
<1>1. \A i \in DOMAIN s : s[i] \in Frame
  OBVIOUS
<1>. QED  BY <1>1 DEF DoFrames, Where, DoFrame

\* What a push does to the two counts.
LEMMA PushCounts ==
  /\ \A s \in Seq(Frame) :
       /\ Cardinality(DoFrames(s)) \in Nat
       /\ Cardinality(DoFrames(s)) = 0 => \A i \in DOMAIN s : s[i].op # "do"
       /\ \A f \in Frame : f.op = "do" =>
            Cardinality(DoFrames(Append(s, f))) = Cardinality(DoFrames(s)) + 1
  /\ \A q \in Seq(Item) :
       /\ Cardinality(OfTransactions(q)) \in Nat
       /\ \A x \in Item : Cardinality(OfTransactions(Append(q, x))) =
            Cardinality(OfTransactions(q)) + (IF x \in Transaction THEN 1 ELSE 0)
<1>1. ASSUME NEW s \in Seq(Frame)
      PROVE  /\ Cardinality(DoFrames(s)) \in Nat
             /\ Cardinality(DoFrames(s)) = 0 => \A i \in DOMAIN s : s[i].op # "do"
  <2>1. /\ Cardinality(Where(s, DoFrame)) \in Nat
        /\ Cardinality(Where(s, DoFrame)) = 0 <=> \A i \in DOMAIN s : s[i] \notin DoFrame
    BY WhereOp
  <2>2. \A i \in DOMAIN s : s[i] \in Frame
    OBVIOUS
  <2>3. DoFrames(s) = Where(s, DoFrame)
    BY CountedOp
  <2>4. (\A i \in DOMAIN s : s[i] \notin DoFrame) => \A i \in DOMAIN s : s[i].op # "do"
    BY <2>2 DEF DoFrame
  <2>. QED  BY <2>1, <2>3, <2>4
<1>2. ASSUME NEW s \in Seq(Frame), NEW f \in Frame, f.op = "do"
      PROVE  Cardinality(DoFrames(Append(s, f))) = Cardinality(DoFrames(s)) + 1
  <2>1. f \in DoFrame /\ Append(s, f) \in Seq(Frame)
    BY <1>2, AppendProperties DEF DoFrame
  <2>2. Cardinality(Where(Append(s, f), DoFrame)) = Cardinality(Where(s, DoFrame)) + 1
    BY <2>1, WhereOp
  <2>3. /\ DoFrames(s) = Where(s, DoFrame)
        /\ DoFrames(Append(s, f)) = Where(Append(s, f), DoFrame)
    BY <2>1, CountedOp
  <2>. QED  BY <2>2, <2>3
<1>3. ASSUME NEW q \in Seq(Item)
      PROVE  /\ Cardinality(OfTransactions(q)) \in Nat
             /\ \A x \in Item : Cardinality(OfTransactions(Append(q, x))) =
                  Cardinality(OfTransactions(q)) + (IF x \in Transaction THEN 1 ELSE 0)
  <2>1. /\ Cardinality(Where(q, Transaction)) \in Nat
        /\ \A x \in Item : Cardinality(Where(Append(q, x), Transaction)) =
             Cardinality(Where(q, Transaction)) + (IF x \in Transaction THEN 1 ELSE 0)
    BY WhereOp
  <2>. QED  BY <2>1 DEF OfTransactions, Where
<1>. QED  BY <1>1, <1>2, <1>3

\* The order of the activations: a transaction's own method runs in a do
\* activation, and only do activations are made while there is one.
DoOrder(s) ==
  /\ \A i \in DOMAIN s : s[i].op = "do" => s[i].phase = "self"
  /\ \A i, j \in DOMAIN s : i < j /\ s[i].op = "do" => s[j].op = "do"

\* Activations are made and end in that order.
LEMMA OrderOp ==
  ASSUME NEW s \in Seq(Frame), DoOrder(s)
  PROVE  /\ s # <<>> => /\ DoOrder(Front(s))
                        /\ Last(s).op = "do" => Last(s).phase = "self"
         /\ \A f \in Frame :
              /\ f.op = "do" => f.phase = "self"
              /\ s # <<>> /\ Last(s).op = "do" => f.op = "do"
              => DoOrder(Append(s, f))
<1>1. Len(s) \in Nat /\ (s # <<>> <=> Len(s) # 0)
  BY EmptySeq
<1>2. ASSUME s # <<>>
      PROVE  DoOrder(Front(s)) /\ (Last(s).op = "do" => Last(s).phase = "self")
  <2>1. /\ Front(s) \in Seq(Frame) /\ Len(Front(s)) = Len(s) - 1
        /\ \A i \in 1..(Len(s) - 1) : Front(s)[i] = s[i]
    BY <1>2, FrontOp
  <2>2. Len(s) \in DOMAIN s
    BY <1>1, <1>2
  <2>3. DOMAIN Front(s) = 1..(Len(s) - 1) /\ DOMAIN s = 1..Len(s)
    BY <1>1, <2>1
  <2>. QED  BY <1>1, <2>1, <2>2, <2>3 DEF DoOrder, Last
<1>3. ASSUME NEW f \in Frame, f.op = "do" => f.phase = "self",
             s # <<>> /\ Last(s).op = "do" => f.op = "do"
      PROVE  DoOrder(Append(s, f))
  <2>. DEFINE t == Append(s, f)
  <2>1. /\ t \in Seq(Frame) /\ Len(t) = Len(s) + 1
        /\ \A i \in 1..Len(s) : t[i] = s[i]
        /\ t[Len(s) + 1] = f
    BY AppendProperties
  <2>2. DOMAIN t = 1..(Len(s) + 1) /\ DOMAIN s = 1..Len(s)
    BY <1>1, <2>1
  <2>. HIDE DEF t
  <2>3. ASSUME NEW i \in DOMAIN s, s[i].op = "do"
        PROVE  f.op = "do"
    <3>1. s # <<>> /\ Len(s) \in DOMAIN s /\ (i = Len(s) \/ i < Len(s))
      BY <1>1, <2>2
    <3>. QED  BY <1>3, <2>3, <3>1 DEF DoOrder, Last
  <2>4. \A i \in DOMAIN t : t[i].op = "do" => t[i].phase = "self"
    BY <1>1, <1>3, <2>1, <2>2 DEF DoOrder
  <2>5. ASSUME NEW i \in DOMAIN t, NEW j \in DOMAIN t, i < j, t[i].op = "do"
        PROVE  t[j].op = "do"
    <3>1. i \in DOMAIN s /\ t[i] = s[i]
      BY <1>1, <2>1, <2>2, <2>5
    <3>2. CASE j = Len(s) + 1
      BY <2>1, <2>3, <2>5, <3>1, <3>2
    <3>3. CASE j # Len(s) + 1
      <4>1. j \in DOMAIN s /\ t[j] = s[j]
        BY <1>1, <2>1, <2>2, <3>3
      <4>. QED  BY <2>5, <3>1, <4>1 DEF DoOrder
    <3>. QED  BY <3>2, <3>3
  <2>. QED  BY <2>4, <2>5 DEF DoOrder, t
<1>. QED  BY <1>2, <1>3

\* Activations other than do activations, made and ended, change no count.
LEMMA EnterOther ==
  ASSUME NEW s \in Seq(Frame), DoOrder(s), s # <<>> => Last(s).op # "do",
         NEW f \in Frame, f.op # "do"
  PROVE  /\ DoOrder(Append(s, f))
         /\ Cardinality(DoFrames(Append(s, f))) = Cardinality(DoFrames(s))
<1>1. DoOrder(Append(s, f)) /\ Append(s, f) \in Seq(Frame)
  BY OrderOp
<1>2. Cardinality(Where(s, DoFrame)) \in Nat /\ f \notin DoFrame
  BY WhereOp DEF DoFrame
<1>3. Cardinality(Where(Append(s, f), DoFrame)) = Cardinality(Where(s, DoFrame)) + 0
  BY <1>2, WhereOp
<1>4. /\ DoFrames(s) = Where(s, DoFrame)
      /\ DoFrames(Append(s, f)) = Where(Append(s, f), DoFrame)
  BY <1>1, CountedOp
<1>. QED  BY <1>1, <1>2, <1>3, <1>4

LEMMA LeaveOther ==
  ASSUME NEW s \in Seq(Frame), DoOrder(s), s # <<>>, Last(s).op # "do"
  PROVE  /\ Front(s) \in Seq(Frame) /\ DoOrder(Front(s))
         /\ Cardinality(DoFrames(Front(s))) = Cardinality(DoFrames(s))
         /\ Front(s) # <<>> => Last(Front(s)) \in Frame /\ Last(Front(s)).op # "do"
<1>1. Front(s) \in Seq(Frame) /\ DoOrder(Front(s)) /\ Last(s) \in Frame
  BY OrderOp, FrontOp
<1>2. /\ Cardinality(Where(Front(s), DoFrame)) \in Nat
      /\ Last(s) \notin DoFrame
  BY <1>1, WhereOp DEF DoFrame
<1>3. Cardinality(Where(s, DoFrame)) = Cardinality(Where(Front(s), DoFrame)) + 0
  BY <1>2, WhereOp
<1>4. ASSUME Front(s) # <<>>
      PROVE  Last(Front(s)) \in Frame /\ Last(Front(s)).op # "do"
  <2>1. /\ Len(s) \in Nat /\ Len(Front(s)) = Len(s) - 1 /\ Len(Front(s)) # 0
        /\ \A i \in 1..(Len(s) - 1) : Front(s)[i] = s[i]
    BY <1>1, <1>4, FrontOp, EmptySeq
  <2>2. /\ Len(s) - 1 \in DOMAIN s /\ Len(s) \in DOMAIN s /\ Len(s) - 1 < Len(s)
        /\ Last(Front(s)) = s[Len(s) - 1]
    BY <2>1 DEF Last
  <2>. QED  BY <2>1, <2>2 DEF DoOrder, Last
<1>. QED  BY <1>1, <1>2, <1>3, <1>4, CountedOp

\* The same when the innermost activation goes on to another phase.
LEMMA ReplaceOther ==
  ASSUME NEW s \in Seq(Frame), DoOrder(s), s # <<>>, Last(s).op # "do",
         NEW f \in Frame, f.op # "do"
  PROVE  /\ DoOrder(Append(Front(s), f))
         /\ Cardinality(DoFrames(Append(Front(s), f))) = Cardinality(DoFrames(s))
  BY LeaveOther, EnterOther

\* The end of a do activation.
LEMMA DoEnds ==
  ASSUME NEW s \in Seq(Frame), DoOrder(s), s # <<>>, Last(s).op = "do"
  PROVE  DoOrder(Front(s)) /\ Cardinality(DoFrames(s)) = Cardinality(DoFrames(Front(s))) + 1
<1>1. Front(s) \in Seq(Frame) /\ DoOrder(Front(s)) /\ Last(s) \in DoFrame
  BY OrderOp, FrontOp DEF DoFrame
<1>2. Cardinality(Where(s, DoFrame)) = Cardinality(Where(Front(s), DoFrame)) + 1
  BY <1>1, WhereOp
<1>3. /\ DoFrames(s) = Where(s, DoFrame)
      /\ DoFrames(Front(s)) = Where(Front(s), DoFrame)
  BY <1>1, CountedOp
<1>. QED  BY <1>1, <1>2, <1>3

\* Only a do activation takes an item that has a transaction off the do stack.
LEMMA PopCount ==
  ASSUME NEW q \in Seq(Item), q # <<>>
  PROVE  /\ Cardinality(OfTransactions(q)) \in Nat /\ Cardinality(OfTransactions(Pop(q))) \in Nat
         /\ Cardinality(OfTransactions(Pop(q))) >= Cardinality(OfTransactions(q)) - 1
         /\ Cardinality(OfTransactions(Pop(q))) =
              Cardinality(OfTransactions(q)) - (IF Peek(q) \in Transaction THEN 1 ELSE 0)
<1>1. Pop(q) \in Seq(Item)
  BY PopOp
<1>2. Cardinality(Where(q, Transaction)) \in Nat /\ Cardinality(Where(Pop(q), Transaction)) \in Nat
  BY <1>1, WhereOp
<1>3. Cardinality(Where(q, Transaction)) =
        Cardinality(Where(Pop(q), Transaction)) + (IF Peek(q) \in Transaction THEN 1 ELSE 0)
  BY WhereOp DEF Pop, Peek
<1>. QED  BY <1>2, <1>3 DEF OfTransactions, Where

\* What DosAccounted needs of the other activations to be inductive; and where
\* transactions end the batches they begin, the items on the do stack that have
\* a transaction are those of the transactions being executed, no more.
DosMatched == Cardinality(DoFrames(calls)) = Cardinality(OfTransactions(doStack))
DosInv == DoOrder(calls) /\ DosAccounted /\ (Balanced => DosMatched)

LEMMA ClientDos ==
  ASSUME Typed, DosInv, Client
  PROVE  DosInv'
<1>1. /\ calls \in Seq(Frame) /\ DoOrder(calls) /\ doStack \in Seq(Item)
      /\ Cardinality(DoFrames(calls)) <= Cardinality(OfTransactions(doStack))
      /\ Balanced => Cardinality(DoFrames(calls)) = Cardinality(OfTransactions(doStack))
      /\ undoKids \in [Item -> Seq(Item)] /\ redoKids \in [Item -> Seq(Item)]
      /\ undoStack \in Seq(Item) /\ redoStack \in Seq(Item)
  BY DEF Typed, TypeOK, DosInv, DosAccounted, DosMatched
<1>2. Cardinality(DoFrames(calls)) \in Nat /\ Cardinality(OfTransactions(doStack)) \in Nat
  BY <1>1, PushCounts
<1>3. ASSUME UNCHANGED <<doStack, calls>>
      PROVE  DosInv'
  BY <1>1, <1>3 DEF DosInv, DosAccounted, DosMatched, DoOrder, DoFrames, OfTransactions
<1>4. ASSUME NEW t \in Transaction, DoTransaction(t)
      PROVE  DosInv'
  <2>. DEFINE f == Activate("do", t, "self", 0)
  <2>1. /\ f \in Frame /\ f.op = "do" /\ f.phase = "self" /\ t \in Item
    BY DEF Activate, Frame, Item, Method, Phase, Result
  <2>2. doStack' = Append(doStack, t) /\ calls' = Append(calls, f)
    BY <1>4 DEF DoTransaction, Push
  <2>. HIDE DEF f
  <2>3. DoOrder(calls') /\ calls' \in Seq(Frame)
    BY <1>1, <2>1, <2>2, OrderOp
  <2>4. Cardinality(DoFrames(calls')) = Cardinality(DoFrames(calls)) + 1
    BY <1>1, <2>1, <2>2, PushCounts
  <2>5. Cardinality(OfTransactions(doStack')) = Cardinality(OfTransactions(doStack)) + 1
    BY <1>1, <1>2, <2>1, <2>2, PushCounts
  <2>. QED  BY <1>1, <1>2, <2>3, <2>4, <2>5 DEF DosInv, DosAccounted, DosMatched
<1>5. ASSUME NEW b \in Batch, BeginBatch(b)
      PROVE  DosInv'
  <2>1. b \in Item /\ b \notin Transaction
    BY ItemAssumption DEF Item
  <2>2. doStack' = Append(doStack, b) /\ calls' = calls
    BY <1>5 DEF BeginBatch, Push
  <2>3. Cardinality(OfTransactions(doStack')) = Cardinality(OfTransactions(doStack)) + 0
    BY <1>1, <1>2, <2>1, <2>2, PushCounts
  <2>. QED  BY <1>1, <1>2, <2>2, <2>3 DEF DosInv, DosAccounted, DosMatched
<1>6. CASE EndBatch
  <2>1. /\ doStack # <<>> /\ Peek(doStack) \in Batch
        /\ doStack' = Pop(doStack) /\ calls' = calls
    BY <1>6 DEF EndBatch, BatchOnTop, EndTransaction
  <2>2. Peek(doStack) \notin Transaction
    BY <2>1, ItemAssumption
  <2>3. Cardinality(OfTransactions(doStack')) = Cardinality(OfTransactions(doStack)) - 0
    BY <1>1, <2>1, <2>2, PopCount
  <2>. QED  BY <1>1, <1>2, <2>1, <2>3 DEF DosInv, DosAccounted, DosMatched
\* With an empty do stack there is no do activation that could run an undo.
<1>7. ASSUME ~Executing, NEW f \in Frame, f.op # "do",
             doStack' = doStack, calls' = Append(calls, f)
      PROVE  DosInv'
  <2>1. Cardinality(OfTransactions(doStack)) = 0
    <3>1. OfTransactions(doStack) = {}
      BY <1>7 DEF Executing, OfTransactions
    <3>. QED  BY <3>1, FS_EmptySet
  <2>2. \A i \in DOMAIN calls : calls[i].op # "do"
    BY <1>1, <1>2, <2>1, PushCounts
  <2>3. calls # <<>> => Last(calls).op # "do"
    <3>1. calls # <<>> => Len(calls) \in DOMAIN calls
      BY <1>1, EmptySeq
    <3>. QED  BY <2>2, <3>1 DEF Last
  <2>4. DoOrder(calls') /\ Cardinality(DoFrames(calls')) = Cardinality(DoFrames(calls))
    BY <1>1, <1>7, <2>3, EnterOther
  <2>. QED  BY <1>1, <1>7, <2>4 DEF DosInv, DosAccounted, DosMatched
<1>8. CASE UndoTransaction
  <2>1. Peek(undoStack) \in Item /\ UndoFrame(Peek(undoStack)).op # "do"
    BY <1>1, <1>8, PopOp DEF UndoTransaction, UndoFrame, Activate
  <2>2. UndoFrame(Peek(undoStack)) \in Frame
    BY <1>1, <2>1, FrameTypes
  <2>. QED  BY <1>7, <1>8, <2>1, <2>2 DEF UndoTransaction, stacks
<1>9. CASE RedoTransaction
  <2>1. Peek(redoStack) \in Item /\ RedoFrame(Peek(redoStack)).op # "do"
    BY <1>1, <1>9, PopOp DEF RedoTransaction, RedoFrame, Activate
  <2>2. RedoFrame(Peek(redoStack)) \in Frame
    BY <1>1, <2>1, FrameTypes
  <2>. QED  BY <1>7, <1>9, <2>1, <2>2 DEF RedoTransaction, stacks
<1>. QED
  BY <1>3, <1>4, <1>5, <1>6, <1>8, <1>9
  DEF Client, RefuseTransaction, Clear, SetMaxTransactionCount, stacks

LEMMA ManagerDos ==
  ASSUME Typed, DosInv, Manager
  PROVE  DosInv'
<1>1. /\ calls \in Seq(Frame) /\ DoOrder(calls) /\ doStack \in Seq(Item)
      /\ ActivationOK(calls)
      /\ Cardinality(DoFrames(calls)) <= Cardinality(OfTransactions(doStack))
      /\ Balanced => Cardinality(DoFrames(calls)) = Cardinality(OfTransactions(doStack))
      /\ undoKids \in [Item -> Seq(Item)] /\ redoKids \in [Item -> Seq(Item)]
  BY DEF Typed, TypeOK, ActivationsOK, DosInv, DosAccounted, DosMatched
<1>2. Cardinality(DoFrames(calls)) \in Nat /\ Cardinality(OfTransactions(doStack)) \in Nat
  BY <1>1, PushCounts
<1>3. calls # <<>> => Top \in Frame /\ (Top.op = "do" => Top.phase = "self")
  BY <1>1, OrderOp, FrontOp DEF Top
<1>4. ASSUME DoOrder(calls'), Cardinality(DoFrames(calls')) = Cardinality(DoFrames(calls)),
             doStack' = doStack
      PROVE  DosInv'
  BY <1>1, <1>4 DEF DosInv, DosAccounted, DosMatched
\* The innermost activation is no do, and goes on.
<1>5. ASSUME calls # <<>>, Top.op # "do", NEW f \in Frame, f.op # "do",
             calls' = Replace(f), doStack' = doStack
      PROVE  DosInv'
  BY <1>1, <1>4, <1>5, ReplaceOther DEF Replace, Top
\* The innermost activation is a do, and ends.
<1>6. ASSUME DoCompletes, calls' = Front(calls), doStack' = Pop(doStack)
      PROVE  DosInv'
  <2>1. calls # <<>> /\ Last(calls).op = "do" /\ doStack # <<>>
    BY <1>6 DEF DoCompletes, Top
  <2>2. DoOrder(calls') /\ Cardinality(DoFrames(calls)) = Cardinality(DoFrames(calls')) + 1
    BY <1>1, <1>6, <2>1, DoEnds
  <2>3. /\ Cardinality(OfTransactions(doStack')) >= Cardinality(OfTransactions(doStack)) - 1
        /\ Balanced => Cardinality(OfTransactions(doStack')) = Cardinality(OfTransactions(doStack)) - 1
    <3>1. Balanced => Peek(doStack) \in Transaction
      BY <1>1, <1>3, <1>6, <2>1, LeaveOp DEF DoCompletes, FrameOK, Top
    <3>. QED  BY <1>1, <1>6, <2>1, <3>1, PopCount
  <2>4. Cardinality(DoFrames(calls')) \in Nat /\ Cardinality(OfTransactions(doStack')) \in Nat
    BY <1>1, <1>6, <2>1, PopCount, PushCounts, FrontOp
  <2>. QED  BY <1>1, <1>2, <2>2, <2>3, <2>4 DEF DosInv, DosAccounted, DosMatched
<1>7. CASE DoFails
  BY <1>6, <1>7 DEF DoFails
<1>8. CASE DoSucceeds
  BY <1>6, <1>8 DEF DoSucceeds, EndTransaction
<1>9. CASE NextChild
  <2>1. calls # <<>> /\ Top.phase \in {"kids", "recover"} /\ Source(Top) # <<>>
    BY <1>9 DEF NextChild
  <2>2. Top \in Frame /\ Top.op # "do" /\ doStack' = doStack
    BY <1>3, <1>9, <2>1 DEF NextChild, stacks
  <2>. DEFINE child == Peek(Source(Top))
  <2>3. child \in Item
    <3>1. Top.item \in Item
      BY <2>2 DEF Frame
    <3>2. Source(Top) \in Seq(Item)
      BY <1>1, <3>1 DEF Source
    <3>. QED  BY <2>1, <3>2, PopOp
  <2>4. /\ UndoFrame(child) \in Frame /\ RedoFrame(child) \in Frame
        /\ UndoFrame(child).op # "do" /\ RedoFrame(child).op # "do"
    BY <1>1, <2>3, FrameTypes DEF UndoFrame, RedoFrame, Activate
  <2>5. \A r \in Result : /\ [Top EXCEPT !.left = 0, !.res = r] \in Frame
                          /\ [Top EXCEPT !.left = 0, !.res = r].op # "do"
    BY <2>2 DEF Frame
  <2>6. \/ calls' \in {Append(calls, UndoFrame(child)), Append(calls, RedoFrame(child))}
        \/ \E r \in Result : calls' = Replace([Top EXCEPT !.left = 0, !.res = r])
    BY <1>9 DEF NextChild, Result
  <2>. HIDE DEF child
  <2>7. ASSUME NEW f \in Frame, f.op # "do", calls' = Append(calls, f)
        PROVE  DosInv'
    BY <1>1, <1>4, <2>1, <2>2, <2>7, EnterOther DEF Top
  <2>. QED  BY <1>5, <2>1, <2>2, <2>4, <2>5, <2>6, <2>7
<1>10. CASE ChildrenDone
  <2>1. calls # <<>> /\ Top \in Frame /\ Top.op # "do" /\ AfterChildren(Top) \in Frame
    BY <1>1, <1>3, <1>10, NextFrameTypes DEF ChildrenDone
  <2>2. AfterChildren(Top).op = Top.op
    BY <2>1 DEF AfterChildren, RecoverFrame, Activate, Frame
  <2>. QED  BY <1>5, <1>10, <2>1, <2>2 DEF ChildrenDone, stacks
<1>11. CASE RecoveryDone
  <2>1. calls # <<>> /\ Top \in Frame /\ Top.op # "do" /\ Top.phase = "recover"
    BY <1>3, <1>11 DEF RecoveryDone
  <2>2. TakesBack(Top) => [Top EXCEPT !.phase = "rollback"] \in Frame
    BY <2>1 DEF Frame, Phase
  <2>3. Failed(Top) \in Frame /\ Failed(Top).op = Top.op
    BY <1>1, <2>1, NextFrameTypes DEF Failed, Frame
  <2>4. [Top EXCEPT !.phase = "rollback"].op = Top.op
    BY <2>1 DEF Frame
  <2>. QED  BY <1>5, <1>11, <2>1, <2>2, <2>3, <2>4 DEF RecoveryDone, stacks
<1>12. CASE TransactionReturns
  <2>1. calls # <<>> /\ Top \in Frame /\ Top.op # "do" /\ doStack' = doStack
    BY <1>3, <1>12 DEF TransactionReturns, Running, stacks
  <2>2. PICK r \in Result : calls' = Replace(AfterOwn(Top, r))
    BY <1>12, OutcomesType DEF TransactionReturns
  <2>3. AfterOwn(Top, r) \in Frame
    BY <1>1, <2>1, NextFrameTypes
  <2>4. AfterOwn(Top, r).op # "do"
    BY <2>1 DEF AfterOwn, Failed, RecoverFrame, Activate, Frame
  <2>. QED  BY <1>5, <2>1, <2>2, <2>3, <2>4
<1>13. CASE ChildReturns
  <2>1. /\ calls # <<>> /\ Last(calls).op # "do" /\ InLoop /\ doStack' = doStack
    BY <1>3, <1>13 DEF ChildReturns, Top, stacks
  <2>2. /\ Front(calls) \in Seq(Frame) /\ DoOrder(Front(calls)) /\ Front(calls) # <<>>
        /\ Cardinality(DoFrames(Front(calls))) = Cardinality(DoFrames(calls))
        /\ Caller \in Frame /\ Caller.op # "do" /\ MayWait(Caller)
    <3>1. Front(calls) \in Seq(Frame) /\ Len(Front(calls)) = Len(calls) - 1
      BY <1>1, <2>1, FrontOp
    <3>2. Len(calls) \in Nat /\ Len(calls) > 1
      BY <1>1, <2>1 DEF InLoop
    <3>3. Len(Front(calls)) # 0
      BY ONLY <3>1, <3>2
    <3>4. Front(calls) # <<>>
      BY ONLY <3>1, <3>3, EmptySeq
    <3>. QED  BY <1>1, <2>1, <3>4, LeaveOther, LeaveOp DEF Caller
  <2>3. PICK r \in Result : calls' = Append(Front(Front(calls)), NextRound(Caller, r))
    <3>1. \A a, b \in Result : Combine(a, b) \in Result
      BY DEF Combine
    <3>. QED  BY <1>13, <3>1, OutcomesType DEF ChildReturns, Result
  <2>4. Caller.left - 1 \in Nat
    BY <2>1, <2>2 DEF InLoop, MayWait, Frame
  <2>5. NextRound(Caller, r) \in Frame /\ NextRound(Caller, r).op # "do"
    BY <2>2, <2>4 DEF NextRound, Frame
  <2>6. DoOrder(calls') /\ Cardinality(DoFrames(calls')) = Cardinality(DoFrames(calls))
    BY <2>2, <2>3, <2>5, ReplaceOther DEF Caller
  <2>. QED  BY <1>4, <2>1, <2>6
<1>14. CASE ManagerReturns
  <2>1. calls # <<>> /\ Last(calls).op # "do" /\ doStack' = doStack /\ calls' = Front(calls)
    BY <1>3, <1>14 DEF ManagerReturns, Top
  <2>. QED  BY <1>1, <1>4, <2>1, LeaveOther
<1>. QED
  BY <1>7, <1>8, <1>9, <1>10, <1>11, <1>12, <1>13, <1>14 DEF Manager

\* What the activations and the do stack have to do with each other, always.
LEMMA DosInvariant == Spec => [](Typed /\ DosInv)
<1>1. Init => DosInv
  <2>1. Init => calls = <<>> /\ doStack = <<>>
    BY DEF Init
  <2>2. DoFrames(<<>>) = {} /\ OfTransactions(<<>>) = {} /\ DoOrder(<<>>)
    BY DEF DoFrames, OfTransactions, DoOrder
  <2>3. Cardinality({}) <= Cardinality({})
    BY FS_EmptySet
  <2>. QED  BY <2>1, <2>2, <2>3 DEF DosInv, DosAccounted, DosMatched
<1>2. Typed /\ DosInv /\ [Next]_vars => DosInv'
  <2>1. Typed /\ DosInv /\ Next => DosInv'
    BY ClientDos, ManagerDos DEF Next
  <2>2. DosInv /\ UNCHANGED vars => DosInv'
    BY DEF DosInv, DoOrder, DosAccounted, DosMatched, DoFrames, OfTransactions, vars, stacks
  <2>. QED  BY <2>1, <2>2
<1>. QED  BY <1>1, <1>2, TypeCorrect, PTL DEF Spec, Typed

\* "It is illegal to call UndoTransaction() while the transaction manager is
\* executing a transaction's DoTransaction() method": it never happens, nor a
\* redo, however deep the re-entrance, whatever fails, and also when a
\* transaction leaves batches open or ends those of others.
THEOREM NoUndoDuringDo == Spec => [](UndoNeverDuringDo /\ DosAccounted)
<1>1. DosInv => UndoNeverDuringDo /\ DosAccounted
  BY DEF DosInv, DoOrder, UndoNeverDuringDo
<1>. QED  BY <1>1, DosInvariant, PTL

\* The do stack holds at least as many transactions as are being executed, whoever
\* opens and ends batches in between: EndTransaction() and the error path of
\* BeginTransaction() never run out of items.
COROLLARY DosOnStack == Spec => []DosAccounted
  BY NoUndoDuringDo, PTL

\* Where every transaction ends the batches it begins, the do stack holds no
\* transaction when none is being executed, whichever of them failed, was vetoed
\* or executed others: none is stuck there to refuse every later undo and redo.
THEOREM NothingStuckOpen ==
  ASSUME Balanced
  PROVE  Spec => []OnlyBatchesStayOpen
<1>1. Typed /\ DosInv => OnlyBatchesStayOpen
  <2>. SUFFICES ASSUME Typed, DosInv, calls = <<>>
                PROVE  ToSet(doStack) \subseteq Batch
    BY DEF OnlyBatchesStayOpen
  <2>1. doStack \in Seq(Item)
    BY DEF Typed, TypeOK
  <2>2. DoFrames(calls) = {}
    BY DEF DoFrames
  <2>3. Cardinality(Where(doStack, Transaction)) = 0
    BY <2>2, FS_EmptySet DEF DosInv, DosMatched, OfTransactions, Where
  <2>4. \A i \in DOMAIN doStack : doStack[i] \in Item /\ doStack[i] \notin Transaction
    BY <2>1, <2>3, WhereOp
  <2>. QED  BY <2>4 DEF ToSet, Item
<1>. QED  BY <1>1, DosInvariant, PTL

\* The bookkeeping of the loops over children: a loop that waits for a child has
\* counted it, and only an item that has a transaction is ever executed.
COROLLARY ActivationsWellFormed == Spec => []ActivationsOK
  BY TypeCorrect, PTL

-----------------------------------------------------------------------------
(* Who holds an item: no item is ever held by two stacks, by two parents   *)
(* or at two places of one, however re-entrant calls interleave with the   *)
(* loops over children and whatever fails.                                 *)

-----------------------------------------------------------------------------
(* Families of lists.                                                      *)

\* The elements of r are those of s, from some position on.
Part(r, s) == \E k \in Nat : \A i \in DOMAIN r : i + k \in DOMAIN s /\ r[i] = s[i + k]

\* Some list holds x.
Holds(held, x) == \E h \in DOMAIN held : \E i \in DOMAIN held[h] : held[h][i] = x

\* Letting items go from either end of a list.
LEMMA PartOp ==
  ASSUME NEW S, NEW s \in Seq(S)
  PROVE  /\ Part(s, s) /\ Part(<<>>, s)
         /\ s # <<>> => Part(Front(s), s) /\ Part(Tail(s), s)
         /\ \A n \in 0..Len(s) : Part(Newest(s, n), s)
<1>1. Len(s) \in Nat /\ DOMAIN s = 1..Len(s)
  OBVIOUS
<1>2. Part(s, s)
  <2>1. \A i \in DOMAIN s : i + 0 = i
    BY <1>1
  <2>. QED  BY <2>1 DEF Part
<1>3. Part(<<>>, s)
  BY DEF Part
<1>4. ASSUME s # <<>>
      PROVE  Part(Front(s), s) /\ Part(Tail(s), s)
  <2>1. /\ Front(s) \in Seq(S) /\ Len(Front(s)) = Len(s) - 1
        /\ \A i \in 1..(Len(s) - 1) : Front(s)[i] = s[i]
    BY <1>4, FrontOp
  <2>2. \A i \in DOMAIN Front(s) : i + 0 \in DOMAIN s /\ Front(s)[i] = s[i + 0]
    BY <1>1, <2>1
  <2>3. /\ Tail(s) \in Seq(S) /\ Len(Tail(s)) = Len(s) - 1
        /\ \A i \in 1..(Len(s) - 1) : Tail(s)[i] = s[i + 1]
    BY <1>4, HeadTailProperties
  <2>4. \A i \in DOMAIN Tail(s) : i + 1 \in DOMAIN s /\ Tail(s)[i] = s[i + 1]
    BY <1>1, <2>3
  <2>. QED  BY <2>2, <2>4 DEF Part
<1>5. ASSUME NEW n \in 0..Len(s)
      PROVE  Part(Newest(s, n), s)
  <2>. DEFINE k == Len(s) - n
  <2>1. k \in Nat /\ Len(s) - n + 1 = k + 1
    BY <1>1
  <2>2. \A i \in DOMAIN Newest(s, n) : i + k \in DOMAIN s /\ Newest(s, n)[i] = s[i + k]
    BY <1>1, <2>1 DEF Newest
  <2>. QED  BY <2>1, <2>2 DEF Part
<1>. QED  BY <1>2, <1>3, <1>4, <1>5

\* Items that are let go are held by nobody twice.
LEMMA PartsOwned ==
  ASSUME NEW H, NEW S, NEW L \in [H -> Seq(S)], NEW K \in [H -> Seq(S)],
         OwnedOnce(L), \A h \in H : Part(K[h], L[h])
  PROVE  OwnedOnce(K) /\ \A x : Holds(K, x) => Holds(L, x)
<1>1. ASSUME NEW h \in H, NEW g \in H, NEW i \in DOMAIN K[h], NEW j \in DOMAIN K[g],
             K[h][i] = K[g][j]
      PROVE  h = g /\ i = j
  <2>1. PICK m \in Nat : i + m \in DOMAIN L[h] /\ K[h][i] = L[h][i + m]
    BY DEF Part
  <2>2. PICK n \in Nat : /\ \A l \in DOMAIN K[g] : l + n \in DOMAIN L[g] /\ K[g][l] = L[g][l + n]
    BY DEF Part
  <2>3. h = g /\ i + m = j + n
    <3>1. j + n \in DOMAIN L[g] /\ L[h][i + m] = L[g][j + n]
      BY <1>1, <2>1, <2>2
    <3>2. h \in DOMAIN L /\ g \in DOMAIN L
      OBVIOUS
    <3>. QED  BY ONLY <2>1, <3>1, <3>2, OwnedOnce(L) DEF OwnedOnce
  <2>4. i \in DOMAIN K[g] /\ L[g][i + n] = L[g][j + n] /\ i + n \in DOMAIN L[g] /\ j + n \in DOMAIN L[g]
    BY <1>1, <2>2, <2>3
  <2>5. i + n = j + n
    BY <2>4 DEF OwnedOnce
  <2>6. i \in Nat /\ j \in Nat
    OBVIOUS
  <2>. QED  BY <2>3, <2>5, <2>6
<1>2. ASSUME NEW x, Holds(K, x)
      PROVE  Holds(L, x)
  BY <1>2 DEF Holds, Part
<1>. QED  BY <1>1, <1>2 DEF OwnedOnce

\* Nobody holds what has been popped.
LEMMA PopOwned ==
  ASSUME NEW H, NEW S, NEW L \in [H -> Seq(S)], OwnedOnce(L),
         NEW h \in H, L[h] # <<>>
  PROVE  LET K == [L EXCEPT ![h] = Front(@)] IN
           /\ K \in [H -> Seq(S)] /\ OwnedOnce(K)
           /\ ~Holds(K, Last(L[h]))
           /\ \A x : Holds(K, x) => Holds(L, x)
<1>. DEFINE K == [L EXCEPT ![h] = Front(@)]
<1>1. /\ Front(L[h]) \in Seq(S) /\ Len(Front(L[h])) = Len(L[h]) - 1
      /\ \A i \in 1..(Len(L[h]) - 1) : Front(L[h])[i] = L[h][i]
  BY FrontOp
<1>2. K \in [H -> Seq(S)] /\ K[h] = Front(L[h]) /\ \A g \in H \ {h} : K[g] = L[g]
  BY <1>1
<1>. HIDE DEF K
<1>3. \A g \in H : Part(K[g], L[g])
  BY <1>2, PartOp
<1>4. OwnedOnce(K) /\ \A x : Holds(K, x) => Holds(L, x)
  BY <1>2, <1>3, PartsOwned
<1>5. ASSUME NEW g \in H, NEW i \in DOMAIN K[g], K[g][i] = Last(L[h])
      PROVE  FALSE
  <2>1. Len(L[h]) \in Nat /\ Len(L[h]) # 0 /\ Len(L[h]) \in DOMAIN L[h]
    BY EmptySeq
  <2>2. i \in DOMAIN L[g] /\ L[g][i] = L[h][Len(L[h])] /\ (g = h => i < Len(L[h]))
    <3>1. CASE g = h
      <4>1. i \in 1..(Len(L[h]) - 1)
        BY <1>1, <1>2, <1>5, <3>1
      <4>2. i \in DOMAIN L[h] /\ i < Len(L[h])
        BY <2>1, <4>1
      <4>. QED  BY <1>1, <1>2, <1>5, <3>1, <4>1, <4>2 DEF Last
    <3>2. CASE g # h
      BY <1>2, <1>5, <3>2 DEF Last
    <3>. QED  BY <3>1, <3>2
  <2>. QED  BY <2>1, <2>2 DEF OwnedOnce
<1>6. ~Holds(K, Last(L[h]))
  BY <1>2, <1>5 DEF Holds
<1>. QED  BY <1>2, <1>4, <1>6 DEF K

\* What nobody holds may be pushed.
LEMMA PushOwned ==
  ASSUME NEW H, NEW S, NEW L \in [H -> Seq(S)], OwnedOnce(L),
         NEW h \in H, NEW x \in S, ~Holds(L, x)
  PROVE  LET K == [L EXCEPT ![h] = Append(@, x)] IN
           /\ K \in [H -> Seq(S)] /\ OwnedOnce(K)
           /\ \A y : Holds(K, y) => y = x \/ Holds(L, y)
<1>. DEFINE K == [L EXCEPT ![h] = Append(@, x)]
<1>1. /\ Append(L[h], x) \in Seq(S) /\ Len(Append(L[h], x)) = Len(L[h]) + 1
      /\ \A i \in 1..Len(L[h]) : Append(L[h], x)[i] = L[h][i]
      /\ Append(L[h], x)[Len(L[h]) + 1] = x
  BY AppendProperties
<1>2. K \in [H -> Seq(S)] /\ K[h] = Append(L[h], x) /\ \A g \in H \ {h} : K[g] = L[g]
  BY <1>1
<1>. HIDE DEF K
\* A position holds x, or what it held before.
<1>3. ASSUME NEW g \in H, NEW i \in DOMAIN K[g]
      PROVE  \/ g = h /\ i = Len(L[h]) + 1 /\ K[g][i] = x
             \/ i \in DOMAIN L[g] /\ K[g][i] = L[g][i]
  <2>1. CASE g = h
    BY <1>1, <1>2, <2>1
  <2>2. CASE g # h
    BY <1>2, <2>2
  <2>. QED  BY <2>1, <2>2
<1>4. OwnedOnce(K)
  <2>1. DOMAIN K = H /\ DOMAIN L = H
    BY <1>2
  <2>2. \A g \in H : \A i \in DOMAIN L[g] : L[g][i] # x
    BY DEF Holds
  <2>. QED  BY <1>3, <2>1, <2>2 DEF OwnedOnce
<1>5. ASSUME NEW y, Holds(K, y)
      PROVE  y = x \/ Holds(L, y)
  BY <1>2, <1>3, <1>5 DEF Holds
<1>. QED  BY <1>2, <1>4, <1>5 DEF K

\* So an item may be moved from one list to another.
LEMMA MoveOwned ==
  ASSUME NEW H, NEW S, NEW L \in [H -> Seq(S)], OwnedOnce(L),
         NEW h \in H, NEW g \in H, h # g, L[h] # <<>>
  PROVE  LET K == [L EXCEPT ![h] = Front(@), ![g] = Append(@, Last(L[h]))] IN
           OwnedOnce(K) /\ \A x : Holds(K, x) => Holds(L, x)
<1>. DEFINE x == Last(L[h])
            J == [L EXCEPT ![h] = Front(@)]
            K == [J EXCEPT ![g] = Append(@, x)]
<1>1. /\ J \in [H -> Seq(S)] /\ OwnedOnce(J) /\ ~Holds(J, x)
      /\ \A y : Holds(J, y) => Holds(L, y)
  BY PopOwned
<1>2. x \in S /\ Holds(L, x)
  <2>1. Len(L[h]) \in DOMAIN L[h]
    BY EmptySeq
  <2>. QED  BY <2>1, FrontOp DEF Holds, Last
<1>3. OwnedOnce(K) /\ \A y : Holds(K, y) => y = x \/ Holds(J, y)
  <2>. HIDE DEF J, x
  <2>. QED  BY <1>1, <1>2, PushOwned
<1>4. K = [L EXCEPT ![h] = Front(@), ![g] = Append(@, Last(L[h]))]
  OBVIOUS
<1>. QED  BY <1>1, <1>2, <1>3, <1>4

-----------------------------------------------------------------------------
(* The manager's lists.                                                    *)

\* The names of the lists are different names.
LEMMA HolderOp ==
  /\ <<"open">> \in Holder /\ <<"undo">> \in Holder /\ <<"redo">> \in Holder
  /\ \A x \in Item : <<"undo", x>> \in Holder /\ <<"redo", x>> \in Holder
  /\ \A h \in Holder : \/ h \in {<<"open">>, <<"undo">>, <<"redo">>}
                       \/ \E x \in Item : h = <<"undo", x>> \/ h = <<"redo", x>>
<1>1. \A h \in {"undo", "redo"} \X Item : \E x \in Item : h = <<"undo", x>> \/ h = <<"redo", x>>
  OBVIOUS
<1>. QED  BY <1>1 DEF Holder

LEMMA HolderDistinct ==
  /\ <<"open">> # <<"undo">> /\ <<"open">> # <<"redo">> /\ <<"undo">> # <<"redo">>
  /\ \A x : /\ <<"undo", x>> \notin {<<"open">>, <<"undo">>, <<"redo">>}
            /\ <<"redo", x>> \notin {<<"open">>, <<"undo">>, <<"redo">>}
  /\ \A x, y : <<"undo", x>> # <<"redo", y>>
<1>1. \A x, y : Len(<<x>>) # Len(<<"undo", y>>) /\ Len(<<x>>) # Len(<<"redo", y>>)
  OBVIOUS
<1>2. \A x, y : <<x>> # <<"undo", y>> /\ <<x>> # <<"redo", y>>
  BY <1>1
<1>3. \A x, y : <<"undo", x>>[1] # <<"redo", y>>[1]
  OBVIOUS
<1>4. /\ <<"open">>[1] # <<"undo">>[1] /\ <<"open">>[1] # <<"redo">>[1]
      /\ <<"undo">>[1] # <<"redo">>[1]
  OBVIOUS
<1>. QED  BY <1>2, <1>3, <1>4

\* What each of them is.
HeldByLists ==
  /\ DOMAIN HeldBy = Holder
  /\ HeldBy[<<"open">>] = doStack
  /\ HeldBy[<<"undo">>] = undoStack
  /\ HeldBy[<<"redo">>] = redoStack
  /\ \A x \in Item : HeldBy[<<"undo", x>>] = undoKids[x] /\ HeldBy[<<"redo", x>>] = redoKids[x]
  /\ TypeOK => HeldBy \in [Holder -> Seq(Item)]

LEMMA HeldByOp == HeldByLists
<1>1. DOMAIN HeldBy = Holder
  BY DEF HeldBy
<1>2. /\ HeldBy[<<"open">>] = doStack
      /\ HeldBy[<<"undo">>] = undoStack
      /\ HeldBy[<<"redo">>] = redoStack
  BY HolderOp, HolderDistinct DEF HeldBy
<1>3. ASSUME NEW x \in Item
      PROVE  HeldBy[<<"undo", x>>] = undoKids[x] /\ HeldBy[<<"redo", x>>] = redoKids[x]
  <2>1. /\ <<"undo", x>>[1] = "undo" /\ <<"undo", x>>[2] = x
        /\ <<"redo", x>>[1] = "redo" /\ <<"redo", x>>[2] = x
    OBVIOUS
  <2>. QED  BY <2>1, HolderOp, HolderDistinct DEF HeldBy
<1>4. ASSUME TypeOK
      PROVE  HeldBy \in [Holder -> Seq(Item)]
  <2>1. ASSUME NEW h \in Holder
        PROVE  HeldBy[h] \in Seq(Item)
    <3>1. CASE h \in {<<"open">>, <<"undo">>, <<"redo">>}
      BY <1>2, <1>4, <3>1 DEF TypeOK
    <3>2. CASE h \notin {<<"open">>, <<"undo">>, <<"redo">>}
      <4>1. PICK x \in Item : h = <<"undo", x>> \/ h = <<"redo", x>>
        BY <3>2, HolderOp
      <4>. QED  BY <1>3, <1>4, <4>1 DEF TypeOK
    <3>. QED  BY <3>1, <3>2
  <2>. QED  BY <2>1 DEF HeldBy
<1>. QED  BY <1>1, <1>2, <1>3, <1>4 DEF HeldByLists

\* ItemOwnedOnce is inductive together with this: what is held has been made.
HeldUsed == \A x \in Item : Holds(HeldBy, x) => x \in used
Owned    == ItemOwnedOnce /\ HeldUsed

\* A step after which the lists are K, one of whose owners K has thus become.
LEMMA HeldByIs ==
  ASSUME TypeOK, TypeOK', NEW K,
         DOMAIN K = Holder,
         K[<<"open">>] = doStack', K[<<"undo">>] = undoStack', K[<<"redo">>] = redoStack',
         \A x \in Item : K[<<"undo", x>>] = undoKids'[x] /\ K[<<"redo", x>>] = redoKids'[x],
         K \in [Holder -> Seq(Item)]
  PROVE  HeldBy' = K
<1>1. HeldByLists'
  BY HeldByOp, PTL
<1>2. ASSUME NEW h \in Holder
      PROVE  HeldBy'[h] = K[h]
  <2>1. CASE h \in {<<"open">>, <<"undo">>, <<"redo">>}
    BY <1>1, <2>1 DEF HeldByLists
  <2>2. CASE h \notin {<<"open">>, <<"undo">>, <<"redo">>}
    <3>1. PICK x \in Item : h = <<"undo", x>> \/ h = <<"redo", x>>
      BY <2>2, HolderOp
    <3>. QED  BY <1>1, <3>1 DEF HeldByLists
  <2>. QED  BY <2>1, <2>2
<1>3. HeldBy' \in [Holder -> Seq(Item)]
  BY <1>1 DEF HeldByLists
<1>. QED  BY <1>2, <1>3

-----------------------------------------------------------------------------
(* How the steps change the lists.                                         *)

\* Items are only let go.
LEMMA LetGo ==
  ASSUME TypeOK, TypeOK', Owned, used' = used, UNCHANGED kids,
         Part(doStack', doStack), Part(undoStack', undoStack), Part(redoStack', redoStack)
  PROVE  Owned'
<1>. DEFINE L == HeldBy  K == HeldBy'
<1>1. HeldByLists /\ HeldByLists'
  BY HeldByOp, PTL
<1>2. L \in [Holder -> Seq(Item)] /\ K \in [Holder -> Seq(Item)]
  BY <1>1 DEF HeldByLists
<1>3. ASSUME NEW h \in Holder
      PROVE  Part(K[h], L[h])
  <2>1. CASE h \in {<<"open">>, <<"undo">>, <<"redo">>}
    BY <1>1, <2>1 DEF HeldByLists
  <2>2. CASE h \notin {<<"open">>, <<"undo">>, <<"redo">>}
    <3>1. PICK x \in Item : h = <<"undo", x>> \/ h = <<"redo", x>>
      BY <2>2, HolderOp
    <3>2. K[h] = L[h]
      BY <1>1, <3>1 DEF HeldByLists, kids
    <3>. QED  BY <1>2, <3>2, PartOp
  <2>. QED  BY <2>1, <2>2
<1>4. OwnedOnce(L) /\ HeldUsed
  BY DEF Owned, ItemOwnedOnce
<1>. HIDE DEF L, K
<1>5. OwnedOnce(K) /\ \A x : Holds(K, x) => Holds(L, x)
  BY <1>2, <1>3, <1>4, PartsOwned
<1>. QED  BY <1>4, <1>5 DEF L, K, Owned, ItemOwnedOnce, HeldUsed

\* The lists become K, which hold nothing twice and nothing new.
LEMMA OwnedStep ==
  ASSUME Owned, used \subseteq used', NEW K, HeldBy' = K,
         OwnedOnce(K), \A x : Holds(K, x) => Holds(HeldBy, x) \/ x \in used'
  PROVE  Owned'
  BY DEF Owned, ItemOwnedOnce, HeldUsed

\* A new item is pushed on the do stack.
LEMMA OpenNew ==
  ASSUME TypeOK, TypeOK', Owned, NEW x \in Item, x \notin used, used' = used \cup {x},
         doStack' = Push(doStack, x), UNCHANGED <<undoStack, redoStack, kids>>
  PROVE  Owned'
<1>. DEFINE L == HeldBy  K == [L EXCEPT ![<<"open">>] = Append(@, x)]
<1>1. HeldByLists /\ <<"open">> \in Holder
  BY HeldByOp, HolderOp
<1>2. L \in [Holder -> Seq(Item)] /\ OwnedOnce(L) /\ ~Holds(L, x)
  BY <1>1 DEF HeldByLists, Owned, ItemOwnedOnce, HeldUsed
<1>3. /\ K \in [Holder -> Seq(Item)] /\ OwnedOnce(K)
      /\ \A y : Holds(K, y) => y = x \/ Holds(L, y)
  <2>. HIDE DEF L
  <2>. QED  BY <1>1, <1>2, PushOwned
<1>4. HeldBy' = K
  <2>1. /\ DOMAIN K = Holder /\ K[<<"open">>] = doStack'
        /\ K[<<"undo">>] = undoStack' /\ K[<<"redo">>] = redoStack'
    BY <1>1, <1>2, HolderOp, HolderDistinct DEF HeldByLists, Push
  <2>2. \A y \in Item : K[<<"undo", y>>] = undoKids'[y] /\ K[<<"redo", y>>] = redoKids'[y]
    BY <1>1, <1>2, HolderOp, HolderDistinct DEF HeldByLists, kids
  <2>. HIDE DEF K
  <2>. QED  BY <1>3, <2>1, <2>2, HeldByIs
<1>. QED  BY <1>3, <1>4, OwnedStep

\* An item is moved from the top of one list to the top of another, after others
\* may have been let go, which left the lists J.
LEMMA Moved ==
  ASSUME TypeOK, TypeOK', Owned, used' = used,
         NEW J \in [Holder -> Seq(Item)], \A h \in Holder : Part(J[h], HeldBy[h]),
         NEW h \in Holder, NEW g \in Holder, h # g, J[h] # <<>>,
         HeldBy' = [J EXCEPT ![h] = Front(@), ![g] = Append(@, Last(J[h]))]
  PROVE  Owned'
<1>. DEFINE L == HeldBy  K == [J EXCEPT ![h] = Front(@), ![g] = Append(@, Last(J[h]))]
<1>1. HeldByLists
  BY HeldByOp
<1>2. L \in [Holder -> Seq(Item)] /\ OwnedOnce(L)
  BY <1>1 DEF HeldByLists, Owned, ItemOwnedOnce
<1>3. OwnedOnce(J) /\ \A x : Holds(J, x) => Holds(L, x)
  <2>. HIDE DEF L
  <2>. QED  BY <1>2, PartsOwned DEF L
<1>4. OwnedOnce(K) /\ \A x : Holds(K, x) => Holds(J, x)
  BY <1>3, MoveOwned
<1>. HIDE DEF K
<1>5. HeldBy' = K
  BY DEF K
<1>. QED  BY <1>3, <1>4, <1>5, OwnedStep

\* What moving makes of a family of lists is one.
LEMMA MoveType ==
  ASSUME NEW J \in [Holder -> Seq(Item)], NEW h \in Holder, NEW g \in Holder,
         h # g, J[h] # <<>>
  PROVE  LET K == [J EXCEPT ![h] = Front(@), ![g] = Append(@, Last(J[h]))] IN
           /\ K \in [Holder -> Seq(Item)]
           /\ K[h] = Front(J[h]) /\ K[g] = Append(J[g], Last(J[h]))
           /\ \A f \in Holder \ {h, g} : K[f] = J[f]
<1>1. Front(J[h]) \in Seq(Item) /\ Last(J[h]) \in Item
  BY FrontOp
<1>2. Append(J[g], Last(J[h])) \in Seq(Item)
  BY <1>1, AppendProperties
<1>. QED  BY <1>1, <1>2

\* EndTransaction() lets the item at the top of the do stack go, adds it to the
\* children of the item below it, or pushes it on the undo stack.
LEMMA EndTransactionOwned ==
  ASSUME TypeOK, TypeOK', Owned, doStack # <<>>, NEW result, EndTransaction(result),
         used' = used, redoKids' = redoKids
  PROVE  Owned'
<1>. DEFINE x == Peek(doStack)  rest == Pop(doStack)
<1>1. /\ doStack \in Seq(Item) /\ undoStack \in Seq(Item) /\ redoStack \in Seq(Item)
      /\ x \in Item /\ rest \in Seq(Item) /\ doStack' = rest
  BY PopOp DEF TypeOK, EndTransaction
<1>2. /\ Part(doStack', doStack) /\ Part(undoStack, undoStack)
      /\ Part(redoStack, redoStack) /\ Part(<<>>, redoStack)
  BY <1>1, PartOp DEF Pop
<1>3. HeldByLists /\ HeldBy \in [Holder -> Seq(Item)]
  BY HeldByOp DEF HeldByLists
<1>4. CASE Release(x)
  BY <1>2, <1>4, LetGo DEF Release, kids
<1>5. CASE AddChild(x, rest)
  <2>. DEFINE h == <<"open">>  g == <<"undo", Peek(rest)>>
              K == [HeldBy EXCEPT ![h] = Front(@), ![g] = Append(@, Last(HeldBy[h]))]
  <2>1. Peek(rest) \in Item
    BY <1>1, <1>5, PopOp DEF AddChild
  <2>2. /\ h \in Holder /\ g \in Holder /\ h # g
        /\ HeldBy[h] = doStack /\ HeldBy[g] = undoKids[Peek(rest)]
    BY <1>3, <2>1, HolderOp, HolderDistinct DEF HeldByLists
  <2>3. /\ K \in [Holder -> Seq(Item)]
        /\ K[h] = Front(HeldBy[h]) /\ K[g] = Append(HeldBy[g], Last(HeldBy[h]))
        /\ \A f \in Holder \ {h, g} : K[f] = HeldBy[f]
    <3>. HIDE DEF h, g
    <3>. QED  BY <1>1, <1>3, <2>2, MoveType
  <2>4. undoKids' = [undoKids EXCEPT ![Peek(rest)] = Append(@, x)]
    BY <1>5 DEF AddChild, Push
  <2>5. HeldBy' = K
    <3>. HIDE DEF K, rest
    <3>1. K[<<"open">>] = doStack'
      BY <1>1, <2>2, <2>3 DEF Pop, rest
    <3>2. K[<<"undo">>] = undoStack' /\ K[<<"redo">>] = redoStack'
      BY <1>3, <1>5, <2>2, <2>3, HolderOp, HolderDistinct DEF HeldByLists, AddChild
    <3>3. ASSUME NEW y \in Item
          PROVE  K[<<"undo", y>>] = undoKids'[y] /\ K[<<"redo", y>>] = redoKids'[y]
      <4>1. K[<<"redo", y>>] = redoKids'[y]
        BY <1>3, <2>2, <2>3, HolderOp, HolderDistinct DEF HeldByLists
      <4>2. CASE y = Peek(rest)
        BY <2>1, <2>2, <2>3, <2>4, <4>1, <4>2 DEF TypeOK, Peek
      <4>3. CASE y # Peek(rest)
        <5>1. <<"undo", y>> # g /\ <<"undo", y>> # h /\ <<"undo", y>> \in Holder
          BY <4>3, HolderOp, HolderDistinct
        <5>. QED  BY <1>3, <2>1, <2>3, <2>4, <4>1, <4>3, <5>1 DEF HeldByLists, TypeOK
      <4>. QED  BY <4>2, <4>3
    <3>. QED  BY <2>3, <3>1, <3>2, <3>3, HeldByIs
  <2>6. \A f \in Holder : Part(HeldBy[f], HeldBy[f])
    BY <1>3, PartOp
  <2>. HIDE DEF h, g
  <2>. QED  BY <1>3, <2>2, <2>5, <2>6, Moved
<1>6. CASE Record(x, result)
  <2>1. redoStack' = <<>> /\ UNCHANGED kids
    BY <1>6 DEF Record, kids
  <2>2. CASE undoStack' = undoStack
    BY <1>2, <2>1, <2>2, LetGo
  <2>3. CASE PushUndo(x)
    <3>. DEFINE kept == IF AtMax /\ undoStack # <<>> THEN Tail(undoStack) ELSE undoStack
                J == [HeldBy EXCEPT ![<<"undo">>] = kept, ![<<"redo">>] = <<>>]
                h == <<"open">>  g == <<"undo">>
                K == [J EXCEPT ![h] = Front(@), ![g] = Append(@, Last(J[h]))]
    <3>1. kept \in Seq(Item) /\ Part(kept, undoStack) /\ undoStack' = Append(kept, x)
      BY <1>1, <2>3, PartOp DEF PushUndo, Push
    <3>. HIDE DEF kept
    <3>2. /\ J \in [Holder -> Seq(Item)]
          /\ J[<<"open">>] = doStack /\ J[<<"undo">>] = kept /\ J[<<"redo">>] = <<>>
          /\ \A f \in Holder : f # <<"undo">> /\ f # <<"redo">> => J[f] = HeldBy[f]
      <4>1. HeldBy \in [Holder -> Seq(Item)] /\ HeldBy[<<"open">>] = doStack
        BY <1>3 DEF HeldByLists
      <4>2. kept \in Seq(Item) /\ <<>> \in Seq(Item)
        BY <3>1
      <4>3. <<"open">> \in Holder /\ <<"undo">> \in Holder /\ <<"redo">> \in Holder
        BY HolderOp
      <4>. QED  BY <4>1, <4>2, <4>3, HolderDistinct
    <3>3. ASSUME NEW f \in Holder
          PROVE  Part(J[f], HeldBy[f])
      <4>1. f # <<"undo">> /\ f # <<"redo">> => Part(J[f], HeldBy[f])
        BY <1>3, <3>2, PartOp
      <4>2. HeldBy[<<"undo">>] = undoStack /\ HeldBy[<<"redo">>] = redoStack
        BY <1>3 DEF HeldByLists
      <4>. HIDE DEF J
      <4>. QED  BY <1>2, <3>1, <3>2, <4>1, <4>2
    <3>4. h \in Holder /\ g \in Holder /\ h # g
      BY HolderOp, HolderDistinct
    <3>5. /\ K \in [Holder -> Seq(Item)]
          /\ K[h] = Front(J[h]) /\ K[g] = Append(J[g], Last(J[h]))
          /\ \A f \in Holder \ {h, g} : K[f] = J[f]
      <4>. HIDE DEF J, h, g
      <4>. QED  BY <3>2, <3>4, MoveType DEF h
    <3>6. HeldBy' = K
      <4>. HIDE DEF J, K
      <4>1. /\ K[<<"open">>] = doStack' /\ K[<<"undo">>] = undoStack'
            /\ K[<<"redo">>] = redoStack'
        BY <1>1, <2>1, <3>1, <3>2, <3>5, HolderOp, HolderDistinct DEF Pop, Peek
      <4>2. ASSUME NEW y \in Item
            PROVE  K[<<"undo", y>>] = undoKids'[y] /\ K[<<"redo", y>>] = redoKids'[y]
        <5>1. /\ <<"undo", y>> \in Holder \ {h, g} /\ <<"redo", y>> \in Holder \ {h, g}
              /\ <<"undo", y>> # <<"redo">> /\ <<"redo", y>> # <<"redo">>
          BY ONLY HolderOp, HolderDistinct, y \in Item DEF h, g
        <5>2. K[<<"undo", y>>] = HeldBy[<<"undo", y>>] /\ K[<<"redo", y>>] = HeldBy[<<"redo", y>>]
          BY <3>2, <3>5, <5>1
        <5>3. undoKids' = undoKids /\ redoKids' = redoKids
          BY <2>1 DEF kids
        <5>. QED  BY <1>3, <5>2, <5>3 DEF HeldByLists
      <4>. QED  BY <3>5, <4>1, <4>2, HeldByIs
    <3>. HIDE DEF J, h, g
    <3>. QED  BY <3>2, <3>3, <3>4, <3>6, Moved DEF h
  <2>. QED  BY <1>6, <2>2, <2>3 DEF Record
<1>. QED  BY <1>4, <1>5, <1>6 DEF EndTransaction

\* The activation that waits for the innermost one.
LEMMA CallerOp ==
  ASSUME Typed, calls # <<>>, InLoop
  PROVE  /\ Front(calls) \in Seq(Frame) /\ Front(calls) # <<>>
         /\ Caller \in Frame /\ Caller.item \in Item /\ Caller.left > 0
<1>1. calls \in Seq(Frame) /\ ActivationOK(calls)
  BY DEF Typed, TypeOK, ActivationsOK
<1>2. Front(calls) \in Seq(Frame) /\ Len(Front(calls)) = Len(calls) - 1
  BY <1>1, FrontOp
<1>3. Len(calls) \in Nat /\ Len(calls) > 1
  BY <1>1 DEF InLoop
<1>4. Len(Front(calls)) # 0
  BY ONLY <1>2, <1>3
<1>5. Front(calls) # <<>>
  BY ONLY <1>2, <1>4, EmptySeq
<1>6. Caller \in Frame /\ MayWait(Caller)
  BY <1>1, <1>5, LeaveOp DEF Caller
<1>. QED  BY <1>2, <1>5, <1>6 DEF InLoop, MayWait, Frame

\* A child or the manager's item moves to the other list of its holder.
LEMMA ReturnsOwned ==
  ASSUME Typed, TypeOK', Owned, ChildReturns \/ ManagerReturns
  PROVE  Owned'
<1>1. /\ TypeOK /\ HeldByLists /\ HeldBy \in [Holder -> Seq(Item)]
      /\ undoStack \in Seq(Item) /\ redoStack \in Seq(Item) /\ doStack \in Seq(Item)
      /\ undoKids \in [Item -> Seq(Item)] /\ redoKids \in [Item -> Seq(Item)]
  BY HeldByOp DEF HeldByLists, Typed, TypeOK
<1>2. /\ Part(doStack, doStack) /\ Part(undoStack, undoStack) /\ Part(redoStack, redoStack)
      /\ \A f \in Holder : Part(HeldBy[f], HeldBy[f])
  BY <1>1, PartOp
\* The item at the top of list h becomes the top of list g.
<1>3. ASSUME used' = used, NEW h \in Holder, NEW g \in Holder, h # g, HeldBy[h] # <<>>,
             HeldBy' = [HeldBy EXCEPT ![h] = Front(@), ![g] = Append(@, Last(HeldBy[h]))]
      PROVE  Owned'
  BY <1>1, <1>2, <1>3, Moved
<1>4. CASE ManagerReturns
  <2>. DEFINE src == IF Top.op = "undo" THEN undoStack ELSE redoStack
              h == IF Top.op = "undo" THEN <<"undo">> ELSE <<"redo">>
              g == IF Top.op = "undo" THEN <<"redo">> ELSE <<"undo">>
              K == [HeldBy EXCEPT ![h] = Front(@), ![g] = Append(@, Last(HeldBy[h]))]
  <2>1. doStack' = doStack /\ used' = used /\ UNCHANGED kids
    BY <1>4 DEF ManagerReturns
  <2>2. CASE Top.res = "ok" /\ src # <<>>
    <3>1. h \in Holder /\ g \in Holder /\ h # g /\ HeldBy[h] = src
      BY <1>1, HolderOp, HolderDistinct DEF HeldByLists
    <3>2. /\ K[h] = Front(src) /\ K[g] = Append(HeldBy[g], Last(src))
          /\ \A f \in Holder \ {h, g} : K[f] = HeldBy[f]
          /\ K \in [Holder -> Seq(Item)]
      <4>. HIDE DEF h, g, src
      <4>. QED  BY <1>1, <2>2, <3>1, MoveType
    <3>3. /\ undoStack' = IF Top.op = "undo" THEN Front(undoStack) ELSE Append(undoStack, Last(redoStack))
          /\ redoStack' = IF Top.op = "undo" THEN Append(redoStack, Last(undoStack)) ELSE Front(redoStack)
      BY <1>4, <2>2 DEF ManagerReturns, Pop, Push, Peek
    <3>. HIDE DEF K
    <3>4. K[<<"open">>] = doStack'
      BY <1>1, <2>1, <3>1, <3>2, HolderOp, HolderDistinct DEF HeldByLists
    <3>5. K[<<"undo">>] = undoStack' /\ K[<<"redo">>] = redoStack'
      BY <1>1, <3>2, <3>3 DEF HeldByLists
    <3>6. \A x \in Item : K[<<"undo", x>>] = undoKids'[x] /\ K[<<"redo", x>>] = redoKids'[x]
      BY <1>1, <2>1, <3>2, HolderOp, HolderDistinct DEF HeldByLists, kids
    <3>. HIDE DEF h, g, src
    <3>7. HeldBy' = K
      BY <1>1, <3>2, <3>4, <3>5, <3>6, HeldByIs
    <3>8. h \in Holder /\ g \in Holder /\ h # g /\ HeldBy[h] # <<>> /\ used' = used
      BY <2>1, <2>2, <3>1
    <3>. QED  BY ONLY <1>3, <3>7, <3>8 DEF K
  <2>3. CASE ~(Top.res = "ok" /\ src # <<>>)
    <3>1. UNCHANGED <<undoStack, redoStack>>
      BY <1>4, <2>3 DEF ManagerReturns
    <3>. QED  BY <1>1, <1>2, <2>1, <3>1, LetGo
  <2>. QED  BY <2>2, <2>3
<1>5. CASE ChildReturns
  <2>. DEFINE x == Caller.item  src == Source(Caller)
              h == IF UndoesKids(Caller) THEN <<"undo", x>> ELSE <<"redo", x>>
              g == IF UndoesKids(Caller) THEN <<"redo", x>> ELSE <<"undo", x>>
              K == [HeldBy EXCEPT ![h] = Front(@), ![g] = Append(@, Last(HeldBy[h]))]
  <2>1. /\ x \in Item /\ used' = used /\ UNCHANGED <<doStack, undoStack, redoStack>>
    BY <1>5, CallerOp DEF ChildReturns, stacks
  <2>2. CASE Top.res = "ok" /\ src # <<>>
    <3>1. h \in Holder /\ g \in Holder /\ h # g /\ HeldBy[h] = src
      BY <1>1, <2>1, HolderOp, HolderDistinct DEF HeldByLists, Source
    <3>2. /\ K[h] = Front(src) /\ K[g] = Append(HeldBy[g], Last(src))
          /\ \A f \in Holder \ {h, g} : K[f] = HeldBy[f]
          /\ K \in [Holder -> Seq(Item)]
      <4>. HIDE DEF h, g, src
      <4>. QED  BY <1>1, <2>2, <3>1, MoveType
    <3>3. /\ undoKids' = [undoKids EXCEPT ![x] = IF UndoesKids(Caller) THEN Front(@) ELSE Append(@, Last(src))]
          /\ redoKids' = [redoKids EXCEPT ![x] = IF UndoesKids(Caller) THEN Append(@, Last(src)) ELSE Front(@)]
      BY <1>5, <2>2 DEF ChildReturns, Pop, Push, Peek
    <3>. HIDE DEF K
    <3>4. /\ K[<<"open">>] = doStack' /\ K[<<"undo">>] = undoStack'
          /\ K[<<"redo">>] = redoStack'
      BY <1>1, <2>1, <3>1, <3>2, HolderOp, HolderDistinct DEF HeldByLists
    <3>5. ASSUME NEW y \in Item
          PROVE  K[<<"undo", y>>] = undoKids'[y] /\ K[<<"redo", y>>] = redoKids'[y]
      <4>1. CASE y = x
        <5>1. HeldBy[<<"undo", x>>] = undoKids[x] /\ HeldBy[<<"redo", x>>] = redoKids[x]
          BY <1>1, <2>1 DEF HeldByLists
        <5>2. src = IF UndoesKids(Caller) THEN undoKids[x] ELSE redoKids[x]
          BY DEF Source
        <5>3. /\ undoKids'[x] = IF UndoesKids(Caller) THEN Front(undoKids[x]) ELSE Append(undoKids[x], Last(src))
              /\ redoKids'[x] = IF UndoesKids(Caller) THEN Append(redoKids[x], Last(src)) ELSE Front(redoKids[x])
          BY <1>1, <2>1, <3>3
        <5>. HIDE DEF src, x
        <5>. QED  BY <3>2, <4>1, <5>1, <5>2, <5>3
      <4>2. CASE y # x
        <5>1. /\ <<"undo", y>> \in Holder \ {h, g} /\ <<"redo", y>> \in Holder \ {h, g}
          BY <4>2, HolderOp, HolderDistinct
        <5>2. undoKids'[y] = undoKids[y] /\ redoKids'[y] = redoKids[y]
          BY <1>1, <3>3, <4>2
        <5>. QED  BY <1>1, <3>2, <5>1, <5>2 DEF HeldByLists
      <4>. QED  BY <4>1, <4>2
    <3>6. used' = used /\ HeldBy[h] # <<>>
      BY <2>1, <2>2, <3>1
    <3>. HIDE DEF h, g, src, x
    <3>7. HeldBy' = K
      BY <1>1, <3>2, <3>4, <3>5, HeldByIs
    <3>. QED  BY ONLY <1>3, <3>1, <3>6, <3>7 DEF K
  <2>3. CASE ~(Top.res = "ok" /\ src # <<>>)
    <3>1. UNCHANGED kids
      BY <1>1, <1>5, <2>1, <2>3 DEF ChildReturns, kids
    <3>. QED  BY <1>1, <1>2, <2>1, <3>1, LetGo
  <2>. QED  BY <2>2, <2>3
<1>. QED  BY <1>4, <1>5

\* What nobody holds is held by nobody when there is nothing.
LEMMA InitOwned == Init => Owned
<1>. SUFFICES ASSUME Init
              PROVE  Owned
  OBVIOUS
<1>1. HeldByLists
  BY HeldByOp
<1>2. \A h \in Holder : HeldBy[h] = <<>>
  <2>1. \A x \in Item : undoKids[x] = <<>> /\ redoKids[x] = <<>>
    BY DEF Init
  <2>2. /\ HeldBy[<<"open">>] = <<>> /\ HeldBy[<<"undo">>] = <<>> /\ HeldBy[<<"redo">>] = <<>>
        /\ \A x \in Item : HeldBy[<<"undo", x>>] = <<>> /\ HeldBy[<<"redo", x>>] = <<>>
    BY <1>1, <2>1 DEF HeldByLists, Init
  <2>. QED  BY <2>2, HolderOp
<1>3. \A h \in Holder : DOMAIN HeldBy[h] = {}
  BY <1>2
<1>. QED  BY <1>1, <1>3 DEF HeldByLists, Owned, ItemOwnedOnce, OwnedOnce, HeldUsed, Holds

\* However re-entrant calls, failures, merges, limits and batches interleave with
\* the loops over children, no item is ever held at two places, and an item that
\* has not been executed or begun is held at none.
THEOREM OwnersUnique == Spec => [](ItemOwnedOnce /\ HeldUsed)
<1>1. Typed /\ TypeOK' /\ Owned /\ [Next]_vars => Owned'
  <2>. SUFFICES ASSUME Typed, TypeOK', Owned, [Next]_vars
                PROVE  Owned'
    OBVIOUS
  <2>1. /\ TypeOK /\ doStack \in Seq(Item) /\ undoStack \in Seq(Item) /\ redoStack \in Seq(Item)
        /\ Part(doStack, doStack) /\ Part(undoStack, undoStack) /\ Part(redoStack, redoStack)
        /\ Part(<<>>, undoStack) /\ Part(<<>>, redoStack)
    BY PartOp DEF Typed, TypeOK
  <2>2. ASSUME UNCHANGED <<stacks, kids, used>>
        PROVE  Owned'
    BY <2>1, <2>2, LetGo DEF stacks
  <2>3. ASSUME NEW t \in Transaction, DoTransaction(t)
        PROVE  Owned'
    BY <2>1, <2>3, OpenNew DEF DoTransaction, Item
  <2>4. ASSUME NEW t \in Transaction, RefuseTransaction(t)
        PROVE  Owned'
    <3>1. HeldByLists /\ HeldByLists'
      BY HeldByOp, PTL
    <3>2. UNCHANGED <<stacks, kids>> /\ used \subseteq used'
      BY <2>4 DEF RefuseTransaction
    <3>3. HeldBy' = HeldBy
      BY <3>2 DEF HeldBy, stacks, kids
    <3>. QED  BY <3>2, <3>3, OwnedStep DEF Owned, ItemOwnedOnce
  <2>5. ASSUME NEW b \in Batch, BeginBatch(b)
        PROVE  Owned'
    BY <2>1, <2>5, OpenNew DEF BeginBatch, Item
  <2>6. CASE EndBatch
    BY <2>1, <2>6, EndTransactionOwned DEF EndBatch, BatchOnTop
  <2>7. CASE Clear
    BY <2>1, <2>7, LetGo DEF Clear
  <2>8. ASSUME NEW m \in MaxCounts, SetMaxTransactionCount(m)
        PROVE  Owned'
    <3>1. KeptUndos(m) \in 0..Len(undoStack) /\ KeptRedos(m) \in 0..Len(redoStack)
      BY <2>1, CountAssumption DEF KeptUndos, KeptRedos
    <3>2. Part(undoStack', undoStack) /\ Part(redoStack', redoStack)
      BY <2>1, <2>8, <3>1, PartOp DEF SetMaxTransactionCount
    <3>. QED  BY <2>1, <2>8, <3>2, LetGo DEF SetMaxTransactionCount
  <2>9. CASE DoFails
    <3>1. doStack # <<>> /\ doStack' = Front(doStack)
      BY <2>9 DEF DoFails, DoCompletes, Pop
    <3>. QED  BY <2>1, <2>9, <3>1, PartOp, LetGo DEF DoFails
  <2>10. CASE DoSucceeds
    BY <2>1, <2>10, EndTransactionOwned DEF DoSucceeds, DoCompletes
  <2>11. CASE ChildReturns \/ ManagerReturns
    BY <2>11, ReturnsOwned
  <2>. QED
    BY <2>2, <2>3, <2>4, <2>5, <2>6, <2>7, <2>8, <2>9, <2>10, <2>11
    DEF Next, Client, Manager, UndoTransaction, RedoTransaction, NextChild, ChildrenDone,
        RecoveryDone, TransactionReturns, vars
<1>. QED  BY <1>1, InitOwned, TypeCorrect, PTL DEF Spec, Typed, Owned
=============================================================================
