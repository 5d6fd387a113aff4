----------------------- MODULE TransactionLoopsProof -----------------------
(***************************************************************************)
(* The loops over children, UndoChildren() and RedoChildren(), count their *)
(* rounds before the first and dereference what Peek() finds in each. While*)
(* transactions call the manager from doTransaction() only, the activations *)
(* in progress are a path down a tree of items; each item has one owner, so *)
(* no two of them work on the same lists, and the count stays right.       *)
(*                                                                         *)
(* From the same path follows what the loops are for: where a call-out     *)
(* fails each time or never, an item is undone or redone to its last       *)
(* descendant or put back as it was, and what the listeners are told       *)
(* agrees with the stacks.                                                 *)
(***************************************************************************)
EXTENDS TransactionHistoryProof

Looping(f) == f.phase \in {"kids", "recover"}

\* The manager's activation is for the item on top of the stack it will move.
Rooted(f) ==
  LET src == IF f.op = "undo" THEN undoStack ELSE redoStack
  IN  src # <<>> /\ f.item = Peek(src)

\* A loop's is for the child it will move.
Runs(g, f) == Looping(g) /\ Source(g) # <<>> /\ f.item = Peek(Source(g))

Path(s) ==
  \A i \in DOMAIN s : s[i].op # "do" => IF i = 1 THEN Rooted(s[1]) ELSE Runs(s[i - 1], s[i])

\* No item is worked on twice.
Apart(s) == \A i, j \in DOMAIN s : s[i].op # "do" /\ s[i].item = s[j].item => i = j

\* A loop has no more rounds left than children.
CountOK(f)   == Looping(f) => f.left <= Len(Source(f))
CountsOK(s)  == \A i \in DOMAIN s : CountOK(s[i])

Chain(s)  == Path(s) /\ Apart(s) /\ CountsOK(s)
LoopInv   == Chain(calls)

-----------------------------------------------------------------------------
(* Activations made, changed and ended.                                    *)

\* Changing the innermost activation's phase, result or count.
LEMMA ChainReplace ==
  ASSUME NEW s \in Seq(Frame), s # <<>>, Chain(s), NEW f \in Frame,
         f.op = Last(s).op, f.item = Last(s).item, CountOK(f)
  PROVE  Chain(Append(Front(s), f))
<1>. DEFINE q == Front(s)  t == Append(q, f)  n == Len(s)
<1>1. /\ n \in Nat /\ n # 0 /\ q \in Seq(Frame) /\ Len(q) = n - 1
      /\ \A i \in 1..(n - 1) : q[i] = s[i]
  BY EmptySeq, FrontOp
<1>. HIDE DEF q
<1>2. /\ t \in Seq(Frame) /\ Len(t) = Len(q) + 1
      /\ \A i \in 1..Len(q) : t[i] = q[i]
      /\ t[Len(q) + 1] = f
  BY <1>1, AppendProperties
<1>. HIDE DEF t
<1>3. /\ DOMAIN t = 1..n /\ DOMAIN s = 1..n /\ t[n] = f
      /\ \A i \in 1..(n - 1) : t[i] = s[i]
      /\ s[n].op = f.op /\ s[n].item = f.item
  BY <1>1, <1>2 DEF Last
<1>. HIDE DEF n
<1>4. \A i \in 1..n : t[i].op = s[i].op /\ t[i].item = s[i].item
  BY <1>1, <1>3
<1>5. Apart(t)
  BY <1>3, <1>4 DEF Chain, Apart
<1>6. CountsOK(t)
  <2>1. \A i \in 1..n : i = n \/ i \in 1..(n - 1)
    BY <1>1
  <2>. QED  BY <1>3, <2>1 DEF Chain, CountsOK
<1>7. Path(t)
  <2>. SUFFICES ASSUME NEW i \in 1..n, t[i].op # "do"
                PROVE  IF i = 1 THEN Rooted(t[1]) ELSE Runs(t[i - 1], t[i])
    BY <1>3 DEF Path
  <2>1. IF i = 1 THEN Rooted(s[1]) ELSE Runs(s[i - 1], s[i])
    BY <1>3, <1>4 DEF Chain, Path
  <2>2. CASE i = 1
    BY <1>4, <2>1, <2>2 DEF Rooted
  <2>3. CASE i # 1
    <3>1. i - 1 \in 1..(n - 1) /\ t[i - 1] = s[i - 1]
      BY <1>1, <1>3, <2>3
    <3>. QED  BY <1>4, <2>1, <2>3, <3>1 DEF Runs
  <2>. QED  BY <2>2, <2>3
<1>. QED  BY <1>5, <1>6, <1>7 DEF Chain, t, q

\* Making an activation for an item that none is working on.
LEMMA ChainPush ==
  ASSUME NEW s \in Seq(Frame), Chain(s), NEW f \in Frame, CountOK(f),
         IF s = <<>> THEN Rooted(f) ELSE Runs(Last(s), f),
         \A i \in DOMAIN s : s[i].item # f.item
  PROVE  Chain(Append(s, f))
<1>. DEFINE t == Append(s, f)  n == Len(s)
<1>1. /\ n \in Nat /\ DOMAIN s = 1..n /\ (s = <<>> <=> n = 0)
  BY EmptySeq
<1>2. /\ t \in Seq(Frame) /\ DOMAIN t = 1..(n + 1)
      /\ \A i \in 1..n : t[i] = s[i]
      /\ t[n + 1] = f
  BY AppendProperties
<1>. HIDE DEF t
<1>3. \A i \in 1..(n + 1) : i = n + 1 \/ i \in 1..n
  BY <1>1
<1>4. Apart(t)
  BY <1>1, <1>2, <1>3 DEF Chain, Apart
<1>5. CountsOK(t)
  BY <1>1, <1>2, <1>3 DEF Chain, CountsOK
<1>6. Path(t)
  <2>. SUFFICES ASSUME NEW i \in 1..(n + 1), t[i].op # "do"
                PROVE  IF i = 1 THEN Rooted(t[1]) ELSE Runs(t[i - 1], t[i])
    BY <1>2 DEF Path
  <2>1. CASE i \in 1..n
    <3>1. IF i = 1 THEN Rooted(s[1]) ELSE Runs(s[i - 1], s[i])
      BY <1>1, <1>2, <2>1 DEF Chain, Path
    <3>2. i # 1 => i - 1 \in 1..n
      BY <1>1, <2>1
    <3>. QED  BY <1>2, <2>1, <3>1, <3>2
  <2>2. CASE i = n + 1 /\ n = 0
    BY <1>1, <1>2, <2>2
  <2>3. CASE i = n + 1 /\ n # 0
    <3>1. i # 1 /\ i - 1 = n /\ n \in 1..n /\ s # <<>>
      BY <1>1, <2>3
    <3>2. t[i - 1] = Last(s) /\ t[i] = f
      BY <1>2, <2>3, <3>1 DEF Last
    <3>. QED  BY <3>1, <3>2
  <2>. QED  BY <1>3, <2>1, <2>2, <2>3
<1>. QED  BY <1>4, <1>5, <1>6 DEF Chain, t

\* Leaving the innermost.
LEMMA ChainFront ==
  ASSUME NEW s \in Seq(Frame), s # <<>>, Chain(s)
  PROVE  Chain(Front(s))
<1>. DEFINE q == Front(s)  n == Len(s)
<1>1. /\ n \in Nat /\ q \in Seq(Frame) /\ DOMAIN q = 1..(n - 1) /\ DOMAIN s = 1..n
      /\ \A i \in 1..(n - 1) : q[i] = s[i]
  BY EmptySeq, FrontOp
<1>. HIDE DEF q, n
<1>2. \A i \in 1..(n - 1) : i \in 1..n /\ (i # 1 => i - 1 \in 1..(n - 1))
  BY <1>1
<1>3. Apart(q)
  BY <1>1, <1>2 DEF Chain, Apart
<1>4. CountsOK(q)
  BY <1>1, <1>2 DEF Chain, CountsOK
<1>5. Path(q)
  BY <1>1, <1>2 DEF Chain, Path
<1>. QED  BY <1>3, <1>4, <1>5 DEF Chain, q

\* The activations the manager makes count the children there are.
LEMMA FramesCount ==
  ASSUME TypeOK, NEW x \in Item
  PROVE  /\ CountOK(UndoFrame(x)) /\ UndoFrame(x).op = "undo" /\ UndoFrame(x).item = x
         /\ CountOK(RedoFrame(x)) /\ RedoFrame(x).op = "redo" /\ RedoFrame(x).item = x
         /\ \A op \in {"undo", "redo"} :
              CountOK(RecoverFrame(op, x)) /\ RecoverFrame(op, x).op = op /\ RecoverFrame(op, x).item = x
         /\ LET f == Activate("redo", x, "kids", Len(redoKids[x]))
            IN  CountOK(f) /\ f.op = "redo" /\ f.item = x
<1>1. Len(undoKids[x]) \in Nat /\ Len(redoKids[x]) \in Nat
  BY DEF TypeOK
<1>. QED
  BY <1>1 DEF UndoFrame, RedoFrame, RecoverFrame, Activate, CountOK, Looping, Source, UndoesKids

\* A frame's next activation is for the same item and operation.
LEMMA NextFramesCount ==
  ASSUME TypeOK, NEW f \in Frame, f.op # "do"
  PROVE  /\ CountOK(AfterChildren(f)) /\ AfterChildren(f).op = f.op
         /\ AfterChildren(f).item = f.item
         /\ CountOK(Failed(f)) /\ Failed(f).op = f.op /\ Failed(f).item = f.item
         /\ \A r \in Result : /\ CountOK(AfterOwn(f, r)) /\ AfterOwn(f, r).op = f.op
                            /\ AfterOwn(f, r).item = f.item
<1>1. f.op \in {"undo", "redo"} /\ f.item \in Item
  BY DEF Frame, Method
<1>2. /\ \A op \in {"undo", "redo"} :
           /\ CountOK(RecoverFrame(op, f.item)) /\ RecoverFrame(op, f.item).op = op
           /\ RecoverFrame(op, f.item).item = f.item
      /\ LET g == Activate("redo", f.item, "kids", Len(redoKids[f.item]))
         IN  CountOK(g) /\ g.op = "redo" /\ g.item = f.item
  BY <1>1, FramesCount
<1>3. \A p \in {"self", "return"} :
        LET g == [f EXCEPT !.phase = p] IN CountOK(g) /\ g.op = f.op /\ g.item = f.item
  BY DEF CountOK, Looping, Frame
<1>4. CountOK(Failed(f)) /\ Failed(f).op = f.op /\ Failed(f).item = f.item
  BY DEF Failed, CountOK, Looping, Frame
<1>5. CountOK(AfterChildren(f)) /\ AfterChildren(f).op = f.op /\ AfterChildren(f).item = f.item
  BY <1>1, <1>2, <1>3 DEF AfterChildren
<1>6. ASSUME NEW r \in Result
      PROVE  CountOK(AfterOwn(f, r)) /\ AfterOwn(f, r).op = f.op /\ AfterOwn(f, r).item = f.item
  BY <1>1, <1>2, <1>3, <1>4 DEF AfterOwn
<1>. QED  BY <1>4, <1>5, <1>6

-----------------------------------------------------------------------------
(* One owner for each item.                                                *)

\* What is on top of two lists is two items.
LEMMA TopsDiffer ==
  ASSUME Typed, ItemOwnedOnce, NEW h \in Holder, NEW k \in Holder, h # k,
         HeldBy[h] # <<>>, HeldBy[k] # <<>>
  PROVE  Peek(HeldBy[h]) # Peek(HeldBy[k])
<1>1. HeldBy \in [Holder -> Seq(Item)] /\ DOMAIN HeldBy = Holder
  BY HeldByOp DEF HeldByLists, Typed
<1>2. PICK i \in DOMAIN HeldBy[h] : Peek(HeldBy[h]) = HeldBy[h][i]
  BY <1>1, StackElements
<1>3. PICK j \in DOMAIN HeldBy[k] : Peek(HeldBy[k]) = HeldBy[k][j]
  BY <1>1, StackElements
<1>. QED  BY <1>1, <1>2, <1>3 DEF ItemOwnedOnce, OwnedOnce

\* The list a loop works on is its item's.
LEMMA SourceHolder ==
  ASSUME NEW f, f.item \in Item
  PROVE  \E h \in {<<"undo", f.item>>, <<"redo", f.item>>} : h \in Holder /\ Source(f) = HeldBy[h]
<1>1. HeldByLists
  BY HeldByOp
<1>. QED  BY <1>1, HolderOp DEF HeldByLists, Source

\* The child that comes next is not being worked on.
LEMMA ChildApart ==
  ASSUME SafeInv, LoopInv, calls # <<>>, Looping(Top), Source(Top) # <<>>,
         \A i \in DOMAIN calls : calls[i].op # "do"
  PROVE  \A i \in DOMAIN calls : calls[i].item # Peek(Source(Top))
<1>. DEFINE n == Len(calls)
<1>1. /\ Typed /\ TypeOK /\ ItemOwnedOnce /\ HeldByLists
      /\ calls \in Seq(Frame) /\ n \in Nat /\ n # 0 /\ DOMAIN calls = 1..n
      /\ Top = calls[n] /\ Path(calls) /\ Apart(calls)
      /\ \A i \in 1..n : calls[i].item \in Item
  <2>1. /\ Typed /\ TypeOK /\ ItemOwnedOnce /\ HeldByLists /\ calls \in Seq(Frame)
        /\ Path(calls) /\ Apart(calls)
    BY HeldByOp DEF SafeInv, Typed, TypeOK, Owned, LoopInv, Chain
  <2>2. n \in Nat /\ n # 0 /\ DOMAIN calls = 1..n /\ Top = calls[n]
    BY ONLY <2>1, calls # <<>>, EmptySeq DEF Top, Last
  <2>3. \A i \in 1..n : calls[i] \in Frame
    BY <2>1, <2>2
  <2>. QED  BY <2>1, <2>2, <2>3 DEF Frame
<1>. HIDE DEF n
<1>2. PICK h \in {<<"undo", Top.item>>, <<"redo", Top.item>>} : h \in Holder /\ Source(Top) = HeldBy[h]
  BY <1>1, SourceHolder
<1>. SUFFICES ASSUME NEW i \in 1..n
              PROVE  calls[i].item # Peek(Source(Top))
  BY <1>1
<1>3. CASE i = 1
  <2>1. Rooted(calls[1])
    BY <1>1, <1>3 DEF Path
  <2>2. PICK k \in {<<"undo">>, <<"redo">>} :
          HeldBy[k] # <<>> /\ calls[1].item = Peek(HeldBy[k])
    BY <1>1, <2>1 DEF Rooted, HeldByLists
  <2>3. k \in Holder /\ h # k
    BY <1>2, HolderOp, HolderDistinct
  <2>. QED  BY <1>1, <1>2, <1>3, <2>2, <2>3, TopsDiffer
<1>4. CASE i # 1
  <2>1. PICK m \in 1..n : m = i - 1 /\ m # n
    BY <1>1, <1>4
  <2>2. Source(calls[m]) # <<>> /\ calls[i].item = Peek(Source(calls[m]))
    BY <1>1, <1>4, <2>1 DEF Path, Runs
  <2>3. calls[m].item # Top.item
    BY <1>1, <2>1 DEF Apart
  <2>4. PICK k \in {<<"undo", calls[m].item>>, <<"redo", calls[m].item>>} :
          k \in Holder /\ Source(calls[m]) = HeldBy[k]
    BY <1>1, SourceHolder
  <2>5. k[2] # h[2]
    BY <1>2, <2>3, <2>4
  <2>6. h # k
    BY <2>5
  <2>. QED  BY <1>1, <1>2, <2>2, <2>4, <2>6, TopsDiffer
<1>. QED  BY <1>3, <1>4

-----------------------------------------------------------------------------
(* The invariant.                                                          *)

\* Activations are all of doTransaction(), or none is.
LEMMA OneKind ==
  ASSUME Typed, DosInv, QuietStack, NEW k \in DOMAIN calls, calls[k].op # "do"
  PROVE  \A i \in DOMAIN calls : calls[i].op # "do"
<1>1. calls \in Seq(Frame) /\ doStack = <<>>
  BY DEF Typed, TypeOK, QuietStack
<1>2. Cardinality(OfTransactions(doStack)) = 0
  <2>1. OfTransactions(doStack) = {}
    BY <1>1 DEF OfTransactions
  <2>. QED  BY <2>1, FS_EmptySet
<1>3. Cardinality(DoFrames(calls)) \in Nat /\ Cardinality(DoFrames(calls)) <= 0
  BY <1>1, <1>2, PushCounts DEF DosInv, DosAccounted
<1>4. Cardinality(DoFrames(calls)) = 0
  BY <1>3
<1>. QED  BY <1>1, <1>4, PushCounts

\* Transactions being executed have no loops.
LEMMA DosChain ==
  ASSUME NEW s, DoOrder(s), \A i \in DOMAIN s : s[i].op = "do"
  PROVE  Chain(s)
  BY DEF DoOrder, Chain, Path, Apart, CountsOK, CountOK, Looping

\* A child's activation moves the child that it ran, and no list of any other
\* item whose activation waits.
LEMMA ReturnsChain ==
  ASSUME SafeInv, LoopInv, ChildReturns, \A i \in DOMAIN calls : calls[i].op # "do"
  PROVE  LoopInv'
<1>1. /\ Typed /\ TypeOK /\ calls \in Seq(Frame) /\ calls # <<>> /\ InLoop /\ Chain(calls)
      /\ undoKids \in [Item -> Seq(Item)] /\ redoKids \in [Item -> Seq(Item)]
      /\ UNCHANGED stacks /\ Looping(Caller)
  BY DEF SafeInv, Typed, TypeOK, LoopInv, ChildReturns, InLoop, Looping
<1>2. PICK s \in Seq(Frame) : s = Front(calls)
  BY <1>1, CallerOp
<1>3. PICK c \in Frame : c = Caller
  BY <1>1, CallerOp
<1>. DEFINE n == Len(s)
<1>4. /\ s # <<>> /\ c = Last(s) /\ c.item \in Item /\ c.left \in Nat /\ c.left > 0 /\ Looping(c)
  BY <1>1, <1>2, <1>3, CallerOp DEF Caller, Frame
<1>5. Chain(s)
  BY <1>1, <1>2, ChainFront
<1>6. \A i \in DOMAIN s : s[i].op # "do" /\ s[i].item \in Item
  <2>1. calls \in Seq(Frame) /\ calls # <<>> /\ s = Front(calls)
    BY <1>1, <1>2
  <2>2. /\ DOMAIN s = 1..(Len(calls) - 1) /\ DOMAIN calls = 1..Len(calls) /\ Len(calls) \in Nat
        /\ \A i \in 1..(Len(calls) - 1) : s[i] = calls[i]
    BY ONLY <2>1, FrontOp
  <2>3. \A i \in DOMAIN s : s[i] \in Frame /\ i \in DOMAIN calls /\ s[i] = calls[i]
    BY <2>2
  <2>. QED  BY <2>3 DEF Frame
<1>7. n \in Nat /\ n # 0 /\ DOMAIN s = 1..n /\ c = s[n] /\ n \in 1..n
  BY <1>4, EmptySeq DEF Last
<1>8. PICK f \in Frame, result \in Result :
        /\ result = (IF Top.res = "ok" /\ Source(c) # <<>> THEN "ok" ELSE "fail")
        /\ f.op = c.op /\ f.item = c.item /\ f.phase = c.phase /\ f.left = c.left - 1
        /\ calls' = Append(Front(s), f)
  <2>1. PICK d \in DidNotify("Undo", Top.item), result \in Result :
          /\ result = (IF Top.res = "ok" /\ Source(c) # <<>> THEN "ok" ELSE "fail")
          /\ calls' = Append(Front(s), NextRound(c, Combine(result, d)))
    BY <1>2, <1>3 DEF ChildReturns, Result
  <2>2. Combine(result, d) \in Result
    BY <2>1, OutcomesType DEF Combine
  <2>. DEFINE r == Combine(result, d)
  <2>3. PICK f : f = NextRound(c, r)
    OBVIOUS
  <2>4. f = [op |-> c.op, item |-> c.item, phase |-> c.phase, left |-> c.left - 1, res |-> r]
    BY <2>2, <2>3 DEF NextRound, Frame
  <2>5. c.left - 1 \in Nat
    BY <1>4
  <2>6. f \in Frame /\ f.op = c.op /\ f.item = c.item /\ f.phase = c.phase /\ f.left = c.left - 1
    BY <2>2, <2>4, <2>5 DEF Frame
  <2>. QED  BY <2>1, <2>3, <2>6
<1>9. /\ DOMAIN calls' = 1..n /\ calls'[n] = f
      /\ \A i \in 1..(n - 1) : calls'[i] = s[i]
  <2>1. /\ Front(s) \in Seq(Frame) /\ Len(Front(s)) = n - 1
        /\ \A i \in 1..(n - 1) : Front(s)[i] = s[i]
    BY <1>4, FrontOp
  <2>2. PICK e \in Seq(Frame) : e = Front(s)
    BY <2>1
  <2>3. /\ DOMAIN calls' = 1..(Len(e) + 1) /\ calls'[Len(e) + 1] = f
        /\ \A i \in 1..Len(e) : calls'[i] = e[i]
    BY <1>8, <2>2, AppendProperties
  <2>. QED  BY <1>7, <2>1, <2>2, <2>3
<1>10. \A y \in Item : y # c.item => undoKids'[y] = undoKids[y] /\ redoKids'[y] = redoKids[y]
  BY <1>1, <1>3 DEF ChildReturns
<1>11. \A i \in 1..(n - 1) : s[i].item # c.item /\ Source(s[i])' = Source(s[i])
  <2>1. \A i \in 1..(n - 1) : i \in 1..n /\ i # n
    BY <1>7
  <2>2. \A i \in 1..(n - 1) : s[i].item # c.item
    BY <1>5, <1>6, <1>7, <2>1 DEF Chain, Apart
  <2>. QED  BY <1>6, <1>7, <1>10, <2>1, <2>2 DEF Source, UndoesKids
<1>12. CountOK(f)'
  <2>. DEFINE src == Source(c)
  <2>1. src \in Seq(Item) /\ c.left <= Len(src) /\ Len(src) \in Nat
    <3>1. src \in Seq(Item)
      BY <1>1, <1>4 DEF Source
    <3>2. CountOK(c)
      BY <1>5, <1>7 DEF Chain, CountsOK
    <3>. QED  BY <1>4, <3>1, <3>2 DEF CountOK
  <2>2. Source(f)' = IF result = "fail" THEN src ELSE Pop(src)
    BY <1>1, <1>3, <1>4, <1>8 DEF ChildReturns, Source, UndoesKids
  <2>3. result # "fail" => src # <<>> /\ Len(Pop(src)) = Len(src) - 1
    BY <1>8, <2>1, PopOp
  <2>. HIDE DEF src
  <2>4. f.left <= Len(Source(f)')
    BY <1>4, <1>8, <2>1, <2>2, <2>3
  <2>. QED  BY <2>4 DEF CountOK
<1>. HIDE DEF n
<1>13. \A i \in 1..n : i = n \/ i \in 1..(n - 1)
  BY <1>7
<1>14. \A i \in 1..n : calls'[i].op = s[i].op /\ calls'[i].item = s[i].item
  BY <1>7, <1>8, <1>9, <1>13
<1>15. Apart(calls')
  BY <1>5, <1>7, <1>9, <1>14 DEF Chain, Apart
<1>16. CountsOK(calls)'
  <2>1. \A i \in 1..(n - 1) : CountOK(s[i])'
    BY <1>5, <1>7, <1>11, <1>13 DEF Chain, CountsOK, CountOK
  <2>. QED  BY <1>9, <1>12, <1>13, <2>1 DEF CountsOK
<1>17. Path(calls)'
  <2>. SUFFICES ASSUME NEW i \in 1..n
                PROVE  IF i = 1 THEN Rooted(calls[1])' ELSE Runs(calls[i - 1], calls[i])'
    BY <1>9 DEF Path
  <2>1. IF i = 1 THEN Rooted(s[1]) ELSE Runs(s[i - 1], s[i])
    BY <1>5, <1>6, <1>7 DEF Chain, Path
  <2>2. CASE i = 1
    BY <1>1, <1>14, <2>1, <2>2 DEF Rooted, stacks
  <2>3. CASE i # 1
    <3>1. i - 1 \in 1..(n - 1)
      BY <1>7, <2>3
    <3>2. Source(calls[i - 1])' = Source(s[i - 1])
      BY <1>9, <1>11, <3>1
    <3>. QED  BY <1>9, <1>14, <2>1, <2>3, <3>1, <3>2 DEF Runs
  <2>. QED  BY <2>2, <2>3
<1>18. Apart(calls)'
  BY <1>15 DEF Apart
<1>. QED  BY <1>16, <1>17, <1>18 DEF LoopInv, Chain

LEMMA LoopStep ==
  ASSUME OnlyDoReenters, SafeInv, HistoryInv, LoopInv, DosInv', Next
  PROVE  LoopInv'
<1>1. /\ Typed /\ TypeOK /\ DosInv /\ DoOrder(calls) /\ QuietStack /\ Chain(calls)
      /\ calls \in Seq(Frame) /\ undoStack \in Seq(Item) /\ redoStack \in Seq(Item)
      /\ undoKids \in [Item -> Seq(Item)] /\ redoKids \in [Item -> Seq(Item)]
  BY DEF SafeInv, HistoryInv, LoopInv, Typed, TypeOK, DosInv
<1>2. calls # <<>> => Top \in Frame /\ Top.item \in Item /\ Len(calls) \in DOMAIN calls /\ Top = calls[Len(calls)]
  <2>. SUFFICES ASSUME calls # <<>>
                PROVE  Top \in Frame /\ Top.item \in Item /\ Len(calls) \in DOMAIN calls /\ Top = calls[Len(calls)]
    OBVIOUS
  <2>1. Top \in Frame
    BY <1>1, FrontOp DEF Top
  <2>2. Len(calls) \in DOMAIN calls
    BY <1>1, EmptySeq
  <2>. QED  BY <2>1, <2>2 DEF Top, Last, Frame
<1>2a. calls \in Seq(Frame)
  BY <1>1
<1>2b. calls # <<>> => /\ Front(calls) \in Seq(Frame) /\ Len(Front(calls)) = Len(calls) - 1
                      /\ Len(calls) \in Nat /\ Len(calls) # 0
                      /\ \A i \in 1..(Len(calls) - 1) : Front(calls)[i] = calls[i]
  BY ONLY <1>2a, FrontOp, EmptySeq
<1>3. ASSUME calls' = calls \/ (calls # <<>> /\ calls' = Front(calls))
             \/ (\E f \in Frame : f.op = "do" /\ calls' = Append(calls, f)),
             \A i \in DOMAIN calls : calls[i].op = "do"
      PROVE  LoopInv'
  <2>1. \A i \in DOMAIN calls' : calls'[i].op = "do"
    <3>1. ASSUME NEW f \in Frame, f.op = "do", calls' = Append(calls, f)
          PROVE  \A i \in DOMAIN calls' : calls'[i].op = "do"
      BY <1>1, <1>3, <3>1, AppendProperties
    <3>2. ASSUME calls # <<>>, calls' = Front(calls)
          PROVE  \A i \in DOMAIN calls' : calls'[i].op = "do"
      <4>1. /\ calls' \in Seq(Frame) /\ Len(calls') = Len(calls) - 1 /\ Len(calls) \in Nat
            /\ \A i \in 1..(Len(calls) - 1) : calls'[i] = calls[i]
        BY <1>2b, <3>2
      <4>2. DOMAIN calls' = 1..(Len(calls) - 1) /\ DOMAIN calls = 1..Len(calls)
        BY <1>2a, <4>1
      <4>. QED  BY <1>3, <4>1, <4>2
    <3>. QED  BY <1>3, <3>1, <3>2
  <2>2. \A i \in DOMAIN calls' : calls'[i].phase = "self"
    BY <2>1 DEF DosInv, DoOrder
  <2>. QED  BY <2>1, <2>2 DEF LoopInv, Chain, Path, Apart, CountsOK, CountOK, Looping
<1>4. ASSUME UNCHANGED <<stacks, kids>>, Chain(calls')
      PROVE  LoopInv'
  BY <1>4 DEF LoopInv, Chain, Path, Rooted, Runs, Apart, CountsOK, CountOK, Source, UndoesKids,
              Looping, stacks, kids
<1>5. CASE Client
  <2>1. ClientRuns
    BY <1>5 DEF Client, DoTransaction, RefuseTransaction, BeginBatch, EndBatch,
                UndoTransaction, RedoTransaction, Clear, SetMaxTransactionCount
  <2>2. \A i \in DOMAIN calls : calls[i].op = "do"
    BY <1>1, <2>1, ClientQuiet
  <2>3. CASE calls' = calls
    BY <1>3, <2>2, <2>3
  <2>4. ASSUME NEW t \in Transaction, DoTransaction(t)
        PROVE  LoopInv'
    <3>1. /\ Activate("do", t, "self", 0) \in Frame /\ Activate("do", t, "self", 0).op = "do"
          /\ calls' = Append(calls, Activate("do", t, "self", 0))
      BY <2>4 DEF DoTransaction, Activate, Frame, Method, Phase, Result, Item
    <3>. QED  BY <1>3, <2>2, <3>1
  <2>5. CASE UndoTransaction \/ RedoTransaction
    <3>1. doStack = <<>> /\ UNCHANGED <<stacks, kids>>
      BY <2>5 DEF UndoTransaction, RedoTransaction, Executing
    <3>2. calls = <<>>
      <4>1. Cardinality(DoFrames(calls)) = 0
        <5>1. OfTransactions(doStack) = {}
          BY <3>1 DEF OfTransactions
        <5>2. Cardinality(OfTransactions(doStack)) = 0
          BY <5>1, FS_EmptySet
        <5>3. Cardinality(DoFrames(calls)) \in Nat /\ Cardinality(DoFrames(calls)) <= 0
          BY <1>1, <5>2, PushCounts DEF DosInv, DosAccounted
        <5>. QED  BY <5>3
      <4>2. \A i \in DOMAIN calls : calls[i].op # "do"
        BY <1>1, <4>1, PushCounts
      <4>. QED  BY <1>2, <2>2, <4>2
    <3>3. PICK f \in Frame : calls' = Append(calls, f) /\ CountOK(f) /\ Rooted(f)
      <4>1. CASE UndoTransaction
        <5>1. undoStack # <<>> /\ Peek(undoStack) \in Item
          BY <1>1, <4>1, PopOp DEF UndoTransaction
        <5>2. UndoFrame(Peek(undoStack)) \in Frame
          BY <1>1, <5>1, FrameTypes
        <5>. QED  BY <1>1, <4>1, <5>1, <5>2, FramesCount DEF UndoTransaction, Rooted
      <4>2. CASE RedoTransaction
        <5>1. redoStack # <<>> /\ Peek(redoStack) \in Item
          BY <1>1, <4>2, PopOp DEF RedoTransaction
        <5>2. RedoFrame(Peek(redoStack)) \in Frame
          BY <1>1, <5>1, FrameTypes
        <5>. QED  BY <1>1, <4>2, <5>1, <5>2, FramesCount DEF RedoTransaction, Rooted
      <4>. QED  BY <2>5, <4>1, <4>2
    <3>4. Chain(calls')
      <4>1. \A i \in DOMAIN calls : calls[i].item # f.item
        BY <3>2
      <4>. QED  BY <1>1, <3>2, <3>3, <4>1, ChainPush
    <3>. QED  BY <1>4, <3>1, <3>4
  <2>. QED
    BY <1>5, <2>3, <2>4, <2>5
    DEF Client, RefuseTransaction, BeginBatch, EndBatch, Clear, SetMaxTransactionCount
<1>6. CASE DoFails \/ DoSucceeds
  <2>1. calls # <<>> /\ Top.op = "do" /\ calls' = Front(calls)
    BY <1>6 DEF DoFails, DoSucceeds, DoCompletes
  <2>2. \A i \in DOMAIN calls : calls[i].op = "do"
    BY <1>1, <1>2, <2>1, OneKind
  <2>. QED  BY <1>3, <2>1, <2>2
<1>7. ASSUME calls # <<>>, Top.op # "do"
      PROVE  \A i \in DOMAIN calls : calls[i].op # "do"
  BY <1>1, <1>2, <1>7, OneKind
<1>8. calls # <<>> /\ Top.phase # "self" => Top.op # "do"
  BY <1>1, <1>2 DEF DoOrder
<1>9. ASSUME calls # <<>>, NEW f \in Frame, calls' = Append(Front(calls), f), CountOK(f),
             f.op = Top.op, f.item = Top.item, UNCHANGED <<stacks, kids>>
      PROVE  LoopInv'
  <2>1. Chain(calls')
    BY <1>1, <1>9, ChainReplace DEF Top
  <2>. QED  BY <1>4, <1>9, <2>1
<1>10. CASE NextChild
  <2>1. /\ calls # <<>> /\ Looping(Top) /\ Source(Top) # <<>> /\ UNCHANGED <<stacks, kids>>
        /\ Top.op # "do"
    BY <1>8, <1>10 DEF NextChild, Looping
  <2>. DEFINE child == Peek(Source(Top))
  <2>2. child \in Item /\ Source(Top) \in Seq(Item)
    BY <1>1, <1>2, <2>1, PopOp DEF Source
  <2>3. ASSUME NEW f \in Frame, CountOK(f), f.item = child, calls' = Append(calls, f)
        PROVE  LoopInv'
    <3>1. \A i \in DOMAIN calls : calls[i].item # child
      BY <1>7, <2>1, ChildApart
    <3>2. Chain(calls')
      BY <1>1, <2>1, <2>3, <3>1, ChainPush DEF Runs, Top
    <3>. QED  BY <1>4, <2>1, <3>2
  <2>4. CASE calls' = Append(calls, IF UndoesKids(Top) THEN UndoFrame(child) ELSE RedoFrame(child))
    <3>. HIDE DEF child
    <3>1. UndoFrame(child) \in Frame /\ RedoFrame(child) \in Frame
      BY <1>1, <2>2, FrameTypes
    <3>2. /\ CountOK(UndoFrame(child)) /\ UndoFrame(child).item = child
          /\ CountOK(RedoFrame(child)) /\ RedoFrame(child).item = child
      BY <1>1, <2>2, FramesCount
    <3>. QED  BY <2>3, <2>4, <3>1, <3>2
  <2>5. ASSUME NEW r \in Result, calls' = Replace([Top EXCEPT !.left = 0, !.res = r])
        PROVE  LoopInv'
    <3>. DEFINE f == [Top EXCEPT !.left = 0, !.res = r]
    <3>1. /\ f \in Frame /\ f.op = Top.op /\ f.item = Top.item /\ f.left = 0
      BY <1>2, <2>1 DEF Frame
    <3>2. CountOK(f)
      <4>1. Source(f) \in Seq(Item)
        BY <1>1, <1>2, <2>1, <3>1 DEF Source
      <4>. QED  BY <3>1, <4>1 DEF CountOK
    <3>. QED  BY <1>9, <2>1, <2>5, <3>1, <3>2 DEF Replace
  <2>. QED  BY <1>10, <2>4, <2>5 DEF NextChild, Result
<1>11. CASE ChildrenDone
  <2>1. calls # <<>> /\ Top.op # "do" /\ UNCHANGED <<stacks, kids>> /\ calls' = Replace(AfterChildren(Top))
    BY <1>8, <1>11 DEF ChildrenDone
  <2>. QED  BY <1>1, <1>2, <1>9, <2>1, NextFrameTypes, NextFramesCount DEF Replace
<1>12. CASE RecoveryDone
  <2>1. calls # <<>> /\ Top.op # "do" /\ UNCHANGED <<stacks, kids>>
    BY <1>8, <1>12 DEF RecoveryDone
  <2>2. CASE calls' = Replace(Failed(Top))
    BY <1>1, <1>2, <1>9, <2>1, <2>2, NextFrameTypes, NextFramesCount DEF Replace
  <2>3. CASE calls' = Replace([Top EXCEPT !.phase = "rollback"])
    <3>. DEFINE f == [Top EXCEPT !.phase = "rollback"]
    <3>1. f \in Frame /\ f.op = Top.op /\ f.item = Top.item /\ CountOK(f)
      BY <1>2, <2>1 DEF Frame, Phase, CountOK, Looping
    <3>. QED  BY <1>9, <2>1, <2>3, <3>1 DEF Replace
  <2>. QED  BY <1>12, <2>2, <2>3 DEF RecoveryDone
<1>13. CASE TransactionReturns
  <2>1. calls # <<>> /\ Top.op # "do" /\ UNCHANGED <<stacks, kids>>
    BY <1>13 DEF TransactionReturns, Running
  <2>2. PICK r \in Result : calls' = Replace(AfterOwn(Top, r))
    BY <1>13, OutcomesType DEF TransactionReturns
  <2>. QED  BY <1>1, <1>2, <1>9, <2>1, <2>2, NextFrameTypes, NextFramesCount DEF Replace
<1>14. CASE ChildReturns
  <2>1. calls # <<>> /\ Top.op # "do"
    BY <1>8, <1>14 DEF ChildReturns
  <2>. QED  BY <1>7, <1>14, <2>1, ReturnsChain
<1>15. CASE ManagerReturns
  <2>1. calls # <<>> /\ Top.op # "do" /\ calls' = Front(calls) /\ ~InLoop
    BY <1>8, <1>15 DEF ManagerReturns
  <2>. DEFINE n == Len(calls)
  <2>2. n = 1
    <3>. SUFFICES ASSUME n # 1
                  PROVE  FALSE
      OBVIOUS
    <3>1. n \in Nat /\ n > 1 /\ n \in DOMAIN calls
      BY <1>2, <1>2b, <2>1
    <3>2. Runs(calls[n - 1], calls[n])
      BY <1>2, <2>1, <3>1 DEF LoopInv, Chain, Path
    <3>3. Caller = calls[n - 1]
      <4>1. /\ Len(Front(calls)) = n - 1
            /\ \A i \in 1..(n - 1) : Front(calls)[i] = calls[i]
        BY <1>2b, <2>1
      <4>2. n - 1 \in 1..(n - 1)
        BY <3>1
      <4>. QED  BY <4>1, <4>2 DEF Caller, Last
    <3>. QED  BY <2>1, <3>1, <3>2, <3>3 DEF InLoop, Runs, Looping
  <2>3. calls' = <<>>
    <3>1. Front(calls) \in Seq(Frame) /\ Len(Front(calls)) = 0
      BY <1>2b, <2>1, <2>2
    <3>. QED  BY <2>1, <3>1, EmptySeq
  <2>. QED  BY <2>3 DEF LoopInv, Chain, Path, Apart, CountsOK
<1>. QED
  BY <1>5, <1>6, <1>10, <1>11, <1>12, <1>13, <1>14, <1>15 DEF Next, Manager

LEMMA LoopInvariant ==
  ASSUME OnlyDoReenters
  PROVE  Spec => [](SafeInv /\ HistoryInv /\ LoopInv)
<1>1. Init => LoopInv
  BY DEF Init, LoopInv, Chain, Path, Apart, CountsOK
<1>2. SafeInv /\ HistoryInv /\ SafeInv' /\ LoopInv /\ [Next]_vars => LoopInv'
  <2>1. SafeInv /\ HistoryInv /\ SafeInv' /\ LoopInv /\ Next => LoopInv'
    BY LoopStep DEF SafeInv
  <2>2. LoopInv /\ UNCHANGED vars => LoopInv'
    BY DEF LoopInv, Chain, Path, Rooted, Runs, Apart, CountsOK, CountOK, Source, UndoesKids,
           Looping, vars, stacks, kids
  <2>. QED  BY <2>1, <2>2
<1>. QED  BY <1>1, <1>2, HistoryInvariant, PTL DEF Spec

\* No loop over children ever has more rounds left than its list has items,
\* whatever fails or is vetoed in it or in the recovery from it: Peek() is never
\* dereferenced on an empty stack, where only doTransaction() calls the manager.
THEOREM LoopsStayInside ==
  ASSUME OnlyDoReenters
  PROVE  Spec => []LoopNeverPeeksEmpty
<1>1. LoopInv => LoopNeverPeeksEmpty
  BY DEF LoopInv, Chain, CountsOK, CountOK, Looping, LoopNeverPeeksEmpty
<1>. QED  BY <1>1, LoopInvariant, PTL

\* What the manager and the loops move, once an activation has returned, is the
\* item that was undone or redone: nothing has got on top of it meanwhile. The
\* code pops whatever is there.
MovesWhatItRan ==
  \A i \in DOMAIN calls : calls[i].op # "do" =>
    IF i = 1 THEN calls[1].item = Peek(IF calls[1].op = "undo" THEN undoStack ELSE redoStack)
             ELSE calls[i].item = Peek(Source(calls[i - 1]))

THEOREM RightItemMoves ==
  ASSUME OnlyDoReenters
  PROVE  Spec => []MovesWhatItRan
<1>1. LoopInv => MovesWhatItRan
  BY DEF LoopInv, Chain, Path, Rooted, Runs, MovesWhatItRan
<1>. QED  BY <1>1, LoopInvariant, PTL

-----------------------------------------------------------------------------
(* Trees of items: what is undone or redone is undone or redone to its     *)
(* last descendant, and what fails is put back.                            *)

\* The call-outs of an undo and a redo either fail whenever they are made or
\* never, they do not veto, and those of one of the two operations all succeed.
Called(op) == IF op = "undo" THEN "Undo" ELSE "Redo"
Fails(op, x) ==
  \/ "ok" \notin WillNotify(Called(op), x)
  \/ x \in Transaction /\ "ok" \notin OwnResults(Called(op), x)
Steady ==
  /\ \A x \in Item : DidNotify("Undo", x) = {"ok"}
  /\ \A x \in Item, op \in {"Undo", "Redo"} :
       /\ WillNotify(op, x) \in {{"ok"}, {"fail"}}
       /\ OwnResults(op, x) \in {{"ok"}, {"fail"}}
  /\ \A x, y \in Item : ~(Fails("undo", x) /\ Fails("redo", y))

\* The operation on y meets a call-out that fails.
Doomed(op, y) == \E z \in Reach(AllKids, {y}) : Fails(op, z)
Spared(op, s) == \A y \in ToSet(s) : ~Doomed(op, y)

\* The list that a loop moves children to.
Sink(f) == IF UndoesKids(f) THEN redoKids[f.item] ELSE undoKids[f.item]

\* The list of children that the operation is to empty, and the other.
Before(f) == IF f.op = "undo" THEN undoKids[f.item] ELSE redoKids[f.item]
After(f)  == IF f.op = "undo" THEN redoKids[f.item] ELSE undoKids[f.item]

\* What an activation knows of its item's children, by its phase.
KidsKnown(f) ==
  /\ f.op = "redo" => ~Fails("redo", f.item)
  /\ Spared(f.op, After(f))
  /\ f.res = "ok" => f.left = Len(Before(f))
  /\ f.res = "fail" => Before(f) # <<>> /\ Doomed(f.op, Peek(Before(f)))
RecoverKnown(f) == f.res = "ok" /\ f.left = Len(After(f)) /\ Doomed(f.op, f.item)
SelfKnown(f) ==
  /\ undoKids[f.item] = <<>> /\ f.res = "ok"
  /\ f.op = "undo" => Spared("undo", After(f))
RollbackKnown(f) == f.op = "redo" /\ After(f) = <<>> /\ Doomed(f.op, f.item)
ReturnKnown(f) ==
  IF f.res = "ok" THEN Before(f) = <<>> /\ ~Doomed(f.op, f.item)
                  ELSE After(f) = <<>> /\ Doomed(f.op, f.item)
Known(f) ==
  /\ "ok" \in WillNotify(Called(f.op), f.item)
  /\ f.phase = "kids"     => KidsKnown(f)
  /\ f.phase = "recover"  => RecoverKnown(f)
  /\ f.phase = "self"     => SelfKnown(f)
  /\ f.phase = "rollback" => RollbackKnown(f)
  /\ f.phase = "return"   => ReturnKnown(f)

\* The activation that a loop makes is of the loop's direction.
Turns(f) == IF UndoesKids(f) THEN "undo" ELSE "redo"

AllKnown(s) == \A i \in DOMAIN s : s[i].op # "do" =>
                 Known(s[i]) /\ (i # 1 => s[i].op = Turns(s[i - 1]))

\* An item that no activation is for is done or undone as a whole.
Busy(s, y)  == \E i \in DOMAIN s : s[i].op # "do" /\ s[i].item = y
IsDone(y)   == y \in ToSet(doStack) \cup ToSet(undoStack) \cup UNION {ToSet(undoKids[z]) : z \in Item}
IsUndone(y) == y \in ToSet(redoStack) \cup UNION {ToSet(redoKids[z]) : z \in Item}
IsWhole(y)  == (IsDone(y) => redoKids[y] = <<>>) /\ (IsUndone(y) => undoKids[y] = <<>>)
RestWhole(s) == \A y \in Item : ~Busy(s, y) => IsWhole(y)

TreeInv == AllKnown(calls) /\ RestWhole(calls)

-----------------------------------------------------------------------------
(* Lists as sets, and what is below an item.                               *)

LEMMA ToSetOp ==
  ASSUME NEW S, NEW s \in Seq(S)
  PROVE  /\ ToSet(s) \subseteq S
         /\ \A x \in S : ToSet(Push(s, x)) = ToSet(s) \cup {x}
         /\ s # <<>> => /\ Peek(s) \in ToSet(s)
                        /\ ToSet(s) = ToSet(Pop(s)) \cup {Peek(s)}
<1>1. Len(s) \in Nat /\ DOMAIN s = 1..Len(s)
  OBVIOUS
<1>2. ToSet(s) \subseteq S
  BY <1>1 DEF ToSet
<1>3. ASSUME NEW x \in S
      PROVE  ToSet(Push(s, x)) = ToSet(s) \cup {x}
  <2>. DEFINE t == Push(s, x)
  <2>1. /\ t \in Seq(S) /\ Len(t) = Len(s) + 1 /\ DOMAIN t = 1..(Len(s) + 1)
        /\ \A j \in 1..Len(s) : t[j] = s[j]
        /\ t[Len(s) + 1] = x
    BY AppendProperties DEF Push
  <2>. HIDE DEF t
  <2>2. \A j \in 1..(Len(s) + 1) : j = Len(s) + 1 \/ j \in 1..Len(s)
    BY <1>1
  <2>3. Len(s) + 1 \in 1..(Len(s) + 1) /\ 1..Len(s) \subseteq 1..(Len(s) + 1)
    BY <1>1
  <2>4. ToSet(t) \subseteq ToSet(s) \cup {x}
    BY <1>1, <2>1, <2>2 DEF ToSet
  <2>5. ToSet(s) \subseteq ToSet(t)
    BY <1>1, <2>1, <2>3 DEF ToSet
  <2>6. x \in ToSet(t)
    BY <2>1, <2>3 DEF ToSet
  <2>. QED  BY <2>4, <2>5, <2>6 DEF t
<1>4. ASSUME s # <<>>
      PROVE  Peek(s) \in ToSet(s) /\ ToSet(s) = ToSet(Pop(s)) \cup {Peek(s)}
  <2>. DEFINE t == Pop(s)
  <2>1. /\ t \in Seq(S) /\ DOMAIN t = 1..(Len(s) - 1)
        /\ \A i \in 1..(Len(s) - 1) : t[i] = s[i]
    BY <1>4, FrontOp DEF Pop
  <2>2. Len(s) \in DOMAIN s /\ Peek(s) = s[Len(s)]
    BY <1>4, EmptySeq DEF Peek, Last
  <2>. HIDE DEF t
  <2>3. \A j \in 1..Len(s) : j = Len(s) \/ j \in 1..(Len(s) - 1)
    <3>1. \A n \in Nat : \A j \in 1..n : j = n \/ j \in 1..(n - 1)
      OBVIOUS
    <3>. QED  BY <1>1, <3>1
  <2>4. 1..(Len(s) - 1) \subseteq 1..Len(s)
    BY <1>1
  <2>5. Peek(s) \in ToSet(s)
    BY <2>2 DEF ToSet
  <2>6. ToSet(s) \subseteq ToSet(t) \cup {Peek(s)}
    BY <1>1, <2>1, <2>2, <2>3 DEF ToSet
  <2>7. ToSet(t) \subseteq ToSet(s)
    BY <1>1, <2>1, <2>4 DEF ToSet
  <2>. QED  BY <2>5, <2>6, <2>7 DEF t
<1>. QED  BY <1>2, <1>3, <1>4

LEMMA PartToSet ==
  ASSUME NEW r, NEW s, Part(r, s)
  PROVE  ToSet(r) \subseteq ToSet(s)
  BY DEF Part, ToSet

\* Reach() is the item, and what is below its children.
LEMMA ReachOp ==
  ASSUME NEW f, NEW y \in Item, \A x \in Item : ToSet(f[x]) \subseteq Item
  PROVE  /\ y \in Reach(f, {y})
         /\ \A z \in ToSet(f[y]) : Reach(f, {z}) \subseteq Reach(f, {y})
         /\ \A w \in Reach(f, {y}) : w = y \/ \E z \in ToSet(f[y]) : w \in Reach(f, {z})
<1>. DEFINE Shut(C) == \A x \in C : ToSet(f[x]) \subseteq C
<1>1. \A z, w : w \in Reach(f, {z}) <=> w \in Item /\ \A C \in SUBSET Item : z \in C /\ Shut(C) => w \in C
  BY DEF Reach
<1>. HIDE DEF Shut
<1>2. y \in Reach(f, {y})
  BY <1>1
<1>3. ASSUME NEW z, NEW x \in Reach(f, {z})
      PROVE  ToSet(f[x]) \subseteq Reach(f, {z})
  <2>. SUFFICES ASSUME NEW w \in ToSet(f[x]), NEW C \in SUBSET Item, z \in C, Shut(C)
                PROVE  w \in Item /\ w \in C
    <3>1. x \in Item
      BY <1>1, <1>3
    <3>. QED  BY <1>1, <1>3, <3>1
  <2>1. x \in C
    BY <1>1, <1>3
  <2>. QED  BY <2>1 DEF Shut
<1>4. ASSUME NEW z \in ToSet(f[y]), NEW w \in Reach(f, {z})
      PROVE  w \in Reach(f, {y})
  <2>. SUFFICES ASSUME NEW C \in SUBSET Item, y \in C, Shut(C)
                PROVE  w \in C
    BY <1>1, <1>4
  <2>1. z \in C
    BY DEF Shut
  <2>. QED  BY <1>1, <1>4, <2>1
<1>5. ASSUME NEW w \in Reach(f, {y})
      PROVE  w = y \/ \E z \in ToSet(f[y]) : w \in Reach(f, {z})
  <2>. DEFINE C == {v \in Item : v = y \/ \E z \in ToSet(f[y]) : v \in Reach(f, {z})}
  <2>1. ASSUME NEW x \in C, NEW v \in ToSet(f[x])
        PROVE  v \in C
    <3>1. v \in Item
      BY <2>1
    <3>2. CASE x = y
      <4>1. v \in Reach(f, {v})
        BY <1>1, <3>1
      <4>. QED  BY <2>1, <3>1, <3>2, <4>1
    <3>3. CASE x # y
      <4>1. PICK z \in ToSet(f[y]) : x \in Reach(f, {z})
        BY <2>1, <3>3
      <4>2. v \in Reach(f, {z})
        BY <1>3, <2>1, <4>1
      <4>. QED  BY <3>1, <4>2
    <3>. QED  BY <3>2, <3>3
  <2>2. C \in SUBSET Item /\ y \in C /\ Shut(C)
    BY <2>1 DEF Shut
  <2>3. w \in C
    <3>. HIDE DEF C
    <3>. QED  BY <1>1, <1>5, <2>2
  <2>. QED  BY <2>3
<1>. QED  BY <1>2, <1>4, <1>5

\* It goes by the sets of children.
LEMMA ReachSame ==
  ASSUME NEW f, NEW g, \A x \in Item : ToSet(f[x]) = ToSet(g[x]), NEW S
  PROVE  Reach(f, S) = Reach(g, S)
<1>1. ASSUME NEW C \in SUBSET Item
      PROVE  (\A x \in C : ToSet(f[x]) \subseteq C) <=> (\A x \in C : ToSet(g[x]) \subseteq C)
  BY <1>1
<1>. QED  BY <1>1, Zenon DEF Reach

\* An item's children, done and undone.
KidsOf(x) == ToSet(undoKids[x]) \cup ToSet(redoKids[x])

LEMMA AllKidsOp ==
  ASSUME TypeOK, NEW x \in Item
  PROVE  ToSet(AllKids[x]) = KidsOf(x) /\ KidsOf(x) \subseteq Item
<1>. DEFINE u == undoKids[x]  r == redoKids[x]  a == u \o r
<1>1. u \in Seq(Item) /\ r \in Seq(Item) /\ AllKids[x] = a
  BY DEF TypeOK, AllKids
<1>. HIDE DEF u, r
<1>2. /\ a \in Seq(Item) /\ Len(a) = Len(u) + Len(r) /\ DOMAIN a = 1..(Len(u) + Len(r))
      /\ \A j \in 1..(Len(u) + Len(r)) : a[j] = IF j <= Len(u) THEN u[j] ELSE r[j - Len(u)]
      /\ Len(u) \in Nat /\ Len(r) \in Nat /\ DOMAIN u = 1..Len(u) /\ DOMAIN r = 1..Len(r)
  BY <1>1, ConcatProperties
<1>. HIDE DEF a
<1>3. ToSet(a) \subseteq ToSet(u) \cup ToSet(r)
  <2>. SUFFICES ASSUME NEW j \in 1..(Len(u) + Len(r))
                PROVE  a[j] \in ToSet(u) \cup ToSet(r)
    BY <1>2 DEF ToSet
  <2>1. CASE j <= Len(u)
    <3>1. j \in DOMAIN u /\ a[j] = u[j]
      BY <1>2, <2>1
    <3>. QED  BY <3>1 DEF ToSet
  <2>2. CASE ~(j <= Len(u))
    <3>1. j - Len(u) \in DOMAIN r /\ a[j] = r[j - Len(u)]
      BY <1>2, <2>2
    <3>. QED  BY <3>1 DEF ToSet
  <2>. QED  BY <2>1, <2>2
<1>4. ASSUME NEW i \in DOMAIN u
      PROVE  u[i] \in ToSet(a)
  <2>1. i \in DOMAIN a /\ a[i] = u[i]
    BY <1>2
  <2>. QED  BY <2>1 DEF ToSet
<1>5. ASSUME NEW i \in DOMAIN r
      PROVE  r[i] \in ToSet(a)
  <2>1. i + Len(u) \in DOMAIN a /\ a[i + Len(u)] = r[i]
    BY <1>2
  <2>. QED  BY <2>1 DEF ToSet
<1>6. ToSet(u) \subseteq Item /\ ToSet(r) \subseteq Item
  BY <1>1, ToSetOp
<1>7. ToSet(a) = ToSet(u) \cup ToSet(r)
  BY <1>3, <1>4, <1>5 DEF ToSet
<1>. QED  BY <1>1, <1>6, <1>7 DEF KidsOf, u, r

AllKidsShown == TypeOK => \A x \in Item : ToSet(AllKids[x]) = KidsOf(x)
LEMMA AllKidsSeen == AllKidsShown
  BY AllKidsOp DEF AllKidsShown

\* An operation meets a failure at an item or below it.
LEMMA DoomedOp ==
  ASSUME TypeOK, NEW op, NEW y \in Item
  PROVE  /\ Fails(op, y) => Doomed(op, y)
         /\ \A z \in KidsOf(y) : Doomed(op, z) => Doomed(op, y)
         /\ Doomed(op, y) => Fails(op, y) \/ \E z \in KidsOf(y) : Doomed(op, z)
<1>1. \A x \in Item : ToSet(AllKids[x]) = KidsOf(x) /\ KidsOf(x) \subseteq Item
  BY AllKidsOp
<1>2. /\ y \in Reach(AllKids, {y})
      /\ \A z \in KidsOf(y) : Reach(AllKids, {z}) \subseteq Reach(AllKids, {y})
      /\ \A w \in Reach(AllKids, {y}) : w = y \/ \E z \in KidsOf(y) : w \in Reach(AllKids, {z})
  <2>1. \A x \in Item : ToSet(AllKids[x]) \subseteq Item
    BY <1>1
  <2>2. PICK f : f = AllKids
    OBVIOUS
  <2>3. /\ y \in Reach(f, {y})
        /\ \A z \in ToSet(f[y]) : Reach(f, {z}) \subseteq Reach(f, {y})
        /\ \A w \in Reach(f, {y}) : w = y \/ \E z \in ToSet(f[y]) : w \in Reach(f, {z})
    <3>1. \A x \in Item : ToSet(f[x]) \subseteq Item
      BY <2>1, <2>2
    <3>. QED  BY <3>1, ReachOp, Zenon
  <2>4. ToSet(f[y]) = KidsOf(y)
    BY <1>1, <2>2
  <2>. QED  BY <2>2, <2>3, <2>4, Zenon
<1>. QED  BY <1>2 DEF Doomed

\* Moving children does not change who fails.
LEMMA DoomedSame ==
  ASSUME TypeOK, TypeOK', faulty' = faulty, \A x \in Item : KidsOf(x)' = KidsOf(x),
         NEW op, NEW y
  PROVE  Doomed(op, y)' <=> Doomed(op, y)
<1>1. \A x \in Item : ToSet(AllKids[x]) = KidsOf(x)
  BY AllKidsOp
<1>2. \A x \in Item : ToSet(AllKids'[x]) = KidsOf(x)'
  <2>1. AllKidsShown'
    BY AllKidsSeen, PTL
  <2>. QED  BY <2>1 DEF AllKidsShown
<1>3. \A S : Reach(AllKids', S) = Reach(AllKids, S)
  <2>1. \A x \in Item : ToSet(AllKids'[x]) = ToSet(AllKids[x])
    BY <1>1, <1>2
  <2>. QED  BY <2>1, ReachSame
<1>4. Reach(AllKids, {y})' = Reach(AllKids', {y})
  BY DEF Reach
<1>5. \A z : Fails(op, z)' <=> Fails(op, z)
  BY DEF Fails, WillNotify, OwnResults, Outcomes, Called
<1>. QED  BY <1>3, <1>4, <1>5 DEF Doomed

-----------------------------------------------------------------------------
(* Which call-outs may fail.                                               *)

\* The call-outs of an undo or a redo fail each time or never, and none vetoes; at
\* most one of them does, or those of one of the two operations only.
SteadyFaults ==
  /\ ~Flaky
  /\ \A k \in FaultKinds : k[2] \in {"Undo", "Redo"} => k[1] \in {"will", "own"} /\ k[3] = "fail"
  /\ MaxFaults <= 1 \/ \E op \in {"Undo", "Redo"} : \A k \in FaultKinds : k[2] # op

LEMMA InitSteady == SteadyFaults /\ Init => Steady
<1>. SUFFICES ASSUME SteadyFaults, Init
              PROVE  Steady
  OBVIOUS
<1>1. PICK s \in BoundedSeq(Misbehaviours, MaxFaults) : faulty = ToSet(s)
  BY DEF Init
<1>2. PICK m \in 0..MaxFaults : s \in [1..m -> Misbehaviours]
  BY <1>1 DEF BoundedSeq, SeqOf
<1>3. faulty \subseteq Misbehaviours /\ DOMAIN s = 1..m
  BY <1>1, <1>2 DEF ToSet
<1>4. ASSUME NEW x, NEW w, NEW op, NEW o, <<x, w, op, o>> \in faulty
      PROVE  \E k \in FaultKinds : k[1] = w /\ k[2] = op /\ k[3] = o
  <2>1. PICK y \in Item, k \in FaultKinds : <<x, w, op, o>> = <<y, k[1], k[2], k[3]>>
    BY <1>3, <1>4 DEF Misbehaviours
  <2>. QED  BY <2>1
<1>5. ASSUME NEW x, NEW w, NEW op \in {"Undo", "Redo"}, NEW o, <<x, w, op, o>> \in faulty
      PROVE  w \in {"will", "own"} /\ o = "fail"
  BY <1>4, <1>5 DEF SteadyFaults
<1>6. ASSUME NEW x, NEW op \in {"Undo", "Redo"}
      PROVE  /\ WillNotify(op, x) = IF <<x, "will", op, "fail">> \in faulty THEN {"fail"} ELSE {"ok"}
             /\ OwnResults(op, x) = IF <<x, "own", op, "fail">> \in faulty THEN {"fail"} ELSE {"ok"}
             /\ DidNotify(op, x) = {"ok"}
  <2>. DEFINE now(w, bad) == {o \in bad : <<x, w, op, o>> \in faulty}
  <2>1. ASSUME NEW w, NEW bad, "fail" \in bad
        PROVE  now(w, bad) = IF <<x, w, op, "fail">> \in faulty THEN {"fail"} ELSE {}
    BY <1>5, <2>1
  <2>2. <<x, "did", op, "fail">> \notin faulty
    BY <1>5
  <2>. HIDE DEF now
  <2>3. /\ WillNotify(op, x) = IF now("will", {"fail", "veto"}) = {} THEN {"ok"} ELSE now("will", {"fail", "veto"})
        /\ OwnResults(op, x) = IF now("own", {"fail"}) = {} THEN {"ok"} ELSE now("own", {"fail"})
        /\ DidNotify(op, x) = IF now("did", {"fail"}) = {} THEN {"ok"} ELSE now("did", {"fail"})
    BY DEF WillNotify, OwnResults, DidNotify, Outcomes, SteadyFaults, now
  <2>. QED  BY <2>1, <2>2, <2>3
<1>7. ASSUME NEW x \in Item, NEW y \in Item, Fails("undo", x), Fails("redo", y)
      PROVE  FALSE
  <2>1. PICK w : <<x, w, "Undo", "fail">> \in faulty
    BY <1>6, <1>7 DEF Fails, Called
  <2>2. PICK v : <<y, v, "Redo", "fail">> \in faulty
    BY <1>6, <1>7 DEF Fails, Called
  <2>3. (\E k \in FaultKinds : k[2] = "Undo") /\ (\E k \in FaultKinds : k[2] = "Redo")
    BY <1>4, <2>1, <2>2
  <2>4. MaxFaults <= 1
    BY <2>3 DEF SteadyFaults
  <2>5. m \in {0, 1}
    BY <2>4, EnvAssumption
  <2>6. \A i, j \in 1..m : i = j
    BY <2>5
  <2>7. PICK i, j \in 1..m : s[i] = <<x, w, "Undo", "fail">> /\ s[j] = <<y, v, "Redo", "fail">>
    BY <1>1, <1>3, <2>1, <2>2 DEF ToSet
  <2>8. <<x, w, "Undo", "fail">>[3] = <<y, v, "Redo", "fail">>[3]
    BY <2>6, <2>7
  <2>. QED  BY <2>8
<1>. QED  BY <1>6, <1>7 DEF Steady

\* Two operations never both meet a failure.
LEMMA OneDoomed ==
  ASSUME Steady, NEW x, NEW y, Doomed("undo", x), Doomed("redo", y)
  PROVE  FALSE
  BY DEF Doomed, Steady, Reach

-----------------------------------------------------------------------------
(* What an activation knows when it is made, and from phase to phase.      *)

LEMMA BothKids ==
  ASSUME TypeOK, NEW f \in Frame, f.op # "do"
  PROVE  /\ f.op \in {"undo", "redo"} /\ f.item \in Item
         /\ Before(f) \in Seq(Item) /\ After(f) \in Seq(Item)
         /\ KidsOf(f.item) = ToSet(Before(f)) \cup ToSet(After(f))
  BY DEF TypeOK, Frame, Method, Before, After, KidsOf

LEMMA EmptyToSet == ToSet(<<>>) = {}
  BY DEF ToSet

LEMMA MadeKnown ==
  ASSUME TypeOK, NEW x \in Item
  PROVE  /\ "ok" \in WillNotify("Undo", x) /\ redoKids[x] = <<>> => Known(UndoFrame(x))
         /\ "ok" \in WillNotify("Redo", x) /\ undoKids[x] = <<>> => Known(RedoFrame(x))
<1>. PICK z : z = <<>>
  OBVIOUS
<1>1. ToSet(z) = {}
  BY EmptyToSet
<1>2. ASSUME "ok" \in WillNotify("Undo", x), redoKids[x] = z
      PROVE  Known(UndoFrame(x))
  <2>. DEFINE f == UndoFrame(x)
  <2>1. f.op = "undo" /\ f.item = x /\ f.phase = "kids" /\ f.res = "ok" /\ f.left = Len(undoKids[x])
    BY DEF UndoFrame, Activate
  <2>. HIDE DEF f
  <2>2. KidsKnown(f)
    BY <1>1, <1>2, <2>1 DEF KidsKnown, Spared, Before, After
  <2>. QED  BY <1>2, <2>1, <2>2 DEF Known, Called, f
<1>3. ASSUME "ok" \in WillNotify("Redo", x), undoKids[x] = z
      PROVE  Known(RedoFrame(x))
  <2>. DEFINE f == RedoFrame(x)
  <2>1. f.op = "redo" /\ f.item = x /\ f.res = "ok"
    BY DEF RedoFrame, Activate
  <2>2. \/ x \in Batch /\ f.phase = "kids" /\ f.left = Len(redoKids[x])
        \/ f.phase = "self"
    BY DEF RedoFrame, Activate
  <2>. HIDE DEF f
  <2>3. x \in Batch => ~Fails("redo", x)
    BY <1>3, ItemAssumption DEF Fails, Called
  <2>4. f.phase = "kids" => KidsKnown(f)
    BY <1>1, <1>3, <2>1, <2>2, <2>3 DEF KidsKnown, Spared, Before, After
  <2>5. f.phase = "self" => SelfKnown(f)
    BY <1>3, <2>1 DEF SelfKnown
  <2>. QED  BY <1>3, <2>1, <2>2, <2>4, <2>5 DEF Known, Called, f
<1>. QED  BY <1>2, <1>3

\* The activation that gives the children back.
LEMMA RecoverMade ==
  ASSUME NEW op \in {"undo", "redo"}, NEW x, "ok" \in WillNotify(Called(op), x), Doomed(op, x)
  PROVE  Known(RecoverFrame(op, x))
<1>. DEFINE f == RecoverFrame(op, x)
<1>1. /\ f.op = op /\ f.item = x /\ f.phase = "recover" /\ f.res = "ok"
      /\ f.left = Len(IF op = "undo" THEN redoKids[x] ELSE undoKids[x])
  BY DEF RecoverFrame, Activate
<1>. HIDE DEF f
<1>2. RecoverKnown(f)
  BY <1>1 DEF RecoverKnown, After
<1>. QED  BY <1>1, <1>2 DEF Known, f

LEMMA FailedKnown ==
  ASSUME NEW f \in Frame, Known(f), After(f) = <<>>, Doomed(f.op, f.item)
  PROVE  Known(Failed(f))
<1>. DEFINE g == Failed(f)
<1>1. g.op = f.op /\ g.item = f.item /\ g.phase = "return" /\ g.res = "fail"
  BY DEF Failed, Frame
<1>. HIDE DEF g
<1>2. ReturnKnown(g)
  BY <1>1 DEF ReturnKnown, After
<1>. QED  BY <1>1, <1>2 DEF Known, g

LEMMA AfterChildrenKnown ==
  ASSUME TypeOK, NEW f \in Frame, f.op # "do", Known(f), f.phase = "kids", f.left = 0
  PROVE  Known(AfterChildren(f))
<1>1. /\ f.op \in {"undo", "redo"} /\ f.item \in Item
      /\ Before(f) \in Seq(Item) /\ After(f) \in Seq(Item)
      /\ KidsOf(f.item) = ToSet(Before(f)) \cup ToSet(After(f))
  BY BothKids
<1>2. KidsKnown(f) /\ "ok" \in WillNotify(Called(f.op), f.item)
  BY DEF Known
<1>3. CASE f.res = "fail"
  <2>1. Before(f) # <<>> /\ Doomed(f.op, Peek(Before(f)))
    BY <1>2, <1>3 DEF KidsKnown
  <2>2. Peek(Before(f)) \in KidsOf(f.item)
    BY <1>1, <2>1, ToSetOp
  <2>3. Doomed(f.op, f.item)
    BY <1>1, <2>1, <2>2, DoomedOp
  <2>. QED  BY <1>1, <1>2, <1>3, <2>3, RecoverMade DEF AfterChildren
<1>4. CASE f.res # "fail"
  <2>1. f.res = "ok"
    BY <1>4 DEF Frame, Result
  <2>2. Before(f) = <<>>
    BY <1>1, <1>2, <2>1, EmptySeq DEF KidsKnown
  <2>3. KidsOf(f.item) = ToSet(After(f))
    BY <1>1, <2>2, EmptyToSet
  <2>4. Spared(f.op, After(f))
    BY <1>2 DEF KidsKnown
  <2>5. CASE f.op = "undo" /\ f.item \notin Batch
    <3>. DEFINE g == [f EXCEPT !.phase = "self"]
    <3>1. g.op = f.op /\ g.item = f.item /\ g.phase = "self" /\ g.res = "ok"
      BY <2>1 DEF Frame
    <3>2. g = AfterChildren(f)
      BY <1>4, <2>5 DEF AfterChildren
    <3>. HIDE DEF g
    <3>3. SelfKnown(g)
      BY <2>2, <2>4, <2>5, <3>1 DEF SelfKnown, Before, After
    <3>. QED  BY <1>2, <3>1, <3>2, <3>3 DEF Known
  <2>6. CASE ~(f.op = "undo" /\ f.item \notin Batch)
    <3>. DEFINE g == [f EXCEPT !.phase = "return"]
    <3>1. g.op = f.op /\ g.item = f.item /\ g.phase = "return" /\ g.res = "ok"
      BY <2>1 DEF Frame
    <3>2. g = AfterChildren(f)
      BY <1>4, <2>6 DEF AfterChildren
    <3>. HIDE DEF g
    <3>3. ~Fails(f.op, f.item)
      <4>1. CASE f.op = "redo"
        BY <1>2, <4>1 DEF KidsKnown
      <4>2. CASE f.op # "redo"
        <5>1. f.op = "undo" /\ f.item \notin Transaction
          BY <1>1, <2>6, <4>2, ItemAssumption
        <5>. QED  BY <1>2, <5>1 DEF Fails
      <4>. QED  BY <4>1, <4>2
    <3>4. ~Doomed(f.op, f.item)
      BY <1>1, <2>3, <2>4, <3>3, DoomedOp DEF Spared
    <3>5. ReturnKnown(g)
      BY <2>2, <3>1, <3>4 DEF ReturnKnown, Before
    <3>. QED  BY <1>2, <3>1, <3>2, <3>5 DEF Known
  <2>. QED  BY <2>5, <2>6
<1>. QED  BY <1>3, <1>4

LEMMA RecoveryKnown ==
  ASSUME TypeOK, NEW f \in Frame, f.op # "do", Known(f), f.phase = "recover", f.left = 0
  PROVE  Known(Failed(f)) /\ (f.op = "redo" => Known([f EXCEPT !.phase = "rollback"]))
<1>1. RecoverKnown(f) /\ After(f) \in Seq(Item) /\ "ok" \in WillNotify(Called(f.op), f.item)
  BY BothKids DEF Known
<1>2. After(f) = <<>> /\ Doomed(f.op, f.item)
  BY <1>1, EmptySeq DEF RecoverKnown
<1>. DEFINE g == [f EXCEPT !.phase = "rollback"]
<1>3. g.op = f.op /\ g.item = f.item /\ g.phase = "rollback"
  BY DEF Frame
<1>. HIDE DEF g
<1>4. f.op = "redo" => RollbackKnown(g)
  BY <1>2, <1>3 DEF RollbackKnown, After
<1>5. f.op = "redo" => Known(g)
  BY <1>1, <1>3, <1>4 DEF Known
<1>6. Known(Failed(f))
  BY <1>2, FailedKnown
<1>. QED  BY <1>5, <1>6 DEF g

LEMMA AfterOwnKnown ==
  ASSUME TypeOK, Steady, NEW f \in Frame, f.op # "do", Known(f), f.item \in Transaction,
         f.phase \in {"self", "rollback"},
         NEW r \in OwnResults(IF f.phase = "rollback" \/ f.op = "undo" THEN "Undo" ELSE "Redo", f.item)
  PROVE  Known(AfterOwn(f, r))
<1>1. /\ f.op \in {"undo", "redo"} /\ f.item \in Item
      /\ Before(f) \in Seq(Item) /\ After(f) \in Seq(Item)
      /\ KidsOf(f.item) = ToSet(Before(f)) \cup ToSet(After(f))
  BY BothKids
<1>2. "ok" \in WillNotify(Called(f.op), f.item)
  BY DEF Known
<1>3. CASE f.phase = "rollback"
  <2>1. RollbackKnown(f) /\ AfterOwn(f, r) = Failed(f)
    BY <1>3 DEF Known, AfterOwn
  <2>. QED  BY <2>1, FailedKnown DEF RollbackKnown
<1>4. CASE f.phase = "self"
  <2>1. SelfKnown(f)
    BY <1>4 DEF Known
  <2>2. r \in OwnResults(Called(f.op), f.item) /\ r \in Result
    BY <1>1, <1>4, OutcomesType DEF Called
  <2>3. OwnResults(Called(f.op), f.item) \in {{"ok"}, {"fail"}}
    BY <1>1 DEF Steady, Called
  <2>4. r = "fail" => Fails(f.op, f.item)
    BY <2>2, <2>3 DEF Fails
  <2>5. r = "ok" => ~Fails(f.op, f.item)
    BY <1>2, <2>2 DEF Fails
  <2>6. Fails(f.op, f.item) => Doomed(f.op, f.item)
    BY <1>1, DoomedOp
  <2>7. CASE f.op = "redo" /\ r = "fail"
    <3>1. After(f) = <<>>
      BY <2>1, <2>7 DEF SelfKnown, After
    <3>. QED  BY <2>4, <2>6, <2>7, <3>1, FailedKnown DEF AfterOwn
  <2>8. CASE f.op = "undo" /\ r = "fail"
    <3>1. AfterOwn(f, r) = RecoverFrame("undo", f.item)
      BY <1>4, <2>8 DEF AfterOwn
    <3>. QED  BY <1>2, <2>4, <2>6, <2>8, <3>1, RecoverMade
  <2>9. CASE f.op = "undo" /\ r = "ok"
    <3>. DEFINE g == [f EXCEPT !.phase = "return"]
    <3>1. g.op = f.op /\ g.item = f.item /\ g.phase = "return" /\ g.res = f.res
      BY DEF Frame
    <3>2. g = AfterOwn(f, r)
      BY <1>4, <2>9 DEF AfterOwn
    <3>. HIDE DEF g
    <3>3. Before(f) = <<>> /\ f.res = "ok" /\ Spared(f.op, After(f))
      BY <2>1, <2>9 DEF SelfKnown, Before
    <3>4. ~Doomed(f.op, f.item)
      BY <1>1, <2>5, <2>9, <3>3, DoomedOp, EmptyToSet DEF Spared
    <3>5. ReturnKnown(g)
      BY <3>1, <3>3, <3>4 DEF ReturnKnown, Before
    <3>. QED  BY <1>2, <3>1, <3>2, <3>5 DEF Known
  <2>10. CASE f.op = "redo" /\ r = "ok"
    <3>. DEFINE g == Activate("redo", f.item, "kids", Len(redoKids[f.item]))
    <3>1. /\ g.op = f.op /\ g.item = f.item /\ g.phase = "kids" /\ g.res = "ok"
          /\ g.left = Len(redoKids[f.item])
      BY <2>10 DEF Activate
    <3>2. g = AfterOwn(f, r)
      BY <1>4, <2>10 DEF AfterOwn
    <3>. HIDE DEF g
    <3>3. undoKids[f.item] = <<>>
      BY <2>1 DEF SelfKnown
    <3>4. KidsKnown(g)
      BY <2>5, <2>10, <3>1, <3>3, EmptyToSet DEF KidsKnown, Spared, Before, After
    <3>. QED  BY <1>2, <3>1, <3>2, <3>4 DEF Known
  <2>. QED  BY <1>1, <2>2, <2>7, <2>8, <2>9, <2>10 DEF Result
<1>. QED  BY <1>3, <1>4

\* A loop whose next child's listeners fail.
LEMMA RefusedKnown ==
  ASSUME TypeOK, Steady, NEW f \in Frame, f.op # "do", Known(f), Looping(f), Source(f) # <<>>,
         "ok" \notin WillNotify(Called(Turns(f)), Peek(Source(f)))
  PROVE  Known([f EXCEPT !.left = 0, !.res = "fail"])
<1>1. /\ f.op \in {"undo", "redo"} /\ f.item \in Item
      /\ Before(f) \in Seq(Item) /\ After(f) \in Seq(Item)
      /\ KidsOf(f.item) = ToSet(Before(f)) \cup ToSet(After(f))
  BY BothKids
<1>2. "ok" \in WillNotify(Called(f.op), f.item)
  BY DEF Known
<1>3. Peek(Source(f)) \in Item
  BY <1>1, PopOp DEF Source, TypeOK
<1>4. Fails(Turns(f), Peek(Source(f)))
  BY DEF Fails
<1>5. Doomed(Turns(f), Peek(Source(f)))
  BY <1>3, <1>4, DoomedOp
<1>6. CASE f.phase = "kids"
  <2>. DEFINE g == [f EXCEPT !.left = 0, !.res = "fail"]
  <2>1. g.op = f.op /\ g.item = f.item /\ g.phase = "kids" /\ g.res = "fail"
    BY <1>6 DEF Frame
  <2>. HIDE DEF g
  <2>2. Turns(f) = f.op /\ Source(f) = Before(f)
    BY <1>1, <1>6 DEF Turns, UndoesKids, Source, Before
  <2>3. KidsKnown(f)
    BY <1>6 DEF Known
  <2>4. KidsKnown(g)
    BY <1>5, <2>1, <2>2, <2>3 DEF KidsKnown, Before, After
  <2>. QED  BY <1>2, <2>1, <2>4 DEF Known, g
<1>7. CASE f.phase = "recover"
  <2>1. Turns(f) = (IF f.op = "undo" THEN "redo" ELSE "undo")
    BY <1>1, <1>7 DEF Turns, UndoesKids
  <2>2. Doomed(f.op, f.item)
    BY <1>7 DEF Known, RecoverKnown
  <2>. QED  BY <1>1, <1>5, <2>1, <2>2, OneDoomed
<1>. QED  BY <1>6, <1>7 DEF Looping

-----------------------------------------------------------------------------
(* All activations.                                                        *)

LEMMA AllKnownReplace ==
  ASSUME NEW s \in Seq(Frame), s # <<>>, AllKnown(s), NEW f \in Frame,
         f.op = Last(s).op, f.item = Last(s).item, f.op # "do", Known(f)
  PROVE  /\ AllKnown(Append(Front(s), f))
         /\ \A y : Busy(Append(Front(s), f), y) <=> Busy(s, y)
<1>. DEFINE q == Front(s)  t == Append(q, f)  n == Len(s)
<1>1. /\ n \in Nat /\ n # 0 /\ q \in Seq(Frame) /\ Len(q) = n - 1
      /\ \A i \in 1..(n - 1) : q[i] = s[i]
  BY EmptySeq, FrontOp
<1>. HIDE DEF q
<1>2. /\ t \in Seq(Frame) /\ Len(t) = Len(q) + 1
      /\ \A i \in 1..Len(q) : t[i] = q[i]
      /\ t[Len(q) + 1] = f
  BY <1>1, AppendProperties
<1>. HIDE DEF t
<1>3. /\ DOMAIN t = 1..n /\ DOMAIN s = 1..n /\ t[n] = f
      /\ \A i \in 1..(n - 1) : t[i] = s[i]
      /\ s[n].op = f.op /\ s[n].item = f.item
  BY <1>1, <1>2 DEF Last
<1>. HIDE DEF n
<1>4. \A i \in 1..n : i = n \/ i \in 1..(n - 1)
  BY <1>1
<1>5. \A i \in 1..n : t[i].op = s[i].op /\ t[i].item = s[i].item
  BY <1>3, <1>4
<1>6. \A y : Busy(t, y) <=> Busy(s, y)
  BY <1>3, <1>5 DEF Busy
<1>7. ASSUME NEW i \in 1..n, t[i].op # "do"
      PROVE  Known(t[i]) /\ (i # 1 => t[i].op = Turns(t[i - 1]))
  <2>1. Known(s[i]) /\ (i # 1 => s[i].op = Turns(s[i - 1]))
    BY <1>3, <1>5, <1>7 DEF AllKnown
  <2>2. i # 1 => t[i - 1] = s[i - 1]
    <3>1. i # 1 => i - 1 \in 1..(n - 1)
      BY <1>1
    <3>. QED  BY <1>3, <3>1
  <2>3. Known(t[i])
    BY <1>3, <1>4, <2>1
  <2>. QED  BY <1>5, <2>1, <2>2, <2>3
<1>8. AllKnown(t)
  BY <1>3, <1>7 DEF AllKnown
<1>. QED  BY <1>6, <1>8 DEF t, q

LEMMA AllKnownPush ==
  ASSUME NEW s \in Seq(Frame), AllKnown(s), NEW f \in Frame, f.op # "do", Known(f),
         s # <<>> => f.op = Turns(Last(s))
  PROVE  /\ AllKnown(Append(s, f))
         /\ \A y : Busy(s, y) => Busy(Append(s, f), y)
<1>. DEFINE t == Append(s, f)  n == Len(s)
<1>1. /\ n \in Nat /\ DOMAIN s = 1..n /\ (s = <<>> <=> n = 0)
  BY EmptySeq
<1>2. /\ t \in Seq(Frame) /\ DOMAIN t = 1..(n + 1)
      /\ \A i \in 1..n : t[i] = s[i]
      /\ t[n + 1] = f
  BY AppendProperties
<1>. HIDE DEF t
<1>3. \A i \in 1..(n + 1) : i = n + 1 \/ i \in 1..n
  BY <1>1
<1>4. 1..n \subseteq 1..(n + 1)
  BY <1>1
<1>5. \A y : Busy(s, y) => Busy(t, y)
  BY <1>1, <1>2, <1>4 DEF Busy
<1>6. ASSUME NEW i \in 1..(n + 1), t[i].op # "do"
      PROVE  Known(t[i]) /\ (i # 1 => t[i].op = Turns(t[i - 1]))
  <2>1. CASE i \in 1..n
    <3>1. Known(s[i]) /\ (i # 1 => s[i].op = Turns(s[i - 1]))
      BY <1>1, <1>2, <1>6, <2>1 DEF AllKnown
    <3>2. i # 1 => i - 1 \in 1..n
      BY <1>1, <2>1
    <3>. QED  BY <1>2, <2>1, <3>1, <3>2
  <2>2. CASE i = n + 1
    <3>1. i # 1 => s # <<>> /\ i - 1 = n /\ n \in 1..n
      BY <1>1, <2>2
    <3>2. i # 1 => t[i - 1] = Last(s)
      BY <1>2, <2>2, <3>1 DEF Last
    <3>. QED  BY <1>2, <2>2, <3>1, <3>2
  <2>. QED  BY <1>3, <2>1, <2>2
<1>7. AllKnown(t)
  BY <1>2, <1>6 DEF AllKnown
<1>. QED  BY <1>5, <1>7 DEF t

\* What is known depends on the children and the call-outs only.

LEMMA SameKnown ==
  ASSUME TypeOK, TypeOK', UNCHANGED <<kids, faulty>>, NEW f
  PROVE  Known(f)' <=> Known(f)
<1>1. undoKids' = undoKids /\ redoKids' = redoKids /\ faulty' = faulty
  BY DEF kids
<1>2. \A op, y : Doomed(op, y)' <=> Doomed(op, y)
  <2>1. \A x \in Item : KidsOf(x)' = KidsOf(x)
    BY <1>1 DEF KidsOf
  <2>. QED  BY <1>1, <2>1, DoomedSame
<1>3. \A op, x : (Fails(op, x)' <=> Fails(op, x)) /\ WillNotify(op, x)' = WillNotify(op, x)
  BY <1>1 DEF Fails, WillNotify, OwnResults, Outcomes, Called
<1>4. Before(f)' = Before(f) /\ After(f)' = After(f)
  BY <1>1 DEF Before, After
<1>5. \A op, s : Spared(op, s)' <=> Spared(op, s)
  BY <1>2 DEF Spared
<1>. QED
  BY <1>1, <1>2, <1>3, <1>4, <1>5
  DEF Known, KidsKnown, RecoverKnown, SelfKnown, RollbackKnown, ReturnKnown

-----------------------------------------------------------------------------
(* Done and undone.                                                        *)

\* No item is both.
NeverBoth == Typed /\ ItemOwnedOnce => \A y : ~(IsDone(y) /\ IsUndone(y))

LEMMA NotBoth == NeverBoth
<1>. SUFFICES ASSUME Typed, ItemOwnedOnce, NEW y, IsDone(y), IsUndone(y)
              PROVE  FALSE
  BY DEF NeverBoth
<1>1. HeldByLists /\ DOMAIN HeldBy = Holder
  BY HeldByOp DEF HeldByLists
<1>. DEFINE DoneHolders == {<<"open">>, <<"undo">>} \cup {<<"undo", z>> : z \in Item}
            UndoneHolders == {<<"redo">>} \cup {<<"redo", z>> : z \in Item}
<1>2. \E h \in DoneHolders : y \in ToSet(HeldBy[h])
  <2>1. CASE y \in ToSet(doStack)
    BY <1>1, <2>1 DEF HeldByLists
  <2>2. CASE y \in ToSet(undoStack)
    BY <1>1, <2>2 DEF HeldByLists
  <2>3. CASE \E z \in Item : y \in ToSet(undoKids[z])
    <3>1. PICK z \in Item : y \in ToSet(undoKids[z])
      BY <2>3
    <3>2. HeldBy[<<"undo", z>>] = undoKids[z]
      BY <1>1 DEF HeldByLists
    <3>. QED  BY <3>1, <3>2
  <2>. QED  BY <2>1, <2>2, <2>3 DEF IsDone
<1>3. \E h \in UndoneHolders : y \in ToSet(HeldBy[h])
  <2>1. CASE y \in ToSet(redoStack)
    BY <1>1, <2>1 DEF HeldByLists
  <2>2. CASE \E z \in Item : y \in ToSet(redoKids[z])
    <3>1. PICK z \in Item : y \in ToSet(redoKids[z])
      BY <2>2
    <3>2. HeldBy[<<"redo", z>>] = redoKids[z]
      BY <1>1 DEF HeldByLists
    <3>. QED  BY <3>1, <3>2
  <2>. QED  BY <2>1, <2>2 DEF IsUndone
<1>4. DoneHolders \subseteq Holder /\ UndoneHolders \subseteq Holder
  BY HolderOp
<1>5. \A h \in DoneHolders, k \in UndoneHolders : h # k
  <2>1. /\ <<"open">> # <<"redo">> /\ <<"undo">> # <<"redo">>
        /\ \A x : /\ <<"undo", x>> # <<"redo">> /\ <<"redo", x>> # <<"open">>
                  /\ <<"redo", x>> # <<"undo">>
        /\ \A x, z : <<"undo", x>> # <<"redo", z>>
    BY HolderDistinct
  <2>. QED  BY <2>1, Zenon
<1>. HIDE DEF DoneHolders, UndoneHolders
<1>6. PICK h \in DoneHolders, k \in UndoneHolders : y \in ToSet(HeldBy[h]) /\ y \in ToSet(HeldBy[k])
  BY <1>2, <1>3
<1>7. PICK i \in DOMAIN HeldBy[h], j \in DOMAIN HeldBy[k] : HeldBy[h][i] = y /\ HeldBy[k][j] = y
  BY <1>6 DEF ToSet
<1>8. h = k
  BY <1>1, <1>4, <1>7 DEF ItemOwnedOnce, OwnedOnce
<1>. QED  BY <1>5, <1>8

\* Items made, added to their parents, put on the undo stack and let go.
LEMMA StaysWhole ==
  ASSUME \A y \in Item : IsWhole(y), NeverBoth, Typed, ItemOwnedOnce,
         redoKids' = redoKids, ToSet(redoStack') \subseteq ToSet(redoStack),
         \A y \in Item : IsDone(y)' => IsDone(y) \/ redoKids[y] = <<>>,
         \A y \in Item : undoKids'[y] = undoKids[y] \/ IsDone(y)
  PROVE  \A y \in Item : IsWhole(y)'
<1>. SUFFICES ASSUME NEW y \in Item
              PROVE  IsWhole(y)'
  OBVIOUS
<1>1. IsUndone(y)' => IsUndone(y)
  BY DEF IsUndone
<1>2. IsUndone(y) => undoKids'[y] = <<>>
  BY DEF IsWhole, NeverBoth
<1>3. IsDone(y)' => redoKids'[y] = <<>>
  BY DEF IsWhole
<1>. QED  BY <1>1, <1>2, <1>3 DEF IsWhole

-----------------------------------------------------------------------------
(* Steps of the manager's callers, and the ends of transactions.           *)

\* EndTransaction() leaves done what was done.
LEMMA EndTransactionDone ==
  ASSUME TypeOK, doStack # <<>>, NEW result, EndTransaction(result)
  PROVE  /\ ToSet(redoStack') \subseteq ToSet(redoStack)
         /\ \A y \in Item : IsDone(y)' => IsDone(y)
         /\ \A y \in Item : undoKids'[y] = undoKids[y] \/ IsDone(y)
<1>. DEFINE x == Peek(doStack)  rest == Pop(doStack)
<1>1. /\ doStack \in Seq(Item) /\ undoStack \in Seq(Item) /\ redoStack \in Seq(Item)
      /\ undoKids \in [Item -> Seq(Item)]
      /\ x \in ToSet(doStack) /\ ToSet(rest) \subseteq ToSet(doStack)
      /\ x \in Item /\ rest \in Seq(Item) /\ doStack' = rest
  BY ToSetOp, PopOp DEF TypeOK, EndTransaction
<1>. HIDE DEF x, rest
<1>2. ToSet(<<>>) \subseteq ToSet(redoStack)
  BY EmptyToSet
<1>3. ASSUME undoKids' = undoKids, ToSet(redoStack') \subseteq ToSet(redoStack),
             ToSet(undoStack') \subseteq ToSet(undoStack) \cup {x}
      PROVE  /\ \A y \in Item : IsDone(y)' => IsDone(y)
             /\ \A y \in Item : undoKids'[y] = undoKids[y] \/ IsDone(y)
  BY <1>1, <1>3 DEF IsDone
<1>4. CASE Release(x)
  <2>1. undoKids' = undoKids /\ undoStack' = undoStack /\ redoStack' = redoStack
    BY <1>4 DEF Release
  <2>. QED  BY <1>3, <2>1
<1>5. CASE AddChild(x, rest)
  <2>1. /\ rest # <<>> /\ undoStack' = undoStack /\ redoStack' = redoStack
        /\ undoKids' = [undoKids EXCEPT ![Peek(rest)] = Push(@, x)]
    BY <1>5 DEF AddChild
  <2>2. PICK p \in Item : p = Peek(rest) /\ p \in ToSet(rest)
    BY <1>1, <2>1, PopOp, ToSetOp
  <2>3. /\ \A y \in Item : y # p => undoKids'[y] = undoKids[y]
        /\ undoKids'[p] = Push(undoKids[p], x)
    BY <1>1, <2>1, <2>2
  <2>4. ToSet(undoKids'[p]) = ToSet(undoKids[p]) \cup {x}
    BY <1>1, <2>3, ToSetOp
  <2>5. \A y \in Item : ToSet(undoKids'[y]) \subseteq ToSet(undoKids[y]) \cup {x}
    BY <2>3, <2>4
  <2>6. \A y \in Item : IsDone(y)' => IsDone(y)
    BY <1>1, <2>1, <2>5 DEF IsDone
  <2>7. IsDone(p)
    BY <1>1, <2>2 DEF IsDone
  <2>. QED  BY <2>1, <2>3, <2>6, <2>7
<1>6. CASE Record(x, result)
  <2>1. redoStack' = <<>> /\ undoKids' = undoKids
    BY <1>6 DEF Record
  <2>2. ASSUME PushUndo(x)
        PROVE  ToSet(undoStack') \subseteq ToSet(undoStack) \cup {x}
    <3>. DEFINE kept == IF AtMax /\ undoStack # <<>> THEN Tail(undoStack) ELSE undoStack
    <3>1. undoStack' = Push(kept, x) /\ kept \in Seq(Item)
      BY <1>1, <2>2, PartOp DEF PushUndo
    <3>2. Part(kept, undoStack)
      BY <1>1, PartOp
    <3>. HIDE DEF kept
    <3>3. ToSet(kept) \subseteq ToSet(undoStack)
      BY <3>2, PartToSet
    <3>4. ToSet(undoStack') = ToSet(kept) \cup {x}
      BY <1>1, <3>1, ToSetOp
    <3>. QED  BY <3>3, <3>4
  <2>3. undoStack' = undoStack \/ PushUndo(x)
    BY <1>6 DEF Record
  <2>4. ToSet(undoStack') \subseteq ToSet(undoStack) \cup {x}
    BY <2>2, <2>3
  <2>. QED  BY <1>2, <1>3, <2>1, <2>4
<1>. QED  BY <1>4, <1>5, <1>6 DEF EndTransaction, x, rest

\* What is on top of a stack is done, or undone.
LEMMA OnTop ==
  ASSUME TypeOK
  PROVE  /\ undoStack # <<>> => Peek(undoStack) \in Item /\ IsDone(Peek(undoStack))
         /\ redoStack # <<>> => Peek(redoStack) \in Item /\ IsUndone(Peek(redoStack))
         /\ \A z \in Item :
              /\ undoKids[z] # <<>> => Peek(undoKids[z]) \in Item /\ IsDone(Peek(undoKids[z]))
              /\ redoKids[z] # <<>> => Peek(redoKids[z]) \in Item /\ IsUndone(Peek(redoKids[z]))
<1>1. \A s \in Seq(Item) : s # <<>> => Peek(s) \in Item /\ Peek(s) \in ToSet(s)
  BY PopOp, ToSetOp
<1>2. /\ undoStack \in Seq(Item) /\ redoStack \in Seq(Item)
      /\ \A z \in Item : undoKids[z] \in Seq(Item) /\ redoKids[z] \in Seq(Item)
  BY DEF TypeOK
<1>. QED  BY <1>1, <1>2 DEF IsDone, IsUndone

\* Where nothing is undone or redone, all items are done or undone as wholes.
AllWhole == \A y \in Item : IsWhole(y)

LEMMA ExecutingStep ==
  ASSUME SafeInv, HistoryInv, AllWhole,
         \/ Client /\ ~UndoTransaction /\ ~RedoTransaction
         \/ DoFails \/ DoSucceeds
  PROVE  AllWhole'
<1>1. /\ Typed /\ TypeOK /\ ItemOwnedOnce /\ NeverBoth /\ FreshEmpty
      /\ doStack \in Seq(Item) /\ undoStack \in Seq(Item) /\ redoStack \in Seq(Item)
  BY NotBoth DEF SafeInv, HistoryInv, Typed, TypeOK, Owned
<1>2. ASSUME redoKids' = redoKids, ToSet(redoStack') \subseteq ToSet(redoStack),
             \A y \in Item : IsDone(y)' => IsDone(y) \/ redoKids[y] = <<>>,
             \A y \in Item : undoKids'[y] = undoKids[y] \/ IsDone(y)
      PROVE  AllWhole'
  <2>1. \A y \in Item : IsWhole(y)'
    BY <1>1, <1>2, StaysWhole DEF AllWhole
  <2>. QED  BY <2>1 DEF AllWhole
<1>3. ASSUME UNCHANGED kids, ToSet(redoStack') \subseteq ToSet(redoStack),
             ToSet(undoStack') \subseteq ToSet(undoStack), ToSet(doStack') \subseteq ToSet(doStack)
      PROVE  AllWhole'
  <2>1. undoKids' = undoKids /\ redoKids' = redoKids
    BY <1>3 DEF kids
  <2>2. \A y \in Item : IsDone(y)' => IsDone(y)
    BY <1>3, <2>1 DEF IsDone
  <2>. QED  BY <1>2, <1>3, <2>1, <2>2
<1>4. ASSUME NEW x \in Item, x \notin used, doStack' = Push(doStack, x),
             UNCHANGED <<undoStack, redoStack, kids>>
      PROVE  AllWhole'
  <2>1. undoKids' = undoKids /\ redoKids' = redoKids /\ redoKids[x] = <<>>
    BY <1>1, <1>4 DEF kids, FreshEmpty
  <2>2. ToSet(doStack') = ToSet(doStack) \cup {x}
    BY <1>1, <1>4, ToSetOp
  <2>3. \A y \in Item : IsDone(y)' => IsDone(y) \/ y = x
    BY <1>4, <2>1, <2>2 DEF IsDone
  <2>. QED  BY <1>2, <1>4, <2>1, <2>3
<1>5. ASSUME doStack # <<>>, NEW result, EndTransaction(result), redoKids' = redoKids
      PROVE  AllWhole'
  BY <1>1, <1>2, <1>5, EndTransactionDone
<1>6. ASSUME NEW t \in Transaction, DoTransaction(t)
      PROVE  AllWhole'
  BY <1>4, <1>6 DEF DoTransaction, Item
<1>7. ASSUME NEW t \in Transaction, RefuseTransaction(t)
      PROVE  AllWhole'
  BY <1>3, <1>7 DEF RefuseTransaction, stacks
<1>8. ASSUME NEW b \in Batch, BeginBatch(b)
      PROVE  AllWhole'
  BY <1>4, <1>8 DEF BeginBatch, Item
<1>9. CASE EndBatch
  BY <1>5, <1>9 DEF EndBatch, BatchOnTop
<1>10. CASE Clear
  <2>1. undoStack' = <<>> /\ redoStack' = <<>> /\ doStack' = doStack /\ UNCHANGED kids
    BY <1>10 DEF Clear
  <2>. QED  BY <1>3, <2>1, EmptyToSet
<1>11. ASSUME NEW m \in MaxCounts, SetMaxTransactionCount(m)
       PROVE  AllWhole'
  <2>1. KeptUndos(m) \in 0..Len(undoStack) /\ KeptRedos(m) \in 0..Len(redoStack)
    BY <1>1, CountAssumption DEF KeptUndos, KeptRedos
  <2>2. /\ Part(undoStack', undoStack) /\ Part(redoStack', redoStack)
        /\ doStack' = doStack /\ UNCHANGED kids
    BY <1>1, <1>11, <2>1, PartOp DEF SetMaxTransactionCount
  <2>. QED  BY <1>3, <2>2, PartToSet
<1>12. CASE DoFails
  <2>1. doStack # <<>> /\ doStack' = Pop(doStack) /\ UNCHANGED <<undoStack, redoStack, kids>>
    BY <1>12 DEF DoFails, DoCompletes
  <2>2. ToSet(doStack') \subseteq ToSet(doStack)
    BY <1>1, <2>1, ToSetOp
  <2>. QED  BY <1>3, <2>1, <2>2
<1>13. CASE DoSucceeds
  BY <1>5, <1>13 DEF DoSucceeds, DoCompletes
<1>. QED
  BY <1>6, <1>7, <1>8, <1>9, <1>10, <1>11, <1>12, <1>13 DEF Client

-----------------------------------------------------------------------------
(* Steps of an undo or a redo.                                             *)

\* What is known before a step of an undo or a redo: activations are all of these,
\* and each does what the one before it waits for.
Working ==
  /\ Typed /\ ItemOwnedOnce /\ LoopInv /\ Steady /\ TreeInv
  /\ \A i \in DOMAIN calls : calls[i].op # "do"

LEMMA TopKnown ==
  ASSUME Working, calls # <<>>
  PROVE  /\ Top \in Frame /\ Top.op \in {"undo", "redo"} /\ Top.item \in Item /\ Known(Top)
         /\ FrameOK(Top) /\ Len(calls) \in DOMAIN calls /\ Top = calls[Len(calls)]
<1>1. calls \in Seq(Frame) /\ ActivationOK(calls)
  BY DEF Working, Typed, TypeOK, ActivationsOK
<1>2. Len(calls) \in DOMAIN calls /\ Top = calls[Len(calls)]
  BY <1>1, EmptySeq DEF Top, Last
<1>3. Top \in Frame /\ FrameOK(Top)
  BY <1>1, LeaveOp DEF Top
<1>. QED  BY <1>2, <1>3 DEF Working, TreeInv, AllKnown, Frame, Method

\* The innermost activation changes phase.
LEMMA PhaseStep ==
  ASSUME Working, TypeOK', calls # <<>>, NEW f \in Frame, calls' = Append(Front(calls), f),
         f.op = Top.op, f.item = Top.item, Known(f), UNCHANGED <<stacks, kids, faulty>>
  PROVE  TreeInv'
<1>1. TypeOK /\ calls \in Seq(Frame) /\ AllKnown(calls) /\ Top.op # "do" /\ RestWhole(calls)
  BY TopKnown DEF Working, Typed, TypeOK, TreeInv
<1>2. PICK t : t = Append(Front(calls), f)
  OBVIOUS
<1>3. AllKnown(t) /\ \A y : Busy(t, y) <=> Busy(calls, y)
  BY <1>1, <1>2, AllKnownReplace DEF Top
<1>4. \A g : Known(g)' <=> Known(g)
  BY <1>1, SameKnown
<1>5. AllKnown(calls)'
  BY <1>2, <1>3, <1>4 DEF AllKnown, Turns, UndoesKids
<1>6. \A y : IsWhole(y)' <=> IsWhole(y)
  BY DEF IsWhole, IsDone, IsUndone, stacks, kids
<1>7. \A y : Busy(calls, y)' <=> Busy(calls, y)
  BY <1>2, <1>3 DEF Busy
<1>8. RestWhole(calls)'
  BY <1>1, <1>6, <1>7 DEF RestWhole
<1>. QED  BY <1>5, <1>8 DEF TreeInv

\* One more activation is made.
LEMMA CallStep ==
  ASSUME Working, TypeOK', NEW f \in Frame, calls' = Append(calls, f), f.op # "do", Known(f),
         calls # <<>> => f.op = Turns(Top), UNCHANGED <<stacks, kids, faulty>>
  PROVE  TreeInv'
<1>1. TypeOK /\ calls \in Seq(Frame) /\ AllKnown(calls) /\ RestWhole(calls)
  BY DEF Working, Typed, TypeOK, TreeInv
<1>2. PICK t : t = Append(calls, f)
  OBVIOUS
<1>3. AllKnown(t) /\ \A y : Busy(calls, y) => Busy(t, y)
  BY <1>1, <1>2, AllKnownPush DEF Top
<1>4. \A g : Known(g)' <=> Known(g)
  BY <1>1, SameKnown
<1>5. AllKnown(calls)'
  BY <1>2, <1>3, <1>4 DEF AllKnown, Turns, UndoesKids
<1>6. \A y : IsWhole(y)' <=> IsWhole(y)
  BY DEF IsWhole, IsDone, IsUndone, stacks, kids
<1>7. \A y : Busy(calls, y) => Busy(calls, y)'
  BY <1>2, <1>3 DEF Busy
<1>8. RestWhole(calls)'
  BY <1>1, <1>6, <1>7 DEF RestWhole
<1>. QED  BY <1>5, <1>8 DEF TreeInv

LEMMA UndoRedoBegins ==
  ASSUME Working, TypeOK', calls = <<>>, UndoTransaction \/ RedoTransaction
  PROVE  TreeInv'
<1>1. TypeOK /\ undoKids \in [Item -> Seq(Item)] /\ redoKids \in [Item -> Seq(Item)]
  BY DEF Working, Typed, TypeOK
<1>2. \A y \in Item : IsWhole(y)
  BY DEF Working, TreeInv, RestWhole, Busy
<1>3. UNCHANGED <<stacks, kids, faulty>>
  BY DEF UndoTransaction, RedoTransaction
<1>4. CASE UndoTransaction
  <2>1. /\ undoStack # <<>> /\ calls' = Append(calls, UndoFrame(Peek(undoStack)))
        /\ "ok" \in WillNotify("Undo", Peek(undoStack))
    BY <1>4 DEF UndoTransaction
  <2>2. PICK x \in Item : x = Peek(undoStack) /\ IsDone(x)
    BY <1>1, <2>1, OnTop
  <2>3. Known(UndoFrame(x)) /\ UndoFrame(x) \in Frame /\ UndoFrame(x).op = "undo"
    BY <1>1, <1>2, <2>1, <2>2, MadeKnown, FrameTypes, FramesCount DEF IsWhole
  <2>. QED  BY <1>3, <2>1, <2>2, <2>3, CallStep
<1>5. CASE RedoTransaction
  <2>1. /\ redoStack # <<>> /\ calls' = Append(calls, RedoFrame(Peek(redoStack)))
        /\ "ok" \in WillNotify("Redo", Peek(redoStack))
    BY <1>5 DEF RedoTransaction
  <2>2. PICK x \in Item : x = Peek(redoStack) /\ IsUndone(x)
    BY <1>1, <2>1, OnTop
  <2>3. Known(RedoFrame(x)) /\ RedoFrame(x) \in Frame /\ RedoFrame(x).op = "redo"
    BY <1>1, <1>2, <2>1, <2>2, MadeKnown, FrameTypes, FramesCount DEF IsWhole
  <2>. QED  BY <1>3, <2>1, <2>2, <2>3, CallStep
<1>. QED  BY <1>4, <1>5

LEMMA NextChildStep ==
  ASSUME Working, SafeInv, TypeOK', NextChild
  PROVE  TreeInv'
<1>1. /\ TypeOK /\ undoKids \in [Item -> Seq(Item)] /\ redoKids \in [Item -> Seq(Item)]
      /\ calls # <<>> /\ Looping(Top) /\ Source(Top) # <<>>
      /\ UNCHANGED <<stacks, kids, faulty>> /\ RestWhole(calls) /\ LoopInv /\ Steady
  BY DEF Working, Typed, TypeOK, NextChild, Looping, TreeInv
<1>2. Top \in Frame /\ Top.op \in {"undo", "redo"} /\ Top.item \in Item /\ Known(Top) /\ Top.op # "do"
  BY <1>1, TopKnown
<1>3. PICK x : x = Peek(Source(Top))
  OBVIOUS
<1>4. /\ x \in Item
      /\ UndoesKids(Top) => IsDone(x)
      /\ ~UndoesKids(Top) => IsUndone(x)
  BY <1>1, <1>2, <1>3, OnTop DEF Source
<1>5. IsWhole(x)
  <2>1. \A i \in DOMAIN calls : calls[i].item # x
    BY <1>1, <1>3, ChildApart DEF Working
  <2>. QED  BY <1>1, <1>4, <2>1 DEF RestWhole, Busy
<1>6. PICK will : will = WillNotify(Called(Turns(Top)), x)
  OBVIOUS
<1>7. will \in {{"ok"}, {"fail"}}
  BY <1>1, <1>4, <1>6 DEF Steady, Called, Turns
<1>8. \/ /\ "ok" \in will
         /\ calls' = Append(calls, IF UndoesKids(Top) THEN UndoFrame(x) ELSE RedoFrame(x))
      \/ "fail" \in will /\ calls' = Replace([Top EXCEPT !.left = 0, !.res = "fail"])
  <2>1. will = WillNotify(IF UndoesKids(Top) THEN "Undo" ELSE "Redo", x)
    BY <1>6 DEF Called, Turns
  <2>2. "veto" \notin will
    BY <1>7
  <2>. QED  BY <1>3, <2>1, <2>2 DEF NextChild
<1>9. CASE "ok" \in will /\ calls' = Append(calls, IF UndoesKids(Top) THEN UndoFrame(x) ELSE RedoFrame(x))
  <2>1. /\ UndoFrame(x) \in Frame /\ UndoFrame(x).op = "undo"
        /\ RedoFrame(x) \in Frame /\ RedoFrame(x).op = "redo"
    BY <1>1, <1>4, FrameTypes, FramesCount
  <2>2. CASE UndoesKids(Top)
    <3>1. Known(UndoFrame(x)) /\ Turns(Top) = "undo"
      BY <1>1, <1>4, <1>5, <1>6, <1>9, <2>2, MadeKnown DEF IsWhole, Turns, Called
    <3>. QED  BY <1>1, <1>9, <2>1, <2>2, <3>1, CallStep
  <2>3. CASE ~UndoesKids(Top)
    <3>1. Known(RedoFrame(x)) /\ Turns(Top) = "redo"
      BY <1>1, <1>4, <1>5, <1>6, <1>9, <2>3, MadeKnown DEF IsWhole, Turns, Called
    <3>. QED  BY <1>1, <1>9, <2>1, <2>3, <3>1, CallStep
  <2>. QED  BY <2>2, <2>3
<1>10. CASE "fail" \in will /\ calls' = Replace([Top EXCEPT !.left = 0, !.res = "fail"])
  <2>1. PICK f : f = [Top EXCEPT !.left = 0, !.res = "fail"]
    OBVIOUS
  <2>2. f \in Frame /\ f.op = Top.op /\ f.item = Top.item
    BY <1>2, <2>1 DEF Frame, Result
  <2>3. "ok" \notin will
    BY <1>7, <1>10
  <2>4. Known(f)
    <3>1. PICK g \in Frame : g = Top
      BY <1>2
    <3>2. Known([g EXCEPT !.left = 0, !.res = "fail"])
      BY <1>1, <1>2, <1>3, <1>6, <2>3, <3>1, RefusedKnown
    <3>. QED  BY <2>1, <3>1, <3>2
  <2>. QED  BY <1>1, <1>10, <2>1, <2>2, <2>4, PhaseStep DEF Replace
<1>. QED  BY <1>8, <1>9, <1>10

LEMMA PhasesStep ==
  ASSUME Working, TypeOK', ChildrenDone \/ RecoveryDone \/ TransactionReturns
  PROVE  TreeInv'
<1>1. /\ TypeOK /\ undoKids \in [Item -> Seq(Item)] /\ redoKids \in [Item -> Seq(Item)]
      /\ calls # <<>> /\ UNCHANGED <<stacks, kids, faulty>> /\ Steady
  BY DEF Working, Typed, TypeOK, ChildrenDone, RecoveryDone, TransactionReturns, Running
<1>2. Top \in Frame /\ Top.op \in {"undo", "redo"} /\ Top.item \in Item /\ Known(Top) /\ FrameOK(Top)
      /\ Top.op # "do"
  BY <1>1, TopKnown
<1>3. PICK f \in Frame : f = Top
  BY <1>2
<1>4. ASSUME NEW g \in Frame, g.op = f.op, g.item = f.item, Known(g), calls' = Replace(g)
      PROVE  TreeInv'
  BY <1>1, <1>3, <1>4, PhaseStep DEF Replace
<1>5. /\ AfterChildren(f) \in Frame /\ AfterChildren(f).op = f.op /\ AfterChildren(f).item = f.item
      /\ Failed(f) \in Frame /\ Failed(f).op = f.op /\ Failed(f).item = f.item
      /\ \A r \in Result : /\ AfterOwn(f, r) \in Frame /\ AfterOwn(f, r).op = f.op
                          /\ AfterOwn(f, r).item = f.item
  BY <1>1, <1>2, <1>3, NextFrameTypes, NextFramesCount
<1>6. CASE ChildrenDone
  <2>1. f.phase = "kids" /\ f.left = 0 /\ calls' = Replace(AfterChildren(f))
    BY <1>3, <1>6 DEF ChildrenDone
  <2>2. Known(AfterChildren(f))
    BY <1>1, <1>2, <1>3, <2>1, AfterChildrenKnown
  <2>. QED  BY <1>4, <1>5, <2>1, <2>2
<1>7. CASE RecoveryDone
  <2>1. f.phase = "recover" /\ f.left = 0
    BY <1>3, <1>7 DEF RecoveryDone
  <2>2. \/ calls' = Replace(Failed(f))
        \/ f.op = "redo" /\ calls' = Replace([f EXCEPT !.phase = "rollback"])
    BY <1>3, <1>7 DEF RecoveryDone, TakesBack
  <2>3. Known(Failed(f)) /\ (f.op = "redo" => Known([f EXCEPT !.phase = "rollback"]))
    BY <1>1, <1>2, <1>3, <2>1, RecoveryKnown
  <2>4. PICK g : g = [f EXCEPT !.phase = "rollback"]
    OBVIOUS
  <2>5. g \in Frame /\ g.op = f.op /\ g.item = f.item
    BY <2>4 DEF Frame, Phase
  <2>. QED  BY <1>4, <1>5, <2>2, <2>3, <2>4, <2>5
<1>8. CASE TransactionReturns
  <2>1. f.phase \in {"self", "rollback"} /\ f.item \in Transaction
    BY <1>2, <1>3, <1>8 DEF TransactionReturns, Running, FrameOK
  <2>2. PICK r \in OwnResults(IF RunningOp = "undo" THEN "Undo" ELSE "Redo", f.item) :
          calls' = Replace(AfterOwn(f, r))
    BY <1>3, <1>8 DEF TransactionReturns
  <2>3. (RunningOp = "undo") = (f.phase = "rollback" \/ f.op = "undo")
    BY <1>2, <1>3 DEF RunningOp
  <2>4. r \in OwnResults(IF f.phase = "rollback" \/ f.op = "undo" THEN "Undo" ELSE "Redo", f.item)
    BY <2>2, <2>3
  <2>5. Known(AfterOwn(f, r))
    BY <1>1, <1>2, <1>3, <2>1, <2>4, AfterOwnKnown
  <2>6. r \in Result
    BY <2>2, OutcomesType
  <2>. QED  BY <1>4, <1>5, <2>2, <2>5, <2>6
<1>. QED  BY <1>6, <1>7, <1>8

\* The innermost activation and the one that waits for it.
LEMMA LastTwo ==
  ASSUME NEW k \in Seq(Frame), Len(k) > 1, Path(k), Apart(k), AllKnown(k),
         \A i \in DOMAIN k : k[i].op # "do",
         NEW s, s = Front(k), NEW c, c = Last(s), NEW t, t = Last(k)
  PROVE  /\ s \in Seq(Frame) /\ s # <<>> /\ c \in Frame /\ t \in Frame
         /\ AllKnown(s) /\ Known(c) /\ Known(t) /\ t.op = Turns(c) /\ Runs(c, t)
         /\ c.op # "do" /\ t.op # "do"
         /\ \A i \in DOMAIN s : s[i].op # "do" /\ s[i].item # t.item /\ s[i] \in Frame
         /\ \A i \in 1..(Len(s) - 1) : s[i].item # c.item
         /\ \A z : Busy(k, z) <=> Busy(s, z) \/ z = t.item
<1>. DEFINE n == Len(k)
<1>1. /\ n \in Nat /\ n > 1 /\ k # <<>> /\ DOMAIN k = 1..n
  BY EmptySeq
<1>2. /\ s \in Seq(Frame) /\ Len(s) = n - 1 /\ \A i \in 1..(n - 1) : s[i] = k[i]
  BY <1>1, FrontOp
<1>3. DOMAIN s = 1..(n - 1) /\ s # <<>> /\ c = s[n - 1] /\ t = k[n]
  BY <1>1, <1>2, EmptySeq DEF Last
<1>. HIDE DEF n
<1>4. /\ n - 1 \in 1..(n - 1) /\ n - 1 \in 1..n /\ n \in 1..n /\ n # 1 /\ 1..(n - 1) \subseteq 1..n
      /\ \A i \in 1..(n - 1) : i # n
      /\ \A i \in 1..((n - 1) - 1) : i # n - 1 /\ i \in 1..n
      /\ \A i \in 1..n : i = n \/ i \in 1..(n - 1)
      /\ \A i \in 1..(n - 1) : i # 1 => i - 1 \in 1..(n - 1)
  BY <1>1
<1>5. c = k[n - 1] /\ c \in Frame /\ t \in Frame /\ \A i \in 1..(n - 1) : s[i] \in Frame
  BY <1>1, <1>2, <1>3, <1>4
<1>6. Known(c) /\ Known(t) /\ t.op = Turns(c) /\ Runs(c, t) /\ c.op # "do" /\ t.op # "do"
  BY <1>1, <1>3, <1>4, <1>5 DEF AllKnown, Path
<1>7. AllKnown(s)
  <2>. SUFFICES ASSUME NEW i \in 1..(n - 1), s[i].op # "do"
                PROVE  Known(s[i]) /\ (i # 1 => s[i].op = Turns(s[i - 1]))
    BY <1>3 DEF AllKnown
  <2>1. Known(k[i]) /\ (i # 1 => k[i].op = Turns(k[i - 1]))
    BY <1>1, <1>2, <1>4 DEF AllKnown
  <2>. QED  BY <1>2, <1>4, <2>1
<1>8. \A i \in 1..(n - 1) : s[i].op # "do" /\ s[i].item # t.item
  BY <1>1, <1>2, <1>3, <1>4 DEF Apart
<1>9. \A i \in 1..((n - 1) - 1) : s[i].item # c.item
  <2>. SUFFICES ASSUME NEW i \in 1..((n - 1) - 1)
                PROVE  s[i].item # c.item
    OBVIOUS
  <2>1. i \in 1..(n - 1)
    BY <1>1
  <2>. QED  BY <1>1, <1>2, <1>4, <1>5, <2>1 DEF Apart
<1>10. \A z : Busy(k, z) <=> Busy(s, z) \/ z = t.item
  BY <1>1, <1>2, <1>3, <1>4, <1>6 DEF Busy
<1>. QED  BY <1>2, <1>3, <1>5, <1>6, <1>7, <1>8, <1>9, <1>10

\* An activation that returns has left its item undone, redone or as it was.
LEMMA ReturnedWhole ==
  ASSUME NeverBoth, Typed, ItemOwnedOnce, NeverBoth', Typed', ItemOwnedOnce',
         NEW t \in Frame, t.op \in {"undo", "redo"}, ReturnKnown(t),
         undoKids'[t.item] = undoKids[t.item], redoKids'[t.item] = redoKids[t.item],
         t.res = "ok"   => IF t.op = "undo" THEN IsUndone(t.item)' ELSE IsDone(t.item)',
         t.res = "fail" => IF t.op = "undo" THEN IsDone(t.item)' ELSE IsUndone(t.item)'
  PROVE  IsWhole(t.item)'
<1>. PICK y : y = t.item
  OBVIOUS
<1>1. ~(IsDone(y)' /\ IsUndone(y)')
  BY DEF NeverBoth
<1>2. t.res \in {"ok", "fail"}
  BY DEF Frame, Result
<1>3. CASE t.op = "undo"
  <2>1. CASE t.res = "ok"
    <3>1. undoKids'[y] = <<>>
      BY <1>3, <2>1 DEF ReturnKnown, Before
    <3>. QED  BY <1>1, <1>3, <2>1, <3>1 DEF IsWhole
  <2>2. CASE t.res = "fail"
    <3>1. redoKids'[y] = <<>>
      BY <1>3, <2>2 DEF ReturnKnown, After
    <3>. QED  BY <1>1, <1>3, <2>2, <3>1 DEF IsWhole
  <2>. QED  BY <1>2, <2>1, <2>2
<1>4. CASE t.op = "redo"
  <2>1. CASE t.res = "ok"
    <3>1. redoKids'[y] = <<>>
      BY <1>4, <2>1 DEF ReturnKnown, Before
    <3>. QED  BY <1>1, <1>4, <2>1, <3>1 DEF IsWhole
  <2>2. CASE t.res = "fail"
    <3>1. undoKids'[y] = <<>>
      BY <1>4, <2>2 DEF ReturnKnown, After
    <3>. QED  BY <1>1, <1>4, <2>2, <3>1 DEF IsWhole
  <2>. QED  BY <1>2, <2>1, <2>2
<1>. QED  BY <1>3, <1>4

\* A loop goes on after a child, knowing what has become of it.
LEMMA NextRoundKnown ==
  ASSUME TypeOK, TypeOK', Steady, faulty' = faulty, \A x \in Item : KidsOf(x)' = KidsOf(x),
         NEW c \in Frame, c.op # "do", Known(c), Looping(c), c.left > 0, Source(c) # <<>>,
         NEW t \in Frame, t.op = Turns(c), t.item = Peek(Source(c)), ReturnKnown(t),
         Source(c)' = (IF t.res = "ok" THEN Pop(Source(c)) ELSE Source(c)),
         Sink(c)' = (IF t.res = "ok" THEN Push(Sink(c), t.item) ELSE Sink(c))
  PROVE  Known(NextRound(c, t.res))'
<1>. DEFINE g == NextRound(c, t.res)
<1>1. /\ c.op \in {"undo", "redo"} /\ c.item \in Item
      /\ Before(c) \in Seq(Item) /\ After(c) \in Seq(Item)
      /\ KidsOf(c.item) = ToSet(Before(c)) \cup ToSet(After(c))
  BY BothKids
<1>2. t.res \in {"ok", "fail"} /\ c.left \in Nat /\ t.item \in Item
  BY DEF Frame, Result
<1>3. /\ g.op = c.op /\ g.item = c.item /\ g.phase = c.phase /\ g.left = c.left - 1 /\ g.res = t.res
  <2>1. \A f \in Frame, r \in Result : LET e == NextRound(f, r) IN
          e.op = f.op /\ e.item = f.item /\ e.phase = f.phase /\ e.left = f.left - 1 /\ e.res = r
    BY ONLY DEF NextRound, Frame
  <2>. QED  BY <1>2, <2>1 DEF Result
<1>. HIDE DEF g
<1>4. /\ \A op, y : Doomed(op, y)' <=> Doomed(op, y)
      /\ \A op, x : (Fails(op, x)' <=> Fails(op, x)) /\ WillNotify(op, x)' = WillNotify(op, x)
  BY DoomedSame DEF Fails, WillNotify, OwnResults, Outcomes, Called
<1>5. "ok" \in WillNotify(Called(c.op), c.item)'
  BY <1>4 DEF Known
<1>6. (t.res = "ok" => ~Doomed(t.op, t.item)) /\ (t.res = "fail" => Doomed(t.op, t.item))
  BY DEF ReturnKnown
<1>7. /\ Before(g)' = Before(c)' /\ After(g)' = After(c)'
  BY <1>3 DEF Before, After
<1>8. CASE c.phase = "kids"
  <2>1. /\ Turns(c) = c.op /\ Source(c) = Before(c) /\ Sink(c) = After(c)
        /\ Source(c)' = Before(c)' /\ Sink(c)' = After(c)'
    BY <1>1, <1>8 DEF Turns, UndoesKids, Source, Sink, Before, After
  <2>2. KidsKnown(c)
    BY <1>8 DEF Known
  <2>3. c.res = "fail" => t.res = "fail"
    BY <1>2, <1>6, <2>1, <2>2 DEF KidsKnown
  <2>4. c.res = "ok" \/ c.res = "fail"
    BY DEF Frame, Result
  <2>5. CASE t.res = "ok"
    <3>1. Before(g)' = Pop(Before(c)) /\ After(g)' = Push(After(c), t.item)
      BY <1>7, <2>1, <2>5
    <3>2. Len(Pop(Before(c))) = Len(Before(c)) - 1
      BY <1>1, <2>1, PopOp
    <3>3. g.left = Len(Before(g)')
      BY <1>3, <2>2, <2>3, <2>4, <2>5, <3>1, <3>2 DEF KidsKnown
    <3>4. ToSet(After(g)') = ToSet(After(c)) \cup {t.item}
      BY <1>1, <1>2, <3>1, ToSetOp
    <3>5. Spared(c.op, After(g))'
      BY <1>4, <1>6, <2>1, <2>2, <2>5, <3>4 DEF KidsKnown, Spared
    <3>6. c.op = "redo" => ~Fails("redo", c.item)'
      BY <1>4, <2>2 DEF KidsKnown
    <3>7. KidsKnown(g)'
      BY <1>3, <2>5, <3>3, <3>5, <3>6 DEF KidsKnown
    <3>. QED  BY <1>3, <1>5, <1>8, <3>7 DEF Known, g
  <2>6. CASE t.res = "fail"
    <3>1. Before(g)' = Before(c) /\ After(g)' = After(c)
      BY <1>7, <2>1, <2>6
    <3>2. Before(c) # <<>> /\ Doomed(c.op, Peek(Before(c)))
      BY <1>6, <2>1, <2>6
    <3>3. Spared(c.op, After(g))'
      BY <1>4, <2>2, <3>1 DEF KidsKnown, Spared
    <3>4. Doomed(c.op, Peek(Before(g)))'
      BY <1>4, <3>1, <3>2
    <3>5. c.op = "redo" => ~Fails("redo", c.item)'
      BY <1>4, <2>2 DEF KidsKnown
    <3>6. KidsKnown(g)'
      BY <1>3, <2>6, <3>1, <3>2, <3>3, <3>4, <3>5 DEF KidsKnown
    <3>. QED  BY <1>3, <1>5, <1>8, <3>6 DEF Known, g
  <2>. QED  BY <1>2, <2>5, <2>6
<1>9. CASE c.phase = "recover"
  <2>1. /\ Turns(c) = (IF c.op = "undo" THEN "redo" ELSE "undo")
        /\ Source(c) = After(c) /\ Source(c)' = After(c)'
    BY <1>1, <1>9 DEF Turns, UndoesKids, Source, Before, After
  <2>2. RecoverKnown(c)
    BY <1>9 DEF Known
  <2>3. t.res = "ok"
    BY <1>1, <1>2, <1>6, <2>1, <2>2, OneDoomed DEF RecoverKnown
  <2>4. After(g)' = Pop(After(c)) /\ Len(Pop(After(c))) = Len(After(c)) - 1
    BY <1>1, <1>7, <2>1, <2>3, PopOp
  <2>5. g.left = Len(After(g)')
    BY <1>3, <2>2, <2>4 DEF RecoverKnown
  <2>6. RecoverKnown(g)'
    BY <1>3, <1>4, <2>2, <2>3, <2>5 DEF RecoverKnown
  <2>. QED  BY <1>3, <1>5, <1>9, <2>6 DEF Known, g
<1>. QED  BY <1>8, <1>9 DEF Looping

\* A list that loses its top, and one that gains it.
LEMMA MovedSets ==
  ASSUME NEW u \in Seq(Item), u # <<>>, NEW r \in Seq(Item)
  PROVE  /\ ToSet(Pop(u)) \cup ToSet(Push(r, Peek(u))) = ToSet(u) \cup ToSet(r)
         /\ \A y : y # Peek(u) => (y \in ToSet(Push(r, Peek(u))) <=> y \in ToSet(r))
         /\ ToSet(Pop(u)) \subseteq ToSet(u) /\ Peek(u) \in ToSet(Push(r, Peek(u)))
  BY ToSetOp, PopOp

\* A child's activation returns to the loop that made it.
ReturnsTo(s, c, t) ==
  /\ s \in Seq(Frame) /\ s # <<>> /\ c = Last(s) /\ c \in Frame /\ t \in Frame
  /\ AllKnown(s) /\ Known(c) /\ t.op = Turns(c) /\ ReturnKnown(t)
  /\ Looping(c) /\ c.left > 0 /\ Source(c) # <<>> /\ t.item = Peek(Source(c))
  /\ c.op \in {"undo", "redo"} /\ t.op \in {"undo", "redo"} /\ t.res \in {"ok", "fail"}
  /\ c.item \in Item /\ t.item \in Item
  /\ \A i \in DOMAIN s : s[i].op # "do" /\ s[i].item # t.item /\ s[i] \in Frame
  /\ \A i \in 1..(Len(s) - 1) : s[i].item # c.item
  /\ \A z : Busy(calls, z) <=> Busy(s, z) \/ z = t.item

\* It moves the child, or nothing.
LoopMoves(s, c, t) ==
  /\ UNCHANGED <<stacks, faulty>> /\ shown' = Told("undo", t.item, t.res)
  /\ calls' = Append(Front(s), NextRound(c, t.res))
  /\ Source(c)' = (IF t.res = "ok" THEN Pop(Source(c)) ELSE Source(c))
  /\ Sink(c)' = (IF t.res = "ok" THEN Push(Sink(c), t.item) ELSE Sink(c))
  /\ \A y \in Item : y # c.item => undoKids'[y] = undoKids[y] /\ redoKids'[y] = redoKids[y]
  /\ \A x \in Item : KidsOf(x)' = KidsOf(x)
  /\ \A y \in Item : y # t.item => (IsDone(y)' => IsDone(y)) /\ (IsUndone(y)' => IsUndone(y))
  /\ IF t.op = "undo" THEN IsDone(t.item) ELSE IsUndone(t.item)
  /\ IF (t.op = "undo") = (t.res = "ok") THEN IsUndone(t.item)' ELSE IsDone(t.item)'

LEMMA ChildMoves ==
  ASSUME Working, SafeInv', ChildReturns
  PROVE  \E s, c, t : s = Front(calls) /\ c = Caller /\ t = Top /\ ReturnsTo(s, c, t) /\ LoopMoves(s, c, t)
<1>1. /\ TypeOK /\ TypeOK' /\ Typed /\ Typed' /\ ItemOwnedOnce /\ ItemOwnedOnce' /\ Steady
      /\ calls \in Seq(Frame) /\ Len(calls) > 1 /\ calls # <<>>
      /\ Path(calls) /\ Apart(calls) /\ AllKnown(calls) /\ RestWhole(calls)
      /\ \A i \in DOMAIN calls : calls[i].op # "do"
      /\ undoKids \in [Item -> Seq(Item)] /\ redoKids \in [Item -> Seq(Item)]
      /\ UNCHANGED stacks /\ faulty' = faulty /\ Looping(Caller) /\ Top.phase = "return"
      /\ Caller.left > 0
  BY CallerOp DEF Working, SafeInv, Typed, TypeOK, Owned, LoopInv, Chain, TreeInv, ChildReturns, InLoop, Looping
<1>3. PICK s, c, t : s = Front(calls) /\ c = Caller /\ t = Top
  OBVIOUS
<1>4. /\ s \in Seq(Frame) /\ s # <<>> /\ c \in Frame /\ t \in Frame
      /\ AllKnown(s) /\ Known(c) /\ Known(t) /\ t.op = Turns(c) /\ Runs(c, t)
      /\ c.op # "do" /\ t.op # "do"
      /\ \A i \in DOMAIN s : s[i].op # "do" /\ s[i].item # t.item /\ s[i] \in Frame
      /\ \A i \in 1..(Len(s) - 1) : s[i].item # c.item
      /\ \A z : Busy(calls, z) <=> Busy(s, z) \/ z = t.item
  <2>1. PICK k \in Seq(Frame) : k = calls
    BY <1>1
  <2>2. c = Last(s) /\ t = Last(k) /\ s = Front(k)
    BY <1>3, <2>1 DEF Caller, Top
  <2>3. /\ Len(k) > 1 /\ Path(k) /\ Apart(k) /\ AllKnown(k) /\ \A i \in DOMAIN k : k[i].op # "do"
    BY <1>1, <2>1
  <2>4. \A z : Busy(calls, z) <=> Busy(k, z)
    BY <2>1
  <2>. QED  BY <2>1, <2>2, <2>3, <2>4, LastTwo
<1>. DEFINE u == undoKids[c.item]  r == redoKids[c.item]
<1>5. /\ Looping(c) /\ c.left > 0 /\ Source(c) # <<>> /\ t.item = Peek(Source(c))
      /\ c.item \in Item /\ t.item \in Item /\ t.op \in {"undo", "redo"} /\ c.op \in {"undo", "redo"}
      /\ t.res \in {"ok", "fail"} /\ ReturnKnown(t) /\ u \in Seq(Item) /\ r \in Seq(Item)
      /\ c = Last(s)
  BY <1>1, <1>3, <1>4 DEF Runs, Frame, Method, Result, Known, Caller
<1>6. /\ calls' = Append(Front(s), NextRound(c, t.res))
      /\ shown' = Told("undo", t.item, t.res)
      /\ undoKids' = [undoKids EXCEPT ![c.item] =
           IF t.res = "fail" THEN @ ELSE IF UndoesKids(c) THEN Pop(@) ELSE Push(@, t.item)]
      /\ redoKids' = [redoKids EXCEPT ![c.item] =
           IF t.res = "fail" THEN @ ELSE IF UndoesKids(c) THEN Push(@, t.item) ELSE Pop(@)]
  <2>. DEFINE result == IF Top.res = "ok" /\ Source(Caller) # <<>> THEN "ok" ELSE "fail"
  <2>1. result = t.res
    BY <1>3, <1>5
  <2>2. DidNotify("Undo", Top.item) = {"ok"}
    BY <1>1, <1>3, <1>5 DEF Steady
  <2>3. Combine(result, "ok") = t.res
    BY <1>5, <2>1 DEF Combine
  <2>4. /\ \E d \in DidNotify("Undo", Top.item) :
             calls' = Append(Front(Front(calls)), NextRound(Caller, Combine(result, d)))
        /\ shown' = Told("undo", Top.item, result)
        /\ undoKids' = [undoKids EXCEPT ![Caller.item] =
             IF result = "fail" THEN @ ELSE IF UndoesKids(Caller) THEN Pop(@) ELSE Push(@, Peek(Source(Caller)))]
        /\ redoKids' = [redoKids EXCEPT ![Caller.item] =
             IF result = "fail" THEN @ ELSE IF UndoesKids(Caller) THEN Push(@, Peek(Source(Caller))) ELSE Pop(@)]
    BY DEF ChildReturns
  <2>. HIDE DEF result
  <2>. QED  BY <1>3, <1>5, <2>1, <2>2, <2>3, <2>4
<1>7. /\ \A y \in Item : y # c.item => undoKids'[y] = undoKids[y] /\ redoKids'[y] = redoKids[y]
      /\ undoKids'[c.item] = (IF t.res = "fail" THEN u ELSE IF UndoesKids(c) THEN Pop(u) ELSE Push(u, t.item))
      /\ redoKids'[c.item] = (IF t.res = "fail" THEN r ELSE IF UndoesKids(c) THEN Push(r, t.item) ELSE Pop(r))
  BY <1>1, <1>5, <1>6
<1>8. /\ Source(c)' = (IF t.res = "ok" THEN Pop(Source(c)) ELSE Source(c))
      /\ Sink(c)' = (IF t.res = "ok" THEN Push(Sink(c), t.item) ELSE Sink(c))
  BY <1>5, <1>7 DEF Source, Sink, UndoesKids
<1>9. /\ UndoesKids(c) => u # <<>> /\ t.item = Peek(u)
      /\ ~UndoesKids(c) => r # <<>> /\ t.item = Peek(r)
  BY <1>5 DEF Source
<1>. HIDE DEF u, r
<1>10. /\ ToSet(undoKids'[c.item]) \cup ToSet(redoKids'[c.item]) = ToSet(u) \cup ToSet(r)
       /\ \A y : y # t.item => /\ (y \in ToSet(undoKids'[c.item]) => y \in ToSet(u))
                              /\ (y \in ToSet(redoKids'[c.item]) => y \in ToSet(r))
       /\ t.res = "ok" => t.item \in (IF UndoesKids(c) THEN ToSet(redoKids'[c.item]) ELSE ToSet(undoKids'[c.item]))
       /\ t.res = "fail" => t.item \in (IF UndoesKids(c) THEN ToSet(undoKids'[c.item]) ELSE ToSet(redoKids'[c.item]))
  <2>1. CASE t.res = "fail"
    BY <1>5, <1>7, <1>9, <2>1, ToSetOp
  <2>2. CASE t.res = "ok" /\ UndoesKids(c)
    BY <1>5, <1>7, <1>9, <2>2, MovedSets
  <2>3. CASE t.res = "ok" /\ ~UndoesKids(c)
    BY <1>5, <1>7, <1>9, <2>3, MovedSets
  <2>. QED  BY <1>5, <2>1, <2>2, <2>3
<1>11. \A x \in Item : KidsOf(x)' = KidsOf(x)
  BY <1>7, <1>10 DEF KidsOf, u, r
<1>12. ASSUME NEW y \in Item, y # t.item
       PROVE  (IsDone(y)' => IsDone(y)) /\ (IsUndone(y)' => IsUndone(y))
  <2>. SUFFICES ASSUME NEW z \in Item
                PROVE  /\ (y \in ToSet(undoKids'[z]) => y \in ToSet(undoKids[z]))
                       /\ (y \in ToSet(redoKids'[z]) => y \in ToSet(redoKids[z]))
    BY <1>1 DEF IsDone, IsUndone, stacks
  <2>1. CASE z = c.item
    BY <1>10, <1>12, <2>1 DEF u, r
  <2>2. CASE z # c.item
    BY <1>7, <2>2
  <2>. QED  BY <2>1, <2>2
<1>13. /\ t.item \in ToSet(undoKids'[c.item]) => IsDone(t.item)'
       /\ t.item \in ToSet(redoKids'[c.item]) => IsUndone(t.item)'
  BY <1>5 DEF IsDone, IsUndone
<1>14. /\ UndoesKids(c) => IsDone(t.item)
       /\ ~UndoesKids(c) => IsUndone(t.item)
  BY <1>1, <1>5, <1>9, OnTop DEF u, r
<1>15. UndoesKids(c) <=> t.op = "undo"
  BY <1>4 DEF Turns
<1>16. IF (t.op = "undo") = (t.res = "ok") THEN IsUndone(t.item)' ELSE IsDone(t.item)'
  BY <1>5, <1>10, <1>13, <1>15
<1>17. ReturnsTo(s, c, t)
  BY <1>4, <1>5 DEF ReturnsTo
<1>18. LoopMoves(s, c, t)
  BY <1>1, <1>6, <1>7, <1>8, <1>11, <1>12, <1>14, <1>15, <1>16 DEF LoopMoves
<1>. QED  BY <1>3, <1>17, <1>18

LEMMA ChildReturnsStep ==
  ASSUME Working, SafeInv, SafeInv', ChildReturns
  PROVE  TreeInv'
<1>1. /\ TypeOK /\ TypeOK' /\ Typed /\ Typed' /\ ItemOwnedOnce /\ ItemOwnedOnce' /\ Steady
      /\ RestWhole(calls) /\ faulty' = faulty
  BY DEF Working, SafeInv, Typed, Owned, TreeInv, ChildReturns
<1>2. NeverBoth /\ NeverBoth'
  BY NotBoth, PTL
<1>3. PICK s, c, t : ReturnsTo(s, c, t) /\ LoopMoves(s, c, t)
  BY ChildMoves
<1>4. /\ s \in Seq(Frame) /\ s # <<>> /\ c \in Frame /\ t \in Frame /\ c = Last(s)
      /\ AllKnown(s) /\ Known(c) /\ t.op = Turns(c) /\ ReturnKnown(t)
      /\ Looping(c) /\ c.left > 0 /\ Source(c) # <<>> /\ t.item = Peek(Source(c))
      /\ c.op \in {"undo", "redo"} /\ t.op \in {"undo", "redo"} /\ t.res \in {"ok", "fail"}
      /\ c.item \in Item /\ t.item \in Item
      /\ \A i \in DOMAIN s : s[i].op # "do" /\ s[i].item # t.item /\ s[i] \in Frame
      /\ \A i \in 1..(Len(s) - 1) : s[i].item # c.item
      /\ \A z : Busy(calls, z) <=> Busy(s, z) \/ z = t.item
  BY <1>3 DEF ReturnsTo
<1>5. c.op # "do"
  BY <1>4
<1>6. calls' = Append(Front(s), NextRound(c, t.res))
  BY <1>3 DEF LoopMoves
<1>7. \A y \in Item : y # c.item => undoKids'[y] = undoKids[y] /\ redoKids'[y] = redoKids[y]
  BY <1>3 DEF LoopMoves
<1>8. /\ Source(c)' = (IF t.res = "ok" THEN Pop(Source(c)) ELSE Source(c))
      /\ Sink(c)' = (IF t.res = "ok" THEN Push(Sink(c), t.item) ELSE Sink(c))
  BY <1>3 DEF LoopMoves
<1>9. \A y \in Item : y # t.item => (IsDone(y)' => IsDone(y)) /\ (IsUndone(y)' => IsUndone(y))
  BY <1>3 DEF LoopMoves
<1>10. IF (t.op = "undo") = (t.res = "ok") THEN IsUndone(t.item)' ELSE IsDone(t.item)'
  BY <1>3 DEF LoopMoves
<1>11. \A x \in Item : KidsOf(x)' = KidsOf(x)
  BY <1>3 DEF LoopMoves
<1>12. Known(NextRound(c, t.res))'
  BY <1>1, <1>4, <1>5, <1>8, <1>11, NextRoundKnown
<1>13. ASSUME NEW f \in Frame, f.item # c.item, Known(f)
       PROVE  Known(f)'
  <2>1. Before(f)' = Before(f) /\ After(f)' = After(f) /\ undoKids'[f.item] = undoKids[f.item]
    BY <1>7, <1>13 DEF Before, After, Frame
  <2>2. \A op, y : Doomed(op, y)' <=> Doomed(op, y)
    BY <1>1, <1>11, DoomedSame
  <2>3. \A op, x : (Fails(op, x)' <=> Fails(op, x)) /\ WillNotify(op, x)' = WillNotify(op, x)
    BY <1>1 DEF Fails, WillNotify, OwnResults, Outcomes, Called
  <2>4. \A op, q : Spared(op, q)' <=> Spared(op, q)
    BY <2>2 DEF Spared
  <2>. QED
    BY <1>13, <2>1, <2>2, <2>3, <2>4
    DEF Known, KidsKnown, RecoverKnown, SelfKnown, RollbackKnown, ReturnKnown
<1>14. PICK g : g = NextRound(c, t.res)
  OBVIOUS
<1>15. g.op = c.op /\ g.item = c.item /\ g.phase = c.phase
  <2>1. \A f \in Frame, p \in Result : LET e == NextRound(f, p) IN
          e.op = f.op /\ e.item = f.item /\ e.phase = f.phase
    BY ONLY DEF NextRound, Frame
  <2>. QED  BY <1>4, <1>5, <1>14, <2>1 DEF Result
<1>16. PICK m \in Nat :
         /\ m = Len(s) /\ m # 0 /\ DOMAIN s = 1..m /\ s[m] = c
         /\ DOMAIN calls' = 1..m /\ calls'[m] = g /\ \A i \in 1..(m - 1) : calls'[i] = s[i]
  <2>1. /\ Len(s) \in Nat /\ Len(s) # 0 /\ DOMAIN s = 1..Len(s) /\ s[Len(s)] = c
    BY <1>4, <1>5, EmptySeq DEF Last
  <2>2. /\ Front(s) \in Seq(Frame) /\ Len(Front(s)) = Len(s) - 1
        /\ \A i \in 1..(Len(s) - 1) : Front(s)[i] = s[i]
    BY <1>4, FrontOp
  <2>3. PICK e \in Seq(Frame) : e = Front(s)
    BY <2>2
  <2>4. calls' \in Seq(Frame)
    BY <1>1 DEF TypeOK
  <2>5. calls' = Append(e, g)
    BY <1>6, <1>14, <2>3
  <2>6. /\ DOMAIN calls' = 1..(Len(e) + 1) /\ calls'[Len(e) + 1] = g
        /\ \A i \in 1..Len(e) : calls'[i] = e[i]
    <3>1. Len(e) \in Nat
      BY <2>3
    <3>2. /\ Len(Append(e, g)) = Len(e) + 1 /\ Append(e, g)[Len(e) + 1] = g
          /\ \A i \in 1..Len(e) : Append(e, g)[i] = e[i]
      <4>1. e \in Seq(Frame \cup {g})
        BY <2>3
      <4>. QED  BY <4>1, AppendProperties
    <3>3. DOMAIN calls' = 1..Len(calls')
      BY <2>4
    <3>. QED  BY <2>5, <3>2, <3>3
  <2>7. PICK k \in Nat : k = Len(s)
    BY <2>1
  <2>8. Len(e) = k - 1 /\ Len(e) + 1 = k
    BY <2>2, <2>3, <2>7
  <2>9. DOMAIN calls' = 1..k /\ calls'[k] = g /\ \A i \in 1..(k - 1) : calls'[i] = e[i]
    BY <2>6, <2>8
  <2>10. \A i \in 1..(k - 1) : e[i] = s[i]
    BY <2>2, <2>3, <2>7
  <2>. QED  BY <2>1, <2>7, <2>9, <2>10
<1>17. \A i \in 1..m : i = m \/ i \in 1..(m - 1)
  BY <1>16
<1>18. \A i \in 1..(m - 1) : i \in 1..m /\ i # m
  BY <1>16
<1>19. AllKnown(calls)'
  <2>. SUFFICES ASSUME NEW i \in 1..m
                PROVE  Known(calls[i])' /\ (i # 1 => calls'[i].op = Turns(calls[i - 1])')
    <3>1. DOMAIN calls' = 1..m
      BY <1>16
    <3>. QED  BY <3>1 DEF AllKnown, Turns, UndoesKids
  <2>1. Known(s[i]) /\ (i # 1 => s[i].op = Turns(s[i - 1]))
    BY <1>4, <1>16 DEF AllKnown
  <2>2. i # 1 => i - 1 \in 1..(m - 1)
    BY <1>16
  <2>3. i # 1 => calls'[i - 1] = s[i - 1]
    BY <1>16, <2>2
  <2>4. CASE i = m
    <3>1. calls'[i] = g /\ s[i] = c
      BY <1>16, <2>4
    <3>. QED  BY <1>12, <1>14, <1>15, <2>1, <2>3, <3>1
  <2>5. CASE i \in 1..(m - 1)
    <3>1. calls'[i] = s[i] /\ s[i] \in Frame /\ s[i].item # c.item
      BY <1>4, <1>16, <1>18, <2>5
    <3>. QED  BY <1>13, <2>1, <2>3, <3>1
  <2>. QED  BY <1>17, <2>4, <2>5
<1>20. \A y : Busy(calls, y)' <=> Busy(s, y)
  <2>1. \A i \in 1..m : calls'[i].op = s[i].op /\ calls'[i].item = s[i].item
    BY <1>15, <1>16, <1>17
  <2>. QED  BY <1>16, <2>1 DEF Busy
<1>21. t.item # c.item
  BY <1>4, <1>16
<1>22. IsWhole(t.item)'
  <2>1. undoKids'[t.item] = undoKids[t.item] /\ redoKids'[t.item] = redoKids[t.item]
    BY <1>4, <1>7, <1>21
  <2>. QED  BY <1>1, <1>2, <1>4, <1>10, <2>1, ReturnedWhole
<1>23. ASSUME NEW y \in Item, ~Busy(s, y), y # t.item
       PROVE  IsWhole(y)'
  <2>1. IsWhole(y)
    BY <1>1, <1>4, <1>23 DEF RestWhole
  <2>2. y # c.item
    BY <1>4, <1>16, <1>23 DEF Busy
  <2>. QED  BY <1>7, <1>9, <1>23, <2>1, <2>2 DEF IsWhole
<1>24. RestWhole(calls)'
  BY <1>20, <1>22, <1>23 DEF RestWhole
<1>. QED  BY <1>19, <1>24 DEF TreeInv

\* The manager's own activation returns: the item it ran moves, or stays.
LEMMA RootReturns ==
  ASSUME Working, ManagerReturns
  PROVE  calls # <<>> /\ calls' = <<>> /\ Rooted(Top) /\ \A y : Busy(calls, y) <=> y = Top.item
<1>1. calls \in Seq(Frame) /\ calls # <<>> /\ ~InLoop /\ calls' = Front(calls) /\ Path(calls)
  BY DEF Working, Typed, TypeOK, ManagerReturns, LoopInv, Chain
<1>2. PICK n \in Nat : n = Len(calls) /\ n # 0 /\ DOMAIN calls = 1..n /\ Top = calls[n]
  BY <1>1, EmptySeq DEF Top, Last
<1>3. /\ Front(calls) \in Seq(Frame) /\ Len(Front(calls)) = n - 1
      /\ \A i \in 1..(n - 1) : Front(calls)[i] = calls[i]
  BY <1>1, <1>2, FrontOp
<1>4. n = 1
  <2>. SUFFICES ASSUME n # 1
                PROVE  FALSE
    OBVIOUS
  <2>1. n > 1 /\ n \in 1..n /\ n - 1 \in 1..(n - 1)
    BY <1>2
  <2>2. Runs(calls[n - 1], calls[n])
    BY <1>1, <1>2, <2>1 DEF Path, Working
  <2>3. Caller = calls[n - 1]
    BY <1>3, <2>1 DEF Caller, Last
  <2>. QED  BY <1>1, <1>2, <2>1, <2>2, <2>3 DEF InLoop, Runs, Looping
<1>5. calls' = <<>>
  BY <1>1, <1>3, <1>4, EmptySeq
<1>6. 1 \in DOMAIN calls /\ Top = calls[1] /\ \A i \in DOMAIN calls : i = 1
  BY <1>2, <1>4
<1>7. Rooted(Top) /\ Top.op # "do"
  BY <1>1, <1>6 DEF Path, Working
<1>8. \A y : Busy(calls, y) <=> y = Top.item
  BY <1>6, <1>7 DEF Busy
<1>. QED  BY <1>1, <1>5, <1>7, <1>8

\* What it does to the stacks.
LEMMA RootMoves ==
  ASSUME Working, ManagerReturns
  PROVE  LET y == Top.item IN
         /\ Top.res \in {"ok", "fail"} /\ Top.op \in {"undo", "redo"} /\ y \in Item
         /\ UNCHANGED <<doStack, kids>>
         /\ shown' = Told(Top.op, y, Top.res)
         /\ Top.res = "fail" => undoStack' = undoStack /\ redoStack' = redoStack
         /\ \A x : x # y => /\ (x \in ToSet(undoStack') => x \in ToSet(undoStack))
                           /\ (x \in ToSet(redoStack') => x \in ToSet(redoStack))
         /\ (Top.op = "undo") = (Top.res = "ok") => y \in ToSet(redoStack')
         /\ (Top.op = "undo") # (Top.res = "ok") => y \in ToSet(undoStack')
<1>. PICK t : t = Top
  OBVIOUS
<1>. DEFINE u == undoStack  r == redoStack  y == t.item
<1>1. /\ calls # <<>> /\ Rooted(t) /\ t \in Frame
      /\ undoStack \in Seq(Item) /\ redoStack \in Seq(Item)
  BY RootReturns, TopKnown DEF Working, Typed, TypeOK
<1>2. t.res \in {"ok", "fail"} /\ t.op \in {"undo", "redo"} /\ y \in Item
  BY <1>1, TopKnown DEF Frame, Result
<1>. DEFINE src == IF t.op = "undo" THEN undoStack ELSE redoStack
<1>3. src # <<>> /\ y = Peek(src)
  BY <1>1 DEF Rooted
<1>4. /\ undoStack' = IF t.res = "fail" THEN u
                      ELSE IF t.op = "undo" THEN Pop(u) ELSE Push(u, Peek(r))
      /\ redoStack' = IF t.res = "fail" THEN r
                      ELSE IF t.op = "undo" THEN Push(r, Peek(u)) ELSE Pop(r)
      /\ shown' = Told(t.op, y, t.res) /\ UNCHANGED <<doStack, kids>>
  <2>. DEFINE result == IF t.res = "ok" /\ src # <<>> THEN "ok" ELSE "fail"
  <2>1. result = t.res
    BY <1>2, <1>3
  <2>2. /\ undoStack' = IF result = "fail" THEN u
                        ELSE IF t.op = "undo" THEN Pop(u) ELSE Push(u, Peek(src))
        /\ redoStack' = IF result = "fail" THEN r
                        ELSE IF t.op = "undo" THEN Push(r, Peek(src)) ELSE Pop(r)
        /\ shown' = Told(t.op, y, result) /\ UNCHANGED <<doStack, kids>>
    BY DEF ManagerReturns, Reported
  <2>. HIDE DEF result
  <2>. QED  BY <1>2, <2>1, <2>2
<1>5. /\ t.op = "undo" => u # <<>> /\ y = Peek(u)
      /\ t.op = "redo" => r # <<>> /\ y = Peek(r)
  BY <1>2, <1>3
<1>6. u \in Seq(Item) /\ r \in Seq(Item)
  BY <1>1
<1>. HIDE DEF u, r, src
<1>7. CASE t.res = "fail"
  <2>1. undoStack' = u /\ redoStack' = r
    BY <1>4, <1>7
  <2>2. t.op = "undo" => y \in ToSet(u)
    BY <1>5, <1>6, ToSetOp
  <2>3. t.op = "redo" => y \in ToSet(r)
    BY <1>5, <1>6, ToSetOp
  <2>. QED  BY <1>2, <1>4, <1>7, <2>1, <2>2, <2>3 DEF u, r
<1>8. CASE t.res = "ok" /\ t.op = "undo"
  <2>1. undoStack' = Pop(u) /\ redoStack' = Push(r, Peek(u)) /\ u # <<>> /\ y = Peek(u)
    BY <1>4, <1>5, <1>8
  <2>2. /\ \A x : x # y => (x \in ToSet(redoStack') <=> x \in ToSet(r))
        /\ ToSet(undoStack') \subseteq ToSet(u) /\ y \in ToSet(redoStack')
    BY <1>6, <2>1, MovedSets
  <2>. QED  BY <1>2, <1>4, <1>8, <2>2 DEF u, r
<1>9. CASE t.res = "ok" /\ t.op = "redo"
  <2>1. redoStack' = Pop(r) /\ undoStack' = Push(u, Peek(r)) /\ r # <<>> /\ y = Peek(r)
    BY <1>4, <1>5, <1>9
  <2>2. /\ \A x : x # y => (x \in ToSet(undoStack') <=> x \in ToSet(u))
        /\ ToSet(redoStack') \subseteq ToSet(r) /\ y \in ToSet(undoStack')
    BY <1>6, <2>1, MovedSets
  <2>. QED  BY <1>2, <1>4, <1>9, <2>2 DEF u, r
<1>. QED  BY <1>2, <1>7, <1>8, <1>9

LEMMA ManagerReturnsStep ==
  ASSUME Working, SafeInv, SafeInv', ManagerReturns
  PROVE  TreeInv'
<1>1. /\ Typed /\ Typed' /\ ItemOwnedOnce /\ ItemOwnedOnce' /\ NeverBoth /\ RestWhole(calls)
  BY NotBoth DEF Working, SafeInv, Owned, TreeInv
<1>2. NeverBoth'
  BY NotBoth, PTL
<1>3. calls # <<>> /\ calls' = <<>> /\ \A y : Busy(calls, y) <=> y = Top.item
  BY RootReturns
<1>4. PICK t \in Frame : t = Top /\ t.op \in {"undo", "redo"} /\ Known(t) /\ t.phase = "return"
  BY <1>3, TopKnown DEF ManagerReturns
<1>5. /\ t.res \in {"ok", "fail"} /\ t.item \in Item
      /\ undoKids' = undoKids /\ redoKids' = redoKids /\ doStack' = doStack
      /\ \A x : x # t.item => /\ (x \in ToSet(undoStack') => x \in ToSet(undoStack))
                             /\ (x \in ToSet(redoStack') => x \in ToSet(redoStack))
      /\ (t.op = "undo") = (t.res = "ok") => t.item \in ToSet(redoStack')
      /\ (t.op = "undo") # (t.res = "ok") => t.item \in ToSet(undoStack')
  BY <1>4, RootMoves DEF kids
<1>6. IsWhole(t.item)'
  <2>1. /\ (t.op = "undo") = (t.res = "ok") => IsUndone(t.item)'
        /\ (t.op = "undo") # (t.res = "ok") => IsDone(t.item)'
    BY <1>5 DEF IsDone, IsUndone
  <2>2. ReturnKnown(t)
    BY <1>4 DEF Known
  <2>. QED  BY <1>1, <1>2, <1>4, <1>5, <2>1, <2>2, ReturnedWhole
<1>7. ASSUME NEW y \in Item, y # t.item
      PROVE  IsWhole(y)'
  <2>1. IsWhole(y)
    BY <1>1, <1>3, <1>4, <1>7 DEF RestWhole
  <2>2. (IsDone(y)' => IsDone(y)) /\ (IsUndone(y)' => IsUndone(y))
    BY <1>5, <1>7 DEF IsDone, IsUndone
  <2>. QED  BY <1>5, <2>1, <2>2 DEF IsWhole
<1>8. RestWhole(calls)'
  BY <1>6, <1>7 DEF RestWhole
<1>9. AllKnown(calls)'
  BY <1>3 DEF AllKnown
<1>. QED  BY <1>8, <1>9 DEF TreeInv

-----------------------------------------------------------------------------
(* The invariant.                                                          *)

AllDos(s) == \A i \in DOMAIN s : s[i].op = "do"

\* Where transactions are executed none is undone.
LEMMA DosStayDos ==
  ASSUME Typed, AllDos(calls),
         \/ Client /\ ~UndoTransaction /\ ~RedoTransaction
         \/ DoFails \/ DoSucceeds
  PROVE  AllDos(calls')
<1>1. calls \in Seq(Frame)
  BY DEF Typed, TypeOK
<1>2. CASE calls' = calls
  BY <1>2
<1>3. CASE calls # <<>> /\ calls' = Front(calls)
  <2>1. /\ calls' \in Seq(Frame) /\ Len(calls') = Len(calls) - 1 /\ Len(calls) \in Nat
        /\ \A i \in 1..(Len(calls) - 1) : calls'[i] = calls[i]
    BY <1>1, <1>3, FrontOp
  <2>2. DOMAIN calls' = 1..(Len(calls) - 1) /\ DOMAIN calls = 1..Len(calls)
    BY <1>1, <2>1
  <2>. QED  BY <2>1, <2>2 DEF AllDos
<1>4. ASSUME NEW t \in Transaction, DoTransaction(t)
      PROVE  AllDos(calls')
  <2>1. PICK f \in Frame : f.op = "do" /\ calls' = Append(calls, f)
    BY <1>4 DEF DoTransaction, Activate, Frame, Method, Phase, Result, Item
  <2>. QED  BY <1>1, <2>1, AppendProperties DEF AllDos
<1>. QED
  BY <1>2, <1>3, <1>4
  DEF Client, RefuseTransaction, BeginBatch, EndBatch, Clear, SetMaxTransactionCount,
      DoFails, DoSucceeds, DoCompletes

\* An undo or a redo begins when nothing is in progress.
LEMMA BeginsIdle ==
  ASSUME OnlyDoReenters, Typed, DosInv, QuietStack, UndoTransaction \/ RedoTransaction
  PROVE  calls = <<>>
<1>1. ClientRuns /\ doStack = <<>> /\ calls \in Seq(Frame)
  BY DEF UndoTransaction, RedoTransaction, Executing, Typed, TypeOK
<1>2. \A i \in DOMAIN calls : calls[i].op = "do"
  BY <1>1, ClientQuiet
<1>3. OfTransactions(doStack) = {}
  BY <1>1 DEF OfTransactions
<1>4. Cardinality(OfTransactions(doStack)) = 0
  BY <1>3, FS_EmptySet
<1>5. Cardinality(DoFrames(calls)) \in Nat /\ Cardinality(DoFrames(calls)) <= 0
  BY <1>1, <1>4, PushCounts DEF DosInv, DosAccounted
<1>6. \A i \in DOMAIN calls : calls[i].op # "do"
  <2>1. Cardinality(DoFrames(calls)) = 0
    BY <1>5
  <2>. QED  BY <1>1, <2>1, PushCounts
<1>7. DOMAIN calls = {}
  BY <1>2, <1>6
<1>. QED  BY <1>1, <1>7, EmptySeq

LEMMA TreeStep ==
  ASSUME OnlyDoReenters, SafeInv, SafeInv', HistoryInv, LoopInv, Steady, TreeInv, Next
  PROVE  TreeInv'
<1>1. /\ Typed /\ TypeOK /\ TypeOK' /\ DosInv /\ DoOrder(calls) /\ QuietStack /\ ItemOwnedOnce
      /\ calls \in Seq(Frame) /\ RestWhole(calls)
  BY DEF SafeInv, HistoryInv, Typed, TypeOK, DosInv, Owned, TreeInv
<1>2. ASSUME AllDos(calls),
             \/ Client /\ ~UndoTransaction /\ ~RedoTransaction
             \/ DoFails \/ DoSucceeds
      PROVE  TreeInv'
  <2>1. AllDos(calls')
    BY <1>1, <1>2, DosStayDos
  <2>2. AllWhole
    BY <1>1, <1>2 DEF AllWhole, RestWhole, Busy, AllDos
  <2>3. AllWhole'
    BY <1>2, <2>2, ExecutingStep
  <2>4. RestWhole(calls)'
    BY <2>3 DEF RestWhole, AllWhole
  <2>5. AllKnown(calls)'
    BY <2>1 DEF AllKnown, AllDos
  <2>. QED  BY <2>4, <2>5 DEF TreeInv
<1>3. CASE Client
  <2>1. ClientRuns
    BY <1>3 DEF Client, DoTransaction, RefuseTransaction, BeginBatch, EndBatch,
                UndoTransaction, RedoTransaction, Clear, SetMaxTransactionCount
  <2>2. AllDos(calls)
    BY <1>1, <2>1, ClientQuiet DEF AllDos
  <2>3. CASE UndoTransaction \/ RedoTransaction
    <3>1. calls = <<>>
      BY <1>1, <2>3, BeginsIdle
    <3>2. Working
      BY <1>1, <3>1 DEF Working
    <3>. QED  BY <1>1, <2>3, <3>1, <3>2, UndoRedoBegins
  <2>. QED  BY <1>2, <1>3, <2>2, <2>3
<1>4. ASSUME calls # <<>>
      PROVE  Top \in Frame /\ Len(calls) \in DOMAIN calls /\ Top = calls[Len(calls)]
  <2>1. Top \in Frame
    BY <1>1, <1>4, FrontOp DEF Top
  <2>2. Len(calls) \in DOMAIN calls
    BY <1>1, <1>4, EmptySeq
  <2>. QED  BY <2>1, <2>2 DEF Top, Last
<1>5. ASSUME calls # <<>>, Top.op # "do"
      PROVE  Working
  <2>1. \A i \in DOMAIN calls : calls[i].op # "do"
    BY <1>1, <1>4, <1>5, OneKind
  <2>. QED  BY <1>1, <2>1 DEF Working
<1>6. CASE DoFails \/ DoSucceeds
  <2>1. calls # <<>> /\ Top.op = "do"
    BY <1>6 DEF DoFails, DoSucceeds, DoCompletes
  <2>2. AllDos(calls)
    BY <1>1, <1>4, <2>1, OneKind DEF AllDos
  <2>. QED  BY <1>2, <1>6, <2>2
<1>7. calls # <<>> /\ Top.phase # "self" => Top.op # "do"
  BY <1>1, <1>4 DEF DoOrder
<1>8. NextChild \/ ChildrenDone \/ RecoveryDone \/ TransactionReturns \/ ChildReturns \/ ManagerReturns
        => Working
  <2>1. NextChild \/ ChildrenDone \/ RecoveryDone \/ TransactionReturns \/ ChildReturns \/ ManagerReturns
          => calls # <<>> /\ Top.op # "do"
    BY <1>7 DEF NextChild, ChildrenDone, RecoveryDone, TransactionReturns, Running, ChildReturns,
                ManagerReturns
  <2>. QED  BY <1>5, <2>1
<1>. QED
  BY <1>1, <1>3, <1>6, <1>8, NextChildStep, PhasesStep, ChildReturnsStep, ManagerReturnsStep
  DEF Next, Manager

LEMMA FaultsStay ==
  ASSUME Next
  PROVE  faulty' = faulty
  BY DEF Next, Client, Manager, DoTransaction, RefuseTransaction, BeginBatch, EndBatch,
         UndoTransaction, RedoTransaction, Clear, SetMaxTransactionCount, DoFails, DoSucceeds,
         NextChild, ChildrenDone, RecoveryDone, TransactionReturns, ChildReturns, ManagerReturns

LEMMA TreeInvariant ==
  ASSUME OnlyDoReenters, SteadyFaults
  PROVE  Spec => [](SafeInv /\ HistoryInv /\ LoopInv /\ Steady /\ TreeInv)
<1>1. Init => Steady /\ TreeInv
  <2>. SUFFICES ASSUME Init
                PROVE  TreeInv
    BY InitSteady
  <2>1. calls = <<>> /\ \A x \in Item : undoKids[x] = <<>> /\ redoKids[x] = <<>>
    BY DEF Init
  <2>. QED  BY <2>1 DEF TreeInv, AllKnown, RestWhole, IsWhole
<1>2. Steady /\ [Next]_vars => Steady'
  <2>1. [Next]_vars => faulty' = faulty
    BY FaultsStay DEF vars
  <2>2. faulty' = faulty /\ Steady => Steady'
    BY DEF Steady, Fails, Called, WillNotify, OwnResults, DidNotify, Outcomes
  <2>. QED  BY <2>1, <2>2
<1>3. SafeInv /\ SafeInv' /\ HistoryInv /\ LoopInv /\ Steady /\ TreeInv /\ [Next]_vars => TreeInv'
  <2>1. SafeInv /\ SafeInv' /\ HistoryInv /\ LoopInv /\ Steady /\ TreeInv /\ Next => TreeInv'
    BY TreeStep
  <2>2. SafeInv /\ SafeInv' /\ Steady /\ TreeInv /\ UNCHANGED vars => TreeInv'
    <3>. SUFFICES ASSUME SafeInv, SafeInv', TreeInv, UNCHANGED vars
                  PROVE  TreeInv'
      OBVIOUS
    <3>1. TypeOK /\ TypeOK' /\ UNCHANGED <<kids, faulty>> /\ calls' = calls
      BY DEF SafeInv, Typed, vars
    <3>2. \A f : Known(f)' <=> Known(f)
      BY <3>1, SameKnown
    <3>3. AllKnown(calls)'
      BY <3>1, <3>2 DEF AllKnown, TreeInv, Turns, UndoesKids
    <3>4. RestWhole(calls)'
      BY DEF TreeInv, RestWhole, Busy, IsWhole, IsDone, IsUndone, vars, stacks, kids
    <3>. QED  BY <3>3, <3>4 DEF TreeInv
  <2>. QED  BY <2>1, <2>2
<1>. QED  BY <1>1, <1>2, <1>3, LoopInvariant, PTL DEF Spec

\* What is below a whole item that is done is done, below one undone undone.
LEMMA WholeBelow ==
  ASSUME TypeOK, AllWhole
  PROVE  /\ \A x \in Reach(AllKids, ToSet(undoStack)) : IsDone(x) /\ redoKids[x] = <<>>
         /\ \A x \in Reach(AllKids, ToSet(redoStack)) : IsUndone(x) /\ undoKids[x] = <<>>
<1>1. /\ \A x \in Item : ToSet(AllKids[x]) = KidsOf(x) /\ KidsOf(x) \subseteq Item
      /\ ToSet(undoStack) \subseteq Item /\ ToSet(redoStack) \subseteq Item
      /\ ToSet(<<>>) = {}
  BY AllKidsOp, ToSetOp, EmptyToSet DEF TypeOK
<1>. DEFINE D == {y \in Item : IsDone(y) /\ redoKids[y] = <<>>}
            U == {y \in Item : IsUndone(y) /\ undoKids[y] = <<>>}
<1>2. D \in SUBSET Item /\ ToSet(undoStack) \subseteq D /\ \A x \in D : ToSet(AllKids[x]) \subseteq D
  <2>1. \A y \in Item : IsDone(y) => y \in D
    BY DEF AllWhole, IsWhole
  <2>2. ToSet(undoStack) \subseteq D
    BY <1>1, <2>1 DEF IsDone
  <2>3. ASSUME NEW x \in D, NEW z \in ToSet(AllKids[x])
        PROVE  z \in D
    <3>1. z \in ToSet(undoKids[x]) /\ z \in Item
      BY <1>1, <2>3 DEF KidsOf
    <3>. QED  BY <2>1, <3>1 DEF IsDone
  <2>. QED  BY <2>2, <2>3
<1>3. U \in SUBSET Item /\ ToSet(redoStack) \subseteq U /\ \A x \in U : ToSet(AllKids[x]) \subseteq U
  <2>1. \A y \in Item : IsUndone(y) => y \in U
    BY DEF AllWhole, IsWhole
  <2>2. ToSet(redoStack) \subseteq U
    BY <1>1, <2>1 DEF IsUndone
  <2>3. ASSUME NEW x \in U, NEW z \in ToSet(AllKids[x])
        PROVE  z \in U
    <3>1. z \in ToSet(redoKids[x]) /\ z \in Item
      BY <1>1, <2>3 DEF KidsOf
    <3>. QED  BY <2>1, <3>1 DEF IsUndone
  <2>. QED  BY <2>2, <2>3
<1>4. Reach(AllKids, ToSet(undoStack)) \subseteq D
  <2>. HIDE DEF D
  <2>. QED  BY <1>2 DEF Reach
<1>5. Reach(AllKids, ToSet(redoStack)) \subseteq U
  <2>. HIDE DEF U
  <2>. QED  BY <1>3 DEF Reach
<1>. QED  BY <1>4, <1>5

LEMMA RestingWhole == TreeInv /\ calls = <<>> => AllWhole
  BY DEF TreeInv, RestWhole, Busy, AllWhole

\* UndoTransaction(), RedoTransaction() and the recovery from their errors leave
\* no item half undone: at rest whatever is below an item of the undo stack is
\* done, and whatever is below one of the redo stack undone. The call-outs that
\* fail may be any, of one operation, as long as they fail each time they are made.
THEOREM TreesStayWhole ==
  ASSUME OnlyDoReenters, SteadyFaults
  PROVE  Spec => []TreesAreWhole
<1>1. SafeInv /\ TreeInv => TreesAreWhole
  BY RestingWhole, WholeBelow DEF TreesAreWhole, AtRest, SafeInv, Typed
<1>. QED  BY <1>1, TreeInvariant, PTL

-----------------------------------------------------------------------------
(* What the listener was told.                                             *)

ListenerInv ==
  /\ ToSet(undoStack) \cap Transaction \subseteq shown
  /\ \A y \in Item : IsUndone(y) => y \notin shown

\* EndTransaction() pushes the item on the undo stack only when it succeeds.
LEMMA EndTransactionPushes ==
  ASSUME TypeOK, doStack # <<>>, NEW result, EndTransaction(result)
  PROVE  /\ Peek(doStack) \in Item /\ IsDone(Peek(doStack))
         /\ ToSet(undoStack') \subseteq ToSet(undoStack) \cup {Peek(doStack)}
         /\ result # "ok" => ToSet(undoStack') \subseteq ToSet(undoStack)
<1>. DEFINE x == Peek(doStack)  rest == Pop(doStack)
<1>1. /\ doStack \in Seq(Item) /\ undoStack \in Seq(Item)
      /\ x \in ToSet(doStack) /\ x \in Item
  BY ToSetOp, PopOp DEF TypeOK
<1>. HIDE DEF x, rest
<1>2. IsDone(x)
  BY <1>1 DEF IsDone
<1>3. ASSUME PushUndo(x)
      PROVE  ToSet(undoStack') \subseteq ToSet(undoStack) \cup {x}
  <2>. DEFINE kept == IF AtMax /\ undoStack # <<>> THEN Tail(undoStack) ELSE undoStack
  <2>1. undoStack' = Push(kept, x) /\ kept \in Seq(Item)
    BY <1>1, <1>3, PartOp DEF PushUndo
  <2>2. Part(kept, undoStack)
    BY <1>1, PartOp
  <2>. HIDE DEF kept
  <2>3. ToSet(kept) \subseteq ToSet(undoStack)
    BY <2>2, PartToSet
  <2>4. ToSet(undoStack') = ToSet(kept) \cup {x}
    BY <1>1, <2>1, ToSetOp
  <2>. QED  BY <2>3, <2>4
<1>4. undoStack' = undoStack \/ (PushUndo(x) /\ result = "ok")
  BY DEF EndTransaction, Release, AddChild, Record, x, rest
<1>. QED  BY <1>1, <1>2, <1>3, <1>4 DEF x

\* A step that tells the listener nothing.
LEMMA NothingTold ==
  ASSUME ListenerInv, shown' = shown,
         ToSet(undoStack') \cap Transaction \subseteq ToSet(undoStack),
         \A y \in Item : IsUndone(y)' => IsUndone(y)
  PROVE  ListenerInv'
  BY DEF ListenerInv

LEMMA ExecutingListener ==
  ASSUME Balanced, SafeInv, HistoryInv, ListenerInv,
         \/ Client /\ ~UndoTransaction /\ ~RedoTransaction
         \/ DoFails \/ DoSucceeds
  PROVE  ListenerInv'
<1>1. /\ Typed /\ TypeOK /\ ItemOwnedOnce /\ NeverBoth
      /\ doStack \in Seq(Item) /\ undoStack \in Seq(Item) /\ redoStack \in Seq(Item)
      /\ undoKids \in [Item -> Seq(Item)] /\ redoKids \in [Item -> Seq(Item)]
  BY NotBoth DEF SafeInv, Typed, TypeOK, Owned
<1>2. ASSUME redoKids' = redoKids, ToSet(redoStack') \subseteq ToSet(redoStack)
      PROVE  \A y \in Item : IsUndone(y)' => IsUndone(y)
  BY <1>2 DEF IsUndone
<1>3. ASSUME shown' = shown, ToSet(undoStack') \cap Transaction \subseteq ToSet(undoStack),
             redoKids' = redoKids, ToSet(redoStack') \subseteq ToSet(redoStack)
      PROVE  ListenerInv'
  BY <1>2, <1>3, NothingTold
<1>4. ASSUME NEW t \in Transaction, DoTransaction(t)
      PROVE  ListenerInv'
  BY <1>3, <1>4 DEF DoTransaction, kids
<1>5. ASSUME NEW t \in Transaction, RefuseTransaction(t)
      PROVE  ListenerInv'
  BY <1>3, <1>5 DEF RefuseTransaction, kids, stacks
<1>6. ASSUME NEW b \in Batch, BeginBatch(b)
      PROVE  ListenerInv'
  BY <1>3, <1>6 DEF BeginBatch, kids
<1>7. CASE EndBatch
  <2>1. /\ doStack # <<>> /\ Peek(doStack) \in Batch /\ EndTransaction("ok")
        /\ redoKids' = redoKids /\ shown' = shown
    BY <1>7 DEF EndBatch, BatchOnTop
  <2>2. /\ ToSet(undoStack') \subseteq ToSet(undoStack) \cup {Peek(doStack)}
        /\ ToSet(redoStack') \subseteq ToSet(redoStack)
    BY <1>1, <2>1, EndTransactionPushes, EndTransactionDone
  <2>. QED  BY <1>3, <2>1, <2>2, ItemAssumption
<1>8. CASE Clear
  <2>1. undoStack' = <<>> /\ redoStack' = <<>> /\ shown' = shown /\ UNCHANGED kids
    BY <1>8 DEF Clear
  <2>. QED  BY <1>3, <2>1, EmptyToSet DEF kids
<1>9. ASSUME NEW m \in MaxCounts, SetMaxTransactionCount(m)
      PROVE  ListenerInv'
  <2>1. KeptUndos(m) \in 0..Len(undoStack) /\ KeptRedos(m) \in 0..Len(redoStack)
    BY <1>1, CountAssumption DEF KeptUndos, KeptRedos
  <2>2. /\ Part(undoStack', undoStack) /\ Part(redoStack', redoStack)
        /\ shown' = shown /\ redoKids' = redoKids
    BY <1>1, <1>9, <2>1, PartOp DEF SetMaxTransactionCount, kids
  <2>. QED  BY <1>3, <2>2, PartToSet
<1>10. CASE DoFails
  BY <1>3, <1>10 DEF DoFails, kids
<1>11. CASE DoSucceeds
  <2>1. PICK x : x = Peek(doStack)
    OBVIOUS
  <2>2. PICK result \in Result : EndTransaction(result) /\ shown' = Told("do", Top.item, result)
    BY <1>11 DEF DoSucceeds
  <2>3. doStack # <<>> /\ Top.item = x /\ redoKids' = redoKids
    BY <1>11, <2>1 DEF DoSucceeds, DoCompletes
  <2>4. /\ x \in Item /\ IsDone(x) /\ ToSet(undoStack') \subseteq ToSet(undoStack) \cup {x}
        /\ result # "ok" => ToSet(undoStack') \subseteq ToSet(undoStack)
        /\ ToSet(redoStack') \subseteq ToSet(redoStack)
    BY <1>1, <2>1, <2>2, <2>3, EndTransactionPushes, EndTransactionDone
  <2>5. \A y \in Item : IsUndone(y)' => IsUndone(y)
    BY <1>2, <2>3, <2>4
  <2>6. ~IsUndone(x)
    BY <1>1, <2>4 DEF NeverBoth
  <2>7. CASE result = "ok" /\ x \in Transaction
    <3>1. shown' = shown \cup {x}
      BY <2>2, <2>3, <2>7, ItemAssumption DEF Told
    <3>. QED  BY <2>4, <2>5, <2>6, <3>1 DEF ListenerInv
  <2>8. CASE ~(result = "ok" /\ x \in Transaction)
    <3>1. shown' = shown
      BY <2>2, <2>3, <2>4, <2>8 DEF Told, Item, Result
    <3>2. ToSet(undoStack') \cap Transaction \subseteq ToSet(undoStack)
      BY <2>4, <2>8
    <3>. QED  BY <2>5, <3>1, <3>2, NothingTold
  <2>. QED  BY <2>7, <2>8
<1>. QED
  BY <1>4, <1>5, <1>6, <1>7, <1>8, <1>9, <1>10, <1>11 DEF Client

LEMMA ChildReturnsListener ==
  ASSUME Working, SafeInv, SafeInv', ListenerInv, ChildReturns
  PROVE  ListenerInv'
<1>1. Typed /\ Typed' /\ ItemOwnedOnce /\ ItemOwnedOnce' /\ NeverBoth /\ undoStack' = undoStack
  BY NotBoth DEF SafeInv, Owned, ChildReturns, stacks
<1>2. NeverBoth'
  BY NotBoth, PTL
<1>3. PICK s, c, t : ReturnsTo(s, c, t) /\ LoopMoves(s, c, t)
  BY ChildMoves
<1>4. PICK y \in Item : y = t.item /\ t.op \in {"undo", "redo"} /\ t.res \in {"ok", "fail"}
  BY <1>3 DEF ReturnsTo
<1>5. /\ shown' = Told("undo", y, t.res)
      /\ \A z \in Item : z # y => (IsUndone(z)' => IsUndone(z))
      /\ IF t.op = "undo" THEN IsDone(y) ELSE IsUndone(y)
      /\ IF (t.op = "undo") = (t.res = "ok") THEN IsUndone(y)' ELSE IsDone(y)'
  BY <1>3, <1>4 DEF LoopMoves
<1>6. CASE t.res = "fail"
  <2>1. shown' = shown
    BY <1>5, <1>6 DEF Told
  <2>2. IsUndone(y)' => IsUndone(y)
    BY <1>1, <1>2, <1>4, <1>5, <1>6 DEF NeverBoth
  <2>3. \A z \in Item : IsUndone(z)' => IsUndone(z)
    BY <1>5, <2>2
  <2>. QED  BY <1>1, <2>1, <2>3, NothingTold
<1>7. CASE t.res = "ok"
  <2>1. shown' = shown \ {y}
    <3>1. y \in Batch => y \notin shown
      BY <1>1, ItemAssumption DEF Typed, TypeOK
    <3>2. shown' = IF y \in Batch THEN shown ELSE shown \ {y}
      BY <1>5, <1>7 DEF Told
    <3>. QED  BY <3>1, <3>2
  <2>2. y \notin ToSet(undoStack)
    <3>1. CASE t.op = "undo"
      <4>1. ~IsDone(y)'
        BY <1>1, <1>2, <1>5, <1>7, <3>1 DEF NeverBoth
      <4>2. y \notin ToSet(undoStack')
        BY <4>1 DEF IsDone
      <4>. QED  BY <1>1, <4>2
    <3>2. CASE t.op = "redo"
      <4>1. ~IsDone(y)
        BY <1>1, <1>5, <3>2 DEF NeverBoth
      <4>. QED  BY <4>1 DEF IsDone
    <3>. QED  BY <1>4, <3>1, <3>2
  <2>. QED  BY <1>1, <1>5, <2>1, <2>2 DEF ListenerInv
<1>. QED  BY <1>4, <1>6, <1>7

LEMMA ManagerReturnsListener ==
  ASSUME Working, SafeInv, SafeInv', ListenerInv, ManagerReturns
  PROVE  ListenerInv'
<1>1. Typed /\ Typed' /\ ItemOwnedOnce /\ ItemOwnedOnce'
  BY DEF SafeInv, Owned
<1>2. NeverBoth'
  BY NotBoth, PTL
<1>3. PICK t : t = Top
  OBVIOUS
<1>4. PICK y \in Item :
        /\ y = t.item /\ t.op \in {"undo", "redo"} /\ t.res \in {"ok", "fail"}
        /\ UNCHANGED <<doStack, kids>> /\ shown' = Told(t.op, y, t.res)
        /\ t.res = "fail" => undoStack' = undoStack /\ redoStack' = redoStack
        /\ \A x : x # y => /\ (x \in ToSet(undoStack') => x \in ToSet(undoStack))
                          /\ (x \in ToSet(redoStack') => x \in ToSet(redoStack))
        /\ (t.op = "undo") = (t.res = "ok") => y \in ToSet(redoStack')
        /\ (t.op = "undo") # (t.res = "ok") => y \in ToSet(undoStack')
  BY <1>3, RootMoves
<1>5. /\ \A x \in Item : x # y => (IsUndone(x)' => IsUndone(x))
      /\ (t.op = "undo") = (t.res = "ok") => IsUndone(y)'
      /\ (t.op = "undo") # (t.res = "ok") => IsDone(y)'
  BY <1>4 DEF IsDone, IsUndone, kids
<1>6. y \in Batch => y \notin shown
  BY <1>1, ItemAssumption DEF Typed, TypeOK
<1>7. CASE t.res = "fail"
  <2>1. shown' = shown /\ undoStack' = undoStack /\ \A x \in Item : IsUndone(x)' => IsUndone(x)
    BY <1>4, <1>7 DEF Told, IsUndone, kids
  <2>. QED  BY <2>1, NothingTold
<1>8. CASE t.res = "ok" /\ t.op = "undo"
  <2>1. shown' = shown \ {y}
    <3>1. shown' = IF y \in Batch THEN shown ELSE shown \ {y}
      BY <1>4, <1>8 DEF Told
    <3>. QED  BY <1>6, <3>1
  <2>2. y \notin ToSet(undoStack')
    BY <1>1, <1>2, <1>5, <1>8 DEF NeverBoth, IsDone
  <2>. QED  BY <1>4, <1>5, <2>1, <2>2 DEF ListenerInv
<1>9. CASE t.res = "ok" /\ t.op = "redo"
  <2>1. shown' = IF y \in Batch THEN shown ELSE shown \cup {y}
    BY <1>4, <1>9 DEF Told
  <2>2. ~IsUndone(y)'
    BY <1>1, <1>2, <1>5, <1>9 DEF NeverBoth
  <2>3. y \in Batch => y \notin Transaction
    BY ItemAssumption
  <2>. QED  BY <1>4, <1>5, <2>1, <2>2, <2>3 DEF ListenerInv
<1>. QED  BY <1>4, <1>7, <1>8, <1>9

LEMMA ListenerStep ==
  ASSUME OnlyDoReenters, Balanced, SafeInv, SafeInv', HistoryInv, LoopInv, Steady, TreeInv,
         ListenerInv, Next
  PROVE  ListenerInv'
<1>1. UndoTransaction \/ RedoTransaction \/ NextChild \/ ChildrenDone \/ RecoveryDone \/ TransactionReturns
        => ListenerInv'
  BY NothingTold
  DEF UndoTransaction, RedoTransaction, NextChild, ChildrenDone, RecoveryDone, TransactionReturns,
      stacks, kids, IsUndone
<1>2. ASSUME ChildReturns \/ ManagerReturns
      PROVE  Working
  <2>1. /\ Typed /\ DosInv /\ DoOrder(calls) /\ QuietStack /\ calls \in Seq(Frame) /\ calls # <<>>
        /\ Top.phase = "return"
    BY <1>2 DEF SafeInv, HistoryInv, Typed, TypeOK, DosInv, ChildReturns, ManagerReturns
  <2>2. Len(calls) \in DOMAIN calls /\ Top = calls[Len(calls)]
    BY <2>1, EmptySeq DEF Top, Last
  <2>3. calls[Len(calls)].op # "do"
    BY <2>1, <2>2 DEF DoOrder
  <2>4. \A i \in DOMAIN calls : calls[i].op # "do"
    BY <2>1, <2>2, <2>3, OneKind
  <2>. QED  BY <2>1, <2>4 DEF Working, SafeInv, Owned
<1>. QED
  BY <1>1, <1>2, ExecutingListener, ChildReturnsListener, ManagerReturnsListener DEF Next, Client, Manager

\* At rest a listener that goes by the Did* calls knows the stacks: it believes in
\* effect every transaction on the undo stack and nothing that is on the redo stack
\* or below it, though children undone and redone alike are told as DidUndo.
THEOREM ListenerKnows ==
  ASSUME OnlyDoReenters, SteadyFaults, Balanced
  PROVE  Spec => []ListenerTracksStacks
<1>1. Init => ListenerInv
  BY EmptyToSet DEF Init, ListenerInv, IsUndone
<1>2. SafeInv /\ SafeInv' /\ HistoryInv /\ LoopInv /\ Steady /\ TreeInv /\ ListenerInv /\ [Next]_vars
        => ListenerInv'
  <2>1. ListenerInv /\ UNCHANGED vars => ListenerInv'
    BY NothingTold DEF vars, stacks, kids, IsUndone
  <2>. QED  BY <2>1, ListenerStep
<1>3. SafeInv /\ TreeInv /\ ListenerInv => ListenerTracksStacks
  <2>. SUFFICES ASSUME SafeInv, TreeInv, ListenerInv, AtRest
                PROVE  /\ ToSet(undoStack) \cap Transaction \subseteq shown
                       /\ shown \cap Reach(AllKids, ToSet(redoStack)) = {}
    BY DEF ListenerTracksStacks
  <2>1. \A x \in Reach(AllKids, ToSet(redoStack)) : x \in Item /\ IsUndone(x)
    <3>1. \A x \in Reach(AllKids, ToSet(redoStack)) : x \in Item
      BY DEF Reach
    <3>. QED  BY <3>1, RestingWhole, WholeBelow DEF AtRest, SafeInv, Typed
  <2>. QED  BY <2>1 DEF ListenerInv
<1>. QED  BY <1>1, <1>2, <1>3, TreeInvariant, PTL DEF Spec
=============================================================================
