---------------------- MODULE TransactionHistoryProof ----------------------
(***************************************************************************)
(* The transaction manager implements UndoHistory, the history of whole    *)
(* items that nsITransactionManager promises: every step of the manager,   *)
(* however its activations nest and whichever call-outs fail or veto, is a *)
(* step of that history or leaves it alone.                                *)
(***************************************************************************)
EXTENDS TransactionManagerProof

-----------------------------------------------------------------------------
(* Sequences.                                                              *)

\* A sequence read backwards.
LEMMA ReverseOp ==
  ASSUME NEW S, NEW s \in Seq(S)
  PROVE  /\ Reverse(s) \in Seq(S) /\ Len(Reverse(s)) = Len(s)
         /\ \A i \in 1..Len(s) : Reverse(s)[i] = s[Len(s) - i + 1]
<1>1. Len(s) \in Nat
  OBVIOUS
<1>2. \A i \in 1..Len(s) : Len(s) - i + 1 \in 1..Len(s)
  BY <1>1
<1>3. Reverse(s) \in [1..Len(s) -> S]
  BY <1>2 DEF Reverse
<1>. QED  BY <1>1, <1>3, SeqDef DEF Reverse

\* Taking the last element off and putting it back.
LEMMA FrontAppend ==
  ASSUME NEW S, NEW s \in Seq(S)
  PROVE  /\ s # <<>> => Append(Front(s), Last(s)) = s
         /\ \A x \in S : Front(Append(s, x)) = s /\ Last(Append(s, x)) = x
<1>1. ASSUME s # <<>>
      PROVE  Append(Front(s), Last(s)) = s
  <2>1. /\ Len(s) \in Nat /\ Len(s) # 0 /\ Last(s) \in S
        /\ Front(s) \in Seq(S) /\ Len(Front(s)) = Len(s) - 1
        /\ \A i \in 1..(Len(s) - 1) : Front(s)[i] = s[i]
    BY <1>1, FrontOp, EmptySeq
  <2>2. /\ Append(Front(s), Last(s)) \in Seq(S)
        /\ Len(Append(Front(s), Last(s))) = Len(Front(s)) + 1
        /\ \A i \in 1..Len(Front(s)) : Append(Front(s), Last(s))[i] = Front(s)[i]
        /\ Append(Front(s), Last(s))[Len(Front(s)) + 1] = Last(s)
    BY <2>1, AppendProperties
  <2>. QED  BY <2>1, <2>2, SeqEqual DEF Last
<1>2. ASSUME NEW x \in S
      PROVE  Front(Append(s, x)) = s /\ Last(Append(s, x)) = x
  <2>. DEFINE t == Append(s, x)
  <2>1. /\ t \in Seq(S) /\ t # <<>> /\ Len(t) = Len(s) + 1 /\ Len(s) \in Nat
        /\ \A i \in 1..Len(s) : t[i] = s[i]
        /\ t[Len(s) + 1] = x
    BY AppendProperties
  <2>. HIDE DEF t
  <2>2. /\ Front(t) \in Seq(S) /\ Len(Front(t)) = Len(t) - 1
        /\ \A i \in 1..(Len(t) - 1) : Front(t)[i] = t[i]
    BY <2>1, FrontOp
  <2>3. Front(t) = s
    BY <2>1, <2>2, SeqEqual
  <2>. QED  BY <2>1, <2>3 DEF t, Last
<1>. QED  BY <1>1, <1>2

\* What is last comes first.
LEMMA ReverseAppend ==
  ASSUME NEW S, NEW r \in Seq(S), NEW x \in S
  PROVE  Reverse(Append(r, x)) = <<x>> \o Reverse(r)
<1>. DEFINE a == Append(r, x)  b == Reverse(r)  one == <<x>>  s == Reverse(a)  t == one \o b
<1>1. /\ a \in Seq(S) /\ Len(a) = Len(r) + 1 /\ Len(r) \in Nat
      /\ \A i \in 1..Len(r) : a[i] = r[i]
      /\ a[Len(r) + 1] = x
  BY AppendProperties
<1>2. /\ s \in Seq(S) /\ Len(s) = Len(a)
      /\ \A i \in 1..Len(a) : s[i] = a[Len(a) - i + 1]
  <2>. HIDE DEF a
  <2>. QED  BY <1>1, ReverseOp
<1>3. /\ b \in Seq(S) /\ Len(b) = Len(r)
      /\ \A i \in 1..Len(r) : b[i] = r[Len(r) - i + 1]
  BY ReverseOp
<1>4. one \in Seq(S) /\ Len(one) = 1 /\ one[1] = x
  OBVIOUS
<1>. HIDE DEF a, b, one, s
<1>5. /\ t \in Seq(S) /\ Len(t) = 1 + Len(r)
      /\ \A i \in 1..Len(one) + Len(b) : t[i] = IF i <= Len(one) THEN one[i] ELSE b[i - Len(one)]
  <2>1. one \in Seq(S) /\ b \in Seq(S)
    BY <1>3, <1>4
  <2>2. /\ t \in Seq(S) /\ Len(t) = Len(one) + Len(b)
        /\ \A i \in 1..Len(one) + Len(b) : t[i] = IF i <= Len(one) THEN one[i] ELSE b[i - Len(one)]
    BY ONLY <2>1, ConcatProperties
  <2>. QED  BY <1>3, <1>4, <2>2
<1>. HIDE DEF t
<1>6. ASSUME NEW i \in 1..(Len(r) + 1)
      PROVE  s[i] = t[i]
  <2>1. CASE i = 1
    <3>1. s[1] = a[Len(r) + 1] /\ t[1] = one[1]
      BY <1>1, <1>2, <1>3, <1>4, <1>5
    <3>. QED  BY <1>1, <1>4, <2>1, <3>1
  <2>2. CASE i # 1
    <3>1. i - 1 \in 1..Len(r) /\ Len(r) - (i - 1) + 1 \in 1..Len(r)
      BY <1>1, <2>2
    <3>2. t[i] = b[i - 1]
      BY <1>1, <1>3, <1>4, <1>5, <2>2
    <3>3. s[i] = a[Len(r) + 1 - i + 1]
      BY <1>1, <1>2
    <3>4. Len(r) + 1 - i + 1 = Len(r) - (i - 1) + 1
      BY <1>1
    <3>5. b[i - 1] = r[Len(r) - (i - 1) + 1]
      BY <1>3, <3>1
    <3>. QED  BY <1>1, <3>1, <3>2, <3>3, <3>4, <3>5
  <2>. QED  BY <2>1, <2>2
<1>7. Len(s) = Len(t) /\ Len(s) = Len(r) + 1
  BY <1>1, <1>2, <1>5
<1>8. s = t
  BY <1>2, <1>5, <1>6, <1>7, SeqEqual
<1>. QED  BY <1>8 DEF s, t, a, b, one

\* Putting sequences together in either order.
LEMMA Regroup ==
  ASSUME NEW S, NEW f \in Seq(S), NEW g \in Seq(S), NEW b \in Seq(S)
  PROVE  f \o (g \o b) = (f \o g) \o b
<1>. DEFINE gb == g \o b  fg == f \o g  s == f \o gb  t == fg \o b
<1>1. /\ gb \in Seq(S) /\ Len(gb) = Len(g) + Len(b)
      /\ \A i \in 1..Len(g) + Len(b) : gb[i] = IF i <= Len(g) THEN g[i] ELSE b[i - Len(g)]
  BY ConcatProperties
<1>2. /\ fg \in Seq(S) /\ Len(fg) = Len(f) + Len(g)
      /\ \A i \in 1..Len(f) + Len(g) : fg[i] = IF i <= Len(f) THEN f[i] ELSE g[i - Len(f)]
  BY ConcatProperties
<1>. HIDE DEF gb, fg
<1>3. /\ s \in Seq(S) /\ Len(s) = Len(f) + Len(gb)
      /\ \A i \in 1..Len(f) + Len(gb) : s[i] = IF i <= Len(f) THEN f[i] ELSE gb[i - Len(f)]
  <2>1. f \in Seq(S) /\ gb \in Seq(S)
    BY <1>1
  <2>. QED  BY ONLY <2>1, ConcatProperties DEF s
<1>4. /\ t \in Seq(S) /\ Len(t) = Len(fg) + Len(b)
      /\ \A i \in 1..Len(fg) + Len(b) : t[i] = IF i <= Len(fg) THEN fg[i] ELSE b[i - Len(fg)]
  <2>1. fg \in Seq(S) /\ b \in Seq(S)
    BY <1>2
  <2>. QED  BY ONLY <2>1, ConcatProperties DEF t
<1>. HIDE DEF s, t
<1>5. Len(f) \in Nat /\ Len(g) \in Nat /\ Len(b) \in Nat
  OBVIOUS
<1>6. ASSUME NEW i \in 1..Len(s)
      PROVE  s[i] = t[i]
  <2>1. i \in 1..Len(f) + (Len(g) + Len(b)) /\ i \in 1..(Len(f) + Len(g)) + Len(b)
    BY <1>1, <1>3, <1>5
  <2>2. CASE i <= Len(f)
    <3>1. i \in 1..Len(f) + Len(g)
      BY ONLY <1>5, <2>1, <2>2
    <3>. QED  BY ONLY <1>1, <1>2, <1>3, <1>4, <1>5, <2>1, <2>2, <3>1
  <2>3. CASE ~(i <= Len(f)) /\ i <= Len(f) + Len(g)
    <3>1. i \in 1..Len(f) + Len(g) /\ i - Len(f) \in 1..Len(g) + Len(b) /\ i - Len(f) <= Len(g)
      BY ONLY <1>5, <2>1, <2>3
    <3>. QED  BY ONLY <1>1, <1>2, <1>3, <1>4, <1>5, <2>1, <2>3, <3>1
  <2>4. CASE ~(i <= Len(f) + Len(g))
    <3>1. /\ i - Len(f) \in 1..Len(g) + Len(b) /\ ~(i - Len(f) <= Len(g)) /\ ~(i <= Len(f))
          /\ i - (Len(f) + Len(g)) = (i - Len(f)) - Len(g)
      BY ONLY <1>5, <2>1, <2>4
    <3>. QED  BY ONLY <1>1, <1>2, <1>3, <1>4, <1>5, <2>1, <2>4, <3>1
  <2>. QED  BY ONLY <1>5, <2>1, <2>2, <2>3, <2>4
<1>7. Len(s) = Len(t)
  BY <1>1, <1>2, <1>3, <1>4, <1>5
<1>8. s = t
  BY <1>3, <1>4, <1>6, <1>7, SeqEqual
<1>. QED  BY <1>8 DEF s, t, gb, fg

\* A child that is undone goes from the end of the done ones to the start of the
\* undone ones, which is where it was: the order of the children stays the same.
LEMMA UndoneInPlace ==
  ASSUME NEW S, NEW u \in Seq(S), NEW r \in Seq(S), u # <<>>
  PROVE  Front(u) \o Reverse(Append(r, Last(u))) = u \o Reverse(r)
<1>. DEFINE x == Last(u)  f == Front(u)  b == Reverse(r)  one == <<x>>
<1>1. x \in S /\ f \in Seq(S) /\ u = Append(f, x) /\ one \in Seq(S) /\ b \in Seq(S)
  BY FrontOp, FrontAppend, ReverseOp
<1>2. Reverse(Append(r, x)) = one \o b
  BY <1>1, ReverseAppend
<1>. HIDE DEF x, f, b, one
<1>3. f \o (one \o b) = (f \o one) \o b
  BY ONLY <1>1, Regroup
<1>4. Append(f, x) = f \o one
  BY <1>1, AppendIsConcat DEF one
<1>. QED  BY <1>1, <1>2, <1>3, <1>4 DEF x, f, b

\* So does a child that is redone.
LEMMA RedoneInPlace ==
  ASSUME NEW S, NEW u \in Seq(S), NEW r \in Seq(S), r # <<>>
  PROVE  Append(u, Last(r)) \o Reverse(Front(r)) = u \o Reverse(r)
<1>. DEFINE v == Append(u, Last(r))
<1>1. Last(r) \in S /\ Front(r) \in Seq(S)
  BY FrontOp
<1>2. v \in Seq(S) /\ v # <<>> /\ Front(v) = u /\ Last(v) = Last(r)
  BY <1>1, AppendProperties, FrontAppend
<1>. HIDE DEF v
<1>3. Front(v) \o Reverse(Append(Front(r), Last(v))) = v \o Reverse(Front(r))
  BY <1>1, <1>2, UndoneInPlace
<1>4. Append(Front(r), Last(r)) = r
  BY FrontAppend
<1>. QED  BY <1>2, <1>3, <1>4 DEF v

\* What is on a stack after a pop or a push was there before, or is new.
LEMMA StackElements ==
  ASSUME NEW S, NEW s \in Seq(S)
  PROVE  /\ s # <<>> => \A i \in DOMAIN Pop(s) : i \in DOMAIN s /\ Pop(s)[i] = s[i]
         /\ s # <<>> => \E i \in DOMAIN s : Peek(s) = s[i]
         /\ \A x \in S : \A i \in DOMAIN Push(s, x) :
              Push(s, x)[i] = x \/ (i \in DOMAIN s /\ Push(s, x)[i] = s[i])
<1>1. Len(s) \in Nat /\ DOMAIN s = 1..Len(s)
  OBVIOUS
<1>2. ASSUME s # <<>>
      PROVE  \A i \in DOMAIN Pop(s) : i \in DOMAIN s /\ Pop(s)[i] = s[i]
  <2>1. /\ Pop(s) \in Seq(S) /\ Len(Pop(s)) = Len(s) - 1
        /\ \A i \in 1..(Len(s) - 1) : Pop(s)[i] = s[i]
    BY <1>2, FrontOp DEF Pop
  <2>2. DOMAIN Pop(s) = 1..(Len(s) - 1)
    BY <2>1
  <2>. QED  BY <1>1, <2>1, <2>2
<1>3. s # <<>> => Len(s) \in DOMAIN s /\ Peek(s) = s[Len(s)]
  BY EmptySeq DEF Peek, Last
<1>4. ASSUME NEW x \in S, NEW i \in DOMAIN Push(s, x)
      PROVE  Push(s, x)[i] = x \/ (i \in DOMAIN s /\ Push(s, x)[i] = s[i])
  <2>1. /\ Push(s, x) \in Seq(S) /\ Len(Push(s, x)) = Len(s) + 1
        /\ \A j \in 1..Len(s) : Push(s, x)[j] = s[j]
        /\ Push(s, x)[Len(s) + 1] = x
    BY AppendProperties DEF Push
  <2>2. i \in 1..Len(s) \/ i = Len(s) + 1
    BY <1>1, <2>1
  <2>. QED  BY <1>1, <2>1, <2>2
<1>. QED  BY <1>2, <1>3, <1>4

-----------------------------------------------------------------------------
(* What the history needs to know of the manager's state. The transactions *)
(* call the manager from DoTransaction() only.                             *)

OnlyDoReenters == Reentrant \subseteq {"do"}

\* While something is undone or redone no item is open.
QuietStack == (\E i \in DOMAIN calls : calls[i].op # "do") => doStack = <<>>

\* An item not made yet has no children, one that is open no undone ones.
FreshEmpty == \A x \in Item \ used : undoKids[x] = <<>> /\ redoKids[x] = <<>>
OpenPlain  == \A i \in DOMAIN doStack : redoKids[doStack[i]] = <<>>

\* Only call-outs that may misbehave do.
FaultsListed == faulty \subseteq Misbehaviours

HistoryInv == QuietStack /\ FreshEmpty /\ OpenPlain /\ FaultsListed

\* What holds whoever re-enters.
SafeInv == Typed /\ DosInv /\ StackBound /\ Owned

LEMMA SafeInvariant == Spec => []SafeInv
  BY DosInvariant, StacksBounded, OwnersUnique, PTL DEF SafeInv, Owned

\* The code that calls the manager runs outside every undo and redo.
LEMMA ClientQuiet ==
  ASSUME OnlyDoReenters, Typed, DosInv, QuietStack, ClientRuns
  PROVE  \A i \in DOMAIN calls : calls[i].op = "do"
<1>. SUFFICES ASSUME NEW k \in DOMAIN calls, calls[k].op # "do"
              PROVE  FALSE
  OBVIOUS
<1>1. calls \in Seq(Frame) /\ doStack = <<>>
  BY DEF Typed, TypeOK, QuietStack
<1>2. \A i \in DOMAIN calls : calls[i].op # "do"
  <2>1. Cardinality(OfTransactions(doStack)) = 0
    <3>1. OfTransactions(doStack) = {}
      BY <1>1 DEF OfTransactions
    <3>. QED  BY <3>1, FS_EmptySet
  <2>2. Cardinality(DoFrames(calls)) \in Nat /\ Cardinality(DoFrames(calls)) <= 0
    BY <1>1, <2>1, PushCounts DEF DosInv, DosAccounted
  <2>3. Cardinality(DoFrames(calls)) = 0
    BY <2>2
  <2>. QED  BY <1>1, <2>3, PushCounts
<1>3. calls # <<>> /\ Len(calls) \in DOMAIN calls
  BY <1>1, EmptySeq
<1>4. RunningOp \in {"do"} /\ Running
  BY <1>3 DEF ClientRuns, OnlyDoReenters
<1>5. Top.op = "do"
  BY <1>4 DEF RunningOp
<1>. QED  BY <1>2, <1>3, <1>5 DEF Top, Last

\* The loop over children that waits belongs to an undo or redo.
LEMMA ReturnsQuiet ==
  ASSUME Typed, DosInv, QuietStack, ChildReturns
  PROVE  doStack = <<>>
<1>1. calls \in Seq(Frame) /\ calls # <<>> /\ InLoop
  BY DEF Typed, TypeOK, ChildReturns
<1>2. Len(calls) \in Nat /\ Len(calls) # 0
  BY <1>1, EmptySeq
<1>3. /\ Front(calls) \in Seq(Frame) /\ Front(calls) # <<>>
      /\ Len(Front(calls)) = Len(calls) - 1
      /\ \A i \in 1..(Len(calls) - 1) : Front(calls)[i] = calls[i]
  BY <1>1, CallerOp, FrontOp
<1>4. Len(calls) - 1 \in 1..(Len(calls) - 1)
  BY <1>2, <1>3, EmptySeq
<1>5. Caller = calls[Len(calls) - 1] /\ Len(calls) - 1 \in DOMAIN calls
  BY <1>1, <1>2, <1>3, <1>4 DEF Caller, Last
<1>6. Caller.op # "do"
  BY <1>1, <1>5 DEF InLoop, DosInv, DoOrder
<1>. QED  BY <1>5, <1>6 DEF QuietStack

\* No step opens an item while something is undone or redone.
LEMMA QuietStep ==
  ASSUME OnlyDoReenters, Typed, DosInv, QuietStack, Next
  PROVE  QuietStack'
<1>1. calls \in Seq(Frame) /\ (calls # <<>> => Top \in Frame /\ (Top.op = "do" => Top.phase = "self"))
  BY OrderOp, FrontOp DEF Typed, TypeOK, DosInv, Top
<1>2. CASE Client
  <2>1. ClientRuns
    BY <1>2 DEF Client, DoTransaction, RefuseTransaction, BeginBatch, EndBatch,
                UndoTransaction, RedoTransaction, Clear, SetMaxTransactionCount
  <2>2. \A i \in DOMAIN calls : calls[i].op = "do"
    BY <2>1, ClientQuiet
  <2>3. CASE calls' = calls
    BY <2>2, <2>3 DEF QuietStack
  <2>4. CASE UndoTransaction \/ RedoTransaction
    BY <2>4 DEF UndoTransaction, RedoTransaction, Executing, QuietStack, stacks
  <2>5. ASSUME NEW t \in Transaction, DoTransaction(t)
        PROVE  QuietStack'
    <3>. DEFINE f == Activate("do", t, "self", 0)
    <3>1. f \in Frame /\ f.op = "do" /\ calls' = Append(calls, f)
      BY <2>5 DEF DoTransaction, Activate, Frame, Method, Phase, Result, Item
    <3>. HIDE DEF f
    <3>2. \A i \in DOMAIN calls' : calls'[i].op = "do"
      BY <1>1, <2>2, <3>1, AppendProperties
    <3>. QED  BY <3>2 DEF QuietStack
  <2>. QED
    BY <1>2, <2>3, <2>4, <2>5
    DEF Client, RefuseTransaction, BeginBatch, EndBatch, Clear, SetMaxTransactionCount
<1>3. CASE Manager /\ doStack = <<>>
  <2>1. doStack' = doStack
    BY <1>3 DEF Manager, DoFails, DoSucceeds, DoCompletes, NextChild, ChildrenDone,
                RecoveryDone, TransactionReturns, ChildReturns, ManagerReturns, stacks
  <2>. QED  BY <1>3, <2>1 DEF QuietStack
<1>4. CASE Manager /\ doStack # <<>>
  <2>1. \A i \in DOMAIN calls : calls[i].op = "do"
    BY <1>4 DEF QuietStack
  <2>2. calls # <<>> => Top.op = "do" /\ Top.phase = "self"
    <3>1. calls # <<>> => Len(calls) \in DOMAIN calls
      BY <1>1, EmptySeq
    <3>. QED  BY <1>1, <2>1, <3>1 DEF Top, Last
  <2>3. DoFails \/ DoSucceeds
    BY <1>4, <2>2 DEF Manager, NextChild, ChildrenDone, RecoveryDone, TransactionReturns,
                      Running, ChildReturns, ManagerReturns
  <2>4. calls # <<>> /\ calls' = Front(calls)
    BY <2>3 DEF DoFails, DoSucceeds, DoCompletes
  <2>5. \A i \in DOMAIN calls' : calls'[i].op = "do"
    <3>1. /\ calls' \in Seq(Frame) /\ Len(calls') = Len(calls) - 1 /\ Len(calls) \in Nat
          /\ \A i \in 1..(Len(calls) - 1) : calls'[i] = calls[i]
      BY <1>1, <2>4, FrontOp
    <3>. QED  BY <1>1, <2>1, <3>1
  <2>. QED  BY <2>5 DEF QuietStack
<1>. QED  BY <1>2, <1>3, <1>4 DEF Next

\* EndTransaction() gives children to open items only.
LEMMA EndTransactionFresh ==
  ASSUME TypeOK, Owned, doStack # <<>>, NEW result, EndTransaction(result), FreshEmpty, OpenPlain
  PROVE  /\ \A x \in Item \ used : undoKids'[x] = <<>>
         /\ \A i \in DOMAIN doStack' : redoKids[doStack'[i]] = <<>>
<1>. DEFINE x == Peek(doStack)  rest == Pop(doStack)
<1>1. /\ doStack \in Seq(Item) /\ doStack' = rest /\ rest \in Seq(Item)
      /\ undoKids \in [Item -> Seq(Item)]
  BY PopOp DEF TypeOK, EndTransaction
<1>2. \A i \in DOMAIN rest : i \in DOMAIN doStack /\ rest[i] = doStack[i]
  BY <1>1, StackElements
<1>. HIDE DEF x, rest
<1>3. ASSUME AddChild(x, rest)
      PROVE  Peek(rest) \in used
  <2>1. PICK i \in DOMAIN rest : Peek(rest) = rest[i]
    BY <1>1, <1>3, StackElements DEF AddChild
  <2>2. i \in DOMAIN doStack /\ Peek(rest) = doStack[i]
    BY <1>2, <2>1
  <2>3. HeldByLists /\ <<"open">> \in Holder
    BY HeldByOp, HolderOp
  <2>4. Holds(HeldBy, Peek(rest))
    BY <2>2, <2>3 DEF HeldByLists, Holds
  <2>5. Peek(rest) \in Item
    BY <1>1, <1>3, PopOp DEF AddChild
  <2>. QED  BY <2>4, <2>5 DEF Owned, HeldUsed
<1>4. undoKids' = undoKids \/ (AddChild(x, rest) /\ \A y \in Item : y # Peek(rest) => undoKids'[y] = undoKids[y])
  BY <1>1 DEF EndTransaction, Release, AddChild, Record, x, rest
<1>. QED  BY <1>1, <1>2, <1>3, <1>4 DEF FreshEmpty, OpenPlain

\* Children are undone and redone only of items that have been made.
LEMMA FreshStep ==
  ASSUME OnlyDoReenters, SafeInv, HistoryInv, Next
  PROVE  FreshEmpty' /\ OpenPlain'
<1>. USE DEF SafeInv, HistoryInv
<1>1. /\ TypeOK /\ doStack \in Seq(Item)
      /\ undoKids \in [Item -> Seq(Item)] /\ redoKids \in [Item -> Seq(Item)]
  BY DEF Typed, TypeOK
<1>2. ASSUME UNCHANGED kids, used \subseteq used', doStack' = doStack
      PROVE  FreshEmpty' /\ OpenPlain'
  BY <1>2 DEF FreshEmpty, OpenPlain, kids
<1>3. ASSUME NEW x \in Item, x \notin used, UNCHANGED kids, used' = used \cup {x},
             doStack' = Push(doStack, x)
      PROVE  FreshEmpty' /\ OpenPlain'
  <2>1. \A i \in DOMAIN doStack' : doStack'[i] = x \/ (i \in DOMAIN doStack /\ doStack'[i] = doStack[i])
    BY <1>1, <1>3, StackElements
  <2>. QED  BY <1>3, <2>1 DEF FreshEmpty, OpenPlain, kids
<1>4. ASSUME doStack # <<>>, NEW result, EndTransaction(result), used' = used, redoKids' = redoKids
      PROVE  FreshEmpty' /\ OpenPlain'
  BY <1>1, <1>4, EndTransactionFresh DEF FreshEmpty, OpenPlain
<1>5. CASE EndBatch
  BY <1>4, <1>5 DEF EndBatch, BatchOnTop
<1>6. CASE DoSucceeds
  BY <1>4, <1>6 DEF DoSucceeds, DoCompletes
<1>7. CASE DoFails
  <2>1. doStack # <<>> /\ doStack' = Pop(doStack) /\ UNCHANGED <<kids, used>>
    BY <1>7 DEF DoFails, DoCompletes
  <2>2. \A i \in DOMAIN doStack' : i \in DOMAIN doStack /\ doStack'[i] = doStack[i]
    BY <1>1, <2>1, StackElements
  <2>. QED  BY <2>1, <2>2 DEF FreshEmpty, OpenPlain, kids
<1>8. CASE ChildReturns
  <2>1. doStack' = <<>> /\ used' = used
    BY <1>8, ReturnsQuiet DEF ChildReturns, stacks
  <2>2. ASSUME NEW y \in Item \ used
        PROVE  undoKids'[y] = <<>> /\ redoKids'[y] = <<>>
    <3>1. undoKids[y] = <<>> /\ redoKids[y] = <<>>
      BY DEF FreshEmpty
    <3>2. CASE y = Caller.item
      <4>1. Source(Caller) = <<>>
        BY <3>1, <3>2 DEF Source
      <4>2. UNCHANGED <<undoKids[y], redoKids[y]>>
        BY <1>1, <1>8, <3>2, <4>1 DEF ChildReturns
      <4>. QED  BY <3>1, <4>2
    <3>3. CASE y # Caller.item
      BY <1>1, <1>8, <3>1, <3>3 DEF ChildReturns
    <3>. QED  BY <3>2, <3>3
  <2>. QED  BY <2>1, <2>2 DEF FreshEmpty, OpenPlain
<1>9. ASSUME NEW t \in Transaction, DoTransaction(t)
      PROVE  FreshEmpty' /\ OpenPlain'
  BY <1>3, <1>9 DEF DoTransaction, Item
<1>10. ASSUME NEW b \in Batch, BeginBatch(b)
       PROVE  FreshEmpty' /\ OpenPlain'
  BY <1>3, <1>10 DEF BeginBatch, Item
<1>11. ASSUME NEW t \in Transaction, RefuseTransaction(t)
       PROVE  FreshEmpty' /\ OpenPlain'
  BY <1>2, <1>11 DEF RefuseTransaction, stacks
<1>12. CASE \/ UndoTransaction \/ RedoTransaction \/ NextChild \/ ChildrenDone \/ RecoveryDone
            \/ TransactionReturns \/ Clear \/ ManagerReturns
  BY <1>2, <1>12 DEF UndoTransaction, RedoTransaction, NextChild, ChildrenDone, RecoveryDone,
                     TransactionReturns, Clear, ManagerReturns, stacks
<1>13. ASSUME NEW m \in MaxCounts, SetMaxTransactionCount(m)
       PROVE  FreshEmpty' /\ OpenPlain'
  BY <1>2, <1>13 DEF SetMaxTransactionCount
<1>. QED
  BY <1>5, <1>6, <1>7, <1>8, <1>9, <1>10, <1>11, <1>12, <1>13 DEF Next, Client, Manager

\* Together.
LEMMA HistoryInvariant ==
  ASSUME OnlyDoReenters
  PROVE  Spec => [](SafeInv /\ HistoryInv)
<1>1. Init => HistoryInv
  <2>. SUFFICES ASSUME Init
                PROVE  HistoryInv
    OBVIOUS
  <2>1. QuietStack /\ FreshEmpty /\ OpenPlain
    BY DEF Init, QuietStack, FreshEmpty, OpenPlain
  <2>2. FaultsListed
    <3>1. PICK s \in BoundedSeq(Misbehaviours, MaxFaults) : faulty = ToSet(s)
      BY DEF Init
    <3>2. s \in Seq(Misbehaviours)
      BY <3>1, SeqDef, EnvAssumption DEF BoundedSeq, SeqOf
    <3>. QED  BY <3>1, <3>2 DEF FaultsListed, ToSet
  <2>. QED  BY <2>1, <2>2 DEF HistoryInv
<1>2. SafeInv /\ HistoryInv /\ [Next]_vars => HistoryInv'
  <2>1. SafeInv /\ HistoryInv /\ Next => QuietStack' /\ FreshEmpty' /\ OpenPlain'
    BY FreshStep, QuietStep DEF SafeInv, HistoryInv
  <2>2. FaultsListed /\ [Next]_vars => FaultsListed'
    BY DEF FaultsListed, Next, Client, Manager, DoTransaction, RefuseTransaction, BeginBatch,
           EndBatch, UndoTransaction, RedoTransaction, Clear, SetMaxTransactionCount, DoFails,
           DoSucceeds, NextChild, ChildrenDone, RecoveryDone, TransactionReturns, ChildReturns,
           ManagerReturns, vars
  <2>3. HistoryInv /\ UNCHANGED vars => QuietStack' /\ FreshEmpty' /\ OpenPlain'
    BY DEF HistoryInv, QuietStack, FreshEmpty, OpenPlain, vars, stacks, kids
  <2>. QED  BY <2>1, <2>2, <2>3 DEF HistoryInv
<1>. QED  BY <1>1, <1>2, SafeInvariant, PTL DEF Spec

-----------------------------------------------------------------------------
(* The steps of the manager are steps of the history.                      *)

\* No listener fails WillMerge(): if one does, a transaction that has been
\* executed is lost.
MergesUnharmed == \A k \in FaultKinds : k[1] = "will" /\ k[2] = "Merge" => k[3] # "fail"

\* Where the children are.
Parts == [x \in Item |-> Children(x)]

LEMMA PartsOp ==
  ASSUME TypeOK
  PROVE  /\ Parts \in [Item -> Seq(Item)]
         /\ \A x \in Item : Parts[x] = undoKids[x] \o Reverse(redoKids[x])
<1>1. undoKids \in [Item -> Seq(Item)] /\ redoKids \in [Item -> Seq(Item)]
  BY DEF TypeOK
<1>2. ASSUME NEW x \in Item
      PROVE  Children(x) \in Seq(Item)
  <2>1. undoKids[x] \in Seq(Item) /\ Reverse(redoKids[x]) \in Seq(Item)
    BY <1>1, ReverseOp
  <2>. QED  BY <2>1, ConcatProperties DEF Children
<1>. QED  BY <1>2 DEF Parts, Children

\* The history takes sequences apart as the manager does.
LEMMA SameOperators ==
  /\ \A s : /\ Abstract!Front(s) = Front(s) /\ Abstract!Last(s) = Last(s)
           /\ Abstract!ToSet(s) = ToSet(s)
  /\ \A s, n : Abstract!Latest(s, n) = Newest(s, n)
  /\ \A m, n : Abstract!Least(m, n) = IF m < n THEN m ELSE n
  BY DEF Abstract!Front, Abstract!Last, Abstract!ToSet, Abstract!Latest, Abstract!Least,
         Front, Last, ToSet, Newest

\* A fault that happens is one of the kinds that may.
LEMMA MergeWillOp ==
  ASSUME FaultsListed, MergesUnharmed, NEW x
  PROVE  "fail" \notin WillNotify("Merge", x)
<1>1. <<x, "will", "Merge", "fail">> \notin faulty
  <2>. SUFFICES ASSUME <<x, "will", "Merge", "fail">> \in Misbehaviours
                PROVE  FALSE
    BY DEF FaultsListed
  <2>1. PICK y \in Item, k \in FaultKinds : <<x, "will", "Merge", "fail">> = <<y, k[1], k[2], k[3]>>
    BY DEF Misbehaviours
  <2>2. k[1] = "will" /\ k[2] = "Merge" /\ k[3] = "fail"
    BY <2>1
  <2>. QED  BY <2>2 DEF MergesUnharmed
<1>. QED  BY <1>1 DEF WillNotify, Outcomes

\* The item at the top of the do stack is let go, becomes a child, joins the
\* newest undo item or becomes it, as in the history.
LEMMA EndTransactionRefines ==
  ASSUME SafeInv, HistoryInv, MergesUnharmed, doStack # <<>>,
         NEW result, EndTransaction(result), UNCHANGED <<maxCount, redoKids>>
  PROVE  Abstract!EndUnrecorded \/ Abstract!EndInside \/ Abstract!EndOutside
<1>. DEFINE x == Peek(doStack)  rest == Pop(doStack)
<1>1. /\ TypeOK /\ doStack \in Seq(Item) /\ undoStack \in Seq(Item) /\ redoStack \in Seq(Item)
      /\ undoKids \in [Item -> Seq(Item)] /\ redoKids \in [Item -> Seq(Item)]
      /\ x \in Item /\ rest \in Seq(Item) /\ doStack' = rest
      /\ x = Last(doStack) /\ rest = Front(doStack)
      /\ Len(doStack) \in Nat /\ Len(doStack) # 0 /\ Len(rest) = Len(doStack) - 1
  BY PopOp, EmptySeq DEF SafeInv, Typed, TypeOK, EndTransaction, Peek, Pop
<1>2. CASE Release(x)
  <2>1. UNCHANGED <<maxCount, undoStack, redoStack, undoKids, redoKids>>
    BY <1>2 DEF Release
  <2>2. Children(x) = <<>> \/ ~EmptyBatch(x)
    <3>1. EmptyBatch(x) => Children(x) = <<>> \o Reverse(<<>>)
      BY DEF EmptyBatch, Children
    <3>2. <<>> \in Seq(Item) /\ Reverse(<<>>) = <<>>
      BY DEF Reverse
    <3>. QED  BY <3>1, <3>2, ConcatEmptySeq
  <2>3. Parts' = Parts
    BY <2>1 DEF Parts, Children
  <2>4. Parts[x] = Children(x)
    BY <1>1 DEF Parts
  <2>5. maxCount = 0 \/ x \in Transient \/ (x \in Batch /\ Parts[x] = <<>>)
    BY <1>2, <2>2, <2>4 DEF Release, EmptyBatch, IsTransient
  <2>6. doStack' = Front(doStack)
    BY <1>1
  <2>. HIDE DEF x, rest
  <2>. QED
    BY <1>1, <2>1, <2>3, <2>5, <2>6, SameOperators DEF Abstract!EndUnrecorded, Parts
<1>3. CASE AddChild(x, rest)
  <2>1. rest # <<>> /\ Peek(rest) \in Item /\ Peek(rest) = Last(Front(doStack))
    BY <1>1, <1>3, PopOp DEF AddChild, Peek
  <2>2. PICK p \in Item, c \in Item : p = Peek(rest) /\ c = x
    BY <1>1, <2>1
  <2>3. redoKids[p] = <<>>
    <3>1. PICK i \in DOMAIN rest : p = rest[i]
      BY <1>1, <2>1, <2>2, StackElements
    <3>2. i \in DOMAIN doStack /\ p = doStack[i]
      BY <1>1, <3>1, StackElements
    <3>. QED  BY <3>2 DEF HistoryInv, OpenPlain
  <2>4. undoKids' = [undoKids EXCEPT ![p] = Append(@, c)] /\ redoKids' = redoKids
    BY <1>3, <2>2 DEF AddChild, Push
  <2>. HIDE DEF x, rest
  <2>5. Children(p)' = Append(Children(p), c)
    <3>1. Reverse(redoKids[p]) = <<>>
      BY <2>3 DEF Reverse
    <3>2. undoKids[p] \in Seq(Item) /\ Append(undoKids[p], c) \in Seq(Item)
      BY <1>1, AppendProperties
    <3>3. undoKids'[p] = Append(undoKids[p], c)
      BY <1>1, <2>4
    <3>4. /\ undoKids[p] \o <<>> = undoKids[p]
          /\ Append(undoKids[p], c) \o <<>> = Append(undoKids[p], c)
      BY <3>2, ConcatEmptySeq
    <3>. QED  BY <2>4, <3>1, <3>3, <3>4 DEF Children
  <2>6. \A y \in Item : y # p => Children(y)' = Children(y)
    BY <1>1, <2>4 DEF Children
  <2>7. Parts' = [Parts EXCEPT ![p] = Append(@, c)]
    BY <2>5, <2>6 DEF Parts
  <2>8. Len(doStack) > 1
    BY <1>1, <2>1, EmptySeq
  <2>9. UNCHANGED <<maxCount, undoStack, redoStack>>
    BY <1>3 DEF AddChild
  <2>10. p = Last(Front(doStack)) /\ c = Last(doStack) /\ doStack' = Front(doStack)
    BY <1>1, <2>1, <2>2
  <2>. QED  BY <2>7, <2>8, <2>9, <2>10, SameOperators DEF Abstract!EndInside, Parts
<1>4. CASE rest = <<>> /\ Record(x, result)
  <2>1. /\ Len(doStack) = 1 /\ doStack' = <<>> /\ redoStack' = <<>> /\ maxCount # 0
        /\ UNCHANGED <<maxCount, undoKids, redoKids>>
    BY <1>1, <1>4, EmptySeq DEF Record
  <2>2. Parts' = Parts
    BY <2>1 DEF Parts, Children
  <2>3. CASE PushUndo(x)
    <3>. DEFINE kept == IF maxCount > 0 THEN Abstract!Least(maxCount - 1, Len(undoStack))
                                        ELSE Len(undoStack)
                s == IF AtMax /\ undoStack # <<>> THEN Tail(undoStack) ELSE undoStack
    <3>1. undoStack' = Append(s, x)
      BY <2>3 DEF PushUndo, Push
    <3>2. /\ Len(undoStack) \in Nat /\ Len(redoStack) \in Nat /\ maxCount \in Int
          /\ maxCount >= 0 => Len(undoStack) <= maxCount
      BY <1>1 DEF SafeInv, StackBound, TypeOK
    <3>3. s = SubSeq(undoStack, Len(undoStack) - kept + 1, Len(undoStack))
      <4>1. CASE AtMax /\ undoStack # <<>>
        <5>1. kept = Len(undoStack) - 1
          BY <3>2, <4>1 DEF AtMax, Abstract!Least
        <5>2. Len(undoStack) - kept + 1 = 2
          BY <3>2, <5>1
        <5>. QED  BY <1>1, <4>1, <5>2, TailIsSubSeq
      <4>2. CASE ~(AtMax /\ undoStack # <<>>)
        <5>1. kept = Len(undoStack)
          BY <1>1, <2>1, <3>2, <4>2, EmptySeq DEF AtMax, Abstract!Least
        <5>2. Len(undoStack) - kept + 1 = 1
          BY <3>2, <5>1
        <5>. QED  BY <1>1, <4>2, <5>2, SubSeqFull
      <4>. QED  BY <4>1, <4>2
    <3>4. undoStack' = Append(Abstract!Latest(undoStack, kept), Last(doStack))
      BY <1>1, <3>1, <3>3 DEF Abstract!Latest
    <3>5. Abstract!EndOutside
      <4>. HIDE DEF s, x, rest
      <4>. QED  BY <2>1, <2>2, <3>4, SameOperators DEF Abstract!EndOutside, Parts
    <3>. QED  BY <3>5
  <2>4. CASE ~PushUndo(x)
    <3>1. MayMerge(x) /\ "fail" \notin WillNotify("Merge", x)
      BY <1>4, <2>4, MergeWillOp DEF Record, HistoryInv
    <3>2. Absorbs(Peek(undoStack), x) /\ undoStack' = undoStack
      BY <1>4, <2>4, <3>1 DEF Record
    <3>3. /\ undoStack # <<>> /\ Last(undoStack) \in Merging /\ Last(doStack) \notin Batch
      BY <1>1, <3>1, <3>2, ItemAssumption DEF MayMerge, Absorbs, Peek
    <3>4. Abstract!EndOutside
      <4>. HIDE DEF x, rest
      <4>. QED  BY <2>1, <2>2, <3>2, <3>3, SameOperators DEF Abstract!EndOutside, Parts
    <3>. QED  BY <3>4
  <2>. QED  BY <2>3, <2>4
<1>. QED  BY <1>2, <1>3, <1>4 DEF EndTransaction

\* What the history calls held is on one of the manager's lists.
LEMMA HeldHolds ==
  ASSUME TypeOK, NEW x \in Abstract!Held
  PROVE  Holds(HeldBy, x)
<1>. DEFINE Listed(h) == \E i \in DOMAIN HeldBy[h] : HeldBy[h][i] = x
<1>1. /\ HeldByLists
      /\ undoKids \in [Item -> Seq(Item)] /\ redoKids \in [Item -> Seq(Item)]
  BY HeldByOp DEF TypeOK
<1>2. ASSUME NEW h \in Holder, Listed(h)
      PROVE  Holds(HeldBy, x)
  BY <1>1, <1>2 DEF Holds, HeldByLists
<1>3. CASE x \in ToSet(doStack) \cup ToSet(undoStack) \cup ToSet(redoStack)
  <2>1. Listed(<<"open">>) \/ Listed(<<"undo">>) \/ Listed(<<"redo">>)
    BY <1>1, <1>3 DEF HeldByLists, ToSet
  <2>. QED  BY <1>2, <2>1, HolderOp
<1>4. ASSUME NEW y \in Item, x \in ToSet(Parts[y])
      PROVE  Holds(HeldBy, x)
  <2>. DEFINE u == undoKids[y]  r == redoKids[y]  b == Reverse(r)
  <2>1. /\ u \in Seq(Item) /\ r \in Seq(Item) /\ b \in Seq(Item) /\ Len(b) = Len(r)
        /\ \A i \in 1..Len(r) : b[i] = r[Len(r) - i + 1]
    BY <1>1, ReverseOp
  <2>2. PICK i \in DOMAIN (u \o b) : x = (u \o b)[i]
    BY <1>4, PartsOp DEF ToSet
  <2>. HIDE DEF u, r, b
  <2>3. /\ i \in 1..Len(u) + Len(b) /\ Len(u) \in Nat /\ Len(r) \in Nat
        /\ x = IF i <= Len(u) THEN u[i] ELSE b[i - Len(u)]
    <3>1. u \in Seq(Item) /\ b \in Seq(Item)
      BY <2>1
    <3>2. /\ u \o b \in Seq(Item) /\ Len(u \o b) = Len(u) + Len(b)
          /\ \A j \in 1..Len(u) + Len(b) : (u \o b)[j] = IF j <= Len(u) THEN u[j] ELSE b[j - Len(u)]
      BY ONLY <3>1, ConcatProperties
    <3>3. i \in 1..Len(u) + Len(b)
      BY ONLY <2>2, <3>2
    <3>. QED  BY <2>1, <2>2, <3>2, <3>3
  <2>4. CASE i <= Len(u)
    <3>1. i \in DOMAIN u /\ u[i] = x
      BY <2>1, <2>3, <2>4
    <3>2. Listed(<<"undo", y>>)
      BY <1>1, <3>1 DEF HeldByLists, u
    <3>. QED  BY <1>2, <3>2, HolderOp
  <2>5. CASE ~(i <= Len(u))
    <3>1. i - Len(u) \in 1..Len(r) /\ x = b[i - Len(u)]
      BY <2>1, <2>3, <2>5
    <3>2. Len(r) - (i - Len(u)) + 1 \in 1..Len(r) /\ DOMAIN r = 1..Len(r)
      <4>1. i - Len(u) \in Nat /\ DOMAIN r = 1..Len(r)
        BY <2>1, <3>1
      <4>. QED  BY ONLY <2>3, <3>1, <4>1
    <3>3. \E j \in DOMAIN r : r[j] = x
      BY <2>1, <3>1, <3>2
    <3>4. Listed(<<"redo", y>>)
      BY <1>1, <3>3 DEF HeldByLists, r
    <3>. QED  BY <1>2, <3>4, HolderOp
  <2>. QED  BY <2>4, <2>5
<1>. QED  BY <1>3, <1>4, SameOperators DEF Abstract!Held, Parts

\* A transaction or a batch that is begun is new and has no parts yet.
LEMMA BeginRefines ==
  ASSUME SafeInv, HistoryInv, NEW x \in Item, x \notin used, doStack' = Push(doStack, x),
         UNCHANGED <<maxCount, undoStack, redoStack, kids>>
  PROVE  Abstract!Begin(x)
<1>1. TypeOK
  BY DEF SafeInv, Typed
<1>2. x \notin Abstract!Held
  BY <1>1, HeldHolds DEF SafeInv, Owned, HeldUsed
<1>3. Parts[x] = <<>>
  <2>1. undoKids[x] = <<>> /\ redoKids[x] = <<>> /\ Reverse(<<>>) = <<>>
    BY DEF HistoryInv, FreshEmpty, Reverse
  <2>2. <<>> \o <<>> = <<>>
    BY ConcatEmptySeq
  <2>. QED  BY <1>1, <2>1, <2>2, PartsOp
<1>4. Parts' = Parts
  BY DEF Parts, Children, kids
<1>. QED  BY <1>2, <1>3, <1>4 DEF Abstract!Begin, Parts, Push

\* A new limit prunes the two stacks as the history does.
LEMMA SetLimitRefines ==
  ASSUME SafeInv, NEW m \in MaxCounts, SetMaxTransactionCount(m)
  PROVE  \E n \in MaxCounts \cup {-1} : Abstract!SetLimit(n)
<1>. DEFINE n == IF m < 0 THEN -1 ELSE m
            redos == IF n < 0 THEN Len(redoStack) ELSE Abstract!Least(n, Len(redoStack))
            undos == IF n < 0 THEN Len(undoStack) ELSE Abstract!Least(n - redos, Len(undoStack))
<1>1. /\ m \in Int /\ n \in Int /\ n \in MaxCounts \cup {-1}
      /\ Len(undoStack) \in Nat /\ Len(redoStack) \in Nat
  BY CountAssumption DEF SafeInv, Typed, TypeOK
<1>2. redos = KeptRedos(m)
  BY <1>1 DEF KeptRedos, Abstract!Least
<1>3. undos = KeptUndos(m)
  <2>1. CASE m < 0
    BY <1>1, <2>1 DEF KeptUndos
  <2>2. CASE m >= 0 /\ Len(redoStack) > m
    <3>1. redos = m /\ KeptRedos(m) = m /\ n = m
      BY <1>1, <1>2, <2>2 DEF KeptRedos
    <3>2. undos = Abstract!Least(n - redos, Len(undoStack))
      BY <2>2, <3>1
    <3>. HIDE DEF redos, undos, n
    <3>4. undos = 0
      BY <1>1, <3>1, <3>2 DEF Abstract!Least
    <3>3. ~(Len(undoStack) + Len(redoStack) <= m) /\ ~(m < 0) /\ m - KeptRedos(m) = 0
      BY <1>1, <2>2, <3>1
    <3>. QED  BY <3>3, <3>4 DEF KeptUndos
  <2>3. CASE m >= 0 /\ ~(Len(redoStack) > m)
    <3>1. redos = Len(redoStack) /\ KeptRedos(m) = Len(redoStack) /\ n = m
      BY <1>1, <1>2, <2>3 DEF KeptRedos
    <3>2. undos = Abstract!Least(n - redos, Len(undoStack))
      BY <2>3, <3>1
    <3>. HIDE DEF redos, undos, n
    <3>5. undos = IF m - Len(redoStack) < Len(undoStack) THEN m - Len(redoStack) ELSE Len(undoStack)
      BY <3>1, <3>2 DEF Abstract!Least
    <3>3. KeptUndos(m) = IF Len(undoStack) + Len(redoStack) <= m THEN Len(undoStack)
                                                                 ELSE m - Len(redoStack)
      BY <1>1, <2>3, <3>1 DEF KeptUndos
    <3>4. ASSUME NEW u \in Nat, NEW r \in Nat, m \in Int
          PROVE  (IF m - r < u THEN m - r ELSE u) = IF u + r <= m THEN u ELSE m - r
      BY <3>4
    <3>. QED  BY <1>1, <3>3, <3>4, <3>5
  <2>. QED  BY <1>1, <2>1, <2>2, <2>3
<1>4. /\ doStack = <<>> /\ maxCount' = n
      /\ undoStack' = Newest(undoStack, undos) /\ redoStack' = Newest(redoStack, redos)
      /\ UNCHANGED <<doStack, kids>>
  BY <1>2, <1>3 DEF SetMaxTransactionCount, Executing
<1>5. Parts' = Parts
  BY <1>4 DEF Parts, Children, kids
<1>6. Abstract!SetLimit(n)
  BY <1>4, <1>5, SameOperators DEF Abstract!SetLimit, Parts
<1>. QED  BY <1>1, <1>6

\* An undo or redo that succeeds moves the item on top; no item is open.
LEMMA ManagerReturnsRefines ==
  ASSUME SafeInv, HistoryInv, ManagerReturns
  PROVE  Abstract!Undo \/ Abstract!Redo \/ UNCHANGED Abstract!history
<1>1. calls \in Seq(Frame) /\ calls # <<>> /\ DoOrder(calls) /\ Top.phase = "return"
  BY DEF SafeInv, Typed, TypeOK, DosInv, ManagerReturns
<1>2. Len(calls) \in DOMAIN calls /\ Top = calls[Len(calls)]
  BY <1>1, EmptySeq DEF Top, Last
<1>3. doStack = <<>>
  BY <1>1, <1>2 DEF HistoryInv, QuietStack, DoOrder
<1>4. UNCHANGED <<maxCount, doStack, kids>>
  BY DEF ManagerReturns
<1>5. Parts' = Parts
  BY <1>4 DEF Parts, Children, kids
<1>. DEFINE src == IF Top.op = "undo" THEN undoStack ELSE redoStack
<1>6. CASE Top.res = "ok" /\ src # <<>> /\ Top.op = "undo"
  <2>1. /\ undoStack # <<>> /\ undoStack' = Pop(undoStack)
        /\ redoStack' = Push(redoStack, Peek(undoStack))
    BY <1>6 DEF ManagerReturns
  <2>2. Abstract!Undo
    BY <1>3, <1>4, <1>5, <2>1, SameOperators DEF Abstract!Undo, Parts, Pop, Push, Peek
  <2>. QED  BY <2>2
<1>7. CASE Top.res = "ok" /\ src # <<>> /\ Top.op # "undo"
  <2>1. /\ redoStack # <<>> /\ redoStack' = Pop(redoStack)
        /\ undoStack' = Push(undoStack, Peek(redoStack))
    BY <1>7 DEF ManagerReturns
  <2>2. Abstract!Redo
    BY <1>3, <1>4, <1>5, <2>1, SameOperators DEF Abstract!Redo, Parts, Pop, Push, Peek
  <2>. QED  BY <2>2
<1>8. CASE ~(Top.res = "ok" /\ src # <<>>)
  <2>1. UNCHANGED <<undoStack, redoStack>>
    BY <1>8 DEF ManagerReturns
  <2>2. UNCHANGED Abstract!history
    BY <1>4, <1>5, <2>1 DEF Abstract!history, Parts
  <2>. QED  BY <2>2
<1>. QED  BY <1>6, <1>7, <1>8

\* Undoing or redoing a child changes no item's list of children.
LEMMA ChildReturnsRefines ==
  ASSUME SafeInv, ChildReturns
  PROVE  UNCHANGED Abstract!history
<1>1. /\ TypeOK /\ calls # <<>> /\ InLoop /\ Typed
      /\ undoKids \in [Item -> Seq(Item)] /\ redoKids \in [Item -> Seq(Item)]
      /\ UNCHANGED <<maxCount, stacks>>
  BY DEF SafeInv, Typed, TypeOK, ChildReturns
<1>2. Caller.item \in Item
  BY <1>1, CallerOp
<1>3. PICK x \in Item : x = Caller.item
  BY <1>2
<1>4. PICK src : src = Source(Caller)
  OBVIOUS
<1>5. \A y \in Item \ {x} : undoKids'[y] = undoKids[y] /\ redoKids'[y] = redoKids[y]
  BY <1>1, <1>3 DEF ChildReturns
<1>6. undoKids'[x] \o Reverse(redoKids'[x]) = undoKids[x] \o Reverse(redoKids[x])
  <2>. DEFINE moves == Top.res = "ok" /\ src # <<>>
  <2>1. undoKids[x] \in Seq(Item) /\ redoKids[x] \in Seq(Item)
    BY <1>1
  <2>2. CASE moves /\ UndoesKids(Caller)
    <3>1. src = undoKids[x]
      BY <1>3, <1>4, <2>2 DEF Source
    <3>2. /\ undoKids'[x] = Front(undoKids[x])
          /\ redoKids'[x] = Append(redoKids[x], Last(undoKids[x]))
      BY <1>1, <1>3, <1>4, <2>2, <3>1 DEF ChildReturns, Pop, Push, Peek
    <3>. QED  BY <2>1, <2>2, <3>1, <3>2, UndoneInPlace
  <2>3. CASE moves /\ ~UndoesKids(Caller)
    <3>1. src = redoKids[x]
      BY <1>3, <1>4, <2>3 DEF Source
    <3>2. /\ redoKids'[x] = Front(redoKids[x])
          /\ undoKids'[x] = Append(undoKids[x], Last(redoKids[x]))
      BY <1>1, <1>3, <1>4, <2>3, <3>1 DEF ChildReturns, Pop, Push, Peek
    <3>. QED  BY <2>1, <2>3, <3>1, <3>2, RedoneInPlace
  <2>4. CASE ~moves
    <3>1. undoKids'[x] = undoKids[x] /\ redoKids'[x] = redoKids[x]
      BY <1>1, <1>3, <1>4, <2>4 DEF ChildReturns
    <3>. QED  BY <3>1
  <2>. QED  BY <2>2, <2>3, <2>4
<1>7. \A y \in Item : Children(y)' = Children(y)
  BY <1>5, <1>6 DEF Children
<1>8. Parts' = Parts
  BY <1>7 DEF Parts
<1>. QED  BY <1>1, <1>8 DEF Abstract!history, Parts, stacks

\* nsTransactionManager implements the history that nsITransactionManager
\* promises, for any number of items, nested in any way, any limits set at any
\* time, any call-outs that fail or veto in any combination, recovery included,
\* where transactions call the manager from doTransaction() only and no listener
\* fails WillMerge().
THEOREM ImplementsHistory ==
  ASSUME OnlyDoReenters, MergesUnharmed
  PROVE  Spec => KeepsHistory
<1>1. Init => Abstract!Start
  <2>1. Init => Parts = [x \in Item |-> <<>>]
    <3>1. Reverse(<<>>) = <<>> /\ <<>> \o <<>> = <<>>
      BY ConcatEmptySeq DEF Reverse
    <3>. QED  BY <3>1 DEF Init, Parts, Children
  <2>. QED  BY <2>1 DEF Init, Abstract!Start, Parts
<1>2. SafeInv /\ HistoryInv /\ [Next]_vars => [Abstract!Step]_(Abstract!history)
  <2>. SUFFICES ASSUME SafeInv, HistoryInv, [Next]_vars
                PROVE  Abstract!Step \/ UNCHANGED Abstract!history
    OBVIOUS
  <2>1. ASSUME UNCHANGED <<maxCount, stacks, kids>>
        PROVE  UNCHANGED Abstract!history
    <3>1. Parts' = Parts
      BY <2>1 DEF Parts, Children, kids
    <3>. QED  BY <2>1, <3>1 DEF Abstract!history, Parts, stacks
  <2>2. ASSUME NEW t \in Transaction, DoTransaction(t)
        PROVE  Abstract!Step
    <3>1. t \in Item
      BY DEF Item
    <3>2. Abstract!Begin(t)
      BY <2>2, <3>1, BeginRefines DEF DoTransaction
    <3>. QED  BY <3>1, <3>2 DEF Abstract!Step
  <2>3. ASSUME NEW b \in Batch, BeginBatch(b)
        PROVE  Abstract!Step
    <3>1. b \in Item
      BY DEF Item
    <3>2. Abstract!Begin(b)
      BY <2>3, <3>1, BeginRefines DEF BeginBatch
    <3>. QED  BY <3>1, <3>2 DEF Abstract!Step
  <2>4. CASE EndBatch
    <3>1. doStack # <<>> /\ EndTransaction("ok") /\ UNCHANGED <<maxCount, redoKids>>
      BY <2>4 DEF EndBatch, BatchOnTop
    <3>2. Abstract!EndUnrecorded \/ Abstract!EndInside \/ Abstract!EndOutside
      BY <3>1, EndTransactionRefines
    <3>. QED  BY <3>2 DEF Abstract!Step
  <2>5. CASE DoSucceeds
    <3>1. PICK result \in Result : EndTransaction(result)
      BY <2>5 DEF DoSucceeds
    <3>2. doStack # <<>> /\ UNCHANGED <<maxCount, redoKids>>
      BY <2>5 DEF DoSucceeds, DoCompletes
    <3>3. Abstract!EndUnrecorded \/ Abstract!EndInside \/ Abstract!EndOutside
      BY <3>1, <3>2, EndTransactionRefines
    <3>. QED  BY <3>3 DEF Abstract!Step
  <2>6. CASE DoFails
    <3>1. /\ doStack # <<>> /\ doStack' = Front(doStack)
          /\ UNCHANGED <<maxCount, undoStack, redoStack, kids>>
      BY <2>6 DEF DoFails, DoCompletes, Pop
    <3>2. Parts' = Parts
      BY <3>1 DEF Parts, Children, kids
    <3>3. Abstract!Abandon
      BY <3>1, <3>2, SameOperators DEF Abstract!Abandon, Parts
    <3>. QED  BY <3>3 DEF Abstract!Step
  <2>7. CASE Clear
    <3>1. undoStack' = <<>> /\ redoStack' = <<>> /\ UNCHANGED <<maxCount, doStack, kids>>
      BY <2>7 DEF Clear
    <3>2. Parts' = Parts
      BY <3>1 DEF Parts, Children, kids
    <3>3. Abstract!Forget
      BY <3>1, <3>2 DEF Abstract!Forget, Parts
    <3>. QED  BY <3>3 DEF Abstract!Step
  <2>8. ASSUME NEW m \in MaxCounts, SetMaxTransactionCount(m)
        PROVE  Abstract!Step
    BY <2>8, SetLimitRefines DEF Abstract!Step
  <2>9. CASE ManagerReturns
    BY <2>9, ManagerReturnsRefines DEF Abstract!Step
  <2>10. CASE ChildReturns
    BY <2>10, ChildReturnsRefines
  <2>11. CASE \/ UndoTransaction \/ RedoTransaction \/ NextChild \/ ChildrenDone
              \/ RecoveryDone \/ TransactionReturns \/ UNCHANGED vars
              \/ \E t \in Transaction : RefuseTransaction(t)
    BY <2>1, <2>11 DEF UndoTransaction, RedoTransaction, NextChild, ChildrenDone, RecoveryDone,
                       TransactionReturns, RefuseTransaction, vars
  <2>. QED
    BY <2>2, <2>3, <2>4, <2>5, <2>6, <2>7, <2>8, <2>9, <2>10, <2>11 DEF Next, Client, Manager
<1>. QED
  BY <1>1, <1>2, HistoryInvariant, PTL DEF Spec, KeepsHistory, Abstract!History
=============================================================================
