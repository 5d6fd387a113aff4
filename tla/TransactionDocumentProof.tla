---------------------- MODULE TransactionDocumentProof ----------------------
(***************************************************************************)
(* The document and the stacks. At every moment a transaction is in force  *)
(* when a list of done items holds it or, if an activation is undoing or   *)
(* redoing it, when that activation has not yet run its undoTransaction()  *)
(* or has already run its redoTransaction(); the document has the effects  *)
(* of the transactions in force. When the last activation is over these    *)
(* are the items that the undo stack accounts for.                         *)
(*                                                                         *)
(* And the order of execution: every list of items is in it, and what a    *)
(* transaction found in the document is what came before it. So when its   *)
(* own undoTransaction() or redoTransaction() is run, in whichever undo,   *)
(* redo or recovery, that is what the document has but for its own effect. *)
(***************************************************************************)
EXTENDS TransactionLoopsProof, DataInduction

\* No transaction's own doTransaction() fails: one that does takes what it has
\* run with it, executed but on no stack.
DosSucceed == \A k \in FaultKinds : ~(k[1] = "own" /\ k[2] = "Do")

\* The activation's item has its own effect in the document.
OwnIn(f) ==
  IF f.op = "undo" THEN ~(f.phase = "return" /\ f.res = "ok")
  ELSE f.phase \in {"kids", "recover", "rollback"} \/ (f.phase = "return" /\ f.res = "ok")

InFrames(s, y) == \E i \in DOMAIN s : s[i].op # "do" /\ s[i].item = y /\ OwnIn(s[i])
InForce(y)     == IF Busy(calls, y) THEN InFrames(calls, y) ELSE IsDone(y)
Present        == {t \in Transaction : InForce(t)}

\* The document, but for what no stack accounts for.
DocIs == /\ doc \ Untracked = InEffect(Present) \ Untracked
         /\ InEffect(Present) \subseteq doc

\* No two transactions that are held have an effect in common.
Held(y) == IsDone(y) \/ IsUndone(y)
Disjoint ==
  /\ \A s, t \in Transaction : Held(s) /\ Held(t) /\ s # t => Effects(s) \cap Effects(t) = {}
  /\ \A t \in Transaction : absorbed[t] \subseteq used /\ (t \notin used => absorbed[t] = {})

\* What is done is on a stack, below it, or below what was let go; so is what is
\* being undone or redone.
Roots    == ToSet(doStack) \cup ToSet(undoStack) \cup ToSet(redoStack) \cup forgotten
Anchored == \A y \in Item : IsDone(y) \/ Busy(calls, y) => y \in Reach(AllKids, Roots)

DocInv == DocIs /\ Disjoint /\ Anchored

-----------------------------------------------------------------------------
(* What is below a set of items.                                           *)

\* Reach() holds the set it starts from, and the children of what it holds.
LEMMA ReachHolds ==
  ASSUME NEW f, NEW S \in SUBSET Item, \A x \in Item : ToSet(f[x]) \subseteq Item
  PROVE  /\ S \subseteq Reach(f, S)
         /\ \A x \in Reach(f, S) : x \in Item /\ ToSet(f[x]) \subseteq Reach(f, S)
<1>. DEFINE Shut(C) == \A x \in C : ToSet(f[x]) \subseteq C
<1>1. \A w : w \in Reach(f, S) <=> w \in Item /\ \A C \in SUBSET Item : S \subseteq C /\ Shut(C) => w \in C
  BY DEF Reach
<1>2. \A C, x, w : Shut(C) /\ x \in C /\ w \in ToSet(f[x]) => w \in C
  OBVIOUS
<1>. HIDE DEF Shut
<1>3. S \subseteq Reach(f, S)
  BY <1>1
<1>4. ASSUME NEW x \in Reach(f, S), NEW w \in ToSet(f[x])
      PROVE  w \in Reach(f, S)
  <2>1. x \in Item /\ w \in Item
    BY <1>1, <1>4
  <2>. QED  BY <1>1, <1>2, <1>4, <2>1
<1>. QED  BY <1>1, <1>3, <1>4

\* It is the least such set.
LEMMA ReachLeast ==
  ASSUME NEW f, NEW S, NEW C \in SUBSET Item, S \subseteq C, \A x \in C : ToSet(f[x]) \subseteq C
  PROVE  Reach(f, S) \subseteq C
  BY DEF Reach

\* With more children and more to start from it grows, but for what is in L.
LEMMA ReachGrows ==
  ASSUME NEW f, NEW g, NEW S, NEW T \in SUBSET Item, NEW L \in SUBSET Item,
         \A x \in Item : ToSet(f[x]) \subseteq ToSet(g[x]) /\ ToSet(g[x]) \subseteq Item,
         \A x \in L : ToSet(f[x]) \subseteq L,
         S \subseteq Reach(g, T) \cup L
  PROVE  Reach(f, S) \subseteq Reach(g, T) \cup L
<1>1. \A x \in Reach(g, T) : x \in Item /\ ToSet(g[x]) \subseteq Reach(g, T)
  BY ReachHolds
<1>. DEFINE C == Reach(g, T) \cup L
<1>2. C \in SUBSET Item /\ S \subseteq C
  BY <1>1
<1>3. \A x \in C : ToSet(f[x]) \subseteq C
  BY <1>1
<1>. HIDE DEF C
<1>4. Reach(f, S) \subseteq C
  BY <1>2, <1>3, ReachLeast
<1>. QED  BY <1>4 DEF C

\* From two sets it is what is below either.
LEMMA ReachUnion ==
  ASSUME NEW f, NEW S \in SUBSET Item, NEW T \in SUBSET Item,
         \A x \in Item : ToSet(f[x]) \subseteq Item
  PROVE  Reach(f, S \cup T) \subseteq Reach(f, S) \cup Reach(f, T)
<1>1. /\ S \subseteq Reach(f, S) /\ T \subseteq Reach(f, T)
      /\ \A x \in Reach(f, S) : x \in Item /\ ToSet(f[x]) \subseteq Reach(f, S)
      /\ \A x \in Reach(f, T) : x \in Item /\ ToSet(f[x]) \subseteq Reach(f, T)
  BY ReachHolds
<1>. DEFINE C == Reach(f, S) \cup Reach(f, T)
<1>2. C \in SUBSET Item /\ S \cup T \subseteq C /\ \A x \in C : ToSet(f[x]) \subseteq C
  BY <1>1
<1>. HIDE DEF C
<1>3. Reach(f, S \cup T) \subseteq C
  BY <1>2, ReachLeast
<1>. QED  BY <1>3 DEF C

\* What is below the stacks and below what was let go, from step to step.
LEMMA BelowGrows ==
  ASSUME TypeOK, TypeOK', \A x \in Item : KidsOf(x) \subseteq KidsOf(x)',
         NEW S, NEW T \in SUBSET Item, NEW L \in SUBSET Item, \A x \in L : KidsOf(x) \subseteq L,
         S \subseteq Reach(AllKids', T) \cup L
  PROVE  Reach(AllKids, S) \subseteq Reach(AllKids', T) \cup L
<1>1. \A x \in Item : ToSet(AllKids[x]) = KidsOf(x) /\ KidsOf(x) \subseteq Item
  BY AllKidsOp
<1>2. \A x \in Item : ToSet(AllKids'[x]) = KidsOf(x)'
  <2>1. AllKidsShown'
    BY AllKidsSeen, PTL
  <2>. QED  BY <2>1 DEF AllKidsShown
<1>3. \A x \in Item : KidsOf(x)' \subseteq Item
  <2>1. \A x \in Item : undoKids'[x] \in Seq(Item) /\ redoKids'[x] \in Seq(Item)
    BY DEF TypeOK
  <2>. QED  BY <2>1, ToSetOp DEF KidsOf
<1>4. PICK f, g : f = AllKids /\ g = AllKids'
  OBVIOUS
<1>5. /\ \A x \in Item : ToSet(f[x]) \subseteq ToSet(g[x]) /\ ToSet(g[x]) \subseteq Item
      /\ \A x \in L : ToSet(f[x]) \subseteq L
      /\ S \subseteq Reach(g, T) \cup L
  BY <1>1, <1>2, <1>3, <1>4
<1>6. Reach(f, S) \subseteq Reach(g, T) \cup L
  BY <1>5, ReachGrows
<1>. QED  BY <1>4, <1>6

-----------------------------------------------------------------------------
(* What the steps leave.                                                   *)

\* What no stack accounts for stays so.
LEMMA UntrackedGrows ==
  ASSUME TypeOK, TypeOK', \A x \in Item : KidsOf(x) \subseteq KidsOf(x)',
         forgotten \subseteq forgotten', \A t \in Transaction : absorbed[t] \subseteq absorbed'[t]
  PROVE  /\ forgotten' \subseteq Reach(AllKids, forgotten)'
         /\ Reach(AllKids, forgotten) \subseteq Reach(AllKids, forgotten)'
         /\ Untracked \subseteq Untracked'
<1>1. forgotten' \in SUBSET Item
  BY DEF TypeOK
<1>2. \A x \in Item : ToSet(AllKids'[x]) \subseteq Item
  <2>1. AllKidsShown'
    BY AllKidsSeen, PTL
  <2>2. \A x \in Item : KidsOf(x)' \subseteq Item
    <3>1. \A x \in Item : undoKids'[x] \in Seq(Item) /\ redoKids'[x] \in Seq(Item)
      BY DEF TypeOK
    <3>. QED  BY <3>1, ToSetOp DEF KidsOf
  <2>. QED  BY <2>1, <2>2 DEF AllKidsShown
<1>3. forgotten' \subseteq Reach(AllKids', forgotten')
  <2>. PICK g, T : g = AllKids' /\ T = forgotten'
    OBVIOUS
  <2>. QED  BY <1>1, <1>2, ReachHolds
<1>4. Reach(AllKids, forgotten) \subseteq Reach(AllKids', forgotten')
  <2>1. Reach(AllKids, forgotten) \subseteq Reach(AllKids', forgotten') \cup {}
    BY <1>1, <1>3, BelowGrows
  <2>. QED  BY <2>1
<1>5. Reach(AllKids, forgotten)' = Reach(AllKids', forgotten')
  BY DEF Reach
<1>6. Untracked \subseteq Untracked'
  <2>. PICK A, B : A = Reach(AllKids, forgotten) /\ B = Reach(AllKids, forgotten)'
    OBVIOUS
  <2>1. A \subseteq B
    BY <1>4, <1>5
  <2>. QED  BY <2>1 DEF Untracked, InEffect, Effects
<1>. QED  BY <1>3, <1>4, <1>5, <1>6

\* The document and the transactions in force stay as they are, but for some of
\* those that no stack accounts for.
LEMMA DocSame ==
  ASSUME DocIs, Untracked \subseteq Untracked', doc' = doc, absorbed' = absorbed,
         \A t \in Transaction : /\ InForce(t)' => InForce(t)
                                /\ InForce(t) => InForce(t)' \/ t \in Reach(AllKids, forgotten)'
  PROVE  DocIs'
<1>1. \A t \in Transaction : Effects(t)' = Effects(t)
  BY DEF Effects
<1>2. \A t \in Transaction : t \in Reach(AllKids, forgotten)' => Effects(t) \subseteq Untracked'
  BY <1>1 DEF Untracked, InEffect
<1>3. \A y : y \notin Untracked => (y \in doc <=> \E t \in Transaction : InForce(t) /\ y \in Effects(t))
  BY DEF DocIs, InEffect, Present
<1>4. \A y : y \notin Untracked' => (y \in doc' <=> \E t \in Transaction : InForce(t)' /\ y \in Effects(t)')
  <2>. SUFFICES ASSUME NEW y, y \notin Untracked'
                PROVE  y \in doc' <=> \E t \in Transaction : InForce(t)' /\ y \in Effects(t)'
    OBVIOUS
  <2>1. \A t \in Transaction : y \in Effects(t) => (InForce(t)' <=> InForce(t))
    BY <1>2
  <2>2. y \in doc <=> \E t \in Transaction : InForce(t) /\ y \in Effects(t)
    BY <1>3
  <2>. QED  BY <1>1, <2>1, <2>2
<1>5. \A t \in Transaction : InForce(t)' => Effects(t)' \subseteq doc'
  <2>1. \A t \in Transaction : InForce(t) => Effects(t) \subseteq doc
    BY DEF DocIs, InEffect, Present
  <2>. QED  BY <1>1, <2>1
<1>. QED  BY <1>4, <1>5 DEF DocIs, InEffect, Present

\* A transaction's own effect is added.
LEMMA DocAdds ==
  ASSUME DocIs, Untracked \subseteq Untracked', absorbed' = absorbed, NEW x \in Transaction,
         doc' = doc \cup Effects(x), InForce(x)',
         \A t \in Transaction : t # x => (InForce(t)' <=> InForce(t))
  PROVE  DocIs'
<1>1. \A t \in Transaction : Effects(t)' = Effects(t)
  BY DEF Effects
<1>2. \A y : y \notin Untracked => (y \in doc <=> \E t \in Transaction : InForce(t) /\ y \in Effects(t))
  BY DEF DocIs, InEffect, Present
<1>3. \A y : y \notin Untracked' => (y \in doc' <=> \E t \in Transaction : InForce(t)' /\ y \in Effects(t)')
  <2>. SUFFICES ASSUME NEW y, y \notin Untracked'
                PROVE  y \in doc' <=> \E t \in Transaction : InForce(t)' /\ y \in Effects(t)'
    OBVIOUS
  <2>1. y \in doc <=> \E t \in Transaction : InForce(t) /\ y \in Effects(t)
    BY <1>2
  <2>2. CASE y \in Effects(x)
    BY <1>1, <2>2
  <2>3. CASE y \notin Effects(x)
    BY <1>1, <2>1, <2>3
  <2>. QED  BY <2>2, <2>3
<1>4. \A t \in Transaction : InForce(t)' => Effects(t)' \subseteq doc'
  <2>1. \A t \in Transaction : InForce(t) => Effects(t) \subseteq doc
    BY DEF DocIs, InEffect, Present
  <2>. QED  BY <1>1, <2>1
<1>. QED  BY <1>3, <1>4 DEF DocIs, InEffect, Present

\* It is taken back, with what no other transaction in force has.
LEMMA DocDrops ==
  ASSUME DocIs, Untracked \subseteq Untracked', absorbed' = absorbed, NEW x \in Transaction,
         doc' = doc \ Effects(x), ~InForce(x)',
         \A t \in Transaction : t # x => (InForce(t)' <=> InForce(t)),
         \A t \in Transaction : t # x /\ InForce(t) => Effects(t) \cap Effects(x) = {}
  PROVE  DocIs'
<1>1. \A t \in Transaction : Effects(t)' = Effects(t)
  BY DEF Effects
<1>2. \A y : y \notin Untracked => (y \in doc <=> \E t \in Transaction : InForce(t) /\ y \in Effects(t))
  BY DEF DocIs, InEffect, Present
<1>3. \A y : y \notin Untracked' => (y \in doc' <=> \E t \in Transaction : InForce(t)' /\ y \in Effects(t)')
  <2>. SUFFICES ASSUME NEW y, y \notin Untracked'
                PROVE  y \in doc' <=> \E t \in Transaction : InForce(t)' /\ y \in Effects(t)'
    OBVIOUS
  <2>1. y \in doc <=> \E t \in Transaction : InForce(t) /\ y \in Effects(t)
    BY <1>2
  <2>2. CASE y \in Effects(x)
    BY <1>1, <2>2
  <2>3. CASE y \notin Effects(x)
    BY <1>1, <2>1, <2>3
  <2>. QED  BY <2>2, <2>3
<1>4. \A t \in Transaction : InForce(t)' => Effects(t)' \subseteq doc'
  <2>1. \A t \in Transaction : InForce(t) => Effects(t) \subseteq doc
    BY DEF DocIs, InEffect, Present
  <2>. QED  BY <1>1, <2>1
<1>. QED  BY <1>3, <1>4 DEF DocIs, InEffect, Present

\* Where absorbed stays the transactions that are held, and no new one, stay apart.
LEMMA DisjointSame ==
  ASSUME Disjoint, absorbed' = absorbed, used \subseteq used',
         \A t \in Transaction : Held(t)' => Held(t) \/ t \notin used
  PROVE  Disjoint'
<1>1. \A t \in Transaction : Effects(t)' = Effects(t)
  BY DEF Effects
<1>2. ASSUME NEW s \in Transaction, NEW t \in Transaction, Held(s)', Held(t)', s # t
      PROVE  Effects(s)' \cap Effects(t)' = {}
  <2>1. CASE Held(s) /\ Held(t)
    BY <1>1, <1>2, <2>1 DEF Disjoint
  <2>2. CASE s \notin used /\ t \in used
    BY <1>1, <1>2, <2>2 DEF Disjoint, Effects
  <2>3. CASE t \notin used /\ s \in used
    BY <1>1, <1>2, <2>3 DEF Disjoint, Effects
  <2>4. CASE s \notin used /\ t \notin used
    BY <1>1, <1>2, <2>4 DEF Disjoint, Effects
  <2>. QED  BY <1>2, <2>1, <2>2, <2>3, <2>4
<1>. QED  BY <1>2 DEF Disjoint

\* The roots stay or become children, but for what is in L and no longer done.
LEMMA AnchoredGrows ==
  ASSUME Anchored, TypeOK, TypeOK', \A x \in Item : KidsOf(x) \subseteq KidsOf(x)',
         NEW L \in SUBSET Item, \A x \in L : KidsOf(x) \subseteq L,
         \A y \in Roots : y \in Roots' \/ y \in L \/ \E z \in Roots' : y \in KidsOf(z)',
         \A y \in Item : IsDone(y)' \/ Busy(calls, y)' =>
            \/ y \in Roots' \/ (y \notin L /\ (IsDone(y) \/ Busy(calls, y)))
            \/ \E z \in Item : z \notin L /\ Busy(calls, z) /\ y \in KidsOf(z)
  PROVE  Anchored'
<1>1. Roots' \in SUBSET Item
  <2>1. /\ doStack' \in Seq(Item) /\ undoStack' \in Seq(Item) /\ redoStack' \in Seq(Item)
        /\ forgotten' \subseteq Item
    BY DEF TypeOK
  <2>. QED  BY <2>1, ToSetOp DEF Roots
<1>2. AllKidsShown'
  BY AllKidsSeen, PTL
<1>3. \A x \in Item : ToSet(AllKids'[x]) = KidsOf(x)' /\ KidsOf(x)' \subseteq Item
  <2>1. \A x \in Item : KidsOf(x)' \subseteq Item
    <3>1. \A x \in Item : undoKids'[x] \in Seq(Item) /\ redoKids'[x] \in Seq(Item)
      BY DEF TypeOK
    <3>. QED  BY <3>1, ToSetOp DEF KidsOf
  <2>. QED  BY <1>2, <2>1 DEF AllKidsShown
<1>4. /\ Roots' \subseteq Reach(AllKids', Roots')
      /\ \A x \in Reach(AllKids', Roots') : x \in Item /\ KidsOf(x)' \subseteq Reach(AllKids', Roots')
  <2>. PICK g, T : g = AllKids' /\ T = Roots'
    OBVIOUS
  <2>1. /\ T \subseteq Reach(g, T)
        /\ \A x \in Reach(g, T) : x \in Item /\ ToSet(g[x]) \subseteq Reach(g, T)
    BY <1>1, <1>3, ReachHolds
  <2>. QED  BY <1>3, <2>1
<1>5. Reach(AllKids, Roots) \subseteq Reach(AllKids', Roots') \cup L
  <2>1. Roots \subseteq Reach(AllKids', Roots') \cup L
    BY <1>4
  <2>. QED  BY <1>1, <2>1, BelowGrows
<1>6. ASSUME NEW y \in Item, IsDone(y)' \/ Busy(calls, y)'
      PROVE  y \in Reach(AllKids', Roots')
  <2>1. CASE y \in Roots'
    BY <1>4, <2>1
  <2>2. CASE y \notin L /\ (IsDone(y) \/ Busy(calls, y))
    BY <1>5, <2>2 DEF Anchored
  <2>3. CASE \E z \in Item : z \notin L /\ Busy(calls, z) /\ y \in KidsOf(z)
    <3>1. PICK z \in Item : z \notin L /\ Busy(calls, z) /\ y \in KidsOf(z)
      BY <2>3
    <3>2. z \in Reach(AllKids', Roots')
      BY <1>5, <3>1 DEF Anchored
    <3>. QED  BY <1>4, <3>1, <3>2
  <2>. QED  BY <1>6, <2>1, <2>2, <2>3
<1>7. Reach(AllKids, Roots)' = Reach(AllKids', Roots')
  BY DEF Reach
<1>. QED  BY <1>6, <1>7 DEF Anchored

-----------------------------------------------------------------------------
(* Which transactions are in force as activations are made and end.        *)

LEMMA FramesAppend ==
  ASSUME NEW s \in Seq(Frame), NEW f \in Frame, f.op # "do"
  PROVE  \A y : /\ Busy(Append(s, f), y) <=> Busy(s, y) \/ y = f.item
                /\ InFrames(Append(s, f), y) <=> InFrames(s, y) \/ (y = f.item /\ OwnIn(f))
<1>. DEFINE t == Append(s, f)  n == Len(s)
<1>1. n \in Nat /\ DOMAIN s = 1..n
  OBVIOUS
<1>2. DOMAIN t = 1..(n + 1) /\ t[n + 1] = f /\ \A i \in 1..n : t[i] = s[i]
  BY AppendProperties
<1>. HIDE DEF t
<1>3. n + 1 \in 1..(n + 1) /\ 1..n \subseteq 1..(n + 1) /\ \A i \in 1..(n + 1) : i = n + 1 \/ i \in 1..n
  BY <1>1
<1>. HIDE DEF n
<1>4. \A y : Busy(t, y) <=> Busy(s, y) \/ y = f.item
  BY <1>1, <1>2, <1>3 DEF Busy
<1>5. \A y : InFrames(t, y) <=> InFrames(s, y) \/ (y = f.item /\ OwnIn(f))
  BY <1>1, <1>2, <1>3 DEF InFrames
<1>. QED  BY <1>4, <1>5 DEF t

\* The innermost activation and the others are for different items.
LEMMA FramesLast ==
  ASSUME NEW k \in Seq(Frame), k # <<>>, Apart(k), \A i \in DOMAIN k : k[i].op # "do",
         NEW q, q = Front(k), NEW t, t = Last(k)
  PROVE  /\ q \in Seq(Frame) /\ t \in Frame /\ t.op # "do" /\ ~Busy(q, t.item)
         /\ Apart(q) /\ \A i \in DOMAIN q : q[i].op # "do"
         /\ \A y : /\ Busy(k, y) <=> Busy(q, y) \/ y = t.item
                   /\ InFrames(k, y) <=> InFrames(q, y) \/ (y = t.item /\ OwnIn(t))
<1>1. PICK n \in Nat : n = Len(k) /\ n # 0 /\ DOMAIN k = 1..n /\ t = k[n] /\ n \in 1..n
  BY EmptySeq DEF Last
<1>2. /\ q \in Seq(Frame) /\ t \in Frame /\ DOMAIN q = 1..(n - 1)
      /\ \A i \in 1..(n - 1) : q[i] = k[i]
  BY <1>1, FrontOp
<1>3. \A i \in 1..(n - 1) : i \in 1..n /\ i # n
  BY <1>1
<1>4. t.op # "do" /\ \A i \in DOMAIN q : q[i].op # "do"
  BY <1>1, <1>2, <1>3
<1>5. ~Busy(q, t.item)
  BY <1>1, <1>2, <1>3 DEF Busy, Apart
<1>6. Apart(q)
  <2>1. \A i, j \in 1..n : k[i].op # "do" /\ k[i].item = k[j].item => i = j
    BY <1>1 DEF Apart
  <2>. QED  BY ONLY <1>2, <1>3, <2>1 DEF Apart
<1>7. k = Append(q, t)
  BY FrontAppend
<1>8. \A y : /\ Busy(Append(q, t), y) <=> Busy(q, y) \/ y = t.item
             /\ InFrames(Append(q, t), y) <=> InFrames(q, y) \/ (y = t.item /\ OwnIn(t))
  BY <1>2, <1>4, FramesAppend
<1>. QED  BY <1>2, <1>4, <1>5, <1>6, <1>7, <1>8

\* No activation, none with its item in force.
LEMMA InFramesBusy ==
  ASSUME NEW s, NEW y, InFrames(s, y)
  PROVE  Busy(s, y)
  BY DEF InFrames, Busy

\* The innermost activation goes on to another phase.
LEMMA ReplaceForce ==
  ASSUME Working, calls # <<>>, NEW f \in Frame, f.op = Top.op, f.item = Top.item,
         calls' = Append(Front(calls), f), UNCHANGED <<stacks, kids>>
  PROVE  /\ \A y : y # Top.item => (InForce(y)' <=> InForce(y))
         /\ InForce(Top.item) <=> OwnIn(Top)
         /\ InForce(f.item)' <=> OwnIn(f)
         /\ \A y : Busy(calls, y)' <=> Busy(calls, y)
         /\ Busy(calls, Top.item)
<1>1. calls \in Seq(Frame) /\ Apart(calls) /\ \A i \in DOMAIN calls : calls[i].op # "do"
  BY DEF Working, Typed, TypeOK, LoopInv, Chain
<1>2. PICK k, q, t : k \in Seq(Frame) /\ k = calls /\ q = Front(calls) /\ t = Top
  BY <1>1
<1>3. /\ q \in Seq(Frame) /\ t.op # "do" /\ ~Busy(q, t.item)
      /\ \A y : /\ Busy(k, y) <=> Busy(q, y) \/ y = t.item
                /\ InFrames(k, y) <=> InFrames(q, y) \/ (y = t.item /\ OwnIn(t))
  BY <1>1, <1>2, FramesLast DEF Top
<1>4. \A y : /\ Busy(Append(q, f), y) <=> Busy(q, y) \/ y = f.item
             /\ InFrames(Append(q, f), y) <=> InFrames(q, y) \/ (y = f.item /\ OwnIn(f))
  BY <1>2, <1>3, FramesAppend
<1>5. \A y : Busy(calls, y)' <=> Busy(Append(q, f), y)
  BY <1>2 DEF Busy
<1>6. \A y : InFrames(calls, y)' <=> InFrames(Append(q, f), y)
  BY <1>2 DEF InFrames, OwnIn
<1>7. \A y : IsDone(y)' <=> IsDone(y)
  BY DEF IsDone, stacks, kids
<1>8. ~InFrames(q, t.item)
  BY <1>3, InFramesBusy
<1>. QED  BY <1>2, <1>3, <1>4, <1>5, <1>6, <1>7, <1>8 DEF InForce

\* An activation is made for an item that none is for.
LEMMA PushForce ==
  ASSUME calls \in Seq(Frame), NEW f \in Frame, f.op # "do", ~Busy(calls, f.item),
         calls' = Append(calls, f), UNCHANGED <<stacks, kids>>
  PROVE  /\ \A y : y # f.item => (InForce(y)' <=> InForce(y))
         /\ InForce(f.item) <=> IsDone(f.item)
         /\ InForce(f.item)' <=> OwnIn(f)
         /\ \A y : Busy(calls, y)' <=> Busy(calls, y) \/ y = f.item
<1>1. PICK k \in Seq(Frame) : k = calls
  OBVIOUS
<1>2. \A y : /\ Busy(Append(k, f), y) <=> Busy(k, y) \/ y = f.item
             /\ InFrames(Append(k, f), y) <=> InFrames(k, y) \/ (y = f.item /\ OwnIn(f))
  BY FramesAppend
<1>3. \A y : Busy(calls, y)' <=> Busy(Append(k, f), y)
  BY <1>1 DEF Busy
<1>4. \A y : InFrames(calls, y)' <=> InFrames(Append(k, f), y)
  BY <1>1 DEF InFrames, OwnIn
<1>5. \A y : IsDone(y)' <=> IsDone(y)
  BY DEF IsDone, stacks, kids
<1>6. ~InFrames(calls, f.item)
  BY InFramesBusy
<1>. QED  BY <1>1, <1>2, <1>3, <1>4, <1>5, <1>6 DEF InForce

\* Nothing is held that was not, and what becomes busy hangs on what was.
LEMMA HeldStays ==
  ASSUME DocInv, TypeOK, TypeOK', UNCHANGED <<stacks, kids, absorbed, forgotten, used>>,
         \A y \in Item : Busy(calls, y)' =>
            Busy(calls, y) \/ y \in Roots \/ \E z \in Item : Busy(calls, z) /\ y \in KidsOf(z)
  PROVE  Disjoint' /\ Anchored' /\ Untracked \subseteq Untracked'
<1>1. \A y : (IsDone(y)' <=> IsDone(y)) /\ (IsUndone(y)' <=> IsUndone(y))
  BY DEF IsDone, IsUndone, stacks, kids
<1>2. Disjoint'
  BY <1>1, DisjointSame DEF DocInv, Held
<1>3. /\ \A x \in Item : KidsOf(x)' = KidsOf(x)
      /\ Roots' = Roots
  BY DEF KidsOf, Roots, stacks, kids
<1>4. Anchored'
  <2>1. PICK L \in SUBSET Item : L = {}
    OBVIOUS
  <2>2. Anchored /\ Roots \subseteq Roots' \cup L /\ \A x \in L : KidsOf(x) \subseteq L
    BY <1>3, <2>1 DEF DocInv
  <2>3. ASSUME NEW y \in Item, IsDone(y)' \/ Busy(calls, y)'
        PROVE  \/ y \in Roots' \/ (y \notin L /\ (IsDone(y) \/ Busy(calls, y)))
               \/ \E z \in Item : z \notin L /\ Busy(calls, z) /\ y \in KidsOf(z)
    BY <1>1, <1>3, <2>1, <2>3
  <2>. QED  BY <1>3, <2>2, <2>3, AnchoredGrows
<1>5. Untracked \subseteq Untracked'
  BY <1>3, UntrackedGrows
<1>. QED  BY <1>2, <1>4, <1>5

-----------------------------------------------------------------------------
(* Steps of an undo or a redo.                                             *)

\* An activation begins with its item's effect as it is.
LEMMA PushDoc ==
  ASSUME Typed, TypeOK', DocInv, NEW f \in Frame, f.op # "do", ~Busy(calls, f.item),
         calls' = Append(calls, f), UNCHANGED <<stacks, kids, doc, absorbed, forgotten, used>>,
         f.item \in Transaction => (OwnIn(f) <=> IsDone(f.item)),
         f.item \in Roots \/ \E z \in Item : Busy(calls, z) /\ f.item \in KidsOf(z)
  PROVE  DocInv'
<1>1. TypeOK /\ calls \in Seq(Frame)
  BY DEF Typed, TypeOK
<1>2. /\ \A y : y # f.item => (InForce(y)' <=> InForce(y))
      /\ InForce(f.item) <=> IsDone(f.item)
      /\ InForce(f.item)' <=> OwnIn(f)
      /\ \A y : Busy(calls, y)' <=> Busy(calls, y) \/ y = f.item
  BY <1>1, PushForce
<1>3. Disjoint' /\ Anchored' /\ Untracked \subseteq Untracked'
  BY <1>1, <1>2, HeldStays
<1>4. \A t \in Transaction : InForce(t)' <=> InForce(t)
  BY <1>2
<1>5. DocIs'
  BY <1>3, <1>4, DocSame DEF DocInv
<1>. QED  BY <1>3, <1>5 DEF DocInv

\* It goes on without running its item's own methods.
LEMMA PhaseDoc ==
  ASSUME Working, TypeOK', DocInv, calls # <<>>, NEW f \in Frame, f.op = Top.op, f.item = Top.item,
         calls' = Append(Front(calls), f),
         UNCHANGED <<stacks, kids, doc, absorbed, forgotten, used>>,
         f.item \in Transaction => (OwnIn(f) <=> OwnIn(Top))
  PROVE  DocInv'
<1>1. TypeOK
  BY DEF Working, Typed
<1>2. /\ \A y : y # Top.item => (InForce(y)' <=> InForce(y))
      /\ InForce(Top.item) <=> OwnIn(Top)
      /\ InForce(f.item)' <=> OwnIn(f)
      /\ \A y : Busy(calls, y)' <=> Busy(calls, y)
  BY ReplaceForce
<1>3. Disjoint' /\ Anchored' /\ Untracked \subseteq Untracked'
  BY <1>1, <1>2, HeldStays
<1>4. \A t \in Transaction : InForce(t)' <=> InForce(t)
  BY <1>2
<1>5. DocIs'
  BY <1>3, <1>4, DocSame DEF DocInv
<1>. QED  BY <1>3, <1>5 DEF DocInv

\* An undo finds its item done, a redo its transaction undone.
LEMMA BegunOwn ==
  ASSUME TypeOK, NEW x \in Item
  PROVE  /\ \E f \in Frame : f = UndoFrame(x) /\ f.op = "undo" /\ f.item = x /\ OwnIn(f)
         /\ \E f \in Frame : /\ f = RedoFrame(x) /\ f.op = "redo" /\ f.item = x
                             /\ x \in Transaction => ~OwnIn(f)
<1>1. /\ UndoFrame(x) \in Frame /\ UndoFrame(x).op = "undo" /\ UndoFrame(x).item = x
      /\ RedoFrame(x) \in Frame /\ RedoFrame(x).op = "redo" /\ RedoFrame(x).item = x
  <2>1. UndoFrame(x) \in Frame /\ RedoFrame(x) \in Frame
    BY FrameTypes DEF TypeOK
  <2>2. /\ UndoFrame(x).op = "undo" /\ UndoFrame(x).item = x
        /\ RedoFrame(x).op = "redo" /\ RedoFrame(x).item = x
    BY DEF UndoFrame, RedoFrame, Activate
  <2>. QED  BY <2>1, <2>2
<1>2. x \in Transaction => x \notin Batch
  BY ItemAssumption
<1>3. OwnIn(UndoFrame(x))
  BY DEF OwnIn, UndoFrame, Activate
<1>4. x \in Transaction => ~OwnIn(RedoFrame(x))
  BY <1>2 DEF OwnIn, RedoFrame, Activate
<1>. QED  BY <1>1, <1>3, <1>4

\* UndoTransaction() and RedoTransaction() of the manager begin.
LEMMA BeginsDoc ==
  ASSUME Working, TypeOK', DocInv, calls = <<>>, UndoTransaction \/ RedoTransaction
  PROVE  DocInv'
<1>1. /\ Typed /\ TypeOK /\ NeverBoth /\ ItemOwnedOnce
      /\ undoStack \in Seq(Item) /\ redoStack \in Seq(Item)
  BY NotBoth DEF Working, Typed, TypeOK
<1>2. UNCHANGED <<stacks, kids, doc, absorbed, forgotten, used>>
  BY DEF UndoTransaction, RedoTransaction, ghosts
<1>3. \A y : ~Busy(calls, y)
  BY DEF Busy
<1>4. CASE UndoTransaction
  <2>1. undoStack # <<>> /\ calls' = Append(calls, UndoFrame(Peek(undoStack)))
    BY <1>4 DEF UndoTransaction
  <2>2. PICK x \in Item : x = Peek(undoStack) /\ IsDone(x) /\ x \in ToSet(undoStack)
    BY <1>1, <2>1, OnTop, ToSetOp
  <2>3. PICK f \in Frame : f = UndoFrame(x) /\ f.op = "undo" /\ f.item = x /\ OwnIn(f)
    BY <1>1, BegunOwn
  <2>4. x \in Roots
    BY <2>2 DEF Roots
  <2>. QED  BY <1>1, <1>2, <1>3, <2>1, <2>2, <2>3, <2>4, PushDoc
<1>5. CASE RedoTransaction
  <2>1. redoStack # <<>> /\ calls' = Append(calls, RedoFrame(Peek(redoStack)))
    BY <1>5 DEF RedoTransaction
  <2>2. PICK x \in Item : x = Peek(redoStack) /\ IsUndone(x) /\ x \in ToSet(redoStack)
    BY <1>1, <2>1, OnTop, ToSetOp
  <2>3. PICK f \in Frame : f = RedoFrame(x) /\ f.op = "redo" /\ f.item = x
                           /\ (x \in Transaction => ~OwnIn(f))
    BY <1>1, BegunOwn
  <2>4. x \in Roots /\ ~IsDone(x)
    BY <1>1, <2>2 DEF Roots, NeverBoth
  <2>. QED  BY <1>1, <1>2, <1>3, <2>1, <2>2, <2>3, <2>4, PushDoc
<1>. QED  BY <1>4, <1>5

\* A loop runs its next child, or is refused it.
LEMMA NextChildDoc ==
  ASSUME Working, SafeInv, TypeOK', DocInv, NextChild
  PROVE  DocInv'
<1>1. /\ Typed /\ TypeOK /\ undoKids \in [Item -> Seq(Item)] /\ redoKids \in [Item -> Seq(Item)]
      /\ calls # <<>> /\ Looping(Top) /\ Source(Top) # <<>> /\ LoopInv /\ NeverBoth /\ ItemOwnedOnce
      /\ UNCHANGED <<stacks, kids, doc, absorbed, forgotten, used>>
  BY NotBoth DEF Working, Typed, TypeOK, NextChild, Looping, ghosts
<1>2. Top \in Frame /\ Top.item \in Item /\ Top.op # "do" /\ Busy(calls, Top.item)
  <2>1. Top \in Frame /\ Top.op \in {"undo", "redo"} /\ Top.item \in Item
        /\ Len(calls) \in DOMAIN calls /\ Top = calls[Len(calls)]
    BY <1>1, TopKnown
  <2>2. Top.op # "do"
    BY <2>1
  <2>. QED  BY <2>1, <2>2 DEF Busy
<1>3. PICK x : x = Peek(Source(Top))
  OBVIOUS
<1>4. /\ x \in Item
      /\ UndoesKids(Top) => IsDone(x)
      /\ ~UndoesKids(Top) => IsUndone(x)
      /\ x \in KidsOf(Top.item)
  <2>1. CASE UndoesKids(Top)
    <3>1. PICK u \in Seq(Item) : u = undoKids[Top.item] /\ u # <<>> /\ x = Peek(u)
      BY <1>1, <1>2, <1>3, <2>1 DEF Source
    <3>2. x \in ToSet(u)
      BY <3>1, ToSetOp
    <3>. QED  BY <1>1, <1>2, <2>1, <3>1, <3>2, OnTop DEF KidsOf
  <2>2. CASE ~UndoesKids(Top)
    <3>1. PICK r \in Seq(Item) : r = redoKids[Top.item] /\ r # <<>> /\ x = Peek(r)
      BY <1>1, <1>2, <1>3, <2>2 DEF Source
    <3>2. x \in ToSet(r)
      BY <3>1, ToSetOp
    <3>. QED  BY <1>1, <1>2, <2>2, <3>1, <3>2, OnTop DEF KidsOf
  <2>. QED  BY <2>1, <2>2
<1>5. ~Busy(calls, x)
  <2>1. \A i \in DOMAIN calls : calls[i].item # x
    BY <1>1, <1>3, ChildApart DEF Working
  <2>. QED  BY <2>1 DEF Busy
<1>6. \/ calls' = Append(calls, IF UndoesKids(Top) THEN UndoFrame(x) ELSE RedoFrame(x))
      \/ \E r \in Result : calls' = Replace([Top EXCEPT !.left = 0, !.res = r])
  BY <1>3 DEF NextChild, Result
<1>7. CASE calls' = Append(calls, IF UndoesKids(Top) THEN UndoFrame(x) ELSE RedoFrame(x))
  <2>1. PICK f \in Frame :
          /\ calls' = Append(calls, f) /\ f.op # "do" /\ f.item = x
          /\ x \in Transaction => (OwnIn(f) <=> IsDone(x))
    <3>1. CASE UndoesKids(Top)
      <4>1. PICK f \in Frame : f = UndoFrame(x) /\ f.op = "undo" /\ f.item = x /\ OwnIn(f)
        BY <1>1, <1>4, BegunOwn
      <4>. QED  BY <1>4, <1>7, <3>1, <4>1
    <3>2. CASE ~UndoesKids(Top)
      <4>1. PICK f \in Frame : /\ f = RedoFrame(x) /\ f.op = "redo" /\ f.item = x
                               /\ x \in Transaction => ~OwnIn(f)
        BY <1>1, <1>4, BegunOwn
      <4>2. ~IsDone(x)
        BY <1>1, <1>4, <3>2 DEF NeverBoth
      <4>. QED  BY <1>7, <3>2, <4>1, <4>2
    <3>. QED  BY <3>1, <3>2
  <2>2. \E z \in Item : Busy(calls, z) /\ x \in KidsOf(z)
    BY <1>2, <1>4
  <2>. QED  BY <1>1, <1>5, <2>1, <2>2, PushDoc
<1>8. ASSUME NEW r \in Result, calls' = Replace([Top EXCEPT !.left = 0, !.res = r])
      PROVE  DocInv'
  <2>1. PICK f : f = [Top EXCEPT !.left = 0, !.res = r]
    OBVIOUS
  <2>2. /\ f \in Frame /\ f.op = Top.op /\ f.item = Top.item /\ f.phase = Top.phase
    BY <1>2, <2>1 DEF Frame
  <2>3. OwnIn(f) <=> OwnIn(Top)
    BY <1>1, <2>2 DEF OwnIn, Looping
  <2>. QED  BY <1>1, <1>8, <2>1, <2>2, <2>3, PhaseDoc DEF Replace
<1>. QED  BY <1>6, <1>7, <1>8

\* An activation that is not running its item's own methods goes on, or returns.
LEMMA PhasesOwn ==
  ASSUME NEW f \in Frame, f.op \in {"undo", "redo"}, f.item \in Transaction, Known(f)
  PROVE  /\ f.phase = "kids" => OwnIn(f) /\ OwnIn(AfterChildren(f))
         /\ f.phase = "recover" =>
              /\ OwnIn(f) /\ (f.op = "redo" => TakesBack(f))
              /\ (f.op = "undo" => OwnIn(Failed(f))) /\ OwnIn([f EXCEPT !.phase = "rollback"])
<1>1. f.item \notin Batch /\ f.res \in {"ok", "fail"}
  BY ItemAssumption DEF Frame, Result
<1>2. CASE f.phase = "kids"
  <2>1. OwnIn(f)
    BY <1>2 DEF OwnIn
  <2>2. CASE f.res = "fail"
    BY <1>2, <2>2 DEF OwnIn, AfterChildren, RecoverFrame, Activate
  <2>3. CASE f.res = "ok" /\ f.op = "undo"
    <3>1. PICK g : g = [f EXCEPT !.phase = "self"]
      OBVIOUS
    <3>2. g.op = "undo" /\ g.phase = "self"
      BY <2>3, <3>1 DEF Frame
    <3>. QED  BY <1>1, <1>2, <2>1, <2>3, <3>1, <3>2 DEF OwnIn, AfterChildren
  <2>4. CASE f.res = "ok" /\ f.op = "redo"
    <3>1. PICK g : g = [f EXCEPT !.phase = "return"]
      OBVIOUS
    <3>2. g.op = "redo" /\ g.phase = "return" /\ g.res = "ok"
      BY <2>4, <3>1 DEF Frame
    <3>. QED  BY <1>1, <1>2, <2>1, <2>4, <3>1, <3>2 DEF OwnIn, AfterChildren
  <2>. QED  BY <1>1, <1>2, <2>1, <2>2, <2>3, <2>4
<1>3. CASE f.phase = "recover"
  <2>1. OwnIn(f) /\ f.res = "ok"
    BY <1>3 DEF OwnIn, Known, RecoverKnown
  <2>2. f.op = "redo" => TakesBack(f)
    BY <1>1, <2>1 DEF TakesBack
  <2>3. f.op = "undo" => OwnIn(Failed(f))
    <3>1. PICK g : g = Failed(f)
      OBVIOUS
    <3>2. g.op = f.op /\ g.res = "fail"
      BY <3>1 DEF Failed, Frame
    <3>. QED  BY <3>1, <3>2 DEF OwnIn
  <2>4. OwnIn([f EXCEPT !.phase = "rollback"])
    <3>1. PICK g : g = [f EXCEPT !.phase = "rollback"]
      OBVIOUS
    <3>2. g.op = f.op /\ g.phase = "rollback"
      BY <3>1 DEF Frame
    <3>. QED  BY <3>1, <3>2 DEF OwnIn
  <2>. QED  BY <1>3, <2>1, <2>2, <2>3, <2>4
<1>. QED  BY <1>2, <1>3

LEMMA PhasesDoc ==
  ASSUME Working, TypeOK', DocInv, ChildrenDone \/ RecoveryDone
  PROVE  DocInv'
<1>1. /\ TypeOK /\ undoKids \in [Item -> Seq(Item)] /\ redoKids \in [Item -> Seq(Item)]
      /\ calls # <<>> /\ UNCHANGED <<stacks, kids, doc, absorbed, forgotten, used>>
  BY DEF Working, Typed, TypeOK, ChildrenDone, RecoveryDone, ghosts
<1>2. PICK f \in Frame : /\ f = Top /\ f.op \in {"undo", "redo"} /\ f.item \in Item /\ Known(f)
                         /\ f.op # "do"
  <2>1. Top \in Frame /\ Top.op \in {"undo", "redo"} /\ Top.item \in Item /\ Known(Top)
    BY <1>1, TopKnown
  <2>2. Top.op # "do"
    BY <2>1
  <2>. QED  BY <2>1, <2>2
<1>3. ASSUME NEW g \in Frame, g.op = f.op, g.item = f.item, calls' = Replace(g),
             g.item \in Transaction => (OwnIn(g) <=> OwnIn(f))
      PROVE  DocInv'
  BY <1>1, <1>2, <1>3, PhaseDoc DEF Replace
<1>4. /\ AfterChildren(f) \in Frame /\ AfterChildren(f).op = f.op /\ AfterChildren(f).item = f.item
      /\ Failed(f) \in Frame /\ Failed(f).op = f.op /\ Failed(f).item = f.item
  BY <1>1, <1>2, NextFrameTypes, NextFramesCount
<1>5. f.item \in Transaction =>
        /\ f.phase = "kids" => OwnIn(f) /\ OwnIn(AfterChildren(f))
        /\ f.phase = "recover" =>
             /\ OwnIn(f) /\ (f.op = "redo" => TakesBack(f))
             /\ (f.op = "undo" => OwnIn(Failed(f))) /\ OwnIn([f EXCEPT !.phase = "rollback"])
  BY <1>2, PhasesOwn
<1>6. CASE ChildrenDone
  <2>1. f.phase = "kids" /\ calls' = Replace(AfterChildren(f))
    BY <1>2, <1>6 DEF ChildrenDone
  <2>. QED  BY <1>3, <1>4, <1>5, <2>1
<1>7. CASE RecoveryDone /\ TakesBack(f)
  <2>1. PICK g : g = [f EXCEPT !.phase = "rollback"]
    OBVIOUS
  <2>2. g \in Frame /\ g.op = f.op /\ g.item = f.item
    BY <2>1 DEF Frame, Phase
  <2>3. f.phase = "recover" /\ calls' = Replace(g)
    BY <1>2, <1>7, <2>1 DEF RecoveryDone
  <2>. QED  BY <1>3, <1>5, <2>1, <2>2, <2>3
<1>8. CASE RecoveryDone /\ ~TakesBack(f)
  <2>1. f.phase = "recover" /\ calls' = Replace(Failed(f))
    BY <1>2, <1>8 DEF RecoveryDone
  <2>2. f.item \in Transaction => (OwnIn(Failed(f)) <=> OwnIn(f))
    BY <1>2, <1>5, <1>8, <2>1
  <2>. QED  BY <1>3, <1>4, <2>1, <2>2
<1>. QED  BY <1>6, <1>7, <1>8

\* A transaction's own undoTransaction() or redoTransaction() takes its effect
\* from the document, adds it, or fails.
LEMMA OwnReturns ==
  ASSUME Steady, NEW f \in Frame, f.op \in {"undo", "redo"}, f.item \in Transaction, Known(f),
         f.phase \in {"self", "rollback"},
         NEW r \in OwnResults(IF f.phase = "rollback" \/ f.op = "undo" THEN "Undo" ELSE "Redo", f.item)
  PROVE  /\ r \in {"ok", "fail"}
         /\ f.phase = "rollback" => f.op = "redo"
         /\ r = "ok" /\ (f.phase = "rollback" \/ f.op = "undo") => ~OwnIn(AfterOwn(f, r))
         /\ r = "ok" /\ ~(f.phase = "rollback" \/ f.op = "undo") => OwnIn(AfterOwn(f, r))
         /\ r = "fail" => (OwnIn(AfterOwn(f, r)) <=> OwnIn(f))
<1>1. r \in {"ok", "fail"} /\ f.item \in Item
  BY OutcomesType DEF Result, Item
<1>2. f.phase = "rollback" => f.op = "redo" /\ Doomed("redo", f.item)
  BY DEF Known, RollbackKnown
<1>3. PICK g : g = Failed(f)
  OBVIOUS
<1>4. g.op = f.op /\ g.phase = "return" /\ g.res = "fail"
  BY <1>3 DEF Failed, Frame
<1>5. CASE f.phase = "rollback"
  <2>1. r # "fail"
    <3>. SUFFICES ASSUME r = "fail"
                  PROVE  FALSE
      OBVIOUS
    <3>1. "fail" \in OwnResults("Undo", f.item)
      BY <1>5
    <3>2. "ok" \notin OwnResults("Undo", f.item)
      BY <1>1, <3>1 DEF Steady
    <3>3. Fails("undo", f.item)
      BY <3>2 DEF Fails, Called
    <3>4. f.item \in Item /\ \E z \in Item : Fails("redo", z)
      BY <1>1, <1>2, <1>5 DEF Doomed, Reach
    <3>. QED  BY <3>3, <3>4 DEF Steady
  <2>2. AfterOwn(f, r) = g
    BY <1>3, <1>5 DEF AfterOwn
  <2>3. ~OwnIn(g)
    BY <1>2, <1>4, <1>5 DEF OwnIn
  <2>. QED  BY <1>1, <1>2, <1>5, <2>1, <2>2, <2>3
<1>6. CASE f.phase = "self" /\ f.op = "redo" /\ r = "fail"
  <2>1. AfterOwn(f, r) = g
    BY <1>3, <1>6 DEF AfterOwn
  <2>2. ~OwnIn(g) /\ ~OwnIn(f)
    BY <1>4, <1>6 DEF OwnIn
  <2>. QED  BY <1>1, <1>6, <2>1, <2>2
<1>7. CASE f.phase = "self" /\ f.op = "redo" /\ r = "ok"
  <2>1. OwnIn(AfterOwn(f, r))
    BY <1>7 DEF AfterOwn, OwnIn, Activate
  <2>. QED  BY <1>1, <1>7, <2>1
<1>8. CASE f.phase = "self" /\ f.op = "undo" /\ r = "fail"
  <2>1. OwnIn(AfterOwn(f, r)) /\ OwnIn(f)
    BY <1>8 DEF AfterOwn, RecoverFrame, OwnIn, Activate
  <2>. QED  BY <1>1, <1>8, <2>1
<1>9. CASE f.phase = "self" /\ f.op = "undo" /\ r = "ok"
  <2>1. PICK h : h = [f EXCEPT !.phase = "return"]
    OBVIOUS
  <2>2. h.op = "undo" /\ h.phase = "return" /\ h.res = "ok"
    BY <1>9, <2>1 DEF Frame, Known, SelfKnown
  <2>3. AfterOwn(f, r) = h
    BY <1>9, <2>1 DEF AfterOwn
  <2>. QED  BY <1>1, <1>9, <2>2, <2>3 DEF OwnIn
<1>. QED  BY <1>1, <1>5, <1>6, <1>7, <1>8, <1>9

\* What is being undone or redone is held by a list, as is all that is in force.
LEMMA BusyHeld ==
  ASSUME Working, NEW y, Busy(calls, y)
  PROVE  Held(y)
<1>1. /\ TypeOK /\ calls \in Seq(Frame) /\ Path(calls)
      /\ undoKids \in [Item -> Seq(Item)] /\ redoKids \in [Item -> Seq(Item)]
  BY DEF Working, Typed, TypeOK, LoopInv, Chain
<1>2. PICK i \in DOMAIN calls : calls[i].op # "do" /\ calls[i].item = y
  BY DEF Busy
<1>3. CASE i = 1
  <2>1. \/ undoStack # <<>> /\ y = Peek(undoStack)
        \/ redoStack # <<>> /\ y = Peek(redoStack)
    BY <1>1, <1>2, <1>3 DEF Path, Rooted
  <2>. QED  BY <1>1, <2>1, OnTop DEF Held
<1>4. CASE i # 1
  <2>1. i - 1 \in DOMAIN calls
    BY <1>1, <1>2, <1>4
  <2>2. PICK p \in Frame : p = calls[i - 1] /\ p.item \in Item
    <3>1. PICK k \in Seq(Frame) : k = calls
      BY <1>1
    <3>2. \A j \in DOMAIN k : k[j] \in Frame
      BY <3>1
    <3>3. \A p \in Frame : p.item \in Item
      BY ONLY DEF Frame
    <3>. QED  BY <2>1, <3>1, <3>2, <3>3
  <2>3. Source(p) # <<>> /\ y = Peek(Source(p))
    BY <1>1, <1>2, <1>4, <2>2 DEF Path, Runs
  <2>4. \/ undoKids[p.item] # <<>> /\ y = Peek(undoKids[p.item])
        \/ redoKids[p.item] # <<>> /\ y = Peek(redoKids[p.item])
    BY <2>3 DEF Source
  <2>. QED  BY <1>1, <2>2, <2>4, OnTop DEF Held
<1>. QED  BY <1>3, <1>4

LEMMA ForceHeld ==
  ASSUME Working, NEW y, InForce(y)
  PROVE  Held(y)
  BY BusyHeld DEF InForce, Held

LEMMA TransactionReturnsDoc ==
  ASSUME Working, TypeOK', DocInv, TransactionReturns
  PROVE  DocInv'
<1>1. /\ TypeOK /\ undoKids \in [Item -> Seq(Item)] /\ redoKids \in [Item -> Seq(Item)] /\ Steady
      /\ calls # <<>> /\ UNCHANGED <<stacks, kids, absorbed, forgotten, used>>
      /\ Top.phase \in {"self", "rollback"}
  BY DEF Working, Typed, TypeOK, TransactionReturns, Running, ghosts
<1>2. PICK f \in Frame : /\ f = Top /\ f.op \in {"undo", "redo"} /\ Known(f) /\ f.op # "do"
                         /\ f.item \in Transaction /\ f.item \in Item /\ f.phase \in {"self", "rollback"}
  <2>1. Top \in Frame /\ Top.op \in {"undo", "redo"} /\ Known(Top) /\ Top.item \in Transaction /\ Top.item \in Item
    BY <1>1, TopKnown DEF FrameOK
  <2>2. Top.op # "do"
    BY <2>1
  <2>. QED  BY <1>1, <2>1, <2>2
<1>. PICK x \in Transaction : x = f.item
  BY <1>2
<1>. DEFINE Undoes == f.phase = "rollback" \/ f.op = "undo"
<1>3. RunningOp = IF Undoes THEN "undo" ELSE "redo"
  BY <1>2 DEF RunningOp
<1>4. PICK r \in OwnResults(IF Undoes THEN "Undo" ELSE "Redo", f.item) :
        /\ doc' = IF r = "ok" THEN Execute(RunningOp, x) ELSE doc
        /\ calls' = Replace(AfterOwn(f, r))
  <2>1. (RunningOp = "undo") = Undoes
    BY <1>3
  <2>. QED  BY <1>2, <2>1 DEF TransactionReturns
<1>5. /\ r \in {"ok", "fail"}
      /\ r = "ok" /\ Undoes => ~OwnIn(AfterOwn(f, r))
      /\ r = "ok" /\ ~Undoes => OwnIn(AfterOwn(f, r))
      /\ r = "fail" => (OwnIn(AfterOwn(f, r)) <=> OwnIn(f))
  BY <1>1, <1>2, <1>4, OwnReturns
<1>6. PICK g \in Frame : g = AfterOwn(f, r) /\ g.op = f.op /\ g.item = f.item
  <2>1. r \in Result
    BY <1>5 DEF Result
  <2>. QED  BY <1>1, <1>2, <2>1, NextFrameTypes, NextFramesCount
<1>7. calls' = Append(Front(calls), g)
  BY <1>4, <1>6 DEF Replace
<1>. HIDE DEF Undoes
<1>8. /\ \A y : y # x => (InForce(y)' <=> InForce(y))
      /\ InForce(x) <=> OwnIn(f)
      /\ InForce(x)' <=> OwnIn(g)
      /\ \A y : Busy(calls, y)' <=> Busy(calls, y)
      /\ Busy(calls, x)
  BY <1>1, <1>2, <1>6, <1>7, ReplaceForce
<1>9. Disjoint' /\ Anchored' /\ Untracked \subseteq Untracked'
  BY <1>1, <1>8, HeldStays
<1>10. DocIs /\ absorbed' = absorbed
  BY <1>1 DEF DocInv
<1>11. CASE r = "ok" /\ Undoes
  <2>1. doc' = doc \ Effects(x)
    BY <1>3, <1>4, <1>11 DEF Execute
  <2>2. ~InForce(x)'
    BY <1>5, <1>6, <1>8, <1>11
  <2>3. ASSUME NEW t \in Transaction, t # x, InForce(t)
        PROVE  Effects(t) \cap Effects(x) = {}
    <3>1. Held(t) /\ Held(x)
      BY <1>8, <2>3, ForceHeld, BusyHeld
    <3>. QED  BY <2>3, <3>1 DEF DocInv, Disjoint
  <2>4. DocIs'
    BY <1>8, <1>9, <1>10, <2>1, <2>2, <2>3, DocDrops
  <2>. QED  BY <1>9, <2>4 DEF DocInv
<1>12. CASE r = "ok" /\ ~Undoes
  <2>1. doc' = doc \cup Effects(x)
    BY <1>3, <1>4, <1>12 DEF Execute
  <2>2. InForce(x)'
    BY <1>5, <1>6, <1>8, <1>12
  <2>3. DocIs'
    BY <1>8, <1>9, <1>10, <2>1, <2>2, DocAdds
  <2>. QED  BY <1>9, <2>3 DEF DocInv
<1>13. CASE r = "fail"
  <2>1. doc' = doc /\ \A t \in Transaction : InForce(t)' <=> InForce(t)
    BY <1>4, <1>5, <1>6, <1>8, <1>13
  <2>2. DocIs'
    BY <1>9, <1>10, <2>1, DocSame
  <2>. QED  BY <1>9, <2>2 DEF DocInv
<1>. QED  BY <1>5, <1>11, <1>12, <1>13

-----------------------------------------------------------------------------
(* Activations end.                                                        *)

\* What an activation that returns has left in force is what is then done.
LEMMA ReturnedOwn ==
  ASSUME NEW t \in Frame, t.op \in {"undo", "redo"}, t.phase = "return"
  PROVE  OwnIn(t) <=> ~((t.op = "undo") = (t.res = "ok"))
  BY DEF OwnIn, Frame, Result

LEMMA ManagerReturnsDoc ==
  ASSUME Working, SafeInv, SafeInv', DocInv, ManagerReturns
  PROVE  DocInv'
<1>1. /\ Typed /\ Typed' /\ TypeOK /\ TypeOK' /\ ItemOwnedOnce /\ ItemOwnedOnce'
      /\ calls \in Seq(Frame) /\ Apart(calls) /\ \A i \in DOMAIN calls : calls[i].op # "do"
      /\ UNCHANGED <<doStack, kids, doc, absorbed, forgotten, used>>
      /\ undoStack \in Seq(Item) /\ redoStack \in Seq(Item)
  BY DEF Working, SafeInv, Typed, TypeOK, Owned, LoopInv, Chain, ManagerReturns, ghosts
<1>2. NeverBoth /\ NeverBoth'
  BY NotBoth, PTL
<1>3. calls # <<>> /\ calls' = <<>> /\ Rooted(Top) /\ \A y : Busy(calls, y) <=> y = Top.item
  BY RootReturns
<1>4. PICK t \in Frame : t = Top /\ t.op \in {"undo", "redo"} /\ t.item \in Item /\ t.phase = "return"
  BY <1>3, TopKnown DEF ManagerReturns
<1>5. PICK y \in Item : y = t.item
  BY <1>4
<1>6. /\ t.res \in {"ok", "fail"}
      /\ t.res = "fail" => undoStack' = undoStack /\ redoStack' = redoStack
      /\ \A x : x # y => /\ (x \in ToSet(undoStack') => x \in ToSet(undoStack))
                        /\ (x \in ToSet(redoStack') => x \in ToSet(redoStack))
      /\ (t.op = "undo") = (t.res = "ok") => y \in ToSet(redoStack')
      /\ (t.op = "undo") # (t.res = "ok") => y \in ToSet(undoStack')
  BY <1>4, <1>5, RootMoves
<1>7. ToSet(undoStack') \cup ToSet(redoStack') = ToSet(undoStack) \cup ToSet(redoStack)
  <2>1. \/ undoStack' = undoStack /\ redoStack' = redoStack
        \/ undoStack # <<>> /\ undoStack' = Pop(undoStack) /\ redoStack' = Push(redoStack, Peek(undoStack))
        \/ redoStack # <<>> /\ undoStack' = Push(undoStack, Peek(redoStack)) /\ redoStack' = Pop(redoStack)
    <3>. DEFINE src == IF Top.op = "undo" THEN undoStack ELSE redoStack
                result == IF Top.res = "ok" /\ src # <<>> THEN "ok" ELSE "fail"
    <3>1. /\ undoStack' = IF result = "fail" THEN undoStack
                          ELSE IF Top.op = "undo" THEN Pop(undoStack) ELSE Push(undoStack, Peek(src))
          /\ redoStack' = IF result = "fail" THEN redoStack
                          ELSE IF Top.op = "undo" THEN Push(redoStack, Peek(src)) ELSE Pop(redoStack)
      BY DEF ManagerReturns
    <3>2. result = "fail" \/ src # <<>>
      OBVIOUS
    <3>. QED  BY <3>1, <3>2
  <2>. QED  BY <1>1, <2>1, MovedSets
<1>8. /\ (t.op = "undo") = (t.res = "ok") => IsUndone(y)'
      /\ (t.op = "undo") # (t.res = "ok") => IsDone(y)'
      /\ \A x \in Item : x # y => (IsUndone(x)' => IsUndone(x)) /\ (IsDone(x)' => IsDone(x))
  BY <1>1, <1>6 DEF IsDone, IsUndone, kids
<1>9. ASSUME NEW x \in Item, x # y, IsDone(x)
      PROVE  IsDone(x)'
  <2>1. CASE x \in ToSet(undoStack)
    <3>1. x \in ToSet(undoStack') \/ x \in ToSet(redoStack')
      BY <1>7, <2>1
    <3>2. x \notin ToSet(redoStack')
      BY <1>1, <1>2, <1>6, <1>9 DEF NeverBoth, IsUndone
    <3>. QED  BY <3>1, <3>2 DEF IsDone
  <2>2. CASE x \notin ToSet(undoStack)
    BY <1>1, <1>9, <2>2 DEF IsDone, kids
  <2>. QED  BY <2>1, <2>2
<1>10. IsDone(y)' <=> OwnIn(t)
  BY <1>1, <1>2, <1>4, <1>6, <1>8, ReturnedOwn DEF NeverBoth
<1>11. /\ \A x : ~Busy(calls, x)' /\ (InForce(x)' <=> IsDone(x)')
       /\ \A x : x # y => (InForce(x) <=> IsDone(x))
  BY <1>3, <1>4, <1>5 DEF Busy, InForce
<1>12. InForce(y) <=> OwnIn(t)
  <2>1. PICK k, q : k = calls /\ q = Front(calls)
    OBVIOUS
  <2>2. /\ ~Busy(q, y)
        /\ InFrames(k, y) <=> InFrames(q, y) \/ (y = t.item /\ OwnIn(t))
    BY <1>1, <1>3, <1>4, <1>5, <2>1, FramesLast DEF Top
  <2>3. ~InFrames(q, y)
    BY <2>2, InFramesBusy
  <2>. QED  BY <1>3, <1>4, <1>5, <2>1, <2>2, <2>3 DEF InForce
<1>13. ASSUME NEW x \in Transaction
       PROVE  InForce(x)' <=> InForce(x)
  <2>1. x \in Item
    BY DEF Item
  <2>2. CASE x = y
    BY <1>10, <1>11, <1>12, <2>2
  <2>3. CASE x # y
    BY <1>8, <1>9, <1>11, <2>1, <2>3
  <2>. QED  BY <2>2, <2>3
<1>14. \A x \in Item : KidsOf(x)' = KidsOf(x)
  BY <1>1 DEF KidsOf, kids
<1>15. Untracked \subseteq Untracked'
  BY <1>1, <1>14, UntrackedGrows
<1>16. DocIs'
  BY <1>1, <1>13, <1>15, DocSame DEF DocInv
<1>17. Disjoint'
  <2>1. Held(y)
    BY <1>3, <1>4, <1>5, BusyHeld
  <2>2. \A x \in Transaction : Held(x)' => Held(x)
    BY <1>8, <2>1 DEF Held, Item
  <2>. QED  BY <1>1, <2>2, DisjointSame DEF DocInv
<1>18. Anchored'
  <2>1. PICK L \in SUBSET Item : L = {}
    OBVIOUS
  <2>2. Anchored /\ Roots \subseteq Roots' \cup L /\ \A x \in L : KidsOf(x) \subseteq L
    BY <1>1, <1>7, <2>1 DEF DocInv, Roots
  <2>3. ASSUME NEW x \in Item, IsDone(x)' \/ Busy(calls, x)'
        PROVE  x \notin L /\ (IsDone(x) \/ Busy(calls, x))
    BY <1>3, <1>4, <1>5, <1>8, <1>11, <2>1, <2>3
  <2>. QED  BY <1>1, <1>14, <2>2, <2>3, AnchoredGrows
<1>. QED  BY <1>16, <1>17, <1>18 DEF DocInv

LEMMA ChildReturnsDoc ==
  ASSUME Working, SafeInv, SafeInv', DocInv, ChildReturns
  PROVE  DocInv'
<1>1. /\ Typed /\ Typed' /\ TypeOK /\ TypeOK' /\ ItemOwnedOnce /\ ItemOwnedOnce'
      /\ calls \in Seq(Frame) /\ calls # <<>> /\ Apart(calls)
      /\ \A i \in DOMAIN calls : calls[i].op # "do"
      /\ doc' = doc /\ absorbed' = absorbed /\ forgotten' = forgotten /\ used' = used
      /\ doStack' = doStack /\ undoStack' = undoStack /\ redoStack' = redoStack
  BY DEF Working, SafeInv, Typed, TypeOK, Owned, LoopInv, Chain, ChildReturns, ghosts, stacks
<1>2. NeverBoth /\ NeverBoth'
  BY NotBoth, PTL
<1>3. PICK s, c, t : s = Front(calls) /\ c = Caller /\ t = Top /\ ReturnsTo(s, c, t) /\ LoopMoves(s, c, t)
  BY ChildMoves
<1>4. /\ s \in Seq(Frame) /\ s # <<>> /\ c = Last(s) /\ c \in Frame /\ t \in Frame /\ Looping(c)
      /\ c.op \in {"undo", "redo"} /\ t.op \in {"undo", "redo"} /\ t.res \in {"ok", "fail"}
      /\ c.item \in Item /\ t.item \in Item /\ c.left > 0
  BY <1>3 DEF ReturnsTo
<1>5. t.phase = "return" /\ t = Last(calls)
  BY <1>3 DEF ChildReturns, Top
<1>6. PICK y, k, q, g : /\ y = t.item /\ y \in Item /\ k = calls /\ q = Front(s)
                        /\ g = NextRound(c, t.res)
  BY <1>4
<1>7. g \in Frame /\ g.op = c.op /\ g.item = c.item /\ g.op # "do" /\ (OwnIn(g) <=> OwnIn(c))
  <2>1. g = [c EXCEPT !.left = c.left - 1, !.res = t.res]
    BY <1>6 DEF NextRound
  <2>2. c.left - 1 \in Nat
    BY <1>4 DEF Frame
  <2>3. g \in Frame /\ g.op = c.op /\ g.item = c.item /\ g.phase = c.phase
    BY <1>4, <2>1, <2>2 DEF Frame, Result
  <2>. QED  BY <1>4, <2>3 DEF OwnIn, Looping
<1>8. /\ Apart(s) /\ \A i \in DOMAIN s : s[i].op # "do"
      /\ ~Busy(s, y)
      /\ \A z : /\ Busy(k, z) <=> Busy(s, z) \/ z = y
                /\ InFrames(k, z) <=> InFrames(s, z) \/ (z = y /\ OwnIn(t))
  BY <1>1, <1>3, <1>5, <1>6, FramesLast
<1>9. /\ q \in Seq(Frame)
      /\ \A z : /\ Busy(s, z) <=> Busy(q, z) \/ z = c.item
                /\ InFrames(s, z) <=> InFrames(q, z) \/ (z = c.item /\ OwnIn(c))
  BY <1>4, <1>6, <1>8, FramesLast
<1>10. \A z : /\ Busy(Append(q, g), z) <=> Busy(q, z) \/ z = g.item
              /\ InFrames(Append(q, g), z) <=> InFrames(q, z) \/ (z = g.item /\ OwnIn(g))
  BY <1>7, <1>9, FramesAppend
<1>11. calls' = Append(q, g)
  BY <1>3, <1>6 DEF LoopMoves
<1>12. \A z : (Busy(calls, z)' <=> Busy(s, z)) /\ (InFrames(calls, z)' <=> InFrames(s, z))
  <2>1. \A z : Busy(calls, z)' <=> Busy(Append(q, g), z)
    BY <1>11 DEF Busy
  <2>2. \A z : InFrames(calls, z)' <=> InFrames(Append(q, g), z)
    BY <1>11 DEF InFrames, OwnIn
  <2>. QED  BY <1>7, <1>9, <1>10, <2>1, <2>2
<1>13. \A z : (Busy(calls, z) <=> Busy(s, z) \/ z = y)
              /\ (InFrames(calls, z) <=> InFrames(s, z) \/ (z = y /\ OwnIn(t)))
  BY <1>6, <1>8
<1>14. /\ \A x \in Item : KidsOf(x)' = KidsOf(x)
       /\ \A z \in Item : z # c.item => undoKids'[z] = undoKids[z] /\ redoKids'[z] = redoKids[z]
       /\ \A z \in Item : z # y => (IsDone(z)' => IsDone(z)) /\ (IsUndone(z)' => IsUndone(z))
       /\ IF t.op = "undo" THEN IsDone(y) ELSE IsUndone(y)
       /\ IF (t.op = "undo") = (t.res = "ok") THEN IsUndone(y)' ELSE IsDone(y)'
  BY <1>3, <1>6 DEF LoopMoves
<1>15. IsDone(y)' <=> OwnIn(t)
  BY <1>1, <1>2, <1>4, <1>5, <1>14, ReturnedOwn DEF NeverBoth
<1>16. ASSUME NEW x \in Item, x # y, IsDone(x)
       PROVE  IsDone(x)'
  <2>1. ~IsUndone(x)'
    BY <1>1, <1>2, <1>14, <1>16 DEF NeverBoth
  <2>2. CASE x \in ToSet(doStack) \cup ToSet(undoStack)
    BY <1>1, <2>2 DEF IsDone
  <2>3. CASE \E z \in Item : x \in ToSet(undoKids[z])
    <3>1. PICK z \in Item : x \in ToSet(undoKids[z])
      BY <2>3
    <3>2. x \in KidsOf(z)'
      BY <1>14, <3>1 DEF KidsOf
    <3>3. x \in ToSet(undoKids'[z])
      BY <2>1, <3>2 DEF KidsOf, IsUndone
    <3>. QED  BY <3>3 DEF IsDone
  <2>. QED  BY <1>16, <2>2, <2>3 DEF IsDone
<1>17. ~InFrames(s, y)
  BY <1>8, InFramesBusy
<1>18. ASSUME NEW x \in Transaction
       PROVE  InForce(x)' <=> InForce(x)
  <2>1. x \in Item
    BY DEF Item
  <2>2. CASE x = y
    BY <1>8, <1>12, <1>13, <1>15, <1>17, <2>2 DEF InForce
  <2>3. CASE x # y
    <3>1. IsDone(x)' <=> IsDone(x)
      BY <1>14, <1>16, <2>1, <2>3
    <3>. QED  BY <1>12, <1>13, <2>3, <3>1 DEF InForce
  <2>. QED  BY <2>2, <2>3
<1>19. Untracked \subseteq Untracked'
  BY <1>1, <1>14, UntrackedGrows
<1>20. DocIs'
  BY <1>1, <1>18, <1>19, DocSame DEF DocInv
<1>21. Disjoint'
  <2>1. Held(y)
    BY <1>13, BusyHeld
  <2>2. \A x \in Transaction : Held(x)' => Held(x)
    BY <1>14, <2>1 DEF Held, Item
  <2>. QED  BY <1>1, <2>2, DisjointSame DEF DocInv
<1>22. Anchored'
  <2>1. PICK L \in SUBSET Item : L = {}
    OBVIOUS
  <2>2. Anchored /\ Roots \subseteq Roots' \cup L /\ \A x \in L : KidsOf(x) \subseteq L
    BY <1>1, <2>1 DEF DocInv, Roots
  <2>3. ASSUME NEW x \in Item, IsDone(x)' \/ Busy(calls, x)'
        PROVE  x \notin L /\ (IsDone(x) \/ Busy(calls, x))
    BY <1>12, <1>13, <1>14, <2>1, <2>3
  <2>. QED  BY <1>1, <1>14, <2>2, <2>3, AnchoredGrows
<1>. QED  BY <1>20, <1>21, <1>22 DEF DocInv

-----------------------------------------------------------------------------
(* Steps of the manager's callers, and the ends of transactions.           *)

\* While transactions are executed what is in force is what is done.
LEMMA DoingForce ==
  ASSUME AllDos(calls)
  PROVE  \A y : ~Busy(calls, y) /\ (InForce(y) <=> IsDone(y))
  BY DEF AllDos, Busy, InForce

\* A step that runs nothing and merges nothing.
LEMMA DoingDoc ==
  ASSUME DocInv, TypeOK, TypeOK', AllDos(calls), AllDos(calls'),
         \A x \in Item : KidsOf(x) \subseteq KidsOf(x)', forgotten \subseteq forgotten',
         doc' = doc, absorbed' = absorbed, used \subseteq used',
         NEW L \in SUBSET Item, \A x \in L : KidsOf(x) \subseteq L,
         \A y \in Roots : y \in Roots' \/ y \in L \/ \E z \in Roots' : y \in KidsOf(z)',
         \A y \in Item : IsDone(y)' => y \in Roots' \/ (y \notin L /\ IsDone(y)),
         \A t \in Transaction : IsDone(t)' => IsDone(t),
         \A t \in Transaction : IsDone(t) => IsDone(t)' \/ t \in forgotten',
         \A t \in Transaction : IsUndone(t)' => IsUndone(t)
  PROVE  DocInv'
<1>1. \A y : ~Busy(calls, y) /\ (InForce(y) <=> IsDone(y))
  BY DoingForce
<1>2. \A y : ~Busy(calls, y)' /\ (InForce(y)' <=> IsDone(y)')
  BY DEF AllDos, Busy, InForce
<1>3. forgotten' \subseteq Reach(AllKids, forgotten)' /\ Untracked \subseteq Untracked'
  BY UntrackedGrows
<1>4. DocIs'
  BY <1>1, <1>2, <1>3, DocSame DEF DocInv
<1>5. Disjoint'
  BY <1>1, DisjointSame DEF DocInv, Held
<1>6. Anchored'
  BY <1>2, AnchoredGrows DEF DocInv
<1>. QED  BY <1>4, <1>5, <1>6 DEF DocInv

\* The item at the top of the do stack is at no other place.
LEMMA TopAlone ==
  ASSUME TypeOK, ItemOwnedOnce, doStack # <<>>
  PROVE  /\ Peek(doStack) \notin ToSet(Pop(doStack)) /\ Peek(doStack) \notin ToSet(undoStack)
         /\ \A z \in Item : Peek(doStack) \notin ToSet(undoKids[z])
<1>1. HeldByLists /\ DOMAIN HeldBy = Holder
  BY HeldByOp DEF HeldByLists
<1>2. PICK x, n : x = Peek(doStack) /\ n = Len(doStack)
  OBVIOUS
<1>3. /\ n \in DOMAIN doStack /\ doStack[n] = x
      /\ \A i \in DOMAIN Pop(doStack) : i \in DOMAIN doStack /\ Pop(doStack)[i] = doStack[i] /\ i # n
  <2>1. PICK d \in Seq(Item) : d = doStack /\ d # <<>>
    BY DEF TypeOK
  <2>2. n \in Nat /\ n # 0 /\ DOMAIN d = 1..n /\ x = d[n]
    BY <1>2, <2>1, EmptySeq DEF Peek, Last
  <2>3. DOMAIN Pop(d) = 1..(n - 1) /\ \A i \in 1..(n - 1) : Pop(d)[i] = d[i]
    BY <1>2, <2>1, <2>2, FrontOp DEF Pop
  <2>4. n \in 1..n /\ \A i \in 1..(n - 1) : i \in 1..n /\ i # n
    BY <2>2
  <2>. QED  BY <2>1, <2>2, <2>3, <2>4
<1>4. ASSUME NEW h \in Holder, NEW i \in DOMAIN HeldBy[h], HeldBy[h][i] = x
      PROVE  h = <<"open">> /\ i = n
  BY <1>1, <1>3, <1>4, HolderOp DEF HeldByLists, ItemOwnedOnce, OwnedOnce
<1>5. x \notin ToSet(Pop(doStack))
  BY <1>1, <1>3, <1>4, HolderOp DEF HeldByLists, ToSet
<1>6. x \notin ToSet(undoStack)
  BY <1>1, <1>4, HolderOp, HolderDistinct DEF HeldByLists, ToSet
<1>7. ASSUME NEW z \in Item
      PROVE  x \notin ToSet(undoKids[z])
  <2>1. <<"undo", z>> \in Holder /\ <<"undo", z>> # <<"open">> /\ HeldBy[<<"undo", z>>] = undoKids[z]
    BY <1>1, HolderOp, HolderDistinct DEF HeldByLists
  <2>. QED  BY <1>4, <2>1 DEF ToSet
<1>. QED  BY <1>2, <1>5, <1>6, <1>7

\* What is below an undone item that is whole is undone.
LEMMA UndoneClosed ==
  ASSUME TypeOK, AllWhole
  PROVE  \A y \in Item : IsUndone(y) => \A w \in KidsOf(y) : w \in Item /\ IsUndone(w)
<1>. SUFFICES ASSUME NEW y \in Item, IsUndone(y), NEW w \in KidsOf(y)
              PROVE  w \in Item /\ IsUndone(w)
  OBVIOUS
<1>1. undoKids[y] = <<>> /\ ToSet(<<>>) = {} /\ KidsOf(y) \subseteq Item
  BY AllKidsOp, EmptyToSet DEF AllWhole, IsWhole
<1>2. w \in ToSet(redoKids[y])
  BY <1>1 DEF KidsOf
<1>. QED  BY <1>1, <1>2 DEF IsUndone

\* What is on a stack has been made.
LEMMA OnStacksUsed ==
  ASSUME HeldUsed
  PROVE  \A y \in Item : y \in ToSet(doStack) \/ y \in ToSet(undoStack) => y \in used
<1>1. /\ DOMAIN HeldBy = Holder /\ HeldBy[<<"open">>] = doStack /\ HeldBy[<<"undo">>] = undoStack
      /\ <<"open">> \in Holder /\ <<"undo">> \in Holder
  BY HeldByOp, HolderOp DEF HeldByLists
<1>2. ASSUME NEW y \in Item, NEW h \in Holder, y \in ToSet(HeldBy[h])
      PROVE  y \in used
  BY <1>1, <1>2 DEF HeldUsed, Holds, ToSet
<1>. QED  BY <1>1, <1>2

\* A transaction that is merged into another leaves it its effects.
LEMMA MergeDoc ==
  ASSUME SafeInv, HistoryInv, AllWhole, DocInv, TypeOK', AllDos(calls), AllDos(calls'),
         doStack # <<>>, NEW x, x = Peek(doStack), Pop(doStack) = <<>>, doStack' = <<>>,
         x \in Transaction, undoStack # <<>>, NEW top \in Transaction, top = Peek(undoStack),
         Absorbs(top, x), absorbed' = [absorbed EXCEPT ![top] = @ \cup Effects(x)],
         redoStack' = <<>>, UNCHANGED <<undoStack, kids, forgotten, used, doc>>
  PROVE  DocInv'
<1>1. /\ TypeOK /\ ItemOwnedOnce /\ NeverBoth /\ Typed /\ OpenPlain /\ HeldUsed
      /\ doStack \in Seq(Item) /\ undoStack \in Seq(Item) /\ redoStack \in Seq(Item)
      /\ absorbed \in [Transaction -> SUBSET Transaction]
  BY NotBoth DEF SafeInv, HistoryInv, Typed, TypeOK, Owned
<1>2. /\ x \notin ToSet(undoStack) /\ \A z \in Item : x \notin ToSet(undoKids[z])
      /\ x \in Item /\ x \in ToSet(doStack) /\ top \in ToSet(undoStack) /\ top # x
      /\ ToSet(doStack) = {x} /\ ToSet(<<>>) = {}
  BY <1>1, TopAlone, ToSetOp, EmptyToSet DEF Item
<1>3. IsDone(x) /\ IsDone(top) /\ ~IsUndone(x)
  BY <1>1, <1>2 DEF IsDone, NeverBoth
<1>4. undoKids' = undoKids /\ redoKids' = redoKids /\ forgotten' = forgotten /\ used' = used
  BY DEF kids
<1>5. /\ \A y : IsDone(y)' <=> IsDone(y) /\ y # x
      /\ \A y : IsUndone(y)' => IsUndone(y)
  BY <1>2, <1>4 DEF IsDone, IsUndone
<1>6. /\ \A t \in Transaction : t # top => Effects(t)' = Effects(t)
      /\ Effects(top)' = Effects(top) \cup Effects(x)
      /\ \A t \in Transaction : absorbed[t] \subseteq absorbed'[t]
  BY <1>1 DEF Effects
<1>7. /\ \A y : ~Busy(calls, y) /\ (InForce(y) <=> IsDone(y))
      /\ \A y : ~Busy(calls, y)' /\ (InForce(y)' <=> IsDone(y)')
  BY DoingForce DEF AllDos, Busy, InForce
<1>8. \A y \in Item : KidsOf(y)' = KidsOf(y)
  BY <1>4 DEF KidsOf
<1>9. Untracked \subseteq Untracked'
  BY <1>1, <1>4, <1>6, <1>8, UntrackedGrows
<1>10. DocIs'
  <2>1. \A w : w \notin Untracked => (w \in doc <=> \E t \in Transaction : IsDone(t) /\ w \in Effects(t))
    BY <1>7 DEF DocInv, DocIs, InEffect, Present
  <2>2. \A w : (\E t \in Transaction : IsDone(t) /\ w \in Effects(t))
                 <=> \E t \in Transaction : IsDone(t)' /\ w \in Effects(t)'
    <3>1. ASSUME NEW w, NEW t \in Transaction, IsDone(t), w \in Effects(t)
          PROVE  \E s \in Transaction : IsDone(s)' /\ w \in Effects(s)'
      <4>1. CASE t = x \/ t = top
        BY <1>2, <1>3, <1>5, <1>6, <3>1, <4>1
      <4>2. CASE t # x /\ t # top
        BY <1>5, <1>6, <3>1, <4>2
      <4>. QED  BY <4>1, <4>2
    <3>2. ASSUME NEW w, NEW t \in Transaction, IsDone(t)', w \in Effects(t)'
          PROVE  \E s \in Transaction : IsDone(s) /\ w \in Effects(s)
      <4>1. CASE t = top
        BY <1>3, <1>6, <3>2, <4>1
      <4>2. CASE t # top
        BY <1>5, <1>6, <3>2, <4>2
      <4>. QED  BY <4>1, <4>2
    <3>. QED  BY <3>1, <3>2
  <2>3. \A w : w \notin Untracked' => (w \in doc' <=> \E t \in Transaction : IsDone(t)' /\ w \in Effects(t)')
    BY <1>9, <2>1, <2>2
  <2>4. \A t \in Transaction : IsDone(t)' => Effects(t)' \subseteq doc'
    <3>1. \A t \in Transaction : IsDone(t) => Effects(t) \subseteq doc
      BY <1>7 DEF DocInv, DocIs, InEffect, Present
    <3>. QED  BY <2>2, <3>1
  <2>. QED  BY <1>7, <2>3, <2>4 DEF DocIs, InEffect, Present
<1>11. Disjoint'
  <2>1. \A t \in Transaction : Held(t)' => Held(t) /\ t # x
    BY <1>3, <1>5 DEF Held
  <2>2. Held(x) /\ Held(top)
    BY <1>3 DEF Held
  <2>3. ASSUME NEW s \in Transaction, NEW t \in Transaction, Held(s)', Held(t)', s # t
        PROVE  Effects(s)' \cap Effects(t)' = {}
    <3>1. /\ Held(s) /\ Held(t) /\ s # x /\ t # x /\ Effects(s) \cap Effects(t) = {}
          /\ Effects(s) \cap Effects(x) = {} /\ Effects(t) \cap Effects(x) = {}
      BY <2>1, <2>2, <2>3 DEF DocInv, Disjoint
    <3>2. /\ Effects(s)' = IF s = top THEN Effects(s) \cup Effects(x) ELSE Effects(s)
          /\ Effects(t)' = IF t = top THEN Effects(t) \cup Effects(x) ELSE Effects(t)
      BY <1>6
    <3>. QED  BY <2>3, <3>1, <3>2
  <2>4. x \in used /\ top \in used
    BY <1>1, <1>2, OnStacksUsed, Zenon DEF Item
  <2>5. \A t \in Transaction : absorbed'[t] \subseteq used /\ (t \notin used => absorbed'[t] = {})
    <3>1. \A t \in Transaction : absorbed[t] \subseteq used /\ (t \notin used => absorbed[t] = {})
      BY DEF DocInv, Disjoint
    <3>2. Effects(x) \subseteq used
      BY <2>4, <3>1 DEF Effects
    <3>3. \A t \in Transaction : absorbed'[t] = IF t = top THEN absorbed[t] \cup Effects(x) ELSE absorbed[t]
      BY <1>1
    <3>. QED  BY <2>4, <3>1, <3>2, <3>3
  <2>. QED  BY <1>4, <2>3, <2>5 DEF Disjoint
<1>12. KidsOf(x) = {}
  <2>1. undoKids[x] = <<>>
    BY DEF Absorbs
  <2>2. redoKids[x] = <<>>
    BY <1>1, <1>2 DEF OpenPlain, ToSet
  <2>. QED  BY <1>2, <2>1, <2>2 DEF KidsOf
<1>13. Anchored'
  <2>1. PICK L \in SUBSET Item : L = {x} \cup {y \in Item : IsUndone(y)}
    BY <1>2
  <2>2. \A y \in L : KidsOf(y) \subseteq L
    BY <1>1, <1>12, <2>1, UndoneClosed
  <2>3. \A y \in Roots : y \in Roots' \/ y \in L
    <3>1. Roots = {x} \cup ToSet(undoStack) \cup ToSet(redoStack) \cup forgotten
      BY <1>2 DEF Roots
    <3>2. ToSet(undoStack) \cup forgotten \subseteq Roots'
      BY <1>4 DEF Roots
    <3>3. \A y \in ToSet(redoStack) : y \in Item /\ IsUndone(y)
      BY <1>1, ToSetOp DEF IsUndone
    <3>. QED  BY <2>1, <3>1, <3>2, <3>3
  <2>4. ASSUME NEW y \in Item, IsDone(y)' \/ Busy(calls, y)'
        PROVE  y \notin L /\ (IsDone(y) \/ Busy(calls, y))
    BY <1>1, <1>5, <1>7, <2>1, <2>4 DEF NeverBoth
  <2>. QED  BY <1>1, <1>8, <2>2, <2>3, <2>4, AnchoredGrows DEF DocInv
<1>. QED  BY <1>10, <1>11, <1>13 DEF DocInv

\* EndTransaction() lets the item go, adds it to its parent, or records it.
LEMMA EndTransactionDoc ==
  ASSUME SafeInv, HistoryInv, AllWhole, MergesUnharmed, DocInv, TypeOK', AllDos(calls), AllDos(calls'),
         doStack # <<>>, NEW result, EndTransaction(result), UNCHANGED <<redoKids, used, doc>>
  PROVE  DocInv'
<1>. PICK x, rest : x = Peek(doStack) /\ rest = Pop(doStack)
  OBVIOUS
<1>1. /\ TypeOK /\ ItemOwnedOnce /\ NeverBoth /\ Typed /\ OpenPlain /\ HeldUsed /\ FaultsListed
      /\ doStack \in Seq(Item) /\ undoStack \in Seq(Item) /\ redoStack \in Seq(Item)
      /\ undoKids \in [Item -> Seq(Item)] /\ redoKids \in [Item -> Seq(Item)]
      /\ redoKids' = redoKids /\ used' = used /\ doc' = doc
  BY NotBoth DEF SafeInv, HistoryInv, Typed, TypeOK, Owned
<1>2. /\ x \in Item /\ x \in ToSet(doStack) /\ rest \in Seq(Item) /\ doStack' = rest
      /\ ToSet(doStack) = ToSet(rest) \cup {x} /\ x \notin ToSet(rest)
      /\ x \notin ToSet(undoStack) /\ \A z \in Item : x \notin ToSet(undoKids[z])
  BY <1>1, TopAlone, ToSetOp, PopOp DEF EndTransaction
<1>3. IsDone(x) /\ ~IsUndone(x) /\ redoKids[x] = <<>>
  BY <1>1, <1>2 DEF IsDone, NeverBoth, AllWhole, IsWhole
<1>4. /\ \A y \in Item : IsDone(y)' => IsDone(y)
      /\ ToSet(redoStack') \subseteq ToSet(redoStack)
  BY <1>1, EndTransactionDone
<1>5. \A y \in Item : IsUndone(y)' => IsUndone(y)
  BY <1>1, <1>4 DEF IsUndone
<1>6. \A t \in Transaction : t \in Item
  BY DEF Item
<1>7. ToSet(<<>>) = {}
  BY EmptyToSet
<1>8. CASE Release(x)
  <2>1. /\ undoStack' = undoStack /\ redoStack' = redoStack /\ undoKids' = undoKids /\ absorbed' = absorbed
        /\ forgotten' = IF IsTransient(x) \/ maxCount = 0 THEN forgotten \cup {x} ELSE forgotten
        /\ x \in forgotten' \/ EmptyBatch(x)
    BY <1>8 DEF Release
  <2>2. PICK L \in SUBSET Item : L = (IF x \in forgotten' THEN {} ELSE {x})
    BY <1>2
  <2>3. \A y \in L : KidsOf(y) \subseteq L
    <3>1. \A y \in L : undoKids[y] = <<>> /\ redoKids[y] = <<>>
      BY <2>1, <2>2 DEF EmptyBatch
    <3>. QED  BY <1>7, <3>1 DEF KidsOf
  <2>4. \A y \in Item : KidsOf(y)' = KidsOf(y)
    BY <1>1, <2>1 DEF KidsOf
  <2>5. \A y \in Roots : y \in Roots' \/ y \in L
    BY <1>2, <2>1, <2>2 DEF Roots
  <2>6. \A y \in Item : y # x => (IsDone(y)' <=> IsDone(y))
    BY <1>2, <2>1 DEF IsDone
  <2>7. ~IsDone(x)'
    BY <1>2, <2>1 DEF IsDone
  <2>8. forgotten \subseteq forgotten'
    BY <2>1
  <2>9. \A y \in Item : IsDone(y)' => y \notin L /\ IsDone(y)
    BY <1>4, <2>2, <2>7
  <2>10. \A t \in Transaction : IsDone(t) => IsDone(t)' \/ t \in forgotten'
    <3>1. x \in Transaction => x \in forgotten'
      BY <2>1, ItemAssumption DEF EmptyBatch
    <3>. QED  BY <1>6, <2>6, <3>1
  <2>. QED  BY <1>1, <1>4, <1>5, <1>6, <2>1, <2>3, <2>4, <2>5, <2>8, <2>9, <2>10, DoingDoc
<1>9. CASE AddChild(x, rest)
  <2>1. /\ rest # <<>> /\ undoStack' = undoStack /\ redoStack' = redoStack
        /\ absorbed' = absorbed /\ forgotten' = forgotten
        /\ undoKids' = [undoKids EXCEPT ![Peek(rest)] = Push(@, x)]
    BY <1>9 DEF AddChild
  <2>2. PICK p \in Item : p = Peek(rest) /\ p \in ToSet(rest)
    BY <1>2, <2>1, PopOp, ToSetOp
  <2>3. /\ \A y \in Item : y # p => undoKids'[y] = undoKids[y]
        /\ undoKids'[p] = Push(undoKids[p], x)
    BY <1>1, <2>1, <2>2
  <2>4. ToSet(undoKids'[p]) = ToSet(undoKids[p]) \cup {x}
    BY <1>1, <1>2, <2>3, ToSetOp
  <2>5. \A y \in Item : ToSet(undoKids[y]) \subseteq ToSet(undoKids'[y])
    BY <2>3, <2>4
  <2>6. (\A y \in Item : KidsOf(y) \subseteq KidsOf(y)') /\ x \in KidsOf(p)'
    BY <1>1, <2>4, <2>5 DEF KidsOf
  <2>7. PICK L \in SUBSET Item : L = {}
    OBVIOUS
  <2>8. p \in Roots' /\ \A y \in Roots : y \in Roots' \/ y = x
    BY <1>2, <2>1, <2>2 DEF Roots
  <2>9. \A y \in Roots : y \in Roots' \/ y \in L \/ \E z \in Roots' : y \in KidsOf(z)'
    BY <2>6, <2>8
  <2>10. \A y \in Item : IsDone(y) => IsDone(y)'
    <3>1. IsDone(x)'
      BY <2>2, <2>4 DEF IsDone
    <3>2. \A y \in Item : y # x /\ IsDone(y) => IsDone(y)'
      BY <1>2, <2>1, <2>5 DEF IsDone
    <3>. QED  BY <3>1, <3>2
  <2>11. \A y \in L : KidsOf(y) \subseteq L
    BY <2>7
  <2>12. \A y \in Item : IsDone(y)' => y \notin L /\ IsDone(y)
    BY <1>4, <2>7
  <2>. QED  BY <1>1, <1>4, <1>5, <1>6, <2>1, <2>6, <2>9, <2>10, <2>11, <2>12, DoingDoc
<1>10. CASE rest = <<>> /\ Record(x, result)
  <2>1. redoStack' = <<>> /\ undoKids' = undoKids /\ UNCHANGED kids
    BY <1>1, <1>10 DEF Record, kids
  <2>2. \/ PushUndo(x) /\ absorbed' = absorbed
        \/ /\ x \in Transaction /\ undoStack # <<>> /\ Peek(undoStack) \in Transaction
           /\ Absorbs(Peek(undoStack), x) /\ UNCHANGED <<undoStack, forgotten>>
           /\ absorbed' = [absorbed EXCEPT ![Peek(undoStack)] = @ \cup Effects(x)]
    <3>1. "fail" \notin WillNotify("Merge", x)
      BY <1>1, MergeWillOp
    <3>. QED  BY <1>10, <3>1 DEF Record, MayMerge
  <2>3. CASE /\ x \in Transaction /\ undoStack # <<>> /\ Peek(undoStack) \in Transaction
             /\ Absorbs(Peek(undoStack), x) /\ UNCHANGED <<undoStack, forgotten>>
             /\ absorbed' = [absorbed EXCEPT ![Peek(undoStack)] = @ \cup Effects(x)]
    <3>1. PICK top \in Transaction : top = Peek(undoStack)
      BY <2>3
    <3>2. UNCHANGED <<undoStack, kids, forgotten, used, doc>>
      BY <1>1, <2>1, <2>3
    <3>. QED  BY <1>2, <1>10, <2>1, <2>3, <3>1, <3>2, MergeDoc
  <2>4. CASE PushUndo(x) /\ absorbed' = absorbed
    <3>1. PICK kept \in Seq(Item) :
            /\ undoStack' = Push(kept, x) /\ ToSet(kept) \subseteq ToSet(undoStack)
            /\ forgotten' = forgotten \cup (ToSet(undoStack) \ ToSet(kept))
      <4>. DEFINE k == IF AtMax /\ undoStack # <<>> THEN Tail(undoStack) ELSE undoStack
      <4>1. k \in Seq(Item) /\ Part(k, undoStack)
        BY <1>1, PartOp
      <4>2. undoStack' = Push(k, x) /\ forgotten' = forgotten \cup (ToSet(undoStack) \ ToSet(k))
        BY <2>4 DEF PushUndo
      <4>. HIDE DEF k
      <4>. QED  BY <4>1, <4>2, PartToSet
    <3>2. ToSet(undoStack') = ToSet(kept) \cup {x}
      BY <1>2, <3>1, ToSetOp
    <3>3. PICK L \in SUBSET Item : L = {y \in Item : IsUndone(y)}
      OBVIOUS
    <3>4. \A y \in L : KidsOf(y) \subseteq L
      BY <1>1, <3>3, UndoneClosed
    <3>5. \A y \in Item : KidsOf(y)' = KidsOf(y)
      BY <1>1, <2>1 DEF KidsOf
    <3>6. \A y \in ToSet(redoStack) : y \in Item /\ IsUndone(y)
      BY <1>1, ToSetOp DEF IsUndone
    <3>7. \A y \in Roots : y \in Roots' \/ y \in L
      BY <1>2, <3>1, <3>2, <3>3, <3>6 DEF Roots
    <3>8. \A y \in Item : IsDone(y) => IsDone(y)' \/ y \in forgotten'
      BY <1>2, <2>1, <3>1, <3>2 DEF IsDone
    <3>9. \A y \in Item : IsDone(y)' => y \notin L /\ IsDone(y)
      BY <1>1, <1>4, <3>3 DEF NeverBoth
    <3>. QED  BY <1>1, <1>4, <1>5, <1>6, <2>4, <3>1, <3>4, <3>5, <3>7, <3>8, <3>9, DoingDoc
  <2>. QED  BY <2>2, <2>3, <2>4
<1>. QED  BY <1>8, <1>9, <1>10 DEF EndTransaction

\* No doTransaction() fails.
LEMMA DosSucceedOp ==
  ASSUME FaultsListed, DosSucceed, NEW x
  PROVE  "fail" \notin OwnResults("Do", x)
<1>1. <<x, "own", "Do", "fail">> \notin faulty
  <2>. SUFFICES ASSUME <<x, "own", "Do", "fail">> \in Misbehaviours
                PROVE  FALSE
    BY DEF FaultsListed
  <2>1. PICK y \in Item, k \in FaultKinds : <<x, "own", "Do", "fail">> = <<y, k[1], k[2], k[3]>>
    BY DEF Misbehaviours
  <2>2. k[1] = "own" /\ k[2] = "Do"
    BY <2>1
  <2>. QED  BY <2>2 DEF DosSucceed
<1>. QED  BY <1>1 DEF OwnResults, Outcomes

\* A transaction is executed: its effect is its own, as it has absorbed none yet.
LEMMA DoTransactionDoc ==
  ASSUME SafeInv, DocInv, TypeOK', AllDos(calls), AllDos(calls'), NEW t \in Transaction, DoTransaction(t)
  PROVE  DocInv'
<1>1. /\ TypeOK /\ doStack \in Seq(Item) /\ t \in Item /\ t \notin used
      /\ doStack' = Push(doStack, t) /\ doc' = doc \cup {t} /\ used' = used \cup {t}
      /\ UNCHANGED <<undoStack, redoStack, kids, absorbed, forgotten>>
  BY DEF SafeInv, Typed, TypeOK, DoTransaction, Item
<1>2. ToSet(doStack') = ToSet(doStack) \cup {t}
  BY <1>1, ToSetOp
<1>3. Effects(t) = {t}
  BY <1>1 DEF DocInv, Disjoint, Effects
<1>4. undoKids' = undoKids /\ redoKids' = redoKids /\ \A y \in Item : KidsOf(y)' = KidsOf(y)
  BY <1>1 DEF kids, KidsOf
<1>5. /\ \A y : y # t => (IsDone(y)' <=> IsDone(y))
      /\ IsDone(t)' /\ \A y : IsUndone(y)' <=> IsUndone(y)
  BY <1>1, <1>2, <1>4 DEF IsDone, IsUndone
<1>6. /\ \A y : ~Busy(calls, y) /\ (InForce(y) <=> IsDone(y))
      /\ \A y : ~Busy(calls, y)' /\ (InForce(y)' <=> IsDone(y)')
  BY DoingForce DEF AllDos, Busy, InForce
<1>7. Untracked \subseteq Untracked'
  BY <1>1, <1>4, UntrackedGrows
<1>8. DocIs'
  <2>1. doc' = doc \cup Effects(t) /\ absorbed' = absorbed /\ DocIs
    BY <1>1, <1>3 DEF DocInv
  <2>2. InForce(t)' /\ \A s \in Transaction : s # t => (InForce(s)' <=> InForce(s))
    BY <1>5, <1>6
  <2>. QED  BY <1>7, <2>1, <2>2, DocAdds
<1>9. Disjoint'
  BY <1>1, <1>5, DisjointSame DEF DocInv, Held
<1>10. Anchored'
  <2>1. PICK L \in SUBSET Item : L = {}
    OBVIOUS
  <2>2. /\ \A y \in L : KidsOf(y) \subseteq L
        /\ \A y \in Roots : y \in Roots'
        /\ t \in Roots'
    BY <1>1, <1>2, <2>1 DEF Roots
  <2>3. ASSUME NEW y \in Item, IsDone(y)' \/ Busy(calls, y)'
        PROVE  y \in Roots' \/ (y \notin L /\ (IsDone(y) \/ Busy(calls, y)))
    BY <1>5, <1>6, <2>1, <2>2, <2>3
  <2>. QED  BY <1>1, <1>4, <2>2, <2>3, AnchoredGrows DEF DocInv
<1>. QED  BY <1>8, <1>9, <1>10 DEF DocInv

LEMMA ExecutingDoc ==
  ASSUME SafeInv, HistoryInv, AllWhole, MergesUnharmed, DosSucceed, DocInv, TypeOK',
         AllDos(calls), AllDos(calls'),
         \/ Client /\ ~UndoTransaction /\ ~RedoTransaction
         \/ DoFails \/ DoSucceeds
  PROVE  DocInv'
<1>1. /\ TypeOK /\ FaultsListed
      /\ doStack \in Seq(Item) /\ undoStack \in Seq(Item) /\ redoStack \in Seq(Item)
      /\ \A t \in Transaction : t \in Item
  BY DEF SafeInv, HistoryInv, Typed, TypeOK, Item
\* Nothing is executed, and what the stacks lose is let go.
<1>2. ASSUME UNCHANGED <<doStack, kids, doc, absorbed>>, used \subseteq used',
             ToSet(undoStack') \subseteq ToSet(undoStack), ToSet(redoStack') \subseteq ToSet(redoStack),
             \A y \in ToSet(undoStack) : y \in ToSet(undoStack') \/ y \in forgotten',
             \A y \in ToSet(redoStack) : y \in ToSet(redoStack') \/ y \in forgotten',
             forgotten \subseteq forgotten'
      PROVE  DocInv'
  <2>1. undoKids' = undoKids /\ redoKids' = redoKids /\ \A y \in Item : KidsOf(y)' = KidsOf(y)
    BY <1>2 DEF kids, KidsOf
  <2>2. PICK L \in SUBSET Item : L = {}
    OBVIOUS
  <2>3. \A y \in Item : /\ IsDone(y)' => IsDone(y)
                        /\ IsDone(y) => IsDone(y)' \/ y \in forgotten'
                        /\ IsUndone(y)' => IsUndone(y)
    BY <1>2, <2>1 DEF IsDone, IsUndone
  <2>4. \A y \in Roots : y \in Roots'
    BY <1>2 DEF Roots
  <2>5. (\A y \in L : KidsOf(y) \subseteq L) /\ \A y \in Item : IsDone(y)' => y \notin L /\ IsDone(y)
    BY <2>2, <2>3
  <2>. QED  BY <1>1, <1>2, <2>1, <2>3, <2>4, <2>5, DoingDoc
<1>3. ASSUME NEW t \in Transaction, DoTransaction(t)
      PROVE  DocInv'
  BY <1>3, DoTransactionDoc
<1>4. ASSUME NEW t \in Transaction, RefuseTransaction(t)
      PROVE  DocInv'
  BY <1>2, <1>4 DEF RefuseTransaction, stacks, ghosts
<1>5. ASSUME NEW b \in Batch, BeginBatch(b)
      PROVE  DocInv'
  <2>1. /\ b \in Item /\ b \notin Transaction /\ doStack' = Push(doStack, b) /\ used \subseteq used'
        /\ UNCHANGED <<undoStack, redoStack, kids, doc, absorbed, forgotten>>
    BY <1>5, ItemAssumption DEF BeginBatch, ghosts, Item
  <2>2. ToSet(doStack') = ToSet(doStack) \cup {b}
    BY <1>1, <2>1, ToSetOp
  <2>3. undoKids' = undoKids /\ redoKids' = redoKids /\ \A y \in Item : KidsOf(y)' = KidsOf(y)
    BY <2>1 DEF kids, KidsOf
  <2>4. PICK L \in SUBSET Item : L = {}
    OBVIOUS
  <2>5. \A y : /\ IsDone(y) => IsDone(y)'
               /\ IsDone(y)' => IsDone(y) \/ y = b
               /\ IsUndone(y)' => IsUndone(y)
    BY <2>1, <2>2, <2>3 DEF IsDone, IsUndone
  <2>6. b \in Roots' /\ \A y \in Roots : y \in Roots'
    BY <2>1, <2>2 DEF Roots
  <2>7. /\ \A y \in L : KidsOf(y) \subseteq L
        /\ \A y \in Item : IsDone(y)' => y \in Roots' \/ (y \notin L /\ IsDone(y))
    BY <2>4, <2>5, <2>6
  <2>8. \A t \in Transaction : IsDone(t)' => IsDone(t)
    BY <2>1, <2>5
  <2>. QED  BY <1>1, <2>1, <2>3, <2>5, <2>6, <2>7, <2>8, DoingDoc
<1>6. CASE EndBatch
  <2>1. doStack # <<>> /\ EndTransaction("ok") /\ UNCHANGED <<redoKids, used, doc>>
    BY <1>6 DEF EndBatch, BatchOnTop
  <2>. QED  BY <2>1, EndTransactionDoc
<1>7. CASE Clear
  <2>1. /\ undoStack' = <<>> /\ redoStack' = <<>>
        /\ forgotten' = forgotten \cup ToSet(undoStack) \cup ToSet(redoStack)
        /\ UNCHANGED <<doStack, kids, doc, absorbed>> /\ used' = used
    BY <1>7 DEF Clear, ghosts
  <2>. QED  BY <1>2, <2>1, EmptyToSet
<1>8. ASSUME NEW m \in MaxCounts, SetMaxTransactionCount(m)
      PROVE  DocInv'
  <2>1. KeptUndos(m) \in 0..Len(undoStack) /\ KeptRedos(m) \in 0..Len(redoStack)
    BY <1>1, CountAssumption DEF KeptUndos, KeptRedos
  <2>2. /\ Part(undoStack', undoStack) /\ Part(redoStack', redoStack)
        /\ forgotten' = forgotten \cup (ToSet(undoStack) \ ToSet(undoStack'))
                                  \cup (ToSet(redoStack) \ ToSet(redoStack'))
        /\ UNCHANGED <<doStack, kids, doc, absorbed>> /\ used' = used
    BY <1>1, <1>8, <2>1, PartOp DEF SetMaxTransactionCount, ghosts
  <2>. QED  BY <1>2, <2>2, PartToSet
<1>9. ~DoFails
  BY <1>1, DosSucceedOp DEF DoFails
<1>10. CASE DoSucceeds
  <2>1. doStack # <<>> /\ UNCHANGED <<redoKids, used, doc>>
    BY <1>10 DEF DoSucceeds, DoCompletes
  <2>2. PICK result \in Result : EndTransaction(result)
    BY <1>10 DEF DoSucceeds
  <2>. QED  BY <2>1, <2>2, EndTransactionDoc
<1>. QED
  BY <1>3, <1>4, <1>5, <1>6, <1>7, <1>8, <1>9, <1>10 DEF Client

-----------------------------------------------------------------------------
(* The document at rest.                                                   *)

LEMMA DocStep ==
  ASSUME OnlyDoReenters, MergesUnharmed, DosSucceed,
         SafeInv, SafeInv', HistoryInv, LoopInv, Steady, TreeInv, DocInv, Next
  PROVE  DocInv'
<1>1. /\ Typed /\ TypeOK /\ TypeOK' /\ DosInv /\ DoOrder(calls) /\ QuietStack /\ ItemOwnedOnce
      /\ calls \in Seq(Frame) /\ RestWhole(calls)
  BY DEF SafeInv, HistoryInv, Typed, TypeOK, DosInv, Owned, TreeInv
<1>2. ASSUME AllDos(calls),
             \/ Client /\ ~UndoTransaction /\ ~RedoTransaction
             \/ DoFails \/ DoSucceeds
      PROVE  DocInv'
  <2>1. AllDos(calls')
    BY <1>1, <1>2, DosStayDos
  <2>2. AllWhole
    BY <1>1, <1>2 DEF AllWhole, RestWhole, Busy, AllDos
  <2>. QED  BY <1>1, <1>2, <2>1, <2>2, ExecutingDoc
<1>3. CASE Client
  <2>1. ClientRuns
    BY <1>3 DEF Client, DoTransaction, RefuseTransaction, BeginBatch, EndBatch,
                UndoTransaction, RedoTransaction, Clear, SetMaxTransactionCount
  <2>2. AllDos(calls)
    BY <1>1, <2>1, ClientQuiet DEF AllDos
  <2>3. CASE UndoTransaction \/ RedoTransaction
    <3>1. calls = <<>>
      BY <1>1, <2>3, BeginsIdle
    <3>2. Working
      BY <1>1, <3>1 DEF Working
    <3>. QED  BY <1>1, <2>3, <3>1, <3>2, BeginsDoc
  <2>. QED  BY <1>2, <1>3, <2>2, <2>3
<1>4. ASSUME calls # <<>>
      PROVE  Top \in Frame /\ Len(calls) \in DOMAIN calls /\ Top = calls[Len(calls)]
  <2>1. Top \in Frame
    BY <1>1, <1>4, FrontOp DEF Top
  <2>2. Len(calls) \in DOMAIN calls
    BY <1>1, <1>4, EmptySeq
  <2>. QED  BY <2>1, <2>2 DEF Top, Last
<1>5. ASSUME calls # <<>>, Top.op # "do"
      PROVE  Working
  <2>1. \A i \in DOMAIN calls : calls[i].op # "do"
    BY <1>1, <1>4, <1>5, OneKind
  <2>. QED  BY <1>1, <2>1 DEF Working
<1>6. CASE DoFails \/ DoSucceeds
  <2>1. calls # <<>> /\ Top.op = "do"
    BY <1>6 DEF DoFails, DoSucceeds, DoCompletes
  <2>2. AllDos(calls)
    BY <1>1, <1>4, <2>1, OneKind DEF AllDos
  <2>. QED  BY <1>2, <1>6, <2>2
<1>7. calls # <<>> /\ Top.phase # "self" => Top.op # "do"
  BY <1>1, <1>4 DEF DoOrder
<1>8. NextChild \/ ChildrenDone \/ RecoveryDone \/ TransactionReturns \/ ChildReturns \/ ManagerReturns
        => Working
  <2>1. NextChild \/ ChildrenDone \/ RecoveryDone \/ TransactionReturns \/ ChildReturns \/ ManagerReturns
          => calls # <<>> /\ Top.op # "do"
    BY <1>7 DEF NextChild, ChildrenDone, RecoveryDone, TransactionReturns, Running, ChildReturns,
                ManagerReturns
  <2>. QED  BY <1>5, <2>1
<1>. QED
  BY <1>1, <1>3, <1>6, <1>8, NextChildDoc, PhasesDoc, TransactionReturnsDoc, ChildReturnsDoc,
     ManagerReturnsDoc
  DEF Next, Manager

\* What is done is at rest what the undo stack accounts for.
LEMMA DocAtRest ==
  ASSUME SafeInv, TreeInv, DocInv, AtRest
  PROVE  doc \ Untracked = Done \ Untracked
<1>1. /\ Typed /\ TypeOK /\ ItemOwnedOnce /\ NeverBoth /\ AllWhole /\ calls = <<>> /\ doStack = <<>>
      /\ ToSet(undoStack) \in SUBSET Item /\ ToSet(redoStack) \in SUBSET Item /\ forgotten \in SUBSET Item
  BY NotBoth, RestingWhole, ToSetOp DEF SafeInv, Typed, TypeOK, Owned, AtRest
<1>2. \A y : InForce(y) <=> IsDone(y)
  BY <1>1 DEF InForce, Busy
<1>3. \A x \in Item : /\ ToSet(AllKids[x]) = ToSet(undoKids[x]) \cup ToSet(redoKids[x])
                      /\ ToSet(AllKids[x]) \subseteq Item
  BY <1>1, AllKidsOp DEF KidsOf
<1>4. PICK f, g, S : f = AllKids /\ g = undoKids /\ S = ToSet(undoStack)
  OBVIOUS
<1>5. \A x \in Reach(g, S) : x \in Item /\ IsDone(x)
  <2>1. PICK C \in SUBSET Item : C = {y \in Item : IsDone(y)}
    OBVIOUS
  <2>2. S \subseteq C /\ \A x \in C : ToSet(g[x]) \subseteq C
    BY <1>1, <1>3, <1>4, <2>1 DEF IsDone
  <2>3. Reach(g, S) \subseteq C
    BY <2>2, ReachLeast
  <2>. QED  BY <2>1, <2>3
<1>6. Reach(f, S) \subseteq Reach(g, S)
  <2>1. S \subseteq Reach(g, S) /\ \A x \in Reach(g, S) : x \in Item /\ ToSet(g[x]) \subseteq Reach(g, S)
    BY <1>1, <1>3, <1>4, ReachHolds
  <2>2. \A x \in Reach(g, S) : ToSet(f[x]) = ToSet(g[x])
    BY <1>1, <1>3, <1>4, <1>5, EmptyToSet DEF AllWhole, IsWhole
  <2>3. PICK C \in SUBSET Item : C = Reach(g, S)
    BY <2>1
  <2>. QED  BY <2>1, <2>2, <2>3, ReachLeast
<1>7. ASSUME NEW t \in Transaction, IsDone(t)
      PROVE  t \in Reach(g, S) \/ t \in Reach(f, forgotten)
  <2>1. t \in Item
    BY DEF Item
  <2>2. t \in Reach(f, Roots)
    BY <1>4, <1>7, <2>1 DEF DocInv, Anchored
  <2>3. Roots = (S \cup ToSet(redoStack)) \cup forgotten
    BY <1>1, <1>4, EmptyToSet DEF Roots
  <2>4. t \in Reach(f, S \cup ToSet(redoStack)) \/ t \in Reach(f, forgotten)
    BY <1>1, <1>3, <1>4, <2>2, <2>3, ReachUnion
  <2>5. Reach(f, S \cup ToSet(redoStack)) \subseteq Reach(f, S) \cup Reach(f, ToSet(redoStack))
    BY <1>1, <1>3, <1>4, ReachUnion
  <2>6. t \notin Reach(f, ToSet(redoStack))
    <3>1. \A x \in Reach(f, ToSet(redoStack)) : IsUndone(x)
      BY <1>1, <1>4, WholeBelow
    <3>. QED  BY <1>1, <1>7, <3>1 DEF NeverBoth
  <2>. QED  BY <1>6, <2>4, <2>5, <2>6
<1>8. \A w : w \notin Untracked => (w \in doc <=> \E t \in Transaction : IsDone(t) /\ w \in Effects(t))
  BY <1>2 DEF DocInv, DocIs, InEffect, Present
<1>9. \A w : w \in Done <=> \E t \in Transaction : t \in Reach(g, S) /\ w \in Effects(t)
  BY <1>4 DEF Done, InEffect
<1>10. \A t \in Transaction : \A w : t \in Reach(f, forgotten) /\ w \in Effects(t) => w \in Untracked
  BY <1>4 DEF Untracked, InEffect
<1>11. \A w : w \notin Untracked => (w \in doc <=> w \in Done)
  BY <1>5, <1>7, <1>8, <1>9, <1>10
<1>. QED  BY <1>11

\* The document and the stacks go together at every moment.
LEMMA DocInvariant ==
  ASSUME OnlyDoReenters, SteadyFaults, MergesUnharmed, DosSucceed
  PROVE  Spec => [](SafeInv /\ HistoryInv /\ LoopInv /\ Steady /\ TreeInv /\ DocInv)
<1>1. Init => DocInv
  <2>. SUFFICES ASSUME Init
                PROVE  DocInv
    OBVIOUS
  <2>1. /\ calls = <<>> /\ doStack = <<>> /\ undoStack = <<>> /\ redoStack = <<>> /\ doc = {}
        /\ \A x \in Item : undoKids[x] = <<>> /\ redoKids[x] = <<>>
        /\ \A t \in Transaction : absorbed[t] = {}
    BY DEF Init
  <2>2. \A y : ~IsDone(y) /\ ~IsUndone(y) /\ ~Busy(calls, y)
    BY <2>1, EmptyToSet DEF IsDone, IsUndone, Busy
  <2>3. DocIs
    <3>1. Present = {}
      BY <2>2 DEF Present, InForce
    <3>. QED  BY <2>1, <3>1 DEF DocIs, InEffect
  <2>4. Disjoint
    BY <2>1, <2>2 DEF Disjoint, Held
  <2>5. Anchored
    BY <2>2 DEF Anchored
  <2>. QED  BY <2>3, <2>4, <2>5 DEF DocInv
<1>2. SafeInv /\ SafeInv' /\ HistoryInv /\ LoopInv /\ Steady /\ TreeInv /\ DocInv /\ [Next]_vars => DocInv'
  <2>1. DocInv /\ UNCHANGED vars => DocInv'
    <3>. SUFFICES ASSUME DocInv, UNCHANGED vars
                  PROVE  DocInv'
      OBVIOUS
    <3>1. UNCHANGED <<doStack, undoStack, redoStack, undoKids, redoKids, calls, used, doc, absorbed, forgotten>>
      BY DEF vars, stacks, kids, ghosts
    <3>2. /\ \A t : Effects(t)' = Effects(t)
          /\ \A y : /\ IsDone(y)' <=> IsDone(y)
                    /\ IsUndone(y)' <=> IsUndone(y)
                    /\ Busy(calls, y)' <=> Busy(calls, y)
                    /\ InFrames(calls, y)' <=> InFrames(calls, y)
      BY <3>1 DEF Effects, IsDone, IsUndone, Busy, InFrames, OwnIn
    <3>3. AllKids' = AllKids /\ Roots' = Roots
      BY <3>1 DEF AllKids, Roots
    <3>4. Reach(AllKids, forgotten)' = Reach(AllKids, forgotten) /\ Reach(AllKids, Roots)' = Reach(AllKids, Roots)
      BY <3>1, <3>3 DEF Reach
    <3>5. Present' = Present /\ Untracked' = Untracked
      BY <3>2, <3>4 DEF Present, InForce, Untracked, InEffect
    <3>6. DocIs'
      BY <3>1, <3>2, <3>5 DEF DocInv, DocIs, InEffect
    <3>7. Disjoint'
      BY <3>1, <3>2 DEF DocInv, Disjoint, Held
    <3>8. Anchored'
      BY <3>2, <3>4 DEF DocInv, Anchored
    <3>. QED  BY <3>6, <3>7, <3>8 DEF DocInv
  <2>. QED  BY <2>1, DocStep
<1>. QED  BY <1>1, <1>2, TreeInvariant, PTL DEF Spec

\* Whatever undo, redo, merge, batch or failure came before, at rest the document
\* has exactly the effects of what the undo stack accounts for: a call-out that
\* fails leaves an operation undone as a whole, a child that fails has its siblings
\* put back, and a transaction merged into another goes with it.
THEOREM DocumentMatchesStacks ==
  ASSUME OnlyDoReenters, SteadyFaults, MergesUnharmed, DosSucceed
  PROVE  Spec => []StacksMatchDocument
<1>1. SafeInv /\ TreeInv /\ DocInv => StacksMatchDocument
  BY DocAtRest DEF StacksMatchDocument
<1>. QED  BY <1>1, DocInvariant, PTL

-----------------------------------------------------------------------------
(* The order of execution. Every list is in the order in which its items   *)
(* were executed, the undone ones backwards, and what was in the document   *)
(* when a transaction was executed is what came before it.                  *)

\* Of s and t, s was executed first: t found the effects of s, s none of t.
Precedes(s, t) ==
  /\ Effects(s) \ Untracked \subseteq base[t]
  /\ Effects(t) \cap base[s] \subseteq Untracked

\* The same of all there is at or below two items.
Tree(x) == Reach(AllKids, {x}) \cap Transaction
Earlier == {p \in Item \X Item : \A s \in Tree(p[1]), t \in Tree(p[2]) : Precedes(s, t)}

\* A list of done items and one of undone items that follow them, as stacks.
Sorted(T, u, r) ==
  /\ \A i, j \in DOMAIN u : i < j => <<u[i], u[j]>> \in T
  /\ \A i, j \in DOMAIN r : i < j => <<r[j], r[i]>> \in T
  /\ \A x \in ToSet(u), y \in ToSet(r) : <<x, y>> \in T

\* The items held by the stacks.
Live == ToSet(doStack) \cup ToSet(undoStack) \cup ToSet(redoStack)

KidsSorted   == \A z \in Item : Sorted(Earlier, undoKids[z], redoKids[z])
ParentFirst  == \A z \in Transaction : \A c \in KidsOf(z) : \A s \in Tree(c) : Precedes(z, s)
StacksSorted == Sorted(Earlier, undoStack, redoStack)
OpenSorted   == /\ Sorted(Earlier, doStack, <<>>)
                /\ \A x \in ToSet(undoStack), y \in ToSet(doStack) : <<x, y>> \in Earlier

\* What is open has not seen what is undone.
UndoneUnseen ==
  \A x \in ToSet(doStack), y \in ToSet(redoStack) : \A s \in Tree(x), t \in Tree(y) :
    Effects(t) \cap base[s] \subseteq Untracked

\* What was there when a transaction was executed is still accounted for.
Covered ==
  \A t \in Reach(AllKids, Live) \cap Transaction :
    base[t] \ Untracked \subseteq InEffect(Reach(AllKids, Live))

\* A transaction has not seen its own effects, nor those of one never made.
OwnUnseen == \A t \in Transaction : Effects(t) \cap base[t] \subseteq Untracked
SeenUsed  == doc \subseteq used /\ \A t \in Transaction : base[t] \subseteq used

OrderInv == /\ KidsSorted /\ ParentFirst /\ StacksSorted /\ OpenSorted
            /\ UndoneUnseen /\ Covered /\ OwnUnseen /\ SeenUsed

-----------------------------------------------------------------------------
(* Sorted lists.                                                           *)

LEMMA SortedPart ==
  ASSUME NEW T, NEW u \in Seq(Item), NEW r \in Seq(Item), Sorted(T, u, r),
         NEW v \in Seq(Item), NEW w \in Seq(Item), Part(v, u), Part(w, r)
  PROVE  Sorted(T, v, w)
<1>1. ASSUME NEW i \in DOMAIN v, NEW j \in DOMAIN v, i < j
      PROVE  <<v[i], v[j]>> \in T
  <2>1. PICK k \in Nat : \A n \in DOMAIN v : n + k \in DOMAIN u /\ v[n] = u[n + k]
    BY DEF Part
  <2>2. i \in Nat /\ j \in Nat
    OBVIOUS
  <2>3. i + k < j + k
    BY <1>1, <2>2
  <2>. QED  BY <2>1, <2>3 DEF Sorted
<1>2. ASSUME NEW i \in DOMAIN w, NEW j \in DOMAIN w, i < j
      PROVE  <<w[j], w[i]>> \in T
  <2>1. PICK k \in Nat : \A n \in DOMAIN w : n + k \in DOMAIN r /\ w[n] = r[n + k]
    BY DEF Part
  <2>2. i \in Nat /\ j \in Nat
    OBVIOUS
  <2>3. i + k < j + k
    BY <1>2, <2>2
  <2>. QED  BY <2>1, <2>3 DEF Sorted
<1>3. ToSet(v) \subseteq ToSet(u) /\ ToSet(w) \subseteq ToSet(r)
  BY PartToSet
<1>. QED  BY <1>1, <1>2, <1>3 DEF Sorted

LEMMA SortedPush ==
  ASSUME NEW T, NEW u \in Seq(Item), NEW r, Sorted(T, u, r), NEW x \in Item,
         \A y \in ToSet(u) : <<y, x>> \in T, \A y \in ToSet(r) : <<x, y>> \in T
  PROVE  Sorted(T, Push(u, x), r)
<1>1. /\ Len(u) \in Nat /\ DOMAIN u = 1..Len(u) /\ DOMAIN Push(u, x) = 1..(Len(u) + 1)
      /\ \A i \in 1..Len(u) : Push(u, x)[i] = u[i]
      /\ Push(u, x)[Len(u) + 1] = x
  BY AppendProperties DEF Push
<1>2. ASSUME NEW i \in DOMAIN Push(u, x), NEW j \in DOMAIN Push(u, x), i < j
      PROVE  <<Push(u, x)[i], Push(u, x)[j]>> \in T
  <2>1. i \in 1..Len(u) /\ (j \in 1..Len(u) \/ j = Len(u) + 1)
    BY <1>1, <1>2
  <2>2. CASE j \in 1..Len(u)
    BY <1>1, <1>2, <2>1, <2>2 DEF Sorted
  <2>3. CASE j = Len(u) + 1
    BY <1>1, <2>1, <2>3 DEF ToSet
  <2>. QED  BY <2>1, <2>2, <2>3
<1>3. ToSet(Push(u, x)) = ToSet(u) \cup {x}
  BY ToSetOp
<1>. QED  BY <1>2, <1>3 DEF Sorted

\* The last of the done ones comes before the undone ones, and after the others.
LEMMA SortedUndone ==
  ASSUME NEW T, NEW u \in Seq(Item), NEW r \in Seq(Item), Sorted(T, u, r), u # <<>>
  PROVE  Sorted(T, Pop(u), Push(r, Peek(u)))
<1>1. /\ Pop(u) \in Seq(Item) /\ Peek(u) \in Item /\ Peek(u) \in ToSet(u)
      /\ Len(u) \in Nat /\ DOMAIN u = 1..Len(u) /\ Len(u) # 0 /\ DOMAIN Pop(u) = 1..(Len(u) - 1)
      /\ \A i \in 1..(Len(u) - 1) : Pop(u)[i] = u[i]
      /\ Peek(u) = u[Len(u)]
  BY FrontOp, ToSetOp, EmptySeq DEF Pop, Peek, Last
<1>2. ToSet(Pop(u)) \subseteq ToSet(u)
  BY MovedSets
<1>3. \A i, j \in DOMAIN Pop(u) : i < j => <<Pop(u)[i], Pop(u)[j]>> \in T
  BY <1>1 DEF Sorted
<1>4. \A x \in ToSet(Pop(u)) : <<x, Peek(u)>> \in T
  <2>1. \A i \in 1..(Len(u) - 1) : i \in DOMAIN u /\ Len(u) \in DOMAIN u /\ i < Len(u)
    BY <1>1
  <2>2. \A i \in 1..(Len(u) - 1) : <<u[i], Peek(u)>> \in T
    BY <1>1, <2>1 DEF Sorted
  <2>. QED  BY <1>1, <2>2 DEF ToSet
<1>5. /\ Len(r) \in Nat /\ DOMAIN r = 1..Len(r) /\ DOMAIN Push(r, Peek(u)) = 1..(Len(r) + 1)
      /\ \A i \in 1..Len(r) : Push(r, Peek(u))[i] = r[i]
      /\ Push(r, Peek(u))[Len(r) + 1] = Peek(u)
  BY <1>1, AppendProperties DEF Push
<1>6. ASSUME NEW i \in DOMAIN Push(r, Peek(u)), NEW j \in DOMAIN Push(r, Peek(u)), i < j
      PROVE  <<Push(r, Peek(u))[j], Push(r, Peek(u))[i]>> \in T
  <2>1. i \in 1..Len(r) /\ (j \in 1..Len(r) \/ j = Len(r) + 1)
    BY <1>5, <1>6
  <2>2. CASE j \in 1..Len(r)
    BY <1>5, <1>6, <2>1, <2>2 DEF Sorted
  <2>3. CASE j = Len(r) + 1
    BY <1>1, <1>5, <2>1, <2>3 DEF Sorted, ToSet
  <2>. QED  BY <2>1, <2>2, <2>3
<1>7. ToSet(Push(r, Peek(u))) = ToSet(r) \cup {Peek(u)}
  BY <1>1, ToSetOp
<1>. QED  BY <1>2, <1>3, <1>4, <1>6, <1>7 DEF Sorted

\* The last of the undone ones comes after the done ones, and before the others.
LEMMA SortedRedone ==
  ASSUME NEW T, NEW u \in Seq(Item), NEW r \in Seq(Item), Sorted(T, u, r), r # <<>>
  PROVE  Sorted(T, Push(u, Peek(r)), Pop(r))
<1>1. /\ Pop(r) \in Seq(Item) /\ Peek(r) \in Item /\ Peek(r) \in ToSet(r)
      /\ Len(r) \in Nat /\ DOMAIN r = 1..Len(r) /\ Len(r) # 0 /\ DOMAIN Pop(r) = 1..(Len(r) - 1)
      /\ \A i \in 1..(Len(r) - 1) : Pop(r)[i] = r[i]
      /\ Peek(r) = r[Len(r)]
  BY FrontOp, ToSetOp, EmptySeq DEF Pop, Peek, Last
<1>2. ToSet(Pop(r)) \subseteq ToSet(r)
  BY MovedSets
<1>3. \A i, j \in DOMAIN Pop(r) : i < j => <<Pop(r)[j], Pop(r)[i]>> \in T
  BY <1>1 DEF Sorted
<1>4. \A x \in ToSet(Pop(r)) : <<Peek(r), x>> \in T
  BY <1>1 DEF Sorted, ToSet
<1>5. Sorted(T, u, Pop(r))
  BY <1>2, <1>3 DEF Sorted
<1>6. \A y \in ToSet(u) : <<y, Peek(r)>> \in T
  BY <1>1 DEF Sorted
<1>. QED  BY <1>1, <1>4, <1>5, <1>6, SortedPush

\* Around the last of either list: what is done comes before it, but for itself,
\* and what is undone after it.
LEMMA SortedAround ==
  ASSUME NEW T, NEW u \in Seq(Item), NEW r \in Seq(Item), Sorted(T, u, r), NEW c,
         \/ u # <<>> /\ c = Peek(u)
         \/ r # <<>> /\ c = Peek(r)
  PROVE  /\ \A y \in ToSet(u) : y # c => <<y, c>> \in T
         /\ \A y \in ToSet(r) : y # c => <<c, y>> \in T
<1>1. CASE u # <<>> /\ c = Peek(u)
  <2>1. /\ Len(u) \in Nat /\ DOMAIN u = 1..Len(u) /\ Len(u) \in DOMAIN u /\ c = u[Len(u)] /\ c \in ToSet(u)
    BY <1>1, EmptySeq, ToSetOp DEF Peek, Last
  <2>2. \A y \in ToSet(u) : y # c => \E i \in DOMAIN u : i < Len(u) /\ y = u[i]
    BY <2>1 DEF ToSet
  <2>. QED  BY <2>1, <2>2 DEF Sorted
<1>2. CASE r # <<>> /\ c = Peek(r)
  <2>1. /\ Len(r) \in Nat /\ DOMAIN r = 1..Len(r) /\ Len(r) \in DOMAIN r /\ c = r[Len(r)] /\ c \in ToSet(r)
    BY <1>2, EmptySeq, ToSetOp DEF Peek, Last
  <2>2. \A y \in ToSet(r) : y # c => \E i \in DOMAIN r : i < Len(r) /\ y = r[i]
    BY <2>1 DEF ToSet
  <2>. QED  BY <2>1, <2>2 DEF Sorted
<1>. QED  BY <1>1, <1>2

\* Only what the lists hold matters.
LEMMA SortedFor ==
  ASSUME NEW T, NEW V, NEW u, NEW r, Sorted(T, u, r),
         \A x, y \in ToSet(u) \cup ToSet(r) : <<x, y>> \in T => <<x, y>> \in V
  PROVE  Sorted(V, u, r)
<1>1. /\ \A i \in DOMAIN u : u[i] \in ToSet(u)
      /\ \A i \in DOMAIN r : r[i] \in ToSet(r)
  BY DEF ToSet
<1>. QED  BY <1>1 DEF Sorted

-----------------------------------------------------------------------------
(* Trees.                                                                  *)

\* What is below a set of items is below one of them.
LEMMA ReachEach ==
  ASSUME NEW f, NEW S \in SUBSET Item, \A x \in Item : ToSet(f[x]) \subseteq Item
  PROVE  /\ \A w \in Reach(f, S) : \E x \in S : w \in Reach(f, {x})
         /\ \A x \in S : Reach(f, {x}) \subseteq Reach(f, S)
<1>1. \A x \in S : x \in Reach(f, {x}) /\ \A w \in Reach(f, {x}) : w \in Item /\ ToSet(f[w]) \subseteq Reach(f, {x})
  <2>. SUFFICES ASSUME NEW x \in S
                PROVE  x \in Reach(f, {x}) /\ \A w \in Reach(f, {x}) : w \in Item /\ ToSet(f[w]) \subseteq Reach(f, {x})
    OBVIOUS
  <2>1. {x} \in SUBSET Item
    OBVIOUS
  <2>. QED  BY <2>1, ReachHolds
<1>. DEFINE C == UNION {Reach(f, {x}) : x \in S}
<1>2. C \in SUBSET Item /\ S \subseteq C /\ \A w \in C : ToSet(f[w]) \subseteq C
  BY <1>1
<1>. HIDE DEF C
<1>3. Reach(f, S) \subseteq C
  BY <1>2, ReachLeast
<1>4. ASSUME NEW x \in S
      PROVE  Reach(f, {x}) \subseteq Reach(f, S)
  <2>1. /\ S \subseteq Reach(f, S)
        /\ \A w \in Reach(f, S) : w \in Item /\ ToSet(f[w]) \subseteq Reach(f, S)
    BY ReachHolds
  <2>2. Reach(f, S) \in SUBSET Item /\ {x} \subseteq Reach(f, S)
    BY <2>1
  <2>. QED  BY <2>1, <2>2, ReachLeast
<1>. QED  BY <1>3, <1>4 DEF C

\* Trees, one level at a time.
TreesSplit ==
  TypeOK =>
    /\ \A x \in Item :
         /\ x \in Transaction => x \in Tree(x)
         /\ \A c \in KidsOf(x) : c \in Item /\ Tree(c) \subseteq Tree(x)
         /\ \A s \in Tree(x) : s = x \/ \E c \in KidsOf(x) : s \in Tree(c)
    /\ \A S \in SUBSET Item :
         /\ \A s \in Reach(AllKids, S) \cap Transaction : \E x \in S : s \in Tree(x)
         /\ \A x \in S : Tree(x) \subseteq Reach(AllKids, S)
LEMMA TreesSplitOp == TreesSplit
<1>. SUFFICES ASSUME TypeOK
              PROVE  /\ \A x \in Item :
                          /\ x \in Transaction => x \in Tree(x)
                          /\ \A c \in KidsOf(x) : c \in Item /\ Tree(c) \subseteq Tree(x)
                          /\ \A s \in Tree(x) : s = x \/ \E c \in KidsOf(x) : s \in Tree(c)
                     /\ \A S \in SUBSET Item :
                          /\ \A s \in Reach(AllKids, S) \cap Transaction : \E x \in S : s \in Tree(x)
                          /\ \A x \in S : Tree(x) \subseteq Reach(AllKids, S)
  BY DEF TreesSplit
<1>1. PICK f : f = AllKids
  OBVIOUS
<1>2. \A x \in Item : ToSet(f[x]) = KidsOf(x) /\ ToSet(f[x]) \subseteq Item
  BY <1>1, AllKidsOp
<1>3. \A x : Tree(x) = Reach(f, {x}) \cap Transaction
  BY <1>1 DEF Tree
<1>4. ASSUME NEW x \in Item
      PROVE  /\ x \in Transaction => x \in Tree(x)
             /\ \A c \in KidsOf(x) : c \in Item /\ Tree(c) \subseteq Tree(x)
             /\ \A s \in Tree(x) : s = x \/ \E c \in KidsOf(x) : s \in Tree(c)
  <2>1. /\ x \in Reach(f, {x})
        /\ \A z \in ToSet(f[x]) : Reach(f, {z}) \subseteq Reach(f, {x})
        /\ \A w \in Reach(f, {x}) : w = x \/ \E z \in ToSet(f[x]) : w \in Reach(f, {z})
    BY <1>2, ReachOp
  <2>. QED  BY <1>2, <1>3, <2>1
<1>5. ASSUME NEW S \in SUBSET Item
      PROVE  /\ \A s \in Reach(AllKids, S) \cap Transaction : \E x \in S : s \in Tree(x)
             /\ \A x \in S : Tree(x) \subseteq Reach(AllKids, S)
  <2>1. /\ \A w \in Reach(f, S) : \E x \in S : w \in Reach(f, {x})
        /\ \A x \in S : Reach(f, {x}) \subseteq Reach(f, S)
    BY <1>2, ReachEach
  <2>. QED  BY <1>1, <1>3, <2>1
<1>. QED  BY <1>4, <1>5

\* A child has one parent, and is on no stack.
OwnersApart ==
  /\ \A y, z \in Item : \A c : c \in KidsOf(y) /\ c \in KidsOf(z) => y = z
  /\ \A z \in Item : \A c \in KidsOf(z) :
       c \notin ToSet(doStack) /\ c \notin ToSet(undoStack) /\ c \notin ToSet(redoStack)
  /\ ToSet(doStack) \cap ToSet(undoStack) = {} /\ ToSet(doStack) \cap ToSet(redoStack) = {}
LEMMA OwnersApartOp ==
  ASSUME ItemOwnedOnce
  PROVE  OwnersApart
<1>1. HeldByLists
  BY HeldByOp
<1>2. \A h, k \in Holder : \A c : c \in ToSet(HeldBy[h]) /\ c \in ToSet(HeldBy[k]) => h = k
  BY <1>1 DEF HeldByLists, ItemOwnedOnce, OwnedOnce, ToSet
<1>3. ASSUME NEW z \in Item, NEW c \in KidsOf(z)
      PROVE  \E h \in {<<"undo", z>>, <<"redo", z>>} : h \in Holder /\ c \in ToSet(HeldBy[h])
  BY <1>1, <1>3, HolderOp DEF HeldByLists, KidsOf
<1>4. ASSUME NEW y \in Item, NEW z \in Item, NEW c, c \in KidsOf(y), c \in KidsOf(z)
      PROVE  y = z
  <2>1. PICK h \in {<<"undo", y>>, <<"redo", y>>} : h \in Holder /\ c \in ToSet(HeldBy[h])
    BY <1>3, <1>4
  <2>2. PICK k \in {<<"undo", z>>, <<"redo", z>>} : k \in Holder /\ c \in ToSet(HeldBy[k])
    BY <1>3, <1>4
  <2>3. h = k /\ h[2] = y /\ k[2] = z
    BY <1>2, <2>1, <2>2
  <2>. QED  BY <2>3
<1>5. ASSUME NEW z \in Item, NEW c \in KidsOf(z)
      PROVE  c \notin ToSet(doStack) /\ c \notin ToSet(undoStack) /\ c \notin ToSet(redoStack)
  <2>1. PICK h \in {<<"undo", z>>, <<"redo", z>>} : h \in Holder /\ c \in ToSet(HeldBy[h])
    BY <1>3, <1>5
  <2>2. h \notin {<<"open">>, <<"undo">>, <<"redo">>}
    BY <2>1, HolderDistinct
  <2>3. \A k \in {<<"open">>, <<"undo">>, <<"redo">>} : k \in Holder /\ c \notin ToSet(HeldBy[k])
    BY <1>2, <2>1, <2>2, HolderOp
  <2>. QED  BY <1>1, <2>3 DEF HeldByLists
<1>6. ToSet(doStack) \cap ToSet(undoStack) = {} /\ ToSet(doStack) \cap ToSet(redoStack) = {}
  BY <1>1, <1>2, HolderOp, HolderDistinct DEF HeldByLists
<1>. QED  BY <1>4, <1>5, <1>6 DEF OwnersApart

-----------------------------------------------------------------------------
(* While something is undone or redone: what is on the path of activations, *)
(* and what is not.                                                        *)

\* A child that is worked on is so for its parent's loop.
LEMMA BusyKid ==
  ASSUME Typed, OwnersApart, LoopInv, Working, NEW z \in Item, NEW c \in KidsOf(z), Busy(calls, c)
  PROVE  \E i \in DOMAIN calls : /\ i + 1 \in DOMAIN calls
                                 /\ z = calls[i].item /\ c = calls[i + 1].item
<1>1. /\ TypeOK /\ calls \in Seq(Frame) /\ Path(calls) /\ DOMAIN calls = 1..Len(calls) /\ Len(calls) \in Nat
      /\ undoStack \in Seq(Item) /\ redoStack \in Seq(Item)
      /\ \A y \in Item : undoKids[y] \in Seq(Item) /\ redoKids[y] \in Seq(Item)
  BY DEF Typed, TypeOK, LoopInv, Chain
<1>2. PICK j \in DOMAIN calls : calls[j].op # "do" /\ calls[j].item = c
  BY DEF Busy
<1>3. j # 1
  <2>. SUFFICES ASSUME j = 1
                PROVE  FALSE
    OBVIOUS
  <2>1. Rooted(calls[1])
    BY <1>1, <1>2 DEF Path
  <2>2. c \in ToSet(undoStack) \/ c \in ToSet(redoStack)
    BY <1>1, <1>2, <2>1, ToSetOp DEF Rooted
  <2>. QED  BY <2>2 DEF OwnersApart
<1>4. j - 1 \in DOMAIN calls /\ (j - 1) + 1 = j
  BY <1>1, <1>3
<1>5. Runs(calls[j - 1], calls[j]) /\ calls[j - 1].item \in Item
  <2>1. calls[j - 1] \in Frame
    BY <1>1, <1>4
  <2>. QED  BY <1>1, <1>2, <1>3, <2>1 DEF Path, Frame
<1>6. c \in KidsOf(calls[j - 1].item)
  BY <1>1, <1>2, <1>5, ToSetOp DEF Runs, Source, KidsOf
<1>7. z = calls[j - 1].item
  BY <1>5, <1>6 DEF OwnersApart
<1>. QED  BY <1>2, <1>4, <1>7

\* An item on a stack that is worked on is so for the manager.
LEMMA BusyRoot ==
  ASSUME Typed, OwnersApart, LoopInv, NEW c, c \in ToSet(undoStack) \cup ToSet(redoStack), Busy(calls, c)
  PROVE  1 \in DOMAIN calls /\ c = calls[1].item
<1>1. /\ TypeOK /\ calls \in Seq(Frame) /\ Path(calls) /\ DOMAIN calls = 1..Len(calls) /\ Len(calls) \in Nat
      /\ \A y \in Item : undoKids[y] \in Seq(Item) /\ redoKids[y] \in Seq(Item)
  BY DEF Typed, TypeOK, LoopInv, Chain
<1>2. PICK j \in DOMAIN calls : calls[j].op # "do" /\ calls[j].item = c
  BY DEF Busy
<1>3. j = 1
  <2>. SUFFICES ASSUME j # 1
                PROVE  FALSE
    OBVIOUS
  <2>1. j - 1 \in DOMAIN calls
    BY <1>1
  <2>2. Runs(calls[j - 1], calls[j]) /\ calls[j - 1].item \in Item
    <3>1. calls[j - 1] \in Frame
      BY <1>1, <2>1
    <3>. QED  BY <1>1, <1>2, <3>1 DEF Path, Frame
  <2>3. c \in KidsOf(calls[j - 1].item)
    BY <1>1, <1>2, <2>2, ToSetOp DEF Runs, Source, KidsOf
  <2>. QED  BY <2>2, <2>3 DEF OwnersApart
<1>. QED  BY <1>2, <1>3

\* Below an item that is not worked on nothing is, and all is done or undone as
\* it is.
LEMMA IdleBelow ==
  ASSUME Typed, OwnersApart, LoopInv, Working, RestWhole(calls), NEW y \in Item, ~Busy(calls, y)
  PROVE  \A s \in Tree(y) : /\ ~Busy(calls, s)
                            /\ IsDone(y) => IsDone(s)
                            /\ IsUndone(y) => IsUndone(s)
<1>1. PICK C \in SUBSET Item : C = {w \in Item : /\ ~Busy(calls, w)
                                                 /\ IsDone(y) => IsDone(w)
                                                 /\ IsUndone(y) => IsUndone(w)}
  OBVIOUS
<1>2. ASSUME NEW w \in C, NEW c \in KidsOf(w)
      PROVE  c \in C
  <2>1. c \in Item /\ w \in Item /\ ~Busy(calls, w)
    BY <1>1, <1>2, AllKidsOp DEF Typed
  <2>2. ~Busy(calls, c)
    <3>. SUFFICES ASSUME Busy(calls, c)
                  PROVE  Busy(calls, w)
      BY <2>1
    <3>1. PICK i \in DOMAIN calls : w = calls[i].item
      BY <2>1, <1>2, BusyKid
    <3>. QED  BY <3>1 DEF Busy, Working
  <2>3. IsWhole(w)
    BY <2>1 DEF RestWhole
  <2>4. IsDone(w) => IsDone(c)
    BY <1>2, <2>1, <2>3, EmptyToSet DEF IsWhole, KidsOf, IsDone
  <2>5. IsUndone(w) => IsUndone(c)
    BY <1>2, <2>1, <2>3, EmptyToSet DEF IsWhole, KidsOf, IsUndone
  <2>. QED  BY <1>1, <1>2, <2>1, <2>2, <2>4, <2>5
<1>3. Reach(AllKids, {y}) \subseteq C
  <2>1. \A w \in C : ToSet(AllKids[w]) \subseteq C
    BY <1>1, <1>2, AllKidsOp DEF Typed
  <2>2. {y} \subseteq C
    BY <1>1
  <2>3. PICK f, S : f = AllKids /\ S = {y}
    OBVIOUS
  <2>. QED  BY <2>1, <2>2, <2>3, ReachLeast
<1>. QED  BY <1>1, <1>3 DEF Tree

\* Where s stands when t is run: what is in force came before it, the rest after.
Placed(s, t) == s # t => IF InForce(s) THEN Precedes(s, t) ELSE Precedes(t, s)

\* What is in the other trees of the two lists that the path goes through.
LEMMA AroundPath ==
  ASSUME Working, NeverBoth, OwnersApart, NEW u \in Seq(Item), NEW r \in Seq(Item),
         Sorted(Earlier, u, r), NEW c,
         (u # <<>> /\ c = Peek(u)) \/ (r # <<>> /\ c = Peek(r)),
         NEW t \in Tree(c),
         \A y \in ToSet(u) : IsDone(y), \A y \in ToSet(r) : IsUndone(y),
         \A y \in ToSet(u) \cup ToSet(r) : y # c => ~Busy(calls, y)
  PROVE  \A y \in ToSet(u) \cup ToSet(r) : y # c => \A s \in Tree(y) : Placed(s, t)
<1>. SUFFICES ASSUME NEW y \in ToSet(u) \cup ToSet(r), y # c, NEW s \in Tree(y)
              PROVE  Placed(s, t)
  OBVIOUS
<1>1. y \in Item /\ ~Busy(calls, y) /\ Typed /\ ItemOwnedOnce /\ LoopInv /\ RestWhole(calls)
  BY ToSetOp DEF Working, TreeInv
<1>2. ~Busy(calls, s) /\ (IsDone(y) => IsDone(s)) /\ (IsUndone(y) => IsUndone(s))
  BY <1>1, IdleBelow
<1>3. (InForce(s) <=> IsDone(s)) /\ ~(IsDone(s) /\ IsUndone(s))
  BY <1>1, <1>2 DEF InForce, NeverBoth
<1>4. CASE y \in ToSet(u)
  <2>1. <<y, c>> \in Earlier
    BY <1>4, SortedAround
  <2>2. Precedes(s, t)
    BY <2>1 DEF Earlier
  <2>. QED  BY <1>2, <1>3, <1>4, <2>2 DEF Placed
<1>5. CASE y \in ToSet(r)
  <2>1. <<c, y>> \in Earlier
    BY <1>5, SortedAround
  <2>2. Precedes(t, s)
    BY <2>1 DEF Earlier
  <2>. QED  BY <1>2, <1>3, <1>5, <2>2 DEF Placed
<1>. QED  BY <1>4, <1>5

\* A transaction that is run has no done children, and has those undone after it.
LEMMA TopPlaced ==
  ASSUME Working, NeverBoth, OwnersApart, OrderInv, calls # <<>>, Top.phase \in {"self", "rollback"},
         Top.item \in Transaction
  PROVE  \A s \in Tree(Top.item) : Placed(s, Top.item)
<1>1. PICK t \in Transaction : t = Top.item
  OBVIOUS
<1>2. /\ Top \in Frame /\ Known(Top) /\ Top.op \in {"undo", "redo"} /\ t \in Item
      /\ Len(calls) \in DOMAIN calls /\ Top = calls[Len(calls)]
      /\ Typed /\ TypeOK /\ ItemOwnedOnce /\ LoopInv /\ RestWhole(calls)
  BY <1>1, TopKnown DEF Working, TreeInv, Typed
<1>3. undoKids[t] = <<>>
  BY <1>1, <1>2 DEF Known, SelfKnown, RollbackKnown, After
<1>. SUFFICES ASSUME NEW s \in Tree(t), s # t
              PROVE  Placed(s, t)
  BY <1>1 DEF Placed
<1>4. PICK c \in KidsOf(t) : c \in Item /\ s \in Tree(c)
  BY <1>2, TreesSplitOp DEF TreesSplit
<1>5. IsUndone(c)
  BY <1>2, <1>3, <1>4, EmptyToSet DEF KidsOf, IsUndone
<1>6. ~Busy(calls, c)
  <2>. SUFFICES ASSUME Busy(calls, c)
                PROVE  FALSE
    OBVIOUS
  <2>1. PICK i \in DOMAIN calls : i + 1 \in DOMAIN calls /\ t = calls[i].item
    BY <1>2, <1>4, BusyKid
  <2>2. i = Len(calls)
    BY <1>1, <1>2, <2>1 DEF LoopInv, Chain, Apart, Working
  <2>3. calls \in Seq(Frame)
    BY <1>2 DEF TypeOK
  <2>. QED  BY <2>1, <2>2, <2>3
<1>7. ~Busy(calls, s) /\ IsUndone(s)
  BY <1>2, <1>4, <1>5, <1>6, IdleBelow
<1>8. ~InForce(s)
  BY <1>2, <1>7 DEF InForce, NeverBoth
<1>9. Precedes(t, s)
  BY <1>4 DEF OrderInv, ParentFirst
<1>. QED  BY <1>8, <1>9 DEF Placed

\* The item of an activation whose loop waits for the next one on the path.
LEMMA LoopPlaced ==
  ASSUME Working, NeverBoth, OwnersApart, OrderInv, NEW t \in Transaction,
         NEW i \in DOMAIN calls, i + 1 \in DOMAIN calls,
         t \in Tree(calls[i + 1].item), \A s \in Tree(calls[i + 1].item) : Placed(s, t)
  PROVE  t \in Tree(calls[i].item) /\ \A s \in Tree(calls[i].item) : Placed(s, t)
<1>1. PICK y, c : y = calls[i].item /\ c = calls[i + 1].item
  OBVIOUS
<1>2. /\ calls \in Seq(Frame) /\ calls[i] \in Frame /\ calls[i].op # "do" /\ y \in Item
      /\ Typed /\ TypeOK /\ ItemOwnedOnce /\ LoopInv /\ RestWhole(calls)
      /\ undoKids[y] \in Seq(Item) /\ redoKids[y] \in Seq(Item)
  <2>1. calls \in Seq(Frame) /\ calls[i].op # "do" /\ Typed /\ TypeOK /\ ItemOwnedOnce /\ LoopInv
        /\ RestWhole(calls)
    BY DEF Working, Typed, TypeOK, TreeInv
  <2>2. calls[i] \in Frame
    BY <2>1
  <2>3. y \in Item
    BY <1>1, <2>2 DEF Frame
  <2>. QED  BY <2>1, <2>2, <2>3 DEF TypeOK
<1>3. Runs(calls[i], calls[i + 1])
  <2>1. i \in Nat /\ i + 1 # 1 /\ (i + 1) - 1 = i
    BY <1>2
  <2>. QED  BY <1>2, <2>1 DEF LoopInv, Chain, Path, Working
<1>4. /\ calls[i].phase \in {"kids", "recover"}
      /\ \/ undoKids[y] # <<>> /\ c = Peek(undoKids[y])
         \/ redoKids[y] # <<>> /\ c = Peek(redoKids[y])
  BY <1>1, <1>3 DEF Runs, Looping, Source
<1>5. c \in KidsOf(y)
  BY <1>2, <1>4, ToSetOp DEF KidsOf
<1>6. \A k \in KidsOf(y) : k # c => ~Busy(calls, k)
  <2>. SUFFICES ASSUME NEW k \in KidsOf(y), Busy(calls, k)
                PROVE  k = c
    OBVIOUS
  <2>1. PICK j \in DOMAIN calls : j + 1 \in DOMAIN calls /\ y = calls[j].item /\ k = calls[j + 1].item
    BY <1>2, BusyKid
  <2>2. j = i
    BY <1>1, <1>2, <2>1 DEF LoopInv, Chain, Apart, Working
  <2>. QED  BY <1>1, <2>1, <2>2
<1>7. \A k \in KidsOf(y) : k # c => \A s \in Tree(k) : Placed(s, t)
  <2>1. /\ \A k \in ToSet(undoKids[y]) : IsDone(k)
        /\ \A k \in ToSet(redoKids[y]) : IsUndone(k)
    BY <1>2 DEF IsDone, IsUndone
  <2>2. Sorted(Earlier, undoKids[y], redoKids[y])
    BY <1>2 DEF OrderInv, KidsSorted
  <2>3. t \in Tree(c) /\ \A k \in ToSet(undoKids[y]) \cup ToSet(redoKids[y]) : k # c => ~Busy(calls, k)
    BY <1>1, <1>6 DEF KidsOf
  <2>4. PICK u \in Seq(Item), r \in Seq(Item) : u = undoKids[y] /\ r = redoKids[y]
    BY <1>2
  <2>5. \A k \in ToSet(u) \cup ToSet(r) : k # c => \A s \in Tree(k) : Placed(s, t)
    BY <1>4, <2>1, <2>2, <2>3, <2>4, AroundPath
  <2>. QED  BY <2>4, <2>5 DEF KidsOf
<1>8. /\ Tree(c) \subseteq Tree(y)
      /\ \A s \in Tree(y) : s = y \/ \E k \in KidsOf(y) : s \in Tree(k)
  BY <1>2, <1>5, TreesSplitOp DEF TreesSplit
<1>9. ASSUME y \in Transaction
      PROVE  Placed(y, t)
  <2>1. Precedes(y, t)
    BY <1>1, <1>5, <1>9 DEF OrderInv, ParentFirst
  <2>2. OwnIn(calls[i])
    BY <1>4 DEF OwnIn
  <2>3. InForce(y)
    BY <1>1, <1>2, <2>2 DEF InForce, InFrames, Busy
  <2>. QED  BY <2>1, <2>3 DEF Placed
<1>10. ASSUME NEW s \in Tree(y)
       PROVE  Placed(s, t)
  <2>1. CASE s = y
    BY <1>9, <2>1, <1>10 DEF Tree
  <2>2. CASE s # y
    <3>1. PICK k \in KidsOf(y) : s \in Tree(k)
      BY <1>8, <1>10, <2>2
    <3>. QED  BY <1>1, <1>7, <3>1
  <2>. QED  BY <2>1, <2>2
<1>. QED  BY <1>1, <1>8, <1>10

\* Down the path, from the transaction that is run to the manager's stacks.
LEMMA PathPlaced ==
  ASSUME Working, NeverBoth, OwnersApart, OrderInv, calls # <<>>, Top.phase \in {"self", "rollback"},
         NEW t \in Transaction, t = Top.item
  PROVE  \A i \in DOMAIN calls : t \in Tree(calls[i].item) /\ \A s \in Tree(calls[i].item) : Placed(s, t)
<1>. DEFINE Q(i) == t \in Tree(calls[i].item) /\ \A s \in Tree(calls[i].item) : Placed(s, t)
<1>1. /\ calls \in Seq(Frame) /\ Len(calls) \in Nat /\ DOMAIN calls = 1..Len(calls)
      /\ Len(calls) \in DOMAIN calls /\ Top = calls[Len(calls)] /\ TypeOK /\ t \in Item
  BY TopKnown DEF Working, Typed, TypeOK
<1>2. Q(Len(calls))
  <2>1. t \in Tree(t)
    BY <1>1, TreesSplitOp DEF TreesSplit
  <2>. QED  BY <1>1, <2>1, TopPlaced
<1>3. \A i \in DOMAIN calls : i + 1 \in DOMAIN calls /\ Q(i + 1) => Q(i)
  BY LoopPlaced
<1>. HIDE DEF Q
<1>. DEFINE N == {n \in Nat : n < Len(calls) => Q(Len(calls) - n)}
<1>4. N \in SUBSET Nat /\ 0 \in N
  BY <1>1, <1>2
<1>5. \A n \in N : n + 1 \in N
  <2>. SUFFICES ASSUME NEW n \in N, n + 1 < Len(calls)
                PROVE  Q(Len(calls) - (n + 1))
    OBVIOUS
  <2>1. /\ Len(calls) - (n + 1) \in DOMAIN calls /\ (Len(calls) - (n + 1)) + 1 = Len(calls) - n
        /\ Len(calls) - n \in DOMAIN calls
    BY <1>1
  <2>2. Q(Len(calls) - n)
    BY <1>1
  <2>. QED  BY <1>3, <2>1, <2>2
<1>. HIDE DEF N
<1>6. N = Nat
  BY <1>4, <1>5, Induction
<1>7. ASSUME NEW i \in DOMAIN calls
      PROVE  Q(i)
  <2>1. Len(calls) - i \in Nat /\ Len(calls) - i < Len(calls) /\ Len(calls) - (Len(calls) - i) = i
    BY <1>1
  <2>. QED  BY <1>6, <2>1 DEF N
<1>. QED  BY <1>7 DEF Q

\* All that the stacks hold.
LEMMA LivePlaced ==
  ASSUME Working, NeverBoth, OwnersApart, OrderInv, doStack = <<>>, calls # <<>>,
         Top.phase \in {"self", "rollback"}, NEW t \in Transaction, t = Top.item
  PROVE  /\ t \in Reach(AllKids, Live)
         /\ \A s \in Reach(AllKids, Live) \cap Transaction : Placed(s, t)
<1>1. /\ calls \in Seq(Frame) /\ Len(calls) \in Nat /\ DOMAIN calls = 1..Len(calls)
      /\ Len(calls) \in DOMAIN calls /\ TypeOK /\ Typed /\ ItemOwnedOnce /\ LoopInv /\ RestWhole(calls)
      /\ undoStack \in Seq(Item) /\ redoStack \in Seq(Item)
  BY TopKnown DEF Working, Typed, TypeOK, TreeInv
<1>2. 1 \in DOMAIN calls
  BY <1>1
<1>3. PICK c : c = calls[1].item
  OBVIOUS
<1>4. t \in Tree(c) /\ \A s \in Tree(c) : Placed(s, t)
  BY <1>2, <1>3, PathPlaced
<1>5. \/ undoStack # <<>> /\ c = Peek(undoStack)
      \/ redoStack # <<>> /\ c = Peek(redoStack)
  <2>1. Rooted(calls[1])
    BY <1>1, <1>2 DEF LoopInv, Chain, Path, Working
  <2>. QED  BY <1>3, <2>1 DEF Rooted
<1>6. /\ Live = ToSet(undoStack) \cup ToSet(redoStack) /\ Live \in SUBSET Item /\ c \in Live
  BY <1>1, <1>5, ToSetOp, EmptyToSet DEF Live
<1>7. \A y \in Live : y # c => ~Busy(calls, y)
  BY <1>1, <1>3, <1>6, BusyRoot
<1>8. \A y \in Live : y # c => \A s \in Tree(y) : Placed(s, t)
  <2>1. /\ \A y \in ToSet(undoStack) : IsDone(y)
        /\ \A y \in ToSet(redoStack) : IsUndone(y)
    BY DEF IsDone, IsUndone
  <2>2. Sorted(Earlier, undoStack, redoStack)
    BY DEF OrderInv, StacksSorted
  <2>3. PICK u \in Seq(Item), r \in Seq(Item) : u = undoStack /\ r = redoStack
    BY <1>1
  <2>4. \A y \in ToSet(u) \cup ToSet(r) : y # c => \A s \in Tree(y) : Placed(s, t)
    BY <1>4, <1>5, <1>6, <1>7, <2>1, <2>2, <2>3, AroundPath
  <2>. QED  BY <1>6, <2>3, <2>4
<1>9. PICK S \in SUBSET Item : S = Live
  BY <1>6
<1>10. /\ \A s \in Reach(AllKids, S) \cap Transaction : \E x \in S : s \in Tree(x)
       /\ \A x \in S : Tree(x) \subseteq Reach(AllKids, S)
  BY <1>1, TreesSplitOp DEF TreesSplit
<1>. QED  BY <1>4, <1>6, <1>8, <1>9, <1>10

-----------------------------------------------------------------------------
(* What the steps leave of the order.                                      *)

LEMMA PrecedesStays ==
  ASSUME NEW s, NEW t, Precedes(s, t), Untracked \subseteq Untracked',
         Effects(s)' = Effects(s), Effects(t)' = Effects(t),
         base'[s] = base[s], base'[t] = base[t]
  PROVE  Precedes(s, t)'
<1>1. Effects(s)' \ Untracked' \subseteq base'[t]
  BY DEF Precedes
<1>2. Effects(t)' \cap base'[s] \subseteq Untracked'
  BY DEF Precedes
<1>. QED  BY <1>1, <1>2 DEF Precedes

\* Where no item gets or loses a child the trees are the same.
LEMMA TreesSame ==
  ASSUME TypeOK, TypeOK', \A x \in Item : KidsOf(x)' = KidsOf(x)
  PROVE  /\ \A S : Reach(AllKids', S) = Reach(AllKids, S)
         /\ \A x : Tree(x)' = Tree(x)
<1>1. \A x \in Item : ToSet(AllKids'[x]) = ToSet(AllKids[x])
  <2>1. AllKidsShown /\ AllKidsShown'
    BY AllKidsSeen, PTL
  <2>. QED  BY <2>1 DEF AllKidsShown
<1>2. PICK f, g : f = AllKids /\ g = AllKids'
  OBVIOUS
<1>3. \A S : Reach(g, S) = Reach(f, S)
  BY <1>1, <1>2 DEF Reach
<1>4. \A x : Reach(AllKids, {x})' = Reach(AllKids', {x})
  BY DEF Reach
<1>. QED  BY <1>2, <1>3, <1>4 DEF Tree

\* What no list of children holds is in no tree but its own.
LEMMA TreeWithout ==
  ASSUME TypeOK, NEW x, \A z \in Item : x \notin KidsOf(z)
  PROVE  \A y \in Item : y # x => x \notin Reach(AllKids, {y})
<1>. SUFFICES ASSUME NEW y \in Item, y # x
              PROVE  x \notin Reach(AllKids, {y})
  OBVIOUS
<1>1. PICK C \in SUBSET Item : C = Item \ {x}
  OBVIOUS
<1>2. PICK f : f = AllKids
  OBVIOUS
<1>3. \A w \in C : ToSet(f[w]) \subseteq C
  BY <1>1, <1>2, AllKidsOp
<1>4. {y} \subseteq C
  BY <1>1
<1>5. PICK S : S = {y}
  OBVIOUS
<1>6. Reach(f, S) \subseteq C
  BY <1>3, <1>4, <1>5, ReachLeast
<1>. QED  BY <1>1, <1>2, <1>5, <1>6

\* Items move between the two lists of one owner, and nothing else changes.
LEMMA OrderSame ==
  ASSUME OrderInv, TypeOK, TypeOK', \A x \in Item : KidsOf(x)' = KidsOf(x),
         UNCHANGED <<doStack, base, absorbed, forgotten>>, used \subseteq used',
         ToSet(undoStack') \cup ToSet(redoStack') = ToSet(undoStack) \cup ToSet(redoStack),
         doStack = <<>> \/ UNCHANGED <<undoStack, redoStack>>,
         doc' \subseteq used',
         \A z \in Item : Sorted(Earlier, undoKids'[z], redoKids'[z]),
         Sorted(Earlier, undoStack', redoStack')
  PROVE  OrderInv'
<1>1. /\ \A S : Reach(AllKids', S) = Reach(AllKids, S)
      /\ \A x : Tree(x)' = Tree(x)
  BY TreesSame
<1>2. \A t : Effects(t)' = Effects(t)
  BY DEF Effects
<1>3. Live' = Live
  BY DEF Live
<1>4. /\ Reach(AllKids, forgotten)' = Reach(AllKids, forgotten)
      /\ Reach(AllKids, Live)' = Reach(AllKids, Live)
  <2>1. /\ Reach(AllKids, forgotten)' = Reach(AllKids', forgotten')
        /\ Reach(AllKids, Live)' = Reach(AllKids', Live')
    BY DEF Reach
  <2>. QED  BY <1>1, <1>3, <2>1
<1>5. /\ Untracked' = Untracked
      /\ InEffect(Reach(AllKids, Live))' = InEffect(Reach(AllKids, Live))
  BY <1>2, <1>4 DEF Untracked, InEffect
<1>6. \A s, t : Precedes(s, t)' <=> Precedes(s, t)
  BY <1>2, <1>5 DEF Precedes
<1>7. Earlier' = Earlier
  BY <1>1, <1>6 DEF Earlier
<1>8. KidsSorted'
  BY <1>7 DEF KidsSorted, Sorted
<1>9. ParentFirst'
  <2>1. \A z \in Transaction : KidsOf(z)' = KidsOf(z)
    BY DEF Item
  <2>. QED  BY <1>1, <1>6, <2>1 DEF OrderInv, ParentFirst
<1>10. StacksSorted'
  BY <1>7 DEF StacksSorted, Sorted
<1>11. OpenSorted'
  <2>1. CASE doStack = <<>>
    BY <2>1, EmptyToSet DEF OpenSorted, Sorted
  <2>2. CASE UNCHANGED <<undoStack, redoStack>>
    BY <1>7, <2>2 DEF OrderInv, OpenSorted, Sorted
  <2>. QED  BY <2>1, <2>2
<1>12. UndoneUnseen'
  <2>1. CASE doStack = <<>>
    BY <2>1, EmptyToSet DEF UndoneUnseen
  <2>2. CASE UNCHANGED <<undoStack, redoStack>>
    BY <1>1, <1>2, <1>5, <2>2 DEF OrderInv, UndoneUnseen
  <2>. QED  BY <2>1, <2>2
<1>13. Covered'
  BY <1>4, <1>5 DEF OrderInv, Covered
<1>14. OwnUnseen'
  BY <1>2, <1>5 DEF OrderInv, OwnUnseen
<1>15. SeenUsed'
  BY DEF OrderInv, SeenUsed
<1>. QED  BY <1>8, <1>9, <1>10, <1>11, <1>12, <1>13, <1>14, <1>15 DEF OrderInv

\* What is at or below the items of S is at or below one of them.
LEMMA ReachTrees ==
  ASSUME TypeOK, NEW S \in SUBSET Item
  PROVE  /\ \A s \in Reach(AllKids, S) \cap Transaction : \E x \in S : s \in Tree(x)
         /\ \A x \in S : Tree(x) \subseteq Reach(AllKids, S)
  BY TreesSplitOp DEF TreesSplit

\* Items are let go, and the others stay where they are.
LEMMA OrderLets ==
  ASSUME OrderInv, TypeOK, TypeOK', UNCHANGED <<kids, base, absorbed, doc>>,
         used \subseteq used', forgotten \subseteq forgotten',
         ToSet(doStack') \subseteq ToSet(doStack), ToSet(redoStack') \subseteq ToSet(redoStack),
         ToSet(undoStack') \subseteq ToSet(undoStack) \cup ToSet(doStack),
         Sorted(Earlier, undoStack', redoStack'), Sorted(Earlier, doStack', <<>>),
         \A x \in ToSet(undoStack'), y \in ToSet(doStack') : <<x, y>> \in Earlier,
         \A y \in Live : \/ y \in Live' \/ y \in forgotten' \/ EmptyBatch(y)
                         \/ (y \in ToSet(redoStack) /\ redoStack' = <<>>)
  PROVE  OrderInv'
<1>1. undoKids' = undoKids /\ redoKids' = redoKids /\ \A x \in Item : KidsOf(x)' = KidsOf(x)
  BY DEF kids, KidsOf
<1>2. /\ \A S : Reach(AllKids', S) = Reach(AllKids, S)
      /\ \A x : Tree(x)' = Tree(x)
  BY <1>1, TreesSame
<1>3. \A t : Effects(t)' = Effects(t)
  BY DEF Effects
<1>4. forgotten' \subseteq Reach(AllKids, forgotten)' /\ Untracked \subseteq Untracked'
  BY <1>1, UntrackedGrows
<1>5. Live \in SUBSET Item /\ Live' \subseteq Live
  <2>1. /\ doStack \in Seq(Item) /\ undoStack \in Seq(Item) /\ redoStack \in Seq(Item)
    BY DEF TypeOK
  <2>2. ToSet(doStack) \subseteq Item /\ ToSet(undoStack) \subseteq Item /\ ToSet(redoStack) \subseteq Item
    BY <2>1, ToSetOp
  <2>3. Live' \subseteq Live
    BY DEF Live
  <2>. QED  BY <2>2, <2>3 DEF Live
<1>6. \A s, t : Precedes(s, t) => Precedes(s, t)'
  BY <1>3, <1>4, PrecedesStays
<1>7. Earlier \subseteq Earlier'
  BY <1>2, <1>6 DEF Earlier
<1>8. KidsSorted'
  BY <1>1, <1>7 DEF OrderInv, KidsSorted, Sorted
<1>9. ParentFirst'
  <2>1. \A z \in Transaction : KidsOf(z)' = KidsOf(z)
    BY <1>1 DEF Item
  <2>. QED  BY <1>2, <1>6, <2>1 DEF OrderInv, ParentFirst
<1>10. StacksSorted'
  BY <1>7 DEF StacksSorted, Sorted
<1>11. OpenSorted'
  BY <1>7 DEF OpenSorted, Sorted
<1>12. UndoneUnseen'
  BY <1>2, <1>3, <1>4 DEF OrderInv, UndoneUnseen
<1>13. Covered'
  <2>1. PICK A, B, L, M : A = Reach(AllKids, Live) /\ B = Reach(AllKids, M) /\ L = Live /\ M = Live'
    OBVIOUS
  <2>2. Reach(AllKids, Live)' = B
    <3>1. Reach(AllKids, Live)' = Reach(AllKids', Live')
      BY DEF Reach
    <3>. QED  BY <1>2, <2>1, <3>1
  <2>3. /\ \A s \in A \cap Transaction : \E x \in L : s \in Tree(x)
        /\ \A s \in B \cap Transaction : \E x \in M : s \in Tree(x)
        /\ \A x \in L : Tree(x) \subseteq A
        /\ \A x \in M : Tree(x) \subseteq B
    BY <1>5, <2>1, ReachTrees
  <2>. SUFFICES ASSUME NEW t \in B \cap Transaction, NEW w \in base[t], w \notin Untracked'
                PROVE  w \in InEffect(B)'
    BY <2>2 DEF Covered, InEffect
  <2>4. PICK z \in M : t \in Tree(z)
    BY <2>3
  <2>5. z \in L /\ t \in A
    BY <1>5, <2>1, <2>3, <2>4
  <2>6. PICK s \in A \cap Transaction : w \in Effects(s)
    BY <1>4, <2>1, <2>5 DEF OrderInv, Covered, InEffect
  <2>7. PICK y \in L : s \in Tree(y)
    BY <2>3, <2>6
  <2>8. CASE y \in M
    BY <1>3, <2>3, <2>6, <2>7, <2>8 DEF InEffect
  <2>9. CASE y \in forgotten'
    <3>1. forgotten' \in SUBSET Item
      BY DEF TypeOK
    <3>2. Tree(y) \subseteq Reach(AllKids, forgotten)'
      <4>1. Reach(AllKids, forgotten)' = Reach(AllKids', forgotten')
        BY DEF Reach
      <4>2. PICK F \in SUBSET Item : F = forgotten'
        BY <3>1
      <4>3. Tree(y) \subseteq Reach(AllKids, F)
        BY <2>9, <4>2, ReachTrees
      <4>. QED  BY <1>2, <4>1, <4>2, <4>3
    <3>3. Effects(s) \subseteq Untracked'
      BY <1>3, <2>6, <2>7, <3>2 DEF Untracked, InEffect
    <3>. QED  BY <2>6, <3>3
  <2>10. CASE EmptyBatch(y)
    <3>1. KidsOf(y) = {} /\ y \notin Transaction /\ y \in Item
      BY <2>1, <1>5, <2>10, EmptyToSet, ItemAssumption DEF EmptyBatch, KidsOf
    <3>2. s = y
      BY <2>7, <3>1, TreesSplitOp DEF TreesSplit
    <3>. QED  BY <2>6, <3>1, <3>2
  <2>11. CASE y \in ToSet(redoStack) /\ redoStack' = <<>>
    <3>1. M = ToSet(doStack') \cup ToSet(undoStack')
      BY <2>1, <2>11, EmptyToSet DEF Live
    <3>2. z \in ToSet(doStack) \cup ToSet(undoStack)
      BY <2>4, <3>1
    <3>3. Effects(s) \cap base[t] \subseteq Untracked
      <4>1. CASE z \in ToSet(doStack)
        BY <2>4, <2>7, <2>11, <4>1 DEF OrderInv, UndoneUnseen
      <4>2. CASE z \in ToSet(undoStack)
        <5>1. <<z, y>> \in Earlier
          BY <2>11, <4>2 DEF OrderInv, StacksSorted, Sorted
        <5>2. Precedes(t, s)
          BY <2>4, <2>7, <5>1 DEF Earlier
        <5>. QED  BY <5>2 DEF Precedes
      <4>. QED  BY <3>2, <4>1, <4>2
    <3>. QED  BY <1>4, <2>6, <3>3
  <2>. QED  BY <2>1, <2>8, <2>9, <2>10, <2>11
<1>14. OwnUnseen'
  BY <1>3, <1>4 DEF OrderInv, OwnUnseen
<1>15. SeenUsed'
  BY DEF OrderInv, SeenUsed
<1>. QED  BY <1>8, <1>9, <1>10, <1>11, <1>12, <1>13, <1>14, <1>15 DEF OrderInv

\* What has not been made is held by no list.
LEMMA UnusedApart ==
  ASSUME HeldUsed, NEW x \in Item, x \notin used
  PROVE  /\ x \notin ToSet(doStack) /\ x \notin ToSet(undoStack) /\ x \notin ToSet(redoStack)
         /\ \A z \in Item : x \notin KidsOf(z)
<1>1. HeldByLists
  BY HeldByOp
<1>2. \A h \in Holder : x \notin ToSet(HeldBy[h])
  BY <1>1 DEF HeldByLists, HeldUsed, Holds, ToSet
<1>3. x \notin ToSet(doStack) /\ x \notin ToSet(undoStack) /\ x \notin ToSet(redoStack)
  BY <1>1, <1>2, HolderOp DEF HeldByLists
<1>4. \A z \in Item : x \notin ToSet(undoKids[z]) /\ x \notin ToSet(redoKids[z])
  BY <1>1, <1>2, HolderOp DEF HeldByLists
<1>. QED  BY <1>3, <1>4 DEF KidsOf

\* Where all is whole, what is below a done item is done, and below an undone one
\* undone.
LEMMA WholeTrees ==
  ASSUME TypeOK, AllWhole, NEW y \in Item
  PROVE  \A s \in Tree(y) : (IsDone(y) => IsDone(s)) /\ (IsUndone(y) => IsUndone(s))
<1>1. PICK C \in SUBSET Item : C = {w \in Item : (IsDone(y) => IsDone(w)) /\ (IsUndone(y) => IsUndone(w))}
  OBVIOUS
<1>2. ASSUME NEW w \in C, NEW c \in KidsOf(w)
      PROVE  c \in C
  <2>1. c \in Item /\ w \in Item
    BY <1>1, <1>2, AllKidsOp
  <2>2. IsWhole(w)
    BY <2>1 DEF AllWhole
  <2>3. IsDone(w) => IsDone(c)
    BY <1>2, <2>1, <2>2, EmptyToSet DEF IsWhole, KidsOf, IsDone
  <2>4. IsUndone(w) => IsUndone(c)
    BY <1>2, <2>1, <2>2, EmptyToSet DEF IsWhole, KidsOf, IsUndone
  <2>. QED  BY <1>1, <1>2, <2>1, <2>3, <2>4
<1>3. Reach(AllKids, {y}) \subseteq C
  <2>1. \A w \in C : ToSet(AllKids[w]) \subseteq C
    BY <1>1, <1>2, AllKidsOp
  <2>2. {y} \subseteq C
    BY <1>1
  <2>3. PICK f, S : f = AllKids /\ S = {y}
    OBVIOUS
  <2>. QED  BY <2>1, <2>2, <2>3, ReachLeast
<1>. QED  BY <1>1, <1>3 DEF Tree

\* While transactions are executed the document has the effects of what is done,
\* and none of what is undone.
LEMMA DoneInDoc ==
  ASSUME Typed, ItemOwnedOnce, AllDos(calls), DocInv
  PROVE  /\ \A s \in Transaction : IsDone(s) => Effects(s) \subseteq doc
         /\ \A s \in Transaction : IsUndone(s) => Effects(s) \cap doc \subseteq Untracked
         /\ \A w \in doc \ Untracked : \E s \in Transaction : IsDone(s) /\ w \in Effects(s)
<1>1. \A s \in Transaction : InForce(s) <=> IsDone(s)
  BY DoingForce
<1>2. /\ \A s \in Transaction : IsDone(s) => Effects(s) \subseteq doc
      /\ \A w \in doc \ Untracked : \E s \in Transaction : IsDone(s) /\ w \in Effects(s)
  BY <1>1 DEF DocInv, DocIs, Present, InEffect
<1>3. ASSUME NEW s \in Transaction, IsUndone(s), NEW w \in Effects(s), w \in doc, w \notin Untracked
      PROVE  FALSE
  <2>1. PICK p \in Transaction : IsDone(p) /\ w \in Effects(p)
    BY <1>2, <1>3
  <2>2. p # s
    BY <1>3, <2>1, NotBoth DEF NeverBoth
  <2>. QED  BY <1>3, <2>1, <2>2 DEF DocInv, Disjoint, Held
<1>. QED  BY <1>2, <1>3

\* An item is pushed on the do stack: a transaction that is executed finds what
\* is done, and a batch finds nothing.
LEMMA OrderOpens ==
  ASSUME SafeInv, HistoryInv, AllWhole, AllDos(calls), DocInv, OrderInv, TypeOK',
         NEW x \in Item, x \notin used, doStack' = Push(doStack, x), used' = used \cup {x},
         UNCHANGED <<undoStack, redoStack, kids, absorbed, forgotten>>,
         \A t \in Transaction : base'[t] = IF t = x THEN doc ELSE base[t],
         doc' \subseteq doc \cup {x}
  PROVE  OrderInv'
<1>1. /\ Typed /\ TypeOK /\ ItemOwnedOnce /\ HeldUsed /\ FreshEmpty
      /\ doStack \in Seq(Item) /\ undoStack \in Seq(Item) /\ redoStack \in Seq(Item)
  BY DEF SafeInv, Typed, TypeOK, Owned, HistoryInv
<1>2. undoKids' = undoKids /\ redoKids' = redoKids /\ \A y \in Item : KidsOf(y)' = KidsOf(y)
  BY DEF kids, KidsOf
<1>3. /\ \A S : Reach(AllKids', S) = Reach(AllKids, S)
      /\ \A y : Tree(y)' = Tree(y)
  BY <1>1, <1>2, TreesSame
<1>4. \A t : Effects(t)' = Effects(t)
  BY DEF Effects
<1>5. Untracked' = Untracked
  <2>1. Reach(AllKids, forgotten)' = Reach(AllKids, forgotten)
    <3>1. Reach(AllKids, forgotten)' = Reach(AllKids', forgotten')
      BY DEF Reach
    <3>. QED  BY <1>3, <3>1
  <2>. QED  BY <1>4, <2>1 DEF Untracked, InEffect
<1>6. /\ x \notin ToSet(doStack) /\ x \notin ToSet(undoStack) /\ x \notin ToSet(redoStack)
      /\ \A z \in Item : x \notin KidsOf(z)
  BY <1>1, UnusedApart
<1>7. undoKids[x] = <<>> /\ redoKids[x] = <<>> /\ KidsOf(x) = {}
  BY <1>1, EmptyToSet DEF FreshEmpty, KidsOf
<1>8. Tree(x) \subseteq {x} /\ Tree(x) \subseteq Transaction
  BY <1>1, <1>7, TreesSplitOp DEF TreesSplit, Tree
<1>9. \A y \in Item : y # x => \A s \in Tree(y) : s # x /\ s \in Transaction
  BY <1>1, <1>6, TreeWithout DEF Tree
<1>10. x \in Transaction => Effects(x) = {x}
  BY DEF DocInv, Disjoint, Effects
<1>11. \A s, t \in Transaction : s # x /\ t # x /\ Precedes(s, t) => Precedes(s, t)'
  <2>. SUFFICES ASSUME NEW s \in Transaction, NEW t \in Transaction, s # x, t # x, Precedes(s, t)
                PROVE  Precedes(s, t)'
    OBVIOUS
  <2>1. base'[s] = base[s] /\ base'[t] = base[t]
    OBVIOUS
  <2>. QED  BY <1>4, <1>5, <2>1, PrecedesStays
<1>12. \A y, z \in Item : y # x /\ z # x /\ <<y, z>> \in Earlier => <<y, z>> \in Earlier'
  <2>. SUFFICES ASSUME NEW y \in Item, NEW z \in Item, y # x, z # x, <<y, z>> \in Earlier
                PROVE  <<y, z>> \in Earlier'
    OBVIOUS
  <2>1. \A s \in Tree(y), t \in Tree(z) : Precedes(s, t)'
    BY <1>9, <1>11 DEF Earlier
  <2>. QED  BY <1>3, <2>1 DEF Earlier
\* What is done comes before it.
<1>13. ASSUME NEW y \in ToSet(doStack) \cup ToSet(undoStack)
       PROVE  <<y, x>> \in Earlier'
  <2>1. y \in Item /\ IsDone(y) /\ y # x
    BY <1>1, <1>6, ToSetOp DEF IsDone
  <2>2. ASSUME NEW s \in Tree(y), x \in Transaction
        PROVE  Precedes(s, x)'
    <3>1. s # x /\ s \in Transaction /\ IsDone(s)
      BY <1>1, <1>9, <2>1, WholeTrees
    <3>2. Effects(s) \subseteq doc
      BY <1>1, <3>1, DoneInDoc
    <3>3. base'[x] = doc /\ base'[s] = base[s] /\ base[s] \subseteq used
      BY <2>2, <3>1 DEF OrderInv, SeenUsed
    <3>4. Effects(s)' \ Untracked' \subseteq base'[x]
      BY <1>4, <3>2, <3>3
    <3>5. Effects(x)' \cap base'[s] \subseteq Untracked'
      BY <1>4, <1>10, <2>2, <3>3
    <3>. QED  BY <3>4, <3>5 DEF Precedes
  <2>. QED  BY <1>3, <1>8, <2>1, <2>2 DEF Earlier
<1>14. KidsSorted'
  <2>. SUFFICES ASSUME NEW z \in Item
                PROVE  Sorted(Earlier', undoKids'[z], redoKids'[z])
    BY DEF KidsSorted, Sorted
  <2>1. \A y \in ToSet(undoKids[z]) \cup ToSet(redoKids[z]) : y \in Item /\ y # x
    BY <1>1, <1>6, AllKidsOp DEF KidsOf
  <2>2. Sorted(Earlier, undoKids[z], redoKids[z])
    BY DEF OrderInv, KidsSorted
  <2>. QED  BY <1>2, <1>12, <2>1, <2>2, SortedFor
<1>15. ParentFirst'
  <2>. SUFFICES ASSUME NEW z \in Transaction, NEW c \in KidsOf(z)', NEW s \in Tree(c)'
                PROVE  Precedes(z, s)'
    BY DEF ParentFirst
  <2>1. z \in Item /\ c \in KidsOf(z) /\ s \in Tree(c)
    BY <1>2, <1>3 DEF Item
  <2>2. z # x /\ c \in Item /\ c # x
    BY <1>1, <1>6, <1>7, <2>1, AllKidsOp
  <2>3. Precedes(z, s)
    BY <2>1 DEF OrderInv, ParentFirst
  <2>. QED  BY <1>9, <1>11, <2>1, <2>2, <2>3
<1>16. StacksSorted'
  <2>1. \A y \in ToSet(undoStack) \cup ToSet(redoStack) : y \in Item /\ y # x
    BY <1>1, <1>6, ToSetOp
  <2>2. Sorted(Earlier', undoStack, redoStack)
    BY <1>12, <2>1, SortedFor DEF OrderInv, StacksSorted
  <2>. QED  BY <2>2 DEF StacksSorted, Sorted
<1>17. ToSet(doStack') = ToSet(doStack) \cup {x}
  BY <1>1, ToSetOp
<1>18. OpenSorted'
  <2>1. \A y \in ToSet(undoStack) \cup ToSet(doStack) : y \in Item /\ y # x
    BY <1>1, <1>6, ToSetOp
  <2>2. Sorted(Earlier', doStack, <<>>)
    BY <1>12, <2>1, SortedFor, EmptyToSet DEF OrderInv, OpenSorted
  <2>3. Sorted(Earlier', Push(doStack, x), <<>>)
    BY <1>1, <1>13, <2>2, SortedPush, EmptyToSet
  <2>4. \A y \in ToSet(undoStack), z \in ToSet(doStack) : <<y, z>> \in Earlier'
    BY <1>12, <2>1 DEF OrderInv, OpenSorted
  <2>. QED  BY <1>13, <1>17, <2>3, <2>4 DEF OpenSorted, Sorted
<1>19. UndoneUnseen'
  <2>. SUFFICES ASSUME NEW z \in ToSet(doStack'), NEW y \in ToSet(redoStack), NEW s \in Tree(z), NEW t \in Tree(y)
                PROVE  Effects(t) \cap base'[s] \subseteq Untracked
    BY <1>3, <1>4, <1>5 DEF UndoneUnseen
  <2>1. z \in ToSet(doStack) \/ z = x
    BY <1>17
  <2>2. CASE z \in ToSet(doStack)
    <3>1. z \in Item /\ z # x
      BY <1>1, <1>6, <2>2, ToSetOp
    <3>2. base'[s] = base[s]
      BY <1>9, <3>1
    <3>. QED  BY <2>2, <3>2 DEF OrderInv, UndoneUnseen
  <2>3. CASE z = x
    <3>1. s = x /\ s \in Transaction
      BY <1>8, <2>3
    <3>2. y \in Item /\ IsUndone(y) /\ t \in Transaction
      BY <1>1, ToSetOp DEF IsUndone, Tree
    <3>3. IsUndone(t)
      BY <1>1, <3>2, WholeTrees
    <3>. QED  BY <1>1, <3>1, <3>2, <3>3, DoneInDoc
  <2>. QED  BY <2>1, <2>2, <2>3
<1>20. Covered'
  <2>1. Live \in SUBSET Item /\ forgotten \in SUBSET Item /\ Live' = Live \cup {x} /\ Roots = Live \cup forgotten
    <3>1. ToSet(doStack) \subseteq Item /\ ToSet(undoStack) \subseteq Item /\ ToSet(redoStack) \subseteq Item
      BY <1>1, ToSetOp
    <3>. QED  BY <1>1, <1>17, <3>1 DEF Live, Roots, TypeOK
  <2>. PICK f : f = AllKids
    OBVIOUS
  <2>2. PICK L \in SUBSET Item, F \in SUBSET Item : f = AllKids /\ L = Live /\ F = forgotten
    BY <2>1
  <2>3. \A y \in Item : ToSet(f[y]) \subseteq Item
    BY <1>1, <2>2, AllKidsOp
  <2>4. Reach(AllKids, Live)' = Reach(f, L \cup {x})
    <3>1. Reach(AllKids, Live)' = Reach(AllKids', Live')
      BY DEF Reach
    <3>. QED  BY <1>3, <2>1, <2>2, <3>1
  <2>5. Reach(f, L) \subseteq Reach(f, L \cup {x})
    BY <2>3 DEF Reach
  <2>6. \A t \in Reach(f, L \cup {x}) \cap Transaction : t \in Reach(f, L) \/ t = x
    <3>1. Reach(f, L \cup {x}) \subseteq Reach(f, L) \cup Reach(f, {x})
      <4>1. {x} \in SUBSET Item
        OBVIOUS
      <4>. QED  BY <2>3, <4>1, ReachUnion
    <3>. QED  BY <1>8, <2>2, <3>1 DEF Tree
  <2>7. InEffect(Reach(f, L)) \subseteq InEffect(Reach(AllKids, Live))'
    BY <1>4, <2>4, <2>5 DEF InEffect
  <2>8. ASSUME NEW t \in Reach(f, L) \cap Transaction, t # x
        PROVE  base'[t] \ Untracked \subseteq InEffect(Reach(f, L))
    BY <2>2, <2>8 DEF OrderInv, Covered
  <2>9. doc \ Untracked \subseteq InEffect(Reach(f, L))
    <3>. SUFFICES ASSUME NEW w \in doc \ Untracked
                  PROVE  w \in InEffect(Reach(f, L))
      OBVIOUS
    <3>1. PICK s \in Transaction : IsDone(s) /\ w \in Effects(s)
      BY <1>1, DoneInDoc
    <3>2. s \in Reach(f, L \cup F)
      BY <2>1, <2>2, <3>1 DEF DocInv, Anchored, Item
    <3>3. s \in Reach(f, L) \/ s \in Reach(f, F)
      BY <2>3, <3>2, ReachUnion
    <3>4. s \notin Reach(f, F)
      BY <2>2, <3>1 DEF Untracked, InEffect
    <3>. QED  BY <3>1, <3>3, <3>4 DEF InEffect
  <2>10. \A t \in Reach(AllKids, Live)' \cap Transaction : base'[t] \ Untracked' \subseteq InEffect(Reach(AllKids, Live))'
    BY <1>5, <2>4, <2>6, <2>7, <2>8, <2>9
  <2>. QED  BY <2>10 DEF Covered
<1>21. OwnUnseen'
  <2>1. \A t \in Transaction : Effects(t) \cap base'[t] \subseteq Untracked
    <3>1. x \in Transaction => Effects(x) \cap doc = {}
      BY <1>10 DEF OrderInv, SeenUsed
    <3>. QED  BY <3>1 DEF OrderInv, OwnUnseen
  <2>. QED  BY <1>4, <1>5, <2>1 DEF OwnUnseen
<1>22. SeenUsed'
  BY DEF OrderInv, SeenUsed
<1>. QED  BY <1>14, <1>15, <1>16, <1>18, <1>19, <1>20, <1>21, <1>22 DEF OrderInv

\* The items of a stack are apart.
LEMMA StacksDistinct ==
  ASSUME ItemOwnedOnce
  PROVE  /\ \A i, j \in DOMAIN doStack : doStack[i] = doStack[j] => i = j
         /\ \A i, j \in DOMAIN undoStack : undoStack[i] = undoStack[j] => i = j
<1>1. HeldByLists
  BY HeldByOp
<1>2. \A h \in Holder : \A i, j \in DOMAIN HeldBy[h] : HeldBy[h][i] = HeldBy[h][j] => i = j
  BY <1>1 DEF HeldByLists, ItemOwnedOnce, OwnedOnce
<1>. QED  BY <1>1, <1>2, HolderOp DEF HeldByLists

\* What the last of the list is and what it comes after.
LEMMA LastApart ==
  ASSUME NEW d \in Seq(Item), d # <<>>, \A i, j \in DOMAIN d : d[i] = d[j] => i = j
  PROVE  \A i, j \in DOMAIN d : i < j => d[i] # Peek(d)
<1>1. Len(d) \in Nat /\ DOMAIN d = 1..Len(d) /\ Len(d) \in DOMAIN d /\ Peek(d) = d[Len(d)]
  BY EmptySeq DEF Peek, Last
<1>. QED  BY <1>1

\* EndTransaction() lets an item go.
LEMMA ReleaseOrder ==
  ASSUME TypeOK, TypeOK', OrderInv, doStack # <<>>, NEW x, x = Peek(doStack), doStack' = Pop(doStack),
         Release(x), UNCHANGED <<redoKids, used, doc, base>>
  PROVE  OrderInv'
<1>1. /\ doStack \in Seq(Item) /\ undoStack \in Seq(Item) /\ redoStack \in Seq(Item)
      /\ undoStack' = undoStack /\ redoStack' = redoStack /\ UNCHANGED <<kids, base, absorbed, doc>>
      /\ used' = used /\ forgotten \subseteq forgotten'
      /\ x \in forgotten' \/ EmptyBatch(x)
  BY DEF TypeOK, Release, kids
<1>2. /\ ToSet(doStack) = ToSet(doStack') \cup {x} /\ doStack' \in Seq(Item)
      /\ Part(doStack', doStack) /\ Part(<<>>, <<>>)
  <2>1. Part(<<>>, <<>>)
    BY DEF Part
  <2>. QED  BY <1>1, <2>1, ToSetOp, PopOp, PartOp DEF Pop
<1>3. Sorted(Earlier, doStack', <<>>)
  <2>1. Sorted(Earlier, doStack, <<>>)
    BY DEF OrderInv, OpenSorted
  <2>2. \A i, j \in DOMAIN doStack' : i < j => <<doStack'[i], doStack'[j]>> \in Earlier
    <3>1. \A i \in DOMAIN Pop(doStack) : i \in DOMAIN doStack /\ Pop(doStack)[i] = doStack[i]
      BY <1>1, StackElements
    <3>. QED  BY <2>1, <3>1 DEF Sorted
  <2>. QED  BY <2>1, <2>2, EmptyToSet DEF Sorted
<1>4. Sorted(Earlier, undoStack', redoStack')
  BY <1>1 DEF OrderInv, StacksSorted
<1>5. \A y \in ToSet(undoStack'), z \in ToSet(doStack') : <<y, z>> \in Earlier
  BY <1>1, <1>2 DEF OrderInv, OpenSorted
<1>6. \A y \in Live : y \in Live' \/ y \in forgotten' \/ EmptyBatch(y)
  BY <1>1, <1>2 DEF Live
<1>. QED  BY <1>1, <1>2, <1>3, <1>4, <1>5, <1>6, OrderLets

\* It becomes the last child of the item below it, whose children so far it has
\* come after.
LEMMA AddChildOrder ==
  ASSUME SafeInv, HistoryInv, TypeOK', OrderInv, doStack # <<>>, NEW x, x = Peek(doStack),
         NEW rest, rest = Pop(doStack), doStack' = rest, AddChild(x, rest),
         UNCHANGED <<redoKids, used, doc, base>>
  PROVE  OrderInv'
<1>1. /\ TypeOK /\ ItemOwnedOnce /\ OpenPlain
      /\ doStack \in Seq(Item) /\ undoStack \in Seq(Item) /\ redoStack \in Seq(Item)
      /\ undoKids \in [Item -> Seq(Item)] /\ redoKids \in [Item -> Seq(Item)]
      /\ rest # <<>> /\ undoStack' = undoStack /\ redoStack' = redoStack
      /\ absorbed' = absorbed /\ forgotten' = forgotten
      /\ undoKids' = [undoKids EXCEPT ![Peek(rest)] = Push(@, x)]
      /\ redoKids' = redoKids /\ base' = base /\ doc' = doc /\ used' = used
  BY DEF SafeInv, HistoryInv, Typed, TypeOK, Owned, AddChild
<1>2. /\ x \in Item /\ x \in ToSet(doStack) /\ rest \in Seq(Item)
      /\ ToSet(doStack) = ToSet(rest) \cup {x} /\ x \notin ToSet(rest)
  BY <1>1, TopAlone, ToSetOp, PopOp
<1>3. PICK p \in Item : p = Peek(rest) /\ p \in ToSet(rest)
  BY <1>1, <1>2, PopOp, ToSetOp
<1>4. /\ p # x /\ p \in ToSet(doStack)
      /\ p \notin ToSet(undoStack) /\ p \notin ToSet(redoStack)
      /\ \A z \in Item : p \notin KidsOf(z)
      /\ \A z \in Item : x \notin KidsOf(z)
  <2>1. OwnersApart
    BY <1>1, OwnersApartOp
  <2>. QED  BY <1>2, <1>3, <2>1 DEF OwnersApart
<1>5. redoKids[p] = <<>>
  BY <1>1, <1>4 DEF OpenPlain, ToSet
<1>6. /\ \A z \in Item : z # p => undoKids'[z] = undoKids[z] /\ KidsOf(z)' = KidsOf(z)
      /\ undoKids'[p] = Push(undoKids[p], x)
      /\ KidsOf(p)' = KidsOf(p) \cup {x}
  <2>1. /\ \A z \in Item : z # p => undoKids'[z] = undoKids[z]
        /\ undoKids'[p] = Push(undoKids[p], x)
    BY <1>1, <1>3
  <2>2. ToSet(undoKids'[p]) = ToSet(undoKids[p]) \cup {x}
    <3>1. PICK u \in Seq(Item) : u = undoKids[p]
      BY <1>1, <1>2
    <3>2. ToSet(Push(u, x)) = ToSet(u) \cup {x}
      BY ONLY <1>2, <3>1, ToSetOp
    <3>. QED  BY ONLY <2>1, <3>1, <3>2
  <2>. QED  BY <1>1, <2>1, <2>2 DEF KidsOf
<1>7. \A t : Effects(t)' = Effects(t)
  BY <1>1 DEF Effects
<1>8. Untracked \subseteq Untracked'
  <2>1. \A z \in Item : KidsOf(z) \subseteq KidsOf(z)'
    BY <1>6
  <2>. QED  BY <1>1, <2>1, UntrackedGrows
<1>9. /\ \A z \in Item : z # p => Tree(z)' \subseteq Tree(z)
      /\ Tree(p)' \subseteq Tree(p) \cup Tree(x)
  <2>1. PICK f, g : f = AllKids /\ g = AllKids'
    OBVIOUS
  <2>2. \A z \in Item : ToSet(f[z]) = KidsOf(z) /\ KidsOf(z) \subseteq Item
    BY <1>1, <2>1, AllKidsOp
  <2>3. \A z \in Item : ToSet(g[z]) = KidsOf(z)'
    <3>1. AllKidsShown'
      BY AllKidsSeen, PTL
    <3>. QED  BY <2>1, <3>1 DEF AllKidsShown
  <2>4. \A z : Tree(z)' = Reach(g, {z}) \cap Transaction
    BY <2>1 DEF Tree, Reach
  <2>5. ASSUME NEW z \in Item
        PROVE  /\ {z} \subseteq Reach(f, {z})
               /\ \A w \in Reach(f, {z}) : w \in Item /\ ToSet(f[w]) \subseteq Reach(f, {z})
               /\ z # p => p \notin Reach(f, {z})
    <3>1. {z} \in SUBSET Item
      OBVIOUS
    <3>2. z # p => p \notin Reach(f, {z})
      BY <1>1, <1>4, <2>1, TreeWithout
    <3>. QED  BY <2>2, <3>1, <3>2, ReachHolds
  <2>6. ASSUME NEW z \in Item, z # p
        PROVE  Reach(g, {z}) \subseteq Reach(f, {z})
    <3>1. PICK C \in SUBSET Item : C = Reach(f, {z})
      BY <2>5
    <3>2. \A w \in C : ToSet(g[w]) \subseteq C
      BY <1>6, <2>2, <2>3, <2>5, <2>6, <3>1
    <3>3. {z} \subseteq C
      BY <2>5, <3>1
    <3>4. PICK S : S = {z}
      OBVIOUS
    <3>. QED  BY <3>1, <3>2, <3>3, <3>4, ReachLeast
  <2>7. Reach(g, {p}) \subseteq Reach(f, {p}) \cup Reach(f, {x})
    <3>1. PICK C \in SUBSET Item : C = Reach(f, {p}) \cup Reach(f, {x})
      BY <1>2, <2>5
    <3>2. \A w \in C : ToSet(g[w]) \subseteq C
      <4>. SUFFICES ASSUME NEW w \in C
                    PROVE  ToSet(g[w]) \subseteq C
        OBVIOUS
      <4>1. w \in Item /\ ToSet(f[w]) \subseteq C /\ x \in C
        BY <1>2, <2>5, <3>1
      <4>. QED  BY <1>6, <2>2, <2>3, <4>1
    <3>3. {p} \subseteq C
      BY <2>5, <3>1
    <3>4. PICK S : S = {p}
      OBVIOUS
    <3>5. Reach(g, S) \subseteq C
      BY <3>2, <3>3, <3>4, ReachLeast
    <3>. QED  BY <3>1, <3>4, <3>5
  <2>. QED  BY <2>1, <2>4, <2>6, <2>7 DEF Tree
<1>10. \A s, t : Precedes(s, t) => Precedes(s, t)'
  BY <1>1, <1>7, <1>8, PrecedesStays
<1>11. \A y, z \in Item : y # p /\ z # p /\ <<y, z>> \in Earlier => <<y, z>> \in Earlier'
  BY <1>9, <1>10 DEF Earlier
<1>12. \A y \in Item : y # p /\ <<y, p>> \in Earlier /\ <<y, x>> \in Earlier => <<y, p>> \in Earlier'
  BY <1>9, <1>10 DEF Earlier
<1>13. <<p, x>> \in Earlier
  <2>1. PICK d \in Seq(Item) : d = doStack /\ d # <<>>
    BY <1>1
  <2>2. Len(d) \in DOMAIN d /\ x = d[Len(d)] /\ Len(d) \in Nat /\ DOMAIN d = 1..Len(d)
    BY <2>1, EmptySeq DEF Peek, Last
  <2>3. PICK i \in DOMAIN d : p = d[i] /\ i < Len(d)
    <3>1. PICK i \in DOMAIN d : p = d[i]
      BY <1>4, <2>1 DEF ToSet
    <3>. QED  BY <1>4, <2>2, <3>1
  <2>. QED  BY <2>1, <2>2, <2>3 DEF OrderInv, OpenSorted, Sorted
<1>14. KidsSorted'
  <2>. SUFFICES ASSUME NEW z \in Item
                PROVE  Sorted(Earlier', undoKids'[z], redoKids'[z])
    BY DEF KidsSorted, Sorted
  <2>1. /\ \A y \in ToSet(undoKids[z]) \cup ToSet(redoKids[z]) : y \in Item /\ y # p
        /\ Sorted(Earlier, undoKids[z], redoKids[z])
    BY <1>1, <1>4, AllKidsOp DEF KidsOf, OrderInv, KidsSorted
  <2>2. Sorted(Earlier', undoKids[z], redoKids[z])
    BY <1>11, <2>1, SortedFor
  <2>3. CASE z # p
    BY <1>1, <1>6, <2>2, <2>3
  <2>4. CASE z = p
    <3>1. \A y \in ToSet(undoKids[p]) : <<y, x>> \in Earlier'
      <4>. SUFFICES ASSUME NEW y \in ToSet(undoKids[p])
                    PROVE  <<y, x>> \in Earlier'
        OBVIOUS
      <4>1. y \in Item /\ y # p /\ Tree(y) \subseteq Tree(p)
        BY <1>1, <2>1, <2>4, TreesSplitOp DEF TreesSplit, KidsOf
      <4>2. <<y, x>> \in Earlier
        BY <1>2, <1>13, <4>1 DEF Earlier
      <4>. QED  BY <1>2, <1>4, <1>11, <4>1, <4>2
    <3>2. Sorted(Earlier', Push(undoKids[p], x), <<>>)
      <4>1. undoKids[p] \in Seq(Item)
        BY <1>1
      <4>. QED  BY <1>2, <1>5, <2>2, <2>4, <3>1, <4>1, SortedPush, EmptyToSet
    <3>. QED  BY <1>1, <1>5, <1>6, <2>4, <3>2
  <2>. QED  BY <2>3, <2>4
<1>15. ParentFirst'
  <2>. SUFFICES ASSUME NEW z \in Transaction, NEW c \in KidsOf(z)', NEW s \in Tree(c)'
                PROVE  Precedes(z, s)
    BY <1>10 DEF ParentFirst
  <2>1. z \in Item
    BY DEF Item
  <2>2. CASE c \in KidsOf(z)
    <3>1. c \in Item /\ c # p
      BY <1>1, <1>4, <2>1, <2>2, AllKidsOp
    <3>. QED  BY <1>9, <2>2, <3>1 DEF OrderInv, ParentFirst
  <2>3. CASE c \notin KidsOf(z)
    <3>1. z = p /\ c = x
      BY <1>6, <2>1, <2>3
    <3>2. s \in Tree(x) /\ z \in Tree(p)
      BY <1>1, <1>2, <1>4, <1>9, <2>1, <3>1, TreesSplitOp DEF TreesSplit
    <3>. QED  BY <1>13, <3>2 DEF Earlier
  <2>. QED  BY <2>2, <2>3
<1>16. StacksSorted'
  <2>1. \A y \in ToSet(undoStack) \cup ToSet(redoStack) : y \in Item /\ y # p
    BY <1>1, <1>4, ToSetOp
  <2>2. Sorted(Earlier', undoStack, redoStack)
    BY <1>11, <2>1, SortedFor DEF OrderInv, StacksSorted
  <2>. QED  BY <1>1, <2>2 DEF StacksSorted, Sorted
<1>17. OpenSorted'
  <2>1. Sorted(Earlier', rest, <<>>)
    <3>1. \A i \in DOMAIN rest : i \in DOMAIN doStack /\ rest[i] = doStack[i]
      BY <1>1, StackElements
    <3>2. PICK n \in DOMAIN doStack : x = doStack[n] /\ n = Len(doStack) /\ n \in Nat /\ DOMAIN doStack = 1..n
      <4>1. PICK d \in Seq(Item) : d = doStack /\ d # <<>>
        BY <1>1
      <4>. QED  BY <4>1, EmptySeq DEF Peek, Last
    <3>3. \A i, j \in DOMAIN rest : i < j => rest[i] # p
      <4>1. \A i, j \in DOMAIN rest : rest[i] = rest[j] => i = j
        BY <1>1, <3>1, StacksDistinct
      <4>. QED  BY <1>1, <1>2, <1>3, <4>1, LastApart
    <3>4. ASSUME NEW i \in DOMAIN rest, NEW j \in DOMAIN rest, i < j
          PROVE  <<rest[i], rest[j]>> \in Earlier'
      <4>1. rest[i] \in Item /\ rest[j] \in Item /\ rest[i] # p
        BY <1>2, <3>3, <3>4
      <4>2. <<rest[i], rest[j]>> \in Earlier
        BY <3>1, <3>4 DEF OrderInv, OpenSorted, Sorted
      <4>3. <<rest[i], x>> \in Earlier
        <5>1. i < n
          <6>1. rest[i] # x
            BY <1>2, <3>4 DEF ToSet
          <6>. QED  BY <3>1, <3>2, <3>4, <6>1
        <5>. QED  BY <3>1, <3>2, <3>4, <5>1 DEF OrderInv, OpenSorted, Sorted
      <4>. QED  BY <1>11, <1>12, <4>1, <4>2, <4>3
    <3>. QED  BY <3>4, EmptyToSet DEF Sorted
  <2>2. ASSUME NEW y \in ToSet(undoStack), NEW z \in ToSet(rest)
        PROVE  <<y, z>> \in Earlier'
    <3>1. y \in Item /\ z \in Item /\ y # p
      BY <1>1, <1>2, <1>4, ToSetOp
    <3>2. <<y, z>> \in Earlier /\ <<y, x>> \in Earlier
      BY <1>2 DEF OrderInv, OpenSorted
    <3>. QED  BY <1>11, <1>12, <3>1, <3>2
  <2>. QED  BY <1>1, <2>1, <2>2 DEF OpenSorted, Sorted
<1>18. UndoneUnseen'
  <2>. SUFFICES ASSUME NEW z \in ToSet(rest), NEW y \in ToSet(redoStack), NEW s \in Tree(z)', NEW t \in Tree(y)'
                PROVE  Effects(t) \cap base[s] \subseteq Untracked
    BY <1>1, <1>7, <1>8 DEF UndoneUnseen
  <2>1. y \in Item /\ y # p /\ z \in Item
    BY <1>1, <1>2, <1>4, ToSetOp
  <2>2. t \in Tree(y) /\ (s \in Tree(z) \/ s \in Tree(x))
    BY <1>9, <2>1
  <2>. QED  BY <1>2, <2>2 DEF OrderInv, UndoneUnseen
<1>19. Covered'
  <2>1. Live \in SUBSET Item /\ Live' \subseteq Live /\ Live = Live' \cup {x} /\ p \in Live'
    <3>1. ToSet(doStack) \subseteq Item /\ ToSet(undoStack) \subseteq Item /\ ToSet(redoStack) \subseteq Item
      BY <1>1, ToSetOp
    <3>. QED  BY <1>1, <1>2, <1>3, <3>1 DEF Live
  <2>2. PICK A, B : A = Reach(AllKids, Live) /\ B = Reach(AllKids', Live')
    OBVIOUS
  <2>3. Reach(AllKids, Live)' = B
    BY <2>2 DEF Reach
  <2>4. A \subseteq B
    <3>1. Live \subseteq Reach(AllKids', Live') \cup {}
      <4>. PICK g : g = AllKids'
        OBVIOUS
      <4>1. PICK T \in SUBSET Item : T = Live'
        BY <2>1
      <4>2. \A z \in Item : ToSet(g[z]) = KidsOf(z)' /\ KidsOf(z)' \subseteq Item
        <5>1. AllKidsShown'
          BY AllKidsSeen, PTL
        <5>2. \A z \in Item : KidsOf(z) \subseteq Item
          BY <1>1, AllKidsOp
        <5>3. \A z \in Item : KidsOf(z)' \subseteq KidsOf(z) \cup {x}
          BY <1>6
        <5>. QED  BY <1>2, <5>1, <5>2, <5>3 DEF AllKidsShown
      <4>3. T \subseteq Reach(g, T) /\ \A z \in Reach(g, T) : z \in Item /\ ToSet(g[z]) \subseteq Reach(g, T)
        BY <4>1, <4>2, ReachHolds
      <4>4. x \in Reach(g, T)
        BY <1>6, <2>1, <4>1, <4>2, <4>3
      <4>. QED  BY <2>1, <4>1, <4>3, <4>4
    <3>2. \A z \in Item : KidsOf(z) \subseteq KidsOf(z)'
      BY <1>6
    <3>3. Reach(AllKids, Live) \subseteq Reach(AllKids', Live') \cup {}
      <4>1. Live' \in SUBSET Item
        BY <2>1
      <4>. QED  BY <1>1, <3>1, <3>2, <4>1, BelowGrows
    <3>. QED  BY <2>2, <3>3
  <2>5. B \cap Transaction \subseteq A
    <3>. SUFFICES ASSUME NEW t \in B \cap Transaction
                  PROVE  t \in A
      OBVIOUS
    <3>1. PICK z \in Live' : t \in Tree(z)'
      <4>1. TreesSplit'
        BY TreesSplitOp, PTL
      <4>2. PICK T \in SUBSET Item : T = Live'
        BY <2>1
      <4>3. Reach(AllKids, T)' = B
        BY <2>2, <4>2 DEF Reach
      <4>4. \A s \in Reach(AllKids, T)' \cap Transaction : \E z \in T : s \in Tree(z)'
        BY <4>1 DEF TreesSplit
      <4>. QED  BY <4>2, <4>3, <4>4
    <3>2. t \in Tree(z) \/ t \in Tree(x)
      BY <1>9, <2>1, <3>1
    <3>. QED  BY <1>1, <2>1, <2>2, <3>1, <3>2, ReachTrees
  <2>6. \A t \in A \cap Transaction : base[t] \ Untracked \subseteq InEffect(A)
    BY <2>2 DEF OrderInv, Covered
  <2>7. InEffect(A) \subseteq InEffect(B)'
    BY <1>7, <2>4 DEF InEffect
  <2>8. \A t \in B \cap Transaction : base'[t] \ Untracked' \subseteq InEffect(B)'
    BY <1>1, <1>8, <2>5, <2>6, <2>7
  <2>9. InEffect(Reach(AllKids, Live))' = InEffect(B)'
    BY <2>3 DEF InEffect
  <2>. QED  BY <2>3, <2>8, <2>9 DEF Covered
<1>20. OwnUnseen'
  BY <1>1, <1>7, <1>8 DEF OrderInv, OwnUnseen
<1>21. SeenUsed'
  BY <1>1 DEF OrderInv, SeenUsed
<1>. QED  BY <1>14, <1>15, <1>16, <1>17, <1>18, <1>19, <1>20, <1>21 DEF OrderInv

\* It is pushed on the undo stack, which it comes after.
LEMMA PushUndoOrder ==
  ASSUME TypeOK, TypeOK', OrderInv, doStack # <<>>, NEW x, x = Peek(doStack), Pop(doStack) = <<>>,
         doStack' = <<>>, PushUndo(x), redoStack' = <<>>,
         UNCHANGED <<kids, absorbed, used, doc, base>>
  PROVE  OrderInv'
<1>1. /\ doStack \in Seq(Item) /\ undoStack \in Seq(Item) /\ redoStack \in Seq(Item)
      /\ x \in Item /\ ToSet(doStack) = {x} /\ ToSet(<<>>) = {}
  <2>1. doStack \in Seq(Item) /\ undoStack \in Seq(Item) /\ redoStack \in Seq(Item)
    BY DEF TypeOK
  <2>2. x \in Item /\ ToSet(doStack) = ToSet(<<>>) \cup {x}
    BY <2>1, ToSetOp, PopOp
  <2>. QED  BY <2>1, <2>2, EmptyToSet
<1>2. PICK kept \in Seq(Item) :
        /\ undoStack' = Push(kept, x) /\ ToSet(kept) \subseteq ToSet(undoStack) /\ Part(kept, undoStack)
        /\ forgotten' = forgotten \cup (ToSet(undoStack) \ ToSet(kept))
  <2>. DEFINE k == IF AtMax /\ undoStack # <<>> THEN Tail(undoStack) ELSE undoStack
  <2>1. k \in Seq(Item) /\ Part(k, undoStack)
    BY <1>1, PartOp
  <2>2. undoStack' = Push(k, x) /\ forgotten' = forgotten \cup (ToSet(undoStack) \ ToSet(k))
    BY DEF PushUndo
  <2>. HIDE DEF k
  <2>. QED  BY <2>1, <2>2, PartToSet
<1>3. ToSet(undoStack') = ToSet(kept) \cup {x}
  BY <1>1, <1>2, ToSetOp
<1>4. \A y \in ToSet(undoStack) : <<y, x>> \in Earlier
  BY <1>1 DEF OrderInv, OpenSorted
<1>5. Sorted(Earlier, undoStack', <<>>)
  <2>1. Sorted(Earlier, undoStack, redoStack) /\ Part(<<>>, redoStack) /\ <<>> \in Seq(Item)
    BY <1>1, PartOp DEF OrderInv, StacksSorted
  <2>2. Sorted(Earlier, kept, <<>>)
    BY <1>1, <1>2, <2>1, SortedPart
  <2>3. Sorted(Earlier, Push(kept, x), <<>>)
    BY <1>1, <1>2, <1>4, <2>2, SortedPush
  <2>. QED  BY <1>2, <2>3
<1>6. Sorted(Earlier, doStack', <<>>)
  BY <1>1 DEF Sorted
<1>7. \A y \in Live : y \in Live' \/ y \in forgotten' \/ y \in ToSet(redoStack)
  BY <1>1, <1>2, <1>3 DEF Live
<1>8. used \subseteq used' /\ forgotten \subseteq forgotten' /\ UNCHANGED <<kids, base, absorbed, doc>>
  BY <1>2
<1>9. /\ ToSet(doStack') \subseteq ToSet(doStack) /\ ToSet(redoStack') \subseteq ToSet(redoStack)
      /\ ToSet(undoStack') \subseteq ToSet(undoStack) \cup ToSet(doStack)
      /\ \A y \in ToSet(undoStack'), z \in ToSet(doStack') : <<y, z>> \in Earlier
  BY <1>1, <1>2, <1>3
<1>. QED  BY <1>5, <1>6, <1>7, <1>8, <1>9, OrderLets

\* It is merged into the transaction on top of the undo stack, which then comes
\* where both did: nothing that it comes after has seen either.
LEMMA MergeOrder ==
  ASSUME SafeInv, AllWhole, OrderInv, TypeOK',
         doStack # <<>>, NEW x, x = Peek(doStack), Pop(doStack) = <<>>, doStack' = <<>>,
         x \in Transaction, undoStack # <<>>, NEW top \in Transaction, top = Peek(undoStack),
         Absorbs(top, x), absorbed' = [absorbed EXCEPT ![top] = @ \cup Effects(x)],
         redoStack' = <<>>, UNCHANGED <<undoStack, kids, forgotten, used, doc, base>>
  PROVE  OrderInv'
<1>1. /\ Typed /\ TypeOK /\ ItemOwnedOnce /\ OwnersApart
      /\ doStack \in Seq(Item) /\ undoStack \in Seq(Item) /\ redoStack \in Seq(Item)
      /\ absorbed \in [Transaction -> SUBSET Transaction]
  BY OwnersApartOp DEF SafeInv, Typed, TypeOK, Owned
<1>2. /\ x \in Item /\ x \in ToSet(doStack) /\ ToSet(doStack) = {x} /\ ToSet(<<>>) = {}
      /\ top \in Item /\ top \in ToSet(undoStack) /\ top # x
      /\ \A z \in Item : top \notin KidsOf(z)
  <2>1. x \in Item /\ ToSet(doStack) = ToSet(<<>>) \cup {x} /\ top \in Item /\ top \in ToSet(undoStack)
    BY <1>1, ToSetOp DEF Item
  <2>. QED  BY <1>1, <2>1, EmptyToSet DEF OwnersApart
<1>3. IsDone(x) /\ IsDone(top)
  BY <1>2 DEF IsDone
<1>4. KidsOf(top) = {} /\ KidsOf(x) = {}
  <2>1. undoKids[x] = <<>> /\ undoKids[top] = <<>>
    BY DEF Absorbs
  <2>2. redoKids[x] = <<>> /\ redoKids[top] = <<>>
    BY <1>2, <1>3 DEF AllWhole, IsWhole
  <2>. QED  BY <1>2, <2>1, <2>2 DEF KidsOf
<1>5. undoKids' = undoKids /\ redoKids' = redoKids /\ \A z \in Item : KidsOf(z)' = KidsOf(z)
  BY DEF kids, KidsOf
<1>6. /\ \A S : Reach(AllKids', S) = Reach(AllKids, S)
      /\ \A z : Tree(z)' = Tree(z)
  BY <1>1, <1>5, TreesSame
<1>7. Tree(top) = {top} /\ Tree(x) = {x}
  BY <1>1, <1>2, <1>4, TreesSplitOp DEF TreesSplit
<1>8. \A z \in Item : z # top => top \notin Tree(z)
  BY <1>1, <1>2, TreeWithout DEF Tree
<1>9. /\ \A t \in Transaction : t # top => Effects(t)' = Effects(t)
      /\ Effects(top)' = Effects(top) \cup Effects(x)
      /\ \A t \in Transaction : absorbed[t] \subseteq absorbed'[t]
  BY <1>1 DEF Effects
<1>10. Untracked \subseteq Untracked'
  BY <1>1, <1>5, <1>9, UntrackedGrows
<1>11. \A s, t \in Transaction : s # top /\ t # top /\ Precedes(s, t) => Precedes(s, t)'
  BY <1>9, <1>10, PrecedesStays
<1>12. \A s \in Transaction : s # top /\ Precedes(s, top) /\ Precedes(s, x) => Precedes(s, top)'
  <2>. SUFFICES ASSUME NEW s \in Transaction, s # top, Precedes(s, top), Precedes(s, x)
                PROVE  Precedes(s, top)'
    OBVIOUS
  <2>1. Effects(s)' \ Untracked' \subseteq base'[top]
    BY <1>9, <1>10 DEF Precedes
  <2>2. Effects(top)' \cap base'[s] \subseteq Untracked'
    BY <1>9, <1>10 DEF Precedes
  <2>. QED  BY <2>1, <2>2 DEF Precedes
<1>13. \A z \in Item : Tree(z) \subseteq Transaction
  BY DEF Tree
<1>14. \A y, z \in Item : y # top /\ z # top /\ <<y, z>> \in Earlier => <<y, z>> \in Earlier'
  BY <1>6, <1>8, <1>11, <1>13 DEF Earlier
<1>15. \A y \in Item : y # top /\ <<y, top>> \in Earlier /\ <<y, x>> \in Earlier => <<y, top>> \in Earlier'
  <2>. SUFFICES ASSUME NEW y \in Item, y # top, <<y, top>> \in Earlier, <<y, x>> \in Earlier
                PROVE  <<y, top>> \in Earlier'
    OBVIOUS
  <2>1. \A s \in Tree(y) : s \in Transaction /\ s # top /\ Precedes(s, top) /\ Precedes(s, x)
    BY <1>7, <1>8, <1>13 DEF Earlier
  <2>2. \A s \in Tree(y) : Precedes(s, top)'
    BY <1>12, <2>1
  <2>. QED  BY <1>2, <1>6, <1>7, <2>2 DEF Earlier
<1>16. KidsSorted'
  <2>. SUFFICES ASSUME NEW z \in Item
                PROVE  Sorted(Earlier', undoKids[z], redoKids[z])
    BY <1>5 DEF KidsSorted, Sorted
  <2>1. \A y \in ToSet(undoKids[z]) \cup ToSet(redoKids[z]) : y \in Item /\ y # top
    BY <1>1, <1>2, AllKidsOp DEF KidsOf
  <2>2. Sorted(Earlier, undoKids[z], redoKids[z])
    BY DEF OrderInv, KidsSorted
  <2>. QED  BY <1>14, <2>1, <2>2, SortedFor
<1>17. ParentFirst'
  <2>. SUFFICES ASSUME NEW z \in Transaction, NEW c \in KidsOf(z)', NEW s \in Tree(c)'
                PROVE  Precedes(z, s)'
    BY DEF ParentFirst
  <2>1. z \in Item /\ c \in KidsOf(z) /\ s \in Tree(c)
    BY <1>5, <1>6 DEF Item
  <2>2. z # top /\ c \in Item /\ c # top
    BY <1>1, <1>2, <1>4, <2>1, AllKidsOp
  <2>3. Precedes(z, s)
    BY <2>1 DEF OrderInv, ParentFirst
  <2>. QED  BY <1>8, <1>11, <1>13, <2>1, <2>2, <2>3
<1>18. StacksSorted'
  <2>1. \A i, j \in DOMAIN undoStack : i < j => undoStack[i] # top
    <3>1. \A i, j \in DOMAIN undoStack : undoStack[i] = undoStack[j] => i = j
      BY <1>1, StacksDistinct
    <3>. QED  BY <1>1, <3>1, LastApart
  <2>2. ASSUME NEW i \in DOMAIN undoStack, NEW j \in DOMAIN undoStack, i < j
        PROVE  <<undoStack[i], undoStack[j]>> \in Earlier'
    <3>1. undoStack[i] \in Item /\ undoStack[j] \in Item /\ undoStack[i] # top /\ undoStack[i] \in ToSet(undoStack)
      BY <1>1, <2>1, <2>2 DEF ToSet
    <3>2. <<undoStack[i], undoStack[j]>> \in Earlier
      BY <2>2 DEF OrderInv, StacksSorted, Sorted
    <3>3. <<undoStack[i], x>> \in Earlier
      BY <1>2, <3>1 DEF OrderInv, OpenSorted
    <3>. QED  BY <1>14, <1>15, <3>1, <3>2, <3>3
  <2>3. Sorted(Earlier', undoStack, <<>>)
    BY <1>2, <2>2 DEF Sorted
  <2>. QED  BY <2>3 DEF StacksSorted, Sorted
<1>19. OpenSorted' /\ UndoneUnseen'
  <2>1. Sorted(Earlier', <<>>, <<>>)
    BY <1>2 DEF Sorted
  <2>2. ToSet(doStack') = {}
    BY <1>2
  <2>. QED  BY <1>2, <2>1, <2>2 DEF OpenSorted, UndoneUnseen, Sorted
<1>20. Covered'
  <2>1. /\ Live = {x} \cup ToSet(undoStack) \cup ToSet(redoStack) /\ Live' = ToSet(undoStack)
        /\ Live \in SUBSET Item
    BY <1>1, <1>2, ToSetOp DEF Live
  <2>2. PICK A, B, L, M : A = Reach(AllKids, Live) /\ B = Reach(AllKids, M) /\ L = Live /\ M = ToSet(undoStack)
    OBVIOUS
  <2>3. /\ Reach(AllKids, Live)' = B
        /\ M \in SUBSET Item /\ L \in SUBSET Item /\ M \subseteq L
    <3>1. Reach(AllKids, Live)' = Reach(AllKids', Live')
      BY DEF Reach
    <3>. QED  BY <1>6, <2>1, <2>2, <3>1
  <2>4. /\ \A s \in A \cap Transaction : \E y \in L : s \in Tree(y)
        /\ \A s \in B \cap Transaction : \E y \in M : s \in Tree(y)
        /\ \A y \in L : Tree(y) \subseteq A
        /\ \A y \in M : Tree(y) \subseteq B
    BY <1>1, <2>2, <2>3, ReachTrees
  <2>. SUFFICES ASSUME NEW t \in B \cap Transaction, NEW w \in base[t], w \notin Untracked'
                PROVE  \E s \in B \cap Transaction : w \in Effects(s)'
    BY <2>3 DEF Covered, InEffect
  <2>5. PICK z \in M : t \in Tree(z)
    BY <2>4
  <2>6. PICK s \in A \cap Transaction : w \in Effects(s)
    BY <1>10, <2>2, <2>3, <2>4, <2>5 DEF OrderInv, Covered, InEffect
  <2>7. PICK y \in L : s \in Tree(y)
    BY <2>4, <2>6
  <2>8. CASE y \in M
    <3>1. s \in B /\ w \in Effects(s)'
      BY <1>9, <2>4, <2>6, <2>7, <2>8
    <3>. QED  BY <2>6, <3>1
  <2>9. CASE y = x
    <3>1. s = x /\ w \in Effects(top)'
      BY <1>7, <1>9, <2>6, <2>7, <2>9
    <3>2. top \in B
      BY <1>2, <1>7, <2>2, <2>4
    <3>. QED  BY <3>1, <3>2
  <2>10. CASE y \in ToSet(redoStack)
    <3>1. <<z, y>> \in Earlier
      BY <2>2, <2>10 DEF OrderInv, StacksSorted, Sorted
    <3>2. Effects(s) \cap base[t] \subseteq Untracked
      BY <2>5, <2>7, <3>1 DEF Earlier, Precedes
    <3>. QED  BY <1>10, <2>6, <3>2
  <2>. QED  BY <2>1, <2>2, <2>7, <2>8, <2>9, <2>10
<1>21. OwnUnseen'
  <2>1. <<top, x>> \in Earlier
    BY <1>2 DEF OrderInv, OpenSorted
  <2>2. Effects(x) \cap base[top] \subseteq Untracked
    BY <1>7, <2>1 DEF Earlier, Precedes
  <2>3. \A t \in Transaction : Effects(t)' \cap base[t] \subseteq Untracked'
    BY <1>9, <1>10, <2>2 DEF OrderInv, OwnUnseen
  <2>. QED  BY <2>3 DEF OwnUnseen
<1>22. SeenUsed'
  BY DEF OrderInv, SeenUsed
<1>. QED  BY <1>16, <1>17, <1>18, <1>19, <1>20, <1>21, <1>22 DEF OrderInv

\* Steps that move no item.
LEMMA OrderStays ==
  ASSUME OrderInv, TypeOK, TypeOK', UNCHANGED <<stacks, kids, absorbed, base, forgotten, used>>,
         doc' \subseteq used
  PROVE  OrderInv'
<1>1. /\ doStack' = doStack /\ undoStack' = undoStack /\ redoStack' = redoStack
      /\ undoKids' = undoKids /\ redoKids' = redoKids
      /\ \A x \in Item : KidsOf(x)' = KidsOf(x)
  BY DEF stacks, kids, KidsOf
<1>2. /\ \A z \in Item : Sorted(Earlier, undoKids'[z], redoKids'[z])
      /\ Sorted(Earlier, undoStack', redoStack')
  BY <1>1 DEF OrderInv, KidsSorted, StacksSorted
<1>3. /\ UNCHANGED <<doStack, base, absorbed, forgotten>> /\ used \subseteq used' /\ doc' \subseteq used'
      /\ ToSet(undoStack') \cup ToSet(redoStack') = ToSet(undoStack) \cup ToSet(redoStack)
      /\ UNCHANGED <<undoStack, redoStack>>
  BY <1>1
<1>. QED  BY <1>1, <1>2, <1>3, OrderSame

LEMMA EndTransactionOrder ==
  ASSUME SafeInv, HistoryInv, AllWhole, MergesUnharmed, OrderInv, TypeOK',
         doStack # <<>>, NEW result, EndTransaction(result), UNCHANGED <<redoKids, used, doc, base>>
  PROVE  OrderInv'
<1>. PICK x, rest : x = Peek(doStack) /\ rest = Pop(doStack)
  OBVIOUS
<1>1. /\ TypeOK /\ FaultsListed /\ doStack' = rest
      /\ redoKids' = redoKids /\ used' = used /\ doc' = doc /\ base' = base
  BY DEF SafeInv, HistoryInv, Typed, EndTransaction
<1>2. CASE Release(x)
  BY <1>1, <1>2, ReleaseOrder
<1>3. CASE AddChild(x, rest)
  BY <1>1, <1>3, AddChildOrder
<1>4. CASE rest = <<>> /\ Record(x, result)
  <2>1. redoStack' = <<>> /\ UNCHANGED kids /\ Pop(doStack) = <<>> /\ doStack' = <<>>
    BY <1>1, <1>4 DEF Record, kids
  <2>2. \/ PushUndo(x) /\ absorbed' = absorbed
        \/ /\ x \in Transaction /\ undoStack # <<>> /\ Peek(undoStack) \in Transaction
           /\ Absorbs(Peek(undoStack), x) /\ UNCHANGED <<undoStack, forgotten>>
           /\ absorbed' = [absorbed EXCEPT ![Peek(undoStack)] = @ \cup Effects(x)]
    <3>1. "fail" \notin WillNotify("Merge", x)
      BY <1>1, MergeWillOp
    <3>. QED  BY <1>4, <3>1 DEF Record, MayMerge
  <2>3. CASE /\ x \in Transaction /\ undoStack # <<>> /\ Peek(undoStack) \in Transaction
             /\ Absorbs(Peek(undoStack), x) /\ UNCHANGED <<undoStack, forgotten>>
             /\ absorbed' = [absorbed EXCEPT ![Peek(undoStack)] = @ \cup Effects(x)]
    <3>1. PICK top \in Transaction : top = Peek(undoStack)
      BY <2>3
    <3>2. UNCHANGED <<undoStack, kids, forgotten, used, doc, base>>
      BY <1>1, <2>1, <2>3
    <3>. QED  BY <2>1, <2>3, <3>1, <3>2, MergeOrder
  <2>4. CASE PushUndo(x) /\ absorbed' = absorbed
    BY <1>1, <2>1, <2>4, PushUndoOrder
  <2>. QED  BY <2>2, <2>3, <2>4
<1>. QED  BY <1>2, <1>3, <1>4 DEF EndTransaction

LEMMA ExecutingOrder ==
  ASSUME SafeInv, HistoryInv, AllWhole, MergesUnharmed, DosSucceed, DocInv, OrderInv, TypeOK',
         AllDos(calls),
         \/ Client /\ ~UndoTransaction /\ ~RedoTransaction
         \/ DoFails \/ DoSucceeds
  PROVE  OrderInv'
<1>1. /\ TypeOK /\ FaultsListed
      /\ doStack \in Seq(Item) /\ undoStack \in Seq(Item) /\ redoStack \in Seq(Item)
      /\ base \in [Transaction -> SUBSET Transaction]
  BY DEF SafeInv, HistoryInv, Typed, TypeOK
\* Nothing is executed, and the two stacks lose items that are let go.
<1>2. ASSUME UNCHANGED <<doStack, kids, doc, absorbed, base>>, used \subseteq used',
             undoStack' \in Seq(Item), redoStack' \in Seq(Item),
             Part(undoStack', undoStack), Part(redoStack', redoStack),
             \A y \in ToSet(undoStack) : y \in ToSet(undoStack') \/ y \in forgotten',
             \A y \in ToSet(redoStack) : y \in ToSet(redoStack') \/ y \in forgotten',
             forgotten \subseteq forgotten'
      PROVE  OrderInv'
  <2>1. ToSet(undoStack') \subseteq ToSet(undoStack) /\ ToSet(redoStack') \subseteq ToSet(redoStack)
    BY <1>2, PartToSet
  <2>2. Sorted(Earlier, undoStack', redoStack')
    <3>1. Sorted(Earlier, undoStack, redoStack)
      BY DEF OrderInv, StacksSorted
    <3>2. PICK v \in Seq(Item), w \in Seq(Item) : v = undoStack' /\ w = redoStack'
      BY <1>2
    <3>3. Sorted(Earlier, v, w)
      BY <1>1, <1>2, <3>1, <3>2, SortedPart
    <3>. QED  BY <3>2, <3>3
  <2>3. /\ Sorted(Earlier, doStack', <<>>)
        /\ \A x \in ToSet(undoStack'), y \in ToSet(doStack') : <<x, y>> \in Earlier
        /\ ToSet(doStack') \subseteq ToSet(doStack)
        /\ ToSet(undoStack') \subseteq ToSet(undoStack) \cup ToSet(doStack)
    BY <1>2, <2>1 DEF OrderInv, OpenSorted
  <2>4. \A y \in Live : y \in Live' \/ y \in forgotten'
    BY <1>2 DEF Live
  <2>5. UNCHANGED <<kids, base, absorbed, doc>>
    BY <1>2
  <2>. QED  BY <1>1, <1>2, <2>1, <2>2, <2>3, <2>4, <2>5, OrderLets
<1>3. ASSUME NEW t \in Transaction, DoTransaction(t)
      PROVE  OrderInv'
  <2>1. /\ t \in Item /\ t \notin used /\ doStack' = Push(doStack, t) /\ used' = used \cup {t}
        /\ UNCHANGED <<undoStack, redoStack, kids, absorbed, forgotten>>
        /\ base' = [base EXCEPT ![t] = doc] /\ doc' = doc \cup {t}
    BY <1>3 DEF DoTransaction, Item
  <2>2. \A s \in Transaction : base'[s] = IF s = t THEN doc ELSE base[s]
    BY <1>1, <2>1
  <2>3. doc' \subseteq doc \cup {t}
    BY <2>1
  <2>. QED  BY <2>1, <2>2, <2>3, OrderOpens
<1>4. ASSUME NEW t \in Transaction, RefuseTransaction(t)
      PROVE  OrderInv'
  <2>1. /\ undoStack' = undoStack /\ redoStack' = redoStack /\ used \subseteq used'
        /\ UNCHANGED <<doStack, kids, doc, absorbed, base>> /\ forgotten' = forgotten
    BY <1>4 DEF RefuseTransaction, stacks, ghosts
  <2>2. Part(undoStack, undoStack) /\ Part(redoStack, redoStack)
    BY <1>1, PartOp
  <2>. QED  BY <1>1, <1>2, <2>1, <2>2
<1>5. ASSUME NEW b \in Batch, BeginBatch(b)
      PROVE  OrderInv'
  <2>1. /\ b \in Item /\ b \notin Transaction /\ b \notin used
        /\ doStack' = Push(doStack, b) /\ used' = used \cup {b}
        /\ UNCHANGED <<undoStack, redoStack, kids, absorbed, forgotten>> /\ doc' = doc /\ base' = base
    BY <1>5, ItemAssumption DEF BeginBatch, ghosts, Item
  <2>2. \A s \in Transaction : base'[s] = IF s = b THEN doc ELSE base[s]
    BY <2>1
  <2>3. doc' \subseteq doc \cup {b}
    BY <2>1
  <2>. QED  BY <2>1, <2>2, <2>3, OrderOpens
<1>6. CASE EndBatch
  <2>1. doStack # <<>> /\ EndTransaction("ok") /\ UNCHANGED <<redoKids, used, doc, base>>
    BY <1>6 DEF EndBatch, BatchOnTop
  <2>. QED  BY <2>1, EndTransactionOrder
<1>7. CASE Clear
  <2>1. /\ undoStack' = <<>> /\ redoStack' = <<>>
        /\ forgotten' = forgotten \cup ToSet(undoStack) \cup ToSet(redoStack)
        /\ UNCHANGED <<doStack, kids, doc, absorbed, base>> /\ used' = used
    BY <1>7 DEF Clear, ghosts
  <2>2. Part(<<>>, undoStack) /\ Part(<<>>, redoStack) /\ <<>> \in Seq(Item)
    BY <1>1, PartOp
  <2>. QED  BY <1>2, <2>1, <2>2
<1>8. ASSUME NEW m \in MaxCounts, SetMaxTransactionCount(m)
      PROVE  OrderInv'
  <2>1. KeptUndos(m) \in 0..Len(undoStack) /\ KeptRedos(m) \in 0..Len(redoStack)
    BY <1>1, CountAssumption DEF KeptUndos, KeptRedos
  <2>2. /\ Part(undoStack', undoStack) /\ Part(redoStack', redoStack)
        /\ forgotten' = forgotten \cup (ToSet(undoStack) \ ToSet(undoStack'))
                                  \cup (ToSet(redoStack) \ ToSet(redoStack'))
        /\ UNCHANGED <<doStack, kids, doc, absorbed, base>> /\ used' = used
    BY <1>1, <1>8, <2>1, PartOp DEF SetMaxTransactionCount, ghosts
  <2>3. undoStack' \in Seq(Item) /\ redoStack' \in Seq(Item)
    BY DEF TypeOK
  <2>. QED  BY <1>2, <2>2, <2>3
<1>9. ~DoFails
  BY <1>1, DosSucceedOp DEF DoFails
<1>10. CASE DoSucceeds
  <2>1. doStack # <<>> /\ UNCHANGED <<redoKids, used, doc, base>>
    BY <1>10 DEF DoSucceeds, DoCompletes
  <2>2. PICK result \in Result : EndTransaction(result)
    BY <1>10 DEF DoSucceeds
  <2>. QED  BY <2>1, <2>2, EndTransactionOrder
<1>. QED
  BY <1>3, <1>4, <1>5, <1>6, <1>7, <1>8, <1>9, <1>10 DEF Client

\* The last of one list of an owner goes to the other.
LEMMA SortedMoves ==
  ASSUME NEW T, NEW u \in Seq(Item), NEW r \in Seq(Item), Sorted(T, u, r), NEW v, NEW w,
         \/ v = u /\ w = r
         \/ u # <<>> /\ v = Pop(u) /\ w = Push(r, Peek(u))
         \/ r # <<>> /\ v = Push(u, Peek(r)) /\ w = Pop(r)
  PROVE  Sorted(T, v, w)
  BY SortedUndone, SortedRedone

LEMMA TransactionReturnsOrder ==
  ASSUME Working, SafeInv, TypeOK', DocInv, OrderInv, TransactionReturns
  PROVE  OrderInv'
<1>1. /\ TypeOK /\ HeldUsed /\ calls # <<>> /\ Top.item \in Item /\ Top.item \in Transaction
      /\ Busy(calls, Top.item)
      /\ UNCHANGED <<stacks, kids, absorbed, base, forgotten, used>>
  <2>1. /\ TypeOK /\ HeldUsed /\ calls # <<>> /\ Top.phase \in {"self", "rollback"}
        /\ UNCHANGED <<stacks, kids, absorbed, base, forgotten, used>>
    BY DEF Working, Typed, SafeInv, Owned, TransactionReturns, Running, ghosts
  <2>2. /\ Top.op # "do" /\ Top.item \in Item /\ Top.item \in Transaction
        /\ Len(calls) \in DOMAIN calls /\ Top = calls[Len(calls)]
    <3>1. /\ Top.op \in {"undo", "redo"} /\ Top.item \in Item /\ FrameOK(Top)
          /\ Len(calls) \in DOMAIN calls /\ Top = calls[Len(calls)]
      BY <2>1, TopKnown
    <3>2. Top.op # "do"
      BY <3>1
    <3>. QED  BY <2>1, <3>1, <3>2 DEF FrameOK
  <2>. QED  BY <2>1, <2>2 DEF Busy
<1>2. Held(Top.item)
  BY <1>1, BusyHeld
<1>3. Top.item \in used
  BY <1>1, <1>2, UnusedApart DEF Held, IsDone, IsUndone, KidsOf
<1>4. Effects(Top.item) \subseteq used
  BY <1>1, <1>3 DEF DocInv, Disjoint, Effects
<1>5. doc' \subseteq doc \cup Effects(Top.item)
  BY DEF TransactionReturns, Execute
<1>6. doc' \subseteq used
  BY <1>4, <1>5 DEF OrderInv, SeenUsed
<1>. QED  BY <1>1, <1>6, OrderStays

LEMMA ManagerReturnsOrder ==
  ASSUME Working, HistoryInv, TypeOK', OrderInv, ManagerReturns
  PROVE  OrderInv'
<1>1. /\ TypeOK /\ undoStack \in Seq(Item) /\ redoStack \in Seq(Item) /\ calls \in Seq(Frame) /\ calls # <<>>
      /\ doStack' = doStack /\ undoKids' = undoKids /\ redoKids' = redoKids
      /\ UNCHANGED <<doStack, base, absorbed, forgotten>> /\ used' = used /\ doc' = doc
  BY DEF Working, Typed, TypeOK, ManagerReturns, kids, ghosts
<1>2. doStack = <<>>
  <2>1. Len(calls) \in DOMAIN calls /\ calls[Len(calls)].op # "do"
    BY <1>1, EmptySeq DEF Working
  <2>. QED  BY <2>1 DEF HistoryInv, QuietStack
<1>3. \/ undoStack' = undoStack /\ redoStack' = redoStack
      \/ undoStack # <<>> /\ undoStack' = Pop(undoStack) /\ redoStack' = Push(redoStack, Peek(undoStack))
      \/ redoStack # <<>> /\ undoStack' = Push(undoStack, Peek(redoStack)) /\ redoStack' = Pop(redoStack)
  <2>. DEFINE src == IF Top.op = "undo" THEN undoStack ELSE redoStack
              result == IF Top.res = "ok" /\ src # <<>> THEN "ok" ELSE "fail"
  <2>1. /\ undoStack' = IF result = "fail" THEN undoStack
                        ELSE IF Top.op = "undo" THEN Pop(undoStack) ELSE Push(undoStack, Peek(src))
        /\ redoStack' = IF result = "fail" THEN redoStack
                        ELSE IF Top.op = "undo" THEN Push(redoStack, Peek(src)) ELSE Pop(redoStack)
    BY DEF ManagerReturns
  <2>2. result = "fail" \/ src # <<>>
    OBVIOUS
  <2>. QED  BY <2>1, <2>2
<1>4. ToSet(undoStack') \cup ToSet(redoStack') = ToSet(undoStack) \cup ToSet(redoStack)
  BY <1>1, <1>3, MovedSets
<1>5. Sorted(Earlier, undoStack', redoStack')
  BY <1>1, <1>3, SortedMoves DEF OrderInv, StacksSorted
<1>6. /\ \A z \in Item : Sorted(Earlier, undoKids'[z], redoKids'[z])
      /\ \A z \in Item : KidsOf(z)' = KidsOf(z)
      /\ used \subseteq used' /\ doc' \subseteq used'
  BY <1>1 DEF OrderInv, KidsSorted, KidsOf, SeenUsed
<1>. QED  BY <1>1, <1>2, <1>4, <1>5, <1>6, OrderSame

LEMMA ChildReturnsOrder ==
  ASSUME Working, SafeInv', OrderInv, ChildReturns
  PROVE  OrderInv'
<1>1. /\ TypeOK /\ TypeOK' /\ undoKids \in [Item -> Seq(Item)] /\ redoKids \in [Item -> Seq(Item)]
      /\ undoStack' = undoStack /\ redoStack' = redoStack
      /\ UNCHANGED <<doStack, base, absorbed, forgotten>> /\ used' = used /\ doc' = doc
  BY DEF Working, SafeInv, Typed, TypeOK, ChildReturns, stacks, ghosts
<1>2. PICK s, c, t : s = Front(calls) /\ c = Caller /\ t = Top /\ ReturnsTo(s, c, t) /\ LoopMoves(s, c, t)
  BY ChildMoves
<1>3. \A z \in Item : KidsOf(z)' = KidsOf(z)
  BY <1>2 DEF LoopMoves
<1>4. ASSUME NEW z \in Item
      PROVE  Sorted(Earlier, undoKids'[z], redoKids'[z])
  <2>1. \/ undoKids'[z] = undoKids[z] /\ redoKids'[z] = redoKids[z]
        \/ /\ undoKids[z] # <<>> /\ undoKids'[z] = Pop(undoKids[z])
           /\ redoKids'[z] = Push(redoKids[z], Peek(undoKids[z]))
        \/ /\ redoKids[z] # <<>> /\ undoKids'[z] = Push(undoKids[z], Peek(redoKids[z]))
           /\ redoKids'[z] = Pop(redoKids[z])
    <3>. DEFINE src == Source(Caller)
                result == IF Top.res = "ok" /\ src # <<>> THEN "ok" ELSE "fail"
    <3>1. /\ undoKids' = [undoKids EXCEPT ![Caller.item] =
               IF result = "fail" THEN @ ELSE IF UndoesKids(Caller) THEN Pop(@) ELSE Push(@, Peek(src))]
          /\ redoKids' = [redoKids EXCEPT ![Caller.item] =
               IF result = "fail" THEN @ ELSE IF UndoesKids(Caller) THEN Push(@, Peek(src)) ELSE Pop(@)]
      BY DEF ChildReturns
    <3>2. result = "fail" \/ src # <<>>
      OBVIOUS
    <3>3. src = IF UndoesKids(Caller) THEN undoKids[Caller.item] ELSE redoKids[Caller.item]
      BY DEF Source
    <3>. HIDE DEF src, result
    <3>4. CASE z = Caller.item
      BY <1>1, <3>1, <3>2, <3>3, <3>4
    <3>5. CASE z # Caller.item
      BY <1>1, <3>1, <3>5
    <3>. QED  BY <3>4, <3>5
  <2>2. undoKids[z] \in Seq(Item) /\ redoKids[z] \in Seq(Item) /\ Sorted(Earlier, undoKids[z], redoKids[z])
    BY <1>1 DEF OrderInv, KidsSorted
  <2>. QED  BY <2>1, <2>2, SortedMoves
<1>5. /\ Sorted(Earlier, undoStack', redoStack') /\ UNCHANGED <<undoStack, redoStack>>
      /\ ToSet(undoStack') \cup ToSet(redoStack') = ToSet(undoStack) \cup ToSet(redoStack)
      /\ used \subseteq used' /\ doc' \subseteq used'
  BY <1>1 DEF OrderInv, StacksSorted, SeenUsed
<1>. QED  BY <1>1, <1>3, <1>4, <1>5, OrderSame

LEMMA OrderStep ==
  ASSUME OnlyDoReenters, MergesUnharmed, DosSucceed,
         SafeInv, SafeInv', HistoryInv, LoopInv, Steady, TreeInv, DocInv, OrderInv, [Next]_vars
  PROVE  OrderInv'
<1>1. /\ Typed /\ TypeOK /\ TypeOK' /\ DosInv /\ DoOrder(calls) /\ QuietStack /\ ItemOwnedOnce
      /\ calls \in Seq(Frame) /\ RestWhole(calls)
  BY DEF SafeInv, HistoryInv, Typed, TypeOK, DosInv, Owned, TreeInv
<1>2. ASSUME AllDos(calls),
             \/ Client /\ ~UndoTransaction /\ ~RedoTransaction
             \/ DoFails \/ DoSucceeds
      PROVE  OrderInv'
  <2>1. AllWhole
    BY <1>1, <1>2 DEF AllWhole, RestWhole, Busy, AllDos
  <2>. QED  BY <1>1, <1>2, <2>1, ExecutingOrder
<1>3. ASSUME UNCHANGED <<stacks, kids, absorbed, base, forgotten, used, doc>>
      PROVE  OrderInv'
  <2>1. doc' \subseteq used
    BY <1>3 DEF OrderInv, SeenUsed
  <2>. QED  BY <1>1, <1>3, <2>1, OrderStays
<1>4. CASE Client
  <2>1. ClientRuns
    BY <1>4 DEF Client, DoTransaction, RefuseTransaction, BeginBatch, EndBatch,
                UndoTransaction, RedoTransaction, Clear, SetMaxTransactionCount
  <2>2. AllDos(calls)
    BY <1>1, <2>1, ClientQuiet DEF AllDos
  <2>3. CASE UndoTransaction \/ RedoTransaction
    BY <1>3, <2>3 DEF UndoTransaction, RedoTransaction, ghosts
  <2>. QED  BY <1>2, <1>4, <2>2, <2>3
<1>5. ASSUME calls # <<>>
      PROVE  Top \in Frame /\ Len(calls) \in DOMAIN calls /\ Top = calls[Len(calls)]
  <2>1. Top \in Frame
    BY <1>1, <1>5, FrontOp DEF Top
  <2>2. Len(calls) \in DOMAIN calls
    BY <1>1, <1>5, EmptySeq
  <2>. QED  BY <2>1, <2>2 DEF Top, Last
<1>6. ASSUME calls # <<>>, Top.op # "do"
      PROVE  Working
  <2>1. \A i \in DOMAIN calls : calls[i].op # "do"
    BY <1>1, <1>5, <1>6, OneKind
  <2>. QED  BY <1>1, <2>1 DEF Working
<1>7. CASE DoFails \/ DoSucceeds
  <2>1. calls # <<>> /\ Top.op = "do"
    BY <1>7 DEF DoFails, DoSucceeds, DoCompletes
  <2>2. AllDos(calls)
    BY <1>1, <1>5, <2>1, OneKind DEF AllDos
  <2>. QED  BY <1>2, <1>7, <2>2
<1>8. CASE NextChild \/ ChildrenDone \/ RecoveryDone \/ UNCHANGED vars
  <2>1. UNCHANGED <<stacks, kids, absorbed, base, forgotten, used, doc>>
    BY <1>8 DEF NextChild, ChildrenDone, RecoveryDone, vars, ghosts
  <2>. QED  BY <1>3, <2>1
<1>9. calls # <<>> /\ Top.phase # "self" => Top.op # "do"
  BY <1>1, <1>5 DEF DoOrder
<1>10. TransactionReturns \/ ChildReturns \/ ManagerReturns => Working
  <2>1. TransactionReturns \/ ChildReturns \/ ManagerReturns => calls # <<>> /\ Top.op # "do"
    BY <1>9 DEF TransactionReturns, Running, ChildReturns, ManagerReturns
  <2>. QED  BY <1>6, <2>1
<1>. QED
  BY <1>1, <1>4, <1>7, <1>8, <1>10, TransactionReturnsOrder, ChildReturnsOrder, ManagerReturnsOrder
  DEF Next, Manager

-----------------------------------------------------------------------------
(* The document when a transaction's own method is run.                    *)

LEMMA OrderInit ==
  ASSUME Init, TypeOK
  PROVE  OrderInv
<1>1. /\ doStack = <<>> /\ undoStack = <<>> /\ redoStack = <<>> /\ doc = {} /\ used = {}
      /\ \A x \in Item : undoKids[x] = <<>> /\ redoKids[x] = <<>>
      /\ \A t \in Transaction : base[t] = {}
  BY DEF Init
<1>2. \A T : Sorted(T, <<>>, <<>>)
  BY EmptyToSet DEF Sorted
<1>3. /\ ToSet(doStack) = {} /\ ToSet(undoStack) = {} /\ ToSet(redoStack) = {}
      /\ \A x \in Item : KidsOf(x) = {}
  BY <1>1, EmptyToSet DEF KidsOf
<1>4. KidsSorted /\ StacksSorted /\ OpenSorted
  BY <1>1, <1>2, <1>3 DEF KidsSorted, StacksSorted, OpenSorted
<1>5. ParentFirst
  BY <1>3 DEF ParentFirst, Item
<1>6. UndoneUnseen
  BY <1>3 DEF UndoneUnseen
<1>7. Covered /\ OwnUnseen /\ SeenUsed
  BY <1>1 DEF Covered, OwnUnseen, SeenUsed
<1>. QED  BY <1>4, <1>5, <1>6, <1>7 DEF OrderInv

\* Every list is in the order of execution at every moment.
LEMMA OrderInvariant ==
  ASSUME OnlyDoReenters, SteadyFaults, MergesUnharmed, DosSucceed
  PROVE  Spec => [](SafeInv /\ HistoryInv /\ LoopInv /\ Steady /\ TreeInv /\ DocInv /\ OrderInv)
<1>1. Init /\ SafeInv => OrderInv
  BY OrderInit DEF SafeInv, Typed
<1>2. SafeInv /\ SafeInv' /\ HistoryInv /\ LoopInv /\ Steady /\ TreeInv /\ DocInv /\ OrderInv
        /\ [Next]_vars => OrderInv'
  BY OrderStep
<1>. QED  BY <1>1, <1>2, DocInvariant, PTL DEF Spec

\* What is in force under the stacks, but for the transaction that is run, is what
\* that transaction found when it was executed.
LEMMA FoundAgain ==
  ASSUME Working, SafeInv, HistoryInv, DocInv, OrderInv, calls # <<>>,
         Top.phase \in {"self", "rollback"}, NEW t \in Transaction, t = Top.item
  PROVE  InEffect(Present \ {t}) \ Untracked = base[t] \ Untracked
<1>1. /\ Typed /\ TypeOK /\ ItemOwnedOnce /\ NeverBoth /\ OwnersApart /\ calls \in Seq(Frame)
      /\ forgotten \in SUBSET Item
  BY NotBoth, OwnersApartOp DEF Working, Typed, TypeOK
<1>2. doStack = <<>>
  <2>1. Len(calls) \in DOMAIN calls /\ calls[Len(calls)].op # "do"
    BY <1>1, EmptySeq DEF Working
  <2>. QED  BY <2>1 DEF HistoryInv, QuietStack
<1>3. PICK f, L : f = AllKids /\ L = Live
  OBVIOUS
<1>4. /\ L \in SUBSET Item /\ Roots = L \cup forgotten
      /\ \A x \in Item : ToSet(f[x]) \subseteq Item
  BY <1>1, <1>3, ToSetOp, AllKidsOp DEF Live, Roots, TypeOK, KidsOf
<1>5. /\ t \in Reach(f, L)
      /\ \A s \in Reach(f, L) \cap Transaction : Placed(s, t)
  BY <1>1, <1>2, <1>3, LivePlaced
<1>6. ASSUME NEW w \in InEffect(Present \ {t}), w \notin Untracked
      PROVE  w \in base[t]
  <2>1. PICK s \in Transaction : InForce(s) /\ s # t /\ w \in Effects(s)
    BY <1>6 DEF InEffect, Present
  <2>2. s \in Item /\ (IsDone(s) \/ Busy(calls, s))
    BY <2>1 DEF InForce, Item
  <2>3. s \in Reach(f, L \cup forgotten)
    BY <1>3, <1>4, <2>2 DEF DocInv, Anchored
  <2>4. s \in Reach(f, L) \/ s \in Reach(f, forgotten)
    BY <1>1, <1>4, <2>3, ReachUnion
  <2>5. s \notin Reach(f, forgotten)
    BY <1>3, <1>6, <2>1 DEF Untracked, InEffect
  <2>6. Precedes(s, t)
    BY <1>5, <2>1, <2>4, <2>5 DEF Placed
  <2>. QED  BY <1>6, <2>1, <2>6 DEF Precedes
<1>7. ASSUME NEW w \in base[t], w \notin Untracked
      PROVE  w \in InEffect(Present \ {t})
  <2>1. w \in InEffect(Reach(f, L))
    BY <1>3, <1>5, <1>7 DEF OrderInv, Covered
  <2>2. PICK s \in Transaction : s \in Reach(f, L) /\ w \in Effects(s)
    BY <2>1 DEF InEffect
  <2>3. s # t
    BY <1>7, <2>2 DEF OrderInv, OwnUnseen
  <2>4. ~Precedes(t, s)
    BY <1>7, <2>2 DEF Precedes
  <2>5. InForce(s)
    BY <1>5, <2>2, <2>3, <2>4 DEF Placed
  <2>. QED  BY <2>2, <2>3, <2>5 DEF InEffect, Present
<1>. QED  BY <1>6, <1>7

\* While a transaction's own undoTransaction() or redoTransaction() is run nothing
\* but its return is possible.
LEMMA OnlyReturns ==
  ASSUME OnlyDoReenters, SafeInv, HistoryInv, LoopInv, Steady, TreeInv, [Next]_vars,
         Running, Top.op # "do" \/ Top.phase = "rollback"
  PROVE  Working /\ (TransactionReturns \/ doc' = doc)
<1>1. /\ Typed /\ TypeOK /\ DosInv /\ DoOrder(calls) /\ QuietStack /\ ItemOwnedOnce
      /\ calls \in Seq(Frame) /\ calls # <<>> /\ Top.phase \in {"self", "rollback"}
  BY DEF SafeInv, HistoryInv, Typed, TypeOK, DosInv, Owned, Running
<1>2. Top \in Frame /\ Len(calls) \in DOMAIN calls /\ Top = calls[Len(calls)]
  <2>1. Top \in Frame
    BY <1>1, FrontOp DEF Top
  <2>2. Len(calls) \in DOMAIN calls
    BY <1>1, EmptySeq
  <2>. QED  BY <2>1, <2>2 DEF Top, Last
<1>3. Top.op # "do"
  BY <1>1, <1>2 DEF DoOrder
<1>4. \A i \in DOMAIN calls : calls[i].op # "do"
  BY <1>1, <1>2, <1>3, OneKind
<1>5. Working
  BY <1>1, <1>4 DEF Working
<1>6. ~Client
  <2>. SUFFICES ASSUME Client
                PROVE  FALSE
    OBVIOUS
  <2>1. ClientRuns
    BY DEF Client, DoTransaction, RefuseTransaction, BeginBatch, EndBatch,
           UndoTransaction, RedoTransaction, Clear, SetMaxTransactionCount
  <2>2. \A i \in DOMAIN calls : calls[i].op = "do"
    BY <1>1, <2>1, ClientQuiet
  <2>. QED  BY <1>2, <1>3, <2>2
<1>7. Manager => TransactionReturns \/ doc' = doc
  <2>1. ~DoFails /\ ~DoSucceeds
    BY <1>3 DEF DoFails, DoSucceeds, DoCompletes
  <2>2. NextChild \/ ChildrenDone \/ RecoveryDone \/ ChildReturns \/ ManagerReturns => doc' = doc
    BY DEF NextChild, ChildrenDone, RecoveryDone, ChildReturns, ManagerReturns
  <2>. QED  BY <2>1, <2>2 DEF Manager
<1>8. UNCHANGED vars => doc' = doc
  BY DEF vars
<1>. QED  BY <1>5, <1>6, <1>7, <1>8 DEF Next

\* Of the transaction that is run: it is in force if it is undone, not if redone.
LEMMA RunForce ==
  ASSUME Working, Running
  PROVE  /\ InForce(Top.item) <=> RunningOp = "undo"
         /\ RunningOp \in {"undo", "redo"}
<1>1. /\ calls \in Seq(Frame) /\ Apart(calls) /\ \A i \in DOMAIN calls : calls[i].op # "do"
      /\ calls # <<>> /\ Top.phase \in {"self", "rollback"}
  BY DEF Working, Typed, TypeOK, LoopInv, Chain, Running
<1>2. Top \in Frame /\ Top.op \in {"undo", "redo"} /\ Known(Top)
  BY <1>1, TopKnown
<1>3. PICK k, q, t : k \in Seq(Frame) /\ k = calls /\ q = Front(calls) /\ t = Top
  BY <1>1
<1>4. /\ ~Busy(q, t.item)
      /\ \A y : /\ Busy(k, y) <=> Busy(q, y) \/ y = t.item
                /\ InFrames(k, y) <=> InFrames(q, y) \/ (y = t.item /\ OwnIn(t))
  BY <1>1, <1>3, FramesLast DEF Top
<1>5. ~InFrames(q, t.item)
  BY <1>4, InFramesBusy
<1>6. InForce(t.item) <=> OwnIn(t)
  BY <1>3, <1>4, <1>5 DEF InForce
<1>7. t.phase = "rollback" => t.op = "redo"
  BY <1>2, <1>3 DEF Known, RollbackKnown
<1>8. OwnIn(t) <=> t.op = "undo" \/ t.phase = "rollback"
  BY <1>1, <1>2, <1>3, <1>7 DEF OwnIn
<1>9. (RunningOp = "undo" <=> t.op = "undo" \/ t.phase = "rollback") /\ RunningOp \in {"undo", "redo"}
  BY <1>2, <1>3 DEF RunningOp
<1>. QED  BY <1>3, <1>6, <1>8, <1>9

LEMMA UndoStep ==
  ASSUME OnlyDoReenters, SafeInv, HistoryInv, LoopInv, Steady, TreeInv, DocInv, OrderInv, [Next]_vars,
         NEW t \in Transaction, Running, Top.item = t, RunningOp = "undo", t \notin doc'
  PROVE  doc' \ Untracked = base[t] \ Untracked
<1>1. calls # <<>> /\ Top.phase \in {"self", "rollback"} /\ (Top.op # "do" \/ Top.phase = "rollback")
  BY DEF Running, RunningOp
<1>2. Working /\ (TransactionReturns \/ doc' = doc)
  BY <1>1, OnlyReturns
<1>3. InForce(t)
  BY <1>2, RunForce
<1>4. doc \ Untracked = InEffect(Present) \ Untracked /\ InEffect(Present) \subseteq doc
  BY DEF DocInv, DocIs
<1>5. t \in doc
  BY <1>3, <1>4 DEF InEffect, Present, Effects
<1>6. doc' = doc \ Effects(t)
  BY <1>2, <1>5 DEF TransactionReturns, Execute
<1>7. Held(t)
  BY <1>2, <1>3, ForceHeld
<1>8. \A s \in Transaction : InForce(s) /\ s # t => Effects(s) \cap Effects(t) = {}
  BY <1>2, <1>7, ForceHeld DEF DocInv, Disjoint
<1>9. InEffect(Present) \ Effects(t) = InEffect(Present \ {t})
  BY <1>8 DEF InEffect, Present
<1>10. InEffect(Present \ {t}) \ Untracked = base[t] \ Untracked
  BY <1>1, <1>2, FoundAgain
<1>. QED  BY <1>4, <1>6, <1>9, <1>10

LEMMA RedoStep ==
  ASSUME OnlyDoReenters, SafeInv, HistoryInv, LoopInv, Steady, TreeInv, DocInv, OrderInv, [Next]_vars,
         NEW t \in Transaction, Running, Top.item = t, Top.op = "redo", t \in doc' \ doc
  PROVE  doc \ Untracked = base[t] \ Untracked
<1>1. calls # <<>> /\ Top.phase \in {"self", "rollback"} /\ Top.op # "do"
  BY DEF Running
<1>2. Working /\ TransactionReturns
  BY <1>1, OnlyReturns
<1>3. RunningOp # "undo"
  <2>. SUFFICES ASSUME RunningOp = "undo"
                PROVE  FALSE
    OBVIOUS
  <2>1. doc' \subseteq doc
    BY <1>2 DEF TransactionReturns, Execute
  <2>. QED  BY <2>1
<1>4. ~InForce(t)
  BY <1>2, <1>3, RunForce
<1>5. Present \ {t} = Present
  BY <1>4 DEF Present
<1>6. InEffect(Present \ {t}) \ Untracked = base[t] \ Untracked
  BY <1>1, <1>2, FoundAgain
<1>. QED  BY <1>5, <1>6 DEF DocInv, DocIs

\* nsITransaction::undoTransaction() "restores the state to what it was before the
\* transaction was executed": when the manager runs it, in an undo or to take back
\* a redo that failed, everything executed later has been undone, everything
\* executed earlier is still there, and what it leaves is what doTransaction()
\* found, but for what was merged into or let go of the stacks.
THEOREM UndoRestoresDocument ==
  ASSUME OnlyDoReenters, SteadyFaults, MergesUnharmed, DosSucceed
  PROVE  Spec => UndoRestoresState
<1>1. SafeInv /\ HistoryInv /\ LoopInv /\ Steady /\ TreeInv /\ DocInv /\ OrderInv /\ [Next]_vars
        => [\A t \in Transaction :
              (Running /\ Top.item = t /\ RunningOp = "undo" /\ t \notin doc')
                => doc' \ Untracked = base[t] \ Untracked]_vars
  BY UndoStep
<1>. QED  BY <1>1, OrderInvariant, PTL DEF Spec, UndoRestoresState

\* nsTransactionItem::RedoTransaction() calls redoTransaction() only in the state
\* its doTransaction() saw: the document then has what it had when the transaction
\* was executed, whatever has been undone, redone, recovered or merged in between.
THEOREM RedoFindsSameState ==
  ASSUME OnlyDoReenters, SteadyFaults, MergesUnharmed, DosSucceed
  PROVE  Spec => RedoFromSameState
<1>1. SafeInv /\ HistoryInv /\ LoopInv /\ Steady /\ TreeInv /\ DocInv /\ OrderInv /\ [Next]_vars
        => [\A t \in Transaction :
              (Running /\ Top.item = t /\ Top.op = "redo" /\ t \in doc' \ doc)
                => doc \ Untracked = base[t] \ Untracked]_vars
  BY RedoStep
<1>. QED  BY <1>1, OrderInvariant, PTL DEF Spec, RedoFromSameState

=============================================================================
