---------------------------- MODULE DocumentTree ----------------------------
(***************************************************************************)
(* The document as the editor sees it through the DOM: an element holds a  *)
(* sequence of nodes, a text node a sequence of characters. A node that    *)
(* was taken out keeps what is below it. A point is a node and an offset   *)
(* in it. Each character is its own value, so that a character can be      *)
(* followed through any number of edits.                                   *)
(***************************************************************************)
EXTENDS Integers, SequencesExt

CONSTANTS Element,   \* the elements there may ever be
          Text,      \* the text nodes there may ever be
          Char,      \* the characters there may ever be
          Root,      \* the element that holds the editable content
          NoNode     \* null

ASSUME DocumentAssumption ==
  /\ Root \in Element
  /\ Element \cap Text = {} /\ (Element \cup Text) \cap Char = {}
  /\ NoNode \notin Element \cup Text \cup Char

Node == Element \cup Text

Point(n, i) == [node |-> n, offset |-> i]

Parent(d, n) ==
  IF \E p \in Element : Contains(d[p], n) THEN CHOOSE p \in Element : Contains(d[p], n) ELSE NoNode

\* Where a node is: the point in front of it.
Location(d, n) ==
  LET p == Parent(d, n) IN Point(p, SelectInSeq(d[p], LAMBDA x : x = n) - 1)

IsDescendantOf(d, n, a) ==
  LET Below[m \in Node] == LET p == Parent(d, m) IN p # NoNode /\ (p = a \/ Below[p])
  IN  Below[n]

NextSibling(d, n) ==
  LET l == Location(d, n)
  IN  IF l.offset + 1 = Len(d[l.node]) THEN NoNode ELSE d[l.node][l.offset + 2]

Put(d, p, i, n) == [d EXCEPT ![p] = InsertAt(@, i + 1, n)]

\* insertBefore() refuses a reference that is not a child.
InsertBefore(d, p, n, ref) ==
  IF ref = NoNode THEN Put(d, p, Len(d[p]), n)
  ELSE IF Parent(d, ref) = p THEN Put(d, p, Location(d, ref).offset, n)
  ELSE d

RemoveChild(d, p, n) == [d EXCEPT ![p] = Remove(@, n)]

InsertData(d, t, i, s) == [d EXCEPT ![t] = SubSeq(@, 1, i) \o s \o SubSeq(@, i + 1, Len(@))]

DeleteData(d, t, i, c) == [d EXCEPT ![t] = SubSeq(@, 1, i) \o SubSeq(@, i + c + 1, Len(@))]

-----------------------------------------------------------------------------
(* The document as it would be written: tags and characters in order.      *)

Tag(n, side) == <<n, side>>
Letter(c) == <<c, "char">>

Written(d) ==
  LET Of[n \in Node] ==
        <<Tag(n, "open")>>
        \o FlattenSeq([i \in 1..Len(d[n]) |->
             IF d[n][i] \in Node THEN Of[d[n][i]] ELSE <<Letter(d[n][i])>>])
        \o <<Tag(n, "close")>>
  IN  Of[Root]

Attached(d) == LET present == ToSet(Written(d)) IN {n \in Node : Tag(n, "open") \in present}

\* How much of the document, written as w, comes before a point of it, and what.
Position(d, w, x) ==
  LET last == IF x.offset = 0 THEN Tag(x.node, "open")
              ELSE LET c == d[x.node][x.offset] IN IF c \in Node THEN Tag(c, "close") ELSE Letter(c)
  IN  SelectInSeq(w, LAMBDA t : t = last)
Before(d, w, x) == ToSet(SubSeq(w, 1, Position(d, w, x)))

\* What is wholly between two points: characters, and nodes with both their tags.
Between(d, w, x, y) ==
  LET part == ToSet(SubSeq(w, Position(d, w, x) + 1, Position(d, w, y)))
  IN  {t \in part : t[2] = "char" \/ {Tag(t[1], "open"), Tag(t[1], "close")} \subseteq part}

\* The subtree iterator of a range: the nodes wholly in it that are in no other such node.
NodesBetween(d, x, y) ==
  LET w    == Written(d)
      part == Between(d, w, x, y)
      tops == SelectSeq(w, LAMBDA t : t \in part /\ t[2] = "open" /\ Tag(Parent(d, t[1]), "open") \notin part)
  IN  [i \in DOMAIN tops |-> tops[i][1]]

Points(d) == UNION {{Point(n, i) : i \in 0..Len(d[n])} : n \in Attached(d)}

InTree(d, x) == x.node \in Attached(d) /\ x.offset \in 0..Len(d[x.node])

Letters(d) == SelectSeq(Written(d), LAMBDA t : t[2] = "char")

\* The tokens of a node and of what is below it, in a document written as w.
Inside(w, n) ==
  LET at(side) == SelectInSeq(w, LAMBDA t : t = Tag(n, side))
  IN  ToSet(SubSeq(w, at("open"), at("close")))
=============================================================================
