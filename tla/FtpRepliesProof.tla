-------------------------- MODULE FtpRepliesProof --------------------------
(***************************************************************************)
(* Theorems about FtpUploads: the client's queue and the server's replies. *)
(* A reply is read by the command it is for, nothing is left of an upload  *)
(* that is over, and what writeControl() believes of the session is true.  *)
(***************************************************************************)
EXTENDS FtpUploads, DataInduction

Unasked   == {"welcome", "goodbye", "aborted", "QUIT"} \cup Sending2
LoginCmds == {"welcome", "USER", "PASS"}
Special   == Sending2 \cup {"goodbye", "welcome"}

\* The entries there may be for the files F.
Valid(F) ==
  {e \in Queued : /\ {e.arg, e.then} \cap File \subseteq F
                  /\ e.cmd \in Transfers => e.arg \in F
                  /\ e.cmd = "CWD" => e.arg \in Dir /\ e.then \in {None} \cup F
                  /\ e.cmd = "MKD" => e.arg \in Dir
                  /\ e.cmd = "TYPE" => e.arg \in {"A", "I"}
                  /\ e.cmd # "QUIT"}
Keepable(F) == {e \in Valid(F) : e.cmd \in {"CWD", "MKD", "TYPE", "PASV", "XSHA1"}}
Holding(F)  == {o \in Client : o.queue \in Seq(Valid(F)) /\ o.trash \in Seq(Keepable(F))}

\* A transfer that was interrupted, or the "goodbye" in front of it, comes after what
\* logs in again, which puts the one back and drops the other; a "welcome" comes
\* first.  A client that began with one of these would send it.
Stuck(q) == \/ HeadIs(q, Sending2 \cup {"welcome"})
            \/ HeadIs(q, {"goodbye"}) /\ HeadIs(Tail(q), Sending2)
Held(q, i) == \/ q[i].cmd \in Sending2
              \/ q[i].cmd = "goodbye" /\ i < Len(q) /\ q[i + 1].cmd \in Sending2
May(a, b, held) == /\ b.cmd # "welcome"
                   /\ held => \/ a.cmd \in LoginCmds
                              \/ a.cmd = "goodbye" /\ b.cmd # "goodbye"
Placed(q) == \A i \in 1..Len(q) : i # 1 => May(q[i - 1], q[i], Held(q, i))

\* A client that has not logged in has nothing to recover.
Fresh(q) == \A i \in 1..Len(q) : i # 1 => q[i].cmd \notin Sending2 \cup {"goodbye", "USER", "PASS"}

\* No reply is due, or one is, to the entry at the head.
Free(o) == o.wire = <<>> /\ ~Stuck(o.queue)
Waiting(o, sv) ==
  /\ Len(o.wire) = 1 /\ ~o.isReady /\ o.isConnected /\ o.queue # <<>>
  /\ LET e == Head(o.queue)  w == Head(o.wire)
     IN  /\ w \in Valid(File) /\ w.cmd \notin Unasked
         /\ \/ e = w
            \/ w.cmd \in Sending /\ e = Accepted(w) /\ sv.started
            \/ e.cmd = "aborted" /\ o.currentWorkingDir = "" /\ o.transferMode = ""

\* What the client believes of the session is true.
Believes(o, sv) ==
  /\ o.transferMode \in {"", sv.type}
  /\ sv.login = "in" => o.currentWorkingDir \in {"", sv.dir}
  /\ o.legitClose /\ HeadIs(o.queue, {"USER", "PASS"}) => o.currentWorkingDir = ""

Arranged(o) == Placed(o.queue) /\ (o.legitClose => Fresh(o.queue))
Linked(o, sv) ==
  /\ o.isConnected => o.link \in {"up", "closing"} /\ ~o.isReconnecting
  /\ o.link \in {None, "opening"} =>
       o.transferMode = "" /\ (o.legitClose => o.currentWorkingDir = "")
  /\ o.link = None /\ o.legitClose => o.queue = <<>>
  /\ o.link = "opening" =>
       (HeadIs(o.queue, {"welcome"}) \/ o.queue = <<>>) /\ sv.login # "in"
  /\ o.link = "up" => (Free(o) \/ Waiting(o, sv)) /\ Believes(o, sv)

\* The timer of a command is none of a transfer that has been accepted, and where a
\* connection is closed in the middle of one no timer resets it twice.
Armed(o) ==
  /\ o.link \in {"up", "closing"} /\ HeadIs(o.queue, Sending2) => o.timeout = None
  /\ o.link = "closing" /\ Stuck(o.queue) =>
       ~o.isReady /\ (HeadIs(o.queue, {"goodbye"}) => ~o.transfer)
  /\ o.link = "closing" => ~HeadIs(o.queue, {"welcome"})
Sound(o, sv) == Arranged(o) /\ Linked(o, sv) /\ Armed(o)

\* The files that the queue may be for.
Current(F) == F \in SUBSET waited /\ (ui => F = {})

FtpInv == /\ \E F : Current(F) /\ ftp \in Holding(F)
          /\ TypeOK
          /\ Orderly => Sound(ftp, srv)

-----------------------------------------------------------------------------
(* The order of the queue's entries.                                       *)

LEMMA HeadOf ==
  ASSUME NEW q \in Seq(Queued), NEW C
  PROVE  HeadIs(q, C) <=> Len(q) # 0 /\ q[1].cmd \in C
BY EmptySeq DEF HeadIs

LEMMA StuckHeld ==
  ASSUME NEW q \in Seq(Queued)
  PROVE  /\ Stuck(q) <=> Len(q) # 0 /\ (q[1].cmd = "welcome" \/ Held(q, 1))
         /\ Stuck(q) => HeadIs(q, Special)
<1>1. CASE q = <<>>
  BY <1>1, EmptySeq DEF Stuck, HeadIs
<1>2. CASE q # <<>>
  <2>. DEFINE t == Tail(q)
  <2>1. /\ Len(q) \in Nat \ {0} /\ t \in Seq(Queued) /\ Len(t) = Len(q) - 1
        /\ Head(q) = q[1] /\ (Len(t) # 0 => t[1] = q[2])
    <3>1. /\ Len(q) \in Nat \ {0} /\ t \in Seq(Queued) /\ Len(t) = Len(q) - 1
          /\ \A i \in 1..Len(t) : t[i] = q[i + 1]
      BY <1>2, EmptySeq, HeadTailProperties
    <3>2. Len(t) # 0 => 1 \in 1..Len(t) /\ 1 + 1 = 2
      BY <3>1
    <3>. HIDE DEF t
    <3>. QED  BY <3>1, <3>2
  <2>. HIDE DEF t
  <2>2. \A C : HeadIs(q, C) <=> q[1].cmd \in C
    BY <1>2, <2>1 DEF HeadIs
  <2>3. \A C : HeadIs(t, C) <=> Len(q) > 1 /\ q[2].cmd \in C
    BY <2>1, HeadOf
  <2>4. Stuck(q) <=> \/ q[1].cmd \in Sending2 \cup {"welcome"}
                     \/ q[1].cmd = "goodbye" /\ Len(q) > 1 /\ q[2].cmd \in Sending2
    BY <2>2, <2>3, Zenon DEF Stuck, t
  <2>5. Held(q, 1) <=> \/ q[1].cmd \in Sending2
                       \/ q[1].cmd = "goodbye" /\ 1 < Len(q) /\ q[2].cmd \in Sending2
    BY DEF Held
  <2>. QED  BY <2>1, <2>2, <2>4, <2>5 DEF Special
<1>. QED  BY <1>1, <1>2

LEMMA PlacedTail ==
  ASSUME NEW q \in Seq(Queued), q # <<>>
  PROVE  /\ Placed(q) => Placed(Tail(q)) /\ ~HeadIs(Tail(q), {"welcome"})
         /\ Placed(q) /\ Head(q).cmd \notin LoginCmds \cup {"goodbye"} => ~Stuck(Tail(q))
         /\ Placed(q) /\ Head(q).cmd \notin LoginCmds /\ Stuck(Tail(q)) => HeadIs(Tail(q), Sending2)
         /\ Fresh(q) => /\ Fresh(Tail(q))
                        /\ ~HeadIs(Tail(q), Sending2 \cup {"goodbye", "USER", "PASS"})
<1>. DEFINE t == Tail(q)  n == Len(q)
<1>1. /\ n \in Nat \ {0} /\ t \in Seq(Queued) /\ Len(t) = n - 1
      /\ \A i \in 1..(n - 1) : t[i] = q[i + 1]
      /\ Head(q) = q[1]
  BY EmptySeq, HeadTailProperties
<1>. HIDE DEF t, n
<1>2. \A i \in 1..(n - 1) : /\ i + 1 \in 1..n /\ i + 1 # 1 /\ (i + 1) - 1 = i
                            /\ i # 1 => i - 1 \in 1..(n - 1) /\ (i - 1) + 1 = i
                            /\ i < n - 1 => i + 1 \in 1..(n - 1)
                            /\ i < n - 1 <=> i + 1 < n
  BY <1>1
<1>h. ASSUME NEW i \in 1..(n - 1) PROVE Held(t, i) <=> Held(q, i + 1)
  <2>1. t[i] = q[i + 1] /\ (i < n - 1 => t[i + 1] = q[(i + 1) + 1]) /\ (i < n - 1 <=> i + 1 < n)
    BY <1>1, <1>2
  <2>. QED  BY <1>1, <2>1 DEF Held, n
<1>3. ASSUME Placed(q), NEW i \in 1..(n - 1) PROVE May(q[i], q[i + 1], Held(t, i))
  <2>1. May(q[(i + 1) - 1], q[i + 1], Held(q, i + 1))
    BY <1>2, <1>3 DEF Placed, n
  <2>. QED  BY <1>2, <1>h, <2>1 DEF May
<1>4. ASSUME Placed(q), NEW i \in 1..(n - 1), i # 1 PROVE May(t[i - 1], t[i], Held(t, i))
  BY <1>1, <1>2, <1>3, <1>4
<1>5. Placed(q) => Placed(t)
  BY <1>1, <1>4 DEF Placed
<1>6. Len(t) # 0 => 1 \in 1..(n - 1) /\ t[1] = q[2]
  BY <1>1
<1>7. ASSUME Placed(q), Len(t) # 0 PROVE May(Head(q), t[1], Held(t, 1))
  <2>1. 1 \in 1..(n - 1) /\ q[1 + 1] = t[1]
    BY <1>1, <1>6, <1>7
  <2>. QED  BY <1>1, <1>3, <1>7, <2>1
<1>8. Fresh(q) => Fresh(t)
  BY <1>1, <1>2 DEF Fresh, n
<1>9. Fresh(q) /\ Len(t) # 0 => t[1].cmd \notin Sending2 \cup {"goodbye", "USER", "PASS"}
  BY <1>1, <1>2, <1>6 DEF Fresh, n
<1>10. \A C : HeadIs(t, C) <=> Len(t) # 0 /\ t[1].cmd \in C
  BY <1>1, HeadOf
<1>11. Stuck(t) <=> Len(t) # 0 /\ (t[1].cmd = "welcome" \/ Held(t, 1))
  BY <1>1, StuckHeld
<1>12. Len(t) # 0 /\ Held(t, 1) => t[1].cmd \in Sending2 \cup {"goodbye"}
  BY DEF Held
<1>13. Placed(q) => ~HeadIs(t, {"welcome"})
  BY <1>7, <1>10 DEF May
<1>14. ASSUME Placed(q), Head(q).cmd \notin LoginCmds, Stuck(t)
       PROVE  Head(q).cmd = "goodbye" /\ HeadIs(t, Sending2)
  <2>1. Len(t) # 0 /\ t[1].cmd # "welcome" /\ Held(t, 1) /\ Head(q).cmd = "goodbye" /\ t[1].cmd # "goodbye"
    BY <1>7, <1>11, <1>14 DEF May
  <2>. QED  BY <1>10, <1>12, <2>1
<1>. QED  BY <1>5, <1>8, <1>9, <1>10, <1>13, <1>14 DEF t

LEMMA PlacedJoin ==
  ASSUME NEW p \in Seq(Queued), NEW q \in Seq(Queued),
         p # <<>> /\ q # <<>> => /\ May(p[Len(p)], q[1], Held(q, 1))
                                 /\ p[Len(p)].cmd = "goodbye" /\ q[1].cmd \in Sending2 => Len(p) = 1
  PROVE  /\ Placed(p) /\ Placed(q) => Placed(p \o q)
         /\ Fresh(p) /\ Fresh(q) /\ ~HeadIs(q, Sending2 \cup {"goodbye", "USER", "PASS"}) => Fresh(p \o q)
<1>. DEFINE r == p \o q  m == Len(p)  n == Len(q)
<1>1. /\ m \in Nat /\ n \in Nat /\ Len(r) = m + n
      /\ \A i \in 1..m : r[i] = p[i]
      /\ \A i \in (m + 1)..(m + n) : r[i] = q[i - m]
      /\ (p = <<>> <=> m = 0) /\ (q = <<>> <=> n = 0)
  BY EmptySeq, ConcatProperties
<1>. HIDE DEF r
<1>2. ASSUME Placed(p), Placed(q), NEW i \in 1..(m + n), i # 1 PROVE May(r[i - 1], r[i], Held(r, i))
  <2>1. CASE i < m
    <3>1. i \in 1..m /\ i - 1 \in 1..m /\ i + 1 \in 1..m /\ i < m + n
      BY <1>1, <1>2, <2>1
    <3>2. r[i] = p[i] /\ r[i - 1] = p[i - 1] /\ r[i + 1] = p[i + 1]
      BY <1>1, <3>1
    <3>3. Held(r, i) <=> Held(p, i)
      BY <1>1, <2>1, <3>1, <3>2 DEF Held
    <3>4. May(p[i - 1], p[i], Held(p, i))
      BY <1>2, <3>1 DEF Placed
    <3>. QED  BY <3>2, <3>3, <3>4 DEF May
  <2>2. CASE i = m
    <3>1. i \in 1..m /\ i - 1 \in 1..m /\ (i < m + n => n # 0 /\ i + 1 \in (m + 1)..(m + n) /\ (i + 1) - m = 1)
      BY <1>1, <1>2, <2>2
    <3>2. r[i] = p[i] /\ r[i - 1] = p[i - 1] /\ (i < m + n => r[i + 1] = q[1])
      BY <1>1, <3>1
    <3>3. May(p[i - 1], p[i], Held(p, i))
      BY <1>2, <3>1 DEF Placed
    <3>4. i < m + n => p # <<>> /\ q # <<>> /\ Len(p) # 1
      BY <1>1, <1>2, <2>2, <3>1
    <3>5. Held(r, i) => p[i].cmd \in Sending2
      BY <1>1, <2>2, <3>2, <3>4 DEF Held
    <3>6. Held(r, i) => Held(p, i)
      BY <3>5 DEF Held
    <3>. QED  BY <3>2, <3>3, <3>6 DEF May
  <2>3. CASE i = m + 1
    <3>1. i - 1 = m /\ m \in 1..m /\ i \in (m + 1)..(m + n) /\ i - m = 1 /\ m # 0 /\ n # 0
          /\ (i < m + n <=> 1 < n) /\ (1 < n => i + 1 \in (m + 1)..(m + n) /\ (i + 1) - m = 2)
      BY <1>1, <1>2, <2>3
    <3>2. r[i] = q[1] /\ r[i - 1] = p[m] /\ (1 < n => r[i + 1] = q[2])
      BY <1>1, <3>1
    <3>3. Held(r, i) <=> Held(q, 1)
      BY <1>1, <3>1, <3>2 DEF Held
    <3>. QED  BY <1>1, <3>1, <3>2, <3>3 DEF May
  <2>4. CASE i > m + 1
    <3>1. /\ i \in (m + 1)..(m + n) /\ i - 1 \in (m + 1)..(m + n)
          /\ i - m \in 1..n /\ i - m # 1 /\ (i - 1) - m = (i - m) - 1
          /\ (i < m + n <=> i - m < n)
          /\ (i - m < n => i + 1 \in (m + 1)..(m + n) /\ (i + 1) - m = (i - m) + 1)
      BY <1>1, <2>4
    <3>2. r[i] = q[i - m] /\ r[i - 1] = q[(i - m) - 1] /\ (i - m < n => r[i + 1] = q[(i - m) + 1])
      BY <1>1, <3>1
    <3>3. Held(r, i) <=> Held(q, i - m)
      BY <1>1, <3>1, <3>2 DEF Held
    <3>4. May(q[(i - m) - 1], q[i - m], Held(q, i - m))
      BY <1>2, <3>1 DEF Placed
    <3>. QED  BY <3>2, <3>3, <3>4 DEF May
  <2>. QED  BY <1>1, <2>1, <2>2, <2>3, <2>4
<1>3. ASSUME Fresh(p), Fresh(q), ~HeadIs(q, Sending2 \cup {"goodbye", "USER", "PASS"}),
             NEW i \in 1..(m + n), i # 1
      PROVE  r[i].cmd \notin Sending2 \cup {"goodbye", "USER", "PASS"}
  <2>1. CASE i <= m
    <3>1. i \in 1..m
      BY <1>1, <2>1
    <3>. QED  BY <1>1, <1>3, <3>1 DEF Fresh
  <2>2. CASE i = m + 1
    <3>1. i \in (m + 1)..(m + n) /\ i - m = 1 /\ n # 0
      BY <1>1, <1>3, <2>2
    <3>. QED  BY <1>1, <1>3, <3>1, HeadOf
  <2>3. CASE i > m + 1
    <3>1. i \in (m + 1)..(m + n) /\ i - m \in 1..n /\ i - m # 1
      BY <1>1, <2>3
    <3>. QED  BY <1>1, <1>3, <3>1 DEF Fresh
  <2>. QED  BY <1>1, <2>1, <2>2, <2>3
<1>. QED  BY <1>1, <1>2, <1>3 DEF Placed, Fresh, r

\* Entries that nothing is asked of the order of.
Plain(q) == \A i \in 1..Len(q) : q[i].cmd \notin Special \cup {"USER", "PASS"}

LEMMA PlacedPlain ==
  ASSUME NEW q \in Seq(Queued), Plain(q)
  PROVE  /\ Placed(q) /\ Fresh(q) /\ ~HeadIs(q, Special \cup {"USER", "PASS"})
         /\ \A a : q # <<>> => May(a, q[1], Held(q, 1)) /\ q[1].cmd \notin Sending2
<1>1. Len(q) \in Nat /\ (q # <<>> => 1 \in 1..Len(q)) /\ (q = <<>> <=> Len(q) = 0)
  BY EmptySeq
<1>2. Placed(q) /\ Fresh(q)
  BY DEF Plain, Placed, Fresh, May, Special, Held
<1>3. q # <<>> => q[1].cmd \notin Special \cup {"USER", "PASS"}
  BY <1>1 DEF Plain
<1>. QED  BY <1>1, <1>2, <1>3, HeadOf DEF May, Special, Held

LEMMA PlacedAdd ==
  ASSUME NEW p \in Seq(Queued), NEW q \in Seq(Queued), Plain(q)
  PROVE  /\ Placed(p) => Placed(p \o q)
         /\ Fresh(p) => Fresh(p \o q)
         /\ p # <<>> => p \o q # <<>> /\ Head(p \o q) = Head(p)
         /\ p = <<>> => p \o q = q
         /\ Stuck(p \o q) => Stuck(p)
<1>1. Placed(q) /\ Fresh(q) /\ ~HeadIs(q, Special \cup {"USER", "PASS"})
      /\ (p # <<>> /\ q # <<>> => /\ May(p[Len(p)], q[1], Held(q, 1))
                                   /\ q[1].cmd \notin Sending2)
  BY PlacedPlain
<1>2. ~HeadIs(q, Sending2 \cup {"goodbye", "USER", "PASS"})
  BY <1>1 DEF HeadIs, Special
<1>3. p # <<>> => p \o q # <<>> /\ Head(p \o q) = Head(p)
  BY ConcatProperties, EmptySeq
<1>4. ASSUME Stuck(p \o q) PROVE Stuck(p)
  <2>. DEFINE r == p \o q
  <2>1. /\ r \in Seq(Queued) /\ Len(p) \in Nat /\ Len(r) = Len(p) + Len(q) /\ Len(q) \in Nat
        /\ \A i \in 1..Len(p) : r[i] = p[i]
        /\ \A i \in (Len(p) + 1)..(Len(p) + Len(q)) : r[i] = q[i - Len(p)]
    BY ConcatProperties
  <2>2. Len(r) # 0 /\ (r[1].cmd = "welcome" \/ Held(r, 1)) /\ HeadIs(r, Special)
    BY <1>4, <2>1, StuckHeld
  <2>3. p # <<>>
    BY <1>1, <2>2, ConcatEmptySeq DEF HeadIs
  <2>. HIDE DEF r
  <2>4. 1 \in 1..Len(p) /\ r[1] = p[1] /\ Len(p) # 0
    BY <2>1, <2>3, EmptySeq
  <2>5. CASE Len(p) > 1
    <3>1. 2 \in 1..Len(p) /\ r[2] = p[2] /\ 1 < Len(r) /\ 1 + 1 = 2
      BY <2>1, <2>5
    <3>2. Held(r, 1) <=> Held(p, 1)
      BY <2>4, <2>5, <3>1 DEF Held
    <3>. QED  BY <2>2, <2>4, <3>2, StuckHeld
  <2>6. CASE Len(p) = 1
    <3>1. 1 < Len(r) => q # <<>> /\ r[2] = q[1] /\ 1 + 1 = 2
      BY <2>1, <2>6, EmptySeq
    <3>2. Held(r, 1) => Held(p, 1)
      BY <1>1, <2>3, <2>4, <3>1 DEF Held
    <3>. QED  BY <2>2, <2>4, <3>2, StuckHeld
  <2>7. Len(p) > 1 \/ Len(p) = 1
    <3>1. Len(p) \in Nat /\ Len(p) # 0
      BY <2>1, <2>4
    <3>2. \A n \in Nat : n # 0 => n > 1 \/ n = 1
      OBVIOUS
    <3>. QED  BY <3>1, <3>2, Zenon
  <2>. QED  BY <2>5, <2>6, <2>7
<1>. QED  BY <1>4, <1>1, <1>2, <1>3, PlacedJoin, ConcatEmptySeq

\* One entry in front.
LEMMA PlacedCons ==
  ASSUME NEW e \in Queued, NEW q \in Seq(Queued), q # <<>> => May(e, q[1], Held(q, 1))
  PROVE  /\ <<e>> \o q \in Seq(Queued) /\ <<e>> \o q # <<>> /\ Head(<<e>> \o q) = e
         /\ Placed(q) => Placed(<<e>> \o q)
         /\ Fresh(q) /\ ~HeadIs(q, Sending2 \cup {"goodbye", "USER", "PASS"}) => Fresh(<<e>> \o q)
<1>1. <<e>> \in Seq(Queued) /\ Len(<<e>>) = 1 /\ <<e>>[1] = e /\ <<e>> # <<>>
  OBVIOUS
<1>2. Placed(<<e>>) /\ Fresh(<<e>>)
  BY <1>1 DEF Placed, Fresh
<1>3. <<e>> \o q \in Seq(Queued) /\ <<e>> \o q # <<>> /\ Head(<<e>> \o q) = e
  BY <1>1, ConcatProperties, EmptySeq
<1>. QED  BY <1>1, <1>2, <1>3, PlacedJoin

\* What is left of a queue without its first n entries.
LEMMA PlacedSuffix ==
  ASSUME NEW S, NEW q \in Seq(S), S \subseteq Queued, NEW n \in 0..Len(q)
  PROVE  LET t == SubSeq(q, n + 1, Len(q))
         IN  /\ t \in Seq(S) /\ Len(t) = Len(q) - n
             /\ \A i \in 1..(Len(q) - n) : t[i] = q[n + i]
             /\ Placed(q) => Placed(t)
             /\ Fresh(q) => Fresh(t)
<1>. DEFINE t == SubSeq(q, n + 1, Len(q))  m == Len(q) - n
<1>1. Len(q) \in Nat /\ n \in Nat /\ m \in Nat /\ n + 1 \in 1..(Len(q) + 1)
  OBVIOUS
<1>2. t \in Seq(S) /\ Len(t) = m /\ \A i \in 1..m : t[i] = q[n + i]
  <2>1. /\ t \in Seq(S)
        /\ Len(t) = IF n + 1 <= Len(q) THEN Len(q) - (n + 1) + 1 ELSE 0
        /\ \A i \in 1..(Len(q) - (n + 1) + 1) : t[i] = q[(n + 1) + i - 1]
    BY <1>1, SubSeqProperties
  <2>2. Len(q) - (n + 1) + 1 = m /\ \A i \in 1..m : (n + 1) + i - 1 = n + i
    BY <1>1
  <2>3. Len(t) = m
    BY <1>1, <2>1
  <2>4. \A i \in 1..m : t[i] = q[n + i]
    <3>. HIDE DEF t
    <3>1. \A i \in 1..m : t[i] = q[(n + 1) + i - 1]
      BY <2>1, <2>2
    <3>. HIDE DEF m
    <3>. QED  BY <2>2, <3>1
  <2>. QED  BY <2>1, <2>3, <2>4
<1>. HIDE DEF t
<1>3. \A i \in 1..m : /\ n + i \in 1..Len(q)
                      /\ i # 1 => i - 1 \in 1..m /\ n + (i - 1) = (n + i) - 1 /\ n + i # 1
                      /\ i < m <=> n + i < Len(q)
                      /\ i < m => i + 1 \in 1..m /\ n + (i + 1) = (n + i) + 1
  BY <1>1
<1>4. Placed(q) => Placed(t)
  <2>. SUFFICES ASSUME Placed(q), NEW i \in 1..m, i # 1 PROVE May(t[i - 1], t[i], Held(t, i))
    BY <1>2 DEF Placed
  <2>1. t[i] = q[n + i] /\ t[i - 1] = q[(n + i) - 1] /\ n + i # 1 /\ n + i \in 1..Len(q)
    BY <1>2, <1>3
  <2>2. (i < m <=> n + i < Len(q)) /\ (i < m => t[i + 1] = q[(n + i) + 1])
    BY <1>2, <1>3
  <2>3. Held(t, i) <=> Held(q, n + i)
    BY <1>2, <2>1, <2>2 DEF Held
  <2>4. May(q[(n + i) - 1], q[n + i], Held(q, n + i))
    BY <2>1 DEF Placed
  <2>. QED  BY <2>1, <2>3, <2>4 DEF May
<1>5. Fresh(q) => Fresh(t)
  BY <1>2, <1>3 DEF Fresh
<1>. QED  BY <1>2, <1>4, <1>5 DEF t

LEMMA Types ==
  /\ \A F, G : F \subseteq G => Valid(F) \subseteq Valid(G) /\ Keepable(F) \subseteq Keepable(G)
  /\ \A F : Keepable(F) \subseteq Valid(F) /\ Valid(F) \subseteq Queued
BY DEF Valid, Keepable

LEMMA SeqSubset ==
  ASSUME NEW A, NEW B, A \subseteq B PROVE Seq(A) \subseteq Seq(B)
<1>. SUFFICES ASSUME NEW s \in Seq(A) PROVE s \in Seq(B)
  OBVIOUS
<1>1. Len(s) \in Nat /\ s = [i \in 1..Len(s) |-> s[i]] /\ \A i \in 1..Len(s) : s[i] \in B
  OBVIOUS
<1>. QED  BY <1>1, SeqDef

-----------------------------------------------------------------------------
(* Writing.                                                                *)

LEMMA SkipsOp ==
  ASSUME NEW o, o.queue \in Seq(Queued)
  PROVE  /\ Skips(o) \in 0..Len(o.queue)
         /\ \A i \in 1..Skips(o) : Skipped(o, o.queue[i])
         /\ Skips(o) < Len(o.queue) => ~Skipped(o, o.queue[Skips(o) + 1])
<1>. DEFINE q == o.queue  L == Len(q)  B == {i \in 1..L : ~Skipped(o, q[i])}
           Ok(n) == /\ \A i \in 1..n : Skipped(o, q[i])
                    /\ n < L => ~Skipped(o, q[n + 1])
<1>1. L \in Nat
  OBVIOUS
<1>2. \E n \in 0..L : Ok(n)
  <2>1. CASE B = {}
    <3>1. Ok(L) /\ L \in 0..L
      BY <1>1, <2>1
    <3>. QED  BY <3>1
  <2>2. CASE B # {}
    <3>1. B \in SUBSET Nat
      BY <1>1
    <3>. HIDE DEF B
    <3>2. PICK x \in B : \A y \in B : x <= y
      BY <2>2, <3>1, LeastNumber
    <3>. USE DEF B
    <3>3. x \in 1..L /\ ~Skipped(o, q[x]) /\ x - 1 \in 0..L /\ (x - 1) + 1 = x
      BY <1>1, <3>2
    <3>4. ASSUME NEW i \in 1..(x - 1) PROVE Skipped(o, q[i])
      <4>1. i \in 1..L /\ ~(x <= i)
        BY <1>1, <3>3
      <4>. QED  BY <3>2, <4>1
    <3>5. Ok(x - 1)
      <4>. HIDE DEF B
      <4>. QED  BY <3>3, <3>4
    <3>. QED  BY <3>3, <3>5
  <2>. QED  BY <2>1, <2>2
<1>3. Skips(o) = CHOOSE n \in 0..L : Ok(n)
  BY Zenon DEF Skips
<1>. HIDE DEF Ok, L
<1>4. Skips(o) \in 0..L /\ Ok(Skips(o))
  BY <1>2, <1>3, Zenon
<1>. QED  BY <1>4 DEF Ok, L

\* What a method leaves alone of the connection and the beliefs.
Alike(p, o) ==
  /\ p.link = o.link /\ p.isConnected = o.isConnected /\ p.isReconnecting = o.isReconnecting
  /\ p.legitClose = o.legitClose /\ p.transferMode = o.transferMode
  /\ p.currentWorkingDir = o.currentWorkingDir

LEMMA WriteOp ==
  ASSUME NEW o \in Client, NEW e \in Queued, e.cmd # "goodbye", o.link \in {"opening", "up"}
  PROVE  LET w == Write(o, e)
         IN  /\ w \in Client /\ Alike(w, o) /\ w.queue = o.queue /\ w.trash = o.trash
             /\ w.wire = Append(o.wire, e) /\ w.isReady = FALSE
<1>. DEFINE a == Append(o.wire, e)  t == o.transfer \/ e.cmd \in Sending
<1>1. Write(o, e) = [o EXCEPT !.isReady = FALSE, !.wire = a, !.timeout = e.cmd, !.transfer = t]
  BY Zenon DEF Write
<1>2. a \in Seq(Queued) /\ t \in BOOLEAN /\ e.cmd \in (Command \ {"goodbye"}) \cup {None}
  BY AppendProperties DEF Client, Queued
<1>. HIDE DEF a, t
<1>3. Write(o, e) \in Client
  BY <1>1, <1>2 DEF Client
<1>. QED  BY <1>1, <1>3 DEF Client, Alike, a

\* The skipping alone.
Skimmed(o) ==
  [o EXCEPT !.queue = SubSeq(@, Skips(o) + 1, Len(@)),
            !.trash = @ \o FlattenSeq([i \in 1..Skips(o) |->
                             IF Redundant(o, o.queue[i]) THEN <<o.queue[i]>> ELSE <<>>])]

LEMMA WriteControlIs ==
  ASSUME NEW o
  PROVE  WriteControl(o) = IF ~o.isReady \/ o.queue = <<>> THEN o
                           ELSE IF Skimmed(o).queue = <<>> THEN Skimmed(o)
                           ELSE Write(Skimmed(o), Head(Skimmed(o).queue))
BY Zenon DEF WriteControl, Skimmed

LEMMA SkimmedOp ==
  ASSUME NEW F, NEW o \in Holding(F), F \subseteq File
  PROVE  LET p == Skimmed(o)
         IN  /\ p \in Holding(F) /\ Alike(p, o) /\ p.wire = o.wire /\ p.isReady = o.isReady
             /\ p.queue = SubSeq(o.queue, Skips(o) + 1, Len(o.queue))
             /\ p.queue # <<>> => Head(p.queue).cmd # "goodbye"
<1>. DEFINE q == o.queue  n == Skips(o)
           kept == [i \in 1..n |-> IF Redundant(o, q[i]) THEN <<q[i]>> ELSE <<>>]
           rest == SubSeq(q, n + 1, Len(q))  trash == o.trash \o FlattenSeq(kept)
<1>1. q \in Seq(Valid(F)) /\ o.trash \in Seq(Keepable(F)) /\ o \in Client
  BY DEF Holding
<1>2. n \in 0..Len(q) /\ q \in Seq(Queued)
  BY <1>1, SeqSubset, Types, SkipsOp
<1>. HIDE DEF n
<1>3. kept \in Seq(Seq(Keepable(F)))
  <2>1. ASSUME NEW i \in 1..n PROVE kept[i] \in Seq(Keepable(F))
    <3>1. i \in 1..Len(q) /\ q[i] \in Valid(F)
      BY <1>1, <1>2
    <3>2. Redundant(o, q[i]) => q[i] \in Keepable(F)
      BY <3>1 DEF Redundant, Keepable
    <3>. QED  BY <3>2
  <2>2. n \in Nat /\ kept = [i \in 1..n |-> kept[i]]
    BY <1>2
  <2>. HIDE DEF kept
  <2>. QED  BY <2>1, <2>2, SeqDef
<1>4. trash \in Seq(Keepable(F))
  <2>. HIDE DEF kept
  <2>1. FlattenSeq(kept) \in Seq(Keepable(F))
    BY <1>3, FlattenType
  <2>. QED  BY <1>1, <2>1, ConcatProperties
<1>5. rest \in Seq(Valid(F))
  BY <1>1, <1>2, PlacedSuffix, Types
<1>a. rest # <<>> => Head(rest).cmd # "goodbye"
  <2>1. n < Len(q) => ~Skipped(o, q[n + 1])
    BY <1>2, SkipsOp DEF n
  <2>2. Len(rest) = Len(q) - n /\ \A i \in 1..(Len(q) - n) : rest[i] = q[n + i]
    BY <1>1, <1>2, PlacedSuffix, Types
  <2>. HIDE DEF rest
  <2>3. rest # <<>> => Head(rest) = q[n + 1] /\ n < Len(q)
    BY <1>2, <1>5, <2>2, EmptySeq
  <2>. QED  BY <2>1, <2>3 DEF Skipped
<1>6. Skimmed(o) = [o EXCEPT !.queue = rest, !.trash = trash]
  BY Zenon DEF Skimmed, n
<1>. HIDE DEF rest, trash
<1>7. rest \in Seq(Queued) /\ trash \in Seq(Queued)
  <2>1. Seq(Valid(F)) \subseteq Seq(Queued) /\ Seq(Keepable(F)) \subseteq Seq(Valid(F))
    BY SeqSubset, Types
  <2>. QED  BY <1>4, <1>5, <2>1
<1>8. Skimmed(o) \in Client
  BY <1>1, <1>6, <1>7 DEF Client
<1>9. Skimmed(o).queue = rest /\ Skimmed(o).trash = trash /\ Alike(Skimmed(o), o)
      /\ Skimmed(o).wire = o.wire /\ Skimmed(o).isReady = o.isReady
  BY <1>1, <1>6 DEF Client, Alike
<1>. QED  BY <1>4, <1>5, <1>a, <1>8, <1>9 DEF Holding, rest, n

\* On a connection where no reply is due, the first entry worth asking is asked.
Startable(o, F) ==
  /\ o \in Holding(F) /\ Arranged(o)
  /\ o.link = "up" /\ o.wire = <<>> /\ ~Stuck(o.queue)
Asking(o) == /\ ~o.isReady /\ o.queue # <<>> /\ o.wire = <<Head(o.queue)>>
             /\ Head(o.queue).cmd \notin Unasked
Started(r, o, F) ==
  /\ r \in Holding(F) /\ Alike(r, o) /\ Arranged(r)
  /\ Free(r) \/ Asking(r)
  /\ r.legitClose /\ HeadIs(r.queue, {"USER", "PASS"}) => HeadIs(o.queue, {"USER", "PASS"})

LEMMA HoldingTypes ==
  ASSUME NEW F, NEW o \in Holding(F)
  PROVE  /\ o \in Client /\ o.queue \in Seq(Valid(F)) /\ o.queue \in Seq(Queued)
         /\ o.trash \in Seq(Keepable(F)) /\ o.wire \in Seq(Queued)
         /\ o.queue # <<>> => Head(o.queue) \in Valid(F)
<1>1. Valid(F) \subseteq Queued
  BY Types
<1>2. o \in Client /\ o.queue \in Seq(Valid(F)) /\ o.trash \in Seq(Keepable(F))
  BY DEF Holding
<1>3. o.queue \in Seq(Queued) /\ o.wire \in Seq(Queued)
  BY <1>2 DEF Client
<1>4. o.queue # <<>> => Head(o.queue) \in Valid(F)
  BY <1>2, HeadTailProperties
<1>. QED  BY <1>2, <1>3, <1>4

LEMMA SkimmedStarts ==
  ASSUME NEW F, F \subseteq File, NEW o \in Holding(F), Arranged(o), ~Stuck(o.queue), o.queue # <<>>
  PROVE  LET p == Skimmed(o)
         IN  /\ p \in Holding(F) /\ Alike(p, o) /\ p.wire = o.wire /\ p.isReady = o.isReady
             /\ Arranged(p) /\ ~HeadIs(p.queue, Special) /\ ~Stuck(p.queue)
             /\ p.legitClose /\ HeadIs(p.queue, {"USER", "PASS"}) => HeadIs(o.queue, {"USER", "PASS"})
             /\ p.queue # <<>> => Head(p.queue) \in Valid(F) /\ Head(p.queue).cmd \notin Unasked
<1>. DEFINE p == Skimmed(o)  n == Skips(o)  q == o.queue  L == Len(q)
<1>q. /\ o \in Holding(F) /\ Arranged(o) /\ ~Stuck(q) /\ q # <<>>
      /\ q \in Seq(Queued) /\ q \in Seq(Valid(F)) /\ o \in Client
  BY HoldingTypes
<1>1. /\ p \in Holding(F) /\ Alike(p, o) /\ p.wire = o.wire /\ p.isReady = o.isReady
      /\ p.queue = SubSeq(q, n + 1, L)
  BY <1>q, SkimmedOp
<1>2. n \in 0..L /\ (\A i \in 1..n : Skipped(o, q[i])) /\ (n < L => ~Skipped(o, q[n + 1]))
  BY <1>q, SkipsOp
<1>3. /\ p.queue \in Seq(Queued) /\ Len(p.queue) = L - n
      /\ \A i \in 1..(L - n) : p.queue[i] = q[n + i]
      /\ Placed(q) => Placed(p.queue)
      /\ Fresh(q) => Fresh(p.queue)
  <2>1. n \in 0..Len(q)
    BY <1>2
  <2>. HIDE DEF n, p, q
  <2>. QED  BY ONLY <1>q, <1>1, <2>1, PlacedSuffix DEF L
<1>. HIDE DEF p, n
<1>4. Arranged(p)
  BY <1>q, <1>1, <1>3 DEF Arranged, Alike
<1>5. p.queue # <<>> => /\ n < L /\ n + 1 \in 1..L /\ Head(p.queue) = q[n + 1] /\ p.queue[1] = q[n + 1]
                        /\ q[n + 1] \in Valid(F)
  <2>1. p.queue # <<>> => L - n # 0 /\ 1 \in 1..(L - n)
    BY <1>2, <1>3, EmptySeq
  <2>. QED  BY <1>q, <1>2, <1>3, <2>1
<1>6. \A i \in 1..n : q[i].cmd \in {"aborted", "goodbye", "TYPE", "CWD"}
  BY <1>2 DEF Skipped, Redundant
<1>7. q[1].cmd # "welcome" /\ ~Held(q, 1)
  BY <1>q, EmptySeq, StuckHeld
<1>8. n # 0 => n \in 1..n /\ n \in 1..L /\ (n # 1 => n - 1 \in 1..n) /\ n + 1 # 1 /\ (n + 1) - 1 = n
  BY <1>2
<1>9. n # 0 => ~Held(q, n)
  <2>1. CASE n = 1
    BY <1>7, <2>1
  <2>2. CASE n # 0 /\ n # 1
    <3>1. /\ q[n - 1].cmd \notin LoginCmds /\ May(q[n - 1], q[n], Held(q, n))
          /\ q[n].cmd \notin Sending2
      <4>1. n \in 1..n /\ n \in 1..L /\ n - 1 \in 1..n
        BY <1>8, <2>2
      <4>2. May(q[n - 1], q[n], Held(q, n))
        BY <1>q, <2>2, <4>1 DEF Arranged, Placed
      <4>. QED  BY <1>6, <4>1, <4>2 DEF LoginCmds, Sending2
    <3>2. Held(q, n) => q[n].cmd = "goodbye"
      BY <3>1 DEF Held
    <3>. QED  BY <3>1, <3>2 DEF May
  <2>. QED  BY <2>1, <2>2
<1>10. p.queue # <<>> => q[n + 1].cmd \notin Special
  <2>1. p.queue # <<>> => q[n + 1].cmd # "goodbye"
    BY <1>2, <1>5 DEF Skipped
  <2>2. CASE n = 0
    BY <1>5, <1>7, <2>1, <2>2 DEF Special, Held
  <2>3. CASE n # 0 /\ p.queue # <<>>
    <3>1. May(q[n], q[n + 1], Held(q, n + 1)) /\ n < L /\ q[n].cmd \notin LoginCmds
      BY <1>q, <1>5, <1>6, <1>8, <2>3 DEF Arranged, Placed, LoginCmds
    <3>2. q[n + 1].cmd \in Sending2 => Held(q, n + 1) /\ (q[n].cmd = "goodbye" => Held(q, n))
      BY <3>1 DEF Held
    <3>. QED  BY <1>9, <2>1, <2>3, <3>1, <3>2 DEF May, Special
  <2>. QED  BY <2>2, <2>3
<1>11. ~HeadIs(p.queue, Special) /\ ~Stuck(p.queue)
  <2>1. ~HeadIs(p.queue, Special)
    BY <1>5, <1>10 DEF HeadIs
  <2>. QED  BY <1>3, <2>1, StuckHeld
<1>12. p.legitClose /\ HeadIs(p.queue, {"USER", "PASS"}) => HeadIs(q, {"USER", "PASS"})
  <2>1. CASE n = 0
    BY <1>q, <1>5, <2>1 DEF HeadIs
  <2>2. CASE n # 0
    BY <1>q, <1>1, <1>5, <1>8, <2>2 DEF HeadIs, Arranged, Fresh, Alike
  <2>. QED  BY <2>1, <2>2
<1>13. ASSUME p.queue # <<>> PROVE Head(p.queue) \in Valid(F) /\ Head(p.queue).cmd \notin Unasked
  <2>. DEFINE e == Head(p.queue)
  <2>1. e.cmd \notin Special /\ ~Skipped(o, e) /\ e.cmd # "QUIT" /\ e \in Valid(F)
    BY <1>2, <1>5, <1>10, <1>13 DEF Valid
  <2>. QED  BY <2>1 DEF Unasked, Special, Skipped
<1>. QED  BY <1>1, <1>4, <1>11, <1>12, <1>13 DEF p

LEMMA WriteControlStarts ==
  ASSUME NEW F, F \subseteq File, NEW o, Startable(o, F)
  PROVE  Started(WriteControl(o), o, F)
<1>. DEFINE p == Skimmed(o)
<1>1. /\ o \in Holding(F) /\ Arranged(o) /\ o.link = "up" /\ o.wire = <<>>
      /\ ~Stuck(o.queue) /\ o \in Client
  BY HoldingTypes DEF Startable
<1>2. CASE ~o.isReady \/ o.queue = <<>>
  <2>1. WriteControl(o) = o
    BY <1>2, WriteControlIs
  <2>. QED  BY <1>1, <2>1 DEF Started, Alike, Free
<1>3. CASE ~(~o.isReady \/ o.queue = <<>>)
  <2>1. /\ p \in Holding(F) /\ Alike(p, o) /\ p.wire = <<>>
        /\ Arranged(p) /\ ~Stuck(p.queue)
        /\ p.legitClose /\ HeadIs(p.queue, {"USER", "PASS"}) => HeadIs(o.queue, {"USER", "PASS"})
        /\ p.queue # <<>> => Head(p.queue) \in Valid(F) /\ Head(p.queue).cmd \notin Unasked
    BY <1>1, <1>3, SkimmedStarts
  <2>2. WriteControl(o) = IF p.queue = <<>> THEN p ELSE Write(p, Head(p.queue))
    BY <1>3, WriteControlIs
  <2>. HIDE DEF p
  <2>3. CASE p.queue = <<>>
    BY <2>1, <2>2, <2>3 DEF Started, Free
  <2>4. CASE p.queue # <<>>
    <3>. DEFINE e == Head(p.queue)  w == Write(p, e)
    <3>1. WriteControl(o) = w
      BY <2>2, <2>4
    <3>2. e \in Queued /\ p \in Client /\ e.cmd \notin Unasked
      BY <2>1, <2>4, Types, HoldingTypes
    <3>. HIDE DEF e
    <3>4. /\ w \in Client /\ Alike(w, p) /\ w.queue = p.queue /\ w.trash = p.trash
          /\ w.wire = Append(p.wire, e) /\ w.isReady = FALSE
      <4>1. p.link \in {"opening", "up"}
        BY <1>1, <2>1 DEF Alike
      <4>2. e.cmd # "goodbye"
        BY <3>2 DEF Unasked
      <4>. QED  BY <3>2, <4>1, <4>2, WriteOp
    <3>. HIDE DEF w
    <3>5. w.wire = <<e>>
      BY <2>1, <3>2, <3>4
    <3>6. w \in Holding(F) /\ Arranged(w) /\ Alike(w, o)
      BY <2>1, <3>4 DEF Holding, Arranged, Alike
    <3>7. Asking(w)
      BY <2>4, <3>2, <3>4, <3>5 DEF Asking, e
    <3>. QED  BY <2>1, <3>1, <3>4, <3>6, <3>7 DEF Started, Alike
  <2>. QED  BY <2>3, <2>4
<1>. QED  BY <1>2, <1>3

\* The end of readControl().
LEMMA ProceedStarts ==
  ASSUME NEW F, F \subseteq File, NEW o, Startable(o, F)
  PROVE  Started(Proceed(o), o, F)
<1>. DEFINE p == [o EXCEPT !.isReady = TRUE]
<1>1. o \in Holding(F) /\ o \in Client
  BY HoldingTypes DEF Startable
<1>2. p \in Client /\ Alike(p, o) /\ p.queue = o.queue /\ p.trash = o.trash /\ p.wire = o.wire
  BY <1>1 DEF Client, Alike
<1>3. Startable(p, F)
  <2>. HIDE DEF p
  <2>. QED  BY <1>1, <1>2 DEF Startable, Holding, Arranged, Alike
<1>4. Proceed(o) = WriteControl(p)
  <2>1. ~HeadIs(p.queue, {"welcome"})
    BY <1>2 DEF Startable, Stuck, HeadIs
  <2>. QED  BY <2>1, Zenon DEF Proceed
<1>. HIDE DEF p
<1>5. Started(WriteControl(p), p, F)
  BY <1>3, WriteControlStarts
<1>. QED  BY <1>2, <1>4, <1>5 DEF Started, Alike

\* What has been started is sound, if what it started from was.
LEMMA StartedSound ==
  ASSUME NEW F, F \subseteq File, NEW o, NEW r, Started(r, o, F), NEW sv,
         o.link = "up", o.isConnected => ~o.isReconnecting, Believes(o, sv),
         o.isConnected \/ r.wire = <<>>
  PROVE  r \in Holding(F) /\ Sound(r, sv)
<1>1. r \in Holding(F) /\ Alike(r, o) /\ Arranged(r)
  BY DEF Started
<1>2. Believes(r, sv)
  BY <1>1 DEF Started, Alike, Believes
<1>3. CASE Free(r)
  <2>1. Armed(r)
    BY <1>1, <1>3 DEF Armed, Free, Stuck, HeadIs
  <2>. QED  BY <1>1, <1>2, <1>3, <2>1 DEF Sound, Linked, Alike, None
<1>4. CASE Asking(r)
  <2>1. Head(r.queue) \in Valid(F) /\ Valid(F) \subseteq Valid(File)
    BY <1>1, <1>4, Types, HoldingTypes DEF Asking
  <2>2. Len(r.wire) = 1 /\ r.wire # <<>> /\ Head(r.wire) = Head(r.queue)
    BY <1>4 DEF Asking
  <2>3. r.isConnected /\ Waiting(r, sv)
    BY <1>1, <1>4, <2>1, <2>2 DEF Waiting, Asking, Alike
  <2>4. Armed(r)
    BY <1>1, <1>4 DEF Armed, Asking, Unasked, Alike, HeadIs
  <2>. QED  BY <1>1, <1>2, <2>3, <2>4 DEF Sound, Linked, Alike, None
<1>. QED  BY <1>3, <1>4 DEF Started

LEMMA WriteControlHolds ==
  ASSUME NEW F, F \subseteq File, NEW o \in Holding(F)
  PROVE  WriteControl(o) \in Holding(F) /\ Proceed(o) \in Holding(F)
<1>1. ASSUME NEW p \in Holding(F) PROVE WriteControl(p) \in Holding(F)
  <2>. DEFINE s == Skimmed(p)  e == Head(s.queue)  w == Write(s, e)
  <2>1. s \in Holding(F) /\ s.queue \in Seq(Valid(F)) /\ s \in Client
        /\ (s.queue # <<>> => e.cmd # "goodbye")
    BY SkimmedOp, HoldingTypes
  <2>2. WriteControl(p) = IF ~p.isReady \/ p.queue = <<>> THEN p
                          ELSE IF s.queue = <<>> THEN s ELSE w
    BY WriteControlIs
  <2>. HIDE DEF s
  <2>3. ASSUME s.queue # <<>> PROVE w \in Holding(F)
    <3>1. e \in Queued /\ e.cmd # "goodbye"
      BY <2>1, <2>3, HeadTailProperties, Types
    <3>. HIDE DEF e
    <3>2. CASE s.link \in {"opening", "up"}
      BY <2>1, <3>1, <3>2, WriteOp DEF Holding
    <3>3. CASE s.link \notin {"opening", "up"}
      <4>1. w = [s EXCEPT !.isReady = FALSE, !.reported = TRUE]
        BY <3>3 DEF Write
      <4>. QED  BY <2>1, <4>1 DEF Holding, Client
    <3>. QED  BY <3>2, <3>3
  <2>. QED  BY <2>1, <2>2, <2>3
<1>2. [o EXCEPT !.isReady = TRUE] \in Holding(F)
  BY DEF Holding, Client
<1>. DEFINE r == [o EXCEPT !.isReady = TRUE]
<1>3. Proceed(o) \in {r, WriteControl(r)}
  BY Zenon DEF Proceed
<1>. HIDE DEF r
<1>. QED  BY <1>1, <1>2, <1>3 DEF r

-----------------------------------------------------------------------------
(* Replies.                                                                *)

\* A step is taken from a state where all is well.
Well(F) == Current(F) /\ ftp \in Holding(F) /\ TypeOK /\ Orderly /\ Sound(ftp, srv)

\* What a reply does to the session, and when which is given.
LEMMA ReplyFacts ==
  ASSUME NEW F, Well(F), NEW code \in Code, Reply(code)
  PROVE  /\ ftp.link = "up" /\ Waiting(ftp, srv) /\ Believes(ftp, srv)
         /\ ~ftp.isReconnecting /\ F \subseteq File /\ ftp \in Client
         /\ ftp.wire \in Seq(Queued) /\ Asked \in Valid(File)
         /\ ftp.queue # <<>> /\ Answered \in Valid(F) /\ Arranged(ftp)
         /\ code = 1 => Asked.cmd \in Sending /\ ~srv.started
         /\ srv'.type = IF Asked.cmd = "TYPE" /\ code = 2 THEN Asked.arg ELSE srv.type
         /\ srv'.dir = IF Asked.cmd = "CWD" /\ code = 2 THEN Asked.arg ELSE srv.dir
         /\ srv'.login = "in" => srv.login = "in" \/ (Asked.cmd = "PASS" /\ code = 2)
         /\ srv'.started = (code = 1)
         /\ srv' \in Session /\ files' \in [Dir \X File -> Status] /\ made' \subseteq Dir
         /\ refused' \subseteq Refusable /\ UNCHANGED <<losses, reconnects, begun>>
<1>1. /\ ftp.link = "up" /\ ftp.wire # <<>> /\ code \in Replies /\ Serve(code)
      /\ refused' = IF code = 5 /\ Replies # {5} THEN refused \cup {Asked.cmd} ELSE refused
      /\ UNCHANGED <<losses, reconnects, begun>>
  BY DEF Reply
<1>2. /\ Waiting(ftp, srv) /\ Believes(ftp, srv) /\ ~ftp.isReconnecting /\ Arranged(ftp)
      /\ Asked \in Valid(File) /\ Asked.cmd \notin Unasked /\ ftp.queue # <<>>
  BY <1>1 DEF Well, Sound, Linked, Free, Waiting, Asked
<1>3. ftp \in Client /\ ftp.wire \in Seq(Queued) /\ Answered \in Valid(F) /\ F \subseteq File
  BY <1>2, HoldingTypes DEF Well, Current, TypeOK, Answered
<1>4. Asked \in Queued /\ Asked.cmd \in Command
  BY <1>2, Types DEF Queued, Valid
<1>5. MayRefuse(Asked.cmd) => Asked.cmd \in Refusable
  BY DEF MayRefuse
<1>6. /\ 1 \in Replies => Asked.cmd \in Sending /\ ~srv.started
      /\ 5 \in Replies /\ Replies # {5} => MayRefuse(Asked.cmd)
      /\ 2 \in Replies /\ Asked.cmd = "CWD" => Asked.arg \in made
  <2>1. Refusal \in {{}, {5}} /\ (Refusal # {} => MayRefuse(Asked.cmd))
    BY DEF Refusal
  <2>2. CASE Asked.cmd \in Anonymous
    <3>1. CASE Asked.cmd = "USER"
      <4>1. Replies = {3} \cup Refusal
        BY <3>1 DEF Replies, Anonymous, Sending
      <4>. QED  BY <2>1, <3>1, <4>1
    <3>2. CASE Asked.cmd = "PASS"
      <4>1. Replies = IF srv.login = "user" THEN {2} \cup Refusal ELSE {5}
        BY <3>2 DEF Replies, Anonymous, Sending
      <4>. QED  BY <2>1, <3>2, <4>1
    <3>3. CASE Asked.cmd = "NOOP"
      <4>1. Replies = {2}
        BY <3>3 DEF Replies, Anonymous, Sending
      <4>. QED  BY <3>3, <4>1
    <3>. QED  BY <2>2, <3>1, <3>2, <3>3 DEF Anonymous
  <2>3. CASE Asked.cmd \notin Anonymous /\ srv.login # "in"
    <3>1. Replies = {5}
      BY <2>3 DEF Replies, Anonymous
    <3>. QED  BY <3>1
  <2>4. CASE Asked.cmd \notin Anonymous /\ srv.login = "in"
    <3>1. CASE Asked.cmd = "CWD"
      <4>1. Replies = Granted(Asked.arg \in made)
        BY <2>4, <3>1 DEF Replies, Anonymous, Sending
      <4>. QED  BY <2>1, <3>1, <4>1 DEF Granted
    <3>2. CASE Asked.cmd \in {"MKD", "SIZE"}
      <4>1. Replies \in {Granted(Asked.arg \notin made), Granted(files[Place] # "absent")}
        BY <2>4, <3>2 DEF Replies, Anonymous, Sending
      <4>. QED  BY <2>1, <3>2, <4>1 DEF Granted
    <3>3. CASE Asked.cmd \in Sending
      <4>1. Replies = IF srv.started THEN IF ftp.data = "busy" THEN Refusal ELSE {2} \cup Refusal
                      ELSE IF ~srv.port THEN {5}
                      ELSE (IF ftp.data = "busy" THEN {1} ELSE {1, 2}) \cup Refusal
        BY <2>4, <3>3 DEF Replies, Anonymous, Sending
      <4>. QED  BY <2>1, <3>3, <4>1 DEF Sending
    <3>4. CASE Asked.cmd \in {"PWD", "FEAT", "TYPE", "PASV", "XSHA1"}
      <4>1. Replies = {2} \cup Refusal
        BY <2>4, <3>4 DEF Replies, Anonymous, Sending
      <4>. QED  BY <2>1, <3>4, <4>1
    <3>. QED  BY <1>2, <1>4, <2>4, <3>1, <3>2, <3>3, <3>4
              DEF Command, Unasked, Anonymous, Transfers
  <2>. QED  BY <2>2, <2>3, <2>4
<1>7. refused' \subseteq Refusable
  BY <1>1, <1>5, <1>6 DEF Well, TypeOK
<1>8. srv \in Session /\ files \in [Dir \X File -> Status] /\ made \subseteq Dir
  BY DEF Well, TypeOK
<1>. DEFINE login == CASE Asked.cmd = "USER" /\ code = 3 -> "user"
                       [] Asked.cmd = "PASS" /\ code = 2 -> "in"
                       [] OTHER -> srv.login
            type == IF Asked.cmd = "TYPE" /\ code = 2 THEN Asked.arg ELSE srv.type
            dir  == IF Asked.cmd = "CWD" /\ code = 2 THEN Asked.arg ELSE srv.dir
            port == IF Asked.cmd = "PASV" THEN code = 2 ELSE srv.port /\ Asked.cmd \notin Sending
<1>9. srv' = [srv EXCEPT !.login = login, !.type = type, !.dir = dir, !.port = port,
                         !.started = code = 1]
  BY <1>1, Zenon DEF Serve
<1>10. login \in {srv.login, "user", "in"} /\ (login = "in" => srv.login = "in" \/ (Asked.cmd = "PASS" /\ code = 2))
  OBVIOUS
<1>11. type \in {"A", "I"} /\ dir \in Dir /\ port \in BOOLEAN
  BY <1>1, <1>2, <1>6, <1>8 DEF Session, Valid
<1>. HIDE DEF login, type, dir, port
<1>12. /\ srv' \in Session /\ srv'.type = type /\ srv'.dir = dir /\ srv'.login = login
       /\ srv'.started = (code = 1)
  BY <1>8, <1>9, <1>10, <1>11 DEF Session
<1>13. files' \in [Dir \X File -> Status]
  <2>1. Begun \in Status
    BY DEF Begun, Status
  <2>2. \A s \in Status : Ended(s) \in Status
    BY DEF Ended, Status
  <2>3. files' \in {files, [files EXCEPT ![Place] = Begun], [files EXCEPT ![Place] = Ended(files[Place])],
                   [files EXCEPT ![Place] = Ended(Begun)]}
    BY <1>1, Zenon DEF Serve
  <2>4. Place \in Dir \X File => files[Place] \in Status
    BY <1>8
  <2>. HIDE DEF Begun, Ended, Place
  <2>. QED  BY <1>8, <2>1, <2>2, <2>3, <2>4
<1>14. made' \subseteq Dir
  BY <1>1, <1>2, <1>8 DEF Serve, Valid
<1>. QED  BY <1>1, <1>2, <1>3, <1>6, <1>7, <1>10, <1>12, <1>13, <1>14 DEF type, dir

\* A reply to a command that is not a transfer: it is the one at the head.
LEMMA Answers ==
  ASSUME NEW F, Well(F), NEW code \in Code, NEW C, Reads(code, C), C \cap (Sending2 \cup {"aborted"}) = {}
  PROVE  /\ Answered = Asked /\ Answered.cmd \in C
         /\ C \cap Sending = {} => code # 1
<1>1. Reply(code) /\ HeadIs(ftp.queue, C)
  BY DEF Reads
<1>2. Waiting(ftp, srv) /\ (code = 1 => Asked.cmd \in Sending)
  BY <1>1, ReplyFacts
<1>3. Answered.cmd \in C
  BY <1>1 DEF HeadIs, Answered
<1>4. Asked.cmd \in Sending /\ Answered = Accepted(Asked) => Answered.cmd \in Sending2
  <2>. SUFFICES ASSUME Asked.cmd \in Sending, Answered = Accepted(Asked)
                PROVE  Answered.cmd \in Sending2
    OBVIOUS
  <2>1. Asked \in Queued
    BY <1>1, ReplyFacts, Types
  <2>. QED  BY <2>1 DEF Accepted, Sending, Sending2, Queued
<1>5. Answered = Asked
  BY <1>2, <1>3, <1>4 DEF Waiting, Answered, Asked
<1>. QED  BY <1>2, <1>3, <1>5

LEMMA NoEntries == \A S : <<>> \in Seq(S)
OBVIOUS

LEMMA TailOfOne ==
  ASSUME NEW S, NEW s \in Seq(S), Len(s) = 1
  PROVE  s # <<>> /\ Tail(s) = <<>> /\ Tail(s) \in Seq(S)
<1>1. s # <<>>
  OBVIOUS
<1>2. Tail(s) \in Seq(S) /\ Len(Tail(s)) = 0
  BY <1>1, HeadTailProperties
<1>. QED  BY <1>1, <1>2, EmptySeq

Storable == {"CWD", "MKD", "TYPE", "PASV", "XSHA1"}

\* The client when the head of the queue has been shifted.
LEMMA PoppedOp ==
  ASSUME NEW F, Well(F), NEW code \in Code, Reply(code),
         Answered.cmd \in Forgettable \cup Storable
  PROVE  LET o == Popped(code)
         IN  /\ o \in Holding(F) /\ Alike(o, ftp) /\ o.queue = Tail(ftp.queue)
             /\ o.isReady = FALSE /\ (code # 1 => o.wire = <<>>)
<1>. DEFINE h == Heard(ftp, code)
           d == Discard(h, Head(h.queue))
           t == Tail(d.queue)
           o == Popped(code)
           wire == IF code = 1 \/ ftp.wire = <<>> THEN ftp.wire ELSE Tail(ftp.wire)
<1>1. /\ ftp \in Client /\ ftp.queue \in Seq(Valid(F)) /\ ftp.trash \in Seq(Keepable(F))
      /\ ftp.wire \in Seq(Queued) /\ ftp.queue # <<>> /\ Answered \in Valid(F)
      /\ Len(ftp.wire) = 1 /\ ~ftp.isReady /\ ftp.queue \in Seq(Queued)
  BY ReplyFacts, HoldingTypes DEF Well, Waiting
<1>2. wire \in Seq(Queued) /\ (code # 1 => wire = <<>>)
  <2>1. ftp.wire # <<>> /\ Tail(ftp.wire) = <<>> /\ Tail(ftp.wire) \in Seq(Queued)
    BY <1>1, TailOfOne
  <2>. QED  BY <1>1, <2>1
<1>3. h = [ftp EXCEPT !.timeout = None, !.wire = wire]
  BY Zenon DEF Heard
<1>. HIDE DEF wire
<1>4. /\ h \in Client /\ Alike(h, ftp) /\ h.queue = ftp.queue /\ h.trash = ftp.trash
      /\ h.wire = wire /\ h.isReady = FALSE
  <2>1. ftp.isReady = FALSE
    BY <1>1 DEF Client
  <2>. QED  BY <1>1, <1>2, <1>3, <2>1 DEF Client, Alike
<1>. HIDE DEF h
<1>5. /\ d \in Client /\ Alike(d, ftp) /\ d.queue = ftp.queue /\ d.wire = wire /\ d.isReady = FALSE
      /\ d.trash \in Seq(Keepable(F))
  <2>1. Head(h.queue) = Answered
    BY <1>4 DEF Answered
  <2>2. CASE Answered.cmd \in Forgettable
    BY <1>1, <1>4, <2>1, <2>2 DEF Discard
  <2>3. CASE Answered.cmd \notin Forgettable
    <3>. DEFINE a == Append(h.trash, Answered)
    <3>1. d = [h EXCEPT !.trash = a]
      BY <2>1, <2>3 DEF Discard
    <3>2. Answered \in Keepable(F)
      BY <1>1, <2>3 DEF Keepable, Storable
    <3>3. a \in Seq(Keepable(F))
      BY <1>1, <1>4, <3>2, AppendProperties
    <3>4. a \in Seq(Queued)
      <4>1. Keepable(F) \subseteq Queued
        BY Types
      <4>. QED  BY <3>3, <4>1, SeqSubset
    <3>. HIDE DEF a
    <3>. QED  BY <1>4, <3>1, <3>3, <3>4 DEF Client, Alike
  <2>. QED  BY <2>2, <2>3
<1>. HIDE DEF d
<1>6. o = [d EXCEPT !.queue = t]
  BY Zenon DEF Popped, Shifted, d, h
<1>7. t = Tail(ftp.queue) /\ t \in Seq(Valid(F)) /\ t \in Seq(Queued)
  BY <1>1, <1>5, HeadTailProperties
<1>. HIDE DEF t
<1>8. o \in Client /\ o.queue = t /\ o.trash = d.trash /\ Alike(o, d) /\ o.wire = d.wire /\ o.isReady = FALSE
  BY <1>5, <1>6, <1>7 DEF Client, Alike
<1>. HIDE DEF o
<1>. QED  BY <1>2, <1>5, <1>7, <1>8 DEF Holding, Alike, o

\* It is ready for the next command, unless it was logging in.
LEMMA PoppedStartable ==
  ASSUME NEW F, Well(F), NEW code \in Code, Reply(code), code # 1,
         Answered.cmd \in (Forgettable \cup Storable) \ (LoginCmds \cup {"goodbye"})
  PROVE  /\ Startable(Popped(code), F)
         /\ ftp.legitClose => ~HeadIs(Popped(code).queue, {"USER", "PASS"})
<1>1. /\ ftp.queue \in Seq(Queued) /\ ftp.queue # <<>> /\ Arranged(ftp) /\ ftp.link = "up"
  BY ReplyFacts, HoldingTypes DEF Well
<1>2. LET o == Popped(code)
      IN  o \in Holding(F) /\ Alike(o, ftp) /\ o.queue = Tail(ftp.queue) /\ o.wire = <<>>
  BY PoppedOp
<1>3. /\ Placed(Tail(ftp.queue)) /\ ~Stuck(Tail(ftp.queue))
      /\ ftp.legitClose => /\ Fresh(Tail(ftp.queue))
                           /\ ~HeadIs(Tail(ftp.queue), Sending2 \cup {"goodbye", "USER", "PASS"})
  BY <1>1, PlacedTail DEF Arranged, Answered
<1>. QED  BY <1>1, <1>2, <1>3 DEF Startable, Alike, Arranged, HeadIs

\* The end of a handler that has changed nothing but the beliefs, and those
\* with the session.
Beliefs(o, sv) == o.transferMode \in {"", sv.type} /\ (sv.login = "in" => o.currentWorkingDir \in {"", sv.dir})

LEMMA ProceedWell ==
  ASSUME NEW F, Well(F), NEW code \in Code, Reply(code), NEW o, Startable(o, F),
         o.isConnected = ftp.isConnected, o.isReconnecting = ftp.isReconnecting,
         o.legitClose = ftp.legitClose,
         ftp.legitClose /\ HeadIs(o.queue, {"USER", "PASS"}) => o.currentWorkingDir = "",
         Beliefs(o, srv'), NEW p, p = Proceed(o)
  PROVE  p \in Holding(F) /\ Sound(p, srv')
<1>1. o.link = "up" /\ o.isConnected /\ ~o.isReconnecting /\ F \subseteq File
  BY ReplyFacts DEF Startable, Waiting
<1>2. Believes(o, srv')
  BY DEF Believes, Beliefs
<1>3. Started(p, o, F)
  BY <1>1, ProceedStarts
<1>. QED  BY <1>1, <1>2, <1>3, StartedSound

-----------------------------------------------------------------------------
(* The handlers of replies.                                                *)

Kept(F) == ftp' \in Holding(F) /\ (Orderly' => Sound(ftp', srv'))

LEMMA BeliefsAfter ==
  ASSUME NEW F, Well(F), NEW code \in Code, NEW C, Reads(code, C),
         C \cap (Sending2 \cup {"aborted", "PASS", "TYPE", "CWD"}) = {}
  PROVE  Beliefs(ftp, srv')
<1>1. Reply(code) /\ Answered = Asked /\ Answered.cmd \in C
  BY Answers DEF Reads
<1>. QED  BY <1>1, ReplyFacts DEF Believes, Beliefs

LEMMA PwdSound == ASSUME NEW F, Well(F), ReadPwd PROVE Kept(F)
<1>1. PICK code \in Code : Reads(code, {"PWD"}) /\
        ftp' = LET o == [Popped(code) EXCEPT !.trash = <<>>] IN
               Proceed(IF code = 2 THEN [o EXCEPT !.currentWorkingDir = srv.dir]
                                   ELSE [o EXCEPT !.reported = TRUE])
  BY Zenon DEF ReadPwd
<1>. DEFINE o == Popped(code)
            p == [o EXCEPT !.trash = <<>>]
            r == IF code = 2 THEN [p EXCEPT !.currentWorkingDir = srv.dir]
                             ELSE [p EXCEPT !.reported = TRUE]
<1>2. Reply(code) /\ code # 1 /\ Answered = Asked /\ Answered.cmd = "PWD" /\ ftp' = Proceed(r)
  <2>1. {"PWD"} \cap (Sending2 \cup {"aborted"}) = {} /\ {"PWD"} \cap Sending = {}
    BY DEF Sending, Sending2
  <2>. QED  BY <1>1, <2>1, Answers DEF Reads
<1>3. Startable(o, F) /\ (ftp.legitClose => ~HeadIs(o.queue, {"USER", "PASS"})) /\ Alike(o, ftp)
  BY <1>2, PoppedStartable, PoppedOp DEF Forgettable, Storable, LoginCmds
<1>4. Beliefs(ftp, srv') /\ srv'.dir = srv.dir
  <2>1. {"PWD"} \cap (Sending2 \cup {"aborted", "PASS", "TYPE", "CWD"}) = {}
    BY DEF Sending2
  <2>. QED  BY <1>1, <1>2, <2>1, BeliefsAfter, ReplyFacts
<1>. HIDE DEF o
<1>5. /\ r \in Client /\ r.queue = o.queue /\ r.wire = o.wire /\ r.link = o.link
      /\ r.trash = <<>> /\ r.legitClose = o.legitClose /\ r.isConnected = o.isConnected
      /\ r.isReconnecting = o.isReconnecting /\ r.transferMode = o.transferMode
      /\ r.currentWorkingDir \in {o.currentWorkingDir, srv.dir}
  <2>1. o \in Client /\ srv.dir \in Dir
    BY <1>3, HoldingTypes DEF Startable, Well, TypeOK, Session
  <2>2. p = [o EXCEPT !.trash = <<>>] /\ <<>> \in Seq(Queued)
    BY NoEntries
  <2>. QED  BY <2>1, <2>2 DEF Client
<1>. HIDE DEF r
<1>6. Startable(r, F)
  BY <1>3, <1>5, NoEntries DEF Startable, Holding, Arranged
<1>7. Beliefs(r, srv')
  BY <1>3, <1>4, <1>5 DEF Beliefs, Alike
<1>. QED  BY <1>2, <1>3, <1>5, <1>6, <1>7, ProceedWell DEF Kept, Alike

\* A reply that the handler only reports, if anything.
LEMMA PlainReply ==
  ASSUME NEW F, Well(F), NEW code \in Code, NEW c, Reads(code, {c}),
         c \in {"FEAT", "MKD", "NOOP", "XSHA1"},
         NEW r \in Client, r.queue = Popped(code).queue, r.wire = Popped(code).wire,
         r.trash \in {<<>>, Popped(code).trash}, Alike(r, Popped(code)),
         ftp' = Proceed(r)
  PROVE  Kept(F)
<1>. DEFINE o == Popped(code)
<1>1. {c} \cap (Sending2 \cup {"aborted", "PASS", "TYPE", "CWD"}) = {} /\ {c} \cap Sending = {}
      /\ {c} \cap (Sending2 \cup {"aborted"}) = {}
  BY DEF Sending, Sending2
<1>2. Reply(code) /\ code # 1 /\ Answered.cmd = c
  BY <1>1, Answers DEF Reads
<1>3. Startable(o, F) /\ (ftp.legitClose => ~HeadIs(o.queue, {"USER", "PASS"})) /\ Alike(o, ftp)
  <2>1. c \in (Forgettable \cup Storable) \ (LoginCmds \cup {"goodbye"})
    BY DEF Forgettable, Storable, LoginCmds
  <2>. QED  BY <1>2, <2>1, PoppedStartable, PoppedOp
<1>4. Beliefs(ftp, srv')
  BY <1>1, BeliefsAfter
<1>. HIDE DEF o
<1>5. Startable(r, F)
  BY <1>3, NoEntries DEF Startable, Holding, Arranged, Alike, o
<1>6. Beliefs(r, srv')
  BY <1>3, <1>4 DEF Beliefs, Alike, o
<1>. QED  BY <1>2, <1>3, <1>5, <1>6, ProceedWell DEF Kept, Alike, o

LEMMA ReportOp ==
  ASSUME NEW o \in Client, NEW code, NEW good
  PROVE  LET r == Report(o, code, good)
         IN  /\ r \in Client /\ Alike(r, o) /\ r.queue = o.queue /\ r.wire = o.wire
             /\ r.trash = o.trash
<1>. DEFINE v == o.reported \/ code # good
<1>1. Report(o, code, good) = [o EXCEPT !.reported = v] /\ v \in BOOLEAN
  BY DEF Report, Client
<1>. HIDE DEF v
<1>. QED  BY <1>1 DEF Client, Alike

LEMMA PoppedClient ==
  ASSUME NEW F, Well(F), NEW code \in Code, Reply(code),
         Answered.cmd \in Forgettable \cup Storable
  PROVE  Popped(code) \in Client
BY PoppedOp, HoldingTypes

LEMMA FeatSound == ASSUME NEW F, Well(F), ReadFeat PROVE Kept(F)
<1>1. PICK code \in Code : Reads(code, {"FEAT"}) /\
        ftp' = Proceed(Report([Popped(code) EXCEPT !.featXCheck = @ \/ (code = 2 /\ XCheck)],
                              code, 2))
  BY Zenon DEF ReadFeat
<1>. DEFINE o == Popped(code)  v == o.featXCheck \/ (code = 2 /\ XCheck)
            p == [o EXCEPT !.featXCheck = v]
<1>2. o \in Client
  BY <1>1, PoppedClient DEF Reads, HeadIs, Answered, Forgettable
<1>3. p \in Client /\ Alike(p, o) /\ p.queue = o.queue /\ p.wire = o.wire /\ p.trash = o.trash
  <2>1. v \in BOOLEAN
    BY <1>2 DEF Client
  <2>. HIDE DEF o, v
  <2>. QED  BY <1>2, <2>1 DEF Client, Alike
<1>4. ftp' = Proceed(Report(p, code, 2))
  BY <1>1, Zenon
<1>. HIDE DEF p
<1>5. LET r == Report(p, code, 2)
      IN  r \in Client /\ Alike(r, o) /\ r.queue = o.queue /\ r.wire = o.wire /\ r.trash = o.trash
  BY <1>3, ReportOp DEF Alike
<1>. QED  BY <1>1, <1>4, <1>5, PlainReply

LEMMA MkdSound == ASSUME NEW F, Well(F), ReadMkd PROVE Kept(F)
<1>1. PICK code \in Code : Reads(code, {"MKD"}) /\
        ftp' = Proceed(Report([Popped(code) EXCEPT !.trash = <<>>], code, 2))
  BY Zenon DEF ReadMkd
<1>. DEFINE o == Popped(code)  p == [o EXCEPT !.trash = <<>>]
<1>2. o \in Client
  BY <1>1, PoppedClient DEF Reads, HeadIs, Answered, Storable
<1>3. p \in Client /\ Alike(p, o) /\ p.queue = o.queue /\ p.wire = o.wire /\ p.trash = <<>>
  <2>. HIDE DEF o
  <2>. QED  BY <1>2, NoEntries DEF Client, Alike
<1>4. ftp' = Proceed(Report(p, code, 2))
  BY <1>1, Zenon
<1>. HIDE DEF p
<1>5. LET r == Report(p, code, 2)
      IN  r \in Client /\ Alike(r, o) /\ r.queue = o.queue /\ r.wire = o.wire /\ r.trash = <<>>
  BY <1>3, ReportOp DEF Alike
<1>. QED  BY <1>1, <1>4, <1>5, PlainReply

LEMMA OtherSound == ASSUME NEW F, Well(F), ReadOther PROVE Kept(F)
<1>1. PICK code \in Code : Reads(code, {"NOOP", "XSHA1"}) /\
        ftp' = Proceed(Report(Popped(code), code, 2))
  BY Zenon DEF ReadOther
<1>2. PICK c \in {"NOOP", "XSHA1"} : Reads(code, {c})
  BY <1>1 DEF Reads, HeadIs
<1>. DEFINE o == Popped(code)
<1>3. o \in Client
  BY <1>1, PoppedClient DEF Reads, HeadIs, Answered, Forgettable, Storable
<1>. HIDE DEF o
<1>4. LET r == Report(o, code, 2)
      IN  r \in Client /\ Alike(r, o) /\ r.queue = o.queue /\ r.wire = o.wire /\ r.trash = o.trash
  BY <1>3, ReportOp
<1>. QED  BY <1>1, <1>2, <1>4, PlainReply DEF o

\* What an upload adds to the queue.
Entries(o, f) == (IF DirOf[f] \notin {Root, o.currentWorkingDir} THEN MakeDirectory(DirOf[f]) ELSE <<>>)
                 \o UploadCommands(o, f)

LEMMA PlainEntries ==
  ASSUME NEW F, F \subseteq File,
         NEW s \in Seq({e \in Valid(F) : e.cmd \notin Special \cup {"USER", "PASS"}})
  PROVE  s \in Seq(Valid(F)) /\ s \in Seq(Queued) /\ Plain(s)
<1>. DEFINE P == {e \in Valid(F) : e.cmd \notin Special \cup {"USER", "PASS"}}
<1>1. P \subseteq Valid(F) /\ P \subseteq Queued
  BY Types
<1>2. Plain(s)
  BY DEF Plain
<1>. HIDE DEF P
<1>. QED  BY <1>1, <1>2, SeqSubset DEF P

LEMMA UploadEntries ==
  ASSUME NEW F, F \subseteq File, NEW f \in F, NEW o
  PROVE  /\ Entries(o, f) \in Seq(Valid(F)) /\ Plain(Entries(o, f))
         /\ <<Entry("CWD", DirOf[f], f)>> \in Seq(Valid(F)) /\ Plain(<<Entry("CWD", DirOf[f], f)>>)
         /\ Entries(o, f) \in Seq(Queued) /\ <<Entry("CWD", DirOf[f], f)>> \in Seq(Queued)
<1>. DEFINE P == {e \in Valid(F) : e.cmd \notin Special \cup {"USER", "PASS"}}
            d == DirOf[f]
<1>1. /\ f \in File /\ d \in Dir /\ Root \in Dir /\ d \notin File /\ Root \notin File
      /\ None \notin File /\ "I" \notin File
  BY DirAssumption, FileAssumption
<1>. HIDE DEF d
<1>2. /\ Entry("CWD", d, None) \in P /\ Entry("TYPE", "I", None) \in P /\ Bare("PASV") \in P
      /\ Entry("STOR", f, None) \in P /\ Entry("XSHA1", f, None) \in P
      /\ Entry("CWD", Root, None) \in P /\ Entry("MKD", d, None) \in P /\ Entry("CWD", d, f) \in P
  BY <1>1 DEF Entry, Bare, Valid, Queued, Command, Arg, Transfers, Sending, Sending2, Special
<1>. HIDE DEF P
<1>3. MakeDirectory(d) \in Seq(P)
  BY <1>2 DEF MakeDirectory
<1>4. UploadCommands(o, f) \in Seq(P)
  <2>. DEFINE a == <<Entry("CWD", d, None), Entry("TYPE", "I", None), Bare("PASV"),
                     Entry("STOR", f, None)>>
              b == IF o.featXCheck THEN <<Entry("XSHA1", f, None)>> ELSE <<>>
  <2>1. UploadCommands(o, f) = a \o b
    BY Zenon DEF UploadCommands, d
  <2>2. a \in Seq(P)
    BY <1>2
  <2>3. b \in Seq(P)
    BY <1>2
  <2>. HIDE DEF a, b
  <2>. QED  BY <2>1, <2>2, <2>3, ConcatProperties
<1>5. Entries(o, f) \in Seq(P)
  <2>. DEFINE a == IF d \notin {Root, o.currentWorkingDir} THEN MakeDirectory(d) ELSE <<>>
  <2>1. a \in Seq(P)
    BY <1>3, NoEntries
  <2>2. Entries(o, f) = a \o UploadCommands(o, f)
    BY Zenon DEF Entries, d
  <2>. HIDE DEF a
  <2>. QED  BY <1>4, <2>1, <2>2, ConcatProperties
<1>6. <<Entry("CWD", d, f)>> \in Seq(P)
  BY <1>2
<1>. QED  BY <1>5, <1>6, PlainEntries DEF P, d

LEMMA UploadIs ==
  ASSUME NEW o, NEW f
  PROVE  /\ FtpUploadFile(o, f) = WriteControl(Add(o, Entries(o, f)))
         /\ ChangeDirThenUpload(o, f) = WriteControl(Add(o, <<Entry("CWD", DirOf[f], f)>>))
BY Zenon DEF FtpUploadFile, ChangeDirThenUpload, Entries

LEMMA AddOp ==
  ASSUME NEW F, F \subseteq File, NEW o \in Holding(F), NEW s \in Seq(Valid(F)), Plain(s)
  PROVE  LET r == Add(o, s)
         IN  /\ r \in Holding(F) /\ Alike(r, o) /\ r.wire = o.wire /\ r.isReady = o.isReady
             /\ r.timeout = o.timeout /\ r.transfer = o.transfer
             /\ r.queue = o.queue \o s
             /\ Arranged(o) => Arranged(r)
             /\ o.queue # <<>> => r.queue # <<>> /\ Head(r.queue) = Head(o.queue)
             /\ o.queue = <<>> => r.queue = s /\ ~HeadIs(r.queue, Special \cup {"USER", "PASS"})
             /\ Stuck(r.queue) => Stuck(o.queue)
<1>. DEFINE q == o.queue \o s  r == Add(o, s)
<1>1. /\ o \in Client /\ o.queue \in Seq(Queued) /\ s \in Seq(Queued) /\ o.queue \in Seq(Valid(F))
      /\ o.trash \in Seq(Keepable(F))
  <2>1. s \in Seq(Queued)
    BY SeqSubset, Types
  <2>. QED  BY <2>1, HoldingTypes
<1>2. q \in Seq(Queued) /\ q \in Seq(Valid(F))
  BY <1>1, ConcatProperties
<1>3. /\ Placed(o.queue) => Placed(q)
      /\ Fresh(o.queue) => Fresh(q)
      /\ o.queue # <<>> => q # <<>> /\ Head(q) = Head(o.queue)
      /\ o.queue = <<>> => q = s
      /\ ~HeadIs(s, Special \cup {"USER", "PASS"})
      /\ Stuck(q) => Stuck(o.queue)
  BY <1>1, PlacedAdd, PlacedPlain
<1>4. r = [o EXCEPT !.queue = q]
  BY Zenon DEF Add
<1>. HIDE DEF q
<1>5. /\ r \in Client /\ Alike(r, o) /\ r.wire = o.wire /\ r.isReady = o.isReady /\ r.queue = q
      /\ r.trash = o.trash /\ r.timeout = o.timeout /\ r.transfer = o.transfer
  BY <1>1, <1>2, <1>4 DEF Client, Alike
<1>. HIDE DEF r
<1>6. r \in Holding(F)
  BY <1>1, <1>2, <1>5 DEF Holding
<1>7. Arranged(o) => Arranged(r)
  BY <1>3, <1>5 DEF Arranged, Alike
<1>8. Stuck(r.queue) => Stuck(o.queue)
  BY <1>3, <1>5
<1>. QED  BY <1>3, <1>5, <1>6, <1>7, <1>8 DEF r, q

LEMMA AddStartable ==
  ASSUME NEW F, F \subseteq File, NEW o, Startable(o, F), NEW s \in Seq(Valid(F)), Plain(s)
  PROVE  /\ Startable(Add(o, s), F)
         /\ HeadIs(Add(o, s).queue, {"USER", "PASS"}) => HeadIs(o.queue, {"USER", "PASS"})
<1>. DEFINE r == Add(o, s)
<1>1. /\ r \in Holding(F) /\ Alike(r, o) /\ r.wire = o.wire /\ Arranged(r)
      /\ o.queue # <<>> => r.queue # <<>> /\ Head(r.queue) = Head(o.queue)
      /\ Stuck(r.queue) => Stuck(o.queue)
      /\ o.queue = <<>> => ~HeadIs(r.queue, Special \cup {"USER", "PASS"})
  BY AddOp DEF Startable
<1>. HIDE DEF r
<1>. QED  BY <1>1 DEF Startable, Alike, HeadIs, r

LEMMA CwdSound == ASSUME NEW F, Well(F), ReadCwd PROVE Kept(F)
<1>1. PICK code \in Code : Reads(code, {"CWD"}) /\
        LET o == IF code = 2 THEN [Popped(code) EXCEPT !.currentWorkingDir = Answered.arg]
                             ELSE Popped(code)
        IN  ftp' = Proceed(IF Answered.then = None THEN o ELSE FtpUploadFile(o, Answered.then))
  BY Zenon DEF ReadCwd
<1>. DEFINE q == Popped(code)
            o == IF code = 2 THEN [q EXCEPT !.currentWorkingDir = Answered.arg] ELSE q
            r == IF Answered.then = None THEN o ELSE FtpUploadFile(o, Answered.then)
<1>2. Reply(code) /\ code # 1 /\ Answered = Asked /\ Answered.cmd = "CWD" /\ ftp' = Proceed(r)
  <2>1. {"CWD"} \cap (Sending2 \cup {"aborted"}) = {} /\ {"CWD"} \cap Sending = {}
    BY DEF Sending, Sending2
  <2>. QED  BY <1>1, <2>1, Answers DEF Reads
<1>3. /\ Startable(q, F) /\ (ftp.legitClose => ~HeadIs(q.queue, {"USER", "PASS"})) /\ Alike(q, ftp)
      /\ q.isReady = FALSE
  BY <1>2, PoppedStartable, PoppedOp DEF Forgettable, Storable, LoginCmds
<1>4. /\ srv'.type = srv.type /\ srv'.dir = IF code = 2 THEN Answered.arg ELSE srv.dir
      /\ srv'.login = "in" => srv.login = "in"
      /\ Believes(ftp, srv) /\ F \subseteq File
      /\ Answered.arg \in Dir /\ Answered.then \in {None} \cup F
  BY <1>2, ReplyFacts DEF Valid
<1>. HIDE DEF q
<1>5. /\ o \in Holding(F) /\ o.queue = q.queue /\ o.wire = q.wire /\ o.link = q.link
      /\ o.legitClose = q.legitClose /\ o.isConnected = q.isConnected
      /\ o.isReconnecting = q.isReconnecting /\ o.transferMode = q.transferMode
      /\ o.currentWorkingDir = IF code = 2 THEN Answered.arg ELSE q.currentWorkingDir
      /\ o.isReady = FALSE
  <2>1. q \in Client /\ q \in Holding(F)
    BY <1>3, HoldingTypes DEF Startable
  <2>2. CASE code = 2
    BY <1>3, <1>4, <2>1, <2>2 DEF Client, Holding
  <2>3. CASE code # 2
    BY <1>3, <2>1, <2>3
  <2>. QED  BY <2>2, <2>3
<1>. HIDE DEF o
<1>6. Startable(o, F) /\ Beliefs(o, srv')
  BY <1>3, <1>4, <1>5 DEF Startable, Arranged, Beliefs, Believes, Alike
<1>7. /\ Startable(r, F) /\ Alike(r, o)
      /\ HeadIs(r.queue, {"USER", "PASS"}) => HeadIs(o.queue, {"USER", "PASS"})
  <2>1. CASE Answered.then = None
    BY <1>6, <2>1 DEF Alike
  <2>2. CASE Answered.then # None
    <3>. DEFINE s == Entries(o, Answered.then)  a == Add(o, s)
    <3>1. s \in Seq(Valid(F)) /\ Plain(s)
      BY <1>4, <2>2, UploadEntries
    <3>2. r = WriteControl(a)
      BY <2>2, UploadIs
    <3>. HIDE DEF s
    <3>3. a.isReady = FALSE /\ Alike(a, o)
      BY <1>4, <1>5, <3>1, AddOp
    <3>4. Startable(a, F) /\ (HeadIs(a.queue, {"USER", "PASS"}) => HeadIs(o.queue, {"USER", "PASS"}))
      BY <1>4, <1>6, <3>1, AddStartable
    <3>. HIDE DEF a
    <3>5. WriteControl(a) = a
      BY <3>3, WriteControlIs
    <3>. QED  BY <3>2, <3>3, <3>4, <3>5
  <2>. QED  BY <2>1, <2>2
<1>. HIDE DEF r
<1>8. Beliefs(r, srv')
  BY <1>6, <1>7 DEF Beliefs, Alike
<1>. QED  BY <1>2, <1>3, <1>5, <1>7, <1>8, ProceedWell DEF Kept, Alike

LEMMA TypeSound == ASSUME NEW F, Well(F), ReadType PROVE Kept(F)
<1>1. PICK code \in Code : Reads(code, {"TYPE"}) /\
        ftp' = Proceed(IF code = 2 THEN [Popped(code) EXCEPT !.transferMode = Answered.arg]
                                   ELSE Report(Popped(code), code, 2))
  BY Zenon DEF ReadType
<1>. DEFINE o == Popped(code)
            r == IF code = 2 THEN [o EXCEPT !.transferMode = Answered.arg] ELSE Report(o, code, 2)
<1>2. Reply(code) /\ code # 1 /\ Answered = Asked /\ Answered.cmd = "TYPE" /\ ftp' = Proceed(r)
  <2>1. {"TYPE"} \cap (Sending2 \cup {"aborted"}) = {} /\ {"TYPE"} \cap Sending = {}
    BY DEF Sending, Sending2
  <2>. QED  BY <1>1, <2>1, Answers DEF Reads
<1>3. Startable(o, F) /\ (ftp.legitClose => ~HeadIs(o.queue, {"USER", "PASS"})) /\ Alike(o, ftp)
  BY <1>2, PoppedStartable, PoppedOp DEF Forgettable, Storable, LoginCmds
<1>4. /\ srv'.type = (IF code = 2 THEN Answered.arg ELSE srv.type) /\ srv'.dir = srv.dir
      /\ srv'.login = "in" => srv.login = "in"
      /\ Believes(ftp, srv) /\ Answered.arg \in {"A", "I"}
  BY <1>2, ReplyFacts DEF Valid
<1>. HIDE DEF o
<1>5. /\ r \in Holding(F) /\ r.queue = o.queue /\ r.wire = o.wire /\ r.link = o.link
      /\ r.legitClose = o.legitClose /\ r.isConnected = o.isConnected
      /\ r.isReconnecting = o.isReconnecting /\ r.currentWorkingDir = o.currentWorkingDir
      /\ r.transferMode = IF code = 2 THEN Answered.arg ELSE o.transferMode
  <2>1. o \in Client /\ o \in Holding(F)
    BY <1>3, HoldingTypes DEF Startable
  <2>2. CASE code = 2
    BY <1>4, <2>1, <2>2 DEF Client, Holding
  <2>3. CASE code # 2
    <3>1. r = Report(o, code, 2)
      BY <2>3
    <3>. QED  BY <2>1, <2>3, <3>1, ReportOp DEF Alike, Holding
  <2>. QED  BY <2>2, <2>3
<1>. HIDE DEF r
<1>6. Startable(r, F)
  BY <1>3, <1>5 DEF Startable, Arranged
<1>7. Beliefs(r, srv')
  BY <1>3, <1>4, <1>5 DEF Beliefs, Believes, Alike
<1>. QED  BY <1>2, <1>3, <1>5, <1>6, <1>7, ProceedWell DEF Kept, Alike

LEMMA PasvSound == ASSUME NEW F, Well(F), ReadPasv PROVE Kept(F)
<1>1. PICK code \in Code : Reads(code, {"PASV"}) /\
        ftp' = LET o == Popped(code) IN
               Proceed(IF code # 2 THEN [o EXCEPT !.reported = TRUE]
                       ELSE [o EXCEPT !.data = IF HeadIs(o.queue, Sending) THEN "busy" ELSE "killed"])
  BY Zenon DEF ReadPasv
<1>. DEFINE o == Popped(code)
            d == IF HeadIs(o.queue, Sending) THEN "busy" ELSE "killed"
            r == IF code # 2 THEN [o EXCEPT !.reported = TRUE] ELSE [o EXCEPT !.data = d]
<1>2. Reply(code) /\ code # 1 /\ Answered = Asked /\ Answered.cmd = "PASV" /\ ftp' = Proceed(r)
  <2>1. {"PASV"} \cap (Sending2 \cup {"aborted"}) = {} /\ {"PASV"} \cap Sending = {}
    BY DEF Sending, Sending2
  <2>. QED  BY <1>1, <2>1, Answers DEF Reads
<1>3. Startable(o, F) /\ (ftp.legitClose => ~HeadIs(o.queue, {"USER", "PASS"})) /\ Alike(o, ftp)
  BY <1>2, PoppedStartable, PoppedOp DEF Forgettable, Storable, LoginCmds
<1>4. Beliefs(ftp, srv')
  <2>1. {"PASV"} \cap (Sending2 \cup {"aborted", "PASS", "TYPE", "CWD"}) = {}
    BY DEF Sending2
  <2>. QED  BY <1>1, <2>1, BeliefsAfter
<1>. HIDE DEF o
<1>5. r \in Client /\ Alike(r, o) /\ r.queue = o.queue /\ r.wire = o.wire /\ r.trash = o.trash
  <2>1. o \in Client /\ d \in {None, "busy", "sent", "killed"}
    BY <1>3, HoldingTypes DEF Startable
  <2>. HIDE DEF d
  <2>. QED  BY <2>1 DEF Client, Alike
<1>. HIDE DEF r
<1>6. Startable(r, F) /\ Beliefs(r, srv')
  BY <1>3, <1>4, <1>5 DEF Startable, Holding, Arranged, Alike, Beliefs
<1>. QED  BY <1>2, <1>3, <1>5, <1>6, ProceedWell DEF Kept, Alike

\* Nothing is believed of the session while an aborted command's reply is due.
LEMMA AbortedSound == ASSUME NEW F, Well(F), ReadAborted PROVE Kept(F)
<1>1. PICK code \in Code : /\ Reads(code, {"aborted"}) /\ ftp' = Proceed(Popped(code))
                           /\ disorder' = (code = 1)
  BY Zenon DEF ReadAborted
<1>. DEFINE o == Popped(code)
<1>2. Reply(code) /\ Answered.cmd = "aborted"
  BY <1>1 DEF Reads, HeadIs, Answered
<1>3. o \in Holding(F) /\ Alike(o, ftp) /\ F \subseteq File
  BY <1>2, PoppedOp, ReplyFacts DEF Forgettable
<1>4. CASE code = 1
  <2>. HIDE DEF o
  <2>1. ftp' \in Holding(F) /\ ~Orderly'
    BY <1>1, <1>3, <1>4, WriteControlHolds DEF Orderly, o
  <2>. QED  BY <2>1 DEF Kept
<1>5. CASE code # 1
  <2>1. Startable(o, F) /\ (ftp.legitClose => ~HeadIs(o.queue, {"USER", "PASS"}))
    BY <1>2, <1>5, PoppedStartable DEF Forgettable, LoginCmds
  <2>2. ftp.currentWorkingDir = "" /\ ftp.transferMode = ""
    <3>1. Waiting(ftp, srv) /\ Asked.cmd \notin Unasked
      BY <1>2, ReplyFacts DEF Waiting, Asked
    <3>2. Answered # Asked /\ Answered # Accepted(Asked)
      <4>1. Asked \in Queued /\ Asked.cmd # "aborted"
        BY <1>2, <3>1, ReplyFacts, Types DEF Unasked
      <4>2. Accepted(Asked).cmd \in Sending2
        BY <4>1 DEF Accepted, Sending2, Queued
      <4>. QED  BY <1>2, <4>1, <4>2 DEF Sending2
    <3>. QED  BY <3>1, <3>2 DEF Waiting, Answered, Asked
  <2>. HIDE DEF o
  <2>3. Beliefs(o, srv')
    BY <1>3, <2>2 DEF Beliefs, Alike
  <2>. QED  BY <1>1, <1>2, <1>3, <2>1, <2>2, <2>3, ProceedWell DEF Kept, Alike, o
<1>. QED  BY <1>4, <1>5

\* A SIZE changes how a transfer is asked for, and nothing else of the queue.
LEMMA RewrittenOp ==
  ASSUME NEW F, NEW q \in Seq(Valid(F)), NEW cmd \in Sending, NEW other \in Sending
  PROVE  LET r == Rewritten(q, cmd, other)
         IN  /\ r \in Seq(Valid(F))
             /\ Placed(q) => Placed(r)
             /\ Fresh(q) => Fresh(r)
             /\ \A C : C \cap Sending = {} => (HeadIs(r, C) <=> HeadIs(q, C))
             /\ Stuck(r) => Stuck(q)
             /\ Len(r) = Len(q)
             /\ \A k \in 1..Len(q) : \/ r[k].cmd = q[k].cmd
                                     \/ r[k].cmd \in Sending /\ q[k].cmd \in Sending
<1>. DEFINE at == {i \in 1..Len(q) : q[i].cmd = cmd}  r == Rewritten(q, cmd, other)
            First(i) == \A j \in at : i <= j
<1>1. CASE at = {}
  <2>1. r = q
    BY <1>1, Zenon DEF Rewritten
  <2>. QED  BY <2>1
<1>2. CASE at # {}
  <2>1. PICK i : i = CHOOSE k \in at : First(k)
    OBVIOUS
  <2>2. r = [q EXCEPT ![i].cmd = other]
    BY <1>2, <2>1, Zenon DEF Rewritten
  <2>3. \E k \in at : First(k)
    <3>1. at \in SUBSET Nat
      OBVIOUS
    <3>. HIDE DEF at
    <3>. QED  BY <1>2, <3>1, LeastNumber
  <2>4. i \in at
    <3>. HIDE DEF at, First
    <3>. QED  BY <2>1, <2>3, Zenon
  <2>5. i \in 1..Len(q) /\ q[i].cmd = cmd /\ q[i] \in Valid(F) /\ q[i] \in Queued
    BY <2>4, Types
  <2>. HIDE DEF r, at
  <2>. DEFINE e == [q[i] EXCEPT !.cmd = other]
  <2>6. e \in Valid(F) /\ e.cmd = other
    <3>1. cmd \in Command /\ other \in Command /\ other # "CWD" /\ other # "MKD" /\ other # "TYPE" /\ other # "QUIT"
          /\ cmd \in Transfers
      BY DEF Command, Transfers, Sending
    <3>2. /\ e \in Queued /\ e.arg = q[i].arg /\ e.then = q[i].then /\ e.cmd = other
      BY <2>5, <3>1 DEF Queued
    <3>. HIDE DEF e
    <3>. QED  BY <2>5, <3>1, <3>2 DEF Valid
  <2>7. r = [q EXCEPT ![i] = e]
    BY <2>2, <2>5
  <2>. HIDE DEF e
  <2>8. r \in Seq(Valid(F)) /\ Len(r) = Len(q) /\ r[i] = e /\ \A k \in 1..Len(q) : k # i => r[k] = q[k]
    BY <2>5, <2>6, <2>7
  <2>9. \A k \in 1..Len(q) : r[k].cmd = q[k].cmd \/ (r[k].cmd \in Sending /\ q[k].cmd \in Sending)
    BY <2>5, <2>6, <2>8
  <2>10. Sending \cap (Special \cup LoginCmds \cup {"goodbye", "welcome", "USER", "PASS"}) = {}
    BY DEF Sending, Special, Sending2, LoginCmds
  <2>11. \A a, b, c, d, h : May(a, b, h) /\ (c.cmd = a.cmd \/ (c.cmd \in Sending /\ a.cmd \in Sending))
                        /\ (d.cmd = b.cmd \/ (d.cmd \in Sending /\ b.cmd \in Sending)) => May(c, d, h)
    BY <2>10 DEF May, Special, LoginCmds
  <2>h. ASSUME NEW k \in 1..Len(q) PROVE Held(r, k) => Held(q, k)
    <3>1. k < Len(q) => k + 1 \in 1..Len(q)
      BY <2>8
    <3>. QED  BY <2>8, <2>9, <2>10, <3>1 DEF Held, Special
  <2>12. Placed(q) => Placed(r)
    <3>. SUFFICES ASSUME Placed(q), NEW k \in 1..Len(q), k # 1 PROVE May(r[k - 1], r[k], Held(r, k))
      BY <2>8 DEF Placed
    <3>1. k - 1 \in 1..Len(q) /\ May(q[k - 1], q[k], Held(q, k))
      BY DEF Placed
    <3>2. May(r[k - 1], r[k], Held(q, k))
      BY <2>9, <2>11, <3>1
    <3>. QED  BY <2>h, <3>2 DEF May
  <2>13. Fresh(q) => Fresh(r)
    BY <2>8, <2>9, <2>10 DEF Fresh, Special
  <2>14. ASSUME NEW C, C \cap Sending = {} PROVE HeadIs(r, C) <=> HeadIs(q, C)
    <3>1. q \in Seq(Queued) /\ r \in Seq(Queued)
      BY <2>8, SeqSubset, Types
    <3>2. Len(q) # 0 => 1 \in 1..Len(q)
      BY <2>5
    <3>. QED  BY <2>8, <2>9, <2>14, <3>1, <3>2, HeadOf
  <2>15. Stuck(r) => Stuck(q)
    <3>1. q \in Seq(Queued) /\ r \in Seq(Queued)
      BY <2>8, SeqSubset, Types
    <3>2. 1 \in 1..Len(q)
      BY <2>5
    <3>3. (r[1].cmd = "welcome" => q[1].cmd = "welcome") /\ (Held(r, 1) => Held(q, 1))
      BY <2>9, <2>10, <2>h, <3>2
    <3>. QED  BY <2>8, <3>1, <3>3, StuckHeld
  <2>. QED  BY <2>8, <2>9, <2>12, <2>13, <2>14, <2>15 DEF r
<1>. QED  BY <1>1, <1>2

LEMMA SizeSound == ASSUME NEW F, Well(F), ReadSize PROVE Kept(F)
<1>1. PICK code \in Code : Reads(code, {"SIZE"}) /\
        LET o == [Popped(code) EXCEPT !.queue =
                   IF code # 2 THEN Rewritten(@, "APPE", "STOR")
                   ELSE IF Answered.then = "STOR" THEN Rewritten(@, "STOR", "APPE") ELSE @]
        IN  ftp' = Proceed(Report(o, code, 2))
  BY Zenon DEF ReadSize
<1>. DEFINE q == Popped(code)
            t == IF code # 2 THEN Rewritten(q.queue, "APPE", "STOR")
                 ELSE IF Answered.then = "STOR" THEN Rewritten(q.queue, "STOR", "APPE") ELSE q.queue
            o == [q EXCEPT !.queue = t]
            r == Report(o, code, 2)
<1>2. Reply(code) /\ code # 1 /\ Answered.cmd = "SIZE" /\ ftp' = Proceed(r)
  <2>1. {"SIZE"} \cap (Sending2 \cup {"aborted"}) = {} /\ {"SIZE"} \cap Sending = {}
    BY DEF Sending, Sending2
  <2>2. ftp' = Proceed(r)
    BY <1>1, Zenon
  <2>. QED  BY <1>1, <2>1, <2>2, Answers DEF Reads
<1>3. Startable(q, F) /\ (ftp.legitClose => ~HeadIs(q.queue, {"USER", "PASS"})) /\ Alike(q, ftp)
  BY <1>2, PoppedStartable, PoppedOp DEF Forgettable, LoginCmds
<1>4. Beliefs(ftp, srv')
  <2>1. {"SIZE"} \cap (Sending2 \cup {"aborted", "PASS", "TYPE", "CWD"}) = {}
    BY DEF Sending2
  <2>. QED  BY <1>1, <2>1, BeliefsAfter
<1>. HIDE DEF q
<1>5. /\ t \in Seq(Valid(F)) /\ t \in Seq(Queued)
      /\ Placed(q.queue) => Placed(t)
      /\ Fresh(q.queue) => Fresh(t)
      /\ Stuck(t) => Stuck(q.queue)
      /\ HeadIs(t, {"USER", "PASS"}) <=> HeadIs(q.queue, {"USER", "PASS"})
  <2>1. q.queue \in Seq(Valid(F))
    BY <1>3, HoldingTypes DEF Startable
  <2>2. "STOR" \in Sending /\ "APPE" \in Sending /\ {"USER", "PASS"} \cap Sending = {}
    BY DEF Sending
  <2>3. PICK a \in Sending, b \in Sending : t \in {q.queue, Rewritten(q.queue, a, b)}
    BY <2>2
  <2>. HIDE DEF t
  <2>4. Seq(Valid(F)) \subseteq Seq(Queued)
    BY SeqSubset, Types
  <2>5. CASE t = q.queue
    BY <2>1, <2>4, <2>5
  <2>6. CASE t # q.queue
    <3>. DEFINE u == Rewritten(q.queue, a, b)
    <3>1. /\ u \in Seq(Valid(F))
          /\ Placed(q.queue) => Placed(u)
          /\ Fresh(q.queue) => Fresh(u)
          /\ Stuck(u) => Stuck(q.queue)
          /\ \A C : C \cap Sending = {} => (HeadIs(u, C) <=> HeadIs(q.queue, C))
      BY <2>1, RewrittenOp
    <3>. HIDE DEF u
    <3>2. t = u
      BY <2>3, <2>6 DEF u
    <3>. QED  BY <2>2, <2>4, <3>1, <3>2
  <2>. QED  BY <2>5, <2>6
<1>. HIDE DEF t
<1>6. o \in Client /\ Alike(o, q) /\ o.queue = t /\ o.wire = q.wire /\ o.trash = q.trash
  <2>1. q \in Client
    BY <1>3, HoldingTypes DEF Startable
  <2>. QED  BY <1>5, <2>1 DEF Client, Alike
<1>. HIDE DEF o
<1>7. r \in Client /\ Alike(r, q) /\ r.queue = t /\ r.wire = q.wire /\ r.trash = q.trash
  BY <1>6, ReportOp DEF Alike
<1>. HIDE DEF r
<1>8. Startable(r, F)
  BY <1>3, <1>5, <1>7 DEF Startable, Holding, Arranged, Alike
<1>9. Beliefs(r, srv')
  BY <1>3, <1>4, <1>7 DEF Alike, Beliefs
<1>. QED  BY <1>2, <1>3, <1>5, <1>7, <1>8, <1>9, ProceedWell DEF Kept, Alike

-----------------------------------------------------------------------------
(* Logging in, and recovering what the last connection left.               *)

LEMMA ProceedSound ==
  ASSUME NEW F, F \subseteq File, NEW o, Startable(o, F), o.isConnected, ~o.isReconnecting,
         NEW sv, Believes(o, sv)
  PROVE  Proceed(o) \in Holding(F) /\ Sound(Proceed(o), sv)
BY ProceedStarts, StartedSound DEF Startable

LEMMA CleanupOp ==
  ASSUME NEW F, NEW o \in Client, NEW b \in BOOLEAN
  PROVE  LET r == Cleanup(o, b)
         IN  /\ r \in Holding(F) /\ r.queue = <<>> /\ r.currentWorkingDir = "" /\ r.transferMode = ""
             /\ r.link = o.link /\ r.isConnected = o.isConnected /\ r.wire = o.wire
             /\ r.isReconnecting = o.isReconnecting /\ r.legitClose = o.legitClose
             /\ r.isReady = o.isReady /\ Arranged(r)
<1>. DEFINE x == o.featXCheck /\ b  r == Cleanup(o, b)
<1>1. x \in BOOLEAN
  BY DEF Client
<1>2. PICK z : z = <<>> /\ (\A S : z \in Seq(S)) /\ Len(z) = 0
  <2>1. <<>> \in Seq(Queued) /\ Len(<<>>) = 0
    OBVIOUS
  <2>. QED  BY <2>1, NoEntries, Zenon
<1>3. r = [o EXCEPT !.queue = z, !.trash = z, !.transferMode = "", !.currentWorkingDir = "",
                    !.featXCheck = x, !.timeout = None, !.transfer = FALSE]
  BY <1>2, Zenon DEF Cleanup
<1>. HIDE DEF x, r
<1>4. /\ r \in Client /\ r.queue = z /\ r.trash = z /\ r.currentWorkingDir = ""
      /\ r.transferMode = ""
      /\ r.link = o.link /\ r.isConnected = o.isConnected /\ r.wire = o.wire
      /\ r.isReconnecting = o.isReconnecting /\ r.legitClose = o.legitClose
      /\ r.isReady = o.isReady
  <2>1. z \in Seq(Queued)
    BY <1>2
  <2>. QED  BY <1>1, <1>3, <2>1 DEF Client
<1>5. r \in Holding(F) /\ Arranged(r)
  <2>1. z \in Seq(Valid(F)) /\ z \in Seq(Keepable(F)) /\ 1..Len(z) = {}
    BY <1>2
  <2>2. r \in Holding(F)
    BY <1>4, <2>1, Zenon DEF Holding
  <2>3. Placed(z) /\ Fresh(z)
    BY <2>1, Zenon DEF Placed, Fresh
  <2>. QED  BY <1>4, <2>2, <2>3 DEF Arranged
<1>. QED  BY <1>2, <1>4, <1>5 DEF r

LEMMA RecycledOp ==
  ASSUME NEW F, F \subseteq File, NEW trash \in Seq(Keepable(F)), NEW e \in Valid(F)
  PROVE  LET r == Recycled(trash, e)
         IN  r \in Seq(Valid(F)) /\ r \in Seq(Queued) /\ Plain(r)
<1>. DEFINE P == {x \in Valid(F) : x.cmd \notin Special \cup {"USER", "PASS"}}
            Back(t) == IF t.cmd = "TYPE" /\ e.cmd \in Sending
                       THEN <<t, Entry("SIZE", e.arg, e.cmd)>> ELSE <<t>>
            back == [i \in 1..Len(trash) |-> Back(trash[i])]
<1>1. Keepable(F) \subseteq P
  BY DEF Keepable, Special, Sending2
<1>2. e.cmd \in Sending => Entry("SIZE", e.arg, e.cmd) \in P
  <2>1. ASSUME e.cmd \in Sending
        PROVE  e.arg \in F /\ e.arg \in Arg /\ e.cmd \in File \cup Sending \cup {None} /\ e.cmd \notin File
    BY <2>1, FileAssumption DEF Valid, Transfers, Arg
  <2>. QED  BY <2>1 DEF Entry, Valid, Queued, Command, Transfers, Sending, Sending2, Special
<1>. HIDE DEF P
<1>3. \A t \in Keepable(F) : Back(t) \in Seq(P)
  BY <1>1, <1>2
<1>4. back \in Seq(Seq(P))
  <2>1. Len(trash) \in Nat /\ \A i \in 1..Len(trash) : trash[i] \in Keepable(F)
    OBVIOUS
  <2>. HIDE DEF Back
  <2>2. \A i \in 1..Len(trash) : back[i] \in Seq(P)
    BY <1>3, <2>1
  <2>3. back = [i \in 1..Len(trash) |-> back[i]]
    OBVIOUS
  <2>. HIDE DEF back
  <2>. QED  BY <2>1, <2>2, <2>3, SeqDef
<1>5. Recycled(trash, e) = FlattenSeq(back)
  BY Zenon DEF Recycled
<1>. HIDE DEF back
<1>6. Recycled(trash, e) \in Seq(P)
  BY <1>4, <1>5, FlattenType
<1>. QED  BY <1>6, PlainEntries DEF P

LEMMA RecoverOp ==
  ASSUME NEW F, F \subseteq File, NEW o \in Holding(F), Placed(o.queue), ~HeadIs(o.queue, {"welcome"})
  PROVE  LET r == RecoverFromDisaster(o)
         IN  /\ r \in Holding(F) /\ Placed(r.queue) /\ ~Stuck(r.queue)
             /\ r.currentWorkingDir = "" /\ r.transferMode = o.transferMode /\ r.link = o.link
             /\ r.isConnected = o.isConnected /\ r.isReconnecting = o.isReconnecting
             /\ r.legitClose = o.legitClose /\ r.wire = o.wire
<1>. DEFINE q == IF HeadIs(o.queue, {"goodbye"}) THEN Tail(o.queue) ELSE o.queue
            e == Restarted(Head(q))
            c == Recycled(o.trash, e)
            t == Tail(q)
            r == IF Interrupted(q) THEN c \o <<e>> \o t ELSE q
            in == IF o.currentWorkingDir = "" THEN <<>> ELSE <<Entry("CWD", o.currentWorkingDir, None)>>
            w == in \o r
<1>1. /\ o \in Client /\ o.queue \in Seq(Valid(F)) /\ o.queue \in Seq(Queued)
      /\ o.trash \in Seq(Keepable(F)) /\ o.currentWorkingDir \in {""} \cup Dir
      /\ Seq(Valid(F)) \subseteq Seq(Queued)
  <2>1. Seq(Valid(F)) \subseteq Seq(Queued)
    BY SeqSubset, Types
  <2>2. o \in Client
    BY HoldingTypes
  <2>3. o.currentWorkingDir \in {""} \cup Dir
    BY <2>2 DEF Client
  <2>. QED  BY <2>1, <2>2, <2>3, HoldingTypes
<1>2. q \in Seq(Valid(F)) /\ Placed(q) /\ (Stuck(q) => HeadIs(q, Sending2))
  <2>1. CASE HeadIs(o.queue, {"goodbye"})
    <3>1. o.queue # <<>> /\ Head(o.queue).cmd \notin LoginCmds
      BY <2>1 DEF HeadIs, LoginCmds
    <3>2. Tail(o.queue) \in Seq(Valid(F))
      BY <1>1, <3>1, HeadTailProperties
    <3>. QED  BY <1>1, <2>1, <3>1, <3>2, PlacedTail
  <2>2. CASE ~HeadIs(o.queue, {"goodbye"})
    BY <1>1, <2>2 DEF HeadIs, Stuck
  <2>. QED  BY <2>1, <2>2
<1>3. RecoverFromDisaster(o) = [o EXCEPT !.queue = w, !.currentWorkingDir = "", !.trash = <<>>]
  BY Zenon DEF RecoverFromDisaster
<1>. HIDE DEF q
<1>4. r \in Seq(Valid(F)) /\ Placed(r) /\ ~Stuck(r)
  <2>1. CASE Interrupted(q)
    <3>1. q # <<>> /\ Head(q) \in Valid(F) /\ Head(q).cmd \in Transfers \cup {"PASV"} /\ Head(q) \in Queued
          /\ t \in Seq(Valid(F)) /\ q \in Seq(Queued)
      BY <1>1, <1>2, <2>1, HeadTailProperties, Types DEF Interrupted, HeadIs
    <3>2. Placed(t) /\ ~Stuck(t)
      <4>1. Head(q).cmd \notin LoginCmds \cup {"goodbye"}
        BY <3>1 DEF Transfers, Sending, Sending2, LoginCmds
      <4>. QED  BY <1>2, <3>1, <4>1, PlacedTail
    <3>. HIDE DEF t
    <3>3. PICK h : h = Head(q)
      OBVIOUS
    <3>4. Restarted(h) \in Valid(F) /\ Restarted(h).cmd \notin Special
      <4>1. h.cmd \in {"STOR", "APPE", "STOR2", "APPE2", "PASV"} /\ h \in Valid(F) /\ h \in Queued
        BY <3>1, <3>3 DEF Transfers, Sending, Sending2
      <4>2. /\ Restarted(h).arg = h.arg /\ Restarted(h).then = h.then /\ Restarted(h) \in Queued
            /\ Restarted(h).cmd \in {"STOR", "APPE", "PASV"}
            /\ Restarted(h).cmd \in Transfers => h.cmd \in Transfers
        BY <4>1 DEF Restarted, Queued, Command, Transfers, Sending, Sending2
      <4>3. Restarted(h).cmd \notin Special
        BY <4>2 DEF Special, Sending2
      <4>. QED  BY <4>1, <4>2, <4>3 DEF Valid
    <3>5. e \in Valid(F) /\ e.cmd \notin Special /\ e \in Queued
      BY <3>3, <3>4, Types
    <3>. HIDE DEF e
    <3>6. c \in Seq(Valid(F)) /\ c \in Seq(Queued) /\ Plain(c)
      BY <1>1, <3>5, RecycledOp
    <3>. HIDE DEF c
    <3>. DEFINE et == <<e>> \o t
    <3>7. et \in Seq(Queued) /\ et # <<>> /\ Head(et) = e /\ Placed(et) /\ et \in Seq(Valid(F))
      <4>1. t \in Seq(Queued) /\ (t # <<>> => May(e, t[1], Held(t, 1)))
        <5>1. t \in Seq(Queued)
          BY <1>1, <3>1
        <5>. QED  BY <3>2, <5>1, StuckHeld, EmptySeq DEF May
      <4>2. <<e>> \in Seq(Valid(F))
        BY <3>5
      <4>3. et \in Seq(Valid(F))
        BY <3>1, <4>2, ConcatProperties
      <4>. QED  BY <3>2, <3>5, <4>1, <4>3, PlacedCons
    <3>8. r = c \o et
      <4>1. r = (c \o <<e>>) \o t
        BY <2>1
      <4>2. <<e>> \in Seq(Queued)
        BY <3>5
      <4>3. t \in Seq(Queued)
        <5>. HIDE DEF r, w, in
        <5>. QED  BY <1>1, <3>1, Zenon
      <4>. HIDE DEF r
      <4>. DEFINE u == <<e>>
      <4>. HIDE DEF u
      <4>4. u \in Seq(Queued) /\ r = (c \o u) \o t /\ et = u \o t
        BY <4>1, <4>2 DEF u
      <4>5. (c \o u) \o t = c \o (u \o t)
        <5>1. c \in Seq(Queued) /\ u \in Seq(Queued) /\ t \in Seq(Queued)
          BY <3>6, <4>3, <4>4
        <5>. HIDE DEF c, t
        <5>. QED  BY <5>1, ConcatAssociative
      <4>. QED  BY <4>4, <4>5, Zenon
    <3>. HIDE DEF et
    <3>9. r \in Seq(Valid(F))
      BY <3>6, <3>7, <3>8, ConcatProperties
    <3>10. May(c[Len(c)], et[1], Held(et, 1)) /\ et[1].cmd \notin Sending2
      <4>1. et[1] = e
        BY <3>7
      <4>. QED  BY <3>5, <4>1 DEF May, Special, Held
    <3>11. Placed(r)
      BY <3>6, <3>7, <3>8, <3>10, PlacedPlain, PlacedJoin
    <3>12. ~Stuck(r)
      <4>. SUFFICES ~HeadIs(r, Special)
        BY <1>1, <3>9, StuckHeld
      <4>1. CASE c = <<>>
        <5>1. r = et
          BY <3>7, <3>8, <4>1, ConcatEmptySeq
        <5>. QED  BY <3>5, <3>7, <5>1 DEF HeadIs
      <4>2. CASE c # <<>>
        <5>1. r # <<>> /\ Head(r) = Head(c)
          BY <3>6, <3>7, <3>8, <4>2, ConcatProperties, EmptySeq
        <5>. QED  BY <3>6, <4>2, <5>1, PlacedPlain DEF HeadIs
      <4>. QED  BY <4>1, <4>2
    <3>. QED  BY <3>9, <3>11, <3>12
  <2>2. CASE ~Interrupted(q)
    <3>1. r = q
      BY <2>2
    <3>. QED  BY <1>2, <2>2, <3>1 DEF Interrupted, HeadIs, Transfers
  <2>. QED  BY <2>1, <2>2
<1>. HIDE DEF r
<1>5. in \in Seq(Valid(F)) /\ in \in Seq(Queued) /\ Plain(in)
  <2>. DEFINE P == {x \in Valid(F) : x.cmd \notin Special \cup {"USER", "PASS"}}
              d == o.currentWorkingDir
  <2>1. d # "" => Entry("CWD", d, None) \in P
    <3>. HIDE DEF d
    <3>1. d # "" => d \in Dir /\ d \notin File /\ None \notin File
      BY <1>1, FileAssumption DEF d
    <3>. QED  BY <3>1 DEF Entry, Valid, Queued, Command, Arg, Transfers, Sending, Sending2, Special
  <2>. HIDE DEF P, d
  <2>2. in \in Seq(P)
    <3>1. in = IF d = "" THEN <<>> ELSE <<Entry("CWD", d, None)>>
      BY Zenon DEF d
    <3>. HIDE DEF in
    <3>2. CASE d = ""
      BY <3>1, <3>2, NoEntries
    <3>3. CASE d # ""
      <4>. DEFINE x == Entry("CWD", d, None)
      <4>1. x \in P /\ in = <<x>>
        BY <2>1, <3>1, <3>3
      <4>. HIDE DEF x
      <4>. QED  BY <4>1
    <3>. QED  BY <3>2, <3>3
  <2>. HIDE DEF in
  <2>. QED  BY <2>2, PlainEntries DEF P
<1>. HIDE DEF in
<1>6. w \in Seq(Valid(F)) /\ w \in Seq(Queued) /\ Placed(w) /\ ~Stuck(w)
  <2>1. w \in Seq(Valid(F)) /\ w \in Seq(Queued) /\ r \in Seq(Queued)
    BY <1>1, <1>4, <1>5, ConcatProperties
  <2>2. in # <<>> /\ r # <<>> => May(in[Len(in)], r[1], Held(r, 1)) /\ r[1].cmd \notin Sending2
    BY <1>4, <2>1, StuckHeld, EmptySeq DEF May, Held
  <2>3. Placed(w)
    BY <1>4, <1>5, <2>1, <2>2, PlacedPlain, PlacedJoin
  <2>4. ~Stuck(w)
    <3>1. CASE in = <<>>
      BY <1>4, <2>1, <3>1, ConcatEmptySeq
    <3>2. CASE in # <<>>
      <4>1. w # <<>> /\ Head(w) = Head(in)
        BY <1>5, <2>1, <3>2, ConcatProperties, EmptySeq
      <4>2. ~HeadIs(w, Special)
        BY <1>5, <3>2, <4>1, PlacedPlain DEF HeadIs
      <4>. QED  BY <2>1, <4>2, StuckHeld
    <3>. QED  BY <3>1, <3>2
  <2>. QED  BY <2>1, <2>3, <2>4
<1>. HIDE DEF w
<1>7. PICK z : z = <<>> /\ \A S : z \in Seq(S)
  BY NoEntries
<1>. DEFINE p == RecoverFromDisaster(o)
<1>8. p = [o EXCEPT !.queue = w, !.currentWorkingDir = "", !.trash = z]
  BY <1>3, <1>7, Zenon
<1>. HIDE DEF p
<1>9. /\ p \in Client /\ p.queue = w /\ p.trash = z
      /\ p.currentWorkingDir = "" /\ p.transferMode = o.transferMode /\ p.link = o.link
      /\ p.isConnected = o.isConnected /\ p.isReconnecting = o.isReconnecting
      /\ p.legitClose = o.legitClose /\ p.wire = o.wire
  <2>1. z \in Seq(Queued)
    BY <1>7
  <2>. QED  BY <1>1, <1>6, <1>8, <2>1 DEF Client
<1>. QED  BY <1>6, <1>7, <1>9 DEF Holding, p

\* A connection that is being closed.
Ending(o) == Arranged(o) /\ Armed(o) /\ o.link = "closing" /\ (o.isConnected => ~o.isReconnecting)

LEMMA EndingSound == ASSUME NEW o, Ending(o), NEW sv PROVE Sound(o, sv)
BY DEF Ending, Sound, Linked, None

LEMMA KillOp ==
  ASSUME NEW F, NEW o \in Holding(F), o.link # None
  PROVE  LET r == Kill(o)
         IN  /\ r \in Holding(F) /\ r.link = "closing" /\ r.queue = o.queue
             /\ r.isConnected = o.isConnected /\ r.isReconnecting = o.isReconnecting
             /\ r.legitClose = o.legitClose /\ r.isReady = o.isReady
             /\ r.timeout = o.timeout /\ r.transfer = o.transfer
<1>1. Kill(o) = [o EXCEPT !.link = "closing"]
  BY DEF Kill
<1>. QED  BY <1>1 DEF Holding, Client

LEMMA DeniedSound ==
  ASSUME NEW F, NEW o \in Holding(F), o.link = "up", NEW sv
  PROVE  Denied(o) \in Holding(F) /\ Sound(Denied(o), sv)
<1>. DEFINE c == Cleanup(o, FALSE)
            p == [c EXCEPT !.reported = TRUE, !.isConnected = FALSE]
<1>1. c \in Holding(F) /\ c.link = "up" /\ Arranged(c) /\ c.queue = <<>>
  BY CleanupOp, HoldingTypes
<1>. HIDE DEF c
<1>2. p \in Holding(F) /\ p.link = "up" /\ Arranged(p) /\ ~p.isConnected /\ p.queue = <<>>
  <2>1. c \in Client
    BY <1>1, HoldingTypes
  <2>2. /\ p \in Client /\ p.queue = c.queue /\ p.trash = c.trash /\ p.link = c.link
        /\ p.isConnected = FALSE /\ p.legitClose = c.legitClose
    BY <2>1 DEF Client
  <2>. HIDE DEF p
  <2>. QED  BY <1>1, <2>2 DEF Holding, Arranged
<1>3. Denied(o) = Kill(p)
  BY Zenon DEF Denied, c
<1>. HIDE DEF p
<1>4. Kill(p) \in Holding(F) /\ Ending(Kill(p))
  BY <1>2, KillOp DEF Ending, Arranged, Armed, Stuck, HeadIs, None
<1>. QED  BY <1>3, <1>4, EndingSound

LEMMA UnshiftOp ==
  ASSUME NEW F, NEW o \in Holding(F), NEW s \in Seq(Valid(F))
  PROVE  LET r == Unshift(o, s)
         IN  /\ r \in Holding(F) /\ Alike(r, o) /\ r.queue = s \o o.queue /\ r.wire = o.wire
             /\ r.isReady = o.isReady
<1>. DEFINE w == s \o o.queue
<1>1. o \in Client /\ o.queue \in Seq(Valid(F)) /\ Seq(Valid(F)) \subseteq Seq(Queued)
  BY HoldingTypes, SeqSubset, Types
<1>2. w \in Seq(Valid(F)) /\ w \in Seq(Queued)
  BY <1>1, ConcatProperties
<1>3. Unshift(o, s) = [o EXCEPT !.queue = w]
  BY Zenon DEF Unshift
<1>. HIDE DEF w
<1>. QED  BY <1>1, <1>2, <1>3 DEF Client, Holding, Alike, w

LEMMA LoginEntries ==
  \A F : /\ Bare("FEAT") \in Valid(F) /\ Bare("PWD") \in Valid(F) /\ Bare("PASS") \in Valid(F)
         /\ Bare("USER") \in Valid(F) /\ Bare("welcome") \in Valid(F) /\ Bare("goodbye") \in Valid(F)
         /\ Bare("aborted") \in Valid(F) /\ Bare("NOOP") \in Valid(F)
<1>1. None \notin File
  BY FileAssumption
<1>. QED  BY <1>1 DEF Bare, Entry, Valid, Queued, Command, Arg, Transfers, Sending, Sending2

LEMMA JoinHead ==
  ASSUME NEW p \in Seq(Queued), NEW q \in Seq(Queued), p # <<>>
  PROVE  p \o q # <<>> /\ Head(p \o q) = Head(p)
BY ConcatProperties, EmptySeq

LEMMA PairOf == \A S : \A a, b \in S : <<a, b>> \in Seq(S)
<1>. SUFFICES ASSUME NEW S, NEW a \in S, NEW b \in S PROVE <<a, b>> \in Seq(S)
  OBVIOUS
<1>1. Len(<<a, b>>) = 2 /\ <<a, b>>[1] \in S /\ <<a, b>>[2] \in S
  OBVIOUS
<1>2. <<a, b>> = [i \in 1..2 |-> <<a, b>>[i]] /\ \A i \in 1..2 : <<a, b>>[i] \in S
  OBVIOUS
<1>. QED  BY <1>2, SeqDef

LEMMA LoggedInOp ==
  ASSUME NEW F, F \subseteq File, NEW o \in Holding(F), Arranged(o), ~HeadIs(o.queue, {"welcome"}),
         o.legitClose => o.currentWorkingDir = "" /\ ~HeadIs(o.queue, Special),
         o.link = "up", o.wire = <<>>, o.isConnected, ~o.isReconnecting
  PROVE  LET r == LoggedIn(o)
         IN  /\ Startable(r, F) /\ ~r.legitClose /\ r.currentWorkingDir = ""
             /\ r.transferMode = o.transferMode /\ r.isConnected /\ ~r.isReconnecting
<1>1. CASE o.legitClose
  <2>. DEFINE s == <<Bare("FEAT"), Bare("PWD")>>
              p == [o EXCEPT !.legitClose = FALSE]  r == Unshift(p, s)
  <2>1. s \in Seq(Valid(F)) /\ s \in Seq(Queued) /\ Plain(s)
    <3>. DEFINE P == {x \in Valid(F) : x.cmd \notin Special \cup {"USER", "PASS"}}
    <3>1. Bare("FEAT") \in P /\ Bare("PWD") \in P
      BY LoginEntries DEF Bare, Entry, Special, Sending2
    <3>. HIDE DEF P
    <3>2. s \in Seq(P)
      <4>1. PICK a, b : a = Bare("FEAT") /\ b = Bare("PWD")
        OBVIOUS
      <4>2. s = <<a, b>> /\ a \in P /\ b \in P
        BY <3>1, <4>1
      <4>3. <<a, b>> \in Seq(P)
        BY <4>2, PairOf, Zenon
      <4>. HIDE DEF s
      <4>. QED  BY <4>2, <4>3, Zenon
    <3>. HIDE DEF s
    <3>. QED  BY <3>2, PlainEntries DEF P
  <2>. HIDE DEF s
  <2>2. o \in Client /\ o.queue \in Seq(Queued)
    BY HoldingTypes
  <2>3. /\ p \in Client /\ p.queue = o.queue /\ p.trash = o.trash /\ p.wire = o.wire /\ p.link = o.link
        /\ p.legitClose = FALSE /\ p.currentWorkingDir = o.currentWorkingDir
        /\ p.transferMode = o.transferMode /\ p.isConnected = o.isConnected
        /\ p.isReconnecting = o.isReconnecting
    BY <2>2 DEF Client
  <2>4. LoggedIn(o) = r
    BY <1>1, Zenon DEF LoggedIn, s
  <2>. HIDE DEF p
  <2>5. p \in Holding(F)
    BY <2>3 DEF Holding
  <2>6. /\ r \in Holding(F) /\ Alike(r, p) /\ r.queue = s \o o.queue /\ r.wire = o.wire
    BY <2>1, <2>3, <2>5, UnshiftOp
  <2>. HIDE DEF r
  <2>7. s # <<>> /\ o.queue # <<>> => May(s[Len(s)], o.queue[1], Held(o.queue, 1))
                                           /\ o.queue[1].cmd \notin Sending2
    BY <1>1, <2>2, HeadOf, EmptySeq DEF May, Special, Held
  <2>8. Placed(r.queue) /\ ~Stuck(r.queue)
    <3>1. Placed(r.queue)
      BY <2>1, <2>2, <2>6, <2>7, PlacedPlain, PlacedJoin DEF Arranged
    <3>2. s # <<>>
      BY DEF s
    <3>3. Head(r.queue) = Head(s) /\ r.queue # <<>>
      BY <2>1, <2>2, <2>6, <3>2, JoinHead
    <3>4. ~HeadIs(r.queue, Special)
      BY <2>1, <3>2, <3>3, PlacedPlain DEF HeadIs
    <3>. QED  BY <2>6, <3>1, <3>4, StuckHeld, HoldingTypes
  <2>. QED  BY <1>1, <2>3, <2>4, <2>6, <2>8 DEF Startable, Arranged, Alike
<1>2. CASE ~o.legitClose
  <2>1. LoggedIn(o) = RecoverFromDisaster(o)
    BY <1>2 DEF LoggedIn
  <2>. DEFINE r == RecoverFromDisaster(o)
  <2>2. /\ r \in Holding(F) /\ Placed(r.queue) /\ ~Stuck(r.queue)
        /\ r.currentWorkingDir = "" /\ r.transferMode = o.transferMode /\ r.link = o.link
        /\ r.isConnected = o.isConnected /\ r.isReconnecting = o.isReconnecting
        /\ r.legitClose = o.legitClose /\ r.wire = o.wire
    BY RecoverOp DEF Arranged
  <2>. HIDE DEF r
  <2>3. Startable(r, F)
    BY <1>2, <2>2 DEF Startable, Arranged
  <2>. QED  BY <1>2, <2>1, <2>2, <2>3 DEF r
<1>. QED  BY <1>1, <1>2

LEMMA LoginSound == ASSUME NEW F, Well(F), ReadLogin PROVE Kept(F)
<1>1. PICK code \in Code : /\ Reads(code, {"USER", "PASS"})
                           /\ ftp' = CASE code = 2 -> Proceed(LoggedIn(Popped(code)))
                                       [] code = 3 -> Proceed(Unshift(Popped(code), <<Bare("PASS")>>))
                                       [] OTHER    -> Denied(Popped(code))
  BY Zenon DEF ReadLogin
<1>. DEFINE o == Popped(code)
<1>2. Reply(code) /\ Answered = Asked /\ Answered.cmd \in {"USER", "PASS"} /\ code # 1
  <2>1. {"USER", "PASS"} \cap (Sending2 \cup {"aborted"}) = {} /\ {"USER", "PASS"} \cap Sending = {}
    BY DEF Sending, Sending2
  <2>. QED  BY <1>1, <2>1, Answers DEF Reads
<1>3. /\ o \in Holding(F) /\ Alike(o, ftp) /\ o.queue = Tail(ftp.queue) /\ o.wire = <<>>
  BY <1>2, PoppedOp DEF Forgettable
<1>4. /\ ftp.link = "up" /\ ftp.isConnected /\ ~ftp.isReconnecting /\ Believes(ftp, srv) /\ F \subseteq File
      /\ srv'.type = srv.type /\ srv'.dir = srv.dir
      /\ srv'.login = "in" /\ code # 2 => srv.login = "in"
      /\ Arranged(ftp) /\ ftp.queue # <<>>
  BY <1>2, ReplyFacts DEF Waiting
<1>5. HeadIs(ftp.queue, {"USER", "PASS"})
  BY <1>2, <1>4 DEF HeadIs, Answered
<1>6. /\ Placed(o.queue) /\ ~HeadIs(o.queue, {"welcome"})
      /\ o.legitClose => /\ Fresh(o.queue) /\ ~HeadIs(o.queue, Special)
                         /\ ~HeadIs(o.queue, Sending2 \cup {"goodbye", "USER", "PASS"})
                         /\ o.currentWorkingDir = ""
  <2>1. ftp.queue \in Seq(Queued) /\ Placed(ftp.queue) /\ (ftp.legitClose => Fresh(ftp.queue))
    BY <1>4, HoldingTypes DEF Well, Arranged
  <2>2. /\ Placed(Tail(ftp.queue)) /\ ~HeadIs(Tail(ftp.queue), {"welcome"})
        /\ ftp.legitClose => /\ Fresh(Tail(ftp.queue))
                             /\ ~HeadIs(Tail(ftp.queue), Sending2 \cup {"goodbye", "USER", "PASS"})
    BY <1>4, <2>1, PlacedTail
  <2>. QED  BY <1>3, <1>4, <1>5, <2>2 DEF Alike, HeadIs, Special, Believes
<1>. HIDE DEF o
<1>7. CASE code = 2
  <2>. DEFINE r == LoggedIn(o)
  <2>1. ftp' = Proceed(r)
    BY <1>1, <1>7 DEF o
  <2>2. /\ Startable(r, F) /\ ~r.legitClose /\ r.currentWorkingDir = ""
        /\ r.transferMode = o.transferMode /\ r.isConnected /\ ~r.isReconnecting
    BY <1>3, <1>4, <1>6, LoggedInOp DEF Arranged, Alike
  <2>. HIDE DEF r
  <2>3. Believes(r, srv')
    BY <1>3, <1>4, <2>2 DEF Believes, Alike
  <2>. QED  BY <1>4, <2>1, <2>2, <2>3, ProceedSound DEF Kept
<1>8. CASE code = 3
  <2>. DEFINE s == <<Bare("PASS")>>  r == Unshift(o, s)
  <2>1. ftp' = Proceed(r)
    BY <1>1, <1>8 DEF o
  <2>2. PICK e : e = Bare("PASS")
    OBVIOUS
  <2>3. e \in Valid(F) /\ e.cmd = "PASS" /\ s = <<e>> /\ e \in Queued
    BY <2>2, LoginEntries, Types DEF Bare, Entry
  <2>4. s \in Seq(Valid(F))
    BY <2>3
  <2>. HIDE DEF s
  <2>5. r \in Holding(F) /\ Alike(r, o) /\ r.queue = s \o o.queue /\ r.wire = <<>>
    BY <1>3, <2>4, UnshiftOp
  <2>. HIDE DEF r
  <2>6. /\ Placed(r.queue) /\ r.queue # <<>> /\ Head(r.queue) = e
        /\ r.legitClose => Fresh(r.queue)
    <3>1. o.queue \in Seq(Queued)
      BY <1>3, HoldingTypes
    <3>2. o.queue # <<>> => May(e, o.queue[1], Held(o.queue, 1))
      BY <1>6, <2>3, <3>1, HeadOf, EmptySeq DEF May, LoginCmds
    <3>. QED  BY <1>6, <2>3, <2>5, <3>1, <3>2, PlacedCons DEF Alike
  <2>7. Startable(r, F) /\ r.isConnected /\ ~r.isReconnecting
    BY <1>3, <1>4, <2>3, <2>5, <2>6 DEF Startable, Arranged, Alike, Stuck, HeadIs, Sending2
  <2>8. Believes(r, srv')
    <3>1. Alike(r, ftp)
      BY <1>3, <2>5 DEF Alike
    <3>2. r.transferMode \in {"", srv'.type}
      BY <1>4, <3>1 DEF Believes, Alike
    <3>3. srv'.login = "in" => r.currentWorkingDir \in {"", srv'.dir}
      <4>1. code # 2
        BY <1>8
      <4>. QED  BY <1>4, <3>1, <4>1, Zenon DEF Believes, Alike
    <3>4. r.legitClose => r.currentWorkingDir = ""
      BY <1>6, <2>5 DEF Alike
    <3>. QED  BY <3>2, <3>3, <3>4 DEF Believes
  <2>. QED  BY <1>4, <2>1, <2>7, <2>8, ProceedSound DEF Kept
<1>9. CASE code \notin {2, 3}
  <2>1. ftp' = Denied(o)
    BY <1>1, <1>9 DEF o
  <2>. QED  BY <1>3, <1>4, <2>1, DeniedSound DEF Kept, Alike
<1>. QED  BY <1>7, <1>8, <1>9

-----------------------------------------------------------------------------
(* Transfers.                                                              *)

LEMMA DropChecksOp ==
  ASSUME NEW F, NEW q \in Seq(Valid(F)), Placed(q), ~Stuck(q)
  PROVE  LET r == DropChecks(q)
         IN  /\ r \in Seq(Valid(F)) /\ Placed(r) /\ ~Stuck(r)
             /\ Fresh(q) /\ ~HeadIs(q, {"USER", "PASS"}) => Fresh(r) /\ ~HeadIs(r, {"USER", "PASS"})
<1>. DEFINE L == Len(q)  B == {i \in 1..L : q[i].cmd # "XSHA1"}
            Ok(i) == /\ \A j \in 1..i : q[j].cmd = "XSHA1"
                     /\ i < L => q[i + 1].cmd # "XSHA1"
            r == DropChecks(q)
<1>1. L \in Nat /\ q \in Seq(Queued)
  BY SeqSubset, Types
<1>2. \E i \in 0..L : Ok(i)
  <2>1. CASE B = {}
    <3>1. Ok(L) /\ L \in 0..L
      BY <1>1, <2>1
    <3>. QED  BY <3>1
  <2>2. CASE B # {}
    <3>1. B \in SUBSET Nat
      BY <1>1
    <3>. HIDE DEF B
    <3>2. PICK x \in B : \A y \in B : x <= y
      BY <2>2, <3>1, LeastNumber
    <3>. USE DEF B
    <3>3. x \in 1..L /\ q[x].cmd # "XSHA1" /\ x - 1 \in 0..L /\ (x - 1) + 1 = x
      BY <1>1, <3>2
    <3>4. ASSUME NEW i \in 1..(x - 1) PROVE q[i].cmd = "XSHA1"
      <4>1. i \in 1..L /\ ~(x <= i)
        BY <1>1, <3>3
      <4>. QED  BY <3>2, <4>1
    <3>5. Ok(x - 1)
      <4>. HIDE DEF B
      <4>. QED  BY <3>3, <3>4
    <3>. QED  BY <3>3, <3>5
  <2>. QED  BY <2>1, <2>2
<1>3. PICK n : n = CHOOSE i \in 0..L : Ok(i)
  OBVIOUS
<1>4. r = SubSeq(q, n + 1, L)
  BY <1>3, Zenon DEF DropChecks
<1>5. n \in 0..L /\ Ok(n)
  <2>. HIDE DEF Ok, L
  <2>. QED  BY <1>2, <1>3, Zenon
<1>6. /\ r \in Seq(Valid(F)) /\ Len(r) = L - n /\ \A i \in 1..(L - n) : r[i] = q[n + i]
      /\ Placed(r) /\ (Fresh(q) => Fresh(r)) /\ r \in Seq(Queued)
  <2>1. Valid(F) \subseteq Queued
    BY Types
  <2>2. LET t == SubSeq(q, n + 1, Len(q))
        IN  /\ t \in Seq(Valid(F)) /\ Len(t) = Len(q) - n
            /\ \A i \in 1..(Len(q) - n) : t[i] = q[n + i]
            /\ Placed(q) => Placed(t)
            /\ Fresh(q) => Fresh(t)
    BY <1>5, <2>1, PlacedSuffix
  <2>. HIDE DEF r
  <2>. QED  BY <1>4, <2>1, <2>2, SeqSubset
<1>. HIDE DEF r
<1>7. CASE n = 0
  <2>1. Len(r) = L /\ (L # 0 => r[1] = q[1])
    BY <1>1, <1>6, <1>7
  <2>2. r = q
    BY <1>1, <1>6, <1>7, <2>1
  <2>. QED  BY <1>6, <2>2 DEF r
<1>8. CASE n # 0
  <2>1. /\ n \in 1..n /\ q[n].cmd = "XSHA1"
        /\ Len(r) # 0 => /\ n + 1 \in 1..L /\ n + 1 # 1 /\ (n + 1) - 1 = n /\ 1 \in 1..(L - n)
    BY <1>1, <1>5, <1>6, <1>8
  <2>2. Len(r) # 0 => r[1] = q[n + 1] /\ May(q[n], q[n + 1], Held(q, n + 1))
    BY <1>6, <2>1 DEF Placed
  <2>3. ~Stuck(r)
    <3>1. Len(r) # 0 => r[1].cmd # "welcome" /\ ~Held(q, n + 1)
      BY <2>1, <2>2 DEF May, LoginCmds
    <3>2. Len(r) # 0 => (1 < Len(r) <=> n + 1 < L) /\ (1 < Len(r) => r[1 + 1] = q[(n + 1) + 1])
      BY <1>1, <1>5, <1>6
    <3>3. Len(r) # 0 /\ Held(r, 1) => Held(q, n + 1)
      BY <2>2, <3>2 DEF Held
    <3>. QED  BY <1>6, <3>1, <3>3, StuckHeld
  <2>4. Fresh(q) /\ Len(r) # 0 => r[1].cmd \notin {"USER", "PASS"}
    BY <2>1, <2>2 DEF Fresh
  <2>. QED  BY <1>6, <2>3, <2>4, HeadOf DEF r
<1>. QED  BY <1>7, <1>8

LEMMA HeardOp ==
  ASSUME NEW F, Well(F), NEW code \in Code, Reply(code)
  PROVE  LET o == Heard(ftp, code)
         IN  /\ o \in Holding(F) /\ Alike(o, ftp) /\ o.queue = ftp.queue /\ o.data = ftp.data
             /\ o.isReady = FALSE /\ o.timeout = None /\ o.wire = IF code = 1 THEN ftp.wire ELSE <<>>
<1>. DEFINE wire == IF code = 1 \/ ftp.wire = <<>> THEN ftp.wire ELSE Tail(ftp.wire)
            o == Heard(ftp, code)
<1>1. /\ ftp \in Client /\ ftp \in Holding(F) /\ ftp.wire \in Seq(Queued) /\ Len(ftp.wire) = 1
      /\ ftp.isReady = FALSE
  BY ReplyFacts DEF Well, Waiting, Client
<1>2. wire \in Seq(Queued) /\ wire = IF code = 1 THEN ftp.wire ELSE <<>>
  <2>1. ftp.wire # <<>> /\ Tail(ftp.wire) = <<>> /\ Tail(ftp.wire) \in Seq(Queued)
    BY <1>1, TailOfOne
  <2>. QED  BY <1>1, <2>1
<1>3. o = [ftp EXCEPT !.timeout = None, !.wire = wire]
  BY Zenon DEF Heard
<1>. HIDE DEF wire, o
<1>4. /\ o \in Client /\ Alike(o, ftp) /\ o.queue = ftp.queue /\ o.trash = ftp.trash
      /\ o.wire = wire /\ o.isReady = FALSE /\ o.data = ftp.data /\ o.timeout = None
  BY <1>1, <1>2, <1>3 DEF Client, Alike
<1>. QED  BY <1>1, <1>2, <1>4 DEF Holding, o

\* A transfer leaves the queue.
LEMMA OverOp ==
  ASSUME NEW F, NEW o \in Holding(F), o.queue # <<>>
  PROVE  LET r == TransferOver(o)
         IN  /\ r \in Holding(F) /\ Alike(r, o) /\ r.queue = Tail(o.queue) /\ r.wire = o.wire
             /\ r.trash = <<>>
<1>. DEFINE t == Tail(o.queue)  r == TransferOver(o)
<1>1. o \in Client /\ t \in Seq(Valid(F)) /\ t \in Seq(Queued)
  BY HoldingTypes, HeadTailProperties
<1>2. PICK z : z = <<>> /\ \A S : z \in Seq(S)
  BY NoEntries
<1>3. r = [o EXCEPT !.queue = t, !.trash = z]
  BY <1>2, Zenon DEF TransferOver
<1>. HIDE DEF t, r
<1>4. z \in Seq(Queued) /\ z \in Seq(Keepable(F))
  BY <1>2
<1>5. r \in Client /\ Alike(r, o) /\ r.queue = t /\ r.wire = o.wire /\ r.trash = z
  BY <1>1, <1>3, <1>4 DEF Client, Alike
<1>. QED  BY <1>1, <1>2, <1>4, <1>5 DEF Holding, t, r

\* What follows a transfer may be asked when the transfer is over.
LEMMA OverStartable ==
  ASSUME NEW F, Well(F), NEW o \in Holding(F), Alike(o, ftp), o.wire = <<>>, o.queue # <<>>,
         ftp.link = "up", Arranged(o), Head(o.queue).cmd \in Transfers
  PROVE  LET r == TransferOver(o)
         IN  Startable(r, F) /\ Alike(r, ftp) /\ (r.legitClose => ~HeadIs(r.queue, {"USER", "PASS"}))
<1>1. LET r == TransferOver(o)
      IN  /\ r \in Holding(F) /\ Alike(r, o) /\ r.queue = Tail(o.queue) /\ r.wire = o.wire
          /\ r.trash = <<>>
  BY OverOp
<1>2. Head(o.queue).cmd \notin LoginCmds \cup {"goodbye"} /\ o.queue \in Seq(Queued)
  BY HoldingTypes DEF Transfers, Sending, Sending2, LoginCmds
<1>3. /\ Placed(Tail(o.queue)) /\ ~Stuck(Tail(o.queue))
      /\ o.legitClose => /\ Fresh(Tail(o.queue))
                         /\ ~HeadIs(Tail(o.queue), Sending2 \cup {"goodbye", "USER", "PASS"})
  BY <1>2, PlacedTail DEF Arranged
<1>. QED  BY <1>1, <1>3 DEF Startable, Arranged, Alike, HeadIs

\* A transfer has ended or goes on; in the one case its callback cleans up.
Ends(F) == /\ \/ Kept(F) /\ UNCHANGED <<ui, waited>>
              \/ Kept({}) /\ ui' = TRUE /\ waited' \subseteq waited
           /\ done' \subseteq begun

LEMMA TransferEnds ==
  ASSUME NEW F, Well(F), Reply(2), Answered.cmd \in Transfers, EndTransfer
  PROVE  Ends(F)
<1>. DEFINE h == Heard(ftp, 2)  r == TransferOver(h)
            g == [r EXCEPT !.transfer = FALSE]  c == Cleanup(g, FALSE)
<1>1. ftp' = Proceed(c) /\ ui' = TRUE /\ waited' = waited \ {Answered.arg}
      /\ done' \in {done, done \cup {Answered.arg}}
  BY DEF EndTransfer
<1>2. /\ ftp.link = "up" /\ Waiting(ftp, srv) /\ F \subseteq File /\ ftp.queue # <<>>
      /\ ~ftp.isReconnecting /\ Answered \in Valid(F) /\ 2 \in Code
  BY ReplyFacts DEF Code
<1>3. h \in Holding(F) /\ Alike(h, ftp) /\ h.queue # <<>> /\ h.wire = <<>>
  <2>1. PICK code \in Code : code = 2
    BY <1>2
  <2>. DEFINE k == Heard(ftp, code)
  <2>2. /\ k \in Holding(F) /\ Alike(k, ftp) /\ k.queue = ftp.queue
        /\ k.wire = IF code = 1 THEN ftp.wire ELSE <<>>
    BY <2>1, HeardOp
  <2>3. h = k
    BY <2>1
  <2>. HIDE DEF k, h
  <2>. QED  BY <1>2, <2>1, <2>2, <2>3
<1>. HIDE DEF h
<1>4. r \in Client /\ Alike(r, ftp) /\ r.wire = <<>>
  BY <1>3, OverOp, HoldingTypes DEF Alike
<1>. HIDE DEF r
<1>5. g \in Client /\ Alike(g, r) /\ g.wire = r.wire
  BY <1>4 DEF Client, Alike
<1>. HIDE DEF g
<1>6. /\ c \in Holding({}) /\ c.queue = <<>> /\ Arranged(c) /\ c.link = r.link /\ c.wire = r.wire
      /\ c.isConnected = r.isConnected /\ c.isReconnecting = r.isReconnecting
      /\ c.transferMode = "" /\ c.currentWorkingDir = ""
  BY <1>5, CleanupOp DEF Alike
<1>. HIDE DEF c
<1>7. Startable(c, {}) /\ c.isConnected /\ ~c.isReconnecting /\ Believes(c, srv')
  <2>1. ftp.isConnected /\ ~ftp.isReconnecting
    BY <1>2 DEF Waiting
  <2>. QED  BY <1>2, <1>4, <1>6, <2>1 DEF Startable, Stuck, HeadIs, Believes, Alike
<1>8. Kept({})
  BY <1>1, <1>7, ProceedSound DEF Kept
<1>9. done' \subseteq begun
  <2>1. Answered.arg \in F /\ F \subseteq waited /\ waited \subseteq begun /\ done \subseteq begun
    BY <1>2 DEF Valid, Well, Current, TypeOK
  <2>. QED  BY <1>1, <2>1
<1>. QED  BY <1>1, <1>8, <1>9 DEF Ends

\* The reply that ends a transfer.
LEMMA EndSound ==
  ASSUME NEW F, Well(F), ReadEnd
  PROVE  Ends(F) /\ UNCHANGED disorder /\ \E code \in Code : Reply(code)
<1>. DEFINE q(c) == Heard(ftp, c)  o(c) == TransferOver(Heard(ftp, c))
            e(c) == [o(c) EXCEPT !.reported = TRUE, !.data = Killed(@)]
<1>1. PICK code \in Code :
        /\ Reads(code, Sending2)
        /\ \/ code = 2 /\ EndTransfer
           \/ /\ code # 2 /\ ftp' = Proceed(e(code))
              /\ UNCHANGED <<ui, waited, done>>
        /\ UNCHANGED disorder
  BY Zenon DEF ReadEnd
<1>2. Reply(code) /\ Answered.cmd \in Sending2
  BY <1>1 DEF Reads, HeadIs, Answered
<1>3. /\ ftp.link = "up" /\ Waiting(ftp, srv) /\ Believes(ftp, srv) /\ F \subseteq File
      /\ ftp.queue # <<>> /\ Answered \in Valid(F) /\ Arranged(ftp)
      /\ srv'.type = IF Asked.cmd = "TYPE" /\ code = 2 THEN Asked.arg ELSE srv.type
      /\ srv'.dir = IF Asked.cmd = "CWD" /\ code = 2 THEN Asked.arg ELSE srv.dir
      /\ srv'.login = "in" => srv.login = "in" \/ (Asked.cmd = "PASS" /\ code = 2)
      /\ code = 1 => ~srv.started
  BY <1>2, ReplyFacts
<1>4. Asked.cmd \in Sending /\ srv.started /\ Asked.cmd \notin {"TYPE", "CWD", "PASS"}
  <2>1. Asked.cmd \notin Unasked /\ ((Asked.cmd \in Sending /\ srv.started) \/ Answered = Asked \/ Answered.cmd = "aborted")
    BY <1>3 DEF Waiting, Answered, Asked
  <2>. QED  BY <1>2, <2>1 DEF Unasked, Sending, Sending2
<1>5. code # 1 /\ Beliefs(ftp, srv')
  BY <1>3, <1>4 DEF Believes, Beliefs
<1>. DEFINE h == q(code)  r == o(code)
<1>6. /\ h \in Holding(F) /\ Alike(h, ftp) /\ h.queue = ftp.queue /\ h.wire = <<>> /\ Arranged(h)
  BY <1>2, <1>3, <1>5, HeardOp DEF Arranged, Alike
<1>7. Startable(r, F) /\ Alike(r, ftp) /\ (r.legitClose => ~HeadIs(r.queue, {"USER", "PASS"}))
  <2>. HIDE DEF q
  <2>1. Head(h.queue).cmd \in Transfers
    BY <1>2, <1>6 DEF Answered, Transfers
  <2>2. r = TransferOver(h)
    BY DEF q
  <2>. QED  BY <1>3, <1>6, <2>1, <2>2, OverStartable
<1>. HIDE DEF o
<1>8. CASE code = 2
  <2>1. EndTransfer /\ Reply(2) /\ Answered.cmd \in Transfers
    BY <1>1, <1>2, <1>8 DEF Transfers
  <2>. QED  BY <1>1, <1>2, <2>1, TransferEnds DEF Ends
<1>9. CASE code # 2
  <2>. DEFINE d == Killed(r.data)  c == [r EXCEPT !.reported = TRUE, !.data = d]
  <2>1. ftp' = Proceed(c) /\ UNCHANGED <<ui, waited, done>>
    BY <1>1, <1>9, Zenon
  <2>2. r \in Client /\ d \in {None, "busy", "sent", "killed"}
    <3>1. r \in Client
      BY <1>7, HoldingTypes DEF Startable
    <3>2. r.data \in {None, "busy", "sent", "killed"}
      BY <3>1 DEF Client
    <3>. QED  BY <3>1, <3>2 DEF Killed
  <2>. HIDE DEF d
  <2>3. c \in Client /\ Alike(c, r) /\ c.wire = r.wire /\ c.queue = r.queue /\ c.trash = r.trash
    BY <2>2 DEF Client, Alike
  <2>. HIDE DEF c
  <2>4. Startable(c, F)
    BY <1>7, <2>3 DEF Startable, Holding, Arranged, Alike
  <2>5. Kept(F)
    BY <1>2, <1>5, <1>7, <2>1, <2>3, <2>4, ProceedWell DEF Kept, Alike, Beliefs
  <2>. QED  BY <1>1, <1>2, <2>1, <2>5 DEF Well, TypeOK, Ends
<1>. QED  BY <1>8, <1>9

LEMMA AcceptedOp ==
  ASSUME NEW F, NEW o \in Holding(F), o.queue # <<>>, Head(o.queue).cmd \in Sending
  PROVE  LET r == [o EXCEPT !.queue[1] = Accepted(@)]
         IN  /\ r \in Holding(F) /\ Alike(r, o) /\ r.wire = o.wire /\ r.isReady = o.isReady
             /\ r.data = o.data /\ r.timeout = o.timeout /\ r.queue # <<>> /\ Head(r.queue) = Accepted(Head(o.queue))
             /\ Head(r.queue).cmd \in Sending2
             /\ Arranged(o) => Arranged(r)
<1>. DEFINE q == o.queue  e == Accepted(q[1])  t == [q EXCEPT ![1] = e]
            r == [o EXCEPT !.queue[1] = Accepted(@)]
<1>1. /\ o \in Client /\ q \in Seq(Valid(F)) /\ q \in Seq(Queued) /\ 1 \in 1..Len(q) /\ Head(q) = q[1]
      /\ q[1] \in Valid(F) /\ q[1] \in Queued /\ q[1].cmd \in Sending /\ Seq(Valid(F)) \subseteq Seq(Queued)
  <2>1. o \in Client /\ q \in Seq(Valid(F)) /\ q \in Seq(Queued)
    BY HoldingTypes
  <2>2. 1 \in 1..Len(q) /\ Head(q) = q[1]
    BY <2>1, EmptySeq
  <2>3. q[1] \in Valid(F)
    BY <2>1, <2>2
  <2>. QED  BY <2>1, <2>2, <2>3, SeqSubset, Types
<1>2. e \in Valid(F) /\ e.cmd \in Sending2
  <2>1. PICK x : x = q[1]
    OBVIOUS
  <2>2. x \in Valid(F) /\ x \in Queued /\ x.cmd \in {"STOR", "APPE"}
    BY <1>1, <2>1 DEF Sending
  <2>3. /\ Accepted(x) \in Queued /\ Accepted(x).arg = x.arg /\ Accepted(x).then = x.then
        /\ Accepted(x).cmd \in {"STOR2", "APPE2"}
    BY <2>2 DEF Accepted, Queued, Command, Transfers, Sending2
  <2>4. Accepted(x) \in Valid(F)
    BY <2>2, <2>3 DEF Valid, Transfers, Sending, Sending2
  <2>. QED  BY <2>1, <2>3, <2>4 DEF Sending2
<1>. HIDE DEF e
<1>3. r = [o EXCEPT !.queue = t]
  BY <1>1 DEF e, Client
<1>4. /\ t \in Seq(Valid(F)) /\ Len(t) = Len(q) /\ t[1] = e /\ \A i \in 1..Len(q) : i # 1 => t[i] = q[i]
  BY <1>1, <1>2
<1>. HIDE DEF t, r
<1>5. t \in Seq(Queued)
  BY <1>1, <1>4
<1>6. t # <<>> /\ Head(t) = e
  BY <1>1, <1>4, <1>5, EmptySeq
<1>7. r \in Client /\ Alike(r, o) /\ r.wire = o.wire /\ r.queue = t /\ r.trash = o.trash
      /\ r.isReady = o.isReady /\ r.data = o.data /\ r.timeout = o.timeout
  BY <1>1, <1>3, <1>5 DEF Client, Alike
<1>8. Placed(q) => Placed(t)
  <2>. SUFFICES ASSUME Placed(q), NEW i \in 1..Len(q), i # 1 PROVE May(t[i - 1], t[i], Held(t, i))
    BY <1>4 DEF Placed
  <2>1. i - 1 \in 1..Len(q) /\ May(q[i - 1], q[i], Held(q, i)) /\ t[i] = q[i]
        /\ (i < Len(q) => i + 1 \in 1..Len(q) /\ t[i + 1] = q[i + 1])
    BY <1>4 DEF Placed
  <2>h. Held(t, i) => Held(q, i)
    BY <1>4, <2>1 DEF Held
  <2>2. CASE i - 1 = 1
    <3>1. t[i - 1] = e /\ q[i - 1] = q[1]
      BY <1>4, <2>2
    <3>. QED  BY <1>1, <1>2, <2>1, <2>h, <3>1 DEF May, Sending, Sending2, LoginCmds
  <2>3. CASE i - 1 # 1
    <3>1. t[i - 1] = q[i - 1]
      BY <1>4, <2>1, <2>3
    <3>. QED  BY <2>1, <2>h, <3>1 DEF May
  <2>. QED  BY <2>2, <2>3
<1>9. Fresh(q) => Fresh(t)
  BY <1>4 DEF Fresh
<1>. QED  BY <1>1, <1>2, <1>4, <1>6, <1>7, <1>8, <1>9 DEF Holding, Arranged, Alike, r, e

\* The reply that starts a transfer, or refuses it.
LEMMA StartSound == ASSUME NEW F, Well(F), ReadStart PROVE Ends(F) /\ UNCHANGED disorder /\ \E code \in Code : Reply(code)
<1>. DEFINE O(c) == [Heard(ftp, c) EXCEPT !.queue[1] = Accepted(@)]
            P(c) == [TransferOver(O(c)) EXCEPT !.queue = DropChecks(@), !.reported = TRUE,
                                               !.data = Killed(@)]
<1>1. PICK code \in Code :
        /\ Reads(code, Sending)
        /\ \/ /\ code # 2 \/ O(code).data = None
              /\ ftp' = IF O(code).data = None THEN Kill(O(code))
                        ELSE IF code = 1 THEN O(code) ELSE Proceed(P(code))
              /\ UNCHANGED <<ui, waited, done>>
           \/ code = 2 /\ O(code).data # None /\ EndTransfer
        /\ UNCHANGED disorder
  BY Zenon DEF ReadStart
<1>. DEFINE h == Heard(ftp, code)  o == O(code)  p == P(code)
<1>2. Reply(code) /\ Answered = Asked /\ Answered.cmd \in Sending
  <2>1. Sending \cap (Sending2 \cup {"aborted"}) = {}
    BY DEF Sending, Sending2
  <2>. QED  BY <1>1, <2>1, Answers DEF Reads
<1>3. /\ ftp.link = "up" /\ Waiting(ftp, srv) /\ Believes(ftp, srv) /\ F \subseteq File
      /\ ftp.queue # <<>> /\ Arranged(ftp)
      /\ srv'.type = srv.type /\ srv'.dir = srv.dir
      /\ srv'.login = "in" => srv.login = "in"
      /\ srv'.started = (code = 1)
      /\ ftp.isConnected /\ ~ftp.isReconnecting
  BY <1>2, ReplyFacts DEF Sending, Waiting
<1>4. /\ h \in Holding(F) /\ Alike(h, ftp) /\ h.queue = ftp.queue /\ Arranged(h)
      /\ h.isReady = FALSE /\ h.timeout = None /\ h.wire = IF code = 1 THEN ftp.wire ELSE <<>>
  BY <1>2, <1>3, HeardOp DEF Arranged, Alike
<1>. HIDE DEF h
<1>5. o = [h EXCEPT !.queue[1] = Accepted(@)]
  BY Zenon DEF h
<1>6. p = [TransferOver(o) EXCEPT !.queue = DropChecks(@), !.reported = TRUE, !.data = Killed(@)]
  BY Zenon
<1>7. \/ code = 2 /\ EndTransfer
      \/ /\ UNCHANGED <<ui, waited, done>>
         /\ ftp' = IF o.data = None THEN Kill(o) ELSE IF code = 1 THEN o ELSE Proceed(p)
  BY <1>1, Zenon
<1>. HIDE DEF O, P
<1>8. /\ o \in Holding(F) /\ Alike(o, ftp) /\ o.wire = h.wire /\ o.isReady = FALSE
      /\ o.queue # <<>> /\ Head(o.queue) = Accepted(Answered)
      /\ Head(o.queue).cmd \in Sending2 /\ Arranged(o) /\ o.timeout = None
  <2>1. Head(h.queue).cmd \in Sending /\ h.queue # <<>> /\ Head(h.queue) = Answered
    BY <1>2, <1>3, <1>4 DEF Answered
  <2>. DEFINE r == [h EXCEPT !.queue[1] = Accepted(@)]
  <2>2. /\ r \in Holding(F) /\ Alike(r, h) /\ r.wire = h.wire /\ r.isReady = h.isReady
        /\ r.data = h.data /\ r.timeout = h.timeout /\ r.queue # <<>> /\ Head(r.queue) = Accepted(Head(h.queue))
        /\ Head(r.queue).cmd \in Sending2
        /\ Arranged(h) => Arranged(r)
    BY <1>4, <2>1, AcceptedOp
  <2>3. o = r
    BY <1>5
  <2>. HIDE DEF r, o
  <2>. QED  BY <1>4, <2>1, <2>2, <2>3 DEF Alike
<1>. HIDE DEF o
<1>e. CASE code = 2 /\ EndTransfer
  <2>1. Answered.cmd \in Transfers /\ Reply(2)
    BY <1>2, <1>e DEF Transfers
  <2>. QED  BY <1>1, <1>2, <1>e, <2>1, TransferEnds
<1>u. SUFFICES ASSUME UNCHANGED <<ui, waited, done>>,
                      ftp' = IF o.data = None THEN Kill(o) ELSE IF code = 1 THEN o ELSE Proceed(p)
               PROVE  Kept(F)
  BY <1>1, <1>2, <1>7, <1>e DEF Ends, Well, TypeOK
<1>9. CASE o.data = None
  <2>1. ftp' = Kill(o)
    BY <1>u, <1>9
  <2>2. Armed(Kill(o))
    BY <1>3, <1>8, KillOp DEF Armed, Alike, HeadIs, Sending2, None
  <2>3. Kill(o) \in Holding(F) /\ Ending(Kill(o))
    BY <1>3, <1>8, <2>2, KillOp DEF Ending, Arranged, Alike, None
  <2>. QED  BY <2>1, <2>3, EndingSound DEF Kept
<1>10. CASE o.data # None /\ code = 1
  <2>1. ftp' = o
    BY <1>u, <1>10
  <2>2. Believes(o, srv')
    BY <1>3, <1>8 DEF Believes, Alike, HeadIs, Sending2
  <2>3. Waiting(o, srv')
    <3>1. o.wire = ftp.wire
      BY <1>4, <1>8, <1>10
    <3>. QED  BY <1>2, <1>3, <1>8, <1>10, <3>1 DEF Waiting, Alike, Asked
  <2>4. Sound(o, srv')
    <3>1. Armed(o)
      BY <1>3, <1>8 DEF Armed, Alike
    <3>. QED  BY <1>3, <1>8, <2>2, <2>3, <3>1 DEF Sound, Linked, Alike, None
  <2>. QED  BY <1>8, <2>1, <2>4 DEF Kept
<1>11. CASE o.data # None /\ code # 1
  <2>. DEFINE r == TransferOver(o)  t == DropChecks(r.queue)  d == Killed(r.data)
  <2>1. Startable(r, F) /\ Alike(r, ftp) /\ (r.legitClose => ~HeadIs(r.queue, {"USER", "PASS"}))
    BY <1>3, <1>4, <1>8, <1>11, OverStartable DEF Transfers
  <2>. HIDE DEF r
  <2>2. /\ t \in Seq(Valid(F)) /\ Placed(t) /\ ~Stuck(t) /\ t \in Seq(Queued)
        /\ r.legitClose => Fresh(t) /\ ~HeadIs(t, {"USER", "PASS"})
    <3>1. r.queue \in Seq(Valid(F)) /\ Seq(Valid(F)) \subseteq Seq(Queued)
      BY <2>1, HoldingTypes, SeqSubset, Types DEF Startable
    <3>. QED  BY <2>1, <3>1, DropChecksOp DEF Startable, Arranged
  <2>3. r \in Client /\ d \in {None, "busy", "sent", "killed"}
    <3>1. r \in Client
      BY <2>1, HoldingTypes DEF Startable
    <3>2. r.data \in {None, "busy", "sent", "killed"}
      BY <3>1 DEF Client
    <3>. QED  BY <3>1, <3>2 DEF Killed
  <2>4. p = [r EXCEPT !.queue = t, !.reported = TRUE, !.data = d]
    BY <1>6, Zenon DEF r
  <2>. HIDE DEF p, t, d
  <2>5. p \in Client /\ Alike(p, r) /\ p.wire = r.wire /\ p.queue = t /\ p.trash = r.trash
    BY <2>2, <2>3, <2>4 DEF Client, Alike
  <2>6. Startable(p, F)
    BY <2>1, <2>2, <2>5 DEF Startable, Holding, Arranged, Alike
  <2>7. Beliefs(p, srv')
    BY <1>3, <2>1, <2>5 DEF Beliefs, Believes, Alike
  <2>8. ftp' = Proceed(p)
    BY <1>u, <1>11
  <2>. QED  BY <1>2, <1>3, <2>1, <2>2, <2>5, <2>6, <2>7, <2>8, ProceedWell DEF Kept, Alike
<1>. QED  BY <1>9, <1>10, <1>11

-----------------------------------------------------------------------------
(* Connecting.                                                             *)

\* Fields that nothing here depends on have changed.
Same(p, o) == /\ Alike(p, o) /\ p.queue = o.queue /\ p.wire = o.wire /\ p.isReady = o.isReady
              /\ p.timeout \in {o.timeout, None} /\ (p.transfer => o.transfer)

LEMMA SameSound == ASSUME NEW p, NEW o, Same(p, o), NEW sv, Sound(o, sv) PROVE Sound(p, sv)
BY DEF Same, Alike, Sound, Arranged, Linked, Free, Waiting, Believes, Armed

LEMMA GreetingOp ==
  ASSUME NEW F, Well(F), ftp.link = "opening", HeadIs(ftp.queue, {"welcome"})
  PROVE  LET o == [Popped(2) EXCEPT !.link = "up"]
         IN  /\ o \in Holding(F) /\ Arranged(o) /\ o.link = "up" /\ o.wire = <<>>
             /\ ~HeadIs(o.queue, {"welcome"}) /\ ~o.isConnected
             /\ o.legitClose => /\ ~HeadIs(o.queue, Sending2 \cup {"goodbye", "USER", "PASS"})
                                /\ o.currentWorkingDir = ""
             /\ o.transferMode = "" /\ srv.login # "in"
<1>. DEFINE h == Heard(ftp, 2)  t == Tail(ftp.queue)  o == [Popped(2) EXCEPT !.link = "up"]
<1>1. /\ ftp \in Client /\ ftp.queue \in Seq(Valid(F)) /\ ftp.queue \in Seq(Queued)
      /\ ftp.trash \in Seq(Keepable(F)) /\ ftp.queue # <<>> /\ Arranged(ftp)
      /\ ~ftp.isConnected /\ ftp.transferMode = "" /\ (ftp.legitClose => ftp.currentWorkingDir = "")
      /\ srv.login # "in" /\ Head(ftp.queue).cmd = "welcome"
  BY HoldingTypes DEF Well, Sound, Linked, HeadIs
<1>2. PICK z : z = <<>> /\ \A S : z \in Seq(S)
  BY NoEntries
<1>3. ftp.wire = z
  BY <1>2 DEF Well, Orderly
<1>4. h = [ftp EXCEPT !.timeout = None, !.wire = z]
  BY <1>2, <1>3 DEF Heard
<1>5. t \in Seq(Valid(F)) /\ t \in Seq(Queued)
  BY <1>1, HeadTailProperties
<1>6. h.queue = ftp.queue
  BY <1>1, <1>4 DEF Client
<1>7. o = [h EXCEPT !.queue = t, !.link = "up"]
  <2>1. Discard(h, Head(h.queue)) = h
    BY <1>1, <1>6 DEF Discard, Forgettable
  <2>2. Popped(2) = [h EXCEPT !.queue = t]
    BY <1>6, <2>1, Zenon DEF Popped, Shifted
  <2>3. h \in Client
    <3>1. z \in Seq(Queued)
      BY <1>2
    <3>. HIDE DEF h
    <3>. QED  BY <1>1, <1>4, <3>1 DEF Client
  <2>. HIDE DEF h, t
  <2>. QED  BY <2>2, <2>3 DEF Client
<1>. HIDE DEF h, t, o
<1>8. /\ o \in Client /\ o.queue = t /\ o.trash = ftp.trash /\ o.link = "up" /\ o.wire = z
      /\ o.isConnected = ftp.isConnected /\ o.legitClose = ftp.legitClose
      /\ o.transferMode = ftp.transferMode /\ o.currentWorkingDir = ftp.currentWorkingDir
  <2>1. z \in Seq(Queued)
    BY <1>2
  <2>. QED  BY <1>1, <1>4, <1>5, <1>7, <2>1 DEF Client
<1>9. /\ Placed(t) /\ ~HeadIs(t, {"welcome"})
      /\ ftp.legitClose => /\ Fresh(t)
                           /\ ~HeadIs(t, Sending2 \cup {"goodbye", "USER", "PASS"})
  BY <1>1, PlacedTail DEF Arranged, t
<1>. QED  BY <1>1, <1>2, <1>5, <1>8, <1>9 DEF Holding, Arranged, o

LEMMA MaxAttemptsInt == MaxAttempts \in Int
BY AttemptsAssumption DEF MaxAttempts

LEMMA WelcomeSound ==
  ASSUME NEW F, Well(F), ReadWelcome
  PROVE  Kept(F) /\ srv' \in Session /\ refused' \subseteq Refusable
<1>. DEFINE o == [Popped(2) EXCEPT !.link = "up"]
<1>1. /\ ftp.link = "opening" /\ HeadIs(ftp.queue, {"welcome"})
      /\ \/ /\ ftp' = Proceed(Greeted(o))
            /\ UNCHANGED <<srv, refused>>
         \/ /\ MayRefuse("welcome") /\ refused' = refused \cup {"welcome"}
            /\ ftp' = Proceed(Cleanup(o, FALSE))
            /\ srv' = [srv EXCEPT !.login = "refused"]
  BY Zenon DEF ReadWelcome
<1>2. /\ o \in Holding(F) /\ Arranged(o) /\ o.link = "up" /\ o.wire = <<>>
      /\ ~HeadIs(o.queue, {"welcome"}) /\ ~o.isConnected
      /\ o.legitClose => /\ ~HeadIs(o.queue, Sending2 \cup {"goodbye", "USER", "PASS"})
                         /\ o.currentWorkingDir = ""
      /\ o.transferMode = "" /\ srv.login # "in"
  BY <1>1, GreetingOp
<1>. HIDE DEF o
<1>3. o \in Client /\ o.queue \in Seq(Queued) /\ F \subseteq File /\ srv \in Session /\ refused \subseteq Refusable
  BY <1>2, HoldingTypes DEF Well, Current, TypeOK
<1>4. CASE ftp' = Proceed(Greeted(o)) /\ UNCHANGED <<srv, refused>>
  <2>. DEFINE g == [o EXCEPT !.isConnected = TRUE, !.isReconnecting = FALSE,
                             !.reconnectsLeft = MaxAttempts]
              s == <<Bare("USER")>>  r == Unshift(g, s)
  <2>1. /\ g \in Client /\ g.queue = o.queue /\ g.trash = o.trash /\ g.link = o.link /\ g.wire = o.wire
        /\ g.isConnected = TRUE /\ g.isReconnecting = FALSE /\ g.legitClose = o.legitClose
        /\ g.transferMode = o.transferMode /\ g.currentWorkingDir = o.currentWorkingDir
    BY <1>3, MaxAttemptsInt DEF Client
  <2>2. Greeted(o) = r
    BY Zenon DEF Greeted
  <2>. HIDE DEF g
  <2>3. PICK e : e = Bare("USER")
    OBVIOUS
  <2>4. e \in Valid(F) /\ e.cmd = "USER" /\ s = <<e>> /\ e \in Queued
    BY <2>3, LoginEntries, Types DEF Bare, Entry
  <2>5. s \in Seq(Valid(F))
    BY <2>4
  <2>. HIDE DEF s
  <2>6. r \in Holding(F) /\ Alike(r, g) /\ r.queue = s \o o.queue /\ r.wire = <<>>
    <3>1. g \in Holding(F)
      BY <1>2, <2>1 DEF Holding
    <3>. QED  BY <1>2, <2>1, <2>5, <3>1, UnshiftOp
  <2>. HIDE DEF r
  <2>7. /\ Placed(r.queue) /\ r.queue # <<>> /\ Head(r.queue) = e
        /\ r.legitClose => Fresh(r.queue)
    <3>1. o.queue # <<>> => May(e, o.queue[1], Held(o.queue, 1))
      BY <1>2, <1>3, <2>4, HeadOf, EmptySeq DEF May, LoginCmds
    <3>2. r.queue = <<e>> \o o.queue /\ r.legitClose = o.legitClose
      BY <2>1, <2>4, <2>6 DEF Alike
    <3>3. /\ Placed(o.queue)
          /\ o.legitClose => Fresh(o.queue) /\ ~HeadIs(o.queue, Sending2 \cup {"goodbye", "USER", "PASS"})
      BY ONLY <1>2 DEF Arranged
    <3>. QED  BY ONLY <1>3, <2>4, <3>1, <3>2, <3>3, PlacedCons
  <2>8. Startable(r, F) /\ r.isConnected /\ ~r.isReconnecting
    BY <1>2, <2>1, <2>4, <2>6, <2>7 DEF Startable, Arranged, Alike, HeadIs, Stuck, Sending2
  <2>9. Believes(r, srv')
    <3>1. srv' = srv
      BY <1>4
    <3>. QED  BY <1>2, <2>1, <2>6, <3>1 DEF Believes, Alike
  <2>. QED  BY <1>3, <1>4, <2>2, <2>8, <2>9, ProceedSound DEF Kept
<1>5. CASE /\ MayRefuse("welcome") /\ refused' = refused \cup {"welcome"}
           /\ ftp' = Proceed(Cleanup(o, FALSE))
           /\ srv' = [srv EXCEPT !.login = "refused"]
  <2>. DEFINE c == Cleanup(o, FALSE)  r == [c EXCEPT !.isReady = TRUE]
  <2>1. /\ c \in Holding(F) /\ c.queue = <<>> /\ c.currentWorkingDir = "" /\ c.transferMode = ""
        /\ c.link = "up" /\ ~c.isConnected /\ c.wire = <<>> /\ Arranged(c) /\ c \in Client
    BY <1>2, <1>3, CleanupOp, HoldingTypes
  <2>. HIDE DEF c
  <2>2. /\ r \in Client /\ Alike(r, c) /\ r.queue = c.queue /\ r.trash = c.trash /\ r.wire = c.wire
    BY <2>1 DEF Client, Alike
  <2>3. ftp' = r
    <3>1. Proceed(c) \in {r, WriteControl(r)}
      BY Zenon DEF Proceed
    <3>. HIDE DEF r
    <3>2. WriteControl(r) = r
      BY <2>1, <2>2, WriteControlIs
    <3>. QED  BY <1>5, <3>1, <3>2 DEF c
  <2>. HIDE DEF r
  <2>4. r \in Holding(F) /\ Arranged(r) /\ Free(r)
    BY <2>1, <2>2 DEF Holding, Arranged, Alike, Free, Stuck, HeadIs
  <2>5. Sound(r, srv')
    BY <2>1, <2>2, <2>4 DEF Sound, Linked, Alike, Believes, HeadIs, None, Armed
  <2>6. srv' \in Session
    BY <1>3, <1>5 DEF Session
  <2>7. refused' \subseteq Refusable
    BY <1>3, <1>5 DEF MayRefuse
  <2>. QED  BY <2>3, <2>4, <2>5, <2>6, <2>7 DEF Kept
<1>. QED  BY <1>1, <1>4, <1>5

LEMMA UnexpectedSound == ASSUME NEW F, Well(F), ReadUnexpected PROVE Kept(F)
<1>. DEFINE h == Heard(ftp, 2)  r == [h EXCEPT !.link = "up", !.isReady = TRUE]
<1>1. ftp.link = "opening" /\ ftp.queue = <<>> /\ ftp' = r /\ srv' = srv
  BY Zenon DEF ReadUnexpected, net
<1>2. /\ ftp \in Client /\ ftp \in Holding(F) /\ ftp.wire = <<>> /\ Arranged(ftp) /\ ~ftp.isConnected
      /\ ftp.transferMode = "" /\ (ftp.legitClose => ftp.currentWorkingDir = "") /\ srv.login # "in"
  BY <1>1, HoldingTypes DEF Well, Sound, Linked, Orderly
<1>3. h = [ftp EXCEPT !.timeout = None, !.wire = ftp.wire]
  BY <1>2 DEF Heard
<1>4. /\ r \in Client /\ r.queue = ftp.queue /\ r.trash = ftp.trash /\ r.wire = ftp.wire /\ r.link = "up"
      /\ r.isConnected = ftp.isConnected /\ r.legitClose = ftp.legitClose
      /\ r.transferMode = ftp.transferMode /\ r.currentWorkingDir = ftp.currentWorkingDir
  BY <1>2, <1>3 DEF Client
<1>. HIDE DEF r
<1>5. r \in Holding(F) /\ Arranged(r) /\ Free(r)
  BY <1>1, <1>2, <1>4 DEF Holding, Arranged, Free, Stuck, HeadIs
<1>6. Sound(r, srv)
  BY <1>1, <1>2, <1>4, <1>5 DEF Sound, Linked, Believes, HeadIs, None, Armed
<1>. QED  BY <1>1, <1>5, <1>6 DEF Kept

-----------------------------------------------------------------------------
(* The timers.                                                             *)

LEMMA WriteControlClosing ==
  ASSUME NEW F, F \subseteq File, NEW o \in Holding(F), Ending(o)
  PROVE  WriteControl(o) \in Holding(F) /\ Ending(WriteControl(o))
<1>1. CASE ~o.isReady \/ o.queue = <<>>
  <2>1. WriteControl(o) = o
    BY <1>1, WriteControlIs
  <2>. QED  BY <2>1
<1>2. CASE ~(~o.isReady \/ o.queue = <<>>)
  <2>. DEFINE p == Skimmed(o)  w == Write(p, Head(p.queue))
  <2>1. /\ p \in Holding(F) /\ Alike(p, o) /\ Arranged(p) /\ ~HeadIs(p.queue, Special) /\ ~Stuck(p.queue)
        /\ p \in Client
    <3>1. ~Stuck(o.queue) /\ o.queue # <<>> /\ Arranged(o)
      BY <1>2 DEF Ending, Armed
    <3>. QED  BY <3>1, SkimmedStarts, HoldingTypes
  <2>2. WriteControl(o) = IF p.queue = <<>> THEN p ELSE w
    BY <1>2, WriteControlIs
  <2>. HIDE DEF p
  <2>3. w \in Holding(F) /\ Alike(w, p) /\ w.queue = p.queue
    <3>1. w = [p EXCEPT !.isReady = FALSE, !.reported = TRUE]
      BY <2>1 DEF Write, Ending, Alike
    <3>. QED  BY <2>1, <3>1 DEF Holding, Client, Alike
  <2>4. PICK r \in {p, w} : WriteControl(o) = r
    BY <2>2
  <2>. HIDE DEF w
  <2>5. r \in Holding(F) /\ Alike(r, o) /\ Arranged(r) /\ ~HeadIs(r.queue, Special) /\ ~Stuck(r.queue)
    BY <2>1, <2>3, <2>4 DEF Alike, Arranged
  <2>6. Armed(r)
    BY <2>5 DEF Armed, HeadIs, Special
  <2>. QED  BY <2>4, <2>5, <2>6 DEF Ending, Alike
<1>. QED  BY <1>1, <1>2

LEMMA AddEnding ==
  ASSUME NEW F, F \subseteq File, NEW o \in Holding(F), Ending(o), NEW s \in Seq(Valid(F)), Plain(s)
  PROVE  Add(o, s) \in Holding(F) /\ Ending(Add(o, s))
<1>. DEFINE r == Add(o, s)
<1>1. /\ r \in Holding(F) /\ Alike(r, o) /\ r.isReady = o.isReady /\ Arranged(r)
      /\ r.timeout = o.timeout /\ r.transfer = o.transfer
      /\ o.queue # <<>> => r.queue # <<>> /\ Head(r.queue) = Head(o.queue)
      /\ o.queue = <<>> => ~HeadIs(r.queue, Special \cup {"USER", "PASS"})
      /\ Stuck(r.queue) => Stuck(o.queue)
  BY AddOp DEF Ending
<1>. HIDE DEF r
<1>2. \A C : C \subseteq Special /\ HeadIs(r.queue, C) => HeadIs(o.queue, C)
  BY <1>1 DEF HeadIs
<1>3. HeadIs(r.queue, Sending2) => HeadIs(o.queue, Sending2)
  BY <1>2 DEF Special
<1>4. HeadIs(r.queue, {"goodbye"}) => HeadIs(o.queue, {"goodbye"})
  BY <1>2 DEF Special
<1>5. HeadIs(r.queue, {"welcome"}) => HeadIs(o.queue, {"welcome"})
  BY <1>2 DEF Special
<1>6. Armed(r)
  BY <1>1, <1>3, <1>4, <1>5 DEF Ending, Armed, Alike
<1>. QED  BY <1>1, <1>6 DEF Ending, Alike, r

LEMMA ClosingEnds ==
  ASSUME NEW F, Well(F), ftp.link = "closing"
  PROVE  Ending(ftp)
BY DEF Well, Sound, Linked, Ending

LEMMA KeepAliveSound == ASSUME NEW F, Well(F), KeepAliveTimer PROVE Kept(F)
<1>. DEFINE s == <<Bare("NOOP")>>  a == Add(ftp, s)
<1>1. ftp.isConnected /\ ftp.queue = <<>> /\ ftp' = WriteControl(a) /\ srv' = srv
  BY Zenon DEF KeepAliveTimer, KeepAlive, net
<1>2. /\ ftp.link \in {"up", "closing"} /\ ~ftp.isReconnecting /\ F \subseteq File
      /\ ftp.link = "up" => Believes(ftp, srv) /\ Arranged(ftp) /\ ftp.wire = <<>>
  BY <1>1 DEF Well, Sound, Linked, Waiting, Free, Current, TypeOK
<1>3. ftp.link = "up" => Startable(ftp, F)
  BY <1>1, <1>2 DEF Startable, Well, Stuck, HeadIs
<1>4. s \in Seq(Valid(F)) /\ Plain(s)
  <2>. DEFINE P == {x \in Valid(F) : x.cmd \notin Special \cup {"USER", "PASS"}}
  <2>1. PICK e : e = Bare("NOOP")
    OBVIOUS
  <2>2. e \in P /\ s = <<e>>
    BY <2>1, LoginEntries DEF Bare, Entry, Special, Sending2
  <2>. HIDE DEF P
  <2>3. s \in Seq(P)
    BY <2>2
  <2>. HIDE DEF s
  <2>. QED  BY <1>2, <2>3, PlainEntries DEF P
<1>. HIDE DEF s
<1>c. CASE ftp.link = "closing"
  <2>. HIDE DEF a
  <2>1. a \in Holding(F) /\ Ending(a)
    BY <1>2, <1>4, <1>c, AddEnding, ClosingEnds DEF a, Well
  <2>. QED  BY <1>1, <1>2, <2>1, WriteControlClosing, EndingSound DEF Kept
<1>u. SUFFICES ASSUME ftp.link = "up" PROVE Kept(F)
  BY <1>2, <1>c
<1>5. Startable(a, F) /\ Alike(a, ftp) /\ ~HeadIs(a.queue, {"USER", "PASS"})
  <2>1. ~HeadIs(ftp.queue, {"USER", "PASS"})
    BY <1>1 DEF HeadIs
  <2>. QED  BY <1>2, <1>u, <1>3, <1>4, <2>1, AddStartable, AddOp DEF Startable
<1>. HIDE DEF a
<1>6. Believes(a, srv)
  BY <1>2, <1>u, <1>5 DEF Believes, Alike
<1>7. Started(WriteControl(a), a, F)
  BY <1>2, <1>5, WriteControlStarts
<1>8. WriteControl(a) \in Holding(F) /\ Sound(WriteControl(a), srv)
  BY <1>1, <1>2, <1>u, <1>5, <1>6, <1>7, StartedSound DEF Alike
<1>. QED  BY <1>1, <1>8 DEF Kept

\* "try to restart the connection the hard way"
LEMMA ResetOp ==
  ASSUME NEW F, F \subseteq File, NEW o \in Holding(F), o.link \in {"up", "closing"}, ~o.isReconnecting,
         Placed(o.queue), ~HeadIs(o.queue, {"welcome"}),
         Stuck(o.queue) => HeadIs(o.queue, Sending2) /\ ~o.isReady /\ ~o.transfer
  PROVE  ResetConnection(o) \in Holding(F) /\ Ending(ResetConnection(o))
<1>. DEFINE s == <<Bare("goodbye")>>
            b == o.twice \/ HeadIs(o.queue, {"goodbye"})
            g == [o EXCEPT !.legitClose = FALSE, !.twice = b]
            p == Unshift(g, s)
            q == IF p.isReady THEN Write(p, Bare("QUIT")) ELSE p
            d == Killed(q.data)
            k == [q EXCEPT !.data = d]
<1>1. ResetConnection(o) = Kill(k)
  BY Zenon DEF ResetConnection
<1>2. /\ g \in Client /\ g.queue = o.queue /\ g.trash = o.trash /\ g.link = o.link
      /\ g.isReconnecting = o.isReconnecting /\ g.legitClose = FALSE
      /\ g.isReady = o.isReady /\ g.transfer = o.transfer
  <2>1. o \in Client
    BY HoldingTypes
  <2>2. b \in BOOLEAN
    BY <2>1 DEF Client, HeadIs
  <2>. HIDE DEF b
  <2>. QED  BY <2>1, <2>2 DEF Client
<1>. HIDE DEF g
<1>3. g \in Holding(F) /\ o.queue \in Seq(Queued)
  BY <1>2, HoldingTypes DEF Holding
<1>4. PICK e : e = Bare("goodbye")
  OBVIOUS
<1>5. e \in Valid(F) /\ e.cmd = "goodbye" /\ s = <<e>> /\ e \in Queued
  BY <1>4, LoginEntries, Types DEF Bare, Entry
<1>6. s \in Seq(Valid(F))
  BY <1>5
<1>. HIDE DEF s
<1>7. /\ p \in Holding(F) /\ Alike(p, g) /\ p.queue = s \o o.queue /\ p.isReady = g.isReady
      /\ p.transfer = g.transfer
  <2>1. p.transfer = g.transfer
    BY <1>2 DEF Unshift, Client
  <2>. QED  BY <1>2, <1>3, <1>6, <2>1, UnshiftOp
<1>. HIDE DEF p
<1>8. /\ Placed(p.queue) /\ p.queue # <<>> /\ Head(p.queue) = e
      /\ Stuck(p.queue) => HeadIs(o.queue, Sending2)
  <2>1. o.queue # <<>> => May(e, o.queue[1], Held(o.queue, 1))
    <3>1. o.queue # <<>> => o.queue[1].cmd # "welcome"
      BY <1>3, HeadOf, EmptySeq
    <3>2. o.queue # <<>> /\ Held(o.queue, 1) => HeadIs(o.queue, Sending2)
      BY <1>3, StuckHeld, EmptySeq
    <3>3. o.queue # <<>> /\ Held(o.queue, 1) => o.queue[1].cmd # "goodbye"
      BY <1>3, <3>2, HeadOf DEF Sending2
    <3>. QED  BY <1>5, <3>1, <3>3 DEF May
  <2>2. /\ <<e>> \o o.queue \in Seq(Queued) /\ <<e>> \o o.queue # <<>> /\ Head(<<e>> \o o.queue) = e
        /\ Placed(<<e>> \o o.queue)
    BY <1>3, <1>5, <2>1, PlacedCons
  <2>3. Tail(<<e>> \o o.queue) = o.queue
    BY <1>3, <1>5
  <2>. HIDE DEF s
  <2>4. p.queue = <<e>> \o o.queue
    BY <1>5, <1>7
  <2>. QED  BY <1>5, <2>2, <2>3, <2>4 DEF Stuck, HeadIs, Sending2
<1>9. q \in Holding(F) /\ Alike(q, p) /\ q.queue = p.queue /\ (~p.isReady => q = p)
  <2>1. Bare("QUIT") \in Queued /\ Bare("QUIT").cmd # "goodbye"
    BY DEF Bare, Entry, Queued, Command, Arg
  <2>2. p \in Client
    BY <1>7, HoldingTypes
  <2>3. CASE p.isReady /\ p.link \in {"opening", "up"}
    <3>. DEFINE w == Write(p, Bare("QUIT"))
    <3>1. w \in Client /\ Alike(w, p) /\ w.queue = p.queue /\ w.trash = p.trash
      BY <2>1, <2>2, <2>3, WriteOp
    <3>2. q = w
      BY <2>3
    <3>. HIDE DEF w
    <3>. QED  BY <1>7, <2>3, <3>1, <3>2 DEF Holding
  <2>4. CASE p.isReady /\ p.link \notin {"opening", "up"}
    <3>1. q = [p EXCEPT !.isReady = FALSE, !.reported = TRUE]
      BY <2>4 DEF Write
    <3>. HIDE DEF q
    <3>2. q \in Client /\ q.queue = p.queue /\ q.trash = p.trash
      BY <2>2, <3>1 DEF Client
    <3>3. Alike(q, p)
      BY <2>2, <3>1 DEF Alike, Client
    <3>. QED  BY <1>7, <2>4, <3>2, <3>3 DEF Holding
  <2>5. CASE ~p.isReady
    BY <1>7, <2>5 DEF Alike
  <2>. QED  BY <2>3, <2>4, <2>5
<1>. HIDE DEF q
<1>10. /\ k \in Holding(F) /\ Alike(k, q) /\ k.queue = q.queue /\ k.isReady = q.isReady
       /\ k.transfer = q.transfer
  <2>1. q \in Client /\ q.data \in {None, "busy", "sent", "killed"}
    <3>1. q \in Client
      BY <1>9, HoldingTypes
    <3>. QED  BY <3>1 DEF Client
  <2>2. d \in {None, "busy", "sent", "killed"}
    BY <2>1 DEF Killed
  <2>. HIDE DEF d
  <2>3. /\ k \in Client /\ Alike(k, q) /\ k.queue = q.queue /\ k.trash = q.trash
        /\ k.isReady = q.isReady /\ k.transfer = q.transfer
    BY <2>1, <2>2 DEF Client, Alike
  <2>. HIDE DEF k
  <2>. QED  BY <1>9, <2>3 DEF Holding
<1>. HIDE DEF k
<1>11. /\ k.link # None /\ ~k.isReconnecting /\ k.legitClose = FALSE /\ Placed(k.queue)
       /\ k.queue # <<>> /\ Head(k.queue).cmd = "goodbye"
       /\ Stuck(k.queue) => ~k.isReady /\ ~k.transfer
  <2>1. HeadIs(o.queue, Sending2) => ~o.isReady /\ ~o.transfer
    BY DEF Stuck, HeadIs
  <2>2. ~o.isReady => ~p.isReady /\ q = p
    BY <1>2, <1>7, <1>9
  <2>. QED  BY <1>2, <1>5, <1>7, <1>8, <1>9, <1>10, <2>1, <2>2 DEF Alike, None
<1>12. LET r == Kill(k)
       IN  /\ r \in Holding(F) /\ r.link = "closing" /\ r.queue = k.queue
           /\ r.isReconnecting = k.isReconnecting /\ r.legitClose = k.legitClose
           /\ r.isReady = k.isReady /\ r.transfer = k.transfer
  BY <1>10, <1>11, KillOp
<1>13. Armed(Kill(k))
  BY <1>11, <1>12 DEF Armed, HeadIs, Sending2
<1>. QED  BY <1>1, <1>11, <1>12, <1>13 DEF Ending, Arranged

\* The head of the queue on a connection: what "goodbye" is put in front of.
LEMMA HeadHere ==
  ASSUME NEW F, Well(F), ftp.link = "up"
  PROVE  /\ ~HeadIs(ftp.queue, {"welcome"})
         /\ Stuck(ftp.queue) => HeadIs(ftp.queue, Sending2) /\ ~ftp.isReady
<1>1. CASE Free(ftp)
  BY <1>1 DEF Free, HeadIs, Stuck
<1>2. CASE Waiting(ftp, srv)
  <2>1. PICK e, w : e = Head(ftp.queue) /\ w = Head(ftp.wire)
    OBVIOUS
  <2>2. w \in Queued /\ w.cmd \notin Unasked /\ (e = w \/ (w.cmd \in Sending /\ e = Accepted(w)) \/ e.cmd = "aborted")
    BY <1>2, <2>1, Types DEF Waiting
  <2>3. w.cmd \in Sending => Accepted(w).cmd \in Sending2
    BY <2>2 DEF Accepted, Queued, Sending, Sending2
  <2>4. e.cmd \notin {"goodbye", "welcome"}
    BY <2>2, <2>3 DEF Unasked, Sending2
  <2>. QED  BY <1>2, <2>1, <2>4 DEF HeadIs, Stuck, Waiting
<1>. QED  BY <1>1, <1>2 DEF Well, Sound, Linked

LEMMA TimeoutSound == ASSUME NEW F, Well(F), CheckTimeout \/ CheckDataTimeout PROVE Kept(F)
<1>. DEFINE a == [ftp EXCEPT !.timeout = None]  b == [ftp EXCEPT !.transfer = FALSE]
<1>2. ftp \in Client /\ ftp \in Holding(F) /\ F \subseteq File /\ Sound(ftp, srv)
  BY HoldingTypes DEF Well, Current, TypeOK
<1>h. ftp.link = "up" => /\ ~HeadIs(ftp.queue, {"welcome"})
                         /\ Stuck(ftp.queue) => HeadIs(ftp.queue, Sending2) /\ ~ftp.isReady
  BY HeadHere
<1>g. ftp.isConnected /\ Stuck(ftp.queue) =>
        /\ HeadIs(ftp.queue, Sending2) => ftp.timeout = None /\ ~ftp.isReady
        /\ ~HeadIs(ftp.queue, Sending2) => HeadIs(ftp.queue, {"goodbye"}) /\ ~ftp.transfer
  BY <1>2, <1>h DEF Sound, Linked, Armed, Stuck, HeadIs
<1>1. PICK o \in {a, b} : /\ \/ ftp' = o
                              \/ /\ o.isConnected /\ ftp' = ResetConnection(o)
                                 /\ Stuck(o.queue) => HeadIs(o.queue, Sending2) /\ ~o.isReady /\ ~o.transfer
                          /\ srv' = srv /\ disorder' = disorder
  <2>1. CASE CheckTimeout
    <3>1. PICK c : c = (a.isConnected /\ a.queue # <<>> /\ Holds(Head(a.queue), ftp.timeout))
      OBVIOUS
    <3>2. ftp' = IF c THEN ResetConnection(a) ELSE a
      BY <2>1, <3>1, Zenon DEF CheckTimeout
    <3>3. srv' = srv /\ disorder' = disorder /\ ftp.timeout # None
      BY <2>1 DEF CheckTimeout, Overdue, net
    <3>4. a.isConnected = ftp.isConnected /\ a.queue = ftp.queue
      BY <1>2 DEF Client
    <3>5. ftp.timeout \in (Command \ {"goodbye"}) \cup {None}
      BY <1>2 DEF Client
    <3>6. c => ~Stuck(a.queue)
      <4>. HIDE DEF a
      <4>1. c /\ Stuck(a.queue) => ftp.timeout = "goodbye"
        BY <1>g, <3>1, <3>3, <3>4 DEF HeadIs, Holds
      <4>. QED  BY <3>3, <3>5, <4>1 DEF None
    <3>7. c => a.isConnected
      BY <3>1
    <3>. HIDE DEF a, b
    <3>. QED  BY <3>2, <3>3, <3>6, <3>7
  <2>2. CASE CheckDataTimeout
    <3>1. PICK c : c = (b.isConnected /\ b.data # None)
      OBVIOUS
    <3>2. ftp' = IF c THEN ResetConnection(b) ELSE b
      BY <2>2, <3>1, Zenon DEF CheckDataTimeout
    <3>3. srv' = srv /\ disorder' = disorder /\ ftp.transfer
      BY <2>2 DEF CheckDataTimeout, Stalled, net
    <3>4. b.isConnected = ftp.isConnected /\ b.queue = ftp.queue /\ b.isReady = ftp.isReady /\ ~b.transfer
      BY <1>2 DEF Client
    <3>5. c => b.isConnected
      BY <3>1
    <3>. HIDE DEF a, b
    <3>6. c /\ Stuck(b.queue) => HeadIs(b.queue, Sending2) /\ ~b.isReady /\ ~b.transfer
      BY <1>g, <3>3, <3>4, <3>5
    <3>. QED  BY <3>2, <3>3, <3>5, <3>6
  <2>. QED  BY <2>1, <2>2
<1>3. o \in Client /\ Same(o, ftp) /\ o.trash = ftp.trash
  <2>1. a \in Client /\ Same(a, ftp) /\ a.trash = ftp.trash
    BY <1>2 DEF Client, Same, Alike
  <2>2. b \in Client /\ Same(b, ftp) /\ b.trash = ftp.trash
    BY <1>2 DEF Client, Same, Alike
  <2>. HIDE DEF a, b
  <2>. QED  BY <1>1, <2>1, <2>2
<1>4. o \in Holding(F) /\ Sound(o, srv)
  BY <1>2, <1>3, SameSound DEF Holding, Same
<1>5. CASE ftp' = o
  BY <1>1, <1>4, <1>5 DEF Kept
<1>6. CASE ftp' # o
  <2>1. o.link \in {"up", "closing"} /\ ~o.isReconnecting /\ Placed(o.queue)
    BY <1>1, <1>4, <1>6 DEF Sound, Linked, Arranged
  <2>2. ~HeadIs(o.queue, {"welcome"})
    BY <1>2, <1>h, <1>3, <2>1 DEF Same, Alike, Sound, Armed
  <2>. QED  BY <1>1, <1>2, <1>4, <1>6, <2>1, <2>2, ResetOp, EndingSound DEF Kept
<1>. QED  BY <1>5, <1>6

LEMMA DataSentSound == ASSUME NEW F, Well(F), DataSent PROVE Kept(F)
<1>. DEFINE o == [ftp EXCEPT !.data = "sent"]
<1>1. ftp' = o /\ srv' = srv /\ ftp \in Client /\ ftp \in Holding(F) /\ Sound(ftp, srv)
  BY HoldingTypes DEF DataSent, net, Well
<1>2. o \in Client /\ Same(o, ftp) /\ o.trash = ftp.trash
  BY <1>1 DEF Client, Same, Alike
<1>. HIDE DEF o
<1>. QED  BY <1>1, <1>2, SameSound DEF Holding, Same, Kept

LEMMA SilenceSound == ASSUME NEW F, Well(F), Silence PROVE Kept(F) /\ srv' \in Session
<1>1. ftp' = ftp /\ srv' = [srv EXCEPT !.silent = TRUE] /\ srv \in Session /\ ftp \in Holding(F) /\ Sound(ftp, srv)
  BY DEF Silence, Well, TypeOK
<1>2. /\ srv' \in Session /\ srv'.type = srv.type /\ srv'.dir = srv.dir /\ srv'.login = srv.login
      /\ srv'.started = srv.started
  BY <1>1 DEF Session
<1>3. Sound(ftp, srv')
  BY <1>1, <1>2 DEF Sound, Linked, Waiting, Believes, Armed
<1>. QED  BY <1>1, <1>2, <1>3 DEF Kept

LEMMA DropSound ==
  ASSUME NEW F, Well(F), Drop
  PROVE  Kept(F) /\ files' \in [Dir \X File -> Status] /\ losses' \in 0..MaxLosses
<1>1. ftp.link = "up" /\ ftp' = Kill(ftp) /\ srv' = srv /\ ftp \in Holding(F) /\ Sound(ftp, srv)
  BY DEF Drop, Well
<1>h. /\ ~HeadIs(ftp.queue, {"welcome"})
      /\ Stuck(ftp.queue) => HeadIs(ftp.queue, Sending2) /\ ~ftp.isReady
  BY <1>1, HeadHere
<1>2. Kill(ftp) \in Holding(F) /\ Ending(Kill(ftp))
  <2>. DEFINE r == Kill(ftp)
  <2>1. /\ r \in Holding(F) /\ r.link = "closing" /\ r.queue = ftp.queue
        /\ r.isConnected = ftp.isConnected /\ r.isReconnecting = ftp.isReconnecting
        /\ r.legitClose = ftp.legitClose /\ r.isReady = ftp.isReady
        /\ r.timeout = ftp.timeout /\ r.transfer = ftp.transfer
    BY <1>1, KillOp DEF None
  <2>. HIDE DEF r
  <2>2. Armed(r)
    BY <1>1, <1>h, <2>1 DEF Armed, Sound, HeadIs, Sending2
  <2>. QED  BY <1>1, <2>1, <2>2 DEF Ending, Sound, Linked, Arranged, r
<1>3. losses' \in 0..MaxLosses
  BY FaultAssumption DEF Drop, Well, TypeOK
<1>4. files' \in [Dir \X File -> Status]
  <2>1. files \in [Dir \X File -> Status]
    BY DEF Well, TypeOK
  <2>2. Begun \in Status
    BY DEF Begun, Status
  <2>3. Place \in Dir \X File => Ended(files[Place]) \in Status
    BY <2>1 DEF Ended, Status
  <2>4. files' \in {files, [files EXCEPT ![Place] = Begun], [files EXCEPT ![Place] = Ended(files[Place])]}
    BY Zenon DEF Drop
  <2>. HIDE DEF Begun, Ended, Place
  <2>. QED  BY <2>1, <2>2, <2>3, <2>4
<1>. QED  BY <1>1, <1>2, <1>3, <1>4, EndingSound DEF Kept

-----------------------------------------------------------------------------
(* Connections that end and begin, and the user.                           *)

LEMMA NewSessionType == NewSession \in Session /\ NewSession.login = "no"
BY DirAssumption DEF NewSession, Session

LEMMA StopRequestSound ==
  ASSUME NEW F, Well(F), StopRequest
  PROVE  Kept(F) /\ srv' \in Session /\ reconnects' \in Nat
<1>. DEFINE d == Killed(ftp.data)  v == ftp.reported \/ ~ftp.isConnected
            p == [ftp EXCEPT !.reported = v, !.isConnected = FALSE, !.data = d,
                             !.link = None, !.wire = <<>>]
            t == IF HeadIs(p.queue, {"welcome"}) THEN Tail(p.queue) ELSE p.queue
            x == [p EXCEPT !.transferMode = "", !.isReconnecting = FALSE, !.queue = t]
            y == [p EXCEPT !.transferMode = "", !.isReconnecting = TRUE]
<1>1. /\ srv' = NewSession /\ reconnects' = reconnects + (IF ftp'.isReconnecting THEN 1 ELSE 0)
      /\ ftp' = Stopped(ftp)
  BY DEF StopRequest
<1>2. Stopped(ftp) = IF ~Retries(ftp) THEN Cleanup(p, FALSE) ELSE IF ftp.reconnectsLeft < 1 THEN x ELSE y
  BY Zenon DEF Stopped
<1>3. /\ ftp \in Client /\ ftp \in Holding(F) /\ Arranged(ftp) /\ ftp.queue \in Seq(Queued)
      /\ ftp.queue \in Seq(Valid(F))
  BY HoldingTypes DEF Well, Sound
<1>4. PICK z : z = <<>> /\ \A S : z \in Seq(S)
  BY NoEntries
<1>5. z \in Seq(Queued) /\ v \in BOOLEAN /\ d \in {None, "busy", "sent", "killed"}
  <2>1. ftp.data \in {None, "busy", "sent", "killed"} /\ ftp.reported \in BOOLEAN
    BY <1>3 DEF Client
  <2>. QED  BY <1>4, <2>1 DEF Killed
<1>6. p = [ftp EXCEPT !.reported = v, !.isConnected = FALSE, !.data = d, !.link = None, !.wire = z]
  BY <1>4
<1>. HIDE DEF v, d, p
<1>7. /\ p \in Client /\ p.queue = ftp.queue /\ p.trash = ftp.trash /\ p.link = None /\ p.wire = z
      /\ p.isConnected = FALSE /\ p.legitClose = ftp.legitClose
  BY <1>3, <1>5, <1>6 DEF Client
<1>8. p \in Holding(F) /\ Arranged(p)
  BY <1>3, <1>7 DEF Holding, Arranged
<1>9. ASSUME ftp' = Cleanup(p, FALSE) PROVE Kept(F)
  <2>1. LET r == Cleanup(p, FALSE)
        IN  /\ r \in Holding(F) /\ r.queue = <<>> /\ r.currentWorkingDir = "" /\ r.transferMode = ""
            /\ r.link = None /\ r.isConnected = FALSE /\ Arranged(r)
    BY <1>7, CleanupOp
  <2>2. Sound(ftp', srv')
    BY <1>9, <2>1 DEF Sound, Linked, Armed, None
  <2>. QED  BY <1>9, <2>1, <2>2 DEF Kept
<1>10. ASSUME Retries(ftp), ftp' \in {x, y} PROVE Kept(F)
  <2>1. /\ t \in Seq(Valid(F)) /\ t \in Seq(Queued)
        /\ Placed(t) /\ (p.legitClose => Fresh(t))
    <3>1. CASE HeadIs(p.queue, {"welcome"})
      <4>1. t = Tail(ftp.queue) /\ ftp.queue # <<>>
        BY <1>7, <3>1 DEF HeadIs
      <4>2. t \in Seq(Valid(F)) /\ t \in Seq(Queued)
        BY <1>3, <4>1, HeadTailProperties
      <4>. QED  BY <1>3, <1>7, <4>1, <4>2, PlacedTail DEF Arranged
    <3>2. CASE ~HeadIs(p.queue, {"welcome"})
      BY <1>3, <1>7, <3>2 DEF Arranged
    <3>. QED  BY <3>1, <3>2
  <2>. HIDE DEF t
  <2>2. /\ x \in Client /\ x.queue = t /\ x.trash = p.trash /\ x.link = None /\ x.transferMode = ""
        /\ x.isConnected = FALSE /\ x.legitClose = p.legitClose
    BY <1>7, <2>1 DEF Client
  <2>3. /\ y \in Client /\ y.queue = p.queue /\ y.trash = p.trash /\ y.link = None /\ y.transferMode = ""
        /\ y.isConnected = FALSE /\ y.legitClose = p.legitClose
    BY <1>7 DEF Client
  <2>. HIDE DEF x, y
  <2>4. x \in Holding(F) /\ Arranged(x) /\ y \in Holding(F) /\ Arranged(y)
    BY <1>8, <2>1, <2>2, <2>3 DEF Holding, Arranged
  <2>5. ~p.legitClose
    BY <1>7, <1>10 DEF Retries
  <2>6. Sound(x, srv') /\ Sound(y, srv')
    BY <2>2, <2>3, <2>4, <2>5 DEF Sound, Linked, Armed, None
  <2>. QED  BY <1>10, <2>4, <2>6 DEF Kept
<1>11. Kept(F)
  BY <1>1, <1>2, <1>9, <1>10
<1>12. reconnects' \in Nat
  BY <1>1 DEF Well, TypeOK
<1>. QED  BY <1>1, <1>11, <1>12, NewSessionType

\* A connection is made: "welcome" is at the head of the queue.
LEMMA OneOf == \A S : \A a \in S : <<a>> \in Seq(S)
OBVIOUS

LEMMA ConnectSound ==
  ASSUME NEW F, NEW o \in Holding(F), Arranged(o), o.link = None, ~o.isConnected,
         o.transferMode = "", o.legitClose => o.queue = <<>> /\ o.currentWorkingDir = ""
  PROVE  LET r == Connect(o)
         IN  /\ r \in Holding(F) /\ Sound(r, NewSession) /\ r.link = "opening" /\ r.wire = <<>>
             /\ HeadIs(r.queue, {"welcome"}) /\ r.isReady = o.isReady
<1>. DEFINE w == IF HeadIs(o.queue, {"welcome"}) THEN o.queue ELSE <<Bare("welcome")>> \o o.queue
            r == Connect(o)
<1>1. o \in Client /\ o.queue \in Seq(Queued) /\ o.queue \in Seq(Valid(F))
  BY HoldingTypes
<1>2. PICK z : z = <<>> /\ \A S : z \in Seq(S)
  BY NoEntries
<1>3. r = [o EXCEPT !.queue = w, !.timeout = None, !.transfer = FALSE, !.link = "opening", !.wire = z]
  BY <1>2, Zenon DEF Connect
<1>4. /\ w \in Seq(Queued) /\ w \in Seq(Valid(F)) /\ HeadIs(w, {"welcome"})
      /\ Placed(w) /\ (o.legitClose => Fresh(w))
  <2>1. CASE HeadIs(o.queue, {"welcome"})
    BY <1>1, <2>1 DEF Arranged
  <2>2. CASE ~HeadIs(o.queue, {"welcome"})
    <3>1. PICK e, s : e = Bare("welcome") /\ s = <<e>>
      OBVIOUS
    <3>2. e \in Valid(F) /\ e.cmd = "welcome" /\ e \in Queued /\ s = <<e>> /\ w = s \o o.queue
      BY <2>2, <3>1, LoginEntries, Types DEF Bare, Entry
    <3>3. s \in Seq(Valid(F))
      <4>1. e \in Valid(F) /\ s = <<e>>
        BY <3>2
      <4>. QED  BY <4>1, OneOf, Zenon
    <3>. HIDE DEF w
    <3>4. w \in Seq(Valid(F))
      BY <1>1, <3>2, <3>3, ConcatProperties
    <3>5. o.queue # <<>> => May(e, o.queue[1], Held(o.queue, 1))
      BY <1>1, <2>2, <3>2, HeadOf, EmptySeq DEF May, LoginCmds
    <3>6. o.legitClose => Fresh(o.queue) /\ ~HeadIs(o.queue, Sending2 \cup {"goodbye", "USER", "PASS"})
      BY DEF Arranged, HeadIs
    <3>. QED  BY <1>1, <3>2, <3>4, <3>5, <3>6, PlacedCons DEF Arranged, HeadIs
  <2>. QED  BY <2>1, <2>2
<1>. HIDE DEF w, r
<1>5. /\ r \in Client /\ r.queue = w /\ r.trash = o.trash /\ r.link = "opening" /\ r.wire = z
      /\ r.isConnected = o.isConnected /\ r.legitClose = o.legitClose /\ r.isReady = o.isReady
      /\ r.transferMode = o.transferMode /\ r.currentWorkingDir = o.currentWorkingDir
  <2>1. z \in Seq(Queued)
    BY <1>2
  <2>. QED  BY <1>1, <1>3, <1>4, <2>1 DEF Client
<1>6. r \in Holding(F) /\ Arranged(r)
  BY <1>4, <1>5 DEF Holding, Arranged
<1>7. Sound(r, NewSession)
  BY <1>4, <1>5, <1>6, NewSessionType DEF Sound, Linked, Armed, None
<1>. QED  BY <1>2, <1>4, <1>5, <1>6, <1>7 DEF r

LEMMA ConnectHolds ==
  ASSUME NEW F, NEW o \in Holding(F)
  PROVE  Connect(o) \in Holding(F)
<1>. DEFINE w == IF HeadIs(o.queue, {"welcome"}) THEN o.queue ELSE <<Bare("welcome")>> \o o.queue
            r == Connect(o)
<1>1. o \in Client /\ o.queue \in Seq(Valid(F)) /\ Seq(Valid(F)) \subseteq Seq(Queued)
  BY HoldingTypes, SeqSubset, Types
<1>2. PICK z : z = <<>> /\ \A S : z \in Seq(S)
  BY NoEntries
<1>3. r = [o EXCEPT !.queue = w, !.timeout = None, !.transfer = FALSE, !.link = "opening", !.wire = z]
  BY <1>2, Zenon DEF Connect
<1>4. w \in Seq(Valid(F)) /\ w \in Seq(Queued) /\ z \in Seq(Queued)
  <2>1. PICK e, s : e = Bare("welcome") /\ s = <<e>>
    OBVIOUS
  <2>2. e \in Valid(F)
    BY <2>1, LoginEntries
  <2>3. s \in Seq(Valid(F))
    BY <2>1, <2>2
  <2>4. s \o o.queue \in Seq(Valid(F))
    BY <1>1, <2>3, ConcatProperties
  <2>5. w \in {o.queue, s \o o.queue}
    BY <2>1
  <2>. HIDE DEF w
  <2>. QED  BY <1>1, <1>2, <2>4, <2>5
<1>. HIDE DEF w, r
<1>5. r \in Client /\ r.queue = w /\ r.trash = o.trash
  BY <1>1, <1>3, <1>4 DEF Client
<1>. QED  BY <1>4, <1>5 DEF Holding, r

LEMMA ReconnectSound ==
  ASSUME NEW F, Well(F), ReconnectTimer
  PROVE  Kept(F) /\ srv' \in Session /\ reconnects' \in Nat
<1>1. /\ reconnects > 0 /\ reconnects' = reconnects - 1
      /\ ftp' = Reconnect(ftp) /\ srv' = (IF ftp.isReconnecting THEN NewSession ELSE srv)
      /\ disorder' = (ftp.isReconnecting /\ Connecting)
  BY DEF ReconnectTimer
<1>2. /\ ftp \in Client /\ ftp \in Holding(F) /\ Sound(ftp, srv) /\ srv \in Session /\ reconnects \in Nat
  BY HoldingTypes DEF Well, TypeOK
<1>3. CASE ftp.isReconnecting
  <2>. DEFINE n == ftp.reconnectsLeft - 1  o == [ftp EXCEPT !.reconnectsLeft = n]
  <2>1. ftp' = Connect(o) /\ srv' = NewSession
    BY <1>1, <1>3, Zenon DEF Reconnect
  <2>2. n \in Int
    <3>1. ftp.reconnectsLeft \in Int
      BY <1>2 DEF Client
    <3>. QED  BY <3>1
  <2>. HIDE DEF n
  <2>3. o \in Client /\ Same(o, ftp) /\ o.trash = ftp.trash
    BY <1>2, <2>2 DEF Client, Same, Alike
  <2>. HIDE DEF o
  <2>4. o \in Holding(F)
    BY <1>2, <2>3 DEF Holding, Same
  <2>5. ASSUME Connecting PROVE Kept(F)
    BY <1>1, <1>3, <2>1, <2>4, <2>5, ConnectHolds, NewSessionType DEF Kept, Orderly
  <2>6. ASSUME ~Connecting PROVE Kept(F)
    <3>1. ftp.link = None
      BY <2>6 DEF Connecting
    <3>2. /\ ~ftp.isConnected /\ ftp.transferMode = "" /\ Arranged(ftp)
          /\ ftp.legitClose => ftp.queue = <<>> /\ ftp.currentWorkingDir = ""
      BY <1>2, <3>1 DEF Sound, Linked, None
    <3>3. Arranged(o)
      BY <2>3, <3>2 DEF Arranged, Same, Alike
    <3>4. Connect(o) \in Holding(F) /\ Sound(Connect(o), NewSession)
      BY <2>3, <2>4, <3>1, <3>2, <3>3, ConnectSound DEF Same, Alike
    <3>. QED  BY <2>1, <3>4 DEF Kept
  <2>7. Kept(F)
    BY <2>5, <2>6
  <2>. QED  BY <1>1, <1>2, <2>1, <2>7, NewSessionType
<1>4. CASE ~ftp.isReconnecting
  <2>1. ftp' = ftp /\ srv' = srv
    BY <1>1, <1>4 DEF Reconnect
  <2>. QED  BY <1>1, <1>2, <2>1 DEF Kept
<1>. QED  BY <1>3, <1>4

LEMMA NoFiles == \E G : G = {} /\ G \subseteq File
<1>. WITNESS {x \in File : FALSE}
<1>. QED  OBVIOUS

\* stopCallback(): nothing of an upload is left, and nothing is believed.
LEMMA StopSound == ASSUME NEW F, Well(F), Stop PROVE Kept({})
<1>. DEFINE g == [ftp EXCEPT !.isReconnecting = FALSE]  c == Cleanup(g, TRUE)
            d == Killed(c.data)  k == [c EXCEPT !.data = d]
            s == <<Bare("aborted")>>  a == Add(k, s)
<1>1. ftp' = Abort(ftp) /\ srv' = srv
  BY DEF Stop, net
<1>2. ftp \in Client /\ ftp \in Holding(F) /\ Sound(ftp, srv)
  BY HoldingTypes DEF Well
<1>3. Abort(ftp) = IF ~ftp.isConnected THEN c ELSE a
  BY Zenon DEF Abort
<1>4. /\ g \in Client /\ g.isReconnecting = FALSE /\ g.link = ftp.link /\ g.isConnected = ftp.isConnected
      /\ g.wire = ftp.wire /\ g.legitClose = ftp.legitClose /\ g.isReady = ftp.isReady
  BY <1>2 DEF Client
<1>. HIDE DEF g
<1>5. /\ c \in Holding({}) /\ c.queue = <<>> /\ c.currentWorkingDir = "" /\ c.transferMode = ""
      /\ c.link = ftp.link /\ c.isConnected = ftp.isConnected /\ c.wire = ftp.wire
      /\ c.isReconnecting = FALSE /\ c.legitClose = ftp.legitClose
      /\ c.isReady = ftp.isReady /\ Arranged(c) /\ c \in Client
  BY <1>4, CleanupOp, HoldingTypes
<1>. HIDE DEF c
<1>6. CASE ~ftp.isConnected
  <2>1. ftp.link = "up" => ftp.wire = <<>>
    BY <1>2, <1>6 DEF Sound, Linked, Free, Waiting
  <2>2. Sound(c, srv)
    <3>1. c.link = "up" => Free(c) /\ Believes(c, srv)
      BY <1>5, <2>1 DEF Free, Believes, Stuck, HeadIs
    <3>2. c.link = "opening" => srv.login # "in"
      BY <1>2, <1>5 DEF Sound, Linked
    <3>. QED  BY <1>5, <1>6, <3>1, <3>2 DEF Sound, Linked, Armed, Stuck, HeadIs
  <2>. QED  BY <1>1, <1>3, <1>5, <1>6, <2>2 DEF Kept
<1>7. CASE ftp.isConnected
  <2>1. /\ ftp.link \in {"up", "closing"}
        /\ ftp.link = "up" => Free(ftp) \/ Waiting(ftp, srv)
    BY <1>2, <1>7 DEF Sound, Linked
  <2>2. c.data \in {None, "busy", "sent", "killed"}
    BY <1>5 DEF Client
  <2>3. d \in {None, "busy", "sent", "killed"}
    BY <2>2 DEF Killed
  <2>. HIDE DEF d
  <2>4. k \in Client /\ Same(k, c) /\ k.trash = c.trash
    BY <1>5, <2>3 DEF Client, Same, Alike
  <2>. HIDE DEF k
  <2>5. k \in Holding({}) /\ Arranged(k)
    BY <1>5, <2>4 DEF Holding, Same, Alike, Arranged
  <2>6. PICK e : e = Bare("aborted")
    OBVIOUS
  <2>7. e.cmd = "aborted" /\ s = <<e>> /\ s # <<>> /\ Head(s) = e
    BY <2>6 DEF Bare, Entry
  <2>8. s \in Seq(Valid({})) /\ Plain(s)
    <3>. DEFINE P == {x \in Valid({}) : x.cmd \notin Special \cup {"USER", "PASS"}}
    <3>1. e \in P
      BY <2>6, <2>7, LoginEntries DEF Special, Sending2
    <3>. HIDE DEF P
    <3>2. s \in Seq(P)
      BY <2>7, <3>1
    <3>. HIDE DEF s
    <3>. QED  BY <3>2, PlainEntries DEF P
  <2>. HIDE DEF s
  <2>9. /\ a \in Holding({}) /\ Alike(a, k) /\ a.wire = k.wire /\ a.isReady = k.isReady
        /\ Arranged(a) /\ a.queue = s /\ ~HeadIs(a.queue, Special \cup {"USER", "PASS"})
        /\ ~Stuck(a.queue)
    <3>1. k.queue = <<>>
      BY <1>5, <2>4 DEF Same
    <3>2. PICK G : G = {} /\ G \subseteq File
      BY NoFiles
    <3>3. k \in Holding(G) /\ s \in Seq(Valid(G)) /\ Arranged(k)
      BY <2>5, <2>8, <3>2
    <3>4. /\ a \in Holding(G) /\ Alike(a, k) /\ a.wire = k.wire /\ a.isReady = k.isReady
          /\ Arranged(k) => Arranged(a)
          /\ k.queue = <<>> => a.queue = s /\ ~HeadIs(a.queue, Special \cup {"USER", "PASS"})
          /\ Stuck(a.queue) => Stuck(k.queue)
      BY <2>8, <3>2, <3>3, AddOp
    <3>. HIDE DEF a
    <3>5. ~Stuck(k.queue)
      BY <3>1 DEF Stuck, HeadIs
    <3>. QED  BY <3>1, <3>2, <3>3, <3>4, <3>5
  <2>. HIDE DEF a
  <2>10. /\ a.link = ftp.link /\ a.isConnected /\ ~a.isReconnecting /\ a.currentWorkingDir = ""
         /\ a.transferMode = "" /\ a.wire = ftp.wire /\ a.isReady = ftp.isReady
    BY <1>5, <1>7, <2>1, <2>4, <2>9 DEF Same, Alike
  <2>11. Believes(a, srv)
    BY <2>10 DEF Believes
  <2>a. Armed(a)
    BY <2>9 DEF Armed, Stuck, HeadIs, Special
  <2>c. CASE ftp.link = "closing"
    BY <1>1, <1>3, <1>7, <2>9, <2>10, <2>a, <2>c DEF Kept, Sound, Linked, None
  <2>12. CASE ftp.link = "up" /\ Free(ftp)
    <3>1. Free(a)
      BY <2>9, <2>10, <2>12 DEF Free
    <3>. QED  BY <1>1, <1>3, <1>7, <2>9, <2>10, <2>11, <2>12, <2>a, <3>1 DEF Kept, Sound, Linked, None
  <2>13. CASE ftp.link = "up" /\ Waiting(ftp, srv)
    <3>1. Waiting(a, srv)
      BY <2>7, <2>9, <2>10, <2>13 DEF Waiting
    <3>. QED  BY <1>1, <1>3, <1>7, <2>9, <2>10, <2>11, <2>13, <2>a, <3>1 DEF Kept, Sound, Linked, None
  <2>. QED  BY <2>1, <2>12, <2>13, <2>c
<1>. QED  BY <1>6, <1>7

LEMMA HoldingMore ==
  ASSUME NEW F, NEW G, F \subseteq G, NEW o \in Holding(F)
  PROVE  o \in Holding(G)
<1>1. Valid(F) \subseteq Valid(G) /\ Keepable(F) \subseteq Keepable(G)
  BY Types
<1>. QED  BY <1>1, SeqSubset DEF Holding

\* What has been added to the queue is written if the client is ready.
LEMMA AddedSound ==
  ASSUME NEW F, F \subseteq File, NEW o \in Holding(F), Sound(o, srv), o.link = "up", o.isConnected,
         NEW s \in Seq(Valid(F)), Plain(s)
  PROVE  LET r == WriteControl(Add(o, s)) IN r \in Holding(F) /\ Sound(r, srv)
<1>. DEFINE a == Add(o, s)
<1>1. /\ a \in Holding(F) /\ Alike(a, o) /\ a.wire = o.wire /\ a.isReady = o.isReady
      /\ Arranged(a)
      /\ o.queue # <<>> => a.queue # <<>> /\ Head(a.queue) = Head(o.queue)
      /\ o.queue = <<>> => ~HeadIs(a.queue, Special \cup {"USER", "PASS"})
      /\ Stuck(a.queue) => Stuck(o.queue)
      /\ a.timeout = o.timeout
  BY AddOp DEF Sound
<1>. HIDE DEF a
<1>2. /\ Believes(o, srv) /\ ~o.isReconnecting /\ (Free(o) \/ Waiting(o, srv)) /\ Armed(o)
  BY DEF Sound, Linked
<1>3. Believes(a, srv)
  <2>1. HeadIs(a.queue, {"USER", "PASS"}) => HeadIs(o.queue, {"USER", "PASS"})
    BY <1>1 DEF HeadIs
  <2>. QED  BY <1>1, <1>2, <2>1 DEF Believes, Alike
<1>4. CASE Free(o)
  <2>1. Startable(a, F)
    BY <1>1, <1>4 DEF Startable, Free, Alike, HeadIs
  <2>2. Started(WriteControl(a), a, F)
    BY <2>1, WriteControlStarts
  <2>. QED  BY <1>1, <1>2, <1>3, <2>2, StartedSound DEF Alike, a
<1>5. CASE Waiting(o, srv)
  <2>1. Waiting(a, srv)
    BY <1>1, <1>5 DEF Waiting, Alike
  <2>2. WriteControl(a) = a
    BY <2>1, WriteControlIs DEF Waiting
  <2>3. Sound(a, srv)
    <3>1. Armed(a)
      BY <1>1, <1>2, <1>5 DEF Armed, Alike, Waiting, HeadIs
    <3>. QED  BY <1>1, <1>2, <1>3, <2>1, <3>1 DEF Sound, Linked, Alike, None
  <2>. QED  BY <1>1, <2>2, <2>3 DEF a
<1>. QED  BY <1>2, <1>4, <1>5

\* On a connection that is being made the upload waits behind the greeting, or
\* its order is lost.
LEMMA WaitsForGreeting ==
  ASSUME NEW F, F \subseteq File, NEW o \in Holding(F), Sound(o, NewSession), o.link = "opening",
         o.wire = <<>>, HeadIs(o.queue, {"welcome"}), NEW s \in Seq(Valid(F)), Plain(s)
  PROVE  LET r == WriteControl(Add(o, s))
         IN  /\ r \in Holding(F) /\ r.link = "opening"
             /\ Sound(r, NewSession) \/ r.wire # <<>>
<1>. DEFINE a == Add(o, s)  n == Skips(a)  p == Skimmed(a)  r == WriteControl(a)
<1>1. /\ a \in Holding(F) /\ Alike(a, o) /\ a.wire = o.wire /\ a.isReady = o.isReady
      /\ Arranged(a) /\ a.queue # <<>> /\ Head(a.queue) = Head(o.queue)
  BY AddOp DEF Sound, HeadIs
<1>. HIDE DEF a
<1>2. a.link = "opening" /\ HeadIs(a.queue, {"welcome"})
  BY <1>1 DEF HeadIs, Alike
<1>3. Sound(a, NewSession)
  BY <1>1, <1>2 DEF Sound, Linked, Alike, Armed, None
<1>4. r \in Holding(F)
  BY <1>1, WriteControlHolds
<1>5. CASE ~a.isReady
  <2>1. r = a
    BY <1>5, WriteControlIs
  <2>. QED  BY <1>2, <1>3, <1>4, <2>1 DEF a
<1>6. CASE a.isReady
  <2>1. /\ a.queue \in Seq(Queued) /\ Len(a.queue) # 0 /\ Len(a.queue) \in Nat /\ a.queue[1].cmd = "welcome"
    BY <1>1, <1>2, HoldingTypes, HeadOf
  <2>2. n \in 0..Len(a.queue) /\ \A i \in 1..n : Skipped(a, a.queue[i])
    BY <2>1, SkipsOp
  <2>3. n = 0
    <3>1. ~Skipped(a, a.queue[1])
      BY <2>1 DEF Skipped, Redundant
    <3>2. n # 0 => 1 \in 1..n
      BY <2>2
    <3>. QED  BY <2>2, <3>1, <3>2
  <2>4. /\ p \in Holding(F) /\ Alike(p, a) /\ p.queue = SubSeq(a.queue, n + 1, Len(a.queue))
        /\ p.queue # <<>> => Head(p.queue).cmd # "goodbye"
    BY <1>1, SkimmedOp
  <2>. HIDE DEF p, n
  <2>5. p.queue \in Seq(Queued) /\ Len(p.queue) = Len(a.queue)
    <3>1. LET t == SubSeq(a.queue, n + 1, Len(a.queue))
          IN  t \in Seq(Queued) /\ Len(t) = Len(a.queue) - n
      BY <2>1, <2>2, PlacedSuffix
    <3>. QED  BY <2>1, <2>3, <2>4, <3>1
  <2>6. p.queue # <<>> /\ Head(p.queue) \in Queued
    BY <2>1, <2>5, EmptySeq, HeadTailProperties
  <2>7. r = Write(p, Head(p.queue))
    BY <1>1, <1>6, <2>6, WriteControlIs DEF p
  <2>8. LET w == Write(p, Head(p.queue))
        IN  Alike(w, p) /\ w.wire = Append(p.wire, Head(p.queue))
    <3>1. p \in Client /\ p.link \in {"opening", "up"}
      BY <1>2, <2>4, HoldingTypes DEF Alike
    <3>. QED  BY <2>4, <2>6, <3>1, WriteOp
  <2>9. Append(p.wire, Head(p.queue)) # <<>>
    <3>1. p.wire \in Seq(Queued)
      BY <2>4, HoldingTypes
    <3>. QED  BY <2>6, <3>1, AppendProperties, EmptySeq
  <2>. QED  BY <1>2, <1>4, <2>4, <2>7, <2>8, <2>9 DEF Alike, a
<1>. QED  BY <1>5, <1>6

\* uploadItem(): the upload is added to what is left of the earlier ones.
LEMMA UploadSound ==
  ASSUME NEW F, Well(F), NEW f \in File, Upload(f), NEW G, G = F \cup {f}
  PROVE  Kept(G) /\ srv' \in Session
<1>. DEFINE v == ftp.reported /\ ~ui  o == [ftp EXCEPT !.reported = v]
            g == [o EXCEPT !.isReconnecting = FALSE, !.reconnectsLeft = MaxAttempts]
            c == IF o.isConnected THEN o ELSE ConnectAnew(o)
            Said(s) == s \in Seq(Valid(G)) /\ Plain(s)
<1>1. /\ ftp' = IF DirOf[f] = Root THEN FtpUploadFile(c, f) ELSE ChangeDirThenUpload(c, f)
      /\ disorder' = (~ftp.isConnected /\ Connecting)
      /\ srv' = IF ftp.isConnected THEN srv ELSE NewSession
  BY Zenon DEF Upload
<1>3. G \subseteq File /\ f \in G /\ F \subseteq G
  BY DEF Well, Current, TypeOK
<1>2. PICK s : Said(s) /\ ftp' = WriteControl(Add(c, s))
  <2>1. Said(Entries(c, f)) /\ Said(<<Entry("CWD", DirOf[f], f)>>)
    <3>. HIDE DEF c
    <3>. QED  BY <1>3, UploadEntries
  <2>2. /\ FtpUploadFile(c, f) = WriteControl(Add(c, Entries(c, f)))
        /\ ChangeDirThenUpload(c, f) = WriteControl(Add(c, <<Entry("CWD", DirOf[f], f)>>))
    BY UploadIs
  <2>. HIDE DEF Said, c
  <2>. QED  BY <1>1, <2>1, <2>2, Zenon
<1>4. /\ ftp \in Client /\ ftp \in Holding(G) /\ Sound(ftp, srv) /\ srv \in Session
  BY <1>3, HoldingTypes, HoldingMore DEF Well, TypeOK
<1>5. o \in Client /\ Same(o, ftp) /\ o.trash = ftp.trash
  <2>1. v \in BOOLEAN
    BY <1>4 DEF Client
  <2>. HIDE DEF v
  <2>. QED  BY <1>4, <2>1 DEF Client, Same, Alike
<1>. HIDE DEF o
<1>6. o \in Holding(G) /\ Sound(o, srv)
  BY <1>4, <1>5, SameSound DEF Holding, Same
<1>7. CASE ftp.isConnected
  <2>1. o.link \in {"up", "closing"} /\ o.isConnected /\ srv' = srv /\ c = o
    BY <1>1, <1>4, <1>5, <1>7 DEF Sound, Linked, Same, Alike
  <2>2. CASE o.link = "up"
    <3>1. LET r == WriteControl(Add(o, s)) IN r \in Holding(G) /\ Sound(r, srv)
      BY <1>2, <1>3, <1>6, <2>1, <2>2, AddedSound
    <3>. QED  BY <1>2, <1>4, <2>1, <3>1 DEF Kept
  <2>3. CASE o.link = "closing"
    <3>. DEFINE a == Add(o, s)
    <3>1. Ending(o)
      BY <1>6, <2>3 DEF Ending, Sound, Linked
    <3>2. a \in Holding(G) /\ Ending(a)
      BY <1>2, <1>3, <1>6, <3>1, AddEnding
    <3>. HIDE DEF a
    <3>3. WriteControl(a) \in Holding(G) /\ Sound(WriteControl(a), srv)
      BY <1>3, <3>2, WriteControlClosing, EndingSound
    <3>. QED  BY <1>2, <1>4, <2>1, <3>3 DEF Kept, a
  <2>. QED  BY <2>1, <2>2, <2>3
<1>8. CASE ~ftp.isConnected
  <2>1. srv' = NewSession /\ c = Connect(g)
    <3>1. ~o.isConnected
      BY <1>5, <1>8 DEF Same, Alike
    <3>. QED  BY <1>1, <1>8, <3>1 DEF ConnectAnew
  <2>2. /\ g \in Client /\ g.queue = o.queue /\ g.trash = o.trash /\ g.link = o.link
        /\ g.isConnected = o.isConnected /\ g.legitClose = o.legitClose
        /\ g.transferMode = o.transferMode /\ g.currentWorkingDir = o.currentWorkingDir
    BY <1>5, MaxAttemptsInt DEF Client
  <2>. HIDE DEF g
  <2>3. g \in Holding(G)
    BY <1>6, <2>2 DEF Holding
  <2>4. ASSUME Connecting PROVE Kept(G)
    <3>1. c \in Holding(G)
      BY <2>1, <2>3, ConnectHolds
    <3>. HIDE DEF c
    <3>2. Add(c, s) \in Holding(G)
      BY <1>2, <1>3, <3>1, AddOp
    <3>3. ftp' \in Holding(G)
      BY <1>2, <1>3, <3>2, WriteControlHolds
    <3>. QED  BY <1>1, <1>8, <2>4, <3>3 DEF Kept, Orderly
  <2>5. ASSUME ~Connecting PROVE Kept(G)
    <3>1. ftp.link = None
      BY <2>5 DEF Connecting
    <3>2. /\ ~g.isConnected /\ g.transferMode = "" /\ Arranged(g) /\ g.link = None
          /\ g.legitClose => g.queue = <<>> /\ g.currentWorkingDir = ""
      BY <1>4, <1>5, <1>8, <2>2, <3>1 DEF Sound, Linked, Arranged, Same, Alike, None
    <3>3. /\ c \in Holding(G) /\ Sound(c, NewSession) /\ c.link = "opening" /\ c.wire = <<>>
          /\ HeadIs(c.queue, {"welcome"})
      <4>. HIDE DEF c
      <4>. QED  BY ONLY <2>1, <2>3, <3>2, ConnectSound
    <3>. HIDE DEF c
    <3>4. LET r == WriteControl(Add(c, s))
          IN  /\ r \in Holding(G) /\ r.link = "opening"
              /\ Sound(r, NewSession) \/ r.wire # <<>>
      BY <1>2, <1>3, <3>3, WaitsForGreeting
    <3>. QED  BY <1>2, <2>1, <3>4 DEF Kept, Orderly
  <2>. QED  BY <2>1, <2>4, <2>5, NewSessionType
<1>. QED  BY <1>7, <1>8

-----------------------------------------------------------------------------
(* The theorems.                                                           *)

LEMMA FtpInit == ASSUME Init PROVE FtpInv
<1>1. PICK z : z = <<>> /\ \A S : z \in Seq(S)
  BY NoEntries
<1>2. ftp = [queue |-> z, trash |-> z, wire |-> z, isConnected |-> FALSE,
             isReady |-> FALSE, isReconnecting |-> FALSE, legitClose |-> TRUE,
             reconnectsLeft |-> 0, transferMode |-> "", currentWorkingDir |-> "",
             featXCheck |-> FALSE, data |-> None, timeout |-> None, transfer |-> FALSE,
             link |-> None, reported |-> FALSE,
             twice |-> FALSE]
  BY <1>1, Zenon DEF Init, NewClient
<1>3. z \in Seq(Queued) /\ z \in Seq(Valid({})) /\ z \in Seq(Keepable({})) /\ 1..Len(z) = {}
  BY <1>1
<1>4. /\ ftp \in Client /\ ftp.queue = z /\ ftp.trash = z /\ ftp.link = None /\ ftp.legitClose = TRUE
      /\ ftp.isConnected = FALSE /\ ftp.transferMode = "" /\ ftp.currentWorkingDir = ""
  <2>1. /\ FALSE \in BOOLEAN /\ TRUE \in BOOLEAN /\ 0 \in Int /\ "" \in {"", "A", "I"}
        /\ "" \in {""} \cup Dir /\ None \in {None, "busy", "sent", "killed"}
        /\ None \in (Command \ {"goodbye"}) \cup {None} /\ None \in {None, "opening", "up", "closing"}
    OBVIOUS
  <2>3. ftp \in Client
    BY <1>2, <1>3, <2>1, Zenon DEF Client
  <2>. QED  BY <1>2, <2>3
<1>5. ftp \in Holding({}) /\ Arranged(ftp)
  <2>1. Placed(z) /\ Fresh(z)
    BY <1>3, Zenon DEF Placed, Fresh
  <2>. QED  BY <1>3, <1>4, <2>1 DEF Holding, Arranged
<1>6. Sound(ftp, srv)
  BY <1>1, <1>4, <1>5 DEF Sound, Linked, Armed, None
<1>7. TypeOK
  <2>1. files \in [Dir \X File -> Status]
    BY DEF Init, Status
  <2>2. made \subseteq Dir
    BY DEF Init
  <2>3. reconnects \in Nat /\ ui \in BOOLEAN /\ begun \subseteq File
        /\ waited \subseteq begun /\ done \subseteq begun
        /\ losses \in 0..MaxLosses /\ refused \subseteq Refusable /\ disorder \in BOOLEAN
    <3>1. 0 \in 0..MaxLosses
      BY FaultAssumption
    <3>2. reconnects = 0 /\ ui = TRUE /\ begun = {} /\ waited = {} /\ done = {} /\ losses = 0 /\ refused = {}
          /\ disorder = FALSE
      BY DEF Init
    <3>. QED  BY <3>1, <3>2
  <2>. QED  BY <1>4, <2>1, <2>2, <2>3, NewSessionType DEF TypeOK, Init
<1>8. Current({})
  BY DEF Current
<1>. QED  BY <1>5, <1>6, <1>7, <1>8 DEF FtpInv

\* What a step leaves of the types that the lemmas above do not speak of.
Rest == /\ reconnects \in Nat
        /\ ui \in BOOLEAN /\ begun \subseteq File /\ waited \subseteq begun /\ done \subseteq begun
        /\ srv \in Session /\ files \in [Dir \X File -> Status] /\ made \subseteq Dir
        /\ losses \in 0..MaxLosses /\ refused \subseteq Refusable
        /\ disorder \in BOOLEAN

LEMMA KeptInv ==
  ASSUME NEW F, Current(F)', Kept(F), Rest'
  PROVE  FtpInv'
<1>1. ftp' \in Holding(F) /\ ftp' \in Client
  BY HoldingTypes DEF Kept
<1>2. TypeOK'
  BY <1>1 DEF TypeOK, Rest
<1>. QED  BY <1>1, <1>2 DEF FtpInv, Kept

LEMMA ReadStep == ASSUME NEW F, Well(F), Read PROVE FtpInv'
<1>1. /\ reconnects \in Nat /\ ui \in BOOLEAN /\ begun \subseteq File /\ waited \subseteq begun
      /\ done \subseteq begun /\ losses \in 0..MaxLosses /\ disorder \in BOOLEAN /\ Current(F)
  BY DEF Well, TypeOK
<1>2. ASSUME NEW code \in Code, Reply(code)
      PROVE  /\ srv' \in Session /\ files' \in [Dir \X File -> Status] /\ made' \subseteq Dir
             /\ refused' \subseteq Refusable /\ UNCHANGED <<losses, reconnects, begun>>
  BY <1>2, ReplyFacts
<1>3. CASE ReadEnd \/ ReadStart
  <2>1. /\ Ends(F) /\ UNCHANGED disorder /\ \E code \in Code : Reply(code)
    BY <1>3, EndSound, StartSound
  <2>2. CASE Kept(F) /\ UNCHANGED <<ui, waited>>
    <3>1. Rest' /\ Current(F)'
      BY <1>1, <1>2, <2>1, <2>2 DEF Rest, Current, Ends
    <3>. QED  BY <2>2, <3>1, KeptInv
  <2>3. CASE Kept({}) /\ ui' = TRUE /\ waited' \subseteq waited
    <3>1. Rest' /\ Current({})'
      BY <1>1, <1>2, <2>1, <2>3 DEF Rest, Current, Ends
    <3>. QED  BY <2>3, <3>1, KeptInv
  <2>. QED  BY <2>1, <2>2, <2>3 DEF Ends
<1>4. CASE ~(ReadEnd \/ ReadStart)
  <2>1. /\ Kept(F) /\ UNCHANGED <<ui, waited, done>> /\ disorder' \in BOOLEAN
        /\ \E code \in Code : Reply(code)
    <3>1. CASE ReadLogin
      BY <1>1, <3>1, LoginSound DEF ReadLogin, Reads
    <3>2. CASE ReadPwd
      BY <1>1, <3>2, PwdSound DEF ReadPwd, Reads
    <3>3. CASE ReadFeat
      BY <1>1, <3>3, FeatSound DEF ReadFeat, Reads
    <3>4. CASE ReadCwd
      BY <1>1, <3>4, CwdSound DEF ReadCwd, Reads
    <3>5. CASE ReadMkd
      BY <1>1, <3>5, MkdSound DEF ReadMkd, Reads
    <3>6. CASE ReadType
      BY <1>1, <3>6, TypeSound DEF ReadType, Reads
    <3>7. CASE ReadPasv
      BY <1>1, <3>7, PasvSound DEF ReadPasv, Reads
    <3>8. CASE ReadSize
      BY <1>1, <3>8, SizeSound DEF ReadSize, Reads
    <3>9. CASE ReadOther
      BY <1>1, <3>9, OtherSound DEF ReadOther, Reads
    <3>10. CASE ReadAborted
      BY <1>1, <3>10, AbortedSound DEF ReadAborted, Reads
    <3>. QED  BY <1>4, <3>1, <3>2, <3>3, <3>4, <3>5, <3>6, <3>7, <3>8, <3>9, <3>10 DEF Read
  <2>2. Rest' /\ begun' = begun
    BY <1>1, <1>2, <2>1 DEF Rest
  <2>3. Current(F)'
    BY <1>1, <2>1, <2>2 DEF Current
  <2>. QED  BY <2>1, <2>2, <2>3, KeptInv
<1>. QED  BY <1>3, <1>4

LEMMA FtpStep == ASSUME FtpInv, Next PROVE FtpInv'
<1>1. PICK F : Well(F)
  BY DEF FtpInv, Next, Well
<1>2. Rest /\ Current(F)
  BY <1>1 DEF Well, TypeOK, Rest
<1>3. CASE ReadWelcome
  <2>1. Kept(F) /\ Rest' /\ UNCHANGED <<ui, waited>>
    BY <1>1, <1>2, <1>3, WelcomeSound DEF ReadWelcome, app, Rest
  <2>2. Current(F)'
    BY <1>2, <2>1 DEF Current
  <2>. QED  BY <2>1, <2>2, KeptInv
<1>4. CASE ReadUnexpected \/ KeepAliveTimer \/ CheckTimeout \/ CheckDataTimeout \/ DataSent
  <2>1. UNCHANGED <<reconnects, app, net, disorder>>
    BY <1>4 DEF ReadUnexpected, KeepAliveTimer, CheckTimeout, CheckDataTimeout, DataSent
  <2>2. Kept(F)
    BY <1>1, <1>4, UnexpectedSound, KeepAliveSound, TimeoutSound, DataSentSound
  <2>3. Rest' /\ Current(F)'
    BY <1>2, <2>1 DEF Rest, Current, app, net
  <2>. QED  BY <2>2, <2>3, KeptInv
<1>5. CASE Read
  BY <1>1, <1>5, ReadStep
<1>6. CASE ReconnectTimer
  <2>1. Kept(F) /\ Rest' /\ UNCHANGED <<ui, waited>>
    <3>1. Kept(F) /\ srv' \in Session /\ reconnects' \in Nat
      BY <1>1, <1>6, ReconnectSound
    <3>2. UNCHANGED <<app, files, made, losses, refused>> /\ disorder' \in BOOLEAN
      BY <1>1, <1>6, HoldingTypes DEF ReconnectTimer, Well, Client
    <3>. QED  BY <1>2, <3>1, <3>2 DEF app, Rest
  <2>2. Current(F)'
    BY <1>2, <2>1 DEF Current
  <2>. QED  BY <2>1, <2>2, KeptInv
<1>7. CASE StopRequest
  <2>1. Kept(F) /\ Rest' /\ UNCHANGED <<ui, waited>>
    BY <1>1, <1>2, <1>7, StopRequestSound DEF StopRequest, app, Rest
  <2>2. Current(F)'
    BY <1>2, <2>1 DEF Current
  <2>. QED  BY <2>1, <2>2, KeptInv
<1>8. CASE Stop
  <2>1. Kept({}) /\ Rest'
    BY <1>1, <1>2, <1>8, StopSound DEF Stop, net, Rest
  <2>2. Current({})'
    BY DEF Current
  <2>. QED  BY <2>1, <2>2, KeptInv
<1>9. ASSUME NEW f \in File, Upload(f) PROVE FtpInv'
  <2>1. PICK G : G = F \cup {f}
    OBVIOUS
  <2>2. Kept(G) /\ srv' \in Session
    BY <1>1, <1>9, <2>1, UploadSound
  <2>3. /\ ui' = FALSE /\ begun' = begun \cup {f} /\ waited' = waited \cup {f}
        /\ disorder' \in BOOLEAN /\ UNCHANGED <<reconnects, done, files, made, losses, refused>>
    BY <1>1, <1>9, HoldingTypes DEF Upload, Well, Client
  <2>4. Rest' /\ Current(G)'
    BY <1>2, <2>1, <2>2, <2>3 DEF Rest, Current
  <2>. QED  BY <2>2, <2>4, KeptInv
<1>10. CASE Drop
  <2>1. Kept(F) /\ Rest' /\ UNCHANGED <<ui, waited>>
    BY <1>1, <1>2, <1>10, DropSound DEF Drop, app, Rest
  <2>2. Current(F)'
    BY <1>2, <2>1 DEF Current
  <2>. QED  BY <2>1, <2>2, KeptInv
<1>11. CASE Silence
  <2>1. Kept(F) /\ Rest' /\ UNCHANGED <<ui, waited>>
    <3>1. losses' \in 0..MaxLosses
      BY <1>2, <1>11, FaultAssumption DEF Silence, Rest
    <3>. QED  BY <1>1, <1>2, <1>11, <3>1, SilenceSound DEF Silence, app, Rest
  <2>2. Current(F)'
    BY <1>2, <2>1 DEF Current
  <2>. QED  BY <2>1, <2>2, KeptInv
<1>. QED  BY <1>3, <1>4, <1>5, <1>6, <1>7, <1>8, <1>9, <1>10, <1>11 DEF Next, System, User, Network

LEMMA FtpStutter == ASSUME FtpInv, UNCHANGED vars PROVE FtpInv'
BY DEF FtpInv, vars, app, net, TypeOK, Orderly, Current

LEMMA FtpInvariant == Spec => []FtpInv
BY FtpInit, FtpStep, FtpStutter, PTL DEF Spec

-----------------------------------------------------------------------------
(* What the invariant says.                                                *)

\* The control connection's state is well typed: its two queues, the commands on
\* the wire and the timers, whatever is recovered, recycled or put back.
THEOREM FtpTypeCorrect == Spec => []TypeOK
<1>1. FtpInv => TypeOK
  BY DEF FtpInv
<1>. QED  BY <1>1, FtpInvariant, PTL

\* readControl() takes the first entry of the queue for the one a reply answers:
\* it is, although timers, the user and the callbacks of other replies add to the
\* queue and put commands back in front of it.
THEOREM RepliesForHead == Spec => []ReplyIsForHead
<1>1. FtpInv => ReplyIsForHead
  <2>. SUFFICES ASSUME FtpInv, Orderly, ftp.link = "up", ftp.wire # <<>>
                PROVE  /\ Len(ftp.wire) = 1 /\ ~ftp.isReady /\ ftp.queue # <<>>
                       /\ Holds(Head(ftp.queue), Asked.cmd) \/ Head(ftp.queue).cmd = "aborted"
    BY DEF ReplyIsForHead
  <2>1. Waiting(ftp, srv)
    BY DEF FtpInv, Sound, Linked, Free
  <2>2. PICK e, w : e = Head(ftp.queue) /\ w = Head(ftp.wire)
    OBVIOUS
  <2>3. /\ w.cmd \notin Unasked
        /\ e = w \/ (w.cmd \in Sending /\ e = Accepted(w)) \/ e.cmd = "aborted"
    BY <2>1, <2>2 DEF Waiting
  <2>4. w.cmd \in Sending => w \in Valid(File)
    BY <2>1, <2>2 DEF Waiting
  <2>5. Holds(e, w.cmd) \/ e.cmd = "aborted"
    <3>1. CASE w.cmd \in Sending /\ e = Accepted(w)
      BY <2>4, <3>1 DEF Holds, Accepted, Sending, Valid, Queued
    <3>. QED  BY <2>3, <3>1 DEF Holds
  <2>. QED  BY <2>1, <2>2, <2>5 DEF Waiting, Asked
<1>. QED  BY <1>1, FtpInvariant, PTL

\* Whatever adds to the queue and the trash, cleanup() in ftpEndRequest() and in
\* abort() leaves nothing of an upload that is over: neither a later reply nor a
\* recovery sends it again.
THEOREM NothingLeftOver == Spec => []NothingLeft
<1>1. FtpInv => NothingLeft
  <2>. SUFFICES ASSUME FtpInv PROVE NothingLeft
    OBVIOUS
  <2>1. PICK F : Current(F) /\ ftp \in Holding(F)
    BY DEF FtpInv
  <2>2. ASSUME NEW e \in ToSet(ftp.queue) \cup ToSet(ftp.trash) PROVE FilesOf(e) \subseteq F
    <3>1. ftp.queue \in Seq(Valid(F)) /\ ftp.trash \in Seq(Valid(F))
      BY <2>1 DEF Holding, Keepable
    <3>2. e \in Valid(F)
      BY <3>1 DEF ToSet
    <3>. QED  BY <3>2 DEF Valid, FilesOf
  <2>. QED  BY <2>1, <2>2 DEF Current, NothingLeft, FilesLeft
<1>. QED  BY <1>1, FtpInvariant, PTL

\* What writeControl() goes by when it skips a TYPE or a CWD is true of the
\* session, over losses, recoveries and refusals.
THEOREM BeliefsTrue == Spec => []BeliefsHold
<1>1. FtpInv => BeliefsHold
  BY DEF FtpInv, Sound, Linked, Believes, BeliefsHold
<1>. QED  BY <1>1, FtpInvariant, PTL
=============================================================================
