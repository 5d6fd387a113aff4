------------------------- MODULE InlineSpellChecker -------------------------
(***************************************************************************)
(* mozInlineSpellChecker (extensions/spellcheck/src): every change of the  *)
(* document and every move of the caret posts a status to the user         *)
(* interface thread's event queue, and ResumeCheck() handles it later,     *)
(* after whatever the user did meanwhile. A status keeps its positions as  *)
(* DOM ranges, which follow the document.                                  *)
(*                                                                         *)
(* The text is a sequence of places for words; a place whose spelling is   *)
(* "none" holds no word yet or no more. The caret is at the end of a       *)
(* place. A position is abstracted to its place, a range to the set of the *)
(* places whose words it makes the checker look at.                        *)
(***************************************************************************)
EXTENDS Integers, FiniteSets, SequencesExt

CONSTANTS MaxPlaces,   \* bound: the places there may ever be
          MaxWords,    \* values of the preference extensions.spellcheck.inline.max-misspellings
          MaxActions,  \* bound: what the user does
          MaxWaiting   \* bound: statuses that wait when the user does it

ASSUME SpellAssumption ==
  /\ MaxPlaces \in Nat /\ MaxPlaces > 0
  /\ MaxWords \subseteq Nat /\ MaxActions \in Nat /\ MaxWaiting \in Nat

Word   == 1..MaxPlaces
NoWord == 0

VARIABLES text,       \* the places, in document order
          spelling,   \* what each place reads: "none", "good" or "bad"
          caret,      \* the place the caret is in
          actions,    \* what the user has done so far
          on,         \* mSpellCheck is not null
          shown,      \* the spell check selection and mNumWordsInSpellSelection
          needs,      \* mNeedsCheckAfterNavigation
          saved,      \* mCurrentSelectionAnchorNode, mCurrentSelectionOffset
          limit,      \* mMaxNumWordsInSpellSelection
          queue,      \* the posted statuses
          missed      \* words whose check on leaving may be forgotten, see MarksSettled

document == <<text, spelling, caret>>
vars == <<text, spelling, caret, actions, on, shown, needs, saved, limit, queue, missed>>

PerCheck == (limit * 3) \div 4     \* mMaxMisspellingsPerCheck

Place(w) == SelectInSeq(text, LAMBDA v : v = w)

Between(v, w) ==
  {u \in ToSet(text) : \/ Place(v) <= Place(u) /\ Place(u) <= Place(w)
                       \/ Place(w) <= Place(u) /\ Place(u) <= Place(v)}

-----------------------------------------------------------------------------
(* The spell check selection: ranges over words (marks), ranges collapsed  *)
(* since their word was deleted (hollow), and the count kept beside them.  *)

OneLess(n) == IF n > 0 THEN n - 1 ELSE 0

Full(s) == s.count >= limit

RemoveRange(s, w) ==
  IF w \in s.marks THEN [s EXCEPT !.marks = @ \ {w}, !.count = OneLess(@)] ELSE s

\* A range that is in the selection already is added without effect, and counted.
AddRange(s, w) ==
  IF Full(s) THEN s ELSE [s EXCEPT !.marks = @ \cup {w}, !.count = @ + 1]

CleanupRanges(s) ==
  [s EXCEPT !.hollow = {},
            !.count = IF @ > Cardinality(s.hollow) THEN @ - Cardinality(s.hollow) ELSE 0]

NoRanges == [marks |-> {}, hollow |-> {}, count |-> 0]

Collapsed(s, w) ==
  IF w \in s.marks THEN [s EXCEPT !.marks = @ \ {w}, !.hollow = @ \cup {w}] ELSE s

-----------------------------------------------------------------------------
(* Statuses (mozInlineSpellStatus).                                        *)

Status(op) ==
  [op |-> op, range |-> {}, fromTop |-> FALSE, toEnd |-> FALSE, created |-> {},
   anchor |-> NoWord, old |-> NoWord, force |-> FALSE, found |-> 0]

InitForEditorChange(range, created, anchor) ==
  [Status("eOpChange") EXCEPT !.range = range, !.created = created, !.anchor = anchor]

InitForDelete(anchor) == [Status("eOpChangeDelete") EXCEPT !.anchor = anchor]

\* anchor: where the caret is going, as far as the event tells.
InitForNavigation(force, old, anchor) ==
  [Status("eOpNavigation") EXCEPT !.force = force, !.old = old, !.anchor = anchor]

InitForSelection == Status("eOpSelection")

WholeDocument(places) ==
  [Status("eOpChange") EXCEPT !.range = places, !.fromTop = TRUE, !.toEnd = TRUE]

\* DOM ranges follow an insertion of places fresh at the caret: it is inside, or at an end.
Grown(s, fresh) ==
  LET inside(S) ==
        /\ caret \in S
        /\ s.fromTop \/ \E u \in S : Place(u) < Place(caret)
        /\ s.toEnd \/ \E u \in S : Place(u) > Place(caret)
  IN  [s EXCEPT !.range = IF inside(@) THEN @ \cup fresh ELSE @,
                !.created = IF inside(@) THEN @ \cup fresh ELSE @]

NavigationWaits == \E i \in DOMAIN queue : queue[i].op = "eOpNavigation"

-----------------------------------------------------------------------------
(* DoSpellCheck(): a check is the selection with the misspelled words      *)
(* found so far (mWordCount) and whether it has come to its end.           *)

Check(s, found) == [marks |-> s.marks, hollow |-> s.hollow, count |-> s.count,
                    found |-> found, ended |-> FALSE]
Selection(c) == [marks |-> c.marks, hollow |-> c.hollow, count |-> c.count]

CheckWord(c, w, removing, created, noCheck) ==
  LET r == IF removing /\ w \notin created THEN RemoveRange(c, w) ELSE c
      a == AddRange(r, w)
  IN  IF c.ended THEN c
      ELSE IF w = noCheck \/ spelling[w] # "bad" THEN r
      ELSE [a EXCEPT !.found = @ + 1, !.ended = a.found + 1 >= PerCheck \/ Full(a)]

WordsOf(S) == SelectSeq(text, LAMBDA w : w \in S /\ spelling[w] # "none")

DoSpellCheck(c, words, created, noCheck) ==
  FoldLeft(LAMBDA d, w : CheckWord(d, w, c.marks # {}, created, noCheck), c, words)

\* mRange->SetStart(): the word that ends where the range starts is looked at again.
RestAll(s, w, found) == s                                           \* mutant
Rest(s, w, found) ==
  LET after == {u \in ToSet(text) : Place(u) > Place(w)}
  IN  [s EXCEPT !.range = @ \cap (after \cup {w}), !.created = @ \cap after,
                !.fromTop = FALSE, !.found = found]

\* DoSpellCheckSelection(): all ranges are taken out and their words checked one by one.
Recheck(d, w) ==
  [CheckWord(d, w, d.marks # {}, {}, NoWord) EXCEPT !.found = 0, !.ended = FALSE]

RecheckCountedLate(s) ==                                            \* mutant
  [Selection(FoldLeft(Recheck, Check([s EXCEPT !.marks = {}], 0), WordsOf(s.marks)))
     EXCEPT !.count = 0]
RecheckSelection(s) ==
  Selection(FoldLeft(Recheck, Check(NoRanges, 0), WordsOf(s.marks)))

-----------------------------------------------------------------------------
Init ==
  /\ text = <<1>>
  /\ spelling = [w \in Word |-> IF w = 1 THEN "bad" ELSE "none"]
  /\ caret = 1
  /\ actions = 0
  /\ on = TRUE /\ shown = NoRanges /\ needs = FALSE /\ saved = NoWord
  /\ limit \in MaxWords
  /\ queue = <<WholeDocument(ToSet(text))>>
  /\ missed = {}

Acts ==
  /\ actions < MaxActions /\ Len(queue) <= MaxWaiting
  /\ actions' = actions + 1
  /\ UNCHANGED limit

-----------------------------------------------------------------------------
(* What the user does to the text. The rules call                          *)
(* SpellCheckAfterEditorChange() at the end of each operation.             *)

\* While the checker is off saved is not kept up: a node and an offset, which the text
\* moves under, and the node may leave the document (NoWord).
SpellCheckAfterEditorChange(waiting, statuses) ==
  /\ UNCHANGED on
  /\ IF on
     THEN /\ needs' = TRUE
          /\ queue' = waiting \o statuses
          /\ saved' = caret'
          /\ missed' = IF NavigationWaits THEN missed \cup {caret'} ELSE missed \ {caret'}
     ELSE /\ queue' = waiting
          /\ saved' \in ToSet(text') \cup {NoWord}
          /\ UNCHANGED <<needs, missed>>

Respelled(w, as) ==
  /\ spelling' = [spelling EXCEPT ![w] = as]
  /\ shown' = IF as = "none" THEN Collapsed(shown, w) ELSE shown

\* Letters typed at the end of the caret's word, or the first ones of a new word.
Type ==
  /\ Acts
  /\ \E as \in {"good", "bad"} : Respelled(caret, as)
  /\ UNCHANGED <<text, caret>>
  /\ SpellCheckAfterEditorChange(queue,
       <<InitForEditorChange({caret}, IF spelling[caret] = "none" THEN {caret} ELSE {}, caret)>>)

\* Misspelled words typed or pasted behind the caret's; a space opens a place that has no word yet.
Insert ==
  /\ Acts
  /\ \E last \in Len(text) + 1 .. Len(text) + 2 :
       LET new == Len(text) + 1 .. last
       IN
       /\ last <= MaxPlaces
       /\ text' = SubSeq(text, 1, Place(caret)) \o [i \in 1..Cardinality(new) |-> Len(text) + i]
                    \o SubSeq(text, Place(caret) + 1, Len(text))
       /\ \E as \in {"none", "bad"} :
            spelling' = [w \in Word |-> IF w = last THEN as ELSE IF w \in new THEN "bad" ELSE spelling[w]]
       /\ caret' = last
       /\ UNCHANGED shown
       /\ SpellCheckAfterEditorChange([i \in DOMAIN queue |-> Grown(queue[i], new)],
            <<InitForEditorChange({caret} \cup new, new, last)>>)

\* The caret's word is deleted, or some of it.
Delete ==
  /\ Acts /\ spelling[caret] # "none"
  /\ \E as \in {"none", "bad"} : Respelled(caret, as)
  /\ UNCHANGED <<text, caret>>
  /\ SpellCheckAfterEditorChange(queue, <<InitForDelete(caret)>>)

\* Undo or redo: some word reads as before, and the caret goes there.
Undo ==
  /\ Acts
  /\ \E w \in ToSet(text), as \in {"none", "good", "bad"} :
       /\ as # spelling[w]
       /\ Respelled(w, as)
       /\ caret' = w
       /\ UNCHANGED text
       /\ SpellCheckAfterEditorChange(queue, <<InitForEditorChange(Between(caret, w), {}, w)>>)

\* The suggestion chosen for the word under the caret: ReplaceWord() deletes and inserts.
ReplaceWord ==
  /\ Acts /\ caret \in shown.marks
  /\ spelling' = [spelling EXCEPT ![caret] = "good"]
  /\ shown' = Collapsed(shown, caret)
  /\ UNCHANGED <<text, caret>>
  /\ SpellCheckAfterEditorChange(queue,
       <<InitForDelete(caret), InitForEditorChange({caret}, {caret}, caret)>>)

-----------------------------------------------------------------------------
(* Navigation.                                                             *)

\* goal: where the event says the caret is going.  Nothing is posted when the node
\* the caret was in is no longer in the document.
HandleNavigationEvent(force, now, goal) ==
  IF on /\ needs
  THEN /\ saved' = now
       /\ queue' = IF saved = NoWord THEN queue
                   ELSE Append(queue, InitForNavigation(force, saved, goal))
  ELSE UNCHANGED <<saved, queue>>

\* A click is handled after the caret has moved; any button but the first forces the check.
MouseClick ==
  /\ Acts
  /\ \E w \in ToSet(text), force \in BOOLEAN :
       caret' = w /\ HandleNavigationEvent(force, w, w)
  /\ UNCHANGED <<text, spelling, on, shown, needs, missed>>

\* A key is handled before the caret moves: left and right go on by one, the others force.
KeyPress ==
  /\ Acts
  /\ \E w \in ToSet(text), force \in BOOLEAN :
       /\ force \/ Place(w) - Place(caret) \in {-1, 0, 1}
       /\ caret' = w /\ HandleNavigationEvent(force, caret, w)
  /\ UNCHANGED <<text, spelling, on, shown, needs, missed>>

-----------------------------------------------------------------------------
(* The checker's own operations.                                           *)

\* A word is added to the dictionary or ignored, and with it all that read the same.
AddWordToDictionary ==
  /\ Acts /\ on
  /\ \E same \in SUBSET {w \in ToSet(text) : spelling[w] = "bad"} :
       /\ same # {}
       /\ spelling' = [w \in Word |-> IF w \in same THEN "good" ELSE spelling[w]]
  /\ queue' = Append(queue, InitForSelection)
  /\ UNCHANGED <<text, caret, on, shown, needs, saved, missed>>

\* Also while it is on, as when the spelling dialog is closed: the whole document is checked.
EnableRealTimeSpell ==
  /\ Acts
  /\ on' = TRUE
  /\ queue' = Append(queue, WholeDocument(ToSet(text)))
  /\ missed' = {}
  /\ UNCHANGED <<document, shown, needs, saved>>

\* Cleanup()
DisableRealTimeSpell ==
  /\ Acts /\ on
  /\ on' = FALSE /\ shown' = NoRanges
  /\ UNCHANGED <<document, needs, saved, queue, missed>>

-----------------------------------------------------------------------------
(* ResumeCheck(), by the operation of the status at the head of the queue. *)

Handles(op) ==
  /\ queue # <<>> /\ on /\ Head(queue).op = op
  /\ UNCHANGED <<document, actions, on, saved, limit>>

ResumeTurnedOff ==
  /\ queue # <<>> /\ ~on
  /\ queue' = Tail(queue)
  /\ UNCHANGED <<document, actions, on, shown, needs, saved, limit, missed>>

\* The word at the anchor is left out; time may run out and the rest be posted again.
ResumeChange ==
  /\ Handles("eOpChange") /\ UNCHANGED needs
  /\ LET s == Head(queue)
         todo == WordsOf(s.range)
         checked(n) == DoSpellCheck(Check(CleanupRanges(shown), s.found), SubSeq(todo, 1, n),
                                    s.created, s.anchor)
     IN  \/ /\ shown' = Selection(checked(Len(todo)))
            /\ queue' = Tail(queue)
            /\ UNCHANGED missed
         \/ \E n \in 2..Len(todo) :
              LET part == checked(n) IN
              /\ ~part.ended
              /\ shown' = Selection(part)
              /\ queue' = Append(Tail(queue), Rest(s, todo[n], part.found))
              /\ missed' = IF Len(queue) > 1 THEN missed \cup {s.anchor} ELSE missed

\* Only the caret's word, to have its mark removed.
ResumeDelete ==
  /\ Handles("eOpChangeDelete") /\ UNCHANGED <<needs, missed>>
  /\ LET s == Head(queue)
     IN  shown' = Selection(DoSpellCheck(Check(CleanupRanges(shown), 0), WordsOf({s.anchor}), {}, s.anchor))
  /\ queue' = Tail(queue)

\* FinishNavigationEvent(): whether the caret leaves the word it was in.
Leaves(s) == s.force \/ s.old # s.anchor

NeedsNoMore(s) == FALSE                                             \* mutant
\* The word left is checked now, and nothing else has to be until the next change.
NeedsStill(s) == needs /\ ~Leaves(s)

ResumeNavigation ==
  /\ Handles("eOpNavigation") /\ UNCHANGED missed
  /\ LET s == Head(queue)
         clean == CleanupRanges(shown)
     IN  /\ needs' = NeedsStill(s)
         /\ shown' = IF Leaves(s)
                     THEN Selection(DoSpellCheck(Check(clean, 0), WordsOf({s.old}), {}, NoWord))
                     ELSE clean
  /\ queue' = Tail(queue)

ResumeSelection ==
  /\ Handles("eOpSelection") /\ UNCHANGED <<needs, missed>>
  /\ shown' = RecheckSelection(CleanupRanges(shown))
  /\ queue' = Tail(queue)

ResumeCheck ==
  \/ ResumeTurnedOff \/ ResumeChange \/ ResumeDelete \/ ResumeNavigation \/ ResumeSelection

UserActs ==
  \/ Type \/ Insert \/ Delete \/ Undo \/ ReplaceWord \/ MouseClick \/ KeyPress
  \/ AddWordToDictionary \/ EnableRealTimeSpell \/ DisableRealTimeSpell

Next == UserActs \/ ResumeCheck

\* The event queue is served; the user need not do anything. This is weak fairness of
\* ResumeCheck, which some step of is enabled exactly when something waits.
Spec     == Init /\ [][Next]_vars
FairSpec == Spec /\ (<>[](queue # <<>>) => []<><<ResumeCheck>>_vars)

-----------------------------------------------------------------------------
(* Properties.                                                             *)

\* The count never falls behind the ranges in the selection, so the limit holds for them
\* (mozInlineSpellChecker.cpp AddRange(), RemoveRange(), DoSpellCheckSelection()), and there
\* are none while the checker is off. It may run ahead: AddRange() counts a range twice.
MarksCounted ==
  /\ shown.marks \cup shown.hollow \subseteq ToSet(text) /\ shown.marks \cap shown.hollow = {}
  /\ Cardinality(shown.marks) + Cardinality(shown.hollow) <= shown.count
  /\ shown.count <= limit
  /\ ~on => shown = NoRanges

\* Once every status has been handled, and as long as no check was cut off at the limit, no
\* word is marked that is well spelled, and the misspelled ones are, but the caret's, which
\* is checked when the caret leaves it (the comment at mozInlineSpellChecker.cpp:56).
\* missed holds the words of which this comment is not true: a word typed in while an
\* earlier navigation waits to be handled, which then takes the flag for its own; and a word
\* left between two parts of a check that leaves it out.
MarksSettled ==
  on /\ queue = <<>> /\ PerCheck > MaxPlaces =>
    /\ \A w \in shown.marks : spelling[w] = "bad"
    /\ {w \in ToSet(text) : spelling[w] = "bad"} \ shown.marks \subseteq missed \cup {caret}

\* Every check comes to its end, in parts or not, whatever was posted meanwhile
\* (mozInlineSpellChecker.cpp ResumeCheck() posts the rest again).
ChecksEnd == <>[](queue = <<>>)
=============================================================================
