# KompoZer: a TLA+ verification project

KompoZer is a WYSIWYG HTML editor built on Gecko 1.8.1. Nearly all of `src/`
is the vendored platform (layout, content, networking, the JavaScript engine,
NSPR, the build system). What the program itself adds, and what these modules
are about, is the *editor*: the transaction manager that keeps the undo
history, the editor that groups transactions into user-visible operations, the
changes it makes to the document with the points it keeps in it meanwhile, the
commands that show the editor's state, the inline spell checker, and the site
manager's FTP client.

## 1. Inventory

### Modelled

**Transaction manager** (`mozilla/editor/txmgr/src`). State: a *do* stack (the
transactions being executed and the batches that are open), an *undo* stack, a
*redo* stack, and a limit on undo plus redo. Each stack holds items; an item
has a transaction (none for a batch) and an undo and a redo stack of child
items of its own. Operations: `DoTransaction`, `UndoTransaction`,
`RedoTransaction`, `BeginBatch`, `EndBatch`, `Clear`,
`SetMaxTransactionCount`. It calls *out* at every turn: to the transaction's own
`doTransaction`, `undoTransaction`, `redoTransaction`, `merge` and
`isTransient`, and to listeners (`will...`, which may veto, and `did...`).
Everything runs on one thread, but a call-out may call the manager again, so
the interleavings are those of nested activations. Hard: nesting and
re-entrance; a failing child in the middle of a tree, and the recovery from it;
the loops over children whose number of rounds is fixed before they start;
pruning at the limit; merging. Correct when: the stacks account for the
document; a tree of items is undone or redone as a whole and in reverse order;
the limit bounds both stacks; every call returns; listeners can follow.

**Editor transactions** (`nsEditor.cpp`, `PlaceholderTxn.cpp`,
`EditAggregateTxn.cpp` in `mozilla/editor/libeditor/base`). State: the depth,
name, saved selection and current placeholder of the placeholder batch; each
placeholder's absorb and committed flags, start and end selection and children;
the modification count. Operations: begin and end a placeholder batch, begin
and end a manager batch, do, undo, redo, end of a composition, enable and
disable undo, reset the modification count. It is the client of the
transaction manager: `DoTransaction` creates the placeholder lazily, by
executing it as a transaction, and then asks the manager for the top of the
undo stack to learn which placeholder it is in. Hard: nested batches; a finished
placeholder that later typing reopens; batches of both kinds together; a count
that goes below zero. Correct when: an operation is one undo entry that gives
back document and selection; the modification count is zero only for the saved
document.

**Composer commands** (`nsComposerCommandsUpdater.cpp` in
`mozilla/editor/composer/src`). State: whether the next *do* is the first that
makes an undo possible, the dirty state, and, on the other side of its calls,
the status that the undo, redo and save commands show. It listens to the
transaction manager and to the document state. Hard: it refreshes only when it
believes the status changes. Correct when: an enabled command works and a
disabled one would not.

**Document edits** (`nsEditor.cpp` and the transactions of
`mozilla/editor/libeditor/base`: create, insert, delete, split, join, insert and
delete text, delete range). State: the document, and in each transaction what
its first execution found out. Compound operations (replace, remove and insert a
container, move a node, delete a range) are made of several transactions. Hard:
undo and redo work from remembered offsets and nodes; the parts of a range are
worked out before the first is executed; a container is emptied while the list
of its children shrinks. Correct when: undo and redo give back the very
document; what is deleted is what was selected; operations on structure leave
the text alone.

**Range updater** (`nsSelectionState.cpp`). State: the registered range items
and a lock. It is told of every elementary change, and of a compound one as a
whole, with the lock set in between. Hard: each rule at both ends of a range,
and that the one rule for a compound change amounts to the many that the lock
suppressed. Correct when: a kept point is always in the document and stays
where it was in the text.

**Inline spell checker** (`mozInlineSpellChecker.cpp`; partly). State: the
ranges over misspelled words and a count beside them, the flag that a word needs
a check when it is left, the last caret position, and the statuses posted to the
event queue. Operations: it hears of every edit, mouse click and key press,
of words added to the dictionary, and is switched on and off; all of them post,
and `ResumeCheck` does the work later, a long one in parts. Hard: what was
posted is handled after whatever happened since. Correct when: no well-spelled
word stays marked, misspelled ones get marked when the caret leaves them, the
limit on marks holds, and the checks end.

**FTP client** (`sitemanager/content/ftpControlSocket.js`, `ftpDataSocket.js`,
`sitemanager.js`; partly: the publishing of files). State: the queue of
commands, the trash queue of those answered, flags of the connection, the
beliefs about the server's directory and mode, the timers of a command, a
transfer, the keep-alive and reconnecting, and the user interface that is
disabled while an upload runs. Hard: replies, losses, silence, timers and the
user in any order; recovery puts answered commands back in front; nothing but
disabled buttons keeps a second upload from starting beside the first. Correct
when: each reply is read by the command it answers; an upload reported as done is
on the server, whole, in its directory; every upload ends or says why not.

### Not modelled, and planned

| Part | State and operations | What is hard |
| --- | --- | --- |
| Editing session (`nsEditingSession.cpp`) | editor status, listener and controller registrations, timer; make editable, load start and end, teardown | a load aborted or replaced half-way; the timer of `:1129` holds a raw docShell pointer |
| Text services (`nsTextServicesDocument.cpp`) | offset table | splits, joins and deletions while iterating |
| Listener table of the manager | array of listeners | removal during a notification (`nsTransactionManager.cpp:738`) |

### Left out

HTML editing rules (`nsHTMLEditRules.cpp`, `nsWSRunObject.cpp` and the like)
rewrite a DOM tree under CSS and layout: the data is the algorithm. Publishing
settings, dialogs, toolbars and the CSS editor are user interface over
preferences. The Firefox add-on, packaging, locales and patches have no state.
Gecko is the platform. `nsTransactionList` is a read-only view.

### How the parts interact

    commands <--- status ---- updater <-- did*, document state --+
       |                                                         |
       +--> nsEditor --- do, undo, redo, batches ---> transaction manager
            |  ^  \--- peek of the undo stack ------------'      |
            |  +------ doTransaction, undo, redo, merge <--------+
            |          (PlaceholderTxn and leaf transactions)
            +--> document <--- split, join, insert, delete --- leaf transactions
            +--> range updater (every change)    \
            +--> inline spell checker (every operation) ---> event queue ---+
                        ^-------------------- ResumeCheck -----------------+

    site manager (upload, stop) ---> FTP client <--- timers, sockets ---> server

The spell checker and the FTP client share the user interface thread with the
editor: no two pieces of code run at once, and what interleaves is events.

## 2. Modules

| Module | Models | Uses |
| --- | --- | --- |
| `UndoHistory` | what `nsITransactionManager` promises: a history of items undone and redone as wholes | |
| `TransactionManager` | the manager, its items and stacks, split at every call-out | `UndoHistory` by refinement |
| `MCTransactionManager` | instances for TLC | `TransactionManager` |
| `TransactionManagerProof` | theorems: types, limits, counts, what stays open, ownership of items | `TransactionManager` |
| `TransactionHistoryProof` | theorem: `UndoHistory` is implemented | `TransactionManagerProof` |
| `TransactionLoopsProof` | theorems: the loops over children, trees as wholes, what listeners know | `TransactionHistoryProof` |
| `TransactionDocumentProof` | theorems: the document and the stacks, what undo gives back and redo finds | `TransactionLoopsProof`, `DataInduction` |
| `EditorTransactions` | nsEditor's batches and PlaceholderTxn | `UndoHistory` as its manager |
| `ComposerCommands` | the updater, composed with the editor | `EditorTransactions` |
| `EditorProof` | theorems: types, one entry for a batch, what undo and redo give back, what the undo and save commands show | `ComposerCommands` |
| `MCComposerCommands` | instances for TLC | `ComposerCommands` |
| `DocumentTree` | the DOM as the editor uses it (external) | |
| `RangeUpdater` | the range updater's rules and lock | `DocumentTree` |
| `DocumentEdits` | the changes, their transactions, undo and redo, with the updater | `RangeUpdater` |
| `MCDocumentEdits` | instances for TLC | `DocumentEdits` |
| `InlineSpellChecker` | the spell checker and what the user does to the text | |
| `MCInlineSpellChecker` | instances for TLC | `InlineSpellChecker` |
| `FtpClient` | the client object, each method an operator on it | |
| `FtpUploads` | handlers, timers, user, server and network around it | `FtpClient` |
| `MCFtpUploads` | instances for TLC | `FtpUploads` |
| `FtpUploadsProof` | theorems: the timers of reconnecting; an upload is not forgotten | `FtpRepliesProof` |
| `DataInduction` | lemmas: induction on numbers, recursive functions, flattened sequences | |
| `FtpRepliesProof` | theorems: types, replies, nothing left of an upload that is over, the beliefs about the server | `FtpUploads`, `DataInduction` |

The editor is built on `UndoHistory` and not on `TransactionManager`: the
refinement `KeepsHistory` is what allows it, and the editor's own transactions
neither fail nor call the manager from their undo.

### Reading TransactionManager

An activation of a method that runs a transaction is a frame of `calls`: the
operation, the item, the phase it is in and, in a loop over children, the
rounds that are left and the result of the last. Between two points at which
foreign code has control the code runs undisturbed, so it is one action. The
actions of `Client` are the calls a client or a running transaction makes;
those of `Manager` are what the manager does when a call-out returns.

| Code | Model |
| --- | --- |
| `nsTransactionManager::DoTransaction`, up to the transaction's own method | `DoTransaction`, `RefuseTransaction` |
| the rest of it, `BeginTransaction`, `EndTransaction` | `DoFails`, `DoSucceeds` with `EndTransaction` (`Release`, `AddChild`, `Record`) |
| `UndoTransaction`, `RedoTransaction` | `UndoTransaction`, `RedoTransaction`, then `ManagerReturns` |
| `nsTransactionItem::UndoChildren`, `RedoChildren` | phase `kids`: `NextChild`, `ChildReturns`, `ChildrenDone` |
| the item's own transaction | phase `self`: `TransactionReturns` |
| `RecoverFromUndoError`, `RecoverFromRedoError` | phases `recover`, `rollback`: `RecoveryDone` |
| `SetMaxTransactionCount` | one action; its two pruning loops are `KeptUndos` and `KeptRedos` |

The document is the set of transactions in effect. All listeners together give
one outcome per notification, as the loops do. Which call-outs misbehave is
chosen in the initial state (`faulty`); a misbehaving one fails always or, when
`Flaky`, now and then. Left out: running out of memory, the optional monitor
(compiled out) and the accessors.

Ghost variables: `absorbed`, `base`, `forgotten` and `shown` record what was
merged, the document at each execution, the items let go by a rule of the
interface (a limit, a clear, a transient transaction) and what a listener was
told. No guard reads them, except that a merged transaction is executed with
what it absorbed. What is below an item (`Within`, `Reach`) is the least set of
items that is closed under children, so that proofs need no recursion.

### Reading EditorTransactions

A call of the manager is one step. `StartPlaceholder` is the first half of
`DoTransaction` in a batch that has no placeholder yet, `DoTransaction` the
rest; `starting` keeps anything else from coming between. `Record` is the
manager's `EndTransaction` with PlaceholderTxn's `Merge`: into the open batch,
merged into the top of the undo stack, or pushed. A selection is a model value,
a caret or a span, since the code asks only whether it is collapsed and equal
to another. The ghosts `saved`, `before`, `holder`, `began` and `ended` record
what an operation started from and ended with. Left out: merging of successive
composition transactions inside a placeholder and of text insertions outside
one, and `mForwarding`, whose weak reference dies at once.

### Reading DocumentTree, RangeUpdater and DocumentEdits

An editor is a record: the tree, the registered points, the lock and the
transactions executed by the operation under way. Every method of `nsEditor` is
an operator from editor to editor, so a compound operation is the composition
of the calls its code makes, in their order, and one action of `DocumentEdits`
makes one public call. A text node is a sequence of characters, each a value of
its own, so that a character can be followed. `BeforeEdit` registers a range
item with a point at *every* place of the document; `range` maps where each
point was to where it is now. `AfterEdit` drops the item and leaves one undo
entry. `Written` is the document as a sequence of tags and characters;
`before` and `after` in an undo entry are ghosts that hold it.

| Code | Model |
| --- | --- |
| `nsRangeUpdater::SelAdj...`, `Will...`/`Did...` | the operators of `RangeUpdater`, each an adjustment of all points |
| `CreateElementTxn`, `InsertElementTxn`, `DeleteElementTxn`, `SplitElementTxn`, `JoinElementTxn`, `InsertTextTxn`, `DeleteTextTxn` | one record each, `DoTxn`, `UndoTxn`, `RedoTxn` |
| `DeleteRangeTxn` | `DeleteRange`: same node, or the end of the first, what is between, and the start of the last |
| `nsEditor::CreateNode` to `MoveNode` | operators of the same names, actions `CreatesNode` to `MovesNode` |

Left out: attributes and styles (no point is affected), the DOM's own ranges,
merging of text transactions, and `SplitNodeDeep`, which only repeats
`SplitNode`. Undo by itself does not tell the range updater anything, so
there are no registered points between operations.

### Reading InlineSpellChecker

The text is a sequence of places for words, each well spelled, misspelled or
empty, with the caret at the end of one. A status holds the set of places its
DOM range covers; `Grown` is what the DOM does to that range when places are
inserted, `Rest` what `SetStart` leaves of it. The user's actions do what the
editing rules do, and then call `SpellCheckAfterEditorChange` or
`HandleNavigationEvent` as the code does. `ResumeCheck` is split by the
operation of the status at the head of the queue (`ResumeChange`,
`ResumeDelete`, `ResumeNavigation`, `ResumeSelection`), or drops it when the
checker is off. `ResumeChange` may stop after two words or more and post the
rest; the code looks at the clock after ten. `DoSpellCheck` is the fold of
`CheckWord` over the words of a range, with the two ways it ends early: the
limit on one check and the limit on all marks. `missed` is a ghost.

A caret position remembered before the checker was off may be in a node that
has left the document since (`NoWord`); a navigation from there posts nothing.

Left out: operations that join two words, the caret inside a word, nodes the
checker skips (quotations, code), the white space by which a changed range is
promoted to whole words, and an editor that goes away.

### Reading FtpClient and FtpUploads

`FtpClient` has the object as a record and every method as an operator, since
the handlers are compositions of methods: `FtpUploads` has one action for each
reply that `readControl` distinguishes (`ReadWelcome`, `ReadLogin`, ...,
`ReadEnd`), each timer (`KeepAliveTimer`, `CheckTimeout`, `CheckDataTimeout`,
`ReconnectTimer`), each callback of a socket (`DataSent`, `StopRequest`), and
what user (`Upload`, `Stop`) and network (`Drop`, `Silence`) do. None of them
waits for another: timers fire and the user acts also between a `kill()` or a
loss and the `onStopRequest()` that tells of it.

`uploadItem` has no guard, so `Upload` has none either, but that each file is
uploaded once: the buttons are disabled while an upload runs, the context menu
(`sitemanager.xul:93`) and the editor's `SiteManagerUploadHandler`
(`sitemanager.js:1450`) are not. `waited` holds the files whose upload was asked
for and has neither ended well nor been stopped. `EndTransfer` is the end of a
transfer with its callback `ftpEndRequest`, which cleans up the whole queue. `Stop`
is possible at any time: its button is there while `ui` is FALSE, which other code
of the site manager sets as well. The replies that begin and end a transfer may be
read as one (`ReadStart` with code 2, `ftpControlSocket.js:749`).

The server is
external: it keeps login, mode, directory, data port and files, answers what a
server of RFC 959 may, and refuses now and then what `Refusable` lists. A reply
and the call of `readControl` it causes are one step, as the time a reply is on
its way is time the server takes.

`disorder` records two situations after which replies are no longer read by the
commands they answer: a second connection opened over a living one (an Upload
while connecting), and an aborted transfer whose preliminary reply
is read for the abort. So does a command written before the greeting
(`Orderly`). What the client does then depends on the timing inside sockets, so
the behaviour ends there and nothing is claimed.

Left out: listing, downloading, removing and renaming files, resuming by the
user, active mode, TLS, disconnecting, the bytes of a transfer, and the change
of host; empty files (`emptyFile`); the retry after 500 ms of a transfer's end
that is read before the data socket is finished (`ftpControlSocket.js:772`, `:827`),
as the server ends a transfer when the data connection is closed, and the socket
is finished by then; and the other callers of `EnableAllUI`, which list
directories and files (`sitemanager.js:303`, `:567-605`, `:660`, `:704`, `:902`,
`:1119`, `:1200`, `localDirParser.js:37`, `sitemanagerUtils.js:265`). Directories are one level deep. The offset of an APPE is assumed to be
that of the SIZE asked for just before.

## 3. Runs

| Run | Question | Bounds |
| --- | --- | --- |
| `TxNested` | are trees undone, redone and recovered as wholes, in order, do the stacks account for the document, and can a listener follow undo and redo | 3 transactions (one transient, one merging), 2 batches, limits none, 0, 1, one call-out of an undo or redo that always fails |
| `TxHistory` | is `UndoHistory` implemented while things fail, does every call return, is nothing left open | 2 transactions (one merging), 1 batch, up to two call-outs of any kind but WillMerge (section 4) that fail or veto now and then |
| `TxReentrant` | what holds whoever calls back from wherever | 2 transactions, 1 batch, all methods re-entrant, unbalanced batches, one flaky call-out, limits none and 1 |
| `EdPlaceholders` | is an operation one entry that restores document and selection, and do the commands show it | 3 edits, 2 placeholders, 2 carets, batches nested twice, a name that merges and one that does not, 4 modifications |
| `EdBatches` | does undo restore operations under manager batches, undo disabled and enabled, spans | 2 edits, 2 placeholders, 1 batch, 1 caret, 1 span |
| `EdRemember` | *violated*: does the editor remember its own placeholder | 2 edits, 2 placeholders, 1 batch |
| `EdSaved` | *violated*: does a count of zero mean unchanged | 2 edits, 2 placeholders |
| `DocEdits` | do undo and redo give back the document, do kept points stay, is what is deleted what was selected | 3 documents of 3 elements and 2 texts, every operation at every place, 2 changes, then undo and redo |
| `SpellChecks` | are marks right once all is quiet, does the count hold the limit, do checks end | 3 places, 5 actions of the user, 1 status waiting when the user acts (more come of its own posts), limits 2 and 8 |
| `FtpUploads` | are uploads, one or two at once, prepared, pursued over losses and refusals, and stored when they are reported done; is nothing left of what is over, and is every upload answered or an error reported | 2 files in 2 directories, 1 loss or silence, 1 kind of command refused, 1 attempt to reconnect, 18 entries |
| `FtpResume` | *violated*: is a file reported done on the server | 2 files, 1 old version, 1 loss |
| `FtpHome` | *violated*: is every upload answered | login directory that is not the root, no faults |

The named bounds: `MaxDepth` (nested activations), `MaxFaults` (misbehaving
call-outs), `MaxNesting` (placeholder batches), `MaxMods` (modification count,
both signs), `MaxEdits` (changes), `MaxPlaces`, `MaxActions`, `MaxWaiting`
(places, user actions, statuses waiting), `MaxLosses`, `MaxRefusals`,
`MaxQueue`. Three transactions are needed for a parent with two children, the
smallest tree in which order and a half-way failure matter; two batches for a
batch in a batch; limits 0 and 1 for pruning to nothing and to less than there
is. In the editor two placeholders give a finished operation and a current one,
the third edit a reopened operation with a further one after it. In `DocEdits`
two changes are what it takes for one transaction to be undone over the other's
nodes, and for a compound one to follow a split. In `SpellChecks` two words are
the least a part of a check may have, so three places give a check of two
parts; the limit of 2 is reached with three words, and 8 never is; one action
makes three words of one, which is a check in parts, and four are left to come
between its parts. In `FtpUploads` the queue of 18 holds two uploads, what a recovery puts
back for them and the login in front; only the loop of section 4 that adds a CWD
with every reconnection goes on beyond it.

Three runs do not check deadlock. In `TxReentrant` a loop over children whose
item a re-entrant undo has taken dereferences null and the program stops. In
`SpellChecks` the user may do nothing any more. The FTP runs end at disorder, at
`MaxQueue` and when all is uploaded. In all other runs somebody can always act.

Fairness. `TransactionManager!FairSpec`: the manager's own steps are weakly
fair, because the code between two call-outs runs to its end on the one thread;
and a transaction that has begun a batch gets to end it, which `Balanced`
transactions do. `InlineSpellChecker!FairSpec`: the event queue is served.
`FtpUploads!FairSpec`: timers fire, sockets call back and a server that is not
silent goes on; the user and losses are not fair. Nothing else is assumed. The spell
checker's formula and `LiveSpec`, which `FtpUploads` is run under, are weak fairness
with what enables the action written out (`Busy`, a queue that is not empty), since
TLC takes twenty times as long to find that by itself; `Busy` was checked to be
`ENABLED <<Orderly /\ Bounded /\ System>>_vars` in every state of `FtpUploads` with
four of the refusals. `FtpHome` is run under `FairSpec`.

## 4. What the checks found

Violations that a run keeps:

* `EdRemember` (`nsEditor.cpp:732`): inside a manager batch the placeholder
  that `DoTransaction` remembers is that of an earlier operation.
* `EdSaved` (`nsEditor.cpp:4956`): save, undo and do leave a changed document
  with a modification count of zero; the flip that a comment promises is made
  on a local variable only.
* `FtpResume` (`ftpControlSocket.js:834`): after a loss the size of the file on
  the server is taken for what was sent of it. When an older version is there
  the rest is appended to that, and success is reported.
* `FtpHome` (`ftpControlSocket.js:396`): a CWD to the directory one is in is
  skipped together with its callback, which is what starts the upload.

Limits of what holds, found with the same modules and other constants or
properties:

* `RedoChildren` ends each round with `DidUndoNotify`
  (`nsTransactionItem.cpp:379`): a redone child is reported as undone, and
  `DidRedo` comes for the parent alone. `ListenerTracksStacks` is what a
  listener can still rely on.
* `TreesAreWhole` is refuted with `Flaky`: the loops over children go on after
  a child failed, and the failed round counts (`nsTransactionItem.cpp:290`). If
  the retry succeeds the loop returns success one child short.
* It is also refuted with `VetoFaults`: a veto of a child's undo half-way ends
  the loop with success (`nsTransactionItem.cpp:270`), and the parent is undone
  over children that are not. No listener in the tree vetoes.
* `StacksMatchDocument` is refuted with `DidUndoFaults` and `Flaky`: when the
  recovery of a redo fails, the item's own transaction stays redone
  (`nsTransactionItem.cpp:442`); and with `MergeFaults`: a failing WillMerge
  loses an executed transaction (`nsTransactionManager.cpp:1156`).
  With a third transaction that refutes `KeepsHistory` as well, because the redo
  stack has been cleared for nothing; no history does that. So `TxHistory`
  has no such listener (`HistoryFaults`), and the theorem assumes it away
  (`MergesUnharmed`): in the tree nsComposerCommandsUpdater and the others
  return NS_OK from WillMerge.
* When the recovery of an undo or redo fails as well, what is left is a tree half
  undone. That needs call-outs of both operations to fail, as the recovery
  of one calls the other, or one that fails only now and then;
  `SteadyFaults` is the assumption of the theorems on trees that excludes it.
* With undo methods that call `UndoTransaction`, the item moved when one
  returns is whatever is then on top (`nsTransactionManager.cpp:217`). What is
  left to hold is what `TxReentrant` checks.
* `UndoCommandShown` holds without manager batches and clearing. The updater
  does nothing in `DidEndBatch` (`nsComposerCommandsUpdater.cpp:212`), where a
  batch is pushed, and `Clear` reports nothing. The redo command is not
  reported after a do that empties the redo stack above a non-empty undo stack
  (`:137`), so there is no such property of it.
* `RedoRestoresSelection` holds without manager batches; `EdRemember` shows the
  step that breaks it.
* `Undo(aCount)` subtracts one from the modification count in every round, also
  when nothing was undone (`nsEditor.cpp:851`); the undo command passes 1.
* `PointsKept` excepts two cases. `SelAdjDeleteText` takes the whole length off
  a point inside the deleted text and stops at zero (`nsSelectionState.cpp:516`),
  so the point lands in front of text that was kept and a range may be turned
  round (`InDeletedText`). `MoveNode` tells `DidMoveNode` the offset it was
  given before taking one off it (`nsEditor.cpp:1859`), so a point behind the
  new next sibling ends up in front of it (`BehindTarget`).
* `ReplaceContainer` tells the updater an offset of -1, which is harmless only
  because the updater is locked then.
* `MarksSettled` excepts the words in `missed`. A navigation that is handled
  late clears `mNeedsCheckAfterNavigation` (`mozInlineSpellChecker.cpp:395`)
  for a word typed in since, which is then not checked when it is left. And the
  rest of a check put off behind other statuses leaves its anchor out
  (`:1480`), and so takes away the mark of a word that has been left and checked
  meanwhile. Without either exception the property is refuted.
* The count of marks may run ahead of the marks: adding a range that is in the
  selection succeeds without effect and is counted (`:1590`), as when two words
  are pasted while a check of the whole document waits. The limit is then
  reached early, until the checker is switched off.
* A check that ends at the limit leaves the marks and words behind it as they
  are for good, hence the antecedent of `MarksSettled`.
* `ReplaceWord` may return with its batch open
  (`mozInlineSpellChecker.cpp:863`), after which undo is refused for good.
* FTP, two uploads: a second may be asked for while one is under way
  (`sitemanager.js:1304`). When the first has ended, `ftpEndRequest` cleans up the
  queue with what is left of the second (`:1445`), which is never sent, and enables
  the user interface without a word, against the "disable the UI until the FTP
  transaction is done" of `:1315`. The definition `UploadsAwaited` is refuted,
  with no fault at all. The FTP properties hold with both under way; this is why
  `UploadPursued` speaks of one of the uploads that are waited for, and
  `NothingLeft` of what is over.
* FTP, two resets: a STOR that is written arms two timers with the same delay. On a
  connection gone silent both fire before its `onStopRequest` is delivered, and
  each resets it and leaves a "goodbye" in front of the STOR
  (`ftpControlSocket.js:335`). `recoverFromDisaster` takes away one and does not see
  the interrupted transfer behind the other, so TYPE and PASV are not sent again:
  `AlwaysPrepared` is refuted with one silence. `TransferPrepared` excepts just
  that case (`twice`).
* FTP: with two losses `TransferPrepared` and `DoneMeansStored` are refuted (a
  TYPE gone from the trash queue makes the transfer an ASCII one), and so is
  `UploadEnds`; the other properties of `FtpUploads` hold with two losses (and a
  greeting or an MKD refused), and all of them with two refusals.
* FTP, reconnecting for ever: a PASV that is refused leads to an exception and a
  reconnection, after which it happens again, since every greeting resets the
  attempts (`ftpControlSocket.js:594`). So may a transfer that was sent without its
  PASV (two resets, above), when its data timer, which sees no byte go, is faster
  than the refusal every time. With one loss each round adds a CWD to the queue,
  and what goes beyond `MaxQueue` is excepted from `UploadEnds` (`Settled`); with
  two losses there may be no CWD to add, and the loop refutes it.
* FTP: a refused greeting drops the queue silently; a loss before the first login
  passes for a legitimate close; a server that goes silent after `abort()` has
  no timer: the three cases of `Unguarded`. A refused MKD or CWD is reported but the
  file may be put in another directory.

## 5. Proofs

The theorems hold for every value of the constants, from the named assumptions
on them and, where one is cited, from an assumption in the theorem's statement.
Those are:

| Assumption | Says | Why it is justified |
| --- | --- | --- |
| `OnlyDoReenters` | transactions call the manager from `doTransaction` only | so do all in the tree; the others refute what is claimed (section 4) |
| `Balanced` | a transaction ends the batches it begins | every caller in the tree pairs them inside one method |
| `MergesUnharmed` | no listener fails WillMerge | none in the tree does; the other case refutes it (section 4) |
| `SteadyFaults` | what fails in an undo or redo is a WillUndo, WillRedo or the transaction itself, it does so each time, and only one operation is affected or only one call-out | otherwise the recovery may fail too (section 4) |
| `DosSucceed` | no transaction's own `doTransaction` fails | one that fails takes the transactions it has run with it, executed but on no stack (`nsTransactionManager.cpp:1059`); taking them back is its own affair |
| `UndoAlwaysOn` | no manager batches, undo never disabled | the commands are not told of either (section 4) |
| `NoBatchAround` | the editor's operations are placeholder batches | inside a manager batch the editor forgets its own placeholder (`EdRemember`), and `RedoRestoresSelection` is refuted; `UndoRestoresOperation` is checked there by `EdBatches`, not proved |

### The transaction manager

`TransactionManagerProof` (every set of transactions and batches, every choice
of transient and merging ones, any limits, faults and re-entrance):

* `TypeCorrect`: `Spec => []Typed`, where `Typed` is `TypeOK /\ ActivationsOK`,
  and `ActivationsWellFormed` for the second part. `TypeOK` alone is not
  inductive: that `left` stays a natural number needs that a loop waiting for a
  child has counted it, and that a running transaction can be executed needs
  that its frame's item is no batch; `ActivationsOK` says so of every frame.
* `StacksBounded`: `Spec => []StackBound`, from `Typed /\ StackBound`. A push
  looks at the undo stack alone; the bound survives because the redo stack has
  just been emptied, and an undo or redo moves one item from one stack to the
  other, so the sum stays. `PruneOp` is the lemma on pruning, `PopOp`,
  `PushOp` and `EndTransactionType` those on the stacks.
* `NoUndoDuringDo`: `Spec => [](UndoNeverDuringDo /\ DosAccounted)`, and
  `DosOnStack`. An undo is refused while the do stack is not empty, so the point
  is that it is not empty while a transaction is being executed. With unbalanced
  batches the item on top when a transaction returns need not be its own, so
  what is inductive is a count: the do stack holds at least as many transactions
  as there are do activations (`DosAccounted`). Together with the order of the
  activations (`DoOrder`: a do activation has no other phase than running its
  transaction, and only do activations are made inside one) that is `DosInv`.
  `WhereOp` counts the positions of a sequence by the library's theorems on
  cardinality; `EnterOther`, `LeaveOther`, `ReplaceOther`, `DoEnds` and
  `PopCount` say what each kind of step does to the two counts.
* `NothingStuckOpen` (`Balanced`): `OnlyBatchesStayOpen`. With balanced batches
  the two counts of `DosAccounted` are equal (`DosMatched`), so with no
  activation left there is no transaction left either.
* `OwnersUnique`: `ItemOwnedOnce`. It holds for any re-entrance, although a
  re-entrant call may move the item a loop has peeked at: every move is a pop
  and a push in one step. It is inductive together with `HeldUsed`, that what is
  held has been made, since an item is made only when unused. The stacks and
  lists are one function from their owners to sequences (`HeldBy`), and `LetGo`,
  `OpenNew` and `Moved` say what the kinds of steps do to it.

The frames are handled by `EnterOp`, `LeaveOp` and `ReplaceOp`; the proof of a
step has one case per action.

`TransactionHistoryProof` (`OnlyDoReenters`, `MergesUnharmed`):

* `ImplementsHistory`: `Spec => KeepsHistory`, the refinement of `UndoHistory`.
  The initial states map to its initial states, and every step of the manager is
  one of its actions or changes none of its variables. What a step needs of the
  state is `SafeInv` (the results above) and `HistoryInv`: nothing is open while
  something is undone (`QuietStack`), an item not made yet has no children
  (`FreshEmpty`), an open one no undone ones (`OpenPlain`). The children of an
  item, the done and the undone ones in their order, are one sequence that
  undo and redo leave alone (`PartsOp`): a loop that moves a child from one list
  to the other does not change it.

`TransactionLoopsProof` (`OnlyDoReenters`):

* `LoopsStayInside`: `LoopNeverPeeksEmpty`, and `RightItemMoves`: what is popped
  when an activation returns is the item it was made for. The inductive
  invariant is `Chain`: the undo and redo activations are a path down one tree,
  each for the item on top of the list its caller will move it from (`Path`), no
  item is worked on twice (`Apart`), and no loop has more rounds left than
  items (`CountsOK`). That two loops do not work on the same list rests on
  `OwnersUnique`.
* `TreesStayWhole` (with `SteadyFaults`): `TreesAreWhole`. The property speaks
  of rest and of everything below an item; what is inductive speaks of one level
  and of every state. `RestWhole`: an item that no activation is for, and that is
  done, has no undone children, and one that is undone has no done ones.
  An item is doomed (`Doomed`) when a call-out at or below it fails.
  `AllKnown` says of every activation, by its phase, whether it is and what has
  been moved: the children a loop has moved are spared, the one it failed at is
  doomed, an activation that returns success is not doomed and has moved all,
  one that returns failure is doomed and has put all back. As only one
  operation has call-outs that fail, recovery, which is by the other, meets none.
  `Doomed` is a statement about the whole tree below; it stays the same
  through undo and redo because they move children within their item.
  The two conjuncts together are `TreeInv`. TLC checked it under the constants of
  `TxNested` before it was proved.
* `ListenerKnows` (with `SteadyFaults`, `Balanced`): `ListenerTracksStacks`, from
  `ListenerInv`: the transactions on the undo stack are among those the
  listeners were told are in effect, and nothing undone is, at any depth.
  A redone child is reported as undone (section 4), which is why the inductive
  form says so little of children that are done.

`TransactionDocumentProof` (`OnlyDoReenters`, `SteadyFaults`, `MergesUnharmed`,
`DosSucceed`):

* `DocumentMatchesStacks`: `StacksMatchDocument`. The property adds up trees at
  rest; what is inductive, `DocInv`, speaks of single transactions and of every
  state. A transaction is in force (`InForce`) when a list of done items holds
  it or, while an activation works on it, as the phase of that activation says
  (`OwnIn`). `DocIs`: the document has the effects of what is in force, but for
  effects of what was let go (`Untracked`). That undoing one transaction takes
  away its own effects only needs `Disjoint`: no two transactions held anywhere
  have an effect in common, a merged one having passed its effect on.
  `Anchored`: what is done or worked on is below a stack or below what was let
  go, since otherwise something might be in force that no stack accounts for.
  There is one lemma for each kind of step; those that execute a transaction are
  one argument (`ExecutingDoc`), those inside an undo or redo another, which
  needs `Chain` for the item that moves and `TreeInv` for what a failure leaves.
  `DocAtRest` goes from there to the property: by `TreeInv` what is below a
  done item is done, and what is below an undone one undone. TLC checked
  `DocInv` under the constants of `TxNested` before it was proved.
* `UndoRestoresDocument`, `RedoFindsSameState`: `UndoRestoresState` and
  `RedoFromSameState`. They compare the document with what it was when a
  transaction was executed, so what is inductive (`OrderInv`) is the order of
  execution. One transaction precedes another (`Precedes`) when the other found
  its effects and it found none of the other's. Every list of items is sorted by
  that, the done ones upwards and then the undone ones downwards (`Sorted`), for
  all there is below any two of its items: the stacks, every item's own two
  lists, and the open items, which come after what is done; a transaction comes
  before its children (`ParentFirst`). An undo or redo moves an item from one
  end of the sorted line to the other list's end, where it is sorted again; a
  do appends and cuts off the undone ones; a merge makes the last item's effects
  larger, by effects that nothing sorted before has seen. `Covered`: what a
  transaction found is still the effects of something the stacks account for,
  or is `Untracked`. While a transaction's own method is run, the activations
  are a path down from a stack (`Chain`): everything beside the path is placed
  before or after by the lists it goes through, by induction up the path
  (`PathPlaced`, the one place where `DataInduction` is needed), and what is
  before is in force, what is after is not (`Placed`, `LivePlaced`). So what is
  in force but for the transaction itself is what it found (`FoundAgain`), and
  `DocIs` says that this is the document.

### The editor and its commands

`EditorProof`:

* `EditorTypeCorrect`: `EditorTypeOK` of the composed specification, for any
  batches, names, nesting and switching of undo.
* `OneUndoEntry`: `BatchIsOneEntry`. The inductive `OneEntry` says which entry it
  is: as long as the batch has no placeholder the document is as it was, and
  from then on the placeholder is on top of the undo stack, absorbs, and holds
  all that the batch has done.
* `UndoCommandRight` (`UndoAlwaysOn`): `UndoCommandShown`, which is about the undo
  command alone (of the redo command it would be false, section 4), from
  `UndoReported`: `mFirstDoOfFirstUndo` is TRUE whenever there is nothing to undo.
  Otherwise the do that makes an undo possible might not be reported.

With `NoBatchAround`:

* `UndoRestores`, `RedoRestores`: `UndoRestoresOperation` and
  `RedoRestoresSelection`. The two stacks are read as one line of items
  (`Line`), the undone ones after the done ones, and there is a document for
  each moment between two of them; each item adds its edits, all of them new, to
  the moment before it, and the current document is the moment where the two
  stacks meet (`LineInv`). Undo and redo move along the line, a merge changes
  its last item, a do cuts it off. `UndoInv` adds `OneEntry`, and `Told`: which
  placeholder has not been told yet of the end of its last batch.
* `CountMeansSaved`: `CleanWhileAhead`, from the same line: either a do has cut
  off the moment of the save (`OutOfReach`, which is the step `EdSaved` shows),
  or the modification count is ahead of the items done since by the merges among
  them, which only add (`SavedAt`).
* `SaveCommandRight`: `SaveCommandShown`. `RemembersItsOwn`: what `EdRemember`
  refutes inside a manager batch holds outside of them.

### The FTP client

`FtpUploadsProof` (any files, directories, attempts, losses and refusals):

* `ReconnectsInTime`: `Spec => []ReconnectTimed`. A client that is reconnecting
  has a timer or a connection under way, and its attempts stay between zero and
  what it was given. The inductive invariant `TimedInv` adds that the client is
  an object with the fields the methods update, that `reconnects` is a natural
  number and, while the behaviour is orderly, that an attempt is left for the
  timer that is pending and that only a client that has logged in once is
  reconnecting (`Timed`). Since handlers are compositions of methods,
  there is one lemma of the form "the method keeps it" (`Keeps`) for each
  method, and the step of a handler cites those of the methods it calls.
* `UploadNeverForgotten` (`UploadsReach`): `Spec => []UploadPursued`. The
  inductive invariant adds `Pursuit` to `FtpInv` and `TimedInv`. It looks at the
  queue as the set of its entries. While the user waits, and unless a greeting
  was refused, an error was reported, or the queue has the transfer of an upload
  waited for, or it has the CWD whose callback queues it (`GoesOn`); a further
  upload, which may come at any time, only adds to the queue. A CWD may be skipped by
  `writeControl`, which does not call its callback, so the last case (`Approach`)
  also says where the client believes to be until it has sent that CWD: nowhere,
  or where the login left it. For that, no reply to a PWD may come from a session
  that has been elsewhere, across recoveries and an "aborted" entry of an
  earlier upload. Enabled, the user interface finds no more than calls in the
  queue and no belief (`Calm`), which is what the first `uploadItem()` starts from. A
  connection that ends before the first login drops the queue (`Dropped`): the
  property does not speak of it, and the client stays that way until Stop is pressed.
  `UploadsReach` says that an upload's directory is `/`, or is neither the one of
  the login nor the empty name; that the theorem needs it is what the run
  `FtpHome` shows.

`FtpRepliesProof` (the same; `FileAssumption` of `FtpClient` keeps the model's
names of files apart from those of directories and modes):

* `FtpTypeCorrect`, `NothingLeftOver`, `RepliesForHead`, `BeliefsTrue`: `TypeOK`,
  `NothingLeft`, `ReplyIsForHead` and `BeliefsHold`, all from one inductive
  invariant, `FtpInv`. Its parts: the queue and the trash are for files that are
  still waited for, any number of them, and for none when the user interface
  is enabled (`Holding`, `Current`); while `Orderly`, the entries stand in an order that
  recovery puts right again (`Arranged`: what logs in comes before an interrupted
  transfer and drops a "goodbye"; a "welcome" is first), and wire, link and
  session agree with the head (`Linked`). The last is the point: either no reply
  is due and the head is no command that waits for one (`Free`), or exactly one
  is, to the head, to the transfer the head was before it was accepted, or to
  the abort of it (`Waiting`); and what the client believes of directory and
  mode is unknown or true (`Believes`). No conjunct is inductive without the
  others: that a TYPE is skipped rightly needs that the reply to the last one
  was read by it, and that needs what recovery puts in front.

`DataInduction` has the lemmas on data that `FtpRepliesProof` needs for
`writeControl`, which filters the queue, and `TransactionDocumentProof` for the
path of activations. The library's induction theorems take
an operator as parameter, which none of the provers can instantiate; stated of
the *set* of numbers that have a property (`Induction`), induction follows from
the well-foundedness of `<`, and from that the recursion theorem (`Recursion`)
and what flattening a sequence of sequences returns (`FlattenType`).

### Only model-checked

Liveness (`EveryCallReturns`, `UploadEnds`, `ChecksEnd`, `UploadAnswered`) is out
of reach of the prover. Not proved: `TransferPrepared` and `DoneMeansStored`,
which hold for one loss only and, the first, for one reset of a connection (section
4), so that an inductive invariant has to count losses; `MarksCounted`, `MarksSettled` and all of `DocumentEdits`, which
are about folds over words and recursive walks over a document.

## 6. Plan

1. `FtpUploads` with two losses as a run of its own; listing and downloading.
2. `EditingSession`: loads, failures and teardown; what is registered is
   unregistered once.
3. The listener table with removal during a notification, and `Merge` of
   transactions that have children (`nsTransactionManager.cpp:1160`).
4. Joining of words, and white space around a change, in `InlineSpellChecker`.
5. Proofs, in this order: `UndoRestoresOperation` with manager batches around;
   `TransferPrepared` for one loss, from `FtpInv` with what wire
   and session have seen of the CWD, TYPE and PASV of the file at the head; then
   `MarksCounted` and type correctness of `InlineSpellChecker`; then the rules of
   `RangeUpdater` one by one (`PointsInTree`).
