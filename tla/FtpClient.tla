----------------------------- MODULE FtpClient -----------------------------
(***************************************************************************)
(* The FTP client object of the site manager (ftpMozilla in                *)
(* composer/extensions/sitemanager/content/ftpControlSocket.js) and the    *)
(* socket of its transfers (ftpDataSocket.js).                             *)
(*                                                                         *)
(* The object is a record.  A method is an operator from the object before *)
(* the call to the object after it, so that a handler that calls others is *)
(* their composition.  The fields are named after the object's, and:       *)
(*   link     the control connection: the transport, its streams, its pump *)
(*   wire     the commands written to it that are not answered yet         *)
(*   data     the data socket: "killed" and "sent" are its finished == true *)
(*   timeout  the command whose timer holds the current networkTimeoutID;  *)
(*            "goodbye" is skipped, never written                          *)
(*   transfer a data timer holds the current transferID                    *)
(*   reported an error has been written to the console since the user      *)
(*            began to wait for an upload                                  *)
(*   twice    a connection has been reset that was being reset already     *)
(* A timer whose id is no longer current does nothing when it fires, so    *)
(* that only the current one is kept.                                      *)
(***************************************************************************)
EXTENDS Integers, Sequences, SequencesExt

CONSTANTS
  File,      \* files to publish; the site knows where each belongs
  Dir,       \* remote directories
  Root,      \* "/"
  DirOf,     \* the remote directory of a file
  Home,      \* the directory the server logs the user into
  XCheck,    \* TRUE: the server's FEAT reply lists XSHA1
  Attempts   \* reconnectAttempts

ASSUME DirAssumption      == Root \in Dir /\ Home \in Dir /\ DirOf \in [File -> Dir]
ASSUME AttemptsAssumption == Attempts \in Nat
ASSUME XCheckAssumption   == XCheck \in BOOLEAN

None == "none"

\* An entry of the queue: a command, its parameter and its callback.  A CWD's
\* callback, if any, goes on to upload the file `then'; a SIZE's `then' is the
\* command whose resuming it is for.
Entry(cmd, arg, then) == [cmd |-> cmd, arg |-> arg, then |-> then]
Bare(cmd) == Entry(cmd, None, None)

Sending   == {"STOR", "APPE"}
Sending2  == {"STOR2", "APPE2"}            \* accepted, being sent
Transfers == Sending \cup Sending2
Command   == {"welcome", "goodbye", "aborted", "QUIT", "NOOP", "USER", "PASS",
              "PWD", "FEAT", "CWD", "MKD", "TYPE", "SIZE", "PASV", "XSHA1"} \cup Transfers
Arg       == Dir \cup File \cup {"A", "I", None}
Queued    == [cmd : Command, arg : Arg, then : File \cup Sending \cup {None}]

\* Files have names of their own.
ASSUME FileAssumption == File \cap (Dir \cup Sending \cup {"A", "I", None}) = {}

\* At least one attempt to reconnect is made.
MaxAttempts == IF Attempts < 1 THEN 1 ELSE Attempts

Client == [queue : Seq(Queued), trash : Seq(Queued), wire : Seq(Queued),
           isConnected : BOOLEAN, isReady : BOOLEAN, isReconnecting : BOOLEAN,
           legitClose : BOOLEAN, reconnectsLeft : Int,
           transferMode : {"", "A", "I"}, currentWorkingDir : {""} \cup Dir,
           featXCheck : BOOLEAN, data : {None, "busy", "sent", "killed"},
           timeout : (Command \ {"goodbye"}) \cup {None}, transfer : BOOLEAN,
           link : {None, "opening", "up", "closing"}, reported : BOOLEAN,
           twice : BOOLEAN]

NewClient ==
  [queue |-> <<>>, trash |-> <<>>, wire |-> <<>>, isConnected |-> FALSE,
   isReady |-> FALSE, isReconnecting |-> FALSE, legitClose |-> TRUE,
   reconnectsLeft |-> 0, transferMode |-> "", currentWorkingDir |-> "",
   featXCheck |-> FALSE, data |-> None, timeout |-> None, transfer |-> FALSE,
   link |-> None, reported |-> FALSE,
   twice |-> FALSE]

HeadIs(q, cmds) == q # <<>> /\ Head(q).cmd \in cmds
Killed(d) == IF d = "busy" THEN "killed" ELSE d

-----------------------------------------------------------------------------
(* Connecting and cleaning up.                                             *)

CleanupOfQueue(o, isAbort) ==                                       \* mutant
  [o EXCEPT !.queue = <<>>, !.transferMode = "", !.currentWorkingDir = "",
            !.featXCheck = @ /\ isAbort, !.timeout = None, !.transfer = FALSE]
Cleanup(o, isAbort) ==
  [o EXCEPT !.queue = <<>>, !.trash = <<>>, !.transferMode = "",
            !.currentWorkingDir = "", !.featXCheck = @ /\ isAbort,
            !.timeout = None, !.transfer = FALSE]

Connect(o) ==
  [o EXCEPT !.queue = IF HeadIs(@, {"welcome"}) THEN @ ELSE <<Bare("welcome")>> \o @,
            !.timeout = None, !.transfer = FALSE, !.link = "opening", !.wire = <<>>]

ConnectAnew(o) ==
  Connect([o EXCEPT !.isReconnecting = FALSE, !.reconnectsLeft = MaxAttempts])

Reconnect(o) ==
  IF o.isReconnecting THEN Connect([o EXCEPT !.reconnectsLeft = @ - 1]) ELSE o

\* onStopRequest() of the control connection.
Retries(o) == ~o.legitClose
StoppedLate(o) ==                                                   \* mutant
  LET p == [o EXCEPT !.reported = @ \/ ~o.isConnected, !.isConnected = FALSE,
                     !.data = Killed(@), !.link = None, !.wire = <<>>]
  IN  IF ~Retries(o) THEN Cleanup(p, FALSE)
      ELSE [p EXCEPT !.transferMode = "", !.isReconnecting = TRUE]
Stopped(o) ==
  LET p == [o EXCEPT !.reported = @ \/ ~o.isConnected, !.isConnected = FALSE,
                     !.data = Killed(@), !.link = None, !.wire = <<>>]
  IN  IF ~Retries(o) THEN Cleanup(p, FALSE)
      ELSE IF o.reconnectsLeft < 1
      THEN [p EXCEPT !.transferMode = "", !.isReconnecting = FALSE,
                     !.queue = IF HeadIs(@, {"welcome"}) THEN Tail(@) ELSE @]
      ELSE [p EXCEPT !.transferMode = "", !.isReconnecting = TRUE]

Kill(o) == [o EXCEPT !.link = IF @ = None THEN None ELSE "closing"]

-----------------------------------------------------------------------------
(* Writing.                                                                *)

\* A command is written to the control connection.  On a closed stream the
\* write throws, which is caught and reported.
WriteUntimed(o, e) ==                                               \* mutant
  IF o.link \in {"opening", "up"}
  THEN [o EXCEPT !.isReady = FALSE, !.wire = Append(@, e), !.transfer = @ \/ e.cmd \in Sending]
  ELSE [o EXCEPT !.isReady = FALSE, !.reported = TRUE]
Write(o, e) ==
  IF o.link \in {"opening", "up"}
  THEN [o EXCEPT !.isReady = FALSE, !.wire = Append(@, e), !.timeout = e.cmd,
                 !.transfer = @ \/ e.cmd \in Sending]
  ELSE [o EXCEPT !.isReady = FALSE, !.reported = TRUE]

\* Dummy entries, and a TYPE or a CWD that would change nothing, are skipped.
Redundant(o, e) ==
  \/ e.cmd = "TYPE" /\ e.arg = o.transferMode
  \/ e.cmd = "CWD" /\ e.arg = o.currentWorkingDir
Skipped(o, e) == e.cmd \in {"aborted", "goodbye"} \/ Redundant(o, e)

\* How many entries at the head of the queue are skipped.
Skips(o) ==
  LET q == o.queue
  IN  CHOOSE n \in 0..Len(q) : /\ \A i \in 1..n : Skipped(o, q[i])
                               /\ n < Len(q) => ~Skipped(o, q[n + 1])

WriteControl(o) ==
  IF ~o.isReady \/ o.queue = <<>> THEN o
  ELSE LET n == Skips(o)
           Kept(e) == IF Redundant(o, e) THEN <<e>> ELSE <<>>
           p == [o EXCEPT !.queue = SubSeq(@, n + 1, Len(@)),
                          !.trash = @ \o FlattenSeq([i \in 1..n |-> Kept(o.queue[i])])]
       IN  IF p.queue = <<>> THEN p ELSE Write(p, Head(p.queue))

Add(o, entries)     == [o EXCEPT !.queue = @ \o entries]
Unshift(o, entries) == [o EXCEPT !.queue = entries \o @]

\* "try to restart the connection the hard way"
ResetConnection(o) ==
  LET p == Unshift([o EXCEPT !.legitClose = FALSE, !.twice = @ \/ HeadIs(o.queue, {"goodbye"})],
                   <<Bare("goodbye")>>)
      q == IF p.isReady THEN Write(p, Bare("QUIT")) ELSE p
  IN  Kill([q EXCEPT !.data = Killed(@)])

KeepAlive(o) == WriteControl(Add(o, <<Bare("NOOP")>>))

\* abort() is cleanup(true), and on a connection it leaves "aborted" for the
\* reply that is still to come.
AbortUnanswered(o) ==                                               \* mutant
  [Cleanup([o EXCEPT !.isReconnecting = FALSE], TRUE) EXCEPT !.data = Killed(@)]
Abort(o) ==
  LET p == Cleanup([o EXCEPT !.isReconnecting = FALSE], TRUE)
  IN  IF ~o.isConnected THEN p
      ELSE Add([p EXCEPT !.data = Killed(@)], <<Bare("aborted")>>)

-----------------------------------------------------------------------------
(* Reading.                                                                *)

\* The entry a reply is for leaves the queue; one that may have to be sent
\* again after a loss of the connection is kept in the trash.
Forgettable == {"USER", "PASS", "PWD", "FEAT", "welcome", "goodbye", "aborted",
                "NOOP", "SIZE"}
Discard(o, e) == IF e.cmd \in Forgettable THEN o ELSE [o EXCEPT !.trash = Append(@, e)]
Shifted(o) == [Discard(o, Head(o.queue)) EXCEPT !.queue = Tail(@)]

\* A reply arrives: no timer of a command is current any more.
Heard(o, code) ==
  [o EXCEPT !.timeout = None, !.wire = IF code = 1 \/ @ = <<>> THEN @ ELSE Tail(@)]

Report(o, code, good) == [o EXCEPT !.reported = @ \/ code # good]

\* The end of readControl(): the next command is started.
Proceed(o) ==
  LET p == [o EXCEPT !.isReady = TRUE]
  IN  IF HeadIs(p.queue, {"welcome"}) THEN p ELSE WriteControl(p)

\* A transfer is over, well or not: the trash is cleared, it completed an
\* "atomic" set of operations.
TransferOver(o) == [o EXCEPT !.queue = Tail(@), !.trash = <<>>]

\* A transfer that is refused takes the checks of its file along.
DropChecks(q) ==
  LET n == CHOOSE i \in 0..Len(q) : /\ \A j \in 1..i : q[j].cmd = "XSHA1"
                                    /\ i < Len(q) => q[i + 1].cmd # "XSHA1"
  IN  SubSeq(q, n + 1, Len(q))

\* The first entry for cmd in the queue becomes one for another command.
Rewritten(q, cmd, other) ==
  LET at == {i \in 1..Len(q) : q[i].cmd = cmd}
  IN  IF at = {} THEN q
      ELSE [q EXCEPT ![CHOOSE i \in at : \A j \in at : i <= j].cmd = other]

-----------------------------------------------------------------------------
(* The operations that the site manager calls.                             *)

\* upload(), not resuming.
UploadCommands(o, f) ==
  <<Entry("CWD", DirOf[f], None), Entry("TYPE", "I", None), Bare("PASV"),
    Entry("STOR", f, None)>>
  \o IF o.featXCheck THEN <<Entry("XSHA1", f, None)>> ELSE <<>>

\* makeDirectory()
MakeDirectory(d) == <<Entry("CWD", Root, None), Entry("MKD", d, None)>>

\* ftpUploadFile(): "ensure remoteDir exists", then upload the file.
FtpUploadFile(o, f) ==
  LET d == DirOf[f]
      make == IF d \notin {Root, o.currentWorkingDir} THEN MakeDirectory(d) ELSE <<>>
  IN  WriteControl(Add(o, make \o UploadCommands(o, f)))

\* changeWorkingDirectory(remoteDir, function() { ftpUploadFile(...); })
ChangeDirThenUpload(o, f) == WriteControl(Add(o, <<Entry("CWD", DirOf[f], f)>>))

-----------------------------------------------------------------------------
(* Recovery: "after connection lost, try to restart queue".                *)

\* The data transfer or its preparation was interrupted.
InterruptedSending(q) == HeadIs(q, Transfers)                       \* mutant
Interrupted(q) == HeadIs(q, Transfers \cup {"PASV"})

\* The file transfer starts over.
Restarted(e) ==
  [e EXCEPT !.cmd = IF @ = "STOR2" THEN "STOR" ELSE IF @ = "APPE2" THEN "APPE" ELSE @]

\* What is taken out of the trash for the entry e: a TYPE is followed by a SIZE
\* that finds out how much of the file is there already.
RecycledAlways(trash, e) ==                                         \* mutant
  LET Back(t) == IF t.cmd = "TYPE" THEN <<t, Entry("SIZE", e.arg, e.cmd)>> ELSE <<t>>
  IN  FlattenSeq([i \in 1..Len(trash) |-> Back(trash[i])])
Recycled(trash, e) ==
  LET Back(t) == IF t.cmd = "TYPE" /\ e.cmd \in Sending
                 THEN <<t, Entry("SIZE", e.arg, e.cmd)>> ELSE <<t>>
  IN  FlattenSeq([i \in 1..Len(trash) |-> Back(trash[i])])

RecoverNoCwd(o) ==                                                  \* mutant
  [o EXCEPT !.queue = IF Interrupted(@) THEN Recycled(o.trash, Restarted(Head(@)))
                                             \o <<Restarted(Head(@))>> \o Tail(@) ELSE @,
            !.trash = <<>>]
RecoverShifting(o) ==                                               \* mutant
  [o EXCEPT !.queue = IF @ = <<>> THEN @ ELSE Tail(@), !.currentWorkingDir = "",
            !.trash = <<>>]
RecoverFromDisaster(o) ==
  LET q  == IF HeadIs(o.queue, {"goodbye"}) THEN Tail(o.queue) ELSE o.queue
      e  == Restarted(Head(q))
      r  == IF Interrupted(q) THEN Recycled(o.trash, e) \o <<e>> \o Tail(q) ELSE q
      in == IF o.currentWorkingDir = "" THEN <<>>
            ELSE <<Entry("CWD", o.currentWorkingDir, None)>>
  IN  [o EXCEPT !.queue = in \o r, !.currentWorkingDir = "", !.trash = <<>>]
=============================================================================
