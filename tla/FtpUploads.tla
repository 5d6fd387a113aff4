---------------------------- MODULE FtpUploads ----------------------------
(***************************************************************************)
(* Publishing a site: the site manager (sitemanager.js), its FTP client    *)
(* (FtpClient), the client's timers, and the server.                       *)
(*                                                                         *)
(* A reply of the server and the call of readControl() it causes are one   *)
(* step: the time a reply is on its way is time the server takes.  Two     *)
(* situations after which replies are no longer read by the commands they  *)
(* answer are recorded in `disorder' and end the behaviour.                *)
(*                                                                         *)
(* Left out: the 500 ms retry of a transfer's end that is read before the  *)
(* data socket is finished, since the server ends a transfer when the data *)
(* connection is closed, and by then the socket is finished; empty files   *)
(* (emptyFile); what else enables and disables the user interface.         *)
(***************************************************************************)
EXTENDS FtpClient, FiniteSets

CONSTANTS
  Old,        \* files of which the server has an earlier version
  Refusable,  \* commands the server may refuse
  MaxLosses,  \* bound on connections lost or gone silent
  MaxRefusals,\* bound on the kinds of command refused without need
  MaxQueue    \* bound on the length of the queue

VARIABLES
  ftp,        \* the client object
  reconnects, \* timers that will call reconnect()
  ui,         \* the user interface is enabled, as far as uploads go
  begun,      \* files whose upload the user asked for
  waited,     \* those whose upload has not ended well and was not stopped
  done,       \* files whose upload ended with no error reported
  srv,        \* the server's session
  files,      \* what the server has of a file in a directory
  made,       \* directories the server has
  losses,     \* connections lost or gone silent so far
  refused,    \* the kinds of command refused without need so far
  disorder    \* replies are no longer read by the commands they answer

net  == <<srv, files, made, losses, refused>>
app  == <<ui, begun, waited, done>>
vars == <<ftp, reconnects, app, net, disorder>>

ASSUME OldAssumption  == Old \subseteq File
ASSUME FaultAssumption == /\ MaxLosses \in Nat /\ MaxRefusals \in Nat /\ MaxQueue \in Nat
                          /\ Refusable \subseteq Command

Status  == {"absent", "old", "partial", "whole", "garbled"}
Code    == {1, 2, 3, 5}
Session == [login : {"no", "user", "in", "refused"}, type : {"A", "I"}, dir : Dir,
            port : BOOLEAN, started : BOOLEAN, silent : BOOLEAN]
NewSession == [login |-> "no", type |-> "A", dir |-> Home, port |-> FALSE,
               started |-> FALSE, silent |-> FALSE]

Init ==
  /\ ftp = NewClient
  /\ reconnects = 0
  /\ ui = TRUE /\ begun = {} /\ waited = {} /\ done = {}
  /\ srv = NewSession
  /\ files = [p \in Dir \X File |->
                IF p[2] \in Old /\ p[1] = DirOf[p[2]] THEN "old" ELSE "absent"]
  /\ made \in {d \in SUBSET Dir : {Root, Home} \subseteq d}
  /\ losses = 0 /\ refused = {}
  /\ disorder = FALSE

-----------------------------------------------------------------------------
(* The server.                                                             *)

Asked == Head(ftp.wire)
Place == <<srv.dir, Asked.arg>>

\* Not logged in, the server refuses whatever needs a login.
Anonymous == {"USER", "PASS", "NOOP"}

\* The replies the server may give to the command it is asked.
MayRefuse(cmd) == cmd \in Refusable \ refused /\ Cardinality(refused) < MaxRefusals
Refusal == IF MayRefuse(Asked.cmd) THEN {5} ELSE {}
Granted(good) == IF good THEN {2} \cup Refusal ELSE {5}
Replies ==
  CASE Asked.cmd = "USER"  -> {3} \cup Refusal
    [] Asked.cmd = "PASS"  -> IF srv.login = "user" THEN {2} \cup Refusal ELSE {5}
    [] Asked.cmd = "NOOP"  -> {2}
    [] srv.login # "in" /\ Asked.cmd \notin Anonymous -> {5}
    [] srv.login = "in" /\ Asked.cmd = "CWD"  -> Granted(Asked.arg \in made)
    [] srv.login = "in" /\ Asked.cmd = "MKD"  -> Granted(Asked.arg \notin made)
    [] srv.login = "in" /\ Asked.cmd = "SIZE" -> Granted(files[Place] # "absent")
    [] srv.login = "in" /\ Asked.cmd \in Sending ->
         IF srv.started THEN IF ftp.data = "busy" THEN Refusal
                             ELSE {2} \cup Refusal
         ELSE IF ~srv.port THEN {5}
              ELSE (IF ftp.data = "busy" THEN {1} ELSE {1, 2}) \cup Refusal
    [] srv.login = "in" /\ Asked.cmd \in {"PWD", "FEAT", "TYPE", "PASV", "XSHA1"} ->
         {2} \cup Refusal

\* A transfer begins: STOR starts the file anew, APPE adds to what is there
\* what the client believes is missing.
Begun ==
  IF srv.type = "A" \/ (Asked.cmd = "APPE" /\ files[Place] \in {"old", "garbled"})
  THEN "garbled"
  ELSE IF Asked.cmd = "APPE" /\ files[Place] = "whole" THEN "whole" ELSE "partial"

\* A transfer ends: the file is whole if all of it was sent.
Ended(begins) == IF ftp.data = "sent" /\ begins = "partial" THEN "whole" ELSE begins

\* The server carries out the command it is asked and replies with code.
Serve(code) ==
  /\ srv' = [srv EXCEPT
       !.login = CASE Asked.cmd = "USER" /\ code = 3 -> "user"
                   [] Asked.cmd = "PASS" /\ code = 2 -> "in"
                   [] OTHER -> @,
       !.type = IF Asked.cmd = "TYPE" /\ code = 2 THEN Asked.arg ELSE @,
       !.dir  = IF Asked.cmd = "CWD" /\ code = 2 THEN Asked.arg ELSE @,
       !.port = IF Asked.cmd = "PASV" THEN code = 2 ELSE @ /\ Asked.cmd \notin Sending,
       !.started = code = 1]
  /\ made' = IF Asked.cmd = "MKD" /\ code = 2 THEN made \cup {Asked.arg} ELSE made
  /\ files' = IF code = 1 THEN [files EXCEPT ![Place] = Begun]
              ELSE IF srv.started THEN [files EXCEPT ![Place] = Ended(@)]
              ELSE IF Asked.cmd \in Sending /\ code = 2
              THEN [files EXCEPT ![Place] = Ended(Begun)] ELSE files

\* A reply to a command is read.
Reply(code) ==
  /\ ftp.link = "up" /\ ~srv.silent /\ ftp.wire # <<>>
  /\ code \in Replies
  /\ Serve(code)
  /\ refused' = IF code = 5 /\ Replies # {5} THEN refused \cup {Asked.cmd} ELSE refused
  /\ UNCHANGED <<losses, reconnects, begun>>

-----------------------------------------------------------------------------
(* readControl(), by the command at the head of the queue.                 *)

Reads(code, cmds) == HeadIs(ftp.queue, cmds) /\ Reply(code)

\* The object when the switch is reached, the head shifted.
Popped(code) == Shifted(Heard(ftp, code))
Answered == Head(ftp.queue)

\* The greeting: a connection is good, or the server wants none.
Greeted(o) == Unshift([o EXCEPT !.isConnected = TRUE, !.isReconnecting = FALSE,
                                !.reconnectsLeft = MaxAttempts], <<Bare("USER")>>)
ReadWelcome ==
  /\ ftp.link = "opening" /\ HeadIs(ftp.queue, {"welcome"})
  /\ LET o == [Popped(2) EXCEPT !.link = "up"] IN
       \/ /\ ftp' = Proceed(Greeted(o))
          /\ UNCHANGED <<srv, refused>>
       \/ /\ MayRefuse("welcome") /\ refused' = refused \cup {"welcome"}
          /\ ftp' = Proceed(Cleanup(o, FALSE))
          /\ srv' = [srv EXCEPT !.login = "refused"]
  /\ UNCHANGED <<reconnects, app, files, made, losses, disorder>>

\* The user stopped while connecting: nobody waits for the greeting.
ReadUnexpected ==
  /\ ftp.link = "opening" /\ ftp.queue = <<>>
  /\ ftp' = [Heard(ftp, 2) EXCEPT !.link = "up", !.isReady = TRUE]
  /\ UNCHANGED <<reconnects, app, net, disorder>>

\* Logged in: the first time the client asks where it is, later it recovers.
LoggedIn(o) ==
  IF o.legitClose
  THEN Unshift([o EXCEPT !.legitClose = FALSE], <<Bare("FEAT"), Bare("PWD")>>)
  ELSE RecoverFromDisaster(o)
Denied(o) ==
  Kill([Cleanup(o, FALSE) EXCEPT !.reported = TRUE, !.isConnected = FALSE])
ReadLogin ==
  \E code \in Code :
    /\ Reads(code, {"USER", "PASS"})
    /\ ftp' = CASE code = 2 -> Proceed(LoggedIn(Popped(code)))
                [] code = 3 -> Proceed(Unshift(Popped(code), <<Bare("PASS")>>))
                [] OTHER    -> Denied(Popped(code))
    /\ UNCHANGED <<ui, waited, done, disorder>>

ReadPwd ==
  \E code \in Code :
    /\ Reads(code, {"PWD"})
    /\ ftp' = LET o == [Popped(code) EXCEPT !.trash = <<>>] IN
              Proceed(IF code = 2 THEN [o EXCEPT !.currentWorkingDir = srv.dir]
                                  ELSE [o EXCEPT !.reported = TRUE])
    /\ UNCHANGED <<ui, waited, done, disorder>>

ReadFeat ==
  \E code \in Code :
    /\ Reads(code, {"FEAT"})
    /\ ftp' = Proceed(Report([Popped(code) EXCEPT !.featXCheck = @ \/ (code = 2 /\ XCheck)],
                             code, 2))
    /\ UNCHANGED <<ui, waited, done, disorder>>

\* A CWD that fails is not reported: there is no observer.  Its callback is
\* called either way.
ReadCwd ==
  \E code \in Code :
    /\ Reads(code, {"CWD"})
    /\ LET o == IF code = 2
                THEN [Popped(code) EXCEPT !.currentWorkingDir = Answered.arg]
                ELSE Popped(code)
       IN  ftp' = Proceed(IF Answered.then = None THEN o ELSE FtpUploadFile(o, Answered.then))
    /\ UNCHANGED <<ui, waited, done, disorder>>

ReadMkd ==
  \E code \in Code :
    /\ Reads(code, {"MKD"})
    /\ ftp' = Proceed(Report([Popped(code) EXCEPT !.trash = <<>>], code, 2))
    /\ UNCHANGED <<ui, waited, done, disorder>>

ReadType ==
  \E code \in Code :
    /\ Reads(code, {"TYPE"})
    /\ ftp' = Proceed(IF code = 2 THEN [Popped(code) EXCEPT !.transferMode = Answered.arg]
                                  ELSE Report(Popped(code), code, 2))
    /\ UNCHANGED <<ui, waited, done, disorder>>

\* A data socket is made and connected for the command that follows.
ReadPasv ==
  \E code \in Code :
    /\ Reads(code, {"PASV"})
    /\ ftp' = LET o == Popped(code) IN
              Proceed(IF code # 2 THEN [o EXCEPT !.reported = TRUE]
                      ELSE [o EXCEPT !.data = IF HeadIs(o.queue, Sending)
                                              THEN "busy" ELSE "killed"])
    /\ UNCHANGED <<ui, waited, done, disorder>>

\* How much of a file is there decides between STOR and APPE.
ReadSize ==
  \E code \in Code :
    /\ Reads(code, {"SIZE"})
    /\ LET o == [Popped(code) EXCEPT !.queue =
                   IF code # 2 THEN Rewritten(@, "APPE", "STOR")
                   ELSE IF Answered.then = "STOR" THEN Rewritten(@, "STOR", "APPE") ELSE @]
       IN  ftp' = Proceed(Report(o, code, 2))
    /\ UNCHANGED <<ui, waited, done, disorder>>

ReadOther ==
  \E code \in Code :
    /\ Reads(code, {"NOOP", "XSHA1"})
    /\ ftp' = Proceed(Report(Popped(code), code, 2))
    /\ UNCHANGED <<ui, waited, done, disorder>>

\* The last reply of an aborted command; if it is only the preliminary one, the
\* next will be read by a command that it does not answer.
ReadAborted ==
  \E code \in Code :
    /\ Reads(code, {"aborted"})
    /\ ftp' = Proceed(Popped(code))
    /\ disorder' = (code = 1)
    /\ UNCHANGED <<ui, waited, done>>

\* The entry of a transfer that has been replied to.
Accepted(e) == [e EXCEPT !.cmd = IF @ = "STOR" THEN "STOR2" ELSE "APPE2"]

\* A transfer has ended well.  Its callback is ftpEndRequest(): the queue is
\* cleaned up, whatever else is in it, and the user interface enabled.
EndTransfer ==
  /\ ftp' = Proceed(Cleanup([TransferOver(Heard(ftp, 2)) EXCEPT !.transfer = FALSE], FALSE))
  /\ ui' = TRUE /\ waited' = waited \ {Answered.arg}
  /\ done' = IF ftp.reported THEN done ELSE done \cup {Answered.arg}

\* The transfer is accepted or refused.  Of several replies that arrive together
\* the last is read, so that it may have ended.  A client whose PASV was refused
\* has no data socket: the handler throws, which ends the connection.
ReadStart ==
  \E code \in Code :
    /\ Reads(code, Sending)
    /\ LET o == [Heard(ftp, code) EXCEPT !.queue[1] = Accepted(@)]
           p == [TransferOver(o) EXCEPT !.queue = DropChecks(@), !.reported = TRUE,
                                        !.data = Killed(@)]
       IN  \/ /\ code # 2 \/ o.data = None
              /\ ftp' = IF o.data = None THEN Kill(o) ELSE IF code = 1 THEN o ELSE Proceed(p)
              /\ UNCHANGED <<ui, waited, done>>
           \/ code = 2 /\ o.data # None /\ EndTransfer
    /\ UNCHANGED disorder

\* The transfer that was accepted has ended, well or not.
ReadEndUnheeded ==                                                  \* mutant
  \E code \in Code : Reads(code, Sending2) /\ EndTransfer /\ UNCHANGED disorder
ReadEnd ==
  \E code \in Code :
    /\ Reads(code, Sending2)
    /\ \/ code = 2 /\ EndTransfer
       \/ /\ code # 2
          /\ ftp' = Proceed([TransferOver(Heard(ftp, code)) EXCEPT !.reported = TRUE,
                                                                  !.data = Killed(@)])
          /\ UNCHANGED <<ui, waited, done>>
    /\ UNCHANGED disorder

Read == \/ ReadLogin \/ ReadPwd \/ ReadFeat \/ ReadCwd \/ ReadMkd \/ ReadType
        \/ ReadPasv \/ ReadSize \/ ReadOther \/ ReadAborted \/ ReadStart \/ ReadEnd

-----------------------------------------------------------------------------
(* The user.                                                               *)

\* A second connection's listener would share the object with the listener of the
\* first, which is there until its onStopRequest().
Connecting == ftp.link # None

\* uploadItem(): the button is disabled while an upload is under way, but not the
\* context menu, nor the editor's "publish", and nothing else prevents a second.
\* Each file is uploaded once, which bounds the behaviours.
Upload(f) ==
  /\ f \notin begun
  /\ LET o == [ftp EXCEPT !.reported = @ /\ ~ui]
         c == IF o.isConnected THEN o ELSE ConnectAnew(o)
     IN  ftp' = IF DirOf[f] = Root THEN FtpUploadFile(c, f) ELSE ChangeDirThenUpload(c, f)
  /\ ui' = FALSE /\ begun' = begun \cup {f} /\ waited' = waited \cup {f}
  /\ disorder' = (~ftp.isConnected /\ Connecting)
  /\ srv' = IF ftp.isConnected THEN srv ELSE NewSession
  /\ UNCHANGED <<reconnects, done, files, made, losses, refused>>

\* stopCallback(): the button is there while the user interface is disabled, and
\* what lists the site's files disables and enables it too, at any time.
Stop ==
  /\ ftp' = Abort(ftp)
  /\ ui' = TRUE /\ waited' = {}
  /\ UNCHANGED <<reconnects, begun, done, net, disorder>>

-----------------------------------------------------------------------------
(* The timers.  They may fire, and the user may act, between a kill() or a *)
(* loss and the onStopRequest() that tells of it.                          *)

KeepAliveTimer ==
  /\ ftp.isConnected /\ ftp.queue = <<>>
  /\ ftp' = KeepAlive(ftp)
  /\ UNCHANGED <<reconnects, app, net, disorder>>

\* The time of a command is up only if the server has not replied.
Unheard == srv.silent \/ ftp.link = "closing"
Overdue == ftp.timeout # None /\ Unheard
Holds(e, cmd) == e.cmd = cmd \/ (e.cmd = "STOR2" /\ cmd = "STOR") \/ (e.cmd = "APPE2" /\ cmd = "APPE")
CheckTimeout ==
  /\ Overdue
  /\ LET o == [ftp EXCEPT !.timeout = None] IN
     ftp' = IF o.isConnected /\ o.queue # <<>> /\ Holds(Head(o.queue), ftp.timeout)
            THEN ResetConnection(o) ELSE o
  /\ UNCHANGED <<reconnects, app, net, disorder>>

\* No byte was sent since the timer was set.
Stalled == ftp.transfer /\ (Unheard \/ ftp.data = "killed")
CheckDataTimeout ==
  /\ Stalled
  /\ LET o == [ftp EXCEPT !.transfer = FALSE] IN
     ftp' = IF o.isConnected /\ o.data # None THEN ResetConnection(o) ELSE o
  /\ UNCHANGED <<reconnects, app, net, disorder>>

ReconnectTimer ==
  /\ reconnects > 0
  /\ reconnects' = reconnects - 1
  /\ ftp' = Reconnect(ftp)
  /\ srv' = IF ftp.isReconnecting THEN NewSession ELSE srv
  /\ disorder' = (ftp.isReconnecting /\ Connecting)
  /\ UNCHANGED <<app, files, made, losses, refused>>

-----------------------------------------------------------------------------
(* The connections.                                                        *)

\* progressEventSink has seen the last byte go: the data socket is closed.
DataSent ==
  /\ ftp.data = "busy"
  /\ ftp' = [ftp EXCEPT !.data = "sent"]
  /\ UNCHANGED <<reconnects, app, net, disorder>>

\* onStopRequest(): the connection was closed here or there, or never made.
StopRequest ==
  /\ ftp.link \in {"opening", "closing"}
  /\ ftp' = Stopped(ftp)
  /\ reconnects' = reconnects + (IF ftp'.isReconnecting THEN 1 ELSE 0)
  /\ srv' = NewSession
  /\ UNCHANGED <<app, files, made, losses, refused, disorder>>

\* The connection is lost.  The server may or may not have got the transfer
\* that it was asked for, and the rest of the one that was going on.
Drop ==
  /\ ftp.link = "up"
  /\ \/ losses < MaxLosses /\ losses' = losses + 1
     \/ srv.login = "refused" /\ UNCHANGED losses
  /\ ftp' = Kill(ftp)
  /\ \/ UNCHANGED files
     \/ /\ ftp.wire # <<>> /\ Asked.cmd \in Sending
        /\ \/ ~srv.started /\ srv.port /\ 1 \in Replies /\ files' = [files EXCEPT ![Place] = Begun]
           \/ srv.started /\ 2 \in Replies /\ files' = [files EXCEPT ![Place] = Ended(@)]
  /\ UNCHANGED <<reconnects, app, srv, made, refused, disorder>>

\* The server, or the network, goes silent.
Silence ==
  /\ ftp.link = "up" /\ ~srv.silent /\ losses < MaxLosses
  /\ losses' = losses + 1
  /\ srv' = [srv EXCEPT !.silent = TRUE]
  /\ UNCHANGED <<ftp, reconnects, app, files, made, refused, disorder>>

-----------------------------------------------------------------------------

\* Something was written ahead of the greeting: its reply will be read by USER.
Orderly == ~disorder /\ (ftp.link = "opening" => ftp.wire = <<>>)

\* Every recovery adds a CWD that the next one keeps.
Bounded == Len(ftp.queue) <= MaxQueue

System == \/ ReadWelcome \/ ReadUnexpected \/ Read
           \/ KeepAliveTimer \/ CheckTimeout \/ CheckDataTimeout \/ ReconnectTimer
           \/ DataSent \/ StopRequest
User    == Stop \/ \E f \in File : Upload(f)
Network == Drop \/ Silence

Next == Orderly /\ Bounded /\ (System \/ User \/ Network)

\* The event loop has something to run: a connection, a reply, a timer or data.
Busy ==
  /\ Orderly /\ Bounded
  /\ \/ ftp.link \in {"opening", "closing"} \/ ftp.data = "busy"
     \/ ftp.link = "up" /\ ~srv.silent /\ ftp.wire # <<>> /\ Replies # {}
     \/ ftp.isConnected /\ ftp.queue = <<>>
     \/ Overdue \/ Stalled \/ reconnects > 0

\* The event loop runs the timers and the socket's callbacks, the server goes on
\* unless it falls silent, and a connection that is being made is made or fails.
\* LiveSpec is FairSpec with ENABLED written out, which TLC checks much faster.
Spec     == Init /\ [][Next]_vars
FairSpec == Spec /\ WF_vars(Orderly /\ Bounded /\ System)
LiveSpec == Spec /\ (<>[]Busy => []<><<System>>_vars)

-----------------------------------------------------------------------------
\* Type invariant of the client object, the console and the server.
TypeOK ==
  /\ ftp \in Client /\ reconnects \in Nat
  /\ ui \in BOOLEAN /\ begun \subseteq File /\ waited \subseteq begun /\ done \subseteq begun
  /\ srv \in Session /\ files \in [Dir \X File -> Status] /\ made \subseteq Dir
  /\ losses \in 0..MaxLosses /\ refused \subseteq Refusable
  /\ disorder \in BOOLEAN

\* readControl() gives a reply to the entry at the head of the queue, whatever it
\* is: the client waits for one reply at most, and the command that the reply is
\* for is at the head, or was aborted.  The keep-alive timer, the user and the
\* callbacks all add to the queue between a command and its reply.
ReplyIsForHead ==
  Orderly /\ ftp.link = "up" /\ ftp.wire # <<>> =>
    /\ Len(ftp.wire) = 1 /\ ~ftp.isReady
    /\ ftp.queue # <<>>
    /\ Holds(Head(ftp.queue), Asked.cmd) \/ Head(ftp.queue).cmd = "aborted"

\* When ftpEndRequest() gives the user interface back and no error was written to
\* the console, the file is on the server, whole and in its directory.
DoneMeansStored == \A f \in done : files[<<DirOf[f], f>>] = "whole"

\* While the user waits, with no error reported, an upload that was asked for is
\* still in the queue, over losses of the connection, timeouts and recoveries, once
\* the first login has been accepted.  A greeting that is refused later drops it
\* silently; a second upload that was asked for meanwhile is dropped by
\* ftpEndRequest() of the first, which ends the waiting (UploadsAwaited).
Pursued(f) == \E i \in 1..Len(ftp.queue) :
                \/ ftp.queue[i].cmd \in Transfers /\ ftp.queue[i].arg = f
                \/ ftp.queue[i].cmd = "CWD" /\ ftp.queue[i].then = f
UploadPursued ==
  Orderly /\ ~ui /\ ~ftp.reported /\ ~ftp.legitClose /\ "welcome" \notin refused =>
    \E f \in waited : Pursued(f)

\* A transfer is asked for when the server is ready for it: in binary mode, in the
\* file's directory, with a data connection; also after recoverFromDisaster()
\* has put back what had been answered on the connection that was lost ...
AlwaysPrepared ==
  Orderly /\ ~ftp.reported /\ ftp.link = "up" /\ ftp.wire # <<>>
          /\ Asked.cmd \in Sending /\ Asked = Head(ftp.queue) =>
     srv.type = "I" /\ srv.dir = DirOf[Asked.arg] /\ ftp.data # None

\* ... unless a second timer reset a connection whose onStopRequest() had not come
\* yet: recoverFromDisaster() expects one "goodbye", and finds another before the
\* transfer that was interrupted.
TransferPrepared == ~ftp.twice => AlwaysPrepared

\* writeControl() skips a TYPE and a CWD that would change nothing: what it goes
\* by, currentWorkingDir and transferMode, is never stale on a session.
BeliefsHold ==
  Orderly /\ ftp.link = "up" /\ srv.login = "in" =>
    /\ ftp.currentWorkingDir \in {"", srv.dir}
    /\ ftp.transferMode \in {"", srv.type}

\* A client that isReconnecting has a timer or a connection under way, so that it
\* does not wait for ever, and never more attempts than it was given: no timer of
\* an earlier connection uses them up.
ReconnectTimed ==
  Orderly => /\ ftp.reconnectsLeft \in 0..MaxAttempts
             /\ ftp.isReconnecting => reconnects > 0 \/ ftp.link # None

\* Nothing of an upload that has ended well or was stopped is left to be sent or
\* to be put back by a recovery, and of none at all when ftpEndRequest() or
\* stopCallback() has enabled the user interface: no reply, callback or reconnect
\* that comes later brings it back.
FilesOf(e)  == {e.arg, e.then} \cap File
FilesLeft   == UNION {FilesOf(e) : e \in ToSet(ftp.queue) \cup ToSet(ftp.trash)}
NothingLeft == FilesLeft \subseteq waited /\ (ui => FilesLeft = {})

\* "disable the UI until the FTP transaction is done" is not so for two uploads: an
\* upload may have neither ended, nor been stopped, nor failed when the first enables
\* it.  No run checks this; it fails without any fault of the server or the network.
UploadsAwaited == ui /\ ~ftp.reported => waited = {}

\* The user interface that uploadItem() disables is enabled again, or an error is
\* written to the console, or the client reconnects without end, each time with one
\* more CWD in the queue ...
Settled == ui \/ ftp.reported \/ ~Orderly \/ ~Bounded
UploadAnswered == ~ui ~> Settled

\* ... but for what the code has no answer to: a greeting that is refused, which
\* only an observer would be told; a connection that is lost before the first
\* login, which passes for a legitimate close; a server that goes silent after
\* abort(), when no timer is left.
Unguarded == \/ "welcome" \in refused
             \/ losses > 0 /\ ftp.legitClose
             \/ srv.silent /\ HeadIs(ftp.queue, {"aborted"})
UploadEnds == ~ui ~> (Settled \/ Unguarded)
=============================================================================
