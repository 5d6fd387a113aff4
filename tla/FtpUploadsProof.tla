-------------------------- MODULE FtpUploadsProof --------------------------
(***************************************************************************)
(* Theorems about FtpUploads: an orderly client that is reconnecting does  *)
(* not wait for ever, and never makes more attempts than it was given; and *)
(* an upload that the user waits for is not forgotten.                     *)
(*                                                                         *)
(* Nearly all methods of the client keep what each of them depends on; a   *)
(* lemma says so of each, and the proof that a handler does composes them  *)
(* as the handler composes the methods.                                    *)
(***************************************************************************)
EXTENDS FtpRepliesProof

Fields == {"queue", "trash", "wire", "isConnected", "isReady", "isReconnecting",
           "legitClose", "reconnectsLeft", "transferMode", "currentWorkingDir",
           "featXCheck", "data", "timeout", "transfer", "link", "reported", "twice"}

\* An object, whatever its fields hold.
IsObject(o) == o = [f \in Fields |-> o[f]]

\* What a method may do to the object o: end reconnecting, set the attempts
\* again, have a connection end, but not make one or forget one.
Keeps(p, o) ==
  /\ IsObject(p)
  /\ p.link \in {o.link} \cup (IF o.link = None THEN {} ELSE {"up", "closing"})
  /\ p.isReconnecting \in {FALSE, o.isReconnecting}
  /\ p.legitClose \in {FALSE, o.legitClose}
  /\ p.reconnectsLeft \in {MaxAttempts, o.reconnectsLeft}

\* The client object and its pending timers between two steps.  While no
\* connection is being made an attempt is left for the timer that is pending,
\* and only a client that has logged in once is reconnecting.
Timed(o, n) ==
  /\ o.link \in {None, "opening", "up", "closing"}
  /\ o.isReconnecting \in BOOLEAN /\ o.legitClose \in BOOLEAN
  /\ o.reconnectsLeft \in 0..MaxAttempts
  /\ o.isReconnecting => ~o.legitClose /\ (n > 0 \/ o.link # None)
  /\ o.isReconnecting /\ o.link = None => o.reconnectsLeft >= 1

TimedInv == IsObject(ftp) /\ reconnects \in Nat /\ (Orderly => Timed(ftp, reconnects))

LEMMA MaxAttemptsNat == MaxAttempts \in Nat /\ MaxAttempts >= 1
BY AttemptsAssumption DEF MaxAttempts

LEMMA TimedIntro ==
  ASSUME NEW p, NEW n \in Nat, p.link \in {None, "opening", "up", "closing"},
         p.isReconnecting \in BOOLEAN, p.legitClose \in BOOLEAN,
         p.reconnectsLeft \in 0..MaxAttempts,
         \/ p.isReconnecting = FALSE
         \/ /\ p.legitClose = FALSE
            /\ p.link # None \/ (n > 0 /\ p.reconnectsLeft >= 1)
  PROVE  Timed(p, n)
<1>1. CASE p.isReconnecting = FALSE
  BY <1>1 DEF Timed
<1>2. CASE p.isReconnecting = TRUE
  BY <1>2 DEF Timed
<1> QED BY <1>1, <1>2

-----------------------------------------------------------------------------
(* The methods keep it.                                                    *)

LEMMA KeepsTimed ==
  ASSUME NEW o, NEW p, NEW n \in Nat, Timed(o, n), Keeps(p, o) PROVE Timed(p, n)
<1>1. /\ p.link \in {None, "opening", "up", "closing"}
      /\ p.link = None <=> o.link = None
  BY DEF Timed, Keeps, None
<1>2. p.reconnectsLeft \in 0..MaxAttempts /\ (o.reconnectsLeft >= 1 => p.reconnectsLeft >= 1)
  BY MaxAttemptsNat DEF Timed, Keeps
<1>3. /\ p.isReconnecting \in BOOLEAN /\ p.legitClose \in BOOLEAN
      /\ p.isReconnecting => o.isReconnecting /\ ~p.legitClose
  BY DEF Timed, Keeps
<1> QED BY <1>1, <1>2, <1>3 DEF Timed

LEMMA KeepsRefl == ASSUME NEW o, IsObject(o) PROVE Keeps(o, o)
BY DEF Keeps

\* The fields that are set without a thought for the connection.
LEMMA KeepsQueues ==
  ASSUME NEW o, NEW p, Keeps(p, o), NEW q, NEW t, NEW c
  PROVE  /\ Keeps([p EXCEPT !.queue = q], o)
         /\ Keeps([p EXCEPT !.trash = t], o)
         /\ Keeps([p EXCEPT !.queue = q, !.trash = t], o)
         /\ Keeps([p EXCEPT !.queue = q, !.currentWorkingDir = c, !.trash = t], o)
BY DEF Keeps, IsObject, Fields

LEMMA KeepsFlags ==
  ASSUME NEW o, NEW p, Keeps(p, o), NEW v, NEW w
  PROVE  /\ Keeps([p EXCEPT !.isReady = v], o)
         /\ Keeps([p EXCEPT !.reported = v], o)
         /\ Keeps([p EXCEPT !.reported = v, !.data = w], o)
         /\ Keeps([p EXCEPT !.data = v], o)
         /\ Keeps([p EXCEPT !.timeout = v], o)
         /\ Keeps([p EXCEPT !.transfer = v], o)
         /\ Keeps([p EXCEPT !.transferMode = v], o)
         /\ Keeps([p EXCEPT !.currentWorkingDir = v], o)
         /\ Keeps([p EXCEPT !.featXCheck = v], o)
         /\ Keeps([p EXCEPT !.reported = v, !.isConnected = w], o)
         /\ Keeps([p EXCEPT !.legitClose = FALSE], o)
         /\ Keeps([p EXCEPT !.isReconnecting = FALSE], o)
BY DEF Keeps, IsObject, Fields

LEMMA CleanupKeeps ==
  ASSUME NEW o, NEW p, Keeps(p, o), NEW a PROVE Keeps(Cleanup(p, a), o)
BY DEF Cleanup, Keeps, IsObject, Fields

LEMMA KillKeeps == ASSUME NEW o, NEW p, Keeps(p, o) PROVE Keeps(Kill(p), o)
BY DEF Kill, Keeps, IsObject, Fields, None

LEMMA WriteKeeps == ASSUME NEW o, NEW p, Keeps(p, o), NEW e PROVE Keeps(Write(p, e), o)
BY DEF Write, Keeps, IsObject, Fields

LEMMA HeardKeeps ==
  ASSUME NEW o, NEW p, Keeps(p, o), NEW code PROVE Keeps(Heard(p, code), o)
BY DEF Heard, Keeps, IsObject, Fields

LEMMA ReportKeeps ==
  ASSUME NEW o, NEW p, Keeps(p, o), NEW code, NEW good PROVE Keeps(Report(p, code, good), o)
BY DEF Report, Keeps, IsObject, Fields

LEMMA TransferOverKeeps ==
  ASSUME NEW o, NEW p, Keeps(p, o) PROVE Keeps(TransferOver(p), o)
BY DEF TransferOver, Keeps, IsObject, Fields

LEMMA AddKeeps ==
  ASSUME NEW o, NEW p, Keeps(p, o), NEW s
  PROVE  Keeps(Add(p, s), o) /\ Keeps(Unshift(p, s), o)
<1> DEFINE q == p.queue \o s  r == s \o p.queue
<1>1. Add(p, s) = [p EXCEPT !.queue = q] /\ Unshift(p, s) = [p EXCEPT !.queue = r]
  BY Zenon DEF Add, Unshift
<1> HIDE DEF q, r
<1>2. Keeps([p EXCEPT !.queue = q], o) /\ Keeps([p EXCEPT !.queue = r], o)
  BY KeepsQueues
<1> QED BY <1>1, <1>2, Zenon

LEMMA WriteControlKeeps ==
  ASSUME NEW o, NEW p, Keeps(p, o) PROVE Keeps(WriteControl(p), o)
<1> DEFINE K(e) == IF Redundant(p, e) THEN <<e>> ELSE <<>>
           rest == SubSeq(p.queue, Skips(p) + 1, Len(p.queue))
           kept == p.trash \o FlattenSeq([i \in 1..Skips(p) |-> K(p.queue[i])])
           w == [p EXCEPT !.queue = rest, !.trash = kept]
<1>1. WriteControl(p) \in {p, w, Write(w, Head(w.queue))}
  BY Zenon DEF WriteControl
<1>2. Keeps(w, o)
  <2> HIDE DEF rest, kept
  <2> QED BY KeepsQueues
<1> HIDE DEF w
<1>3. Keeps(Write(w, Head(w.queue)), o)
  BY <1>2, WriteKeeps
<1> QED BY <1>1, <1>2, <1>3

LEMMA ProceedKeeps == ASSUME NEW o, NEW p, Keeps(p, o) PROVE Keeps(Proceed(p), o)
<1> DEFINE r == [p EXCEPT !.isReady = TRUE]
<1>1. Proceed(p) \in {r, WriteControl(r)}
  BY Zenon DEF Proceed
<1>2. Keeps(r, o)
  BY KeepsFlags
<1> HIDE DEF r
<1> QED BY <1>1, <1>2, WriteControlKeeps

LEMMA ShiftedKeeps == ASSUME NEW o, NEW p, Keeps(p, o) PROVE Keeps(Shifted(p), o)
<1>1. Keeps(Discard(p, Head(p.queue)), o)
  BY DEF Discard, Keeps, IsObject, Fields
<1> DEFINE d == Discard(p, Head(p.queue))  q == Tail(d.queue)
<1>2. Shifted(p) = [d EXCEPT !.queue = q]
  BY Zenon DEF Shifted
<1>3. Keeps(d, o)
  BY <1>1
<1> HIDE DEF d, q
<1>4. Keeps([d EXCEPT !.queue = q], o)
  BY <1>3, KeepsQueues
<1> QED BY <1>2, <1>4, Zenon

LEMMA PoppedKeeps == ASSUME IsObject(ftp), NEW code PROVE Keeps(Popped(code), ftp)
BY KeepsRefl, HeardKeeps, ShiftedKeeps DEF Popped

LEMMA RecoverKeeps ==
  ASSUME NEW o, NEW p, Keeps(p, o) PROVE Keeps(RecoverFromDisaster(p), o)
<1> DEFINE r(q) == [p EXCEPT !.queue = q, !.currentWorkingDir = "", !.trash = <<>>]
<1>1. \E q : RecoverFromDisaster(p) = r(q)
  BY Zenon DEF RecoverFromDisaster
<1>2. \A q : Keeps(r(q), o)
  BY KeepsQueues
<1> HIDE DEF r
<1> QED BY <1>1, <1>2

LEMMA UploadKeeps ==
  ASSUME NEW o, NEW p, Keeps(p, o), NEW f
  PROVE  Keeps(FtpUploadFile(p, f), o) /\ Keeps(ChangeDirThenUpload(p, f), o)
<1>1. PICK s : FtpUploadFile(p, f) = WriteControl(Add(p, s))
  BY Zenon DEF FtpUploadFile
<1>2. PICK t : ChangeDirThenUpload(p, f) = WriteControl(Add(p, t))
  BY Zenon DEF ChangeDirThenUpload
<1>3. ASSUME NEW r PROVE Keeps(WriteControl(Add(p, r)), o)
  BY AddKeeps, WriteControlKeeps
<1> QED BY <1>1, <1>2, <1>3

LEMMA AbortKeeps == ASSUME NEW o, NEW p, Keeps(p, o) PROVE Keeps(Abort(p), o)
<1> DEFINE r == Cleanup([p EXCEPT !.isReconnecting = FALSE], TRUE)
<1>1. Keeps(r, o)
  BY KeepsFlags, CleanupKeeps
<1>2. \E d : Abort(p) \in {r, Add([r EXCEPT !.data = d], <<Bare("aborted")>>)}
  BY Zenon DEF Abort
<1> HIDE DEF r
<1>3. ASSUME NEW d PROVE Keeps(Add([r EXCEPT !.data = d], <<Bare("aborted")>>), o)
  BY <1>1, KeepsFlags, AddKeeps
<1> QED BY <1>1, <1>2, <1>3

LEMMA ResetConnectionKeeps ==
  ASSUME NEW o, NEW p, Keeps(p, o) PROVE Keeps(ResetConnection(p), o)
<1> DEFINE t == p.twice \/ HeadIs(p.queue, {"goodbye"})
           g == [p EXCEPT !.legitClose = FALSE, !.twice = t]
           r == Unshift(g, <<Bare("goodbye")>>)
           q == IF r.isReady THEN Write(r, Bare("QUIT")) ELSE r
           s == [q EXCEPT !.data = Killed(@)]
<1>1. ResetConnection(p) = Kill(s)
  BY Zenon DEF ResetConnection
<1>2. Keeps(r, o)
  <2> HIDE DEF t
  <2>1. Keeps(g, o)
    BY DEF Keeps, IsObject, Fields
  <2> HIDE DEF g
  <2> QED BY <2>1, AddKeeps
<1> HIDE DEF r
<1>3. Keeps(q, o)
  BY <1>2, WriteKeeps
<1> HIDE DEF q
<1>4. Keeps(s, o)
  <2> DEFINE d == Killed(q.data)
  <2> HIDE DEF d
  <2>1. Keeps([q EXCEPT !.data = d], o)
    BY <1>3, KeepsFlags
  <2> QED BY <2>1, Zenon DEF d
<1> HIDE DEF s
<1> QED BY <1>1, <1>4, KillKeeps

LEMMA KeepAliveKeeps == ASSUME NEW o, NEW p, Keeps(p, o) PROVE Keeps(KeepAlive(p), o)
BY AddKeeps, WriteControlKeeps DEF KeepAlive

-----------------------------------------------------------------------------
(* The replies keep it.                                                    *)

\* The greeting ends reconnecting.
LEMMA WelcomeKeeps == ASSUME IsObject(ftp), ReadWelcome PROVE Keeps(ftp', ftp)
<1> DEFINE o == [Popped(2) EXCEPT !.link = "up"]
           g == [o EXCEPT !.isConnected = TRUE, !.isReconnecting = FALSE,
                          !.reconnectsLeft = MaxAttempts]
<1>1. Keeps(o, ftp)
  <2>1. ftp.link = "opening" /\ Keeps(Popped(2), ftp)
    BY PoppedKeeps DEF ReadWelcome
  <2>. DEFINE p == Popped(2)
  <2>. HIDE DEF p
  <2>2. Keeps(p, ftp) => Keeps([p EXCEPT !.link = "up"], ftp)
    BY <2>1 DEF Keeps, IsObject, Fields, None
  <2>. QED  BY <2>1, <2>2 DEF p
<1>2. ftp' \in {Proceed(Unshift(g, <<Bare("USER")>>)), Proceed(Cleanup(o, FALSE))}
  BY Zenon DEF ReadWelcome, Greeted
<1> HIDE DEF o
<1>3. Keeps(g, ftp)
  BY <1>1 DEF Keeps, IsObject, Fields
<1> HIDE DEF g
<1>4. Keeps(Proceed(Unshift(g, <<Bare("USER")>>)), ftp)
  BY <1>3, AddKeeps, ProceedKeeps
<1>5. Keeps(Proceed(Cleanup(o, FALSE)), ftp)
  BY <1>1, CleanupKeeps, ProceedKeeps
<1> QED BY <1>2, <1>4, <1>5

LEMMA UnexpectedKeeps == ASSUME IsObject(ftp), ReadUnexpected PROVE Keeps(ftp', ftp)
<1>1. Keeps(Heard(ftp, 2), ftp)
  BY KeepsRefl, HeardKeeps
<1>2. ftp' = [Heard(ftp, 2) EXCEPT !.link = "up", !.isReady = TRUE] /\ ftp.link # None
  BY DEF ReadUnexpected, None
<1> QED BY <1>1, <1>2 DEF Keeps, IsObject, Fields

LEMMA LoginKeeps == ASSUME IsObject(ftp), ReadLogin PROVE Keeps(ftp', ftp)
<1>1. PICK code \in Code :
        ftp' = CASE code = 2 -> Proceed(LoggedIn(Popped(code)))
                 [] code = 3 -> Proceed(Unshift(Popped(code), <<Bare("PASS")>>))
                 [] OTHER    -> Denied(Popped(code))
  BY Zenon DEF ReadLogin
<1> DEFINE o == Popped(code)
<1>2. Keeps(o, ftp)
  BY PoppedKeeps
<1>3. ftp' \in {Proceed(LoggedIn(o)), Proceed(Unshift(o, <<Bare("PASS")>>)), Denied(o)}
  BY <1>1
<1> HIDE DEF o
<1>4. Keeps(LoggedIn(o), ftp)
  BY <1>2, KeepsFlags, AddKeeps, RecoverKeeps DEF LoggedIn
<1>5. Keeps(Denied(o), ftp)
  <2>1. Keeps(Cleanup(o, FALSE), ftp)
    BY <1>2, CleanupKeeps
  <2> QED BY <2>1, KeepsFlags, KillKeeps DEF Denied
<1>6. Keeps(Unshift(o, <<Bare("PASS")>>), ftp)
  BY <1>2, AddKeeps
<1> QED BY <1>3, <1>4, <1>5, <1>6, ProceedKeeps

LEMMA PwdKeeps == ASSUME IsObject(ftp), ReadPwd PROVE Keeps(ftp', ftp)
<1>1. PICK code \in Code :
        ftp' = LET o == [Popped(code) EXCEPT !.trash = <<>>] IN
               Proceed(IF code = 2 THEN [o EXCEPT !.currentWorkingDir = srv.dir]
                                   ELSE [o EXCEPT !.reported = TRUE])
  BY Zenon DEF ReadPwd
<1> DEFINE o == [Popped(code) EXCEPT !.trash = <<>>]
           p == IF code = 2 THEN [o EXCEPT !.currentWorkingDir = srv.dir]
                            ELSE [o EXCEPT !.reported = TRUE]
<1>2. Keeps(o, ftp)
  BY PoppedKeeps, KeepsQueues
<1> HIDE DEF o
<1>3. Keeps(p, ftp)
  BY <1>2, KeepsFlags
<1> HIDE DEF p
<1> QED BY <1>1, <1>3, ProceedKeeps DEF o, p

LEMMA FeatKeeps == ASSUME IsObject(ftp), ReadFeat PROVE Keeps(ftp', ftp)
<1>1. PICK code \in Code :
        ftp' = Proceed(Report([Popped(code) EXCEPT !.featXCheck = @ \/ (code = 2 /\ XCheck)],
                              code, 2))
  BY Zenon DEF ReadFeat
<1> DEFINE o == Popped(code)  v == o.featXCheck \/ (code = 2 /\ XCheck)
           p == [o EXCEPT !.featXCheck = v]
<1>2. ftp' = Proceed(Report(p, code, 2))
  BY <1>1, Zenon
<1>3. Keeps(o, ftp)
  BY PoppedKeeps
<1> HIDE DEF o, v
<1>4. Keeps(p, ftp)
  BY <1>3, KeepsFlags
<1> HIDE DEF p
<1> QED BY <1>2, <1>4, ReportKeeps, ProceedKeeps

LEMMA CwdKeeps == ASSUME IsObject(ftp), ReadCwd PROVE Keeps(ftp', ftp)
<1>1. PICK code \in Code :
        LET o == IF code = 2
                 THEN [Popped(code) EXCEPT !.currentWorkingDir = Answered.arg]
                 ELSE Popped(code)
        IN  ftp' = Proceed(IF Answered.then = None THEN o ELSE FtpUploadFile(o, Answered.then))
  BY Zenon DEF ReadCwd
<1> DEFINE o == IF code = 2
                THEN [Popped(code) EXCEPT !.currentWorkingDir = Answered.arg]
                ELSE Popped(code)
           p == IF Answered.then = None THEN o ELSE FtpUploadFile(o, Answered.then)
<1>2. Keeps(o, ftp)
  BY PoppedKeeps, KeepsFlags
<1> HIDE DEF o
<1>3. Keeps(p, ftp)
  BY <1>2, UploadKeeps
<1> HIDE DEF p
<1> QED BY <1>1, <1>3, ProceedKeeps DEF o, p

LEMMA MkdKeeps == ASSUME IsObject(ftp), ReadMkd PROVE Keeps(ftp', ftp)
<1>1. PICK code \in Code :
        ftp' = Proceed(Report([Popped(code) EXCEPT !.trash = <<>>], code, 2))
  BY Zenon DEF ReadMkd
<1> DEFINE o == [Popped(code) EXCEPT !.trash = <<>>]
<1>2. Keeps(o, ftp)
  BY PoppedKeeps, KeepsQueues
<1> HIDE DEF o
<1> QED BY <1>1, <1>2, ReportKeeps, ProceedKeeps DEF o

LEMMA TypeKeeps == ASSUME IsObject(ftp), ReadType PROVE Keeps(ftp', ftp)
<1>1. PICK code \in Code :
        ftp' = Proceed(IF code = 2 THEN [Popped(code) EXCEPT !.transferMode = Answered.arg]
                                   ELSE Report(Popped(code), code, 2))
  BY Zenon DEF ReadType
<1> DEFINE o == IF code = 2 THEN [Popped(code) EXCEPT !.transferMode = Answered.arg]
                            ELSE Report(Popped(code), code, 2)
<1>2. Keeps(o, ftp)
  BY PoppedKeeps, KeepsFlags, ReportKeeps
<1> HIDE DEF o
<1> QED BY <1>1, <1>2, ProceedKeeps DEF o

LEMMA PasvKeeps == ASSUME IsObject(ftp), ReadPasv PROVE Keeps(ftp', ftp)
<1>1. PICK code \in Code :
        ftp' = LET o == Popped(code) IN
               Proceed(IF code # 2 THEN [o EXCEPT !.reported = TRUE]
                       ELSE [o EXCEPT !.data = IF HeadIs(o.queue, Sending)
                                               THEN "busy" ELSE "killed"])
  BY Zenon DEF ReadPasv
<1> DEFINE o == Popped(code)
           d == IF HeadIs(o.queue, Sending) THEN "busy" ELSE "killed"
           p == IF code # 2 THEN [o EXCEPT !.reported = TRUE] ELSE [o EXCEPT !.data = d]
<1>2. Keeps(o, ftp)
  BY PoppedKeeps
<1>3. ftp' = Proceed(p)
  BY <1>1, Zenon
<1> HIDE DEF o, d
<1>4. Keeps(p, ftp)
  BY <1>2, KeepsFlags
<1> HIDE DEF p
<1> QED BY <1>3, <1>4, ProceedKeeps

LEMMA SizeKeeps == ASSUME IsObject(ftp), ReadSize PROVE Keeps(ftp', ftp)
<1>1. PICK code \in Code :
        \E q : ftp' = Proceed(Report([Popped(code) EXCEPT !.queue = q], code, 2))
  BY Zenon DEF ReadSize
<1>2. PICK q : ftp' = Proceed(Report([Popped(code) EXCEPT !.queue = q], code, 2))
  BY <1>1
<1> DEFINE o == [Popped(code) EXCEPT !.queue = q]
<1>3. Keeps(o, ftp)
  BY PoppedKeeps, KeepsQueues
<1> HIDE DEF o
<1> QED BY <1>2, <1>3, ReportKeeps, ProceedKeeps DEF o

LEMMA OtherKeeps == ASSUME IsObject(ftp), ReadOther \/ ReadAborted PROVE Keeps(ftp', ftp)
<1>1. PICK code \in Code : ftp' \in {Proceed(Report(Popped(code), code, 2)),
                                     Proceed(Popped(code))}
  BY Zenon DEF ReadOther, ReadAborted
<1> QED BY <1>1, PoppedKeeps, ReportKeeps, ProceedKeeps

LEMMA EndTransferKeeps == ASSUME IsObject(ftp), EndTransfer PROVE Keeps(ftp', ftp)
<1> DEFINE o == TransferOver(Heard(ftp, 2))  p == [o EXCEPT !.transfer = FALSE]
<1>1. ftp' = Proceed(Cleanup(p, FALSE))
  BY Zenon DEF EndTransfer
<1>2. Keeps(o, ftp)
  BY KeepsRefl, HeardKeeps, TransferOverKeeps
<1> HIDE DEF o
<1>3. Keeps(p, ftp)
  BY <1>2, KeepsFlags
<1> HIDE DEF p
<1> QED BY <1>1, <1>3, CleanupKeeps, ProceedKeeps

LEMMA StartKeeps == ASSUME IsObject(ftp), ReadStart PROVE Keeps(ftp', ftp)
<1>0. SUFFICES ASSUME ~EndTransfer PROVE Keeps(ftp', ftp)
  BY EndTransferKeeps
<1>1. PICK code \in Code :
        LET o == [Heard(ftp, code) EXCEPT !.queue[1] = Accepted(@)]
            p == [TransferOver(o) EXCEPT !.queue = DropChecks(@), !.reported = TRUE,
                                         !.data = Killed(@)]
        IN  ftp' = IF o.data = None THEN Kill(o) ELSE IF code = 1 THEN o ELSE Proceed(p)
  BY <1>0, Zenon DEF ReadStart
<1> DEFINE o == [Heard(ftp, code) EXCEPT !.queue[1] = Accepted(@)]
           p == [TransferOver(o) EXCEPT !.queue = DropChecks(@), !.reported = TRUE,
                                        !.data = Killed(@)]
<1>2. Keeps(o, ftp)
  <2> DEFINE h == Heard(ftp, code)  q == [h.queue EXCEPT ![1] = Accepted(@)]
  <2>1. Keeps(h, ftp)
    BY KeepsRefl, HeardKeeps
  <2>2. o = [h EXCEPT !.queue = q]
    BY Zenon
  <2> HIDE DEF h, q
  <2>3. Keeps([h EXCEPT !.queue = q], ftp)
    BY <2>1, KeepsQueues
  <2> QED BY <2>2, <2>3, Zenon
<1>3. ftp' \in {Kill(o), o, Proceed(p)}
  BY <1>1, Zenon
<1> HIDE DEF o
<1>4. Keeps(p, ftp)
  <2>1. Keeps(TransferOver(o), ftp)
    BY <1>2, TransferOverKeeps
  <2> QED BY <2>1 DEF Keeps, IsObject, Fields
<1> HIDE DEF p
<1> QED BY <1>2, <1>3, <1>4, KillKeeps, ProceedKeeps

LEMMA EndKeeps == ASSUME IsObject(ftp), ReadEnd PROVE Keeps(ftp', ftp)
<1> DEFINE o(c) == TransferOver(Heard(ftp, c))
           r(c) == [o(c) EXCEPT !.reported = TRUE, !.data = Killed(@)]
<1>1. EndTransfer \/ \E c \in Code : ftp' = Proceed(r(c))
  BY Zenon DEF ReadEnd
<1>2. ASSUME NEW c PROVE Keeps(Proceed(r(c)), ftp)
  <2>1. Keeps(o(c), ftp)
    BY KeepsRefl, HeardKeeps, TransferOverKeeps
  <2> HIDE DEF o
  <2>2. Keeps(r(c), ftp)
    BY <2>1 DEF Keeps, IsObject, Fields
  <2> HIDE DEF r
  <2> QED BY <2>2, ProceedKeeps
<1> QED BY <1>1, <1>2, EndTransferKeeps

-----------------------------------------------------------------------------
(* The steps that make a connection, or lose it.                           *)

LEMMA ConnectOp ==
  ASSUME NEW o, IsObject(o)
  PROVE  /\ IsObject(Connect(o)) /\ Connect(o).link = "opening"
         /\ Connect(o).isReconnecting = o.isReconnecting
         /\ Connect(o).legitClose = o.legitClose
         /\ Connect(o).reconnectsLeft = o.reconnectsLeft
<1> DEFINE q == IF HeadIs(o.queue, {"welcome"}) THEN o.queue ELSE <<Bare("welcome")>> \o o.queue
<1>1. Connect(o) = [o EXCEPT !.queue = q, !.timeout = None, !.transfer = FALSE,
                             !.link = "opening", !.wire = <<>>]
  BY Zenon DEF Connect
<1> HIDE DEF q
<1> QED BY <1>1 DEF IsObject, Fields

\* A new connection has all its attempts before it.
LEMMA AnewTimed ==
  ASSUME NEW o, IsObject(o), NEW n \in Nat, Timed(o, n)
  PROVE  IsObject(ConnectAnew(o)) /\ Timed(ConnectAnew(o), n)
<1> DEFINE p == [o EXCEPT !.isReconnecting = FALSE, !.reconnectsLeft = MaxAttempts]
<1>1. /\ IsObject(p) /\ p.isReconnecting = FALSE /\ p.reconnectsLeft = MaxAttempts
      /\ p.legitClose = o.legitClose
  BY DEF IsObject, Fields
<1>2. ConnectAnew(o) = Connect(p)
  BY Zenon DEF ConnectAnew
<1> HIDE DEF p
<1>3. /\ IsObject(Connect(p)) /\ Connect(p).link = "opening"
      /\ Connect(p).isReconnecting = FALSE /\ Connect(p).legitClose = o.legitClose
      /\ Connect(p).reconnectsLeft = MaxAttempts
  BY <1>1, ConnectOp
<1>4. o.legitClose \in BOOLEAN /\ MaxAttempts \in 0..MaxAttempts
  BY MaxAttemptsNat DEF Timed
<1>5. Timed(Connect(p), n)
  BY <1>3, <1>4, TimedIntro
<1> QED BY <1>2, <1>3, <1>5

\* The timer uses an attempt; an orderly client has one left.
LEMMA TimerTimed ==
  ASSUME NEW o, IsObject(o), NEW n \in Nat, NEW m \in Nat, Timed(o, n),
         o.isReconnecting => o.link = None
  PROVE  IsObject(Reconnect(o)) /\ Timed(Reconnect(o), m)
<1>1. CASE o.isReconnecting
  <2> DEFINE p == [o EXCEPT !.reconnectsLeft = @ - 1]
  <2>1. /\ IsObject(p) /\ p.isReconnecting = o.isReconnecting
        /\ p.reconnectsLeft = o.reconnectsLeft - 1 /\ p.legitClose = o.legitClose
    BY DEF IsObject, Fields
  <2>2. Reconnect(o) = Connect(p)
    BY <1>1, Zenon DEF Reconnect
  <2>3. o.reconnectsLeft - 1 \in 0..MaxAttempts
    BY <1>1, MaxAttemptsNat DEF Timed
  <2> HIDE DEF p
  <2>0. o.isReconnecting = TRUE /\ o.legitClose = FALSE
    BY <1>1 DEF Timed
  <2>4. /\ IsObject(Connect(p)) /\ Connect(p).link = "opening"
        /\ Connect(p).isReconnecting = TRUE
        /\ Connect(p).legitClose = FALSE
        /\ Connect(p).reconnectsLeft \in 0..MaxAttempts
    BY <2>0, <2>1, <2>3, ConnectOp
  <2> HIDE DEF MaxAttempts
  <2>5. Timed(Connect(p), m)
    BY <2>4 DEF Timed, None
  <2> QED BY <2>2, <2>4, <2>5
<1>2. CASE ~o.isReconnecting
  BY <1>2 DEF Reconnect, Timed
<1> QED BY <1>1, <1>2

\* A connection that ends leaves a timer and an attempt, or no reconnecting.
LEMMA StoppedTimed ==
  ASSUME NEW o, IsObject(o), NEW n \in Nat, Timed(o, n)
  PROVE  /\ IsObject(Stopped(o))
         /\ Timed(Stopped(o), n + (IF Stopped(o).isReconnecting THEN 1 ELSE 0))
<1> DEFINE v == o.reported \/ ~o.isConnected  w == Killed(o.data)
           p == [o EXCEPT !.reported = v, !.isConnected = FALSE, !.data = w,
                          !.link = None, !.wire = <<>>]
           q == IF HeadIs(p.queue, {"welcome"}) THEN Tail(p.queue) ELSE p.queue
           c == Cleanup(p, FALSE)
           r == [p EXCEPT !.transferMode = "", !.isReconnecting = FALSE, !.queue = q]
           s == [p EXCEPT !.transferMode = "", !.isReconnecting = TRUE]
<1>1. Stopped(o) = IF o.legitClose THEN c ELSE IF o.reconnectsLeft < 1 THEN r ELSE s
  BY Zenon DEF Stopped, Retries
<1> HIDE DEF v, w
<1>2. /\ IsObject(p) /\ p.link = None /\ p.isReconnecting = o.isReconnecting
      /\ p.legitClose = o.legitClose /\ p.reconnectsLeft = o.reconnectsLeft
  BY DEF IsObject, Fields
<1> HIDE DEF p, q
<1>3. /\ IsObject(c) /\ c.link = None /\ c.isReconnecting = o.isReconnecting
      /\ c.legitClose = o.legitClose /\ c.reconnectsLeft = o.reconnectsLeft
  BY <1>2 DEF Cleanup, IsObject, Fields
<1>4. /\ IsObject(r) /\ r.link = None /\ r.isReconnecting = FALSE
      /\ r.legitClose = o.legitClose /\ r.reconnectsLeft = o.reconnectsLeft
  BY <1>2 DEF IsObject, Fields
<1>5. /\ IsObject(s) /\ s.link = None /\ s.isReconnecting = TRUE
      /\ s.legitClose = o.legitClose /\ s.reconnectsLeft = o.reconnectsLeft
  BY <1>2 DEF IsObject, Fields
<1> HIDE DEF c, r, s
<1>6. CASE o.legitClose
  BY <1>1, <1>3, <1>6 DEF Timed, None
<1>7. CASE ~o.legitClose /\ o.reconnectsLeft < 1
  BY <1>1, <1>4, <1>7 DEF Timed, None
<1>8. CASE ~o.legitClose /\ ~(o.reconnectsLeft < 1)
  <2>1. Stopped(o) = s
    BY <1>1, <1>8
  <2>2. o.reconnectsLeft \in 0..MaxAttempts /\ o.reconnectsLeft >= 1 /\ s.legitClose = FALSE
    BY <1>5, <1>8, MaxAttemptsNat DEF Timed
  <2>3. n + 1 \in Nat /\ n + 1 > 0 /\ s.reconnectsLeft >= 1 /\ s.reconnectsLeft \in 0..MaxAttempts
    BY <1>5, <2>2
  <2>4. Timed(s, n + 1)
    BY <1>5, <2>2, <2>3, TimedIntro
  <2> QED BY <1>5, <2>1, <2>4
<1> QED BY <1>6, <1>7, <1>8 DEF Timed

-----------------------------------------------------------------------------
(* Every step.                                                             *)

LEMMA ReadKeeps == ASSUME IsObject(ftp), Read PROVE Keeps(ftp', ftp) /\ UNCHANGED reconnects
<1>1. Keeps(ftp', ftp)
  BY LoginKeeps, PwdKeeps, FeatKeeps, CwdKeeps, MkdKeeps, TypeKeeps, PasvKeeps, SizeKeeps,
     OtherKeeps, StartKeeps, EndKeeps DEF Read
<1>2. UNCHANGED reconnects
  BY Zenon DEF Read, ReadLogin, ReadPwd, ReadFeat, ReadCwd, ReadMkd, ReadType, ReadPasv,
     ReadSize, ReadOther, ReadAborted, ReadStart, ReadEnd, Reads, Reply
<1> QED BY <1>1, <1>2

\* The timers and the user, but for what makes a connection.
LEMMA TimersKeep ==
  ASSUME IsObject(ftp), KeepAliveTimer \/ CheckTimeout \/ CheckDataTimeout \/ DataSent \/ Stop
  PROVE  Keeps(ftp', ftp) /\ UNCHANGED reconnects
<1>1. CASE KeepAliveTimer
  BY <1>1, KeepsRefl, KeepAliveKeeps DEF KeepAliveTimer
<1>2. CASE CheckTimeout
  <2> DEFINE o == [ftp EXCEPT !.timeout = None]
  <2>1. Keeps(o, ftp)
    BY KeepsRefl, KeepsFlags
  <2>2. ftp' \in {ResetConnection(o), o} /\ UNCHANGED reconnects
    BY <1>2, Zenon DEF CheckTimeout
  <2> HIDE DEF o
  <2> QED BY <2>1, <2>2, ResetConnectionKeeps
<1>3. CASE CheckDataTimeout
  <2> DEFINE o == [ftp EXCEPT !.transfer = FALSE]
  <2>1. Keeps(o, ftp)
    BY KeepsRefl, KeepsFlags
  <2>2. ftp' \in {ResetConnection(o), o} /\ UNCHANGED reconnects
    BY <1>3, Zenon DEF CheckDataTimeout
  <2> HIDE DEF o
  <2> QED BY <2>1, <2>2, ResetConnectionKeeps
<1>4. CASE DataSent
  BY <1>4, KeepsRefl, KeepsFlags DEF DataSent
<1>5. CASE Stop
  BY <1>5, KeepsRefl, AbortKeeps DEF Stop
<1> QED BY <1>1, <1>2, <1>3, <1>4, <1>5

LEMMA DropKeeps == ASSUME IsObject(ftp), Drop PROVE Keeps(ftp', ftp) /\ UNCHANGED reconnects
BY KeepsRefl, KillKeeps DEF Drop

\* uploadItem() connects first if it must.
LEMMA UploadTimed ==
  ASSUME IsObject(ftp), reconnects \in Nat, Timed(ftp, reconnects), NEW f, Upload(f)
  PROVE  IsObject(ftp') /\ Timed(ftp', reconnects) /\ UNCHANGED reconnects
<1> DEFINE v == ftp.reported /\ ~ui  o == [ftp EXCEPT !.reported = v]
           c == IF o.isConnected THEN o ELSE ConnectAnew(o)
<1>1. ftp' \in {FtpUploadFile(c, f), ChangeDirThenUpload(c, f)} /\ UNCHANGED reconnects
  BY Zenon DEF Upload
<1>2. Keeps(o, ftp)
  <2> HIDE DEF v
  <2> QED BY KeepsRefl, KeepsFlags
<1> HIDE DEF o, v
<1>3. IsObject(c) /\ Timed(c, reconnects)
  BY <1>2, KeepsTimed, AnewTimed DEF Keeps
<1> HIDE DEF c
<1>4. Keeps(FtpUploadFile(c, f), c) /\ Keeps(ChangeDirThenUpload(c, f), c)
  BY <1>3, KeepsRefl, UploadKeeps
<1>5. Keeps(ftp', c)
  BY <1>1, <1>4
<1> QED BY <1>1, <1>3, <1>5, KeepsTimed DEF Keeps

LEMMA TimedStep == ASSUME TimedInv, Next PROVE TimedInv'
<1>1. IsObject(ftp) /\ reconnects \in Nat /\ Timed(ftp, reconnects)
  BY DEF TimedInv, Next
<1>2. ASSUME Keeps(ftp', ftp), UNCHANGED reconnects PROVE TimedInv'
  BY <1>1, <1>2, KeepsTimed DEF TimedInv, Keeps
<1>3. CASE Read
  BY <1>1, <1>2, <1>3, ReadKeeps
<1>4. CASE ReadWelcome
  BY <1>1, <1>2, <1>4, WelcomeKeeps DEF ReadWelcome
<1>5. CASE ReadUnexpected
  BY <1>1, <1>2, <1>5, UnexpectedKeeps DEF ReadUnexpected
<1>6. CASE KeepAliveTimer \/ CheckTimeout \/ CheckDataTimeout \/ DataSent \/ Stop
  BY <1>1, <1>2, <1>6, TimersKeep
<1>7. CASE Drop
  BY <1>1, <1>2, <1>7, DropKeeps
<1>8. CASE Silence
  BY <1>1, <1>2, <1>8, KeepsRefl DEF Silence
<1>9. CASE \E f \in File : Upload(f)
  BY <1>1, <1>9, UploadTimed DEF TimedInv
<1>10. CASE ReconnectTimer
  <2>1. ftp' = Reconnect(ftp) /\ reconnects' \in Nat
    BY <1>1, <1>10 DEF ReconnectTimer
  <2>2. CASE ftp.isReconnecting => ftp.link = None
    BY <1>1, <2>1, <2>2, TimerTimed DEF TimedInv
  <2>3. CASE ftp.isReconnecting /\ ftp.link # None
    <3>1. Connecting
      BY <1>1, <1>10, <2>3 DEF ReconnectTimer, Connecting, Timed
    <3>2. ~Orderly'
      BY <1>10, <2>3, <3>1 DEF ReconnectTimer, Orderly
    <3>3. IsObject(ftp')
      <4> DEFINE p == [ftp EXCEPT !.reconnectsLeft = @ - 1]
      <4>1. IsObject(p)
        BY <1>1 DEF IsObject, Fields
      <4>2. ftp' = Connect(p)
        BY <2>1, <2>3, Zenon DEF Reconnect
      <4> HIDE DEF p
      <4> QED BY <4>1, <4>2, ConnectOp
    <3> QED BY <2>1, <3>2, <3>3 DEF TimedInv
  <2> QED BY <2>2, <2>3
<1>11. CASE StopRequest
  <2>1. /\ ftp' = Stopped(ftp)
        /\ reconnects' = reconnects + (IF ftp'.isReconnecting THEN 1 ELSE 0)
    BY <1>11 DEF StopRequest
  <2>2. IsObject(ftp') /\ Timed(ftp', reconnects')
    BY <1>1, <2>1, StoppedTimed
  <2>3. reconnects' \in Nat
    BY <1>1, <2>1
  <2> QED BY <2>2, <2>3 DEF TimedInv
<1> QED BY <1>3, <1>4, <1>5, <1>6, <1>7, <1>8, <1>9, <1>10, <1>11
        DEF Next, System, User, Network

LEMMA TimedInit == ASSUME Init PROVE TimedInv
<1>1. IsObject(ftp) /\ reconnects \in Nat
  BY DEF Init, NewClient, IsObject, Fields
<1>2. /\ ftp.link = None /\ ftp.isReconnecting = FALSE /\ ftp.legitClose = TRUE
      /\ ftp.reconnectsLeft = 0
  BY DEF Init, NewClient
<1>3. ftp.reconnectsLeft \in 0..MaxAttempts
  BY <1>2, MaxAttemptsNat
<1>4. Timed(ftp, reconnects)
  BY <1>1, <1>2, <1>3, TimedIntro
<1> QED BY <1>1, <1>4 DEF TimedInv

LEMMA TimedStutter == ASSUME TimedInv, UNCHANGED vars PROVE TimedInv'
BY DEF TimedInv, vars, Timed, Orderly, IsObject

LEMMA TimedInvariant == Spec => []TimedInv
BY TimedInit, TimedStep, TimedStutter, PTL DEF Spec

\* For any files, directories, faults and number of attempts: a client that
\* isReconnecting, and whose connections have not been mixed up, has a timer that
\* will call reconnect() or a connection under way, and has made no more attempts
\* than reconnectAttempts allows since the last greeting: onStopRequest() counts
\* before it waits, and a timer of an earlier connection finds isReconnecting
\* false.
THEOREM ReconnectsInTime == Spec => []ReconnectTimed
<1>1. TimedInv => ReconnectTimed
  BY DEF TimedInv, Timed, ReconnectTimed
<1> QED BY <1>1, TimedInvariant, PTL

-----------------------------------------------------------------------------
(* What is left of an upload in the queue.  The order of the entries does  *)
(* not matter to it: the queue is the set of its entries.                  *)

In(o)     == ToSet(o.queue)
Has(o, C) == \E e \in In(o) : e.cmd \in C

\* Before the commands of an upload are queued there is a CWD whose callback will
\* queue them.  It is not one that writeControl() would skip: until it is sent the
\* client is where the server logged it in, or does not know where.
Calling   == {"welcome", "goodbye", "aborted", "NOOP", "USER", "PASS"}
Asks(e)   == e.cmd = "CWD" /\ e.then # None
Early(e)  == /\ e.cmd \in Calling \cup {"FEAT", "PWD", "CWD"}
             /\ e.cmd = "CWD" => IF e.then = None THEN e.arg = Home ELSE e.arg \notin {Home, ""}
Logs(o) == Has(o, {"PWD"}) \/ (o.legitClose /\ Has(o, LoginCmds))
Approach(o, sv) ==
  /\ \A e \in In(o) : Early(e)
  /\ \E e \in In(o) : Asks(e)
  /\ o.currentWorkingDir \in {"", Home}
  /\ Logs(o) => ~Has(o, {"aborted"}) /\ (o.link \in {"opening", "up"} => sv.dir = Home)

\* The upload goes on, or was dropped with a connection that was not logged in on.
GoesOn(o, sv) == o.reported \/ Has(o, Transfers) \/ Approach(o, sv)
Dropped(o) == /\ o.queue = <<>> /\ o.legitClose /\ o.link = None
              /\ ~o.isConnected /\ ~o.isReconnecting

\* No upload is under way.
Calm(o) == /\ \A e \in In(o) : e.cmd \in Calling
           /\ o.currentWorkingDir = ""
           /\ o.legitClose => ~Has(o, LoginCmds)

Pursuit == /\ ui => Calm(ftp)
           /\ ~ui /\ "welcome" \notin refused => GoesOn(ftp, srv) \/ Dropped(ftp)

LEMMA Entries0 ==
  /\ \A q : q = <<>> => ToSet(q) = {}
  /\ \A e : ToSet(<<e>>) = {e}
BY DEF ToSet

LEMMA EntriesOf ==
  ASSUME NEW S, NEW p \in Seq(S), NEW q \in Seq(S)
  PROVE  /\ ToSet(p \o q) = ToSet(p) \cup ToSet(q)
         /\ q # <<>> => ToSet(q) = {Head(q)} \cup ToSet(Tail(q)) /\ Head(q) \in S /\ Tail(q) \in Seq(S)
         /\ ToSet(q) \subseteq S
<1>1. \A s \in Seq(S) : Len(s) \in Nat /\ DOMAIN s = 1..Len(s)
  OBVIOUS
<1>2. ToSet(p \o q) = ToSet(p) \cup ToSet(q)
  <2>1. /\ p \o q \in Seq(S) /\ Len(p \o q) = Len(p) + Len(q)
        /\ \A i \in 1..Len(p) : (p \o q)[i] = p[i]
        /\ \A i \in (Len(p) + 1)..(Len(p) + Len(q)) : (p \o q)[i] = q[i - Len(p)]
    BY ConcatProperties
  <2>. DEFINE r == p \o q  m == Len(p)  n == Len(q)
  <2>. HIDE DEF r
  <2>2. \A i \in 1..(m + n) : r[i] \in ToSet(p) \cup ToSet(q)
    <3>. SUFFICES ASSUME NEW i \in 1..(m + n) PROVE r[i] \in ToSet(p) \cup ToSet(q)
      OBVIOUS
    <3>1. CASE i \in 1..m
      BY <1>1, <2>1, <3>1 DEF ToSet, r
    <3>2. CASE i \notin 1..m
      <4>1. i \in (m + 1)..(m + n) /\ i - m \in 1..n
        BY <1>1, <3>2
      <4>2. r[i] = q[i - m]
        BY <2>1, <4>1 DEF r
      <4>. QED  BY <1>1, <4>1, <4>2 DEF ToSet
    <3>. QED  BY <3>1, <3>2
  <2>3. \A i \in 1..m : i \in 1..(m + n) /\ r[i] = p[i]
    BY <1>1, <2>1 DEF r
  <2>4. \A i \in 1..n : i + m \in 1..(m + n) /\ r[i + m] = q[i]
    <3>. SUFFICES ASSUME NEW i \in 1..n PROVE i + m \in 1..(m + n) /\ r[i + m] = q[i]
      OBVIOUS
    <3>1. i + m \in (m + 1)..(m + n) /\ (i + m) - m = i /\ i + m \in 1..(m + n)
      BY <1>1
    <3>2. r[i + m] = q[(i + m) - m]
      BY <2>1, <3>1 DEF r
    <3>. QED  BY <3>1, <3>2
  <2>5. DOMAIN r = 1..(m + n) /\ DOMAIN p = 1..m /\ DOMAIN q = 1..n
    BY <1>1, <2>1 DEF r
  <2>6. ToSet(r) \subseteq ToSet(p) \cup ToSet(q)
    <3>. SUFFICES ASSUME NEW x \in ToSet(r) PROVE x \in ToSet(p) \cup ToSet(q)
      OBVIOUS
    <3>1. PICK i \in 1..(m + n) : x = r[i]
      BY <2>5 DEF ToSet
    <3>. QED  BY <2>2, <3>1
  <2>7. ToSet(p) \subseteq ToSet(r) /\ ToSet(q) \subseteq ToSet(r)
    <3>. HIDE DEF m, n
    <3>. QED  BY <2>3, <2>4, <2>5 DEF ToSet
  <2>. QED  BY <2>6, <2>7 DEF r
<1>3. ASSUME q # <<>>
      PROVE  ToSet(q) = {Head(q)} \cup ToSet(Tail(q)) /\ Head(q) \in S /\ Tail(q) \in Seq(S)
  <2>. DEFINE n == Len(q)  t == Tail(q)
  <2>1. /\ n \in Nat \ {0} /\ t \in Seq(S) /\ Len(t) = n - 1 /\ Head(q) \in S
        /\ \A i \in 1..(n - 1) : t[i] = q[i + 1]
        /\ Head(q) = q[1]
    BY <1>3, EmptySeq, HeadTailProperties
  <2>2. DOMAIN q = 1..n /\ DOMAIN t = 1..(n - 1)
    BY <1>1, <2>1
  <2>. HIDE DEF n, t
  <2>3. ASSUME NEW x \in ToSet(q) PROVE x = q[1] \/ x \in ToSet(t)
    <3>1. PICK i \in 1..n : x = q[i]
      BY <2>2 DEF ToSet
    <3>2. CASE i # 1
      <4>1. i - 1 \in 1..(n - 1) /\ (i - 1) + 1 = i
        BY <2>1, <3>2
      <4>2. t[i - 1] = x
        BY <2>1, <3>1, <4>1
      <4>. QED  BY <2>2, <4>1, <4>2 DEF ToSet
    <3>. QED  BY <3>1, <3>2
  <2>4. q[1] \in ToSet(q)
    BY <2>1, <2>2 DEF ToSet
  <2>5. ASSUME NEW x \in ToSet(t) PROVE x \in ToSet(q)
    <3>1. PICK i \in 1..(n - 1) : x = t[i]
      BY <2>2 DEF ToSet
    <3>2. i + 1 \in 1..n /\ q[i + 1] = x
      BY <2>1, <3>1
    <3>. QED  BY <2>2, <3>2 DEF ToSet
  <2>6. ToSet(q) = {Head(q)} \cup ToSet(t)
    BY <2>1, <2>3, <2>4, <2>5
  <2>. QED  BY <2>1, <2>6 DEF t
<1>4. ToSet(q) \subseteq S
  BY <1>1 DEF ToSet
<1>. QED  BY <1>2, <1>3, <1>4

-----------------------------------------------------------------------------
(* The methods that write.                                                 *)

\* o has been written from, and p is what is left.
Follows(p, o) ==
  /\ Alike(p, o) /\ (o.reported => p.reported)
  /\ In(p) \subseteq In(o) /\ \A e \in In(o) \ In(p) : Skipped(o, e)

LEMMA WriteFollows ==
  ASSUME NEW o, IsObject(o), o.queue \in Seq(Queued)
  PROVE  Follows(WriteControl(o), o) /\ WriteControl(o).queue \in Seq(Queued)
<1>. DEFINE q == o.queue  n == Skips(o)  L == Len(q)
            kept == o.trash \o FlattenSeq([i \in 1..n |->
                             IF Redundant(o, q[i]) THEN <<q[i]>> ELSE <<>>])
            rest == SubSeq(q, n + 1, L)
            p == [o EXCEPT !.queue = rest, !.trash = kept]
            w == Write(p, Head(p.queue))
<1>1. WriteControl(o) \in {o, p, w}
  <2>1. Skimmed(o) = p
    BY Zenon DEF Skimmed
  <2>. QED  BY <2>1, WriteControlIs
<1>2. n \in 0..L /\ \A i \in 1..n : Skipped(o, q[i])
  BY SkipsOp
<1>3. rest \in Seq(Queued) /\ Len(rest) = L - n /\ \A i \in 1..(L - n) : rest[i] = q[n + i]
  BY <1>2, PlacedSuffix
<1>4. L \in Nat /\ DOMAIN q = 1..L /\ DOMAIN rest = 1..(L - n)
  BY <1>3
<1>. HIDE DEF kept, n, L, rest
<1>5. ToSet(rest) \subseteq ToSet(q)
  <2>1. \A i \in 1..(L - n) : n + i \in 1..L /\ rest[i] = q[n + i]
    BY <1>2, <1>3, <1>4
  <2>. QED  BY <1>4, <2>1 DEF ToSet
<1>6. ASSUME NEW e \in ToSet(q), e \notin ToSet(rest) PROVE Skipped(o, e)
  <2>1. PICK i \in 1..L : e = q[i]
    BY <1>4 DEF ToSet
  <2>2. CASE i \in 1..n
    BY <1>2, <2>1, <2>2
  <2>3. CASE i \notin 1..n
    <3>1. i - n \in 1..(L - n) /\ n + (i - n) = i
      BY <1>2, <1>4, <2>3
    <3>2. rest[i - n] = q[i]
      BY <1>3, <3>1
    <3>. QED  BY <1>4, <1>6, <2>1, <3>1, <3>2 DEF ToSet
  <2>. QED  BY <2>2, <2>3
<1>7. /\ Alike(p, o) /\ p.reported = o.reported /\ p.queue = rest
      /\ IsObject(p)
  BY DEF Alike, IsObject, Fields
<1>. HIDE DEF p
<1>8. Alike(w, o) /\ (p.reported => w.reported) /\ w.queue = p.queue
  BY <1>7 DEF Write, Alike, IsObject, Fields
<1>. HIDE DEF w
<1>9. Follows(p, o) /\ Follows(w, o)
  BY <1>5, <1>6, <1>7, <1>8 DEF Follows, In
<1>10. Follows(o, o)
  BY DEF Follows, Alike
<1>11. p.queue \in Seq(Queued) /\ w.queue \in Seq(Queued)
  BY <1>3, <1>7, <1>8
<1>. QED  BY <1>1, <1>9, <1>10, <1>11

LEMMA ProceedFollows ==
  ASSUME NEW o, IsObject(o), o.queue \in Seq(Queued)
  PROVE  Follows(Proceed(o), o)
<1>. DEFINE p == [o EXCEPT !.isReady = TRUE]
<1>1. Proceed(o) \in {p, WriteControl(p)}
  BY Zenon DEF Proceed
<1>2. Alike(p, o) /\ p.reported = o.reported /\ p.queue = o.queue /\ IsObject(p)
      /\ p.transferMode = o.transferMode
  BY DEF Alike, IsObject, Fields
<1>. HIDE DEF p
<1>3. Follows(WriteControl(p), p) /\ Follows(p, p)
  BY <1>2, WriteFollows DEF Follows, Alike
<1>4. \A e : Skipped(p, e) => Skipped(o, e)
  BY <1>2 DEF Skipped, Redundant, Alike
<1>. QED  BY <1>1, <1>2, <1>3, <1>4 DEF Follows, Alike, In

\* Neither a transfer nor a CWD that will queue one is skipped.
LEMMA FollowsOn ==
  ASSUME NEW p, NEW o, Follows(p, o)
  PROVE  /\ \A sv : GoesOn(o, sv) => GoesOn(p, sv)
         /\ Calm(o) => Calm(p)
<1>1. \A C : Has(p, C) => Has(o, C)
  BY DEF Follows, Has
<1>2. Has(o, Transfers) => Has(p, Transfers)
  BY DEF Follows, Has, Skipped, Redundant, Transfers, Sending, Sending2
<1>3. ASSUME NEW sv, Approach(o, sv) PROVE Approach(p, sv)
  <2>1. PICK e \in In(o) : Asks(e)
    BY <1>3 DEF Approach
  <2>2. e.arg \notin {Home, ""} /\ o.currentWorkingDir \in {"", Home}
    BY <1>3, <2>1 DEF Approach, Early, Asks
  <2>3. ~Skipped(o, e)
    BY <2>1, <2>2 DEF Skipped, Redundant, Asks
  <2>4. e \in In(p)
    BY <2>3 DEF Follows
  <2>5. Logs(p) => Logs(o)
    BY <1>1 DEF Logs, Follows, Alike
  <2>. QED  BY <1>1, <1>3, <2>1, <2>4, <2>5 DEF Approach, Follows, Alike
<1>. QED  BY <1>1, <1>2, <1>3 DEF GoesOn, Calm, Follows, Alike

-----------------------------------------------------------------------------
(* The replies.                                                            *)

\* What a step keeps, if it neither asks for an upload nor ends one.
Onward == /\ Calm(ftp) => Calm(ftp')
          /\ GoesOn(ftp, srv) => GoesOn(ftp', srv')

LEMMA ProceedOnward ==
  ASSUME NEW o, IsObject(o), o.queue \in Seq(Queued), ftp' = Proceed(o) \/ ftp' = WriteControl(o),
         Calm(ftp) => Calm(o), GoesOn(ftp, srv) => GoesOn(o, srv')
  PROVE  Onward
BY ProceedFollows, WriteFollows, FollowsOn DEF Onward

LEMMA FtpObject ==
  ASSUME NEW F, Well(F)
  PROVE  /\ IsObject(ftp) /\ ftp.queue \in Seq(Queued) /\ F \subseteq File
         /\ ftp.queue \in Seq(Valid(F)) /\ ToSet(ftp.queue) \subseteq Valid(F)
<1>1. ftp \in Client /\ ftp.queue \in Seq(Queued) /\ ftp.queue \in Seq(Valid(F))
  BY HoldingTypes DEF Well
<1>2. IsObject(ftp)
  BY <1>1 DEF Client, IsObject, Fields
<1>3. F \subseteq File
  BY DEF Well, Current, TypeOK
<1>4. ToSet(ftp.queue) \subseteq Valid(F)
  BY <1>1, EntriesOf
<1>. QED  BY <1>1, <1>2, <1>3, <1>4

\* Nothing has changed but the head of the queue.
Beheaded(o) ==
  /\ IsObject(o) /\ o.queue \in Seq(Queued)
  /\ o.queue = Tail(ftp.queue) /\ o.link = ftp.link /\ o.legitClose = ftp.legitClose
  /\ o.currentWorkingDir = ftp.currentWorkingDir /\ o.reported = ftp.reported
  /\ In(ftp) = {Answered} \cup In(o)

LEMMA PoppedBeheads ==
  ASSUME NEW F, Well(F), ftp.queue # <<>>, NEW code PROVE Beheaded(Popped(code))
<1>. DEFINE h == Heard(ftp, code)  d == Discard(h, Head(h.queue))  o == Popped(code)
            wire == IF code = 1 \/ ftp.wire = <<>> THEN ftp.wire ELSE Tail(ftp.wire)
            t == Tail(d.queue)
<1>1. IsObject(ftp) /\ ftp.queue \in Seq(Queued)
  BY FtpObject
<1>2. h = [ftp EXCEPT !.timeout = None, !.wire = wire]
  BY Zenon DEF Heard
<1>. HIDE DEF wire
<1>3. /\ IsObject(h) /\ h.queue = ftp.queue /\ h.link = ftp.link /\ h.legitClose = ftp.legitClose
      /\ h.currentWorkingDir = ftp.currentWorkingDir /\ h.reported = ftp.reported
  BY <1>1, <1>2 DEF IsObject, Fields
<1>. HIDE DEF h
<1>4. /\ IsObject(d) /\ d.queue = ftp.queue /\ d.link = ftp.link /\ d.legitClose = ftp.legitClose
      /\ d.currentWorkingDir = ftp.currentWorkingDir /\ d.reported = ftp.reported
  <2>. DEFINE a == Append(h.trash, Head(h.queue))
  <2>1. d \in {h, [h EXCEPT !.trash = a]}
    BY Zenon DEF Discard
  <2>. HIDE DEF a
  <2>. QED  BY <1>3, <2>1 DEF IsObject, Fields
<1>. HIDE DEF d
<1>5. o = [d EXCEPT !.queue = t]
  BY Zenon DEF Popped, Shifted, d, h
<1>6. t = Tail(ftp.queue)
  BY <1>4
<1>. HIDE DEF t
<1>7. /\ IsObject(o) /\ o.queue = t /\ o.link = ftp.link /\ o.legitClose = ftp.legitClose
      /\ o.currentWorkingDir = ftp.currentWorkingDir /\ o.reported = ftp.reported
  BY <1>4, <1>5 DEF IsObject, Fields
<1>. HIDE DEF o
<1>8. ToSet(ftp.queue) = {Answered} \cup ToSet(t) /\ t \in Seq(Queued)
  BY <1>1, <1>6, EntriesOf DEF Answered
<1>. QED  BY <1>6, <1>7, <1>8 DEF Beheaded, In, o

\* An entry that has been answered and that an upload does not depend on.
LEMMA AnsweredOn ==
  ASSUME NEW p, Beheaded(p), NEW o, IsObject(o), o.queue = p.queue,
         o.legitClose = ftp.legitClose, ftp.reported => o.reported, ftp.link = "up",
         Answered.cmd \notin Transfers, ~Asks(Answered),
         Calm(ftp) => o.currentWorkingDir = "",
         o.reported \/ (Approach(ftp, srv) =>
           /\ o.currentWorkingDir \in {"", Home}
           /\ srv'.dir \in {srv.dir, Home} \/ Answered.cmd = "aborted")
  PROVE  (Calm(ftp) => Calm(o)) /\ (GoesOn(ftp, srv) => GoesOn(o, srv'))
<1>1. In(ftp) = {Answered} \cup In(o) /\ o.queue \in Seq(Queued)
  BY DEF Beheaded, In
<1>2. \A C : Has(o, C) => Has(ftp, C)
  BY <1>1 DEF Has
<1>3. Calm(ftp) => Calm(o)
  BY <1>1, <1>2 DEF Calm
<1>4. Has(ftp, Transfers) => Has(o, Transfers)
  BY <1>1 DEF Has
<1>5. ASSUME Approach(ftp, srv), ~o.reported PROVE Approach(o, srv')
  <2>1. /\ \A e \in In(o) : Early(e)
        /\ \E e \in In(o) : Asks(e)
    BY <1>1, <1>5 DEF Approach
  <2>2. ASSUME Logs(o) PROVE ~Has(o, {"aborted"}) /\ srv'.dir = Home
    <3>1. ~Has(ftp, {"aborted"}) /\ srv.dir = Home
      BY <1>2, <1>5, <2>2 DEF Logs, Approach
    <3>2. Answered.cmd # "aborted"
      BY <1>1, <3>1 DEF Has
    <3>. QED  BY <1>2, <1>5, <3>1, <3>2
  <2>. QED  BY <1>5, <2>1, <2>2 DEF Approach
<1>6. GoesOn(ftp, srv) => GoesOn(o, srv')
  BY <1>4, <1>5 DEF GoesOn
<1>. QED  BY <1>3, <1>6

LEMMA AnsweredOnward ==
  ASSUME NEW p, Beheaded(p), NEW o, IsObject(o), o.queue = p.queue,
         o.legitClose = ftp.legitClose, ftp.reported => o.reported, ftp.link = "up",
         Answered.cmd \notin Transfers, ~Asks(Answered),
         Calm(ftp) => o.currentWorkingDir = "",
         o.reported \/ (Approach(ftp, srv) =>
           /\ o.currentWorkingDir \in {"", Home}
           /\ srv'.dir \in {srv.dir, Home} \/ Answered.cmd = "aborted"),
         ftp' = Proceed(o)
  PROVE  Onward
<1>1. (Calm(ftp) => Calm(o)) /\ (GoesOn(ftp, srv) => GoesOn(o, srv'))
  BY AnsweredOn
<1>2. o.queue \in Seq(Queued)
  BY DEF Beheaded
<1>. QED  BY <1>1, <1>2, ProceedOnward

\* One that is of neither kind of client.
LEMMA LateOnward ==
  ASSUME NEW p, Beheaded(p), NEW o, IsObject(o), o.queue \in Seq(Queued),
         ftp.reported => o.reported, Has(ftp, Transfers) => Has(o, Transfers),
         Answered.cmd \notin Calling \cup {"FEAT", "PWD", "CWD"}, ftp' = Proceed(o)
  PROVE  Onward
<1>1. Answered \in In(ftp)
  BY DEF Beheaded
<1>2. ~Calm(ftp) /\ ~Approach(ftp, srv)
  BY <1>1 DEF Calm, Approach, Early
<1>3. GoesOn(ftp, srv) => GoesOn(o, srv')
  BY <1>2 DEF GoesOn
<1>. QED  BY <1>2, <1>3, ProceedOnward

\* The reply of the command c, which is at the head.
LEMMA Answer ==
  ASSUME NEW F, Well(F), NEW code \in Code, NEW c, Reads(code, {c}), c \notin Sending2 \cup {"aborted"}
  PROVE  /\ Answered = Asked /\ Answered.cmd = c /\ Answered \in In(ftp) /\ Beheaded(Popped(code))
         /\ IsObject(Popped(code)) /\ ftp.link = "up" /\ Reply(code)
         /\ Answered \in Valid(F) /\ F \subseteq File
         /\ srv'.dir = IF c = "CWD" /\ code = 2 THEN Answered.arg ELSE srv.dir
<1>1. Reply(code) /\ Answered = Asked /\ Answered.cmd = c
  <2>1. {c} \cap (Sending2 \cup {"aborted"}) = {}
    OBVIOUS
  <2>. QED  BY <2>1, Answers DEF Reads
<1>2. /\ ftp.link = "up" /\ ftp.queue # <<>> /\ Answered \in Valid(F) /\ F \subseteq File
      /\ srv'.dir = IF c = "CWD" /\ code = 2 THEN Answered.arg ELSE srv.dir
  BY <1>1, ReplyFacts
<1>3. Beheaded(Popped(code))
  BY <1>2, PoppedBeheads
<1>. QED  BY <1>1, <1>2, <1>3 DEF Beheaded

LEMMA ReportIs ==
  ASSUME NEW o, IsObject(o), NEW code, NEW good
  PROVE  LET r == Report(o, code, good)
         IN  /\ IsObject(r) /\ r.queue = o.queue /\ r.legitClose = o.legitClose
             /\ r.currentWorkingDir = o.currentWorkingDir /\ (o.reported => r.reported)
BY DEF Report, IsObject, Fields

LEMMA PwdOnward == ASSUME NEW F, Well(F), ReadPwd PROVE Onward
<1>1. PICK code \in Code : Reads(code, {"PWD"}) /\
        ftp' = LET o == [Popped(code) EXCEPT !.trash = <<>>] IN
               Proceed(IF code = 2 THEN [o EXCEPT !.currentWorkingDir = srv.dir]
                                   ELSE [o EXCEPT !.reported = TRUE])
  BY Zenon DEF ReadPwd
<1>. DEFINE o == Popped(code)  p == [o EXCEPT !.trash = <<>>]
            r == IF code = 2 THEN [p EXCEPT !.currentWorkingDir = srv.dir]
                             ELSE [p EXCEPT !.reported = TRUE]
<1>2. /\ Answered.cmd = "PWD" /\ Answered \in In(ftp) /\ Beheaded(o) /\ IsObject(o)
      /\ ftp.link = "up" /\ srv'.dir = srv.dir /\ ftp' = Proceed(r)
  <2>1. "PWD" \notin Sending2 \cup {"aborted"}
    BY DEF Sending2
  <2>. QED  BY <1>1, <2>1, Answer, Zenon
<1>. HIDE DEF o
<1>3. /\ IsObject(r) /\ r.queue = o.queue /\ r.legitClose = o.legitClose
      /\ r.currentWorkingDir \in {o.currentWorkingDir, srv.dir}
      /\ r.reported = (o.reported \/ code # 2) \/ r.reported = o.reported
      /\ r.reported \/ r.currentWorkingDir = srv.dir
      /\ o.reported => r.reported
  BY <1>2 DEF IsObject, Fields
<1>. HIDE DEF r
<1>4. ~Calm(ftp)
  BY <1>2 DEF Calm, Calling
<1>5. Approach(ftp, srv) => srv.dir = Home
  BY <1>2 DEF Approach, Logs, Has
<1>. QED  BY <1>2, <1>3, <1>4, <1>5, AnsweredOnward DEF Beheaded, Transfers, Sending, Sending2, Asks

\* Replies that are only reported.
LEMMA PlainOnward ==
  ASSUME NEW F, Well(F), NEW code \in Code, NEW c \in {"FEAT", "MKD", "NOOP", "XSHA1"}, Reads(code, {c}),
         NEW r, IsObject(r), r.queue = Popped(code).queue, r.legitClose = Popped(code).legitClose,
         r.currentWorkingDir = Popped(code).currentWorkingDir, Popped(code).reported => r.reported,
         ftp' = Proceed(r)
  PROVE  Onward
<1>1. /\ Answered.cmd = c /\ Beheaded(Popped(code)) /\ ftp.link = "up" /\ srv'.dir = srv.dir
  <2>1. c \notin Sending2 \cup {"aborted"}
    BY DEF Sending2
  <2>. QED  BY <2>1, Answer
<1>2. Calm(ftp) => r.currentWorkingDir = ""
  BY <1>1 DEF Calm, Beheaded
<1>3. Approach(ftp, srv) => r.currentWorkingDir \in {"", Home}
  BY <1>1 DEF Approach, Beheaded
<1>. QED  BY <1>1, <1>2, <1>3, AnsweredOnward DEF Beheaded, Transfers, Sending, Sending2, Asks

LEMMA FeatOnward == ASSUME NEW F, Well(F), ReadFeat PROVE Onward
<1>1. PICK code \in Code : Reads(code, {"FEAT"}) /\
        ftp' = Proceed(Report([Popped(code) EXCEPT !.featXCheck = @ \/ (code = 2 /\ XCheck)],
                              code, 2))
  BY Zenon DEF ReadFeat
<1>. DEFINE o == Popped(code)  v == o.featXCheck \/ (code = 2 /\ XCheck)
            p == [o EXCEPT !.featXCheck = v]  r == Report(p, code, 2)
<1>2. IsObject(o) /\ ftp' = Proceed(r)
  <2>1. "FEAT" \notin Sending2 \cup {"aborted"}
    BY DEF Sending2
  <2>. QED  BY <1>1, <2>1, Answer, Zenon
<1>. HIDE DEF o, v
<1>3. /\ IsObject(p) /\ p.queue = o.queue /\ p.legitClose = o.legitClose
      /\ p.currentWorkingDir = o.currentWorkingDir /\ p.reported = o.reported
  BY <1>2 DEF IsObject, Fields
<1>. HIDE DEF p
<1>4. /\ IsObject(r) /\ r.queue = o.queue /\ r.legitClose = o.legitClose
      /\ r.currentWorkingDir = o.currentWorkingDir /\ (o.reported => r.reported)
  BY <1>3, ReportIs
<1>. HIDE DEF r
<1>. QED  BY <1>1, <1>2, <1>4, PlainOnward DEF o

LEMMA MkdOnward == ASSUME NEW F, Well(F), ReadMkd PROVE Onward
<1>1. PICK code \in Code : Reads(code, {"MKD"}) /\
        ftp' = Proceed(Report([Popped(code) EXCEPT !.trash = <<>>], code, 2))
  BY Zenon DEF ReadMkd
<1>. DEFINE o == Popped(code)  p == [o EXCEPT !.trash = <<>>]  r == Report(p, code, 2)
<1>2. IsObject(o)
  <2>1. "MKD" \notin Sending2 \cup {"aborted"}
    BY DEF Sending2
  <2>. QED  BY <1>1, <2>1, Answer, Zenon
<1>. HIDE DEF o
<1>3. /\ IsObject(p) /\ p.queue = o.queue /\ p.legitClose = o.legitClose
      /\ p.currentWorkingDir = o.currentWorkingDir /\ p.reported = o.reported
  BY <1>2 DEF IsObject, Fields
<1>4. ftp' = Proceed(r)
  BY <1>1 DEF o
<1>. HIDE DEF p
<1>5. /\ IsObject(r) /\ r.queue = o.queue /\ r.legitClose = o.legitClose
      /\ r.currentWorkingDir = o.currentWorkingDir /\ (o.reported => r.reported)
  BY <1>3, ReportIs
<1>. HIDE DEF r
<1>. QED  BY <1>1, <1>4, <1>5, PlainOnward DEF o

LEMMA OtherOnward == ASSUME NEW F, Well(F), ReadOther PROVE Onward
<1>1. PICK code \in Code : Reads(code, {"NOOP", "XSHA1"}) /\ ftp' = Proceed(Report(Popped(code), code, 2))
  BY Zenon DEF ReadOther
<1>2. PICK c \in {"NOOP", "XSHA1"} : Reads(code, {c})
  BY <1>1 DEF Reads, HeadIs
<1>. DEFINE o == Popped(code)  r == Report(o, code, 2)
<1>3. IsObject(o)
  <2>1. c \notin Sending2 \cup {"aborted"}
    BY DEF Sending2
  <2>. QED  BY <1>2, <2>1, Answer, Zenon
<1>. HIDE DEF o
<1>4. /\ IsObject(r) /\ r.queue = o.queue /\ r.legitClose = o.legitClose
      /\ r.currentWorkingDir = o.currentWorkingDir /\ (o.reported => r.reported)
  BY <1>3, ReportIs
<1>5. ftp' = Proceed(r)
  BY <1>1 DEF o
<1>. HIDE DEF r
<1>. QED  BY <1>2, <1>4, <1>5, PlainOnward DEF o

LEMMA AbortedOnward == ASSUME NEW F, Well(F), ReadAborted PROVE Onward
<1>1. PICK code \in Code : Reads(code, {"aborted"}) /\ ftp' = Proceed(Popped(code))
  BY DEF ReadAborted
<1>2. /\ ftp.link = "up" /\ ftp.queue # <<>> /\ Answered.cmd = "aborted" /\ Beheaded(Popped(code))
  BY <1>1, ReplyFacts, PoppedBeheads DEF Reads, HeadIs, Answered
<1>. DEFINE o == Popped(code)
<1>. HIDE DEF o
<1>3. /\ Calm(ftp) => o.currentWorkingDir = ""
      /\ Approach(ftp, srv) => o.currentWorkingDir \in {"", Home}
  BY <1>2 DEF Calm, Approach, Beheaded, o
<1>. QED  BY <1>1, <1>2, <1>3, AnsweredOnward DEF Beheaded, Transfers, Sending, Sending2, Asks, o

LEMMA TypeOnward == ASSUME NEW F, Well(F), ReadType PROVE Onward
<1>1. PICK code \in Code : Reads(code, {"TYPE"}) /\
        ftp' = Proceed(IF code = 2 THEN [Popped(code) EXCEPT !.transferMode = Answered.arg]
                                   ELSE Report(Popped(code), code, 2))
  BY Zenon DEF ReadType
<1>. DEFINE o == Popped(code)
            r == IF code = 2 THEN [o EXCEPT !.transferMode = Answered.arg] ELSE Report(o, code, 2)
<1>2. Answered.cmd = "TYPE" /\ Beheaded(o) /\ ftp' = Proceed(r)
  <2>1. "TYPE" \notin Sending2 \cup {"aborted"}
    BY DEF Sending2
  <2>. QED  BY <1>1, <2>1, Answer, Zenon
<1>. HIDE DEF o
<1>3. IsObject(r) /\ r.queue = o.queue /\ (o.reported => r.reported)
  <2>1. IsObject(o)
    BY <1>2 DEF Beheaded
  <2>2. CASE code = 2
    BY <2>1, <2>2, SMT DEF IsObject, Fields
  <2>3. CASE code # 2
    <3>1. r = Report(o, code, 2)
      BY <2>3
    <3>. QED  BY <2>1, <3>1, ReportIs
  <2>. QED  BY <2>2, <2>3
<1>. HIDE DEF r
<1>4. Has(ftp, Transfers) => Has(r, Transfers)
  BY <1>2, <1>3 DEF Has, Beheaded, In, Transfers, Sending, Sending2
<1>. QED  BY <1>2, <1>3, <1>4, LateOnward DEF Beheaded, Calling

LEMMA PasvOnward == ASSUME NEW F, Well(F), ReadPasv PROVE Onward
<1>1. PICK code \in Code : Reads(code, {"PASV"}) /\
        ftp' = LET o == Popped(code) IN
               Proceed(IF code # 2 THEN [o EXCEPT !.reported = TRUE]
                       ELSE [o EXCEPT !.data = IF HeadIs(o.queue, Sending)
                                               THEN "busy" ELSE "killed"])
  BY Zenon DEF ReadPasv
<1>. DEFINE o == Popped(code)  d == IF HeadIs(o.queue, Sending) THEN "busy" ELSE "killed"
            r == IF code # 2 THEN [o EXCEPT !.reported = TRUE] ELSE [o EXCEPT !.data = d]
<1>2. Answered.cmd = "PASV" /\ Beheaded(o) /\ ftp' = Proceed(r)
  <2>1. "PASV" \notin Sending2 \cup {"aborted"}
    BY DEF Sending2
  <2>. QED  BY <1>1, <2>1, Answer, Zenon
<1>. HIDE DEF o, d
<1>3. IsObject(r) /\ r.queue = o.queue /\ (o.reported => r.reported)
  BY <1>2 DEF Beheaded, IsObject, Fields
<1>. HIDE DEF r
<1>4. Has(ftp, Transfers) => Has(r, Transfers)
  BY <1>2, <1>3 DEF Has, Beheaded, In, Transfers, Sending, Sending2
<1>. QED  BY <1>2, <1>3, <1>4, LateOnward DEF Beheaded, Calling

\* A SIZE may turn a STOR into an APPE, or the other way round.
LEMMA SizeOnward == ASSUME NEW F, Well(F), ReadSize PROVE Onward
<1>1. PICK code \in Code : Reads(code, {"SIZE"}) /\
        LET o == [Popped(code) EXCEPT !.queue =
                    IF code # 2 THEN Rewritten(@, "APPE", "STOR")
                    ELSE IF Answered.then = "STOR" THEN Rewritten(@, "STOR", "APPE") ELSE @]
        IN  ftp' = Proceed(Report(o, code, 2))
  BY Zenon DEF ReadSize
<1>. DEFINE o == Popped(code)  q == o.queue
            w == IF code # 2 THEN Rewritten(q, "APPE", "STOR")
                 ELSE IF Answered.then = "STOR" THEN Rewritten(q, "STOR", "APPE") ELSE q
            p == [o EXCEPT !.queue = w]  r == Report(p, code, 2)
<1>2. Answered.cmd = "SIZE" /\ Beheaded(o) /\ ftp' = Proceed(r) /\ ftp.queue # <<>>
  <2>1. "SIZE" \notin Sending2 \cup {"aborted"}
    BY DEF Sending2
  <2>. QED  BY <1>1, <2>1, Answer, Zenon DEF Reads, HeadIs
<1>3. q \in Seq(Valid(F))
  <2>1. ftp.queue \in Seq(Valid(F)) /\ q = Tail(ftp.queue)
    BY <1>2, FtpObject DEF Beheaded
  <2>. QED  BY <1>2, <2>1, EntriesOf
<1>. HIDE DEF o, q
<1>4. /\ w \in Seq(Valid(F)) /\ Len(w) = Len(q)
      /\ \A k \in 1..Len(q) : \/ w[k].cmd = q[k].cmd
                              \/ w[k].cmd \in Sending /\ q[k].cmd \in Sending
  <2>1. "STOR" \in Sending /\ "APPE" \in Sending
    BY DEF Sending
  <2>. QED  BY <1>3, <2>1, RewrittenOp
<1>5. /\ DOMAIN w = DOMAIN q /\ w \in Seq(Queued)
      /\ \A k \in DOMAIN q : q[k].cmd \in Transfers => w[k].cmd \in Transfers
  <2>1. DOMAIN w = 1..Len(q) /\ DOMAIN q = 1..Len(q)
    BY <1>3, <1>4
  <2>. QED  BY <1>4, <2>1, SeqSubset, Types DEF Transfers
<1>. HIDE DEF w
<1>6. IsObject(p) /\ p.queue = w /\ (o.reported => p.reported)
  BY <1>2 DEF Beheaded, IsObject, Fields
<1>. HIDE DEF p
<1>7. IsObject(r) /\ r.queue = w /\ (o.reported => r.reported)
  BY <1>6, ReportIs
<1>. HIDE DEF r
<1>8. Has(ftp, Transfers) => Has(r, Transfers)
  <2>. SUFFICES ASSUME Has(ftp, Transfers) PROVE Has(r, Transfers)
    OBVIOUS
  <2>1. Has(o, Transfers)
    BY <1>2 DEF Has, Beheaded, Transfers, Sending, Sending2
  <2>2. PICK k \in DOMAIN q : q[k].cmd \in Transfers
    BY <2>1 DEF Has, In, ToSet, q
  <2>. QED  BY <1>5, <1>7, <2>2 DEF Has, In, ToSet
<1>. QED  BY <1>2, <1>5, <1>7, <1>8, LateOnward DEF Beheaded, Calling

LEMMA StorQueued ==
  ASSUME NEW F, F \subseteq File, NEW f \in F, NEW o
  PROVE  \E e \in ToSet(Entries(o, f)) : e.cmd \in Transfers
<1>. DEFINE make == IF DirOf[f] \notin {Root, o.currentWorkingDir} THEN MakeDirectory(DirOf[f]) ELSE <<>>
            a == <<Entry("CWD", DirOf[f], None), Entry("TYPE", "I", None), Bare("PASV"),
                   Entry("STOR", f, None)>>
            b == IF o.featXCheck THEN <<Entry("XSHA1", f, None)>> ELSE <<>>
<1>1. Entries(o, f) = make \o (a \o b)
  BY Zenon DEF Entries, UploadCommands
<1>2. PICK S : a \in Seq(S) /\ b \in Seq(S) /\ make \in Seq(S) /\ a \o b \in Seq(S)
  <2>. DEFINE S == {Entry(c, x, None) : c \in Command, x \in Dir \cup File \cup {"I", None}}
  <2>1. /\ Entry("CWD", DirOf[f], None) \in S /\ Entry("TYPE", "I", None) \in S /\ Bare("PASV") \in S
        /\ Entry("STOR", f, None) \in S /\ Entry("XSHA1", f, None) \in S
        /\ Entry("CWD", Root, None) \in S /\ Entry("MKD", DirOf[f], None) \in S
    BY DirAssumption DEF Bare, Command, Transfers, Sending, Sending2
  <2>. HIDE DEF S
  <2>2. a \in Seq(S)
    BY <2>1
  <2>3. b \in Seq(S)
    BY <2>1
  <2>4. make \in Seq(S)
    BY <2>1 DEF MakeDirectory
  <2>. HIDE DEF a, b, make
  <2>5. a \o b \in Seq(S)
    BY <2>2, <2>3, ConcatProperties
  <2>. QED  BY <2>2, <2>3, <2>4, <2>5
<1>3. Entry("STOR", f, None) \in ToSet(a)
  <2>1. 4 \in DOMAIN a /\ a[4] = Entry("STOR", f, None)
    OBVIOUS
  <2>. HIDE DEF a
  <2>. QED  BY <2>1 DEF ToSet
<1>4. ToSet(Entries(o, f)) = ToSet(make) \cup (ToSet(a) \cup ToSet(b))
  <2>. HIDE DEF a, b, make
  <2>1. ToSet(a \o b) = ToSet(a) \cup ToSet(b)
    BY <1>2, EntriesOf
  <2>. DEFINE c == a \o b
  <2>. HIDE DEF c
  <2>2. c \in Seq(S)
    BY <1>2 DEF c
  <2>3. ToSet(make \o c) = ToSet(make) \cup ToSet(c)
    BY <1>2, <2>2, EntriesOf
  <2>. QED  BY <1>1, <2>1, <2>3, Zenon DEF c
<1>. HIDE DEF a
<1>. QED  BY <1>3, <1>4 DEF Entry, Transfers, Sending

LEMMA AddIs ==
  ASSUME NEW o, IsObject(o), o.queue \in Seq(Queued), NEW s \in Seq(Queued)
  PROVE  \A r \in {Add(o, s), Unshift(o, s)} :
           /\ IsObject(r) /\ r.queue \in Seq(Queued) /\ In(r) = In(o) \cup ToSet(s)
           /\ Alike(r, o) /\ r.reported = o.reported
<1>. DEFINE a == o.queue \o s  b == s \o o.queue
<1>1. /\ a \in Seq(Queued) /\ ToSet(a) = ToSet(o.queue) \cup ToSet(s)
      /\ b \in Seq(Queued) /\ ToSet(b) = ToSet(s) \cup ToSet(o.queue)
  <2>1. ToSet(a) = ToSet(o.queue) \cup ToSet(s)
    BY EntriesOf
  <2>2. ToSet(b) = ToSet(s) \cup ToSet(o.queue)
    BY EntriesOf
  <2>. QED  BY <2>1, <2>2, ConcatProperties
<1>. DEFINE p(q) == [o EXCEPT !.queue = q]
<1>2. Add(o, s) = p(a) /\ Unshift(o, s) = p(b)
  BY Zenon DEF Add, Unshift
<1>. HIDE DEF a, b
<1>3. ASSUME NEW q
      PROVE  IsObject(p(q)) /\ p(q).queue = q /\ Alike(p(q), o) /\ p(q).reported = o.reported
  BY DEF IsObject, Fields, Alike
<1>. HIDE DEF p
<1>. QED  BY <1>1, <1>2, <1>3 DEF In

LEMMA CleanupIs ==
  ASSUME NEW o, IsObject(o), NEW b
  PROVE  LET r == Cleanup(o, b)
         IN  /\ IsObject(r) /\ r.queue = <<>> /\ In(r) = {} /\ r.link = o.link
             /\ r.legitClose = o.legitClose /\ r.isConnected = o.isConnected
             /\ r.isReconnecting = o.isReconnecting /\ r.reported = o.reported
             /\ Calm(r)
<1>. DEFINE r == Cleanup(o, b)
<1>1. /\ IsObject(r) /\ r.queue = <<>> /\ r.currentWorkingDir = "" /\ r.link = o.link
      /\ r.legitClose = o.legitClose /\ r.isConnected = o.isConnected
      /\ r.isReconnecting = o.isReconnecting /\ r.reported = o.reported
  <2>. DEFINE x == o.featXCheck /\ b
  <2>1. r = [o EXCEPT !.queue = <<>>, !.trash = <<>>, !.transferMode = "",
                      !.currentWorkingDir = "", !.featXCheck = x, !.timeout = None,
                      !.transfer = FALSE]
    BY Zenon DEF Cleanup
  <2>. HIDE DEF x, r
  <2>. QED  BY <2>1 DEF IsObject, Fields
<1>. HIDE DEF r
<1>2. In(r) = {}
  BY <1>1, Entries0 DEF In
<1>3. Calm(r)
  BY <1>1, <1>2 DEF Calm, Has
<1>. QED  BY <1>1, <1>2, <1>3 DEF r

LEMMA KillIs ==
  ASSUME NEW o, IsObject(o)
  PROVE  LET r == Kill(o)
         IN  /\ IsObject(r) /\ r.queue = o.queue /\ r.link \in {None, "closing"}
             /\ r.legitClose = o.legitClose /\ r.isConnected = o.isConnected
             /\ r.isReconnecting = o.isReconnecting /\ r.reported = o.reported
             /\ r.currentWorkingDir = o.currentWorkingDir
             /\ o.link = None <=> r.link = None
BY DEF Kill, IsObject, Fields, None

\* A method that keeps the queue, and at most closes the connection.
LEMMA ClosedOn ==
  ASSUME NEW o, NEW r, r.queue = o.queue, r.link \in {o.link, None, "closing"},
         r.legitClose = o.legitClose, r.currentWorkingDir = o.currentWorkingDir,
         o.reported => r.reported
  PROVE  /\ Calm(o) => Calm(r)
         /\ \A sv : GoesOn(o, sv) => GoesOn(r, sv)
BY DEF Calm, GoesOn, Approach, Logs, Has, In, None

LEMMA CwdOnward == ASSUME NEW F, Well(F), ReadCwd PROVE Onward
<1>1. PICK code \in Code : Reads(code, {"CWD"}) /\
        LET o == IF code = 2 THEN [Popped(code) EXCEPT !.currentWorkingDir = Answered.arg]
                             ELSE Popped(code)
        IN  ftp' = Proceed(IF Answered.then = None THEN o ELSE FtpUploadFile(o, Answered.then))
  BY Zenon DEF ReadCwd
<1>. DEFINE p == Popped(code)
            o == IF code = 2 THEN [p EXCEPT !.currentWorkingDir = Answered.arg] ELSE p
<1>2. /\ Answered.cmd = "CWD" /\ Answered \in In(ftp) /\ Beheaded(p) /\ ftp.link = "up"
      /\ srv'.dir = IF code = 2 THEN Answered.arg ELSE srv.dir
      /\ Answered \in Valid(F) /\ F \subseteq File
  <2>1. "CWD" \notin Sending2 \cup {"aborted"}
    BY DEF Sending2
  <2>. QED  BY <1>1, <2>1, Answer
<1>3. ftp' = Proceed(IF Answered.then = None THEN o ELSE FtpUploadFile(o, Answered.then))
  BY <1>1, Zenon
<1>. HIDE DEF p
<1>4. /\ IsObject(o) /\ o.queue = p.queue /\ o.legitClose = p.legitClose /\ o.reported = p.reported
      /\ o.currentWorkingDir \in {p.currentWorkingDir, IF code = 2 THEN Answered.arg ELSE p.currentWorkingDir}
  BY <1>2 DEF Beheaded, IsObject, Fields
<1>. HIDE DEF o
<1>5. ~Calm(ftp)
  BY <1>2 DEF Calm, Calling
<1>6. CASE Answered.then = None
  <2>1. Approach(ftp, srv) => Answered.arg = Home /\ ftp.currentWorkingDir \in {"", Home}
    BY <1>2, <1>6 DEF Approach, Early
  <2>2. Approach(ftp, srv) =>
          o.currentWorkingDir \in {"", Home} /\ srv'.dir \in {srv.dir, Home}
    BY <1>2, <1>4, <2>1 DEF Beheaded
  <2>3. Answered.cmd \notin Transfers /\ ~Asks(Answered)
    BY <1>2, <1>6 DEF Transfers, Sending, Sending2, Asks
  <2>. QED  BY <1>2, <1>3, <1>4, <1>5, <1>6, <2>2, <2>3, AnsweredOnward DEF Beheaded
<1>7. CASE Answered.then # None
  <2>. DEFINE f == Answered.then  s == Entries(o, f)  a == Add(o, s)  r == WriteControl(a)
  <2>1. f \in F
    BY <1>2, <1>7 DEF Valid
  <2>2. s \in Seq(Queued) /\ \E e \in ToSet(s) : e.cmd \in Transfers
    BY <1>2, <2>1, UploadEntries, StorQueued
  <2>3. FtpUploadFile(o, f) = r
    BY UploadIs
  <2>4. ftp' = Proceed(r)
    BY <1>3, <1>7, <2>3
  <2>. HIDE DEF s
  <2>5. IsObject(a) /\ a.queue \in Seq(Queued) /\ In(a) = In(o) \cup ToSet(s)
    BY <1>2, <1>4, <2>2, AddIs DEF Beheaded
  <2>. HIDE DEF a
  <2>6. GoesOn(a, srv')
    BY <2>2, <2>5 DEF GoesOn, Has
  <2>7. GoesOn(r, srv') /\ r.queue \in Seq(Queued) /\ IsObject(r)
    <3>1. Follows(r, a) /\ r.queue \in Seq(Queued)
      BY <2>5, WriteFollows
    <3>2. IsObject(r)
      BY <2>5, KeepsRefl, WriteControlKeeps DEF Keeps
    <3>. HIDE DEF r
    <3>. QED  BY <2>6, <3>1, <3>2, FollowsOn
  <2>. HIDE DEF r
  <2>. QED  BY <1>5, <2>4, <2>7, ProceedOnward
<1>. QED  BY <1>6, <1>7

\* Recovery keeps a transfer, and the rest but for "goodbye".
LEMMA RecoverOn ==
  ASSUME NEW F, F \subseteq File, NEW o \in Holding(F), IsObject(o), Placed(o.queue),
         ~HeadIs(o.queue, {"welcome"}), ~o.legitClose
  PROVE  LET r == RecoverFromDisaster(o)
         IN  /\ IsObject(r) /\ r.queue \in Seq(Queued)
             /\ Calm(o) => Calm(r)
             /\ \A sv : GoesOn(o, sv) => GoesOn(r, sv)
<1>. DEFINE q == IF HeadIs(o.queue, {"goodbye"}) THEN Tail(o.queue) ELSE o.queue
            e == Restarted(Head(q))
            c == Recycled(o.trash, e)
            t == Tail(q)
            u == IF Interrupted(q) THEN c \o <<e>> \o t ELSE q
            d == o.currentWorkingDir
            in == IF d = "" THEN <<>> ELSE <<Entry("CWD", d, None)>>
            w == in \o u
            r == RecoverFromDisaster(o)
<1>1. /\ o.queue \in Seq(Valid(F)) /\ o.trash \in Seq(Keepable(F)) /\ d \in {""} \cup Dir
  <2>1. o \in Client /\ o.queue \in Seq(Valid(F)) /\ o.trash \in Seq(Keepable(F))
    BY HoldingTypes
  <2>. QED  BY <2>1 DEF Client
<1>2. /\ q \in Seq(Valid(F)) /\ ToSet(q) \subseteq ToSet(o.queue)
      /\ \A x \in ToSet(o.queue) \ ToSet(q) : x.cmd = "goodbye"
  <2>1. CASE HeadIs(o.queue, {"goodbye"})
    <3>1. o.queue # <<>> /\ Head(o.queue).cmd = "goodbye"
      BY <2>1 DEF HeadIs
    <3>2. ToSet(o.queue) = {Head(o.queue)} \cup ToSet(Tail(o.queue)) /\ Tail(o.queue) \in Seq(Valid(F))
      BY <1>1, <3>1, EntriesOf
    <3>. QED  BY <2>1, <3>1, <3>2
  <2>2. CASE ~HeadIs(o.queue, {"goodbye"})
    BY <1>1, <2>2
  <2>. QED  BY <2>1, <2>2
<1>3. r = [o EXCEPT !.queue = w, !.currentWorkingDir = "", !.trash = <<>>]
  BY Zenon DEF RecoverFromDisaster
<1>. HIDE DEF w, r, d
<1>4. /\ IsObject(r) /\ r.queue = w /\ r.currentWorkingDir = "" /\ r.link = o.link
      /\ r.legitClose = o.legitClose /\ r.reported = o.reported
  BY <1>3 DEF IsObject, Fields
<1>. HIDE DEF q
<1>5. ASSUME Interrupted(q)
      PROVE  /\ q # <<>> /\ Head(q) \in ToSet(q) /\ Head(q) \in Valid(F) /\ t \in Seq(Valid(F))
             /\ ToSet(q) = {Head(q)} \cup ToSet(t)
             /\ Head(q).cmd \in Transfers \cup {"PASV"} /\ e \in Valid(F)
             /\ Head(q).cmd \in Transfers => e.cmd \in Transfers
  <2>1. q # <<>> /\ Head(q).cmd \in Transfers \cup {"PASV"}
    BY <1>5 DEF Interrupted, HeadIs
  <2>2. ToSet(q) = {Head(q)} \cup ToSet(t) /\ Head(q) \in Valid(F) /\ t \in Seq(Valid(F))
    BY <1>2, <2>1, EntriesOf
  <2>3. \A h \in Valid(F) : h.cmd \in Transfers \cup {"PASV"} =>
          Restarted(h) \in Valid(F) /\ (h.cmd \in Transfers => Restarted(h).cmd \in Transfers)
    BY DEF Restarted, Valid, Queued, Command, Transfers, Sending, Sending2
  <2>. QED  BY <2>1, <2>2, <2>3
<1>6. /\ u \in Seq(Valid(F))
      /\ (\E x \in ToSet(q) : x.cmd \in Transfers) => \E x \in ToSet(u) : x.cmd \in Transfers
  <2>1. CASE Interrupted(q)
    <3>0. e \in Valid(F)
      BY <1>5, <2>1
    <3>. HIDE DEF e
    <3>1. c \in Seq(Valid(F)) /\ <<e>> \in Seq(Valid(F))
      <4>1. <<e>> \in Seq(Valid(F))
        BY <3>0, OneOf
      <4>2. o.trash \in Seq(Keepable(F))
        BY <1>1
      <4>3. c \in Seq(Valid(F))
        BY <3>0, <4>2, RecycledOp
      <4>. QED  BY <4>1, <4>3
    <3>2. ToSet(<<e>>) = {e}
      BY Entries0
    <3>. DEFINE s == <<e>>  g == c \o s
    <3>. HIDE DEF c
    <3>3. ToSet(g) = ToSet(c) \cup {e} /\ g \in Seq(Valid(F))
      <4>1. s \in Seq(Valid(F)) /\ ToSet(s) = {e}
        BY <3>1, <3>2
      <4>. HIDE DEF s
      <4>. QED  BY <3>1, <4>1, EntriesOf, ConcatProperties
    <3>4. ToSet(g \o t) = ToSet(g) \cup ToSet(t) /\ g \o t \in Seq(Valid(F))
      <4>1. g \in Seq(Valid(F)) /\ t \in Seq(Valid(F))
        BY <1>5, <2>1, <3>3
      <4>. HIDE DEF g, t
      <4>. QED  BY <4>1, EntriesOf, ConcatProperties
    <3>5. u = g \o t
      BY <2>1, ConcatAssociative
    <3>. HIDE DEF g, t, u
    <3>. QED  BY <1>5, <2>1, <3>3, <3>4, <3>5
  <2>2. CASE ~Interrupted(q)
    BY <1>2, <2>2
  <2>. QED  BY <2>1, <2>2
<1>7. /\ in \in Seq(Queued) /\ (d = "" => ToSet(in) = {})
      /\ d # "" => ToSet(in) = {Entry("CWD", d, None)}
  <2>1. d # "" => Entry("CWD", d, None) \in Queued
    BY <1>1 DEF Entry, Queued, Command, Arg
  <2>2. PICK x : x = Entry("CWD", d, None)
    OBVIOUS
  <2>3. in = IF d = "" THEN <<>> ELSE <<x>>
    BY <2>2, Zenon
  <2>. HIDE DEF in
  <2>4. CASE d = ""
    <3>1. in = <<>>
      BY <2>3, <2>4
    <3>. QED  BY <2>4, <3>1, NoEntries, Entries0
  <2>5. CASE d # ""
    <3>1. in = <<x>> /\ x \in Queued
      BY <2>1, <2>2, <2>3, <2>5
    <3>2. <<x>> \in Seq(Queued) /\ ToSet(<<x>>) = {x}
      BY <3>1, OneOf, Entries0
    <3>. QED  BY <2>2, <2>5, <3>1, <3>2, Zenon
  <2>. QED  BY <2>4, <2>5
<1>8. w \in Seq(Queued) /\ In(r) = ToSet(in) \cup ToSet(u)
  <2>1. u \in Seq(Queued)
    BY <1>6, SeqSubset, Types
  <2>2. in \in Seq(Queued)
    BY <1>7
  <2>. HIDE DEF in, u
  <2>3. in \o u \in Seq(Queued) /\ ToSet(in \o u) = ToSet(in) \cup ToSet(u)
    BY <2>1, <2>2, EntriesOf, ConcatProperties
  <2>4. w = in \o u
    BY DEF w
  <2>. QED  BY <1>4, <2>3, <2>4, Zenon DEF In
<1>9. Has(o, Transfers) => Has(r, Transfers)
  BY <1>2, <1>6, <1>8 DEF Has, In, Transfers, Sending, Sending2
<1>10. ASSUME \A x \in In(o) : x.cmd \notin Transfers \cup {"PASV"}
       PROVE  /\ In(r) \subseteq In(o) \cup ToSet(in)
              /\ \A x \in In(o) \ In(r) : x.cmd = "goodbye"
  <2>1. ~Interrupted(q)
    BY <1>2, <1>5, <1>10 DEF In
  <2>. QED  BY <1>2, <1>8, <2>1 DEF In
<1>. HIDE DEF in, u
<1>11. Calm(o) => Calm(r)
  <2>. SUFFICES ASSUME Calm(o) PROVE Calm(r)
    OBVIOUS
  <2>1. \A x \in In(o) : x.cmd \notin Transfers \cup {"PASV"}
    BY DEF Calm, Calling, Transfers, Sending, Sending2
  <2>2. In(r) \subseteq In(o)
    BY <1>7, <1>10, <2>1 DEF Calm, d
  <2>. QED  BY <1>4, <2>2 DEF Calm
<1>12. ASSUME NEW sv, Approach(o, sv) PROVE Approach(r, sv)
  <2>1. \A x \in In(o) : x.cmd \notin Transfers \cup {"PASV"}
    BY <1>12 DEF Approach, Early, Calling, Transfers, Sending, Sending2
  <2>2. /\ In(r) \subseteq In(o) \cup ToSet(in)
        /\ \A x \in In(o) \ In(r) : x.cmd = "goodbye"
    BY <1>10, <2>1
  <2>3. \A x \in ToSet(in) : x = Entry("CWD", Home, None)
    BY <1>7, <1>12 DEF Approach, d
  <2>4. /\ Early(Entry("CWD", Home, None)) /\ Entry("CWD", Home, None).cmd = "CWD"
    BY DEF Early, Entry, Calling
  <2>5. \A x \in In(r) : Early(x) /\ (x \notin In(o) => x.cmd = "CWD")
    BY <1>12, <2>2, <2>3, <2>4 DEF Approach
  <2>6. \E x \in In(r) : Asks(x)
    BY <1>12, <2>2 DEF Approach, Asks
  <2>7. (Logs(r) => Logs(o)) /\ (Has(r, {"aborted"}) => Has(o, {"aborted"}))
    BY <1>4, <2>5 DEF Logs, Has, LoginCmds
  <2>. QED  BY <1>4, <1>12, <2>5, <2>6, <2>7 DEF Approach
<1>13. \A sv : GoesOn(o, sv) => GoesOn(r, sv)
  BY <1>4, <1>9, <1>12 DEF GoesOn
<1>. QED  BY <1>4, <1>8, <1>11, <1>13 DEF r

LEMMA LoginOnward == ASSUME NEW F, Well(F), ReadLogin PROVE Onward
<1>1. PICK code \in Code : /\ Reads(code, {"USER", "PASS"})
                           /\ ftp' = CASE code = 2 -> Proceed(LoggedIn(Popped(code)))
                                       [] code = 3 -> Proceed(Unshift(Popped(code), <<Bare("PASS")>>))
                                       [] OTHER    -> Denied(Popped(code))
  BY Zenon DEF ReadLogin
<1>. DEFINE o == Popped(code)
<1>2. PICK c \in {"USER", "PASS"} : Reads(code, {c})
  BY <1>1 DEF Reads, HeadIs
<1>3. /\ Answered.cmd = c /\ Answered \in In(ftp) /\ Beheaded(o) /\ IsObject(o)
      /\ ftp.link = "up" /\ srv'.dir = srv.dir /\ Reply(code) /\ F \subseteq File
  <2>1. c \notin Sending2 \cup {"aborted"} /\ c # "CWD"
    BY DEF Sending2
  <2>. QED  BY <1>2, <2>1, Answer
<1>4. o \in Holding(F) /\ Placed(o.queue) /\ ~HeadIs(o.queue, {"welcome"})
  <2>1. o \in Holding(F) /\ o.queue = Tail(ftp.queue)
    BY <1>3, PoppedOp DEF Forgettable
  <2>2. ftp.queue # <<>> /\ Placed(ftp.queue) /\ ftp.queue \in Seq(Queued)
    BY <1>3, ReplyFacts, FtpObject DEF Arranged
  <2>. QED  BY <2>1, <2>2, PlacedTail
<1>5. (Calm(ftp) => Calm(o)) /\ (GoesOn(ftp, srv) => GoesOn(o, srv'))
  BY <1>3, AnsweredOn DEF Beheaded, Transfers, Sending, Sending2, Asks, Calm, Approach
<1>6. o.legitClose = ftp.legitClose /\ o.queue \in Seq(Queued) /\ In(ftp) = {Answered} \cup In(o)
      /\ o.link = "up"
  BY <1>3 DEF Beheaded
<1>7. Has(ftp, LoginCmds)
  BY <1>3 DEF Has, LoginCmds
<1>8. o.legitClose => ~Calm(ftp) /\ (Approach(ftp, srv) => ~Has(ftp, {"aborted"}) /\ srv.dir = Home)
  BY <1>3, <1>6, <1>7 DEF Calm, Approach, Logs
<1>. HIDE DEF o
<1>9. CASE code = 2 /\ o.legitClose
  <2>. DEFINE s == <<Bare("FEAT"), Bare("PWD")>>
              p == [o EXCEPT !.legitClose = FALSE]  r == Unshift(p, s)
  <2>1. ftp' = Proceed(r)
    <3>1. ftp' = Proceed(LoggedIn(o))
      BY <1>1, <1>9 DEF o
    <3>2. LoggedIn(o) = r
      BY <1>9, Zenon DEF LoggedIn
    <3>. QED  BY <3>1, <3>2
  <2>2. /\ s \in Seq(Queued) /\ ToSet(s) = {Bare("FEAT"), Bare("PWD")}
    BY DEF ToSet, Bare, Entry, Queued, Command, Arg
  <2>. HIDE DEF s
  <2>3. /\ IsObject(p) /\ p.queue = o.queue /\ p.link = o.link /\ p.reported = o.reported
        /\ p.currentWorkingDir = o.currentWorkingDir
    BY <1>3 DEF IsObject, Fields
  <2>. HIDE DEF p
  <2>4. /\ IsObject(r) /\ r.queue \in Seq(Queued) /\ In(r) = In(o) \cup ToSet(s)
        /\ Alike(r, p) /\ r.reported = o.reported
    <3>1. p.queue \in Seq(Queued) /\ In(p) = In(o)
      BY <1>6, <2>3 DEF In
    <3>. QED  BY <2>2, <2>3, <3>1, AddIs
  <2>. HIDE DEF r
  <2>5. Has(o, Transfers) => Has(r, Transfers)
    BY <2>4 DEF Has
  <2>6. ASSUME Approach(ftp, srv), Approach(o, srv') PROVE Approach(r, srv')
    <3>0. \A e \in ToSet(s) : e.cmd \in {"FEAT", "PWD"}
      BY <2>2 DEF Bare, Entry
    <3>1. \A e \in ToSet(s) : Early(e) /\ e.cmd # "aborted"
      BY <3>0 DEF Early
    <3>2. ~Has(o, {"aborted"})
      BY <1>6, <1>8, <1>9, <2>6 DEF Has
    <3>3. ~Has(r, {"aborted"})
      BY <2>4, <3>1, <3>2 DEF Has
    <3>. QED  BY <1>3, <1>8, <1>9, <2>3, <2>4, <2>6, <3>1, <3>3 DEF Approach, Alike
  <2>7. GoesOn(ftp, srv) => GoesOn(r, srv')
    <3>1. Approach(ftp, srv) => Approach(o, srv')
      <4>. SUFFICES ASSUME Approach(ftp, srv) PROVE Approach(o, srv')
        OBVIOUS
      <4>1. /\ \A e \in In(o) : Early(e)
            /\ \E e \in In(o) : Asks(e)
        BY <1>3, <1>6 DEF Approach, Asks
      <4>. QED  BY <1>3, <1>6, <1>8, <1>9, <4>1 DEF Approach, Beheaded, Has
    <3>2. Has(ftp, Transfers) => Has(o, Transfers)
      BY <1>3, <1>6 DEF Has, Transfers, Sending, Sending2
    <3>. QED  BY <1>3, <2>4, <2>5, <2>6, <3>1, <3>2 DEF GoesOn, Beheaded
  <2>. QED  BY <1>8, <1>9, <2>1, <2>4, <2>7, ProceedOnward
<1>10. CASE code = 2 /\ ~o.legitClose
  <2>. DEFINE r == RecoverFromDisaster(o)
  <2>1. ftp' = Proceed(r)
    <3>1. ftp' = Proceed(LoggedIn(o))
      BY <1>1, <1>10 DEF o
    <3>. QED  BY <1>10, <3>1 DEF LoggedIn
  <2>2. /\ IsObject(r) /\ r.queue \in Seq(Queued) /\ (Calm(o) => Calm(r))
        /\ \A sv : GoesOn(o, sv) => GoesOn(r, sv)
    BY <1>3, <1>4, <1>10, RecoverOn
  <2>. HIDE DEF r
  <2>. QED  BY <1>5, <2>1, <2>2, ProceedOnward
<1>11. CASE code = 3
  <2>. DEFINE s == <<Bare("PASS")>>  r == Unshift(o, s)
  <2>1. ftp' = Proceed(r)
    BY <1>1, <1>11 DEF o
  <2>2. s \in Seq(Queued) /\ ToSet(s) = {Bare("PASS")}
    BY Entries0 DEF Bare, Entry, Queued, Command, Arg
  <2>. HIDE DEF s
  <2>3. /\ IsObject(r) /\ r.queue \in Seq(Queued) /\ In(r) = In(o) \cup ToSet(s)
        /\ Alike(r, o) /\ r.reported = o.reported
    BY <1>3, <1>6, <2>2, AddIs
  <2>. HIDE DEF r
  <2>4. \A e \in ToSet(s) : e.cmd = "PASS"
    BY <2>2 DEF Bare, Entry
  <2>5. Calm(ftp) => Calm(r)
    BY <1>5, <1>6, <1>8, <2>3, <2>4 DEF Calm, Calling, Alike
  <2>6. Has(o, Transfers) => Has(r, Transfers)
    BY <2>3 DEF Has
  <2>7. ASSUME Approach(ftp, srv) PROVE Approach(r, srv')
    <3>1. /\ \A e \in In(r) : Early(e) /\ (e.cmd = "aborted" => e \in In(ftp))
                              /\ (e.cmd = "PWD" => e \in In(ftp))
      BY <1>6, <2>3, <2>4, <2>7 DEF Approach, Early, Calling
    <3>2. \E e \in In(r) : Asks(e)
      BY <1>3, <1>6, <2>3, <2>7 DEF Approach, Asks
    <3>3. Logs(r) => Logs(ftp)
      BY <1>6, <1>7, <2>3, <3>1 DEF Logs, Has, Alike
    <3>4. Has(r, {"aborted"}) => Has(ftp, {"aborted"})
      BY <3>1 DEF Has
    <3>. QED  BY <1>3, <1>6, <2>3, <2>7, <3>1, <3>2, <3>3, <3>4 DEF Approach, Alike, Beheaded
  <2>8. GoesOn(ftp, srv) => GoesOn(r, srv')
    <3>1. Has(ftp, Transfers) => Has(o, Transfers)
      BY <1>3, <1>6 DEF Has, Transfers, Sending, Sending2
    <3>. QED  BY <1>3, <2>3, <2>6, <2>7, <3>1 DEF GoesOn, Beheaded
  <2>. QED  BY <2>1, <2>3, <2>5, <2>8, ProceedOnward
<1>12. CASE code \notin {2, 3}
  <2>. DEFINE k == Cleanup(o, FALSE)  p == [k EXCEPT !.reported = TRUE, !.isConnected = FALSE]
  <2>1. ftp' = Kill(p)
    <3>1. ftp' = Denied(o)
      BY <1>1, <1>12 DEF o
    <3>. QED  BY <3>1, Zenon DEF Denied
  <2>2. IsObject(k) /\ k.queue = <<>> /\ Calm(k)
    BY <1>3, CleanupIs
  <2>. HIDE DEF k
  <2>3. /\ IsObject(p) /\ p.reported = TRUE /\ p.queue = k.queue /\ p.link = k.link
        /\ p.legitClose = k.legitClose /\ p.currentWorkingDir = k.currentWorkingDir
    BY <2>2 DEF IsObject, Fields
  <2>. HIDE DEF p
  <2>4. Calm(p)
    BY <2>2, <2>3 DEF Calm, In, Has
  <2>5. Calm(ftp') /\ ftp'.reported
    BY <2>1, <2>3, <2>4, KillIs DEF Calm, In, Has
  <2>. QED  BY <2>5 DEF Onward, GoesOn
<1>. QED  BY <1>9, <1>10, <1>11, <1>12

LEMMA ClientObject ==
  ASSUME NEW F, NEW o \in Holding(F)
  PROVE  /\ IsObject(o) /\ o.queue \in Seq(Queued)
         /\ o.queue # <<>> => Head(o.queue) \in In(o)
<1>1. o \in Client /\ o.queue \in Seq(Queued)
  BY HoldingTypes
<1>2. IsObject(o)
  BY <1>1 DEF Client, IsObject, Fields
<1>. QED  BY <1>1, <1>2, EntriesOf DEF In

LEMMA EndTransferCalms ==
  ASSUME NEW F, Well(F), Reply(2), EndTransfer
  PROVE  ui' = TRUE /\ Calm(ftp')
<1>. DEFINE h == Heard(ftp, 2)  r == TransferOver(h)
            g == [r EXCEPT !.transfer = FALSE]  c == Cleanup(g, FALSE)
<1>1. ftp' = Proceed(c) /\ ui' = TRUE
  BY Zenon DEF EndTransfer
<1>2. ftp.queue # <<>> /\ F \subseteq File /\ 2 \in Code
  BY ReplyFacts DEF Code
<1>3. h \in Holding(F) /\ h.queue = ftp.queue
  BY <1>2, HeardOp
<1>4. IsObject(r)
  <2>. HIDE DEF h
  <2>1. TransferOver(h) \in Holding(F)
    BY <1>2, <1>3, OverOp
  <2>. QED  BY <2>1, ClientObject
<1>. HIDE DEF r
<1>5. IsObject(g)
  BY <1>4 DEF IsObject, Fields
<1>. HIDE DEF g
<1>6. IsObject(c) /\ c.queue = <<>> /\ Calm(c)
  BY <1>5, CleanupIs
<1>. HIDE DEF c
<1>7. c.queue \in Seq(Queued)
  BY <1>6, NoEntries
<1>. QED  BY <1>1, <1>6, <1>7, ProceedFollows, FollowsOn

LEMMA StartOnward ==
  ASSUME NEW F, Well(F), ReadStart
  PROVE  (ui' = TRUE /\ Calm(ftp')) \/ (UNCHANGED ui /\ Onward)
<1>. DEFINE O(c) == [Heard(ftp, c) EXCEPT !.queue[1] = Accepted(@)]
            P(c) == [TransferOver(O(c)) EXCEPT !.queue = DropChecks(@), !.reported = TRUE,
                                               !.data = Killed(@)]
<1>. SUFFICES ASSUME ~(ui' = TRUE /\ Calm(ftp')) PROVE UNCHANGED ui /\ Onward
  OBVIOUS
<1>0. ~(Reply(2) /\ EndTransfer)
  BY EndTransferCalms
<1>1. PICK code \in Code :
        /\ Reads(code, Sending) /\ UNCHANGED ui
        /\ ftp' = IF O(code).data = None THEN Kill(O(code))
                  ELSE IF code = 1 THEN O(code) ELSE Proceed(P(code))
  BY <1>0, Zenon DEF ReadStart, Reads
<1>. DEFINE h == Heard(ftp, code)  o == O(code)  p == P(code)
<1>2. Reply(code) /\ Answered = Asked /\ Answered.cmd \in Sending
  <2>1. Sending \cap (Sending2 \cup {"aborted"}) = {}
    BY DEF Sending, Sending2
  <2>. QED  BY <1>1, <2>1, Answers DEF Reads
<1>3. /\ ftp.link = "up" /\ F \subseteq File /\ ftp.queue # <<>> /\ Arranged(ftp)
      /\ ftp.queue \in Seq(Queued)
  BY <1>2, ReplyFacts, FtpObject
<1>4. ~Calm(ftp) /\ ~Approach(ftp, srv)
  <2>1. Answered \in In(ftp)
    BY <1>3, EntriesOf DEF In, Answered
  <2>. QED  BY <1>2, <2>1 DEF Calm, Approach, Early, Calling, Sending
<1>5. /\ h \in Holding(F) /\ Alike(h, ftp) /\ h.queue = ftp.queue /\ Arranged(h)
      /\ h.wire = IF code = 1 THEN ftp.wire ELSE <<>>
  BY <1>2, <1>3, HeardOp DEF Arranged, Alike
<1>6. h.reported = ftp.reported
  <2>. DEFINE wire == IF code = 1 \/ ftp.wire = <<>> THEN ftp.wire ELSE Tail(ftp.wire)
  <2>1. h = [ftp EXCEPT !.timeout = None, !.wire = wire]
    BY Zenon DEF Heard
  <2>. HIDE DEF wire, h
  <2>2. ftp \in Client
    BY <1>2, ReplyFacts
  <2>. QED  BY <2>1, <2>2 DEF Client
<1>. HIDE DEF h
<1>7. o = [h EXCEPT !.queue[1] = Accepted(@)]
  BY Zenon DEF h
<1>8. p = [TransferOver(o) EXCEPT !.queue = DropChecks(@), !.reported = TRUE, !.data = Killed(@)]
  BY Zenon
<1>9. ftp' = IF o.data = None THEN Kill(o) ELSE IF code = 1 THEN o ELSE Proceed(p)
  BY <1>1, Zenon
<1>. HIDE DEF O, P
<1>10. /\ o \in Holding(F) /\ Alike(o, ftp) /\ o.wire = h.wire /\ o.queue # <<>>
       /\ Head(o.queue).cmd \in Sending2 /\ Arranged(o)
  <2>1. Head(h.queue).cmd \in Sending /\ h.queue # <<>>
    BY <1>2, <1>3, <1>5 DEF Answered
  <2>. DEFINE r == [h EXCEPT !.queue[1] = Accepted(@)]
  <2>2. /\ r \in Holding(F) /\ Alike(r, h) /\ r.wire = h.wire /\ r.queue # <<>>
        /\ Head(r.queue).cmd \in Sending2
        /\ Arranged(h) => Arranged(r)
    BY <1>5, <2>1, AcceptedOp
  <2>3. o = r
    BY <1>7
  <2>. HIDE DEF r, o
  <2>. QED  BY <1>5, <2>2, <2>3 DEF Alike
<1>. HIDE DEF o
<1>11. /\ IsObject(o) /\ o.queue \in Seq(Queued) /\ Head(o.queue) \in In(o)
       /\ Has(o, Transfers)
  BY <1>10, ClientObject DEF Has, Transfers
<1>12. CASE o.data = None
  <2>1. ftp' = Kill(o) /\ ftp'.queue = o.queue
    BY <1>9, <1>11, <1>12, KillIs
  <2>2. Has(ftp', Transfers)
    BY <1>11, <2>1 DEF Has, In
  <2>. QED  BY <1>1, <1>4, <2>2 DEF Onward, GoesOn
<1>13. CASE o.data # None /\ code = 1
  BY <1>1, <1>4, <1>9, <1>11, <1>13 DEF Onward, GoesOn
<1>14. CASE o.data # None /\ code # 1
  <2>. DEFINE r == TransferOver(o)  t == DropChecks(r.queue)  d == Killed(r.data)
  <2>1. Startable(r, F)
    BY <1>3, <1>5, <1>10, <1>14, OverStartable DEF Transfers
  <2>. HIDE DEF r
  <2>2. t \in Seq(Queued)
    <3>1. r.queue \in Seq(Valid(F)) /\ Seq(Valid(F)) \subseteq Seq(Queued)
      BY <2>1, HoldingTypes, SeqSubset, Types DEF Startable
    <3>. QED  BY <2>1, <3>1, DropChecksOp DEF Startable, Arranged
  <2>3. IsObject(r)
    BY <2>1, ClientObject DEF Startable
  <2>4. p = [r EXCEPT !.queue = t, !.reported = TRUE, !.data = d]
    BY <1>8, Zenon DEF r
  <2>. HIDE DEF p, t, d
  <2>5. IsObject(p) /\ p.queue = t /\ p.reported = TRUE
    BY <2>3, <2>4 DEF IsObject, Fields
  <2>6. ftp' = Proceed(p)
    BY <1>9, <1>14
  <2>7. GoesOn(p, srv')
    BY <2>5 DEF GoesOn
  <2>. QED  BY <1>1, <1>4, <2>2, <2>5, <2>6, <2>7, ProceedOnward
<1>. QED  BY <1>12, <1>13, <1>14

LEMMA EndOnward ==
  ASSUME NEW F, Well(F), ReadEnd
  PROVE  (ui' = TRUE /\ Calm(ftp')) \/ (UNCHANGED ui /\ Onward)
<1>. SUFFICES ASSUME ~(ui' = TRUE /\ Calm(ftp')) PROVE UNCHANGED ui /\ Onward
  OBVIOUS
<1>0. ~(Reply(2) /\ EndTransfer)
  BY EndTransferCalms
<1>. DEFINE q(c) == Heard(ftp, c)  o(c) == TransferOver(q(c))
            e(c) == [o(c) EXCEPT !.reported = TRUE, !.data = Killed(@)]
<1>1. PICK code \in Code : Reads(code, Sending2) /\ ftp' = Proceed(e(code)) /\ UNCHANGED ui
  BY <1>0, Zenon DEF ReadEnd, Reads
<1>2. Reply(code) /\ Answered.cmd \in Sending2
  BY <1>1 DEF Reads, HeadIs, Answered
<1>3. ftp.queue # <<>> /\ ftp.queue \in Seq(Queued)
  BY <1>2, ReplyFacts, FtpObject
<1>4. ~Calm(ftp)
  <2>1. Answered \in In(ftp)
    BY <1>3, EntriesOf DEF In, Answered
  <2>. QED  BY <1>2, <2>1 DEF Calm, Calling, Sending2
<1>. DEFINE h == q(code)  r == o(code)
<1>5. h \in Holding(F) /\ h.queue = ftp.queue
  BY <1>2, HeardOp
<1>6. IsObject(r) /\ r.queue \in Seq(Queued)
  <2>1. TransferOver(h) \in Holding(F)
    <3>. HIDE DEF q
    <3>. QED  BY <1>3, <1>5, OverOp
  <2>. QED  BY <2>1, ClientObject
<1>. HIDE DEF o
<1>. DEFINE d == Killed(r.data)  c == [r EXCEPT !.reported = TRUE, !.data = d]
<1>7. ftp' = Proceed(c) /\ UNCHANGED ui
  BY <1>1, Zenon
<1>. HIDE DEF d
<1>8. IsObject(c) /\ c.queue = r.queue /\ c.reported = TRUE
  BY <1>6 DEF IsObject, Fields
<1>. HIDE DEF c
<1>9. GoesOn(c, srv')
  BY <1>8 DEF GoesOn
<1>. QED  BY <1>4, <1>6, <1>7, <1>8, <1>9, ProceedOnward

\* Any reply.
LEMMA ReadOnward ==
  ASSUME NEW F, Well(F), Read
  PROVE  /\ (ui' = TRUE /\ Calm(ftp')) \/ (UNCHANGED ui /\ Onward)
         /\ refused \subseteq refused' /\ ftp.link = "up"
<1>2. \E code \in Code : Reply(code)
  BY DEF Read, ReadLogin, ReadPwd, ReadFeat, ReadCwd, ReadMkd, ReadType, ReadPasv, ReadSize,
     ReadOther, ReadAborted, ReadStart, ReadEnd, Reads
<1>3. refused \subseteq refused' /\ ftp.link = "up"
  BY <1>2 DEF Reply
<1>1. CASE ReadEnd \/ ReadStart
  BY <1>1, <1>3, EndOnward, StartOnward
<1>4. CASE ~(ReadEnd \/ ReadStart)
  <2>1. UNCHANGED ui
    BY <1>4, Zenon DEF Read, ReadLogin, ReadPwd, ReadFeat, ReadCwd, ReadMkd, ReadType, ReadPasv,
       ReadSize, ReadOther, ReadAborted
  <2>2. Onward
    BY <1>4, LoginOnward, PwdOnward, FeatOnward, CwdOnward, MkdOnward, TypeOnward, PasvOnward,
       SizeOnward, OtherOnward, AbortedOnward DEF Read
  <2>. QED  BY <1>3, <2>1, <2>2
<1>. QED  BY <1>1, <1>3, <1>4

-----------------------------------------------------------------------------
(* The other steps.                                                        *)

\* What a step does to Pursuit, if the user has no part in it.
Passes ==
  /\ UNCHANGED ui /\ refused \subseteq refused'
  /\ Calm(ftp) => Calm(ftp')
  /\ \/ GoesOn(ftp, srv) \/ Dropped(ftp) => GoesOn(ftp', srv') \/ Dropped(ftp')
     \/ "welcome" \in refused'

LEMMA PassesOn == ASSUME Pursuit, Passes PROVE Pursuit'
BY DEF Pursuit, Passes

LEMMA OnwardPasses ==
  ASSUME UNCHANGED ui, refused \subseteq refused', Onward, ~Dropped(ftp) PROVE Passes
BY DEF Passes, Onward

LEMMA WelcomePasses == ASSUME NEW F, Well(F), ReadWelcome PROVE Passes
<1>. DEFINE p == Popped(2)  o == [Popped(2) EXCEPT !.link = "up"]
<1>1. /\ ftp.link = "opening" /\ HeadIs(ftp.queue, {"welcome"}) /\ UNCHANGED ui
      /\ \/ /\ ftp' = Proceed(Greeted(o))
            /\ UNCHANGED <<srv, refused>>
         \/ /\ refused' = refused \cup {"welcome"}
            /\ ftp' = Proceed(Cleanup(o, FALSE))
  BY Zenon DEF ReadWelcome, app
<1>2. ftp.queue # <<>> /\ Answered.cmd = "welcome" /\ ~Dropped(ftp)
  BY <1>1 DEF HeadIs, Answered, Dropped, None
<1>3. Beheaded(p)
  BY <1>2, PoppedBeheads
<1>. HIDE DEF p
<1>4. /\ IsObject(o) /\ o.queue = p.queue /\ o.legitClose = p.legitClose
      /\ o.currentWorkingDir = p.currentWorkingDir /\ o.reported = p.reported
  <2>1. IsObject(p)
    BY <1>3 DEF Beheaded
  <2>. QED  BY <2>1 DEF IsObject, Fields, p
<1>. HIDE DEF o
<1>5. In(ftp) = {Answered} \cup In(o) /\ o.queue \in Seq(Queued) /\ Answered \in In(ftp)
  BY <1>3, <1>4 DEF Beheaded, In
<1>6. CASE ftp' = Proceed(Greeted(o)) /\ UNCHANGED <<srv, refused>>
  <2>. DEFINE g == [o EXCEPT !.isConnected = TRUE, !.isReconnecting = FALSE,
                             !.reconnectsLeft = MaxAttempts]
              s == <<Bare("USER")>>  r == Unshift(g, s)
  <2>1. /\ IsObject(g) /\ g.queue = o.queue /\ g.legitClose = o.legitClose
        /\ g.currentWorkingDir = o.currentWorkingDir /\ g.reported = o.reported
    BY <1>4 DEF IsObject, Fields
  <2>2. Greeted(o) = r
    BY Zenon DEF Greeted
  <2>. HIDE DEF g
  <2>3. s \in Seq(Queued) /\ ToSet(s) = {Bare("USER")}
    BY Entries0 DEF Bare, Entry, Queued, Command, Arg
  <2>. HIDE DEF s
  <2>4. /\ IsObject(r) /\ r.queue \in Seq(Queued) /\ In(r) = In(o) \cup ToSet(s)
        /\ Alike(r, g) /\ r.reported = o.reported
    <3>1. g.queue \in Seq(Queued) /\ In(g) = In(o)
      BY <1>5, <2>1 DEF In
    <3>. QED  BY <2>1, <2>3, <3>1, AddIs
  <2>. HIDE DEF r
  <2>5. /\ r.legitClose = ftp.legitClose /\ r.currentWorkingDir = ftp.currentWorkingDir
        /\ r.reported = ftp.reported
    BY <1>3, <1>4, <2>1, <2>4 DEF Alike, Beheaded
  <2>6. \A e \in In(r) : e \in In(ftp) \/ e.cmd = "USER"
    BY <1>5, <2>3, <2>4 DEF Bare, Entry
  <2>7. \A e \in In(ftp) : e \in In(r) \/ e.cmd = "welcome"
    BY <1>2, <1>5, <2>4
  <2>8. Has(ftp, LoginCmds)
    BY <1>2, <1>5 DEF Has, LoginCmds
  <2>9. Calm(ftp) => Calm(r)
    BY <2>5, <2>6, <2>8 DEF Calm, Calling
  <2>10. ASSUME Approach(ftp, srv) PROVE Approach(r, srv')
    <3>1. \A e \in In(r) : Early(e)
      BY <2>6, <2>10 DEF Approach, Early, Calling
    <3>2. \E e \in In(r) : Asks(e)
      BY <2>7, <2>10 DEF Approach, Asks
    <3>3. Logs(r) => Logs(ftp)
      BY <2>5, <2>6, <2>8 DEF Logs, Has
    <3>4. Has(r, {"aborted"}) => Has(ftp, {"aborted"})
      BY <2>6 DEF Has
    <3>. QED  BY <1>1, <1>6, <2>5, <2>10, <3>1, <3>2, <3>3, <3>4 DEF Approach
  <2>11. Has(ftp, Transfers) => Has(r, Transfers)
    BY <2>7 DEF Has, Transfers, Sending, Sending2
  <2>12. Onward
    BY <1>6, <2>2, <2>4, <2>5, <2>9, <2>10, <2>11, ProceedOnward DEF GoesOn
  <2>. QED  BY <1>1, <1>2, <1>6, <2>12, OnwardPasses
<1>7. CASE refused' = refused \cup {"welcome"} /\ ftp' = Proceed(Cleanup(o, FALSE))
  <2>. DEFINE c == Cleanup(o, FALSE)
  <2>1. IsObject(c) /\ c.queue = <<>> /\ Calm(c)
    BY <1>4, CleanupIs
  <2>. HIDE DEF c
  <2>2. c.queue \in Seq(Queued)
    BY <2>1, NoEntries
  <2>3. Calm(ftp')
    BY <1>7, <2>1, <2>2, ProceedFollows, FollowsOn DEF c
  <2>. QED  BY <1>1, <1>7, <2>3 DEF Passes
<1>. QED  BY <1>1, <1>6, <1>7

\* With nothing in the queue an upload goes on only if an error was reported.
LEMMA NothingQueued ==
  ASSUME NEW o, o.queue = <<>>, NEW sv PROVE In(o) = {} /\ (GoesOn(o, sv) => o.reported)
<1>1. In(o) = {}
  BY Entries0 DEF In
<1>. QED  BY <1>1 DEF GoesOn, Has, Approach

LEMMA UnexpectedPasses == ASSUME NEW F, Well(F), ReadUnexpected PROVE Passes
<1>. DEFINE wire == IF 2 = 1 \/ ftp.wire = <<>> THEN ftp.wire ELSE Tail(ftp.wire)
            h == Heard(ftp, 2)  r == [h EXCEPT !.link = "up", !.isReady = TRUE]
<1>1. ftp.link = "opening" /\ ftp.queue = <<>> /\ ftp' = r /\ UNCHANGED <<ui, refused>>
  BY Zenon DEF ReadUnexpected, net, app
<1>2. h = [ftp EXCEPT !.timeout = None, !.wire = wire] /\ IsObject(ftp)
  BY Zenon, FtpObject DEF Heard
<1>. HIDE DEF wire
<1>3. /\ r.queue = ftp.queue /\ r.legitClose = ftp.legitClose /\ r.reported = ftp.reported
      /\ r.currentWorkingDir = ftp.currentWorkingDir
  BY <1>2 DEF IsObject, Fields
<1>. HIDE DEF r
<1>4. Calm(ftp) => Calm(ftp')
  BY <1>1, <1>3 DEF Calm, In, Has
<1>5. GoesOn(ftp, srv) => GoesOn(ftp', srv')
  BY <1>1, <1>3, NothingQueued DEF GoesOn
<1>. QED  BY <1>1, <1>4, <1>5 DEF Passes, Dropped, None

LEMMA KeepAlivePasses == ASSUME NEW F, Well(F), KeepAliveTimer PROVE Passes
<1>. DEFINE s == <<Bare("NOOP")>>  a == Add(ftp, s)
<1>1. /\ ftp.isConnected /\ ftp.queue = <<>> /\ ftp' = WriteControl(a)
      /\ UNCHANGED <<ui, refused>>
  BY Zenon DEF KeepAliveTimer, KeepAlive, net, app
<1>2. s \in Seq(Queued) /\ ToSet(s) = {Bare("NOOP")}
  BY Entries0 DEF Bare, Entry, Queued, Command, Arg
<1>. HIDE DEF s
<1>3. /\ IsObject(a) /\ a.queue \in Seq(Queued) /\ In(a) = In(ftp) \cup ToSet(s)
      /\ Alike(a, ftp) /\ a.reported = ftp.reported
  BY <1>2, FtpObject, AddIs
<1>. HIDE DEF a
<1>4. \A e \in In(a) : e.cmd = "NOOP"
  BY <1>1, <1>2, <1>3, NothingQueued DEF Bare, Entry
<1>5. Calm(ftp) => Calm(a)
  BY <1>3, <1>4 DEF Calm, Calling, Alike, Has, LoginCmds
<1>6. GoesOn(ftp, srv) => GoesOn(a, srv')
  BY <1>1, <1>3, NothingQueued DEF GoesOn
<1>7. Onward
  BY <1>1, <1>3, <1>5, <1>6, ProceedOnward
<1>. QED  BY <1>1, <1>7, OnwardPasses DEF Dropped

\* What is reset only loses its connection.
LEMMA ResetOn ==
  ASSUME NEW o, IsObject(o), o.queue \in Seq(Queued)
  PROVE  LET r == ResetConnection(o)
         IN  /\ Calm(o) => Calm(r)
             /\ \A sv, sw : GoesOn(o, sv) => GoesOn(r, sw)
<1>. DEFINE s == <<Bare("goodbye")>>
            w == o.twice \/ HeadIs(o.queue, {"goodbye"})
            g == [o EXCEPT !.legitClose = FALSE, !.twice = w]
            p == Unshift(g, s)
            q == IF p.isReady THEN Write(p, Bare("QUIT")) ELSE p
            d == Killed(q.data)
            k == [q EXCEPT !.data = d]
            r == ResetConnection(o)
<1>1. r = Kill(k)
  BY Zenon DEF ResetConnection
<1>. HIDE DEF r, w
<1>2. /\ IsObject(g) /\ g.queue = o.queue /\ g.legitClose = FALSE
      /\ g.currentWorkingDir = o.currentWorkingDir /\ g.reported = o.reported
  BY DEF IsObject, Fields
<1>. HIDE DEF g
<1>3. s \in Seq(Queued) /\ ToSet(s) = {Bare("goodbye")}
  BY Entries0 DEF Bare, Entry, Queued, Command, Arg
<1>. HIDE DEF s
<1>4. /\ IsObject(p) /\ In(p) = In(o) \cup ToSet(s) /\ Alike(p, g) /\ p.reported = o.reported
  <2>1. g.queue \in Seq(Queued) /\ In(g) = In(o)
    BY <1>2 DEF In
  <2>. QED  BY <1>2, <1>3, <2>1, AddIs
<1>. HIDE DEF p
<1>5. /\ IsObject(q) /\ q.queue = p.queue /\ q.legitClose = p.legitClose
      /\ q.currentWorkingDir = p.currentWorkingDir /\ (p.reported => q.reported)
  BY <1>4 DEF Write, IsObject, Fields
<1>. HIDE DEF q, d
<1>6. /\ IsObject(k) /\ k.queue = q.queue /\ k.legitClose = q.legitClose
      /\ k.currentWorkingDir = q.currentWorkingDir /\ k.reported = q.reported
  BY <1>5 DEF IsObject, Fields
<1>. HIDE DEF k
<1>7. /\ In(r) = In(o) \cup ToSet(s) /\ r.legitClose = FALSE /\ r.link \in {None, "closing"}
      /\ r.currentWorkingDir = o.currentWorkingDir /\ (o.reported => r.reported)
  BY <1>1, <1>2, <1>4, <1>5, <1>6, KillIs DEF In, Alike
<1>8. \A e \in In(r) : e \in In(o) \/ e.cmd = "goodbye"
  BY <1>3, <1>7 DEF Bare, Entry
<1>9. Calm(o) => Calm(r)
  BY <1>7, <1>8 DEF Calm, Calling
<1>10. ASSUME NEW sv, NEW sw, Approach(o, sv) PROVE Approach(r, sw)
  <2>1. \A e \in In(r) : Early(e)
    BY <1>8, <1>10 DEF Approach, Early, Calling
  <2>2. \E e \in In(r) : Asks(e)
    BY <1>7, <1>10 DEF Approach
  <2>3. (Logs(r) => Logs(o)) /\ (Has(r, {"aborted"}) => Has(o, {"aborted"}))
    BY <1>7, <1>8 DEF Logs, Has
  <2>. QED  BY <1>7, <1>10, <2>1, <2>2, <2>3 DEF Approach, None
<1>11. Has(o, Transfers) => Has(r, Transfers)
  BY <1>7 DEF Has
<1>. QED  BY <1>7, <1>9, <1>10, <1>11 DEF GoesOn, r

\* A method that changes nothing of what matters.
Like(r, o) ==
  /\ r.queue = o.queue /\ r.link = o.link /\ r.legitClose = o.legitClose
  /\ r.currentWorkingDir = o.currentWorkingDir /\ r.reported = o.reported
  /\ r.isConnected = o.isConnected /\ r.isReconnecting = o.isReconnecting

LEMMA LikeOn ==
  ASSUME NEW r, NEW o, Like(r, o)
  PROVE  /\ Calm(o) => Calm(r)
         /\ Dropped(o) => Dropped(r)
         /\ \A sv, sw : sv.dir = sw.dir /\ GoesOn(o, sv) => GoesOn(r, sw)
<1>1. In(r) = In(o) /\ \A C : Has(r, C) <=> Has(o, C)
  BY DEF In, Like, Has
<1>2. ASSUME NEW sv, NEW sw, sv.dir = sw.dir, Approach(o, sv) PROVE Approach(r, sw)
  BY <1>1, <1>2 DEF Approach, Logs, Like
<1>. QED  BY <1>1, <1>2 DEF Calm, Dropped, GoesOn, Like

LEMMA TimeoutPasses ==
  ASSUME NEW F, Well(F), CheckTimeout \/ CheckDataTimeout PROVE Passes
<1>1. IsObject(ftp) /\ ftp.queue \in Seq(Queued)
  BY FtpObject
<1>2. PICK o : /\ IsObject(o) /\ Like(o, ftp) /\ UNCHANGED <<ui, refused, srv>>
               /\ ftp' = o \/ (ftp' = ResetConnection(o) /\ o.isConnected)
  <2>1. CASE CheckTimeout
    <3>. DEFINE o == [ftp EXCEPT !.timeout = None]
    <3>1. IsObject(o) /\ Like(o, ftp)
      BY <1>1 DEF IsObject, Fields, Like
    <3>2. /\ UNCHANGED <<ui, refused, srv>>
          /\ ftp' = o \/ (ftp' = ResetConnection(o) /\ o.isConnected)
      BY <2>1, Zenon DEF CheckTimeout, app, net
    <3>. HIDE DEF o
    <3>. QED  BY <3>1, <3>2
  <2>2. CASE CheckDataTimeout
    <3>. DEFINE o == [ftp EXCEPT !.transfer = FALSE]
    <3>1. IsObject(o) /\ Like(o, ftp)
      BY <1>1 DEF IsObject, Fields, Like
    <3>2. /\ UNCHANGED <<ui, refused, srv>>
          /\ ftp' = o \/ (ftp' = ResetConnection(o) /\ o.isConnected)
      BY <2>2, Zenon DEF CheckDataTimeout, app, net
    <3>. HIDE DEF o
    <3>. QED  BY <3>1, <3>2
  <2>. QED  BY <2>1, <2>2
<1>3. /\ Calm(ftp) => Calm(o)
      /\ Dropped(ftp) => Dropped(o)
      /\ GoesOn(ftp, srv) => GoesOn(o, srv)
  BY <1>2, LikeOn
<1>4. CASE ftp' = o
  BY <1>2, <1>3, <1>4 DEF Passes
<1>5. CASE ftp' = ResetConnection(o) /\ o.isConnected
  <2>1. o.queue \in Seq(Queued) /\ ~Dropped(o)
    BY <1>1, <1>2, <1>5 DEF Like, Dropped
  <2>2. (Calm(o) => Calm(ftp')) /\ (GoesOn(o, srv) => GoesOn(ftp', srv'))
    BY <1>2, <1>5, <2>1, ResetOn
  <2>. QED  BY <1>2, <1>3, <2>1, <2>2 DEF Passes
<1>. QED  BY <1>2, <1>4, <1>5

LEMMA ConnectionPasses ==
  ASSUME NEW F, Well(F), DataSent \/ Silence \/ Drop PROVE Passes
<1>1. IsObject(ftp) /\ UNCHANGED <<ui, refused>> /\ srv \in Session
  BY FtpObject DEF DataSent, Silence, Drop, app, net, Well, TypeOK
<1>2. CASE DataSent
  <2>1. ftp' = [ftp EXCEPT !.data = "sent"] /\ srv' = srv
    BY <1>2 DEF DataSent, net
  <2>2. Like(ftp', ftp)
    BY <1>1, <2>1 DEF Like, IsObject, Fields
  <2>. QED  BY <1>1, <2>1, <2>2, LikeOn DEF Passes
<1>3. CASE Silence
  <2>1. ftp' = ftp /\ srv'.dir = srv.dir
    BY <1>1, <1>3 DEF Silence, Session
  <2>2. Like(ftp', ftp)
    BY <2>1 DEF Like
  <2>. QED  BY <1>1, <2>1, <2>2, LikeOn DEF Passes
<1>4. CASE Drop
  <2>1. ftp' = Kill(ftp) /\ srv' = srv /\ ~Dropped(ftp)
    BY <1>4 DEF Drop, Dropped, None
  <2>2. (Calm(ftp) => Calm(ftp')) /\ (GoesOn(ftp, srv) => GoesOn(ftp', srv'))
    BY <1>1, <2>1, KillIs, ClosedOn
  <2>. QED  BY <1>1, <2>1, <2>2 DEF Passes
<1>. QED  BY <1>2, <1>3, <1>4

\* A client that has not logged in drops everything, one that has but a greeting.
LEMMA StopRequestPasses ==
  ASSUME NEW F, Well(F), TimedInv, StopRequest PROVE Passes
<1>. DEFINE d == Killed(ftp.data)  v == ftp.reported \/ ~ftp.isConnected
            p == [ftp EXCEPT !.reported = v, !.isConnected = FALSE, !.data = d,
                             !.link = None, !.wire = <<>>]
            t == IF HeadIs(p.queue, {"welcome"}) THEN Tail(p.queue) ELSE p.queue
            c == Cleanup(p, FALSE)
            x == [p EXCEPT !.transferMode = "", !.isReconnecting = FALSE, !.queue = t]
            y == [p EXCEPT !.transferMode = "", !.isReconnecting = TRUE]
<1>1. /\ ftp.link \in {"opening", "closing"} /\ UNCHANGED <<ui, refused>>
      /\ ftp' = Stopped(ftp)
  BY DEF StopRequest, app
<1>2. Stopped(ftp) = IF ~Retries(ftp) THEN c ELSE IF ftp.reconnectsLeft < 1 THEN x ELSE y
  BY Zenon DEF Stopped
<1>3. IsObject(ftp) /\ ftp.queue \in Seq(Queued) /\ ~Dropped(ftp)
  BY <1>1, FtpObject DEF Dropped, None
<1>. HIDE DEF d, v
<1>4. /\ IsObject(p) /\ p.queue = ftp.queue /\ p.link = None /\ p.isConnected = FALSE
      /\ p.legitClose = ftp.legitClose /\ p.isReconnecting = ftp.isReconnecting
      /\ p.currentWorkingDir = ftp.currentWorkingDir /\ p.reported = v
  BY <1>3 DEF IsObject, Fields
<1>5. ftp.reported => v
  BY DEF v
<1>. HIDE DEF p
<1>6. CASE ~Retries(ftp)
  <2>1. ftp.legitClose /\ ~ftp.isReconnecting
    BY <1>6 DEF Retries, TimedInv, Timed, Well
  <2>2. Calm(c) /\ Dropped(c)
    BY <1>4, <2>1, CleanupIs DEF Dropped
  <2>3. ftp' = c
    BY <1>1, <1>2, <1>6
  <2>. QED  BY <1>1, <2>2, <2>3 DEF Passes
<1>7. CASE Retries(ftp)
  <2>1. /\ ToSet(t) \subseteq In(ftp)
        /\ \A e \in In(ftp) \ ToSet(t) : e.cmd = "welcome"
    <3>1. CASE HeadIs(p.queue, {"welcome"})
      <4>1. ftp.queue # <<>> /\ Head(ftp.queue).cmd = "welcome" /\ t = Tail(ftp.queue)
        BY <1>4, <3>1 DEF HeadIs
      <4>2. ToSet(ftp.queue) = {Head(ftp.queue)} \cup ToSet(Tail(ftp.queue))
        BY <1>3, <4>1, EntriesOf
      <4>. QED  BY <4>1, <4>2 DEF In
    <3>2. CASE ~HeadIs(p.queue, {"welcome"})
      BY <1>4, <3>2 DEF In
    <3>. QED  BY <3>1, <3>2
  <2>. HIDE DEF t
  <2>2. /\ x.queue = t /\ x.link = None /\ x.legitClose = ftp.legitClose
        /\ x.currentWorkingDir = ftp.currentWorkingDir /\ x.reported = v
    BY <1>4 DEF IsObject, Fields
  <2>3. /\ y.queue = ftp.queue /\ y.link = None /\ y.legitClose = ftp.legitClose
        /\ y.currentWorkingDir = ftp.currentWorkingDir /\ y.reported = v
    BY <1>4 DEF IsObject, Fields
  <2>. HIDE DEF x, y
  <2>4. ftp' \in {x, y} /\ ~ftp.legitClose
    BY <1>1, <1>2, <1>7 DEF Retries
  <2>5. /\ In(ftp') \subseteq In(ftp) /\ (\A e \in In(ftp) \ In(ftp') : e.cmd = "welcome")
        /\ ftp'.link = None /\ ~ftp'.legitClose /\ (ftp.reported => ftp'.reported)
        /\ ftp'.currentWorkingDir = ftp.currentWorkingDir
    BY <1>5, <2>1, <2>2, <2>3, <2>4 DEF In
  <2>6. Calm(ftp) => Calm(ftp')
    BY <2>5 DEF Calm
  <2>7. ASSUME Approach(ftp, srv) PROVE Approach(ftp', srv')
    <3>1. \A e \in In(ftp') : Early(e)
      BY <2>5, <2>7 DEF Approach
    <3>2. \E e \in In(ftp') : Asks(e)
      BY <2>5, <2>7 DEF Approach, Asks
    <3>3. (Logs(ftp') => Logs(ftp)) /\ (Has(ftp', {"aborted"}) => Has(ftp, {"aborted"}))
      BY <2>5 DEF Logs, Has
    <3>. QED  BY <2>5, <2>7, <3>1, <3>2, <3>3 DEF Approach, None
  <2>8. Has(ftp, Transfers) => Has(ftp', Transfers)
    BY <2>5 DEF Has, Transfers, Sending, Sending2
  <2>. QED  BY <1>1, <1>3, <2>5, <2>6, <2>7, <2>8 DEF Passes, GoesOn
<1>. QED  BY <1>6, <1>7

LEMMA ConnectIs ==
  ASSUME NEW o, IsObject(o), o.queue \in Seq(Queued)
  PROVE  LET r == Connect(o)
         IN  /\ IsObject(r) /\ r.queue \in Seq(Queued) /\ r.link = "opening"
             /\ In(o) \subseteq In(r) /\ \A e \in In(r) : e \in In(o) \/ e.cmd = "welcome"
             /\ r.legitClose = o.legitClose /\ r.reported = o.reported
             /\ r.currentWorkingDir = o.currentWorkingDir
<1>. DEFINE s == <<Bare("welcome")>>
            w == IF HeadIs(o.queue, {"welcome"}) THEN o.queue ELSE s \o o.queue
            r == Connect(o)
<1>1. s \in Seq(Queued) /\ ToSet(s) = {Bare("welcome")}
  BY Entries0 DEF Bare, Entry, Queued, Command, Arg
<1>2. /\ w \in Seq(Queued) /\ In(o) \subseteq ToSet(w)
      /\ \A e \in ToSet(w) : e \in In(o) \/ e.cmd = "welcome"
  <2>. HIDE DEF s
  <2>1. s \o o.queue \in Seq(Queued) /\ ToSet(s \o o.queue) = ToSet(s) \cup ToSet(o.queue)
    BY <1>1, EntriesOf, ConcatProperties
  <2>. QED  BY <1>1, <2>1 DEF In, Bare, Entry
<1>3. r = [o EXCEPT !.queue = w, !.timeout = None, !.transfer = FALSE, !.link = "opening",
                    !.wire = <<>>]
  BY Zenon DEF Connect
<1>. HIDE DEF w, r
<1>4. /\ IsObject(r) /\ r.queue = w /\ r.link = "opening" /\ r.legitClose = o.legitClose
      /\ r.reported = o.reported /\ r.currentWorkingDir = o.currentWorkingDir
  BY <1>3 DEF IsObject, Fields
<1>. QED  BY <1>2, <1>4 DEF In, r

\* A timer makes a connection only for a client that has logged in once.
LEMMA ReconnectPasses ==
  ASSUME NEW F, Well(F), TimedInv, ReconnectTimer PROVE Passes
<1>1. /\ ftp' = Reconnect(ftp) /\ UNCHANGED <<ui, refused>>
      /\ srv' = IF ftp.isReconnecting THEN NewSession ELSE srv
  BY DEF ReconnectTimer, app
<1>2. IsObject(ftp) /\ ftp.queue \in Seq(Queued)
  BY FtpObject
<1>3. CASE ~ftp.isReconnecting
  <2>1. ftp' = ftp /\ srv' = srv
    BY <1>1, <1>3 DEF Reconnect
  <2>2. Like(ftp', ftp)
    BY <2>1 DEF Like
  <2>. QED  BY <1>1, <2>1, <2>2, LikeOn DEF Passes
<1>4. CASE ftp.isReconnecting
  <2>. DEFINE n == ftp.reconnectsLeft - 1  o == [ftp EXCEPT !.reconnectsLeft = n]
  <2>1. ftp' = Connect(o) /\ srv'.dir = Home
    BY <1>1, <1>4, Zenon DEF Reconnect, NewSession
  <2>. HIDE DEF n
  <2>2. IsObject(o) /\ Like(o, ftp)
    BY <1>2 DEF IsObject, Fields, Like
  <2>. HIDE DEF o
  <2>3. ~ftp.legitClose /\ ~Dropped(ftp)
    BY <1>4 DEF TimedInv, Timed, Well, Dropped
  <2>4. /\ In(ftp) \subseteq In(ftp') /\ \A e \in In(ftp') : e \in In(ftp) \/ e.cmd = "welcome"
        /\ ~ftp'.legitClose /\ ftp'.reported = ftp.reported
        /\ ftp'.currentWorkingDir = ftp.currentWorkingDir
    <3>1. o.queue \in Seq(Queued) /\ In(o) = In(ftp)
      BY <1>2, <2>2 DEF Like, In
    <3>. QED  BY <2>1, <2>2, <2>3, <3>1, ConnectIs DEF Like
  <2>5. Calm(ftp) => Calm(ftp')
    BY <2>4 DEF Calm, Calling
  <2>6. ASSUME Approach(ftp, srv) PROVE Approach(ftp', srv')
    <3>1. \A e \in In(ftp') : Early(e)
      BY <2>4, <2>6 DEF Approach, Early, Calling
    <3>2. \E e \in In(ftp') : Asks(e)
      BY <2>4, <2>6 DEF Approach
    <3>3. (Logs(ftp') => Logs(ftp)) /\ (Has(ftp', {"aborted"}) => Has(ftp, {"aborted"}))
      BY <2>4 DEF Logs, Has
    <3>. QED  BY <2>1, <2>4, <2>6, <3>1, <3>2, <3>3 DEF Approach
  <2>7. Has(ftp, Transfers) => Has(ftp', Transfers)
    BY <2>4 DEF Has
  <2>. QED  BY <1>1, <2>3, <2>4, <2>5, <2>6, <2>7 DEF Passes, GoesOn
<1>. QED  BY <1>3, <1>4

LEMMA StopCalms == ASSUME NEW F, Well(F), Stop PROVE ui' = TRUE /\ Calm(ftp')
<1>. DEFINE g == [ftp EXCEPT !.isReconnecting = FALSE]  c == Cleanup(g, TRUE)
            d == Killed(c.data)  k == [c EXCEPT !.data = d]
            s == <<Bare("aborted")>>  a == Add(k, s)
<1>1. ftp' = Abort(ftp) /\ ui' = TRUE /\ IsObject(ftp)
  BY FtpObject DEF Stop
<1>2. Abort(ftp) = IF ~ftp.isConnected THEN c ELSE a
  BY Zenon DEF Abort
<1>3. IsObject(g)
  BY <1>1 DEF IsObject, Fields
<1>. HIDE DEF g
<1>4. IsObject(c) /\ c.queue = <<>> /\ Calm(c)
  BY <1>3, CleanupIs
<1>. HIDE DEF c, d
<1>5. /\ IsObject(k) /\ k.queue = c.queue /\ k.currentWorkingDir = c.currentWorkingDir
      /\ k.legitClose = c.legitClose
  BY <1>4 DEF IsObject, Fields
<1>. HIDE DEF k
<1>6. s \in Seq(Queued) /\ ToSet(s) = {Bare("aborted")}
  BY Entries0 DEF Bare, Entry, Queued, Command, Arg
<1>. HIDE DEF s
<1>7. In(a) = In(k) \cup ToSet(s) /\ Alike(a, k)
  <2>1. k.queue \in Seq(Queued)
    BY <1>4, <1>5, NoEntries
  <2>. QED  BY <1>5, <1>6, <2>1, AddIs
<1>. HIDE DEF a
<1>8. \A e \in In(a) : e.cmd = "aborted"
  BY <1>4, <1>5, <1>6, <1>7, NothingQueued DEF Bare, Entry
<1>9. Calm(a)
  BY <1>4, <1>5, <1>7, <1>8 DEF Calm, Calling, Alike, Has, LoginCmds
<1>. QED  BY <1>1, <1>2, <1>4, <1>9

-----------------------------------------------------------------------------
(* The user asks for an upload.                                            *)

\* A directory that has to be changed to first is neither the one the server logs
\* the client in to, which the client takes to be in already, nor "", the place
\* it does not know.
UploadsReach == \A f \in File : DirOf[f] = Root \/ DirOf[f] \notin {Home, ""}

LEMMA UploadGoesOn ==
  ASSUME NEW F, Well(F), UploadsReach, Calm(ftp) \/ (~ui /\ GoesOn(ftp, srv)),
         NEW f \in File, Upload(f), Orderly'
  PROVE  GoesOn(ftp', srv')
<1>. DEFINE v == ftp.reported /\ ~ui  o == [ftp EXCEPT !.reported = v]
            g == [o EXCEPT !.isReconnecting = FALSE, !.reconnectsLeft = MaxAttempts]
            c == IF o.isConnected THEN o ELSE ConnectAnew(o)
            a == <<Entry("CWD", DirOf[f], f)>>
            s == IF DirOf[f] = Root THEN Entries(c, f) ELSE a
            r == Add(c, s)
<1>1. /\ ftp' = IF DirOf[f] = Root THEN FtpUploadFile(c, f) ELSE ChangeDirThenUpload(c, f)
      /\ disorder' = (~ftp.isConnected /\ Connecting)
      /\ srv' = IF ftp.isConnected THEN srv ELSE NewSession
  BY Zenon DEF Upload
<1>2. ftp' = WriteControl(r)
  <2>1. /\ FtpUploadFile(c, f) = WriteControl(Add(c, Entries(c, f)))
        /\ ChangeDirThenUpload(c, f) = WriteControl(Add(c, a))
    BY UploadIs
  <2>. HIDE DEF c, a
  <2>. QED  BY <1>1, <2>1
<1>3. s \in Seq(Queued) /\ a \in Seq(Queued)
  <2>1. {f} \subseteq File /\ f \in {f}
    OBVIOUS
  <2>. HIDE DEF c
  <2>. QED  BY <2>1, UploadEntries
<1>4. ToSet(a) = {Entry("CWD", DirOf[f], f)}
  BY Entries0
<1>. HIDE DEF a
<1>5. IsObject(ftp) /\ ftp.queue \in Seq(Queued) /\ ftp \in Client /\ Sound(ftp, srv)
  BY FtpObject, HoldingTypes DEF Well
<1>6. /\ IsObject(o) /\ o.queue = ftp.queue /\ o.legitClose = ftp.legitClose
      /\ o.currentWorkingDir = ftp.currentWorkingDir /\ o.isConnected = ftp.isConnected
      /\ o.link = ftp.link /\ o.reported = v
  <2>. HIDE DEF v
  <2>. QED  BY <1>5 DEF IsObject, Fields
<1>. HIDE DEF o
<1>7. /\ IsObject(c) /\ c.queue \in Seq(Queued) /\ c.legitClose = ftp.legitClose
      /\ c.currentWorkingDir = ftp.currentWorkingDir /\ c.reported = v /\ In(ftp) \subseteq In(c)
      /\ ftp.isConnected => In(c) = In(ftp) /\ c.link = ftp.link
      /\ ~ftp.isConnected => \A e \in In(c) : e \in In(ftp) \/ e.cmd = "welcome"
  <2>1. CASE ftp.isConnected
    <3>1. c = o
      BY <1>6, <2>1
    <3>. HIDE DEF c
    <3>. QED  BY <1>5, <1>6, <2>1, <3>1 DEF In
  <2>2. CASE ~ftp.isConnected
    <3>1. c = Connect(g)
      BY <1>6, <2>2, Zenon DEF ConnectAnew
    <3>2. /\ IsObject(g) /\ g.queue = o.queue /\ g.legitClose = o.legitClose
          /\ g.currentWorkingDir = o.currentWorkingDir /\ g.reported = o.reported
      BY <1>6 DEF IsObject, Fields
    <3>. HIDE DEF g, c
    <3>3. g.queue \in Seq(Queued) /\ In(g) = In(ftp)
      BY <1>5, <1>6, <3>2 DEF In
    <3>4. /\ IsObject(c) /\ c.queue \in Seq(Queued) /\ c.legitClose = g.legitClose
          /\ c.currentWorkingDir = g.currentWorkingDir /\ c.reported = g.reported
          /\ In(g) \subseteq In(c) /\ \A e \in In(c) : e \in In(g) \/ e.cmd = "welcome"
      BY <3>1, <3>2, <3>3, ConnectIs
    <3>. QED  BY <1>6, <2>2, <3>2, <3>3, <3>4
  <2>. QED  BY <2>1, <2>2
<1>. HIDE DEF c
<1>8. /\ IsObject(r) /\ r.queue \in Seq(Queued) /\ In(r) = In(c) \cup ToSet(s)
      /\ Alike(r, c) /\ r.reported = c.reported
  <2>. HIDE DEF s
  <2>. QED  BY <1>3, <1>7, AddIs
<1>11. ASSUME GoesOn(r, srv') PROVE GoesOn(ftp', srv')
  <2>. HIDE DEF r
  <2>. QED  BY <1>2, <1>8, <1>11, WriteFollows, FollowsOn
<1>9. CASE DirOf[f] = Root
  <2>1. \E e \in ToSet(s) : e.cmd \in Transfers
    <3>1. {f} \subseteq File /\ f \in {f}
      OBVIOUS
    <3>2. s = Entries(c, f)
      BY <1>9
    <3>. HIDE DEF s
    <3>. QED  BY <3>1, <3>2, StorQueued
  <2>. HIDE DEF s
  <2>2. Has(r, Transfers)
    BY <1>8, <2>1 DEF Has
  <2>. QED  BY <1>11, <2>2 DEF GoesOn
<1>12. CASE ~ui /\ (ftp.reported \/ Has(ftp, Transfers))
  <2>1. r.reported \/ Has(r, Transfers)
    BY <1>7, <1>8, <1>12 DEF Has
  <2>. QED  BY <1>11, <2>1 DEF GoesOn
<1>10. CASE DirOf[f] # Root /\ (Calm(ftp) \/ Approach(ftp, srv))
  <2>1. ToSet(s) = {Entry("CWD", DirOf[f], f)}
    BY <1>4, <1>10
  <2>. HIDE DEF s, r
  <2>2. f # None /\ DirOf[f] \notin {Home, ""}
    BY <1>10, FileAssumption DEF UploadsReach
  <2>. DEFINE e == Entry("CWD", DirOf[f], f)
  <2>3. e \in In(r) /\ e.cmd = "CWD" /\ e.then = f /\ e.arg = DirOf[f]
    BY <1>8, <2>1 DEF Entry
  <2>4. \A x \in In(r) : x \in In(c) \/ x = e
    BY <1>8, <2>1
  <2>. HIDE DEF e
  <2>5. Early(e) /\ Asks(e)
    BY <2>2, <2>3 DEF Early, Asks
  <2>6. \A x \in In(ftp) : Early(x)
    BY <1>10 DEF Calm, Approach, Early, Calling
  <2>7. \A x \in In(r) : x \in In(ftp) \/ x = e \/ (x.cmd = "welcome" /\ ~ftp.isConnected)
    BY <1>7, <2>4
  <2>8. \A x \in In(r) : Early(x)
    BY <2>5, <2>6, <2>7 DEF Early, Calling
  <2>9. ASSUME Logs(r)
        PROVE  ~Has(r, {"aborted"}) /\ (r.link \in {"opening", "up"} => srv'.dir = Home)
    <3>1. ~ftp.isConnected => srv'.dir = Home
      BY <1>1 DEF NewSession
    <3>2. Has(r, {"aborted"}) => Has(ftp, {"aborted"})
      BY <2>3, <2>7 DEF Has
    <3>3. CASE Logs(ftp)
      <4>1. Approach(ftp, srv)
        BY <1>10, <3>3 DEF Calm, Logs, Has, Calling
      <4>2. ~Has(ftp, {"aborted"}) /\ (ftp.link \in {"opening", "up"} => srv.dir = Home)
        BY <3>3, <4>1 DEF Approach
      <4>3. ftp.isConnected => srv' = srv /\ r.link = ftp.link
        BY <1>1, <1>7, <1>8 DEF Alike
      <4>. QED  BY <3>1, <3>2, <4>2, <4>3
    <3>4. CASE ~Logs(ftp)
      <4>1. ~Has(r, {"PWD"})
        BY <2>3, <2>7, <3>4 DEF Has, Logs
      <4>2. ftp.legitClose /\ Has(r, LoginCmds) /\ ~Has(ftp, LoginCmds)
        BY <1>7, <1>8, <2>9, <3>4, <4>1 DEF Logs, Alike
      <4>3. ~ftp.isConnected
        BY <2>3, <2>7, <4>2 DEF Has, LoginCmds
      <4>4. ftp.link = None
        BY <1>1, <1>5, <4>3 DEF Orderly, Connecting, Client
      <4>5. ftp.queue = <<>>
        BY <1>5, <4>2, <4>4 DEF Sound, Linked
      <4>. QED  BY <3>1, <3>2, <4>3, <4>5, NothingQueued DEF Has
    <3>. QED  BY <3>3, <3>4
  <2>10. Approach(r, srv')
    BY <1>7, <1>8, <1>10, <2>3, <2>5, <2>8, <2>9 DEF Approach, Alike, Calm
  <2>. QED  BY <1>11, <2>10 DEF GoesOn
<1>. QED  BY <1>9, <1>10, <1>12 DEF GoesOn

-----------------------------------------------------------------------------
(* The theorem.                                                            *)

PursuitInv == FtpInv /\ TimedInv /\ (Orderly => Pursuit)

LEMMA PursuitStep == ASSUME UploadsReach, PursuitInv, Next PROVE PursuitInv'
<1>1. PICK F : Well(F)
  BY DEF PursuitInv, FtpInv, Next, Well
<1>2. FtpInv' /\ TimedInv' /\ TimedInv /\ Pursuit
  BY FtpStep, TimedStep DEF PursuitInv, Next
<1>3. ASSUME Passes PROVE PursuitInv'
  BY <1>2, <1>3, PassesOn DEF PursuitInv
<1>4. ASSUME ui' = TRUE, Calm(ftp') PROVE PursuitInv'
  BY <1>2, <1>4 DEF PursuitInv, Pursuit
<1>5. CASE Read
  <2>1. /\ (ui' = TRUE /\ Calm(ftp')) \/ (UNCHANGED ui /\ Onward)
        /\ refused \subseteq refused' /\ ~Dropped(ftp)
    BY <1>1, <1>5, ReadOnward DEF Dropped, None
  <2>. QED  BY <1>3, <1>4, <2>1, OnwardPasses
<1>6. CASE ReadWelcome
  BY <1>1, <1>3, <1>6, WelcomePasses
<1>7. CASE ReadUnexpected
  BY <1>1, <1>3, <1>7, UnexpectedPasses
<1>8. CASE KeepAliveTimer
  BY <1>1, <1>3, <1>8, KeepAlivePasses
<1>9. CASE CheckTimeout \/ CheckDataTimeout
  BY <1>1, <1>3, <1>9, TimeoutPasses
<1>10. CASE DataSent \/ Silence \/ Drop
  BY <1>1, <1>3, <1>10, ConnectionPasses
<1>11. CASE StopRequest
  BY <1>1, <1>2, <1>3, <1>11, StopRequestPasses
<1>12. CASE ReconnectTimer
  BY <1>1, <1>2, <1>3, <1>12, ReconnectPasses
<1>13. CASE Stop
  BY <1>1, <1>4, <1>13, StopCalms
<1>14. ASSUME NEW f \in File, Upload(f) PROVE PursuitInv'
  <2>1. ui' = FALSE /\ refused' = refused
    BY <1>14 DEF Upload
  <2>2. ui \in BOOLEAN /\ (Dropped(ftp) => Calm(ftp))
    <3>1. Dropped(ftp) => ftp.currentWorkingDir = "" /\ In(ftp) = {}
      BY <1>1, NothingQueued DEF Well, Sound, Linked, Dropped
    <3>. QED  BY <1>1, <3>1 DEF Calm, Has, Well, TypeOK
  <2>3. "welcome" \notin refused => Calm(ftp) \/ (~ui /\ GoesOn(ftp, srv))
    BY <1>2, <2>2 DEF Pursuit
  <2>4. Orderly' /\ "welcome" \notin refused => GoesOn(ftp', srv')
    BY <1>1, <1>14, <2>3, UploadGoesOn
  <2>. QED  BY <1>2, <2>1, <2>4 DEF PursuitInv, Pursuit
<1>. QED  BY <1>5, <1>6, <1>7, <1>8, <1>9, <1>10, <1>11, <1>12, <1>13, <1>14
          DEF Next, System, User, Network

\* A client that pursues an upload has an entry for its file.
LEMMA PursuitPursues == ASSUME PursuitInv PROVE UploadPursued
<1>. SUFFICES ASSUME Orderly, ~ui, ~ftp.reported, ~ftp.legitClose, "welcome" \notin refused
              PROVE  \E f \in waited : Pursued(f)
  BY DEF UploadPursued
<1>1. PICK F : Well(F)
  BY DEF PursuitInv, FtpInv, Well
<1>2. F \subseteq waited /\ F \subseteq File
  BY <1>1, FtpObject DEF Well, Current
<1>3. ftp.queue \in Seq(Queued) /\ In(ftp) \subseteq Valid(F)
  BY <1>1, FtpObject DEF In
<1>4. PICK e \in In(ftp) : e.cmd \in Transfers \/ Asks(e)
  BY DEF PursuitInv, Pursuit, Dropped, GoesOn, Has, Approach
<1>5. PICK i \in 1..Len(ftp.queue) : ftp.queue[i] = e
  <2>1. DOMAIN ftp.queue = 1..Len(ftp.queue)
    BY <1>3
  <2>. QED  BY <2>1 DEF In, ToSet
<1>6. CASE e.cmd \in Transfers
  <2>1. e.arg \in F
    BY <1>3, <1>6 DEF Valid
  <2>2. Pursued(e.arg)
    BY <1>5, <1>6 DEF Pursued
  <2>. QED  BY <1>2, <2>1, <2>2
<1>7. CASE Asks(e)
  <2>1. e.then \in F
    BY <1>3, <1>7 DEF Valid, Asks
  <2>2. Pursued(e.then)
    BY <1>5, <1>7 DEF Pursued, Asks
  <2>. QED  BY <1>2, <2>1, <2>2
<1>. QED  BY <1>4, <1>6, <1>7

\* For any files, faults and number of attempts, if every upload's directory is one
\* to change to: while the user waits for uploads and no error was reported, after
\* the first login and unless a greeting was refused, the queue holds the transfer
\* of one of them or the CWD whose callback, ftpUploadFile(), will queue it.  A method
\* that clears the queue reports an error or ends the upload, writeControl() skips
\* neither of the two, and recoverFromDisaster() puts back a transfer that was cut
\* short by the loss of the connection.
THEOREM UploadNeverForgotten == ASSUME UploadsReach PROVE Spec => []UploadPursued
<1>1. Init => PursuitInv
  <2>. SUFFICES ASSUME Init PROVE PursuitInv
    OBVIOUS
  <2>1. FtpInv /\ TimedInv
    BY FtpInit, TimedInit
  <2>2. /\ ui = TRUE /\ ftp.queue = <<>> /\ ftp.currentWorkingDir = ""
    BY DEF Init, NewClient
  <2>3. In(ftp) = {}
    BY <2>2, NothingQueued
  <2>. QED  BY <2>1, <2>2, <2>3 DEF PursuitInv, Pursuit, Calm, Has
<1>2. PursuitInv /\ [Next]_vars => PursuitInv'
  <2>1. PursuitInv /\ UNCHANGED vars => PursuitInv'
    <3>. SUFFICES ASSUME PursuitInv, UNCHANGED vars PROVE PursuitInv'
      OBVIOUS
    <3>1. FtpInv' /\ TimedInv'
      BY FtpStutter, TimedStutter DEF PursuitInv
    <3>2. (Orderly => Pursuit)'
      BY DEF PursuitInv, vars, app, net, Orderly, Pursuit, Calm, GoesOn, Dropped, Approach, Logs, Has, In
    <3>. QED  BY <3>1, <3>2 DEF PursuitInv
  <2>. QED  BY <2>1, PursuitStep
<1>. QED  BY <1>1, <1>2, PursuitPursues, PTL DEF Spec
=============================================================================
