--------------------------- MODULE MCFtpUploads ---------------------------
(***************************************************************************)
(* Small instances of FtpUploads for TLC.                                  *)
(***************************************************************************)
EXTENDS FtpUploads, TLC

CONSTANTS root, sub, f1, f2

Places == (f1 :> root) @@ (f2 :> sub)
=============================================================================
