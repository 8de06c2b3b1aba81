---------------------------- MODULE MCBackupStream ----------------------------
(* Instances of BackupStream.  A read holds up to three markers, so runs of  *)
(* blank pages end before, at and after the end of a read.                   *)
EXTENDS BackupStream

MCTails == {<<>>, <<"other">>, <<"other", "other">>}
=============================================================================
