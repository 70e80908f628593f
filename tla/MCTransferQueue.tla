-------------------------- MODULE MCTransferQueue ---------------------------
(* Instances of TransferQueue for TLC: a download and an SFTP job. *)
EXTENDS TransferQueue
=============================================================================
