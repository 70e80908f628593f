--------------------------- MODULE MCDeviceBrowser ---------------------------
(* Instances of DeviceBrowser for TLC. *)
EXTENDS DeviceBrowser

(* A new tab. *)
MCSaved ==
  {[view |-> "all", history |-> FALSE, dev |-> None, snap |-> None, path |-> 0]}
=============================================================================
