---------------------------- MODULE MCSharedHttp ----------------------------
(* SharedHttp for TLC, with tasks as model values.                         *)
EXTENDS SharedHttp

CONSTANTS main, poller
=============================================================================
