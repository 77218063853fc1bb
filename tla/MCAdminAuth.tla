---------------------------- MODULE MCAdminAuth ----------------------------
(* An instance of AdminAuth for TLC: two failures lock for two ticks. *)
EXTENDS AdminAuth

CONSTANTS root, guest, t1
============================================================================
