------------------------------ MODULE MCReplies ------------------------------
(* An instance of Replies for TLC. *)
EXTENDS Replies

CONSTANTS q1, q2, d1, d2
==============================================================================
