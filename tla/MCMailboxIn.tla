---------------------------- MODULE MCMailboxIn ----------------------------
(* A small instance of MailboxIn for TLC: one receiver, two mailboxes in    *)
(* the pool, room for one error.                                            *)
EXTENDS MailboxIn

MCReceivers == {"receiver"}
MCUsers == {"handler", "coembxin", "sender"} \cup MCReceivers
MCMessages == <<"coe", "emergency", "coe", "error", "eoe">>
=============================================================================
