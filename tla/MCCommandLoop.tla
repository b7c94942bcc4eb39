--------------------------- MODULE MCCommandLoop ---------------------------
(* Instances of CommandLoop for TLC, and the mailbox it implements.        *)
EXTENDS CommandLoop

(* Two that differ in their status alone, and one of another device. *)
MCOrders == {[kind |-> "set", dev |-> 1, st |-> TRUE], [kind |-> "set", dev |-> 1, st |-> FALSE],
             [kind |-> "set", dev |-> 0, st |-> TRUE]}

(* The last command received is in the slot. *)
M == INSTANCE Mailbox WITH Orders <- [kind: {"set"}, dev: Devices \cup {0}, st: BOOLEAN],
                           Empty <- NoData,
                           slot <- received,
                           waiting <- fresh,
                           applied <- executed

(* The loop implements the mailbox: copies and executions, duplicated,     *)
(* mixed or overtaken by a later copy, always end with the latest command  *)
(* received carried out (webserver.c:100-110, main.cpp:391-447).           *)
RefinesMailbox == M!MailSafety
=============================================================================
