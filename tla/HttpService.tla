---------------------------- MODULE HttpService ----------------------------
(***************************************************************************)
(* What one HTTP request after the other amounts to.  A request is asked,  *)
(* perhaps delivered in full, and has one outcome: its answer is handled,  *)
(* or nothing is.  A request for the list of devices whose answer was of   *)
(* no use leaves scraps that spoil the next request, whatever it asks; one *)
(* whose list found no memory leaves that list, and the next request for   *)
(* the list has the old one as its outcome.                                *)
(***************************************************************************)
CONSTANTS Targets,  \* what can be asked
          List      \* the list of devices, one of them

VARIABLES asked,      \* what is being asked, {} when nothing is
          delivered,  \* its answer has arrived, all of it, and is no error
          outcome,    \* "pending", or what is handled: the "answer",
                      \* "nothing", or a "stale" list
          residue     \* what earlier requests have left: "nothing",
                      \* "scraps" or a whole "list"

serviceVars == <<asked, delivered, outcome, residue>>

ServiceInit == asked = {} /\ ~delivered /\ outcome = "pending" /\ residue = "nothing"

Ask == /\ asked = {}
       /\ \E x \in Targets : asked' = {x}
       /\ UNCHANGED <<delivered, outcome, residue>>

Deliver == /\ asked # {} /\ outcome = "pending" /\ ~delivered
           /\ delivered' = TRUE
           /\ UNCHANGED <<asked, outcome, residue>>

(* What is handled is decided by what was left and what was delivered.     *)
Conclude == /\ asked # {} /\ outcome = "pending"
            /\ outcome' = IF residue = "nothing" /\ delivered THEN "answer"
                          ELSE IF residue = "list" /\ asked = {List} THEN "stale"
                          ELSE "nothing"
            /\ UNCHANGED <<asked, delivered, residue>>

(* A request that ends with nothing to handle. *)
GiveUp == /\ asked # {} /\ outcome = "pending" /\ ~delivered
          /\ asked' = {}
          /\ UNCHANGED <<delivered, outcome, residue>>

End == /\ outcome # "pending"
       /\ asked' = {} /\ delivered' = FALSE /\ outcome' = "pending"
       /\ residue' \in IF asked # {List} THEN {"nothing"}
                       ELSE IF outcome = "nothing" THEN {"scraps"}
                       ELSE {"nothing", "list"}

ServiceNext == Ask \/ Deliver \/ Conclude \/ GiveUp \/ End
ServiceSpec == ServiceInit /\ [][ServiceNext]_serviceVars
=============================================================================
