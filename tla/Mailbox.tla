------------------------------ MODULE Mailbox ------------------------------
(***************************************************************************)
(* A mailbox with one slot: what the command loop promises of set commands *)
(* while none is disturbed.  What is deposited replaces what was there; an *)
(* order that stays in the slot is carried out, possibly more than once.   *)
(* While it waits, an order that is out of date, or made of the halves of  *)
(* two, may be carried out first; it is never the last one.                *)
(***************************************************************************)
CONSTANTS Orders,  \* what can be deposited and carried out
          Empty

VARIABLES slot,     \* the latest deposit, Empty at first
          waiting,  \* nobody has carried it out yet
          applied   \* the last order carried out

mailVars == <<slot, waiting, applied>>

MailInit == slot = Empty /\ waiting = FALSE /\ applied = Empty

Deposit == /\ slot' \in Orders
           /\ waiting' = TRUE
           /\ UNCHANGED applied

Apply == /\ slot \in Orders
         /\ applied' = slot
         /\ waiting' = FALSE
         /\ UNCHANGED slot

Overtaken == /\ waiting
             /\ applied' \in Orders
             /\ UNCHANGED <<slot, waiting>>

MailNext == Deposit \/ Apply \/ Overtaken
MailSafety == MailInit /\ [][MailNext]_mailVars
=============================================================================
