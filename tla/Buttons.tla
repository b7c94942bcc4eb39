------------------------------ MODULE Buttons ------------------------------
(***************************************************************************)
(* The button task.  Once per pass check_buttons debounces the three       *)
(* buttons, notes when one goes down and classifies the press when it      *)
(* comes up, by a difference of two readings of a 32-bit clock that wraps; *)
(* navigate_menu (Menu) then turns the short presses into moves.  The      *)
(* reading is taken once, before the debouncing of a pass, and a pass ends *)
(* with a delay of 100 ms.  A long press only raises a flag that nobody    *)
(* reads or lowers: it is left out.                                        *)
(***************************************************************************)
EXTENDS Menu

CONSTANTS
    Wrap,       \* 2^32: the clock counts in 0..Wrap-1
    PressTime,  \* BTN_PRESS_TIME
    LongPress,  \* BTN_LONGPRESS_TIME
    Passes,     \* what may elapse from one pass to the next
    MaxHold     \* bound: a button held as long comes up in the next pass

ASSUME ClockAssumption == /\ Wrap \in Nat \ {0}
                          /\ {PressTime, LongPress, MaxHold} \subseteq Nat
                          /\ Passes \subseteq Nat
ASSUME HoldAssumption == \A d \in Passes : MaxHold + d < Wrap
ASSUME DelayAssumption == \A d \in Passes : PressTime <= d

VARIABLES
    now,      \* the last reading of the clock
    pressed,  \* the buttons whose BTN_..._PRESSED is up
    start,    \* btnEnterDuration, btnUpDuration, btnDownDuration
    held      \* history: time since the reading that saw the button go down

pressVars == <<now, pressed, start, held>>
vars == <<menuVars, pressVars>>
----------------------------------------------------------------------------
(* Unsigned addition and subtraction of 32 bits, for operands below Wrap.  *)
Plus(a, b) == IF a + b < Wrap THEN a + b ELSE a + b - Wrap
(* Mutant: the times are compared as signed numbers.                       *)
SignedMinus(a, b) == a - b
Minus(a, b) == IF b <= a THEN a - b ELSE a - b + Wrap

IsShort(t) == PressTime <= t /\ t < LongPress

(* The debounced level of the buttons in "changed" differs from the flag.  *)
(* Each may do so in every pass, whatever the contact does in between.     *)
CheckPresses(elapsed, changed) ==
    /\ released = {}
    /\ now' = Plus(now, elapsed)
    /\ LET up == changed \cap pressed
           duration(b) == Minus(now', start[b])
       IN /\ pressed' = (pressed \ up) \cup (changed \ up)
          /\ released' = {b \in up : IsShort(duration(b))}
          /\ start' = [b \in Buttons |-> IF b \in up THEN 0
                                         ELSE IF b \in changed THEN now' ELSE start[b]]
    /\ held' = [b \in Buttons |-> IF b \in pressed THEN held[b] + elapsed ELSE 0]
    /\ \A b \in pressed' : held'[b] <= MaxHold
    /\ UNCHANGED <<current, index, itemVars, populateVars>>

(* navigate_menu and its handlers. *)
Navigate == /\ Up \/ Down \/ EnterSubmenu \/ Volver \/ EnterItem
            /\ UNCHANGED pressVars

(* The chip starts again, with every static variable zero. *)
CrashAndRestart ==
    /\ Crash
    /\ now' = 0 /\ pressed' = {}
    /\ start' = [b \in Buttons |-> 0] /\ held' = [b \in Buttons |-> 0]

Processing == Populate /\ UNCHANGED pressVars

Init == /\ MenuInit
        /\ now = 0 /\ pressed = {}
        /\ start = [b \in Buttons |-> 0] /\ held = [b \in Buttons |-> 0]
Next == \/ \E elapsed \in Passes, changed \in SUBSET Buttons : CheckPresses(elapsed, changed)
        \/ Navigate \/ CrashAndRestart \/ Processing
Spec == Init /\ [][Next]_vars
----------------------------------------------------------------------------
TypeOK == /\ MenuTypeOK
          /\ now \in 0..(Wrap - 1) /\ start \in [Buttons -> 0..(Wrap - 1)]
          /\ pressed \subseteq Buttons
          /\ held \in [Buttons -> Nat]

(* A button that was held until a pass sees it come up has made a short or *)
(* a long press by how long that was, wherever the clock wraps, and no     *)
(* press is too short to count: the delay of a pass exceeds BTN_PRESS_TIME *)
(* (buttons.c:26-49, main.cpp:313).                                        *)
ClassifiedByDuration ==
    [][\A b \in Buttons : b \in pressed \ pressed' /\ held'[b] > held[b]
                         => (b \in released' <=> held'[b] < LongPress)]_vars
=============================================================================
