--------------------------- MODULE Buttons_proofs ---------------------------
(***************************************************************************)
(* Proofs about Buttons for every width of the clock, every threshold and  *)
(* every device count: the button task runs the menu, and presses are      *)
(* classified by how long they lasted across the wrap of the clock.        *)
(***************************************************************************)
EXTENDS Buttons, Menu_proofs

LEMMA StepIsMenu == [Next]_vars => [MenuNext]_menuVars
<1> SUFFICES ASSUME [Next]_vars PROVE [MenuNext]_menuVars
  OBVIOUS
<1>1. ASSUME NEW elapsed \in Passes, NEW changed \in SUBSET Buttons,
             CheckPresses(elapsed, changed)
      PROVE  CheckButtons \/ UNCHANGED menuVars
  <2>1. /\ released = {} /\ released' \in SUBSET Buttons
        /\ UNCHANGED <<current, index, itemVars, populateVars>>
    BY <1>1 DEF CheckPresses
  <2>2. CASE released' = {}
    BY <2>1, <2>2 DEF menuVars, itemVars, populateVars
  <2>3. CASE released' # {}
    BY <2>1, <2>3 DEF CheckButtons
  <2> QED BY <2>2, <2>3
<1>2. CASE Navigate \/ CrashAndRestart \/ Processing
  BY <1>2 DEF Navigate, CrashAndRestart, Processing, MenuNext, ButtonTask
<1>3. CASE UNCHANGED vars
  BY <1>3 DEF vars
<1> QED BY <1>1, <1>2, <1>3 DEF Next, MenuNext, ButtonTask

(* Whatever the buttons do, the menu sees short presses and nothing else:  *)
(* the button task implements the menu's specification (main.cpp:304-315). *)
THEOREM ButtonsImplementMenu == Spec => MenuSpec
<1>1. Init => MenuInit
  BY DEF Init
<1> QED BY <1>1, StepIsMenu, PTL DEF Spec, MenuSpec

(* Whatever is pressed and whenever submenu1 is refilled, the selection    *)
(* never leaves the submenus of fixed items, and leaves the main menu only *)
(* to the VOLVER of a list with more than three devices (menuTypes.c:8-32, *)
(* main.cpp:199-202, 564-587).                                             *)
THEOREM ButtonsReach == Spec => []SelectionReach
  BY ButtonsImplementMenu, SelectionBounded, PTL
----------------------------------------------------------------------------
(* Subtraction undoes addition across the wrap: unsigned arithmetic.       *)
LEMMA Elapsed ==
    ASSUME NEW s \in 0..(Wrap - 1), NEW t \in 0..(Wrap - 1), NEW h \in Nat, NEW d \in Nat,
           t = Plus(s, h), h + d < Wrap
    PROVE  /\ Plus(t, d) \in 0..(Wrap - 1)
           /\ Plus(t, d) = Plus(s, h + d)
           /\ Minus(Plus(t, d), s) = h + d
<1>0. Wrap \in Nat
  BY ClockAssumption
<1>1. \/ t = s + h /\ s + h < Wrap
      \/ t = s + h - Wrap /\ s + h >= Wrap
  BY <1>0 DEF Plus
<1>2. Plus(t, d) \in 0..(Wrap - 1) /\ Plus(t, d) = Plus(s, h + d)
  BY <1>0, <1>1 DEF Plus
<1>3. CASE s + h + d < Wrap
  BY <1>0, <1>1, <1>3 DEF Plus, Minus
<1>4. CASE s + h + d >= Wrap
  <2>1. Plus(t, d) = s + h + d - Wrap
    BY <1>0, <1>2, <1>4 DEF Plus
  <2> QED BY <1>0, <1>2, <1>4, <2>1 DEF Minus
<1> QED BY <1>0, <1>2, <1>3, <1>4

PressTyped == /\ now \in 0..(Wrap - 1) /\ start \in [Buttons -> 0..(Wrap - 1)]
              /\ pressed \subseteq Buttons /\ held \in [Buttons -> Nat]
HeldTrue == \A b \in pressed : held[b] <= MaxHold /\ now = Plus(start[b], held[b])
PressInv == PressTyped /\ HeldTrue

LEMMA PressInit == Init => PressInv
  BY ClockAssumption DEF Init, PressInv, PressTyped, HeldTrue

LEMMA PassKeeps ==
    ASSUME PressInv, NEW elapsed \in Passes, NEW changed \in SUBSET Buttons,
           CheckPresses(elapsed, changed)
    PROVE  /\ PressInv'
           /\ \A b \in pressed \ pressed' : b \in released' <=> held'[b] < LongPress
<1>0. /\ Wrap \in Nat /\ MaxHold \in Nat /\ elapsed \in Nat /\ MaxHold + elapsed < Wrap
      /\ PressTime <= elapsed /\ PressTime \in Nat /\ LongPress \in Nat
  BY ClockAssumption, HoldAssumption, DelayAssumption
<1>1. now' = Plus(now, elapsed) /\ now' \in 0..(Wrap - 1)
  BY <1>0 DEF CheckPresses, PressInv, PressTyped, Plus
<1> DEFINE up == changed \cap pressed
<1>2. /\ pressed' = (pressed \ up) \cup (changed \ up)
      /\ released' = {b \in up : IsShort(Minus(now', start[b]))}
      /\ start' = [b \in Buttons |-> IF b \in up THEN 0
                                     ELSE IF b \in changed THEN now' ELSE start[b]]
      /\ held' = [b \in Buttons |-> IF b \in pressed THEN held[b] + elapsed ELSE 0]
      /\ \A b \in pressed' : held'[b] <= MaxHold
  BY DEF CheckPresses
<1> HIDE DEF up
<1>3. up = changed \cap pressed
  BY DEF up
<1>4. ASSUME NEW b \in pressed
      PROVE  /\ b \in Buttons /\ held'[b] = held[b] + elapsed
             /\ now' = Plus(start[b], held[b] + elapsed)
             /\ Minus(now', start[b]) = held[b] + elapsed
  <2>1. /\ b \in Buttons /\ held[b] \in Nat /\ held[b] <= MaxHold
        /\ start[b] \in 0..(Wrap - 1) /\ now \in 0..(Wrap - 1)
        /\ now = Plus(start[b], held[b])
    BY DEF PressInv, PressTyped, HeldTrue
  <2>2. held[b] + elapsed < Wrap
    BY <1>0, <2>1
  <2>3. /\ Plus(now, elapsed) = Plus(start[b], held[b] + elapsed)
        /\ Minus(Plus(now, elapsed), start[b]) = held[b] + elapsed
    BY <1>0, <2>1, <2>2, Elapsed
  <2>4. held'[b] = held[b] + elapsed
    BY <1>2, <2>1
  <2> QED BY <1>1, <2>1, <2>3, <2>4
<1>5. PressTyped'
  <2>1. pressed' \subseteq Buttons
    BY <1>2, <1>3 DEF PressInv, PressTyped
  <2>2. held' \in [Buttons -> Nat]
    BY <1>0, <1>2 DEF PressInv, PressTyped
  <2>3. start' \in [Buttons -> 0..(Wrap - 1)]
    <3>1. 0 \in 0..(Wrap - 1)
      BY <1>0
    <3> QED BY <1>1, <1>2, <3>1 DEF PressInv, PressTyped
  <2> QED BY <1>1, <2>1, <2>2, <2>3 DEF PressTyped
<1>6. ASSUME NEW b \in pressed'
      PROVE  held'[b] <= MaxHold /\ now' = Plus(start'[b], held'[b])
  <2>1. b \in Buttons /\ held'[b] <= MaxHold /\ b \notin up
    BY <1>2, <1>3, <1>5, <1>6 DEF PressTyped
  <2>2. CASE b \in pressed
    <3>1. b \notin changed
      BY <1>3, <2>1, <2>2
    <3>2. start'[b] = start[b]
      BY <1>2, <2>1, <3>1
    <3> QED BY <1>4, <2>1, <2>2, <3>2
  <2>3. CASE b \notin pressed
    <3>1. b \in changed
      BY <1>2, <1>6, <2>3
    <3>2. start'[b] = now' /\ held'[b] = 0
      BY <1>2, <2>1, <2>3, <3>1
    <3> QED BY <1>0, <1>1, <2>1, <3>2 DEF Plus
  <2> QED BY <2>2, <2>3
<1>7. ASSUME NEW b \in pressed \ pressed'
      PROVE  b \in released' <=> held'[b] < LongPress
  <2>1. b \in up /\ b \in pressed
    BY <1>2, <1>7
  <2>2. b \in released' <=> IsShort(held'[b])
    BY <1>2, <1>4, <2>1
  <2>3. held'[b] \in Nat /\ PressTime <= held'[b]
    BY <1>0, <1>4, <2>1 DEF PressInv, PressTyped
  <2> QED BY <1>0, <2>2, <2>3 DEF IsShort
<1> QED BY <1>5, <1>6, <1>7 DEF PressInv, HeldTrue

LEMMA PressNext ==
    ASSUME PressInv, [Next]_vars
    PROVE  PressInv'
<1>1. CASE Navigate \/ Processing \/ UNCHANGED vars
  BY <1>1 DEF Navigate, Processing, vars, pressVars, PressInv, PressTyped, HeldTrue, Plus
<1>2. CASE CrashAndRestart
  BY <1>2, ClockAssumption
  DEF CrashAndRestart, PressInv, PressTyped, HeldTrue
<1> QED BY <1>1, <1>2, PassKeeps DEF Next

(* A press is short or long by how long it lasted, wherever the clock      *)
(* wraps in it, as long as it lasts less than the clock's range            *)
(* (buttons.c:26-49).                                                      *)
THEOREM PressesClassified == Spec => ClassifiedByDuration
<1> DEFINE Classified == \A b \in Buttons : b \in pressed \ pressed' /\ held'[b] > held[b]
                               => (b \in released' <=> held'[b] < LongPress)
<1>2. PressInv /\ [Next]_vars => [Classified]_vars
  <2> SUFFICES ASSUME PressInv, Next PROVE Classified
    BY DEF Classified
  <2>1. CASE Navigate \/ Processing
    BY <2>1 DEF Navigate, Processing, pressVars
  <2>2. CASE CrashAndRestart
    BY <2>2 DEF CrashAndRestart, PressInv, PressTyped
  <2> QED BY <2>1, <2>2, PassKeeps DEF Next
<1> HIDE DEF Classified
<1>3. PressInv /\ [Next]_vars => PressInv'
  BY PressNext
<1>4. Init => PressInv
  BY PressInit
<1>5. Spec => [][Classified]_vars
  BY <1>2, <1>3, <1>4, PTL DEF Spec
<1> QED BY <1>5 DEF Classified, ClassifiedByDuration

(* Every variable of the button task keeps its type; start and now are     *)
(* 32-bit times throughout (buttons.c:26-31).                              *)
THEOREM ButtonsTypeCorrect == Spec => []TypeOK
<1>2. PressInv /\ MenuTypeOK => TypeOK
  BY DEF PressInv, PressTyped, TypeOK
<1>3. PressInv /\ [Next]_vars => PressInv'
  BY PressNext
<1>4. Init => PressInv
  BY PressInit
<1> QED BY <1>2, <1>3, <1>4, ButtonsImplementMenu, MenuTypeCorrect, PTL DEF Spec
=============================================================================
