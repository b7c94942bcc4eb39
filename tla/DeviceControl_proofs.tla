------------------------ MODULE DeviceControl_proofs ------------------------
(***************************************************************************)
(* Proofs about DeviceControl for any number of devices and update tasks:  *)
(* types, what a press does after a press, and what its task reports.      *)
(***************************************************************************)
EXTENDS DeviceControl, TLAPS

LoaderSteps == {"idle", "get", "malloc", "store", "pin", "power"}
Touches == {"load", "set", "toggle", "press", "mixed"}

LEMMA Indices == /\ 0 \in Devices /\ DeviceCount \in Nat
                 /\ \A d \in Devices : d \in Nat /\ d < DeviceCount
                 /\ \A d \in Devices : (d + 1) % DeviceCount \in Devices
<1>1. DeviceCount \in Nat /\ DeviceCount > 0
  BY DeviceAssumption
<1>2. \A n \in Nat : n % DeviceCount \in 0 .. DeviceCount - 1
  BY <1>1
<1>. QED BY <1>1, <1>2 DEF Devices

LEMMA RecordsTyped == NoPress \in Presses /\ NoUpdate \in Updates /\ NewUpdate \in Updates
  BY Indices DEF NoPress, NoUpdate, NewUpdate, Presses, Updates

LEMMA StartTyped ==
    /\ AllOff \in Statuses
    /\ [d \in Devices |-> "raw"] \in [Devices -> Entries]
    /\ BootAsks \in [Loaders -> LoaderSteps]
    /\ [t \in Loaders |-> 0] \in [Loaders -> Devices]
    /\ [s \in Slots |-> NoUpdate] \in [Slots -> Updates]
    /\ [d \in Devices |-> "load"] \in [Devices -> Touches]
<1>1. AllOff \in Statuses
  BY DEF AllOff, Statuses
<1>2. [d \in Devices |-> "raw"] \in [Devices -> Entries]
  BY DEF Entries
<1>3. BootAsks \in [Loaders -> LoaderSteps]
  BY DEF BootAsks, LoaderSteps
<1>. QED BY <1>1, <1>2, <1>3, RecordsTyped, Indices DEF Touches

LEMMA InitTyped == Init => TypeOK
  BY StartTyped, RecordsTyped, Indices DEF Init, TypeOK, LoaderSteps, Touches

(* What the helpers of the actions leave behind.                           *)
LEMMA MoveTyped ==
    ASSUME TypeOK, NEW t \in Loaders, NEW l \in LoaderSteps, Move(t, l)
    PROVE  loader' \in [Loaders -> LoaderSteps]
  BY DEF TypeOK, Move, LoaderSteps

LEMMA TouchTyped ==
    ASSUME TypeOK, NEW who \in Touches, NEW d \in Devices, TouchedBy(who, d)
    PROVE  last' \in [Devices -> Touches]
  BY DEF TypeOK, TouchedBy, Touches

LEMMA SwitchTyped ==
    ASSUME TypeOK, NEW d \in Devices, NEW st \in BOOLEAN, Switch(d, st)
    PROVE  on' \in Statuses
  BY DEF TypeOK, Switch, Statuses

LEMMA DropTyped ==
    ASSUME TypeOK, DropPointers
    PROVE  press' \in Presses /\ updates' \in [Slots -> Updates]
<1>1. press' \in Presses
  BY DEF DropPointers, TypeOK, Presses
<1>2. \A s \in Slots : [updates[s] EXCEPT !.held = FALSE] \in Updates
  BY DEF TypeOK, Updates
<1>. QED BY <1>1, <1>2 DEF DropPointers

LEMMA StartUpdateTyped ==
    ASSUME TypeOK, StartUpdate
    PROVE  updates' \in [Slots -> Updates]
  BY RecordsTyped DEF StartUpdate, TypeOK

LEMMA LoadTyped ==
    ASSUME TypeOK, NEW t \in Loaders, Load(t)
    PROVE  TypeOK'
<1>. USE DEF arrayVars, loadVars, sensorVars
<1>0. at[t] \in Devices /\ entry[at[t]] \in Entries
  BY DEF TypeOK
<1>1. CASE GetDevices(t)
  <2>1. loader' \in [Loaders -> LoaderSteps]
    BY <1>1, MoveTyped DEF GetDevices, LoaderSteps
  <2>. QED BY <1>1, <2>1 DEF GetDevices, TypeOK, LoaderSteps
<1>2. CASE NewArray(t)
  <2>1. loader' \in [Loaders -> LoaderSteps]
    BY <1>2, MoveTyped DEF NewArray, LoaderSteps
  <2>2. press' \in Presses /\ updates' \in [Slots -> Updates]
    BY <1>2, DropTyped DEF NewArray
  <2>3. entry' \in [Devices -> Entries] /\ at' \in [Loaders -> Devices] /\ loaded' \in BOOLEAN
    BY <1>2, StartTyped, Indices DEF NewArray, TypeOK
  <2>4. last' \in [Devices -> Touches]
    BY <1>2, StartTyped DEF NewArray, AllTouchedBy
  <2>. QED BY <1>2, <2>1, <2>2, <2>3, <2>4 DEF NewArray, TypeOK, LoaderSteps, Touches
<1>3. CASE StoreEntry(t)
  <2>1. loader' \in [Loaders -> LoaderSteps]
    BY <1>3, MoveTyped DEF StoreEntry, LoaderSteps
  <2>2. last' \in [Devices -> Touches]
    BY <1>0, <1>3, TouchTyped DEF StoreEntry, Touches
  <2>3. state' \in Statuses
    BY <1>0, <1>3 DEF StoreEntry, TypeOK, Statuses
  <2>4. entry' \in [Devices -> Entries]
    BY <1>0, <1>3 DEF StoreEntry, TypeOK, Entries
  <2>. QED BY <1>3, <2>1, <2>2, <2>3, <2>4 DEF StoreEntry, TypeOK, LoaderSteps, Touches
<1>4. CASE ReadPin(t)
  <2>1. loader' \in [Loaders -> LoaderSteps]
    BY <1>4, MoveTyped DEF ReadPin, LoaderSteps
  <2>2. last' \in [Devices -> Touches]
    BY <1>0, <1>4, TouchTyped DEF ReadPin, Touches
  <2>3. \A e \in Entries : PinsAfter(e) \subseteq Entries
    BY DEF PinsAfter, Entries, Pins
  <2>4. entry' \in [Devices -> Entries]
    BY <1>0, <1>4, <2>3 DEF ReadPin, TypeOK
  <2>. QED BY <1>4, <2>1, <2>2, <2>4 DEF ReadPin, TypeOK, LoaderSteps, Touches
<1>5. CASE ApplyState(t)
  <2>1. loader' \in [Loaders -> LoaderSteps]
    BY <1>5, MoveTyped DEF ApplyState, LoaderSteps
  <2>2. last' \in [Devices -> Touches]
    BY <1>0, <1>5, TouchTyped DEF ApplyState, Touches
  <2>3. on' \in Statuses
    BY <1>0, <1>5, SwitchTyped DEF ApplyState, TypeOK, Statuses
  <2>4. at' \in [Loaders -> Devices]
    BY <1>0, <1>5, Indices DEF ApplyState, TypeOK
  <2>. QED BY <1>5, <2>1, <2>2, <2>3, <2>4 DEF ApplyState, TypeOK, LoaderSteps, Touches
<1>. QED BY <1>1, <1>2, <1>3, <1>4, <1>5 DEF Load

LEMMA ActionTyped ==
    ASSUME TypeOK, DeviceAction
    PROVE  TypeOK'
<1>. USE DEF arrayVars, loadVars, sensorVars
<1>0. press.dev \in Devices /\ press.held \in BOOLEAN
  BY DEF TypeOK, Presses
<1>1. CASE SelectDevice
  <2>1. press' \in Presses
    BY <1>1 DEF SelectDevice, TypeOK, Presses, NoPress
  <2>. QED BY <1>1, <2>1 DEF SelectDevice, TypeOK
<1>2. CASE ToggleState
  <2>1. press' \in Presses
    BY <1>2 DEF ToggleState, TypeOK, Presses
  <2>2. last' \in [Devices -> Touches]
    BY <1>0, <1>2, TouchTyped DEF ToggleState, Touches
  <2>3. state' \in Statuses
    BY <1>0, <1>2 DEF ToggleState, TypeOK, Statuses
  <2>. QED BY <1>2, <2>1, <2>2, <2>3 DEF ToggleState, TypeOK, Touches
<1>3. CASE WriteLevel
  <2>1. last' \in [Devices -> Touches]
    BY <1>0, <1>3, TouchTyped DEF WriteLevel, Touches
  <2>2. LevelOf(press.dev) \subseteq BOOLEAN
    BY DEF LevelOf
  <2>3. on' \in Statuses
    BY <1>0, <1>3, <2>2, SwitchTyped DEF WriteLevel, TypeOK
  <2>. QED BY <1>3, <2>1, <2>3, StartUpdateTyped, RecordsTyped DEF WriteLevel, TypeOK, Touches
<1>4. CASE StrayPress
  <2>1. last' \in [Devices -> Touches]
    BY <1>0, <1>4, TouchTyped DEF StrayPress, Touches
  <2>2. on' \in Statuses
    BY <1>0, <1>4, SwitchTyped DEF StrayPress, TypeOK
  <2>3. state' \in Statuses
    BY <1>0, <1>4 DEF StrayPress, TypeOK, Statuses
  <2>. QED BY <1>4, <2>1, <2>2, <2>3, StartUpdateTyped, RecordsTyped
           DEF StrayPress, TypeOK, Touches
<1>. QED BY <1>1, <1>2, <1>3, <1>4 DEF DeviceAction

LEMMA UpdateTyped ==
    ASSUME TypeOK, NEW s \in Slots, Update(s)
    PROVE  TypeOK'
<1>. USE DEF arrayVars, loadVars, sensorVars
<1>0. updates[s] \in Updates /\ current \in Devices
  BY DEF TypeOK
<1>1. CASE TakePointer(s)
  <2>1. updates' \in [Slots -> Updates]
    BY <1>0, <1>1 DEF TakePointer, TypeOK, Updates
  <2>. QED BY <1>1, <2>1 DEF TakePointer, TypeOK
<1>2. CASE ReadStatus(s)
  <2>1. Reported(updates[s]) \subseteq BOOLEAN
    BY DEF Reported
  <2>2. PICK st \in BOOLEAN :
            updates' = [updates EXCEPT ![s].step = "patch", ![s].dev = current, ![s].st = st]
    BY <1>2, <2>1 DEF ReadStatus
  <2>3. updates' \in [Slots -> Updates]
    BY <1>0, <2>2 DEF TypeOK, Updates
  <2>. QED BY <1>2, <2>3 DEF ReadStatus, TypeOK
<1>3. CASE PatchStatus(s)
  <2>1. updates' \in [Slots -> Updates]
    BY <1>3, RecordsTyped DEF PatchStatus, TypeOK
  <2>. QED BY <1>3, <2>1 DEF PatchStatus, TypeOK
<1>. QED BY <1>1, <1>2, <1>3 DEF Update

LEMMA NextTyped == TypeOK /\ [Next]_vars => TypeOK'
<1>. SUFFICES ASSUME TypeOK, [Next]_vars PROVE TypeOK'
  OBVIOUS
<1>. USE DEF arrayVars, loadVars, sensorVars
<1>1. CASE FreeDevices
  <2>1. loader' \in [Loaders -> LoaderSteps]
    BY <1>1, MoveTyped DEF FreeDevices, LoaderSteps, Loaders
  <2>. QED BY <1>1, <2>1, DropTyped DEF FreeDevices, TypeOK, LoaderSteps
<1>2. CASE SetCommand
  <2>1. PICK d \in Devices, st \in BOOLEAN : Switch(d, st) /\ TouchedBy("set", d)
    BY <1>2 DEF SetCommand
  <2>2. on' \in Statuses /\ last' \in [Devices -> Touches]
    BY <2>1, SwitchTyped, TouchTyped DEF Touches
  <2>. QED BY <1>2, <2>2 DEF SetCommand, TypeOK, Touches
<1>3. CASE Measure \/ StoreIndex
  BY <1>3 DEF Measure, StoreIndex, TypeOK
<1>4. CASE Crash
  BY <1>4, StartTyped, RecordsTyped, Indices DEF Crash, TypeOK, LoaderSteps, Touches
<1>5. CASE UNCHANGED vars
  BY <1>5 DEF vars, TypeOK
<1>. QED
  BY <1>1, <1>2, <1>3, <1>4, <1>5, LoadTyped, ActionTyped, UpdateTyped DEF Next

(* Every variable keeps its type, the index of read_acs712_task included:  *)
(* it stays an index of the devices array (main.cpp:549).                  *)
THEOREM DeviceTypeCorrect == Spec => []TypeOK
  BY InitTyped, NextTyped, PTL DEF Spec
----------------------------------------------------------------------------
(* After a press the relay is the opposite of the state of the entry, and  *)
(* stays so until a load or a set command touches the device; a press that *)
(* has stored the state but not yet switched the relay is the one under    *)
(* way.                                                                    *)
PressedIsOpposite ==
    \A d \in Devices : last[d] = "press" /\ entry[d] = "good" => on[d] = ~state[d]
ToggledIsPressed == \A d \in Devices : last[d] = "toggle" => press.step = "level" /\ press.dev = d
ToggledAgain ==
    \A d \in Devices : last[d] = "toggle" /\ press.again /\ entry[d] = "good" => on[d] = state[d]
PressInv == PressedIsOpposite /\ ToggledIsPressed /\ ToggledAgain

LEMMA PressInit == Init => PressInv
  BY DEF Init, PressInv, PressedIsOpposite, ToggledIsPressed, ToggledAgain

(* A step that touches one device d in the name of a load or a set command *)
(* leaves the others alone.                                                *)
LEMMA TouchKeeps ==
    ASSUME TypeOK, PressInv, NEW d \in Devices, NEW who \in {"load", "set"},
           TouchedBy(who, d), UNCHANGED press,
           \A e \in Devices : e # d =>
               on'[e] = on[e] /\ entry'[e] = entry[e] /\ state'[e] = state[e]
    PROVE  PressInv'
<1>1. \A e \in Devices : last'[e] = IF e = d THEN who ELSE last[e]
  BY DEF TouchedBy, TypeOK
<1>. QED BY <1>1 DEF PressInv, PressedIsOpposite, ToggledIsPressed, ToggledAgain

LEMMA AllLoaded ==
    ASSUME last' = [d \in Devices |-> "load"]
    PROVE  PressInv'
  BY DEF PressInv, PressedIsOpposite, ToggledIsPressed, ToggledAgain

LEMMA LoadKeeps ==
    ASSUME TypeOK, PressInv, NEW t \in Loaders, Load(t)
    PROVE  PressInv'
<1>. USE DEF arrayVars, loadVars, sensorVars
<1>0. at[t] \in Devices
  BY DEF TypeOK
<1>1. CASE GetDevices(t)
  BY <1>1 DEF GetDevices, PressInv, PressedIsOpposite, ToggledIsPressed, ToggledAgain
<1>2. CASE NewArray(t)
  BY <1>2, AllLoaded DEF NewArray, AllTouchedBy
<1>3. CASE StoreEntry(t)
  BY <1>0, <1>3, TouchKeeps DEF StoreEntry, TypeOK, Statuses
<1>4. CASE ReadPin(t)
  BY <1>0, <1>4, TouchKeeps DEF ReadPin, TypeOK
<1>5. CASE ApplyState(t)
  BY <1>0, <1>5, TouchKeeps DEF ApplyState, Switch, TypeOK, Statuses
<1>. QED BY <1>1, <1>2, <1>3, <1>4, <1>5 DEF Load

LEMMA ActionKeeps ==
    ASSUME TypeOK, PressInv, DeviceAction
    PROVE  PressInv'
<1>. USE DEF arrayVars, loadVars, sensorVars
<1>0. /\ press.dev \in Devices /\ \A d \in Devices : state[d] \in BOOLEAN /\ on[d] \in BOOLEAN
      /\ \A d \in Devices : entry[d] \in Entries
  BY DEF TypeOK, Presses, Statuses
<1>1. CASE SelectDevice
  <2>1. \A d \in Devices : last[d] # "toggle"
    BY <1>1 DEF SelectDevice, PressInv, ToggledIsPressed
  <2>. QED BY <1>1, <2>1
           DEF SelectDevice, PressInv, PressedIsOpposite, ToggledIsPressed, ToggledAgain
<1>2. CASE ToggleState
  <2>1. \A d \in Devices : last[d] # "toggle"
    BY <1>2 DEF ToggleState, PressInv, ToggledIsPressed
  <2>2. /\ \A d \in Devices : state'[d] = IF d = press.dev THEN ~state[d] ELSE state[d]
        /\ \A d \in Devices : last'[d] = IF d = press.dev THEN "toggle" ELSE last[d]
        /\ UNCHANGED <<on, entry>>
    BY <1>0, <1>2 DEF ToggleState, TouchedBy, TypeOK, Statuses
  <2>3. /\ press'.step = "level" /\ press'.dev = press.dev
        /\ press'.again = (last[press.dev] = "press")
    BY <1>2 DEF ToggleState, TypeOK, Presses
  <2>4. PressedIsOpposite'
    BY <2>2 DEF PressInv, PressedIsOpposite
  <2>5. ToggledIsPressed'
    BY <2>1, <2>2, <2>3 DEF ToggledIsPressed
  <2>6. ToggledAgain'
    BY <1>0, <2>1, <2>2, <2>3 DEF PressInv, PressedIsOpposite, ToggledAgain
  <2>. QED BY <2>4, <2>5, <2>6 DEF PressInv
<1>3. CASE WriteLevel
  <2>1. \A d \in Devices : d # press.dev => last[d] # "toggle"
    BY DEF PressInv, ToggledIsPressed
  <2>2. /\ \A d \in Devices : last'[d] = IF d # press.dev THEN last[d]
                                         ELSE IF last[d] = "toggle" THEN "press" ELSE "mixed"
        /\ UNCHANGED <<entry, state>>
    BY <1>0, <1>3 DEF WriteLevel, TouchedBy, TypeOK
  <2>3. \A d \in Devices : d # press.dev => on'[d] = on[d]
    BY <1>0, <1>3 DEF WriteLevel, Switch, TypeOK, Statuses
  <2>4. last[press.dev] = "toggle" /\ entry[press.dev] = "good"
          => on'[press.dev] = ~state[press.dev]
    BY <1>0, <1>3 DEF WriteLevel, LevelOf, Switch, TypeOK, Statuses
  <2>. QED BY <1>0, <2>1, <2>2, <2>3, <2>4
           DEF PressInv, PressedIsOpposite, ToggledIsPressed, ToggledAgain
<1>4. CASE StrayPress
  <2>1. \A d \in Devices : d # press.dev => last[d] # "toggle"
    BY DEF PressInv, ToggledIsPressed
  <2>2. /\ \A d \in Devices : last'[d] = IF d = press.dev THEN "mixed" ELSE last[d]
        /\ UNCHANGED entry
    BY <1>0, <1>4 DEF StrayPress, TouchedBy, TypeOK
  <2>3. \A d \in Devices : d # press.dev => on'[d] = on[d] /\ state'[d] = state[d]
    BY <1>0, <1>4 DEF StrayPress, Switch, TypeOK, Statuses
  <2>. QED BY <2>1, <2>2, <2>3
           DEF PressInv, PressedIsOpposite, ToggledIsPressed, ToggledAgain
<1>. QED BY <1>1, <1>2, <1>3, <1>4 DEF DeviceAction

LEMMA PressNext == TypeOK /\ PressInv /\ [Next]_vars => PressInv'
<1>. SUFFICES ASSUME TypeOK, PressInv, [Next]_vars PROVE PressInv'
  OBVIOUS
<1>. USE DEF arrayVars, loadVars, sensorVars
<1>1. CASE FreeDevices
  <2>1. /\ press'.step = press.step /\ press'.dev = press.dev /\ press'.again = press.again
        /\ UNCHANGED <<on, entry, state, last>>
    BY <1>1 DEF FreeDevices, DropPointers, TypeOK, Presses
  <2>. QED BY <2>1 DEF PressInv, PressedIsOpposite, ToggledIsPressed, ToggledAgain
<1>2. CASE SetCommand
  <2>1. PICK d \in Devices, st \in BOOLEAN : Switch(d, st) /\ TouchedBy("set", d)
    BY <1>2 DEF SetCommand
  <2>2. \A e \in Devices : e # d => on'[e] = on[e]
    BY <2>1 DEF Switch, TypeOK, Statuses
  <2>. QED BY <1>2, <2>1, <2>2, TouchKeeps DEF SetCommand
<1>3. CASE Crash
  BY <1>3, AllLoaded DEF Crash
<1>4. CASE UNCHANGED <<on, entry, state, press, last>>
  BY <1>4 DEF PressInv, PressedIsOpposite, ToggledIsPressed, ToggledAgain
<1>5. CASE Measure \/ StoreIndex \/ UNCHANGED vars \/ \E s \in Slots : Update(s)
  BY <1>4, <1>5 DEF Measure, StoreIndex, vars, Update, TakePointer, ReadStatus, PatchStatus
<1>. QED
  BY <1>1, <1>2, <1>3, <1>5, LoadKeeps, ActionKeeps DEF Next

LEMMA PressInvariant == Spec => [](TypeOK /\ PressInv)
  BY InitTyped, NextTyped, PressInit, PressNext, PTL DEF Spec
----------------------------------------------------------------------------
(* Only deviceAction's last step ends a toggle as a press.                 *)
LEMMA WritesAreLevels ==
    ASSUME TypeOK, [Next]_vars, NEW d \in Devices, Writes(d), last[d] = "toggle"
    PROVE  WriteLevel
<1>. USE DEF arrayVars, loadVars, sensorVars
<1>0. press.step = "level" /\ press.held /\ last'[d] \in {"press", "mixed"}
  BY DEF Writes
<1>1. last'[d] # last[d] /\ last'[d] # "load" /\ last'[d] # "set" /\ last'[d] # "toggle"
  BY <1>0
<1>2. ASSUME NEW who \in {"load", "set", "toggle"}, NEW e \in Devices, TouchedBy(who, e)
      PROVE  FALSE
  BY <1>1, <1>2 DEF TouchedBy, TypeOK
<1>3. ~SetCommand
  BY <1>2 DEF SetCommand
<1>4. \A t \in Loaders : ~Load(t)
  <2>. SUFFICES ASSUME NEW t \in Loaders, Load(t) PROVE FALSE
    OBVIOUS
  <2>1. at[t] \in Devices
    BY DEF TypeOK
  <2>2. ~NewArray(t)
    BY <1>1 DEF NewArray, AllTouchedBy
  <2>. QED BY <1>1, <1>2, <2>1, <2>2 DEF Load, GetDevices, StoreEntry, ReadPin, ApplyState
<1>5. ~Crash
  BY <1>1 DEF Crash
<1>6. ~SelectDevice /\ ~ToggleState /\ ~StrayPress
  BY <1>0 DEF SelectDevice, ToggleState, StrayPress
<1>7. last' # last
  BY <1>1
<1>8. ~FreeDevices /\ ~Measure /\ ~StoreIndex /\ ~UNCHANGED vars
      /\ \A s \in Slots : ~Update(s)
  BY <1>7 DEF FreeDevices, Measure, StoreIndex, vars, Update, TakePointer, ReadStatus,
              PatchStatus
<1>. QED BY <1>3, <1>4, <1>5, <1>6, <1>8 DEF Next, DeviceAction

LEMMA AgainToggles ==
    ASSUME TypeOK, PressInv, [Next]_vars
    PROVE  [\A d \in Devices : Writes(d) /\ press.again /\ last[d] = "toggle" /\ entry[d] = "good"
                                 => on'[d] # on[d]]_vars
<1>. SUFFICES ASSUME NEW d \in Devices, Writes(d), press.again, last[d] = "toggle",
                     entry[d] = "good"
              PROVE  on'[d] # on[d]
  OBVIOUS
<1>1. WriteLevel /\ press.dev = d
  BY WritesAreLevels DEF Writes
<1>2. on[d] = state[d] /\ state[d] \in BOOLEAN
  BY DEF PressInv, ToggledAgain, TypeOK, Statuses
<1>3. on'[d] = ~state[d]
  BY <1>1, <1>2 DEF WriteLevel, LevelOf, Switch, TypeOK, Statuses
<1>. QED BY <1>2, <1>3

(* A press on a device that only presses have touched since the one before *)
(* toggles its relay, whatever every other task does in between, and with  *)
(* garbage in other pins (main.cpp:237-239).                               *)
THEOREM SecondPress == Spec => SecondPressToggles
<1>1. TypeOK /\ PressInv /\ [Next]_vars =>
        [\A d \in Devices : Writes(d) /\ press.again /\ last[d] = "toggle" /\ entry[d] = "good"
                              => on'[d] # on[d]]_vars
  BY AgainToggles
<1>. QED BY <1>1, PressInvariant, PTL DEF Spec, SecondPressToggles

LEMMA ReadsAreTrue ==
    ASSUME TypeOK, PressInv, [Next]_vars, NEW s \in Slots,
           updates[s].step = "read", updates'[s].step = "patch", updates[s].held,
           updates[s].dev = current, last[current] = "press", entry[current] = "good"
    PROVE  updates'[s].st = on[current]
<1>. USE DEF arrayVars, loadVars, sensorVars
<1>0. current \in Devices /\ updates[s] \in Updates
  BY DEF TypeOK
<1>1. updates' # updates
  OBVIOUS
<1>2. ~DropPointers
  BY <1>0 DEF DropPointers, Updates
<1>3. ~StartUpdate
  BY <1>0 DEF StartUpdate, NewUpdate, NoUpdate, TypeOK
<1>4. ~Crash
  BY DEF Crash, NoUpdate
<1>5. ~UNCHANGED vars /\ ~FreeDevices /\ ~SetCommand /\ ~Measure /\ ~StoreIndex
  BY <1>1, <1>2 DEF vars, FreeDevices, SetCommand, Measure, StoreIndex
<1>6. \A t \in Loaders : ~Load(t)
  BY <1>1, <1>2 DEF Load, GetDevices, NewArray, StoreEntry, ReadPin, ApplyState
<1>7. ~DeviceAction
  BY <1>1, <1>3 DEF DeviceAction, SelectDevice, ToggleState, WriteLevel, StrayPress
<1>8. PICK u \in Slots : Update(u)
  BY <1>4, <1>5, <1>6, <1>7 DEF Next
<1>9. CASE TakePointer(u)
  BY <1>9 DEF TakePointer, TypeOK, Updates
<1>10. CASE PatchStatus(u)
  BY <1>10 DEF PatchStatus, TypeOK, NoUpdate
<1>11. CASE ReadStatus(u)
  <2>1. u = s
    BY <1>11 DEF ReadStatus, TypeOK
  <2>2. Reported(updates[s]) = {~state[current]}
    BY DEF Reported
  <2>3. updates'[s].st = ~state[current]
    BY <1>0, <1>11, <2>1, <2>2 DEF ReadStatus, TypeOK, Updates
  <2>4. on[current] = ~state[current]
    BY <1>0 DEF PressInv, PressedIsOpposite
  <2>. QED BY <2>3, <2>4
<1>. QED BY <1>8, <1>9, <1>10, <1>11 DEF Update

(* What firebase_update_task reads from an entry that only presses have    *)
(* touched since it was filled is what the relay is, for any devices, any  *)
(* number of such tasks and any loads, set commands and measurements       *)
(* before (main.cpp:220, 239).                                             *)
THEOREM ReportsTrue == Spec => ReportIsTrue
<1>1. TypeOK /\ PressInv /\ [Next]_vars =>
        [\A s \in Slots : LET u == updates[s] IN
           /\ u.step = "read" /\ updates'[s].step = "patch" /\ u.held /\ u.dev = current
           /\ last[u.dev] = "press" /\ entry[u.dev] = "good"
           => updates'[s].st = on[u.dev]]_vars
  BY ReadsAreTrue
<1>. QED BY <1>1, PressInvariant, PTL DEF Spec, ReportIsTrue
=============================================================================
