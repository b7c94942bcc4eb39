--------------------------- MODULE DeviceControl ---------------------------
(***************************************************************************)
(* Who switches a relay and who reports it.  A device has a relay and an   *)
(* entry in the devices array.  The relay is switched by the processing    *)
(* task for a set command (setPower), by the button task for a menu item   *)
(* (deviceAction, which then has a task of its own report the status) and  *)
(* by every answer to GET devices.json, entry by entry; the last is asked  *)
(* for by the boot and by the processing task, each on the same array.     *)
(* read_acs712_task moves currentDeviceIndex.  No lock is taken anywhere.  *)
(* The database is external: an answer may hold any statuses, and a        *)
(* request may fail.  The id of a device is its index in the array, and    *)
(* the flash has a pin for it.                                             *)
(***************************************************************************)
EXTENDS Naturals

CONSTANTS
    DeviceCount,  \* deviceCount
    Slots         \* bound: the firebase_update_tasks alive at a time

ASSUME DeviceAssumption == DeviceCount \in Nat \ {0}

Devices == 0 .. DeviceCount - 1
Nobody == DeviceCount   \* no device: the bound of the loops over them

VARIABLES
    on,       \* the relays; a pin at level 0 powers its relay
    loaded,   \* devices is not NULL
    entry,    \* how much of devices[i] has been filled, and its pin
    state,    \* devices[i].state
    loader,   \* what the boot and the processing task do about the array
    at,       \* index, of the loop over the answer
    press,    \* the locals of deviceAction
    updates,  \* the firebase_update_tasks
    current,  \* currentDeviceIndex
    sensor,   \* the device read_acs712_task measures
    last      \* history: what touched the relay or the entry last

arrayVars == <<loaded, entry, state>>
loadVars == <<loader, at>>
sensorVars == <<current, sensor>>
vars == <<on, loaded, entry, state, loader, at, press, updates, current, sensor, last>>
----------------------------------------------------------------------------
Loaders == {"boot", "process"}
Statuses == [Devices -> BOOLEAN]
(* "raw": what malloc left; "typed": all but the pin is stored; then the   *)
(* pin is "good", or has garbage above its low byte, or is -1.             *)
Pins == {"good", "wide", "none"}
Entries == Pins \cup {"raw", "typed"}
(* held: the pointer taken is into the array that devices points to.       *)
(* again: history, the relay and the entry were last touched by a press.   *)
Presses == [step: {"idle", "toggle", "level"}, dev: Devices, held: BOOLEAN, again: BOOLEAN]
Updates == [step: {"none", "started", "read", "patch"}, dev: Devices, held: BOOLEAN, st: BOOLEAN]
NoPress == [step |-> "idle", dev |-> 0, held |-> FALSE, again |-> FALSE]
NoUpdate == [step |-> "none", dev |-> 0, held |-> FALSE, st |-> FALSE]
NewUpdate == [NoUpdate EXCEPT !.step = "started"]

Move(t, l) == loader' = [loader EXCEPT ![t] = l]
AllTouchedBy(who) == last' = [d \in Devices |-> who]
TouchedBy(who, d) == last' = [last EXCEPT ![d] = who]
Switch(d, st) == on' = [on EXCEPT ![d] = st]

(* The pointers that were taken into the array are not into the new one.   *)
DropPointers ==
    /\ press' = [press EXCEPT !.held = FALSE]
    /\ updates' = [s \in Slots |-> [updates[s] EXCEPT !.held = FALSE]]
----------------------------------------------------------------------------
(* GET devices.json.  The processing task frees the array before it asks,  *)
(* the boot does not.  The exchange fails, or its answer is applied: malloc*)
(* may fail, and does not clear what it gives.                             *)
FreeDevices == /\ loader["process"] = "idle"
               /\ loaded' = FALSE
               /\ DropPointers
               /\ Move("process", "get")
               /\ UNCHANGED <<on, entry, state, at, sensorVars, last>>

GetDevices(t) == /\ loader[t] = "get"
                 /\ Move(t, "malloc") \/ Move(t, "idle")
                 /\ UNCHANGED <<on, arrayVars, at, press, updates, sensorVars, last>>

NewArray(t) ==
    /\ loader[t] = "malloc"
    /\ \/ /\ loaded' = TRUE /\ entry' = [d \in Devices |-> "raw"]
          /\ Move(t, "store") /\ at' = [at EXCEPT ![t] = 0]
       \/ loaded' = FALSE /\ Move(t, "idle") /\ UNCHANGED <<entry, at>>
    /\ DropPointers
    /\ AllTouchedBy("load")
    /\ UNCHANGED <<on, state, sensorVars>>

(* Every entry: its fields, the pin from the flash, the relay.  The array  *)
(* is the global one each time, whoever has put it there meanwhile.        *)
StoreEntry(t) ==
    /\ loader[t] = "store" /\ loaded
    /\ \E st \in BOOLEAN : state' = [state EXCEPT ![at[t]] = st]
    /\ entry' = [entry EXCEPT ![at[t]] = IF @ = "raw" THEN "typed" ELSE @]
    /\ TouchedBy("load", at[t])
    /\ Move(t, "pin")
    /\ UNCHANGED <<on, loaded, at, press, updates, sensorVars>>

(* read_device_pin_from_nvs writes one byte of the four, and -1 follows    *)
(* when it fails.                                                          *)
PinsAfter(e) == CASE e = "raw" -> {"raw"}
                  [] e = "typed" -> Pins
                  [] e = "good" -> {"good", "none"}
                  [] e \in {"wide", "none"} -> {"wide", "none"}

ReadPin(t) ==
    /\ loader[t] = "pin" /\ loaded
    /\ \E p \in PinsAfter(entry[at[t]]) : entry' = [entry EXCEPT ![at[t]] = p]
    /\ TouchedBy("load", at[t])
    /\ Move(t, "power")
    /\ UNCHANGED <<on, loaded, state, at, press, updates, sensorVars>>

(* setPower takes the low byte of the pin and the state that is there now. *)
ApplyState(t) ==
    /\ loader[t] = "power" /\ loaded
    /\ \/ entry[at[t]] \in {"good", "wide", "typed"} /\ Switch(at[t], state[at[t]])
       \/ entry[at[t]] \in {"none", "typed", "raw"} /\ UNCHANGED on
    /\ TouchedBy("load", at[t])
    /\ at' = [at EXCEPT ![t] = (@ + 1) % DeviceCount]
    /\ Move(t, IF at[t] + 1 < DeviceCount THEN "store" ELSE "idle")
    /\ UNCHANGED <<arrayVars, press, updates, sensorVars>>
----------------------------------------------------------------------------
(* A set command: setPower on the pin read from the flash; the entry of    *)
(* the devices array is left alone.                                        *)
SetCommand ==
    /\ loader["process"] = "idle"
    /\ \E d \in Devices, st \in BOOLEAN : Switch(d, st) /\ TouchedBy("set", d)
    /\ UNCHANGED <<arrayVars, loadVars, press, updates, sensorVars>>
----------------------------------------------------------------------------
(* app_main creates the button task and the sensor's task when its own GET *)
(* has returned.                                                           *)
PanelRuns == loader["boot"] = "idle"

(* deviceAction: ENTER on an item takes devices[currentDeviceIndex],       *)
(* whatever the item.                                                      *)
SelectDevice ==
    /\ PanelRuns /\ press.step = "idle" /\ loaded /\ entry[current] # "raw"
    /\ press' = [NoPress EXCEPT !.step = "toggle", !.dev = current, !.held = TRUE]
    /\ UNCHANGED <<on, arrayVars, loadVars, updates, sensorVars, last>>

(* Mutant: the state is not stored. *)
ToggleNothing ==
    /\ press.step = "toggle" /\ press.held
    /\ press' = [press EXCEPT !.step = "level", !.again = last[press.dev] = "press"]
    /\ TouchedBy("toggle", press.dev)
    /\ UNCHANGED <<on, arrayVars, loadVars, updates, sensorVars>>

ToggleState ==
    /\ press.step = "toggle" /\ press.held
    /\ state' = [state EXCEPT ![press.dev] = ~@]
    /\ press' = [press EXCEPT !.step = "level", !.again = last[press.dev] = "press"]
    /\ TouchedBy("toggle", press.dev)
    /\ UNCHANGED <<on, loaded, entry, loadVars, updates, sensorVars>>

StartUpdate == \/ \E s \in Slots : /\ updates[s].step = "none"
                                   /\ updates' = [updates EXCEPT ![s] = NewUpdate]
               \/ UNCHANGED updates

(* The new state goes to the pin as its level, so the relay is powered     *)
(* when it is FALSE; it is the one in memory, or the one just computed.  A *)
(* pin that is none is refused by the driver, one not yet read may be any. *)
LevelOf(d) == IF last[d] = "toggle" THEN {~state[d]} ELSE BOOLEAN

(* Mutant: the level is the one of setPower. *)
WritePower ==
    /\ press.step = "level" /\ press.held
    /\ \/ /\ entry[press.dev] \in {"good", "typed"}
          /\ \E st \in LevelOf(press.dev) : Switch(press.dev, ~st)
       \/ entry[press.dev] # "good" /\ UNCHANGED on
    /\ TouchedBy(IF last[press.dev] = "toggle" THEN "press" ELSE "mixed", press.dev)
    /\ press' = NoPress
    /\ StartUpdate
    /\ UNCHANGED <<arrayVars, loadVars, sensorVars>>

WriteLevel ==
    /\ press.step = "level" /\ press.held
    /\ \/ /\ entry[press.dev] \in {"good", "typed"}
          /\ \E st \in LevelOf(press.dev) : Switch(press.dev, st)
       \/ entry[press.dev] # "good" /\ UNCHANGED on
    /\ TouchedBy(IF last[press.dev] = "toggle" THEN "press" ELSE "mixed", press.dev)
    /\ press' = NoPress
    /\ StartUpdate
    /\ UNCHANGED <<arrayVars, loadVars, sensorVars>>

(* The array was replaced under deviceAction: it reads and writes what is  *)
(* now where the entry was.                                                *)
StrayPress ==
    /\ press.step # "idle" /\ ~press.held
    /\ \/ UNCHANGED <<on, state>>
       \/ \E st \in BOOLEAN : Switch(press.dev, st) /\ UNCHANGED state
       \/ state' = [state EXCEPT ![press.dev] = ~@] /\ UNCHANGED on
       \/ \E st \in BOOLEAN : Switch(press.dev, st) /\ state' = [state EXCEPT ![press.dev] = ~@]
    /\ TouchedBy("mixed", press.dev)
    /\ press' = NoPress
    /\ StartUpdate
    /\ UNCHANGED <<loaded, entry, loadVars, sensorVars>>
----------------------------------------------------------------------------
(* firebase_update_task takes a pointer with the index that is there when  *)
(* it runs, and then reads the state and the index again.                  *)
TakePointer(s) ==
    /\ updates[s].step = "started" /\ loaded
    /\ updates' = [updates EXCEPT ![s].step = "read", ![s].dev = current, ![s].held = TRUE]
    /\ UNCHANGED <<on, arrayVars, loadVars, press, sensorVars, last>>

Reported(u) == IF u.held /\ entry[u.dev] # "raw" THEN {~state[u.dev]} ELSE BOOLEAN

ReadStatus(s) ==
    /\ updates[s].step = "read"
    /\ \E st \in Reported(updates[s]) :
           updates' = [updates EXCEPT ![s].step = "patch", ![s].dev = current, ![s].st = st]
    /\ UNCHANGED <<on, arrayVars, loadVars, press, sensorVars, last>>

PatchStatus(s) ==
    /\ updates[s].step = "patch"
    /\ updates' = [updates EXCEPT ![s] = NoUpdate]
    /\ UNCHANGED <<on, arrayVars, loadVars, press, sensorVars, last>>
----------------------------------------------------------------------------
(* read_acs712_task finds a relay that is powered, measures for a second   *)
(* and stores the index.  A pin it cannot use gives any level.             *)
Measure ==
    /\ PanelRuns /\ loaded /\ sensor = Nobody
    /\ \E d \in Devices : /\ entry[d] # "raw" /\ (entry[d] = "good" => on[d])
                          /\ sensor' = d
    /\ UNCHANGED <<on, arrayVars, loadVars, press, updates, current, last>>

(* Mutant: the index is stored after the loop has stepped it. *)
StoreNextIndex ==
    /\ sensor # Nobody
    /\ current' = sensor + 1 /\ sensor' = Nobody
    /\ UNCHANGED <<on, arrayVars, loadVars, press, updates, last>>

StoreIndex ==
    /\ sensor # Nobody
    /\ current' = sensor /\ sensor' = Nobody
    /\ UNCHANGED <<on, arrayVars, loadVars, press, updates, last>>
----------------------------------------------------------------------------
(* app_main sets the relay off; it asks for the devices at its end.        *)
AllOff == [d \in Devices |-> FALSE]
BootAsks == [t \in Loaders |-> IF t = "boot" THEN "get" ELSE "idle"]
Init == /\ on = AllOff /\ loaded = FALSE
        /\ entry = [d \in Devices |-> "raw"] /\ state = AllOff
        /\ loader = BootAsks /\ at = [t \in Loaders |-> 0]
        /\ press = NoPress /\ updates = [s \in Slots |-> NoUpdate]
        /\ current = 0 /\ sensor = Nobody
        /\ last = [d \in Devices |-> "load"]

(* A task reads through the null pointer, through what malloc left in an   *)
(* entry, or through a pointer that is stale: the chip may reset.          *)
Filling(t) == loader[t] \in {"store", "pin", "power"}
BadRead == \/ ~loaded /\ (PanelRuns \/ \E t \in Loaders : Filling(t))
           \/ ~loaded /\ \E s \in Slots : updates[s].step = "started"
           \/ \E t \in Loaders : loader[t] = "power" /\ entry[at[t]] = "raw"
           \/ PanelRuns /\ \E d \in Devices : entry[d] = "raw"
           \/ press.step # "idle" /\ ~press.held
           \/ \E s \in Slots : updates[s].step = "read" /\ ~updates[s].held
Crash == /\ BadRead
         /\ on' = AllOff /\ loaded' = FALSE
         /\ entry' = [d \in Devices |-> "raw"] /\ state' = AllOff
         /\ loader' = BootAsks /\ at' = [t \in Loaders |-> 0]
         /\ press' = NoPress /\ updates' = [s \in Slots |-> NoUpdate]
         /\ current' = 0 /\ sensor' = Nobody
         /\ last' = [d \in Devices |-> "load"]

Load(t) == GetDevices(t) \/ NewArray(t) \/ StoreEntry(t) \/ ReadPin(t) \/ ApplyState(t)
DeviceAction == SelectDevice \/ ToggleState \/ WriteLevel \/ StrayPress
Update(s) == TakePointer(s) \/ ReadStatus(s) \/ PatchStatus(s)
Next == \/ FreeDevices \/ SetCommand \/ DeviceAction \/ Measure \/ StoreIndex \/ Crash
        \/ \E t \in Loaders : Load(t)
        \/ \E s \in Slots : Update(s)
Spec == Init /\ [][Next]_vars
----------------------------------------------------------------------------
TypeOK == /\ on \in Statuses /\ loaded \in BOOLEAN
          /\ entry \in [Devices -> Entries] /\ state \in Statuses
          /\ loader \in [Loaders -> {"idle", "get", "malloc", "store", "pin", "power"}]
          /\ at \in [Loaders -> Devices]
          /\ press \in Presses /\ updates \in [Slots -> Updates]
          /\ current \in Devices /\ sensor \in Devices \cup {Nobody}
          /\ last \in [Devices -> {"load", "set", "toggle", "press", "mixed"}]

Writes(d) == /\ press.step = "level" /\ press.held /\ press.dev = d
             /\ last'[d] \in {"press", "mixed"}

(* A press on a device that only presses have touched since the one before *)
(* toggles its relay, whatever the loads, the set commands, the reports    *)
(* and the measurements do to other devices and to the index meanwhile     *)
(* (main.cpp:238-239).                                                     *)
SecondPressToggles ==
    [][\A d \in Devices : Writes(d) /\ press.again /\ last[d] = "toggle" /\ entry[d] = "good"
                            => on'[d] # on[d]]_vars

(* What firebase_update_task reads from an entry that presses alone have   *)
(* touched since it was filled is what the relay is: the level deviceAction*)
(* writes and the status its task reports are both the opposite of the     *)
(* state (main.cpp:220, 239).  This takes that the index has not moved     *)
(* while it reads; it may belong to another device than the press.         *)
ReportIsTrue ==
    [][\A s \in Slots : LET u == updates[s] IN
           /\ u.step = "read" /\ updates'[s].step = "patch" /\ u.held /\ u.dev = current
           /\ last[u.dev] = "press" /\ entry[u.dev] = "good"
           => updates'[s].st = on[u.dev]]_vars

(* "Toggle the relay state" (main.cpp:237): every press on a device whose  *)
(* pin is good does, if nobody else touches the device meanwhile.          *)
PressToggles ==
    [][\A d \in Devices : Writes(d) /\ last[d] = "toggle" /\ entry[d] = "good"
                            => on'[d] # on[d]]_vars
=============================================================================
