-------------------------------- MODULE Menu --------------------------------
(***************************************************************************)
(* The menu on the LCD.  The button task turns three buttons into moves of *)
(* currentMenuIndex and of menuSystem.currentMenu; the processing task     *)
(* replaces the items of submenu1, one per device and VOLVER, some time    *)
(* after it has fetched the devices; until then submenu1 is empty.  The    *)
(* two tasks run on two cores and share submenu1 without a lock.  What is  *)
(* on the LCD is left out; which items displayMenu reads for it is not.    *)
(***************************************************************************)
EXTENDS Integers

CONSTANT DeviceCounts  \* the lengths the devices array may have when it is fetched

ASSUME CountsAssumption == DeviceCounts \subseteq Nat /\ DeviceCounts # {}

VARIABLES
    current,   \* menuSystem.currentMenu
    index,     \* currentMenuIndex
    size,      \* submenu1.itemCount
    length,    \* items that submenu1.items points to; 0 for NULL
    live,      \* submenu1.items is not freed
    named,     \* nor are the names of the devices, and all of them are stored
    released,  \* the BTN_..._RELEASED flags that are up
    populate,  \* where populate_device_menu stands
    count,     \* deviceCount as populate_device_menu has read it; 0 before and after
    seen       \* the menu its displayMenu has found current; "main" before and after

itemVars == <<size, length, live, named>>
populateVars == <<populate, count, seen>>
menuVars == <<current, index, size, length, live, named, released, populate, count, seen>>
----------------------------------------------------------------------------
Menus == {"main", "devices", "sub2", "sub3"}
Buttons == {"up", "down", "enter"}

(* itemCount of each menu: submenu1 has as many as it was given last.      *)
ItemCount(m) == CASE m = "main" -> 4 [] m = "devices" -> size [] OTHER -> 3

(* An item that cannot be read: it is not there, or it or its name is     *)
(* freed.                                                                  *)
BadItem(m, i) == IF m = "devices"
                 THEN ~live \/ i \notin 0..(length - 1) \/ (~named /\ i # length - 1)
                 ELSE i \notin 0..(ItemCount(m) - 1)

(* displayMenu reads the item only if itemCount says that there is one. *)
DisplaysBad(m, i) == i \in 0..(ItemCount(m) - 1) /\ BadItem(m, i)

(* The handlers run in this order within one pass of the button task. *)
OnTurn(b) == /\ b \in released
             /\ b = "down" => "up" \notin released
             /\ b = "enter" => released = {"enter"}
Turn(b) == OnTurn(b) /\ released' = released \ {b}
----------------------------------------------------------------------------
(* check_buttons has found short presses and calls navigate_menu. *)
CheckButtons == /\ released = {}
                /\ released' \in (SUBSET Buttons) \ {{}}
                /\ UNCHANGED <<current, index, itemVars, populateVars>>

(* Mutant: the index never wraps. *)
IndexBelowZero == index - 1
IndexUp == IF index - 1 < 0 THEN ItemCount(current) - 1 ELSE index - 1

(* Mutant: the index wraps one item too late. *)
IndexPastEnd == IF index + 1 > ItemCount(current) THEN 0 ELSE index + 1
IndexDown == IF index + 1 >= ItemCount(current) THEN 0 ELSE index + 1

Up == Turn("up") /\ index' = IndexUp /\ UNCHANGED <<current, itemVars, populateVars>>

Down == Turn("down") /\ index' = IndexDown /\ UNCHANGED <<current, itemVars, populateVars>>

(* The item ENTER acts on, if there is one.                                *)
ItemsThere == IF current = "devices" THEN length ELSE ItemCount(current)
ItemExists == index \in 0..(ItemsThere - 1)
IsVolver == index = ItemsThere - 1
Submenu == <<"devices", "sub2", "sub3">>

(* submenu1Fn, submenu2Fn, submenu3Fn: the first item is shown, the index  *)
(* stays.                                                                  *)
EnterSubmenu == /\ Turn("enter") /\ ItemExists
                /\ current = "main" /\ ~IsVolver
                /\ current' = Submenu[index + 1]
                /\ UNCHANGED <<index, itemVars, populateVars>>

(* volver in a submenu goes to its parent.  Freed items may be the ones of *)
(* another list by now.                                                    *)
Volver == /\ Turn("enter") /\ ItemExists
          /\ current # "main" /\ (IsVolver \/ (current = "devices" /\ ~live))
          /\ current' = "main"
          /\ UNCHANGED <<index, itemVars, populateVars>>

(* The other items leave the menu alone: volver in the main menu, a device *)
(* (deviceAction) and the options without an action.  So may the memory    *)
(* past the items, and freed items.                                        *)
EnterItem == /\ Turn("enter")
             /\ BadItem(current, index) \/ ((current = "main") <=> IsVolver)
             /\ UNCHANGED <<current, index, itemVars, populateVars>>
----------------------------------------------------------------------------
(* free_devices_array, before the list is fetched anew: the names of the   *)
(* items go with it.                                                       *)
FreeNames == /\ populate = "idle" /\ named
             /\ named' = FALSE
             /\ UNCHANGED <<current, index, size, length, live, released, populateVars>>

(* populate_device_menu, on the processing task. *)
Free == /\ populate = "idle"
        /\ count' \in DeviceCounts
        /\ live' = FALSE
        /\ populate' = "items"
        /\ UNCHANGED <<current, index, size, length, named, released, seen>>

(* malloc may fail and leaves the freed items where they are; an entry     *)
(* that the answer did not have complete has no name.                      *)
SetItems == /\ populate = "items"
            /\ \/ /\ length' = count + 1 /\ live' = TRUE /\ named' \in BOOLEAN
                  /\ populate' = "size"
                  /\ UNCHANGED count
               \/ populate' = "idle" /\ count' = 0 /\ UNCHANGED <<length, live, named>>
            /\ UNCHANGED <<current, index, size, released, seen>>

SetSize == /\ populate = "size"
           /\ size' = count + 1 /\ count' = 0
           /\ populate' = IF current = "devices" THEN "show" ELSE "idle"
           /\ UNCHANGED <<current, index, length, live, named, released, seen>>

(* displayMenu reads the current menu again, clears the LCD and writes; a  *)
(* button may come between.                                                *)
ReadMenu == /\ populate = "show"
            /\ seen' = current
            /\ populate' = "draw"
            /\ UNCHANGED <<current, index, itemVars, released, count>>

Draw == /\ populate = "draw"
        /\ populate' = "idle" /\ seen' = "main"
        /\ UNCHANGED <<current, index, itemVars, released, count>>
----------------------------------------------------------------------------
(* submenu1 is empty until the first list has come and was announced. *)
MenuInit == /\ live = TRUE /\ named = TRUE /\ size = 0 /\ length = 0
            /\ current = "main" /\ index = 0
            /\ released = {} /\ populate = "idle" /\ count = 0 /\ seen = "main"

(* A task that reads an item it cannot read may crash: to show it after UP *)
(* or DOWN, to act on it at ENTER, to show the first of submenu1 when that *)
(* is entered or filled.  The chip starts again.                           *)
Crash == /\ \/ OnTurn("up") /\ DisplaysBad(current, IndexUp)
            \/ OnTurn("down") /\ DisplaysBad(current, IndexDown)
            \/ OnTurn("enter") /\ \/ BadItem(current, index)
                                  \/ current = "main" /\ index = 0 /\ DisplaysBad("devices", 0)
            \/ populate = "draw" /\ DisplaysBad(seen, 0)
         /\ live' = TRUE /\ named' = TRUE /\ size' = 0 /\ length' = 0
         /\ current' = "main" /\ index' = 0
         /\ released' = {} /\ populate' = "idle" /\ count' = 0 /\ seen' = "main"

ButtonTask == CheckButtons \/ Up \/ Down \/ EnterSubmenu \/ Volver \/ EnterItem
Populate == FreeNames \/ Free \/ SetItems \/ SetSize \/ ReadMenu \/ Draw
MenuNext == ButtonTask \/ Populate \/ Crash
MenuSpec == MenuInit /\ [][MenuNext]_menuVars
----------------------------------------------------------------------------
(* Types; an empty submenu1 lets the index reach -1 (main.cpp:564-574).    *)
MenuTypeOK == /\ current \in Menus /\ index \in Nat \cup {-1}
              /\ size \in Nat /\ length \in Nat /\ live \in BOOLEAN /\ named \in BOOLEAN
              /\ released \subseteq Buttons
              /\ populate \in {"idle", "items", "size", "show", "draw"}
              /\ count \in DeviceCounts \cup {0} /\ seen \in Menus

(* Where the selection can get to, although no menu change resets the      *)
(* index and submenu1 is refilled at any moment (menuTypes.c:8-32,         *)
(* main.cpp:199-202, 564-587): the submenus of fixed items are never left  *)
(* by it, and past the end of the main menu it is at most the VOLVER of a  *)
(* list with more devices than the main menu has submenus.                 *)
SelectionReach == /\ current \in {"sub2", "sub3"} => index \in 0..2
                  /\ current = "main" =>
                        index \in 0..3 \/ \E n \in DeviceCounts : index \in 4..n
=============================================================================
