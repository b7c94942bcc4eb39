---------------------------- MODULE Menu_proofs ----------------------------
(***************************************************************************)
(* Proofs about Menu, for any device counts and any interleaving of the    *)
(* buttons with populate_device_menu: its types, and how far the selection *)
(* gets.                                                                   *)
(***************************************************************************)
EXTENDS Menu, TLAPS

LEMMA Counting == ASSUME size \in Nat, NEW menu \in Menus
                  PROVE  ItemCount(menu) \in Nat
  BY DEF ItemCount, Menus

LEMMA TypeInit == MenuInit => MenuTypeOK
  BY DEF MenuInit, MenuTypeOK, Menus, Buttons

(* The index leaves the naturals only upwards from an empty menu: UP then  *)
(* takes it to -1 (main.cpp:568-571).                                      *)
LEMMA UpTyped == ASSUME MenuTypeOK, Up PROVE MenuTypeOK'
  <1>1. ItemCount(current) \in Nat
    BY Counting DEF MenuTypeOK
  <1>2. index' \in Nat \cup {-1}
    BY <1>1 DEF MenuTypeOK, Up, IndexUp
  <1> QED BY <1>2 DEF MenuTypeOK, Up, Turn, itemVars, populateVars

LEMMA DownTyped == ASSUME MenuTypeOK, Down PROVE MenuTypeOK'
  <1>1. ItemCount(current) \in Nat
    BY Counting DEF MenuTypeOK
  <1>2. index' \in Nat
    BY <1>1 DEF MenuTypeOK, Down, IndexDown
  <1> QED BY <1>2 DEF MenuTypeOK, Down, Turn, itemVars, populateVars

(* From the main menu, to the submenu of the index. *)
LEMMA Entered == ASSUME MenuTypeOK, EnterSubmenu
                 PROVE  /\ index \in 0..2 /\ index' = index
                        /\ current' = <<"devices", "sub2", "sub3">>[index + 1]
  BY DEF MenuTypeOK, EnterSubmenu, ItemExists, IsVolver, ItemsThere, ItemCount, Submenu

LEMMA EnterTyped == ASSUME MenuTypeOK, EnterSubmenu \/ Volver \/ EnterItem PROVE MenuTypeOK'
  <1>1. CASE EnterSubmenu
    <2>1. current' \in Menus
      BY <1>1, Entered DEF Menus
    <2> QED BY <1>1, <2>1 DEF MenuTypeOK, EnterSubmenu, Turn, itemVars, populateVars
  <1>2. CASE Volver
    BY <1>2 DEF MenuTypeOK, Volver, Turn, itemVars, populateVars, Menus
  <1>3. CASE EnterItem
    BY <1>3 DEF MenuTypeOK, EnterItem, Turn, itemVars, populateVars
  <1> QED BY <1>1, <1>2, <1>3

LEMMA CrashTyped == ASSUME Crash PROVE MenuInit'
  BY DEF Crash, MenuInit

LEMMA PopulateTyped == ASSUME MenuTypeOK, Populate PROVE MenuTypeOK'
  <1>0. count \in Nat
    BY CountsAssumption DEF MenuTypeOK
  <1>1. CASE FreeNames
    BY <1>1 DEF MenuTypeOK, FreeNames, populateVars
  <1>2. CASE Free
    BY <1>2 DEF MenuTypeOK, Free
  <1>3. CASE SetItems
    <2>1. named' \in BOOLEAN
      BY <1>3 DEF MenuTypeOK, SetItems
    <2>2. length' \in Nat
      <3>1. length' \in {length, count + 1}
        BY <1>3 DEF SetItems
      <3> QED BY <1>0, <3>1 DEF MenuTypeOK
    <2>3. live' \in BOOLEAN
      BY <1>3 DEF MenuTypeOK, SetItems
    <2>4. /\ UNCHANGED <<current, index, size, released, seen>>
          /\ populate' \in {"size", "idle"} /\ count' \in {count, 0}
      BY <1>3 DEF SetItems
    <2> QED BY <2>1, <2>2, <2>3, <2>4 DEF MenuTypeOK
  <1>4. CASE SetSize
    BY <1>0, <1>4 DEF MenuTypeOK, SetSize
  <1>5. CASE ReadMenu \/ Draw
    BY <1>5 DEF MenuTypeOK, ReadMenu, Draw, itemVars, Menus
  <1> QED BY <1>1, <1>2, <1>3, <1>4, <1>5 DEF Populate

LEMMA TypeStep == MenuTypeOK /\ [MenuNext]_menuVars => MenuTypeOK'
  <1> SUFFICES ASSUME MenuTypeOK, [MenuNext]_menuVars PROVE MenuTypeOK'
    OBVIOUS
  <1>1. CASE CheckButtons
    BY <1>1 DEF MenuTypeOK, CheckButtons, itemVars, populateVars
  <1>2. CASE UNCHANGED menuVars
    BY <1>2 DEF MenuTypeOK, menuVars
  <1>3. CASE Crash
    BY <1>3, CrashTyped, TypeInit, PTL
  <1> QED BY <1>1, <1>2, <1>3, UpTyped, DownTyped, EnterTyped, PopulateTyped
          DEF MenuNext, ButtonTask

(* Every variable of the menu keeps its type, whatever the device counts   *)
(* and however populate_device_menu and the buttons interleave; the index  *)
(* in particular falls no lower than -1 (main.cpp:564-587).                *)
THEOREM MenuTypeCorrect == MenuSpec => []MenuTypeOK
  <1> QED BY TypeInit, TypeStep, PTL DEF MenuSpec
-----------------------------------------------------------------------------
(* What submenu1 points to has come from a list of the database, also when *)
(* it is freed: this bounds the index that VOLVER takes to the main menu.  *)
FromList == /\ length # 0 => \E n \in DeviceCounts : length = n + 1
            /\ populate \in {"items", "size"} => count \in DeviceCounts
ReachInv == MenuTypeOK /\ FromList /\ SelectionReach

LEMMA ReachInit == MenuInit => ReachInv
  BY TypeInit DEF MenuInit, ReachInv, FromList, SelectionReach

LEMMA FromListStep == ASSUME MenuTypeOK, FromList, [MenuNext]_menuVars PROVE FromList'
  <1>1. CASE ButtonTask \/ UNCHANGED menuVars
    BY <1>1 DEF ButtonTask, CheckButtons, Up, Down, EnterSubmenu, Volver, EnterItem, FromList,
                itemVars, populateVars, menuVars
  <1>2. CASE Populate
    BY <1>2 DEF Populate, FreeNames, Free, SetItems, SetSize, ReadMenu, Draw, FromList,
                itemVars, populateVars
  <1>3. CASE Crash
    BY <1>3 DEF Crash, FromList
  <1> QED BY <1>1, <1>2, <1>3 DEF MenuNext

LEMMA ReachStep == ASSUME ReachInv, [MenuNext]_menuVars PROVE SelectionReach'
  <1>0. /\ current \in Menus /\ index \in Nat \cup {-1} /\ DeviceCounts \subseteq Nat
        /\ SelectionReach
    BY CountsAssumption DEF ReachInv, MenuTypeOK
  <1>1. CASE CheckButtons \/ EnterItem \/ UNCHANGED menuVars
    BY <1>0, <1>1 DEF CheckButtons, EnterItem, menuVars, SelectionReach
  <1>2. CASE Up
    BY <1>0, <1>2 DEF Up, IndexUp, ItemCount, SelectionReach, Menus
  <1>3. CASE Down
    BY <1>0, <1>3 DEF Down, IndexDown, ItemCount, SelectionReach, Menus
  <1>4. CASE EnterSubmenu
    BY <1>4, Entered DEF ReachInv, SelectionReach
  <1>5. CASE Volver
    (* From an item of submenu1, which is one of a list of the database, or  *)
    (* from the last of three.                                               *)
    <2>1. current' = "main" /\ index' = index /\ current # "main"
      BY <1>5 DEF Volver
    <2>2. CASE current = "devices"
      <3>1. index \in 0..(length - 1) /\ length \in Nat
        BY <1>5, <2>2 DEF Volver, ItemExists, ItemsThere, ReachInv, MenuTypeOK
      <3>2. PICK n \in DeviceCounts : length = n + 1
        BY <3>1 DEF ReachInv, FromList
      <3> QED BY <1>0, <2>1, <3>1, <3>2 DEF SelectionReach
    <2>3. CASE current # "devices"
      BY <1>0, <2>1, <2>3 DEF SelectionReach, Menus
    <2> QED BY <2>2, <2>3
  <1>6. CASE Crash
    BY <1>6 DEF Crash, SelectionReach
  <1>7. CASE Populate
    BY <1>0, <1>7 DEF Populate, FreeNames, Free, SetItems, SetSize, ReadMenu, Draw, SelectionReach
  <1> QED BY <1>1, <1>2, <1>3, <1>4, <1>5, <1>6, <1>7 DEF MenuNext, ButtonTask

(* For any lists, empty ones and long ones too, and a refill at any        *)
(* moment, the selection never leaves the submenus of fixed items, and     *)
(* leaves the main menu only to the VOLVER of a list with more than three  *)
(* devices (menuTypes.c:8-32, main.cpp:199-202, 564-587).                  *)
THEOREM SelectionBounded == MenuSpec => []SelectionReach
  <1>1. ReachInv /\ [MenuNext]_menuVars => ReachInv'
    BY TypeStep, FromListStep, ReachStep DEF ReachInv
  <1>2. ReachInv => SelectionReach
    BY DEF ReachInv
  <1> QED BY <1>1, <1>2, ReachInit, PTL DEF MenuSpec
=============================================================================
