---------------------------- MODULE Boot_proofs ----------------------------
(***************************************************************************)
(* Proofs about Boot for every bound: the boot is a run of the station and *)
(* a run of the flash, so what is proved of each holds of it; and the      *)
(* tasks of the command loop exist only with WiFi.                         *)
(***************************************************************************)
EXTENDS Boot, WifiStation_proofs, FiniteSetTheorems

(* The defaults in flash, alone: what the flag says about the other keys.  *)
LEMMA OrderTyped == ASSUME NEW k \in 1..9 PROVE Order[k] \in Keys
  BY DEF Order, Keys

LEMMA OrderCovers == \A key \in Keys : \E k \in 1..9 : Order[k] = key
  BY DEF Order, Keys

(* A key that has been tried is stored or has failed, now or earlier.      *)
Tried == stored \cup failed
PassInv == \A k \in 1..9 : k < step /\ step <= 9 => Order[k] \in Tried
FlagInv == "initialized" \in stored => Keys \subseteq Tried
NvsInv == FlashTypeOK /\ PassInv /\ FlagInv

LEMMA NvsInit == FlashInit => NvsInv
  BY DEF FlashInit, NvsInv, FlashTypeOK, PassInv, FlagInv, Off

LEMMA StartKeeps == ASSUME NvsInv, Start PROVE NvsInv'
  <1> USE DEF NvsInv
  <1>1. step' \in {1, 10}
    BY DEF Start, Running
  <1>2. UNCHANGED <<stored, failed>> \/ (stored' = {} /\ failed' = {})
    BY DEF Start
  <1>3. FlashTypeOK'
    BY <1>1, <1>2 DEF FlashTypeOK
  <1>4. PassInv'
    BY <1>1 DEF PassInv
  <1>5. FlagInv'
    BY <1>2 DEF FlagInv, Tried
  <1> QED BY <1>3, <1>4, <1>5

(* A write never takes a key out of those that have been tried; the flag,  *)
(* the ninth, is written when the other eight have been.                   *)
LEMMA WriteKeeps == ASSUME NvsInv, Write PROVE NvsInv'
  <1> USE DEF NvsInv
  <1>0. step \in 1..9 /\ step' = step + 1 /\ Order[step] \in Keys
    BY OrderTyped DEF Write
  <1>1. \/ stored' = stored \cup {Order[step]} /\ failed' = failed \ {Order[step]}
        \/ failed' = failed \cup {Order[step]} /\ stored' = stored
    BY DEF Write, Fail
  <1>2. Tried' = Tried \cup {Order[step]}
    BY <1>1 DEF Tried
  <1>3. FlashTypeOK'
    BY <1>0, <1>1 DEF FlashTypeOK
  <1>4. PassInv'
    BY <1>0, <1>2 DEF PassInv
  <1>5. FlagInv'
    <2>1. CASE "initialized" \in stored
      BY <1>2, <2>1 DEF FlagInv
    <2>2. CASE "initialized" \notin stored
      <3> SUFFICES ASSUME "initialized" \in stored' PROVE Keys \subseteq Tried'
        BY DEF FlagInv
      <3>1. Order[step] = "initialized"
        BY <1>1, <2>2
      <3>2. step = 9
        BY <1>0, <3>1 DEF Order
      <3>3. \A k \in 1..9 : Order[k] \in Tried'
        BY <1>2, <3>2 DEF PassInv
      <3> QED BY <3>3, OrderCovers
    <2> QED BY <2>1, <2>2
  <1> QED BY <1>3, <1>4, <1>5

LEMMA NvsNext == NvsInv /\ [FlashNext]_flashVars => NvsInv'
  <1> SUFFICES ASSUME NvsInv, [FlashNext]_flashVars PROVE NvsInv'
    OBVIOUS
  <1>1. CASE Reset
    BY <1>1 DEF NvsInv, FlashTypeOK, PassInv, FlagInv, Tried, Reset, Off
  <1>2. CASE UNCHANGED flashVars
    BY <1>2 DEF NvsInv, FlashTypeOK, PassInv, FlagInv, Tried, flashVars
  <1> QED BY <1>1, <1>2, StartKeeps, WriteKeeps DEF FlashNext

(* Once the flag is stored, only defaults whose write failed are missing,  *)
(* however often and wherever the chip was reset (nvs_utils.c:267-351).    *)
THEOREM FlagAfterDefaults == FlashSpec => [](FlashTypeOK /\ OnlyFailedMissing)
  <1>1. NvsInv => FlashTypeOK /\ OnlyFailedMissing
    BY DEF NvsInv, FlagInv, Tried, OnlyFailedMissing
  <1> QED BY <1>1, NvsInit, NvsNext, PTL DEF FlashSpec

(* When no write fails, the flag means that every default is stored: a     *)
(* reset alone never leaves the flash half initialized.                    *)
THEOREM ResetsLeaveNoGap == ASSUME ~CanFail PROVE FlashSpec => []InitializedMeansComplete
  <1> DEFINE Sound == NvsInv /\ failed = {}
  <1>1. FlashInit => Sound
    BY NvsInit DEF FlashInit
  <1>2. Sound /\ [FlashNext]_flashVars => Sound'
    <2> SUFFICES ASSUME Sound, [FlashNext]_flashVars PROVE failed' = {}
      BY NvsNext
    <2>1. ASSUME NEW key, Fail(key) PROVE FALSE
      <3>1. failed' = {key}
        BY <2>1 DEF Fail
      <3>2. Cardinality({key}) <= MaxFailed
        BY <2>1, <3>1 DEF Fail
      <3>3. Cardinality({key}) = 1
        BY FS_Singleton
      <3> QED BY <3>2, <3>3, FlashAssumption DEF CanFail
    <2> QED BY <2>1 DEF FlashNext, Start, Write, Reset, flashVars
  <1>3. Sound => InitializedMeansComplete
    BY DEF NvsInv, FlagInv, Tried, InitializedMeansComplete
  <1> QED BY <1>1, <1>2, <1>3, PTL DEF FlashSpec
-----------------------------------------------------------------------------
(* The boot, composed of the station and the flash. *)
LEMMA StepIsWifi == [Next]_vars => [WifiNext]_wifiVars
<1> SUFFICES ASSUME [Next]_vars PROVE [WifiNext]_wifiVars
  OBVIOUS
<1>1. CASE Flash \/ ReadCredentials \/ StartWebserver \/ WaitForTime \/ LogIn
           \/ CreateLoop \/ ReachPanel \/ CreatePanel \/ Finish
  BY <1>1 DEF Flash, ReadCredentials, StartWebserver, WaitForTime, LogIn,
              CreateLoop, ReachPanel, CreatePanel, Finish
<1>2. CASE Connecting \/ Associate \/ LinkLost \/ HandleEvent
  BY <1>2 DEF Connecting, Associate, LinkLost, HandleEvent, WifiNext, Driver
<1>3. CASE Abort \/ PowerCut
  BY <1>3 DEF Abort, PowerCut, Restart, WifiNext
<1>4. CASE UNCHANGED vars
  BY <1>4 DEF vars
<1> QED BY <1>1, <1>2, <1>3, <1>4 DEF Next, AppMain

LEMMA StepIsFlash == [Next]_vars => [FlashNext]_flashVars
<1> SUFFICES ASSUME [Next]_vars PROVE [FlashNext]_flashVars
  OBVIOUS
<1>1. CASE Flash
  BY <1>1 DEF Flash, FlashNext
<1>2. CASE ReadCredentials \/ StartWebserver \/ WaitForTime \/ LogIn \/ CreateLoop
           \/ ReachPanel \/ CreatePanel \/ Finish
           \/ Connecting \/ Associate \/ LinkLost \/ HandleEvent
  BY <1>2 DEF ReadCredentials, StartWebserver, WaitForTime, LogIn, CreateLoop,
              ReachPanel, CreatePanel, Finish, Connecting, Associate, LinkLost,
              HandleEvent
<1>3. CASE Abort \/ PowerCut
  BY <1>3 DEF Abort, PowerCut, FlashNext
<1>4. CASE UNCHANGED vars
  BY <1>4 DEF vars
<1> QED BY <1>1, <1>2, <1>3, <1>4 DEF Next, AppMain

(* app_main runs the station and the flash as each runs alone: the boot    *)
(* implements both specifications (main.cpp:615-679).                      *)
THEOREM BootImplementsParts == Spec => WifiSpec /\ FlashSpec
<1>1. Init => WifiInit /\ FlashInit
  BY DEF Init
<1> QED BY <1>1, StepIsWifi, StepIsFlash, PTL DEF Spec, WifiSpec, FlashSpec

(* event_handler never connects while an attempt or a link stands          *)
(* (wifi_utils.c:45-49).                                                   *)
THEOREM BootOneAttempt == Spec => []OneAttempt
  BY BootImplementsParts, OneAttemptAtATime, PTL

(* WIFI_FAIL_BIT stands for exhausted retries, for good                    *)
(* (wifi_utils.c:48-54, globals.h:116).                                    *)
THEOREM BootFailIsExhausted == Spec => []FailIsExhausted
  BY BootImplementsParts, FailMeansExhausted, PTL

(* Once the flag is stored, only defaults whose write failed are missing   *)
(* (nvs_utils.c:267-351).                                                  *)
THEOREM BootOnlyFailedMissing == Spec => []OnlyFailedMissing
  BY BootImplementsParts, FlagAfterDefaults, PTL
----------------------------------------------------------------------------
(* app_main's own variables; what being past each wait says of the bits.   *)
AppTyped == /\ creds \subseteq Credentials /\ app \in Stages
            /\ waits \in 1..MaxWaits /\ tasks \subseteq AllTasks
HasLoopTask == \E i \in 1..3 : LoopTasks[i] \in tasks
OnlineInv == /\ Online => "CONNECTED" \in bits
             /\ app \in {"clock", "login", "loop"} => Online
             /\ HasLoopTask => Online
AppInv == AppTyped /\ OnlineInv

LEMMA OneWait == 1 \in 1..MaxWaits
  BY WaitsAssumption

LEMMA AppInit == Init => AppInv
  BY OneWait DEF Init, WifiInit, AppInv, AppTyped, OnlineInv, HasLoopTask, Online, Stages

LEMMA Panels == \A i \in 1..2, j \in 1..3 : PanelTasks[i] # LoopTasks[j]
<1>1. /\ LoopTasks[1] = "check_new_data_task" /\ LoopTasks[2] = "alive_package_task"
      /\ LoopTasks[3] = "data_processing_task"
      /\ PanelTasks[1] = "button_task" /\ PanelTasks[2] = "read_acs712_task"
  BY DEF LoopTasks, PanelTasks
<1>2. \A i \in 1..2 : i = 1 \/ i = 2
  OBVIOUS
<1>3. \A j \in 1..3 : j = 1 \/ j = 2 \/ j = 3
  OBVIOUS
<1>4. ASSUME NEW i \in 1..2, NEW j \in 1..3 PROVE PanelTasks[i] # LoopTasks[j]
  <2>1. CASE i = 1
    BY <1>1, <1>3, <2>1
  <2>2. CASE i = 2
    BY <1>1, <1>3, <2>2
  <2> QED BY <1>2, <2>1, <2>2
<1> QED BY <1>4

LEMMA AppNext == AppInv /\ [Next]_vars => AppInv'
<1> SUFFICES ASSUME AppInv, [Next]_vars PROVE AppInv'
  OBVIOUS
<1> USE DEF AppInv
<1>1. CASE Flash
  BY <1>1 DEF Flash, wifiVars, appVars, AppTyped, OnlineInv, HasLoopTask, Online
<1>2. CASE ReadCredentials
  <2>1. creds' \subseteq Credentials
    BY <1>2 DEF ReadCredentials
  <2>2. app' = "wifi" /\ UNCHANGED <<waits, tasks, main, bits>>
    BY <1>2 DEF ReadCredentials, wifiVars
  <2> QED BY <2>1, <2>2 DEF AppTyped, OnlineInv, HasLoopTask, Online, Stages
<1>3. CASE Associate \/ LinkLost
  BY <1>3 DEF Associate, LinkLost, Join, Leave, appVars, AppTyped, OnlineInv,
              HasLoopTask, Online
<1>4. CASE HandleEvent
  <2>1. bits \subseteq bits' /\ UNCHANGED <<main, creds, app, waits, tasks>>
    BY <1>4 DEF HandleEvent, Handler, HandleStart, HandleDisconnected, HandleGotIp, appVars
  <2> QED BY <2>1 DEF AppTyped, OnlineInv, HasLoopTask, Online
<1>5. CASE Connecting
  <2>1. main # "online" /\ UNCHANGED <<bits, creds, app, waits, tasks>> /\ app = "wifi"
    BY <1>5 DEF Connecting, MainTask, StartSta, AfterWait, CreateApNetif, StartAp, appVars
  <2>2. main' = "online" => "CONNECTED" \in bits
    BY <1>5 DEF Connecting, MainTask, StartSta, AfterWait, CreateApNetif, StartAp
  <2> QED BY <2>1, <2>2 DEF AppTyped, OnlineInv, HasLoopTask, Online
<1>6. CASE StartWebserver
  <2>1. waits' \in 1..MaxWaits
    BY <1>6, OneWait DEF StartWebserver
  <2>2. app' = "clock" /\ Online /\ UNCHANGED <<main, bits, creds, tasks>>
    BY <1>6 DEF StartWebserver, wifiVars
  <2> QED BY <2>1, <2>2 DEF AppTyped, OnlineInv, HasLoopTask, Online, Stages
<1>7. CASE WaitForTime
  <2>1. waits' \in 1..MaxWaits
    BY <1>7, WaitsAssumption DEF WaitForTime, AppTyped
  <2>2. app' \in {"clock", "login"} /\ app = "clock" /\ UNCHANGED <<main, bits, creds, tasks>>
    BY <1>7 DEF WaitForTime, wifiVars
  <2> QED BY <2>1, <2>2 DEF AppTyped, OnlineInv, HasLoopTask, Online, Stages
<1>8. CASE LogIn
  BY <1>8 DEF LogIn, wifiVars, AppTyped, OnlineInv, HasLoopTask, Online, Stages
<1>9. CASE CreateLoop
  <2>1. /\ app = "loop" /\ UNCHANGED <<main, bits, creds, app, waits>>
        /\ \E i \in 1..3 : tasks' = tasks \cup {LoopTasks[i]}
    BY <1>9 DEF CreateLoop, Create, wifiVars
  <2>2. tasks' \subseteq AllTasks
    BY <2>1 DEF AppTyped, AllTasks
  <2> QED BY <2>1, <2>2 DEF AppTyped, OnlineInv, Online
<1>10. CASE ReachPanel \/ Finish
  BY <1>10 DEF ReachPanel, Finish, wifiVars, AppTyped, OnlineInv, HasLoopTask, Online, Stages
<1>11. CASE CreatePanel
  <2>1. /\ UNCHANGED <<main, bits, creds, app, waits>>
        /\ \E i \in 1..2 : tasks' = tasks \cup {PanelTasks[i]}
    BY <1>11 DEF CreatePanel, Create, wifiVars
  <2>2. tasks' \subseteq AllTasks
    BY <2>1 DEF AppTyped, AllTasks
  <2>3. HasLoopTask' => HasLoopTask
    BY <2>1, Panels DEF HasLoopTask
  <2> QED BY <2>1, <2>2, <2>3 DEF AppTyped, OnlineInv, Online
<1>12. CASE Abort \/ PowerCut
  <2>1. creds' = {} /\ app' = "flash" /\ waits' = 1 /\ tasks' = {} /\ main' = "init"
    BY <1>12 DEF Abort, PowerCut, Restart, MemoryLost, AppLost
  <2> QED BY <2>1, OneWait DEF AppTyped, OnlineInv, HasLoopTask, Online, Stages
<1>13. CASE UNCHANGED vars
  BY <1>13 DEF vars, wifiVars, appVars, AppTyped, OnlineInv, HasLoopTask, Online
<1> QED
  BY <1>1, <1>2, <1>3, <1>4, <1>5, <1>6, <1>7, <1>8, <1>9, <1>10, <1>11, <1>12, <1>13
  DEF Next, AppMain

LEMMA AppInvariant == Spec => []AppInv
  BY AppInit, AppNext, PTL DEF Spec

(* Every variable of the boot keeps its type, s_retry_num within           *)
(* CONFIG_ESP_MAXIMUM_RETRY (wifi_utils.c:48) and retry within retry_count *)
(* (ntp.c:25-28).                                                          *)
THEOREM BootTypeCorrect == Spec => []TypeOK
<1>1. WifiTypeOK /\ FlashTypeOK /\ AppInv => TypeOK
  BY DEF TypeOK, AppInv, AppTyped
<1> QED BY <1>1, AppInvariant, BootImplementsParts, WifiTypeCorrect, FlagAfterDefaults, PTL

(* check_new_data_task runs only where WIFI_CONNECTED_BIT is set and, no   *)
(* code clearing it, stays set (main.cpp:322, 676-705).                    *)
THEOREM LoopOnlyWithWifi == Spec => []LoopHasWifi
<1>1. AppInv => LoopHasWifi
  BY DEF AppInv, OnlineInv, HasLoopTask, LoopHasWifi
<1> QED BY <1>1, AppInvariant, PTL
=============================================================================
