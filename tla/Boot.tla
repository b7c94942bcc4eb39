-------------------------------- MODULE Boot --------------------------------
(***************************************************************************)
(* app_main from the reset to the last task it creates.  It composes the   *)
(* flash (NvsDefaults) and the station (WifiStation): the credentials the  *)
(* first writes are what the second joins with, a failed assertion of the  *)
(* second resets the first, and a reset of the chip takes both back.  Once *)
(* online app_main starts the web server, waits for the clock, logs in and *)
(* creates the tasks of CommandLoop, then those of the buttons and of the  *)
(* current sensor.                                                         *)
(***************************************************************************)
EXTENDS WifiStation, NvsDefaults

CONSTANT MaxWaits   \* retry_count (ntp.c:25)

ASSUME WaitsAssumption == MaxWaits \in Nat \ {0}

VARIABLES
    creds,  \* the credentials read into wifiSsid and wifiPassword
    app,    \* where app_main stands, besides step and main
    waits,  \* retry, a local of obtain_time
    tasks   \* the tasks created

appVars == <<creds, app, waits, tasks>>
vars == <<wifiVars, flashVars, appVars>>
----------------------------------------------------------------------------
Credentials == {"wifi_ssid", "wifi_password"}
Stages == {"flash", "wifi", "clock", "login", "loop", "panel", "done"}
(* The tasks in the order they are created, for the loop and for the panel.*)
LoopTasks == <<"check_new_data_task", "alive_package_task", "data_processing_task">>
PanelTasks == <<"button_task", "read_acs712_task">>
AllTasks == {LoopTasks[i] : i \in 1..3} \cup {PanelTasks[i] : i \in 1..2}

Online == main = "online"

(* A task is created once those before it in its list are. *)
Create(list, n) == \E i \in 1..n : /\ \A j \in 1..n : list[j] \in tasks <=> j < i
                                   /\ tasks' = tasks \cup {list[i]}
AllCreated(list, n) == \A i \in 1..n : list[i] \in tasks
----------------------------------------------------------------------------
(* nvs_init and the defaults. *)
Flash == /\ app = "flash" /\ (Start \/ Write)
         /\ UNCHANGED <<wifiVars, appVars>>

(* read_wifi_credentials: what cannot be read stays empty. *)
ReadCredentials ==
    /\ app = "flash" /\ step = Running
    /\ creds' \in IF CanFail THEN SUBSET (stored \cap Credentials)
                  ELSE {stored \cap Credentials}
    /\ app' = "wifi"
    /\ UNCHANGED <<wifiVars, flashVars, waits, tasks>>

(* The driver joins with both credentials only. *)
Associate == /\ creds = Credentials /\ Join
             /\ UNCHANGED <<flashVars, appVars>>
LinkLost == Leave /\ UNCHANGED <<flashVars, appVars>>
HandleEvent == Handler /\ UNCHANGED <<flashVars, appVars>>

(* The main task's share of WifiStation. *)
Connecting == /\ app = "wifi" /\ MainTask
              /\ UNCHANGED <<flashVars, appVars>>
----------------------------------------------------------------------------
(* Mutant: the bits that ended the wait are not looked at. *)
StartAnyway == /\ app = "wifi" /\ main \in {"online", "apStart"}
               /\ app' = "clock" /\ waits' = 1
               /\ UNCHANGED <<wifiVars, flashVars, creds, tasks>>

(* WIFI_CONNECTED_BIT was seen: the web server is started; obtain_time.    *)
StartWebserver == /\ app = "wifi" /\ Online
                  /\ app' = "clock" /\ waits' = 1
                  /\ UNCHANGED <<wifiVars, flashVars, creds, tasks>>

(* After each wait the time is there or not; after the last it does not    *)
(* matter.                                                                 *)
WaitForTime == /\ app = "clock"
               /\ \/ app' = "login" /\ UNCHANGED waits
                  \/ waits + 1 < MaxWaits /\ waits' = waits + 1 /\ UNCHANGED app
               /\ UNCHANGED <<wifiVars, flashVars, creds, tasks>>

(* Mutant: the login is repeated until it succeeds. *)
LogInAtLast == /\ app = "login" /\ link = "up" /\ app' = "loop"
               /\ UNCHANGED <<wifiVars, flashVars, creds, waits, tasks>>

(* loginUserAccount and the PUT of the device's info: whatever they return.*)
LogIn == /\ app = "login" /\ app' = "loop"
         /\ UNCHANGED <<wifiVars, flashVars, creds, waits, tasks>>

CreateLoop == /\ app = "loop" /\ Create(LoopTasks, 3)
              /\ UNCHANGED <<wifiVars, flashVars, creds, app, waits>>

(* INITIALIZING is cleared; the announcement and the GET of the devices    *)
(* are requests whose results are ignored, too.                            *)
ReachPanel == /\ \/ app = "loop" /\ AllCreated(LoopTasks, 3)
                 \/ app = "wifi" /\ main = "apMode"
              /\ app' = "panel"
              /\ UNCHANGED <<wifiVars, flashVars, creds, waits, tasks>>

CreatePanel == /\ app = "panel" /\ Create(PanelTasks, 2)
               /\ UNCHANGED <<wifiVars, flashVars, creds, app, waits>>

Finish == /\ app = "panel" /\ AllCreated(PanelTasks, 2)
          /\ app' = "done"
          /\ UNCHANGED <<wifiVars, flashVars, creds, waits, tasks>>
----------------------------------------------------------------------------
AppLost == creds' = {} /\ app' = "flash" /\ waits' = 1 /\ tasks' = {}

(* The chip resets itself after a failed assertion, or loses its power.    *)
Abort == Restart /\ Reset /\ AppLost
PowerCut == MemoryLost /\ Reset /\ AppLost

Init == /\ WifiInit /\ FlashInit
        /\ creds = {} /\ app = "flash" /\ waits = 1 /\ tasks = {}

AppMain == \/ Flash \/ ReadCredentials \/ Connecting \/ StartWebserver
           \/ WaitForTime \/ LogIn \/ CreateLoop \/ ReachPanel
           \/ CreatePanel \/ Finish \/ Abort
Next == AppMain \/ Associate \/ LinkLost \/ HandleEvent \/ PowerCut
Spec == Init /\ [][Next]_vars

(* The main task and the event loop are scheduled, and an attempt to join  *)
(* ends.  Nothing makes it succeed and nothing breaks a link that is up.   *)
FairSpec == /\ Spec
            /\ WF_vars(AppMain) /\ WF_vars(HandleEvent)
            /\ WF_vars(link = "trying" /\ (Associate \/ LinkLost))
----------------------------------------------------------------------------
TypeOK == /\ WifiTypeOK /\ FlashTypeOK
          /\ creds \subseteq Credentials /\ app \in Stages
          /\ waits \in 1..MaxWaits /\ tasks \subseteq AllTasks

(* CommandLoop's tasks exist only while WIFI_CONNECTED_BIT is set, so that *)
(* the poller never blocks on it (main.cpp:322, 702-705).                  *)
LoopHasWifi == (\E i \in 1..3 : LoopTasks[i] \in tasks) => "CONNECTED" \in bits

(* The wait for WIFI_CONNECTED_BIT or WIFI_FAIL_BIT has no timeout         *)
(* (wifi_utils.c:148-152): every boot decides or is reset, unless the      *)
(* driver refused to connect.                                              *)
BootDecides == main = "waitSta" ~> main # "waitSta" \/ refused

(* Once online, whatever fails on the way, app_main creates all its tasks  *)
(* (main.cpp:676-731) unless it is reset.                                  *)
BootCompletes == app = "clock" ~> app = "flash" \/ tasks = AllTasks

(* A link that is lost is tried again until the retries are used up        *)
(* (wifi_utils.c:47-54) or the driver refuses.                             *)
LostIsRetried ==
    link = "down" /\ Online ~> link # "down" \/ ~Online \/ "FAIL" \in bits \/ refused

(* A boot without the network ends in a reset, so that the device goes on  *)
(* trying: if its credentials can be read, the driver takes its calls, its *)
(* power stays on and one of infinitely many attempts succeeds, it is      *)
(* online in the end (wifi_utils.c:71-97, main.cpp:666-679).               *)
EventuallyOnline ==
    /\ SF_vars(Associate)
    /\ <>[](app # "flash" => creds = Credentials)
    /\ <>[]~refused
    /\ <>[][~PowerCut]_vars
    => <>Online

(* "Starting SoftAP" (wifi_utils.c:157), then "AP CREADO" (:97): a boot    *)
(* whose retries are used up ends as an access point if its power stays on.*)
FailStartsAp == <>[][~PowerCut]_vars => (main = "apNetif" ~> main = "apMode")
=============================================================================
