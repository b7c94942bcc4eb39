---------------------------- MODULE WifiStation ----------------------------
(***************************************************************************)
(* The WiFi station (wifi_utils.c) and the part of app_main that waits for *)
(* it.  The driver tries to join the access point and posts events; the    *)
(* event loop task hands them in order to event_handler, which reconnects  *)
(* and sets the two bits of s_wifi_event_group; the main task waits for a  *)
(* bit and then either goes online or starts an access point of its own.   *)
(***************************************************************************)
EXTENDS Naturals, Sequences

CONSTANT MaxRetry   \* CONFIG_ESP_MAXIMUM_RETRY (globals.h:99)

ASSUME RetryAssumption == MaxRetry \in Nat

VARIABLES
    link,      \* the driver: "down", "trying" to join, or "up" with an IP
    queue,     \* events posted and not yet handled
    retries,   \* s_retry_num
    bits,      \* the bits set in s_wifi_event_group
    main,      \* where the main task stands
    apNetif,   \* the default access point interface exists
    tries,     \* history: attempts to join since the last IP
    refused    \* history: esp_wifi_connect has returned an error

wifiVars == <<link, queue, retries, bits, main, apNetif, tries, refused>>
driverVars == <<link, queue, tries, refused>>

Events == {"start", "ip", "disc"}
Bits == {"CONNECTED", "FAIL"}
MainLocations == {"init", "waitSta", "waitMain", "apNetif", "apStart", "apInfo",
                  "online", "apMode", "aborted"}
----------------------------------------------------------------------------
(* esp_wifi_connect: the driver begins an attempt, or it returns an error  *)
(* (an SSID that is empty, say), which nobody looks at, and posts nothing. *)
Connect == \/ link' = "trying" /\ tries' = tries + 1 /\ UNCHANGED refused
           \/ refused' = TRUE /\ UNCHANGED <<link, tries>>

(* The attempt succeeds and DHCP answers; it fails; a link that was up is  *)
(* lost.  The driver posts the event.                                      *)
Join == /\ link = "trying" /\ link' = "up"
        /\ queue' = Append(queue, "ip") /\ tries' = 0
        /\ UNCHANGED <<retries, bits, main, apNetif, refused>>
Leave == /\ link \in {"trying", "up"} /\ link' = "down"
         /\ queue' = Append(queue, "disc")
         /\ UNCHANGED <<tries, retries, bits, main, apNetif, refused>>
----------------------------------------------------------------------------
(* event_handler, one event at a time. *)
Next1(e) == queue # <<>> /\ Head(queue) = e /\ queue' = Tail(queue)

HandleStart == /\ Next1("start")
               /\ Connect
               /\ UNCHANGED <<retries, bits, main, apNetif>>

(* Mutants: the bound is tested with <=; the count goes up where the bit   *)
(* is set as well; the retry is not counted; only a boot that has not had  *)
(* an IP gives up on the bit.                                              *)
OneRetryMore ==
    /\ Next1("disc")
    /\ IF retries <= MaxRetry
       THEN Connect /\ retries' = retries + 1 /\ UNCHANGED bits
       ELSE bits' = bits \cup {"FAIL"} /\ UNCHANGED <<link, tries, refused, retries>>
    /\ UNCHANGED <<main, apNetif>>
CountAlways ==
    /\ Next1("disc")
    /\ IF retries < MaxRetry
       THEN Connect /\ UNCHANGED bits
       ELSE bits' = bits \cup {"FAIL"} /\ UNCHANGED <<link, tries, refused>>
    /\ retries' = retries + 1
    /\ UNCHANGED <<main, apNetif>>
RetryForever ==
    /\ Next1("disc")
    /\ IF retries < MaxRetry
       THEN link' = "trying" /\ UNCHANGED <<bits, retries, tries, refused>>
       ELSE bits' = bits \cup {"FAIL"} /\ UNCHANGED <<link, tries, refused, retries>>
    /\ UNCHANGED <<main, apNetif>>
FailBeforeIp ==
    /\ Next1("disc")
    /\ IF retries < MaxRetry
       THEN Connect /\ retries' = retries + 1 /\ UNCHANGED bits
       ELSE /\ bits' = IF bits = {} THEN {"FAIL"} ELSE bits
            /\ UNCHANGED <<link, tries, refused, retries>>
    /\ UNCHANGED <<main, apNetif>>

HandleDisconnected ==
    /\ Next1("disc")
    /\ IF retries < MaxRetry
       THEN Connect /\ retries' = retries + 1 /\ UNCHANGED bits
       ELSE bits' = bits \cup {"FAIL"} /\ UNCHANGED <<link, tries, refused, retries>>
    /\ UNCHANGED <<main, apNetif>>

HandleGotIp == /\ Next1("ip")
               /\ retries' = 0
               /\ bits' = bits \cup {"CONNECTED"}
               /\ UNCHANGED <<link, tries, refused, main, apNetif>>
----------------------------------------------------------------------------
(* Mutant: the main task connects itself as soon as WiFi is started. *)
StartAndConnect == /\ main = "init" /\ main' = "waitSta"
                   /\ queue' = Append(queue, "start")
                   /\ Connect
                   /\ UNCHANGED <<retries, bits, apNetif>>

(* wifi_init_sta up to esp_wifi_start, which posts WIFI_EVENT_STA_START. *)
StartSta == /\ main = "init" /\ main' = "waitSta"
            /\ queue' = Append(queue, "start")
            /\ UNCHANGED <<link, tries, refused, retries, bits, apNetif>>

(* The two waits, one at the end of wifi_init_sta and one in app_main.     *)
(* Neither clears a bit, and CONNECTED is looked at first.                 *)
AfterWait == /\ main \in {"waitSta", "waitMain"} /\ bits # {}
             /\ main' = IF "CONNECTED" \notin bits THEN "apNetif"
                        ELSE IF main = "waitSta" THEN "waitMain" ELSE "online"
             /\ UNCHANGED <<driverVars, retries, bits, apNetif>>

(* Mutant: the interface that exists is used for its address. *)
CreateOnce ==
    /\ main \in {"apNetif", "apInfo"}
    /\ apNetif' = TRUE
    /\ main' = IF main = "apNetif" THEN "apStart" ELSE "apMode"
    /\ UNCHANGED <<driverVars, retries, bits>>

(* wifi_init_softap.  esp_netif_create_default_wifi_ap asserts that there  *)
(* is no such interface yet, and it is called again for its address.       *)
CreateApNetif ==
    /\ main \in {"apNetif", "apInfo"}
    /\ IF apNetif THEN main' = "aborted" /\ UNCHANGED apNetif
       ELSE /\ apNetif' = TRUE
            /\ main' = IF main = "apNetif" THEN "apStart" ELSE "apMode"
    /\ UNCHANGED <<driverVars, retries, bits>>
StartAp == /\ main = "apStart" /\ main' = "apInfo"
           /\ UNCHANGED <<driverVars, retries, bits, apNetif>>

(* A failed assertion resets the chip, and so may anything else at any     *)
(* moment; the memory is lost.                                             *)
MemoryLost == /\ main' = "init"
              /\ link' = "down" /\ queue' = <<>> /\ tries' = 0 /\ refused' = FALSE
              /\ retries' = 0 /\ bits' = {} /\ apNetif' = FALSE
Restart == main = "aborted" /\ MemoryLost
----------------------------------------------------------------------------
WifiInit == /\ link = "down" /\ queue = <<>> /\ tries = 0 /\ refused = FALSE
            /\ retries = 0 /\ bits = {}
            /\ main = "init" /\ apNetif = FALSE

Driver == Join \/ Leave
Handler == HandleStart \/ HandleDisconnected \/ HandleGotIp
MainTask == StartSta \/ AfterWait \/ CreateApNetif \/ StartAp
WifiNext == Driver \/ Handler \/ MainTask \/ MemoryLost
WifiSpec == WifiInit /\ [][WifiNext]_wifiVars
----------------------------------------------------------------------------
WifiTypeOK == /\ link \in {"down", "trying", "up"}
              /\ queue \in Seq(Events)
              /\ retries \in 0..MaxRetry
              /\ bits \subseteq Bits
              /\ main \in MainLocations
              /\ apNetif \in BOOLEAN
              /\ tries \in Nat
              /\ refused \in BOOLEAN

(* event_handler never asks the driver to connect while it is connecting   *)
(* or connected, however long its events are delayed (wifi_utils.c:45-49). *)
OneAttempt == queue # <<>> /\ Head(queue) \in {"start", "disc"} => link = "down"

(* "we failed to connect after the maximum amount of retries"              *)
(* (globals.h:116): WIFI_FAIL_BIT is up only after MaxRetry attempts in a  *)
(* row, or one more when there never was an IP, none of them refused; then *)
(* nothing tries again.                                                    *)
FailIsExhausted ==
    "FAIL" \in bits => /\ tries \in {MaxRetry, MaxRetry + 1} /\ ~refused
                      /\ link = "down" /\ queue = <<>>
=============================================================================
