---------------------------- MODULE NvsDefaults ----------------------------
(***************************************************************************)
(* The first start: initialize_nvs_with_default_data writes the defaults   *)
(* into the flash key by key, and the key "initialized" last, so that a    *)
(* later start leaves them alone.  A reset may come after any write.  The  *)
(* flash is external: a write that succeeds is durable at once, and        *)
(* nvs_init may find it unusable and erase it.                             *)
(***************************************************************************)
EXTENDS Naturals, Sequences, FiniteSets

CONSTANTS MaxFailed,  \* bound: keys whose last write failed; 0: none fails
          CanErase    \* TRUE: nvs_init may erase the flash

ASSUME FlashAssumption == MaxFailed \in Nat /\ CanErase \in BOOLEAN

VARIABLES stored,  \* the keys in the flash
          step,    \* the key to write next, or where app_main stands
          failed   \* history: the keys whose last write failed

flashVars == <<stored, step, failed>>
----------------------------------------------------------------------------
Order == <<"firmware", "wifi_ssid", "wifi_password", "disp_url", "events_url",
           "ap_ssid", "ap_password", "device-0", "initialized">>
Keys == {"firmware", "wifi_ssid", "wifi_password", "disp_url", "events_url",
         "ap_ssid", "ap_password", "device-0", "initialized"}
Running == 10
Off == 0

CanFail == MaxFailed > 0
Fail(key) == /\ failed' = failed \cup {key}
             /\ Cardinality(failed') <= MaxFailed
             /\ UNCHANGED stored

(* nvs_init, then the flag is looked at: without it, or when it cannot be  *)
(* read, every default is written; when the flash cannot be opened none is.*)
Start == /\ step = Off
         /\ \/ UNCHANGED <<stored, failed>>
            \/ CanErase /\ stored' = {} /\ failed' = {}
         /\ \/ step' = IF "initialized" \in stored' THEN Running ELSE 1
            \/ CanFail /\ step' \in {1, Running}

(* Mutant: a key that cannot be written ends the pass, but for the flag.   *)
WriteOrFlag ==
    /\ step \in 1..9
    /\ \/ /\ stored' = stored \cup {Order[step]} /\ failed' = failed \ {Order[step]}
          /\ step' = step + 1
       \/ /\ Fail(Order[step])
          /\ step' = 9

(* A failed write is logged and the next key is written all the same.      *)
Write == /\ step \in 1..9
         /\ \/ stored' = stored \cup {Order[step]} /\ failed' = failed \ {Order[step]}
            \/ Fail(Order[step])
         /\ step' = step + 1

Reset == /\ step # Off /\ step' = Off
         /\ UNCHANGED <<stored, failed>>

FlashInit == stored = {} /\ step = Off /\ failed = {}
FlashNext == Start \/ Write \/ Reset
FlashSpec == FlashInit /\ [][FlashNext]_flashVars
----------------------------------------------------------------------------
FlashTypeOK == stored \subseteq Keys /\ failed \subseteq Keys /\ step \in 0..10

(* Once the flag is stored, the only defaults that are missing are those   *)
(* whose write failed, whatever resets, erasures and failures came before  *)
(* (nvs_utils.c:267-351).                                                  *)
OnlyFailedMissing == "initialized" \in stored => Keys \ stored \subseteq failed

(* "Guarda los datos por defecto si no están inicializados"                *)
(* (nvs_utils.c:282): with the flag stored, so are the defaults.           *)
InitializedMeansComplete == "initialized" \in stored => Keys \subseteq stored
=============================================================================
