---------------------------- MODULE CommandLoop ----------------------------
(***************************************************************************)
(* The command loop of the SICAE firmware.                                 *)
(*                                                                         *)
(* A web client writes commands into the node newData of a realtime        *)
(* database.  The task check_new_data_task ("fetch") polls the node; the   *)
(* HTTP event handler copies the command into urlSection and raises a      *)
(* flag; the task data_processing_task ("process") looks at the flags      *)
(* every 100 ms, carries the command out and clears the node.  app_main    *)
(* ("boot") lowers INITIALIZING and announces get/devices to itself,       *)
(* read_acs712_task ("acs") raises SETCONSUMEDCURRENT, and the answers to  *)
(* alive_package_task and to the menu's firebase_update_task ("alive") go  *)
(* through the same handler.  All of them run concurrently on two cores    *)
(* and share the flag bytes and urlSection.                                *)
(*                                                                         *)
(* The WiFi bit is set before the tasks exist and is never cleared         *)
(* (WifiStation), so the wait of main.cpp:322 returns at once and is left  *)
(* out.  Every exchange has its own url and response here: the races on    *)
(* those two shared buffers are another component.                         *)
(***************************************************************************)
EXTENDS Integers, FiniteSets

CONSTANTS
    Orders,       \* the set commands the client writes
    OtherKinds,   \* the sections the client writes besides set/devices/...
    Others,       \* bound: the tasks outside the loop that run: "acs", "alive"
    MaxCommands,  \* bound: commands the client writes
    MaxReboots    \* bound: resets of the device

AllKinds == {"info", "devices", "later", "alive", "sticky", "unknown"}

(* All device numbers have one digit. *)
ASSUME OrdersAssumption == Orders \subseteq [kind: {"set"}, dev: Nat, st: BOOLEAN]
ASSUME KindsAssumption == OtherKinds \subseteq AllKinds
ASSUME OthersAssumption == Others \subseteq {"acs", "alive"}
ASSUME BoundAssumption == MaxCommands \in Nat /\ MaxReboots \in Nat

VARIABLES
    newData,   \* the node: a section with status true, or NoData
    written,   \* number of commands the client has written
    reboots,   \* number of resets so far
    flags,     \* the flags of btnFlag2 and btnFlag3 that are up
    loading,   \* tasks between the load and the store of a flag byte
    byte,      \* what those tasks have loaded
    section,   \* the shared buffer urlSection
    cut,       \* no "/status/" follows its device: main.cpp:407 put a NUL
               \* there, or the section is of another kind
    received,  \* history: the last set command whose copy has begun
    fresh,     \* history: nobody has read the whole of it to act on it yet
    pc,        \* where each task stands
    reply,     \* the answer each task is handling
    parsed,    \* device_number, a local of data_processing_task
    executed,  \* history: the last set command carried out
    suspended, \* tasks stopped by vTaskSuspend
    deleted    \* dataProcessHandler was given to vTaskDelete (a second delete
               \* acts on freed memory: nothing happens, or a Reboot)

cloudVars   == <<newData, written, reboots>>
flagVars    == <<flags, loading, byte>>
sectionVars == <<section, cut, received, fresh>>
vars == <<newData, written, reboots, flags, loading, byte, section, cut, received,
          fresh, pc, reply, parsed, executed, suspended, deleted>>
----------------------------------------------------------------------------
(* Sections of newData.  "later" is get/firmware and get/datetime, "alive" *)
(* get/alive, "sticky" set/info and set/time.  A section that names no     *)
(* device reads as device 0, FALSE: atoi("") and strcmp("", "true").       *)
Plain(k) == [kind |-> k, dev |-> 0, st |-> FALSE]
NoData == Plain("none")
Commands == Orders \cup {Plain(k) : k \in OtherKinds}
Devices == {c.dev : c \in Orders}
Sections == [kind: AllKinds \cup {"set", "none"}, dev: Devices \cup {0}, st: BOOLEAN]

Byte2 == {"INITIALIZING", "FETCHNEWINFODATA", "FETCHNEWDEVICESDATA",
          "POSTNONEWDATA", "FETCHNEWALIVE"}
Byte3 == {"FETCHLATER", "SETSTICKY", "SETNEWDEVICEDATA", "SETCONSUMEDCURRENT",
          "POPULATEDEVICES"}
Flags == Byte2 \cup Byte3

RaisedBy(k) ==
    CASE k = "set"     -> {"SETNEWDEVICEDATA"}
      [] k = "sticky"  -> {"SETSTICKY"}
      [] k = "info"    -> {"FETCHNEWINFODATA"}
      [] k = "devices" -> {"FETCHNEWDEVICESDATA"}
      [] k = "later"   -> {"FETCHLATER"}
      [] k = "alive"   -> {"FETCHNEWALIVE"}
      [] OTHER         -> {}

PollBlockers == {"FETCHNEWINFODATA", "FETCHNEWDEVICESDATA"}
ClearRequesters == PollBlockers \cup {"FETCHLATER", "SETSTICKY", "SETNEWDEVICEDATA"}
ClearedByClear == (Byte2 \ {"INITIALIZING"}) \cup {"FETCHLATER"}

(* The requests, each the task's location while it is in flight, and where *)
(* the task goes on afterwards.                                            *)
After == [poll        |-> "check",
          getInfo     |-> "devices",
          getDevices  |-> "current",
          putCurrent  |-> "resumeAcs",
          patchStatus |-> "raisePost",
          clear       |-> "reset",
          announce    |-> "bootGet",
          bootGet     |-> "done"]
Requests == DOMAIN After

Looping == {"fetch", "process", "boot"}
Tasks == Looping \cup {"acs", "alive"}
Copying == {"storeKind", "storeDevice", "storeSeparator", "storeStatus"}
Handling == Copying \cup {"raise", "rule"}
Locations == [fetch   |-> {"check", "poll"} \cup Handling,
              process |-> {"info", "suspendInfo", "getInfo", "devices",
                           "suspendDevices", "getDevices", "current",
                           "putCurrent", "resumeAcs", "set", "parse", "cut",
                           "device", "power", "patchStatus", "raisePost",
                           "post", "clear", "reset", "resume", "populate"}
                            \cup Handling,
              boot    |-> {"initializing", "announce", "bootGet", "done"} \cup Handling,
              acs     |-> {"report"},
              alive   |-> {"answer"}]

NoReply == [req |-> "none", cmd |-> NoData, ok |-> FALSE]
Replies == [req: Requests \cup {"none"}, cmd: Sections, ok: BOOLEAN]

Runs(t) == /\ t \in Looping \cup Others
           /\ t \notin suspended
           /\ t = "process" => ~deleted
           /\ t = "acs" => pc["boot"] = "done"
At(t, l) == Runs(t) /\ pc[t] = l
Goto(t, l) == pc' = [pc EXCEPT ![t] = l]
----------------------------------------------------------------------------
(* Flag bits share bytes: an update stores the byte the task has loaded    *)
(* earlier, and every change another task made to that byte in between is  *)
(* undone.                                                                 *)
WriteFlags(t, up, down) ==
    /\ t \in loading
    /\ LET bytes == UNION {b \in {Byte2, Byte3} : b \cap (up \cup down) # {}}
       IN flags' = (flags \ bytes) \cup (((byte[t] \cap bytes) \ down) \cup up)
    /\ loading' = loading \ {t}
    /\ byte' = [byte EXCEPT ![t] = {}]

WriteNothing(t) ==
    /\ loading' = loading \ {t}
    /\ byte' = [byte EXCEPT ![t] = {}]
    /\ UNCHANGED flags

(* The flag each location tests before it lowers it. *)
Tested == [info     |-> "FETCHNEWINFODATA",
           devices  |-> "FETCHNEWDEVICESDATA",
           current  |-> "SETCONSUMEDCURRENT",
           set      |-> "SETNEWDEVICEDATA",
           post     |-> "POSTNONEWDATA",
           populate |-> "POPULATEDEVICES"]

WritesFlag(t) ==
    \/ pc[t] \in DOMAIN Tested /\ Tested[pc[t]] \in flags
    \/ pc[t] = "raise"
    \/ pc[t] \in {"rule", "answer"} /\ flags \cap ClearRequesters # {}
    \/ pc[t] \in {"initializing", "raisePost", "reset", "report"}

LoadByte(t) ==
    /\ Runs(t) /\ t \notin loading /\ WritesFlag(t)
    /\ loading' = loading \cup {t}
    /\ byte' = [byte EXCEPT ![t] = flags]
    /\ UNCHANGED <<flags, cloudVars, sectionVars, pc, reply, parsed, executed,
                   suspended, deleted>>
----------------------------------------------------------------------------
(* HTTP.  An exchange takes effect at the server, or not; its answer       *)
(* arrives, or not.  Only newData is kept of the server.                   *)
NodeAfter(req) == CASE req = "clear"    -> NoData
                    [] req = "announce" -> Plain("devices")
                    [] OTHER            -> newData

(* The section an answer carries: a GET reads the node, a PUT echoes it.   *)
Body(req) == CASE req = "poll"     -> newData
               [] req = "announce" -> Plain("devices")
               [] OTHER            -> NoData

(* The answer arrives with status 200 and goes to client_event_get_handler.*)
Exchange(t, req) ==
    /\ At(t, req)
    /\ newData' = NodeAfter(req)
    /\ reply' = [reply EXCEPT ![t] = [req |-> req, cmd |-> Body(req), ok |-> req = "clear"]]
    /\ Goto(t, IF Body(req).kind # "none" THEN "storeKind"
               ELSE IF req \in {"getDevices", "bootGet"} THEN "raise" ELSE "rule")
    /\ UNCHANGED <<written, reboots, flagVars, sectionVars, parsed, executed,
                   suspended, deleted>>

(* The request fails: refused, timed out, or its answer is lost after the  *)
(* server acted, or is no device array and leaves the handler early        *)
(* (webserver.c:159-180).                                                  *)
ExchangeFails(t, req) ==
    /\ At(t, req)
    /\ newData' \in {newData, NodeAfter(req)}
    /\ reply' = [reply EXCEPT ![t] = NoReply]
    /\ Goto(t, After[req])
    /\ UNCHANGED <<written, reboots, flagVars, sectionVars, parsed, executed,
                   suspended, deleted>>

(* The answer is an error of the server, or is cut short: the handler      *)
(* finds no command in it and still applies its last rule.                 *)
ExchangeRefused(t, req) ==
    /\ At(t, req) /\ req \notin {"getDevices", "bootGet"}
    /\ newData' \in {newData, NodeAfter(req)}
    /\ reply' = [reply EXCEPT ![t] = [NoReply EXCEPT !.req = req]]
    /\ Goto(t, "rule")
    /\ UNCHANGED <<written, reboots, flagVars, sectionVars, parsed, executed,
                   suspended, deleted>>
----------------------------------------------------------------------------
(* client_event_get_handler, HTTP_EVENT_ON_FINISH, on the task that sent   *)
(* the request: copy the section, raise its flag, then the rule at its end.*)
(* strncpy writes from the first byte to the last and fills up with NULs,  *)
(* while the processing task may be reading on the other core: prefix,     *)
(* device, "/status/" and status each get their new bytes in turn.  A test *)
(* against half of a prefix or of a status fails as one against the old.   *)
StoreKind(t) ==
    /\ At(t, "storeKind")
    /\ section' = [section EXCEPT !.kind = reply[t].cmd.kind]
    /\ IF reply[t].cmd.kind = "set"
       THEN received' = reply[t].cmd /\ fresh' = TRUE
       ELSE UNCHANGED <<received, fresh>>
    /\ Goto(t, "storeDevice")
    /\ UNCHANGED <<cloudVars, flagVars, cut, reply, parsed, executed,
                   suspended, deleted>>

StoreDevice(t) ==
    /\ At(t, "storeDevice")
    /\ section' = [section EXCEPT !.dev = reply[t].cmd.dev]
    /\ Goto(t, "storeSeparator")
    /\ UNCHANGED <<cloudVars, flagVars, cut, received, fresh, reply, parsed,
                   executed, suspended, deleted>>

StoreSeparator(t) ==
    /\ At(t, "storeSeparator")
    /\ cut' = (reply[t].cmd.kind # "set")
    /\ Goto(t, "storeStatus")
    /\ UNCHANGED <<cloudVars, flagVars, section, received, fresh, reply,
                   parsed, executed, suspended, deleted>>

StoreStatus(t) ==
    /\ At(t, "storeStatus")
    /\ section' = [section EXCEPT !.st = reply[t].cmd.st]
    /\ Goto(t, "raise")
    /\ UNCHANGED <<cloudVars, flagVars, cut, received, fresh, reply, parsed,
                   executed, suspended, deleted>>

StoreSection(t) == StoreKind(t) \/ StoreDevice(t) \/ StoreSeparator(t) \/ StoreStatus(t)

(* The section of the answer is not looked at again. *)
RaiseFlag(t) ==
    /\ At(t, "raise")
    /\ IF reply[t].req \in {"getDevices", "bootGet"}
       THEN WriteFlags(t, {"POPULATEDEVICES"}, {})
       ELSE WriteFlags(t, RaisedBy(reply[t].cmd.kind), {})
    /\ Goto(t, "rule")
    /\ reply' = [reply EXCEPT ![t] = [reply[t] EXCEPT !.cmd = NoData]]
    /\ UNCHANGED <<cloudVars, sectionVars, parsed, executed, suspended,
                   deleted>>

RequestClear(t) ==
    /\ At(t, "rule")
    /\ IF flags \cap ClearRequesters # {}
       THEN WriteFlags(t, {"POSTNONEWDATA"}, {})
       ELSE WriteNothing(t)
    /\ reply' = [reply EXCEPT ![t] = [NoReply EXCEPT !.ok = reply[t].ok]]
    /\ Goto(t, After[reply[t].req])
    /\ UNCHANGED <<cloudVars, sectionVars, parsed, executed, suspended,
                   deleted>>
----------------------------------------------------------------------------
(* check_new_data_task: poll, or take a fetch flag for a lost connection   *)
(* and delete the processing task.                                         *)
(* Mutant: the poller then stops itself. *)
StopsItself ==
    /\ At("fetch", "check")
    /\ IF flags \cap PollBlockers = {}
       THEN Goto("fetch", "poll") /\ UNCHANGED <<deleted, suspended>>
       ELSE deleted' = TRUE /\ suspended' = suspended \cup {"fetch"} /\ UNCHANGED pc
    /\ UNCHANGED <<cloudVars, flagVars, sectionVars, reply, parsed, executed>>
CheckNewData ==
    /\ At("fetch", "check")
    /\ IF flags \cap PollBlockers = {}
       THEN Goto("fetch", "poll") /\ UNCHANGED deleted
       ELSE deleted' = TRUE /\ UNCHANGED pc
    /\ UNCHANGED <<cloudVars, flagVars, sectionVars, reply, parsed, executed,
                   suspended>>
----------------------------------------------------------------------------
(* data_processing_task.  Take(l, yes, no): test the flag of l; lower it   *)
(* and go to yes, or go to no.                                             *)
Take(l, yes, no) ==
    /\ At("process", l)
    /\ IF Tested[l] \in flags
       THEN WriteFlags("process", {}, {Tested[l]}) /\ Goto("process", yes)
       ELSE WriteNothing("process") /\ Goto("process", no)

TakeFetchInfo ==
    /\ Take("info", "suspendInfo", "devices")
    /\ UNCHANGED <<cloudVars, sectionVars, reply, parsed, executed, suspended,
                   deleted>>

TakeFetchDevices ==
    /\ Take("devices", "suspendDevices", "current")
    /\ UNCHANGED <<cloudVars, sectionVars, reply, parsed, executed, suspended,
                   deleted>>

(* Mutant: vTaskSuspend is given the task's own handle. *)
SuspendSelf ==
    \E l \in {"suspendInfo", "suspendDevices"} :
        /\ At("process", l)
        /\ suspended' = suspended \cup {"process"}
        /\ Goto("process", IF l = "suspendInfo" THEN "getInfo" ELSE "getDevices")
        /\ UNCHANGED <<cloudVars, flagVars, sectionVars, reply, parsed,
                       executed, deleted>>

SuspendFetch ==
    \E l \in {"suspendInfo", "suspendDevices"} :
        /\ At("process", l)
        /\ suspended' = suspended \cup {"fetch"}
        /\ Goto("process", IF l = "suspendInfo" THEN "getInfo" ELSE "getDevices")
        /\ UNCHANGED <<cloudVars, flagVars, sectionVars, reply, parsed,
                       executed, deleted>>

TakeCurrent ==
    /\ Take("current", "putCurrent", "set")
    /\ suspended' = IF "SETCONSUMEDCURRENT" \in flags
                    THEN suspended \cup {"acs"} ELSE suspended
    /\ UNCHANGED <<cloudVars, sectionVars, reply, parsed, executed, deleted>>

(* Mutant: the resume is commented out, like the ones of main.cpp:455. *)
ForgetAcs ==
    /\ At("process", "resumeAcs")
    /\ Goto("process", "set")
    /\ UNCHANGED <<cloudVars, flagVars, sectionVars, reply, parsed, executed,
                   suspended, deleted>>

ResumeAcs ==
    /\ At("process", "resumeAcs")
    /\ suspended' = suspended \ {"acs"}
    /\ Goto("process", "set")
    /\ UNCHANGED <<cloudVars, flagVars, sectionVars, reply, parsed, executed,
                   deleted>>

TakeSet ==
    /\ Take("set", "parse", "post")
    /\ UNCHANGED <<cloudVars, sectionVars, reply, parsed, executed, suspended,
                   deleted>>

(* The section is examined, cut at "/status/", and its device and its      *)
(* status are read one after the other: the buffer may change in between.  *)
(* strncmp and strstr are one look: whatever they find between two copies  *)
(* they would also find together at one moment of it.                      *)
Parse ==
    /\ At("process", "parse")
    /\ Goto("process", IF section.kind = "set" /\ ~cut THEN "cut" ELSE "raisePost")
    /\ UNCHANGED <<cloudVars, flagVars, sectionVars, reply, parsed, executed,
                   suspended, deleted>>

CutSection ==
    /\ At("process", "cut")
    /\ cut' = TRUE
    /\ Goto("process", "device")
    /\ UNCHANGED <<cloudVars, flagVars, section, received, fresh, reply,
                   parsed, executed, suspended, deleted>>

ReadDevice ==
    /\ At("process", "device")
    /\ parsed' = section.dev
    /\ Goto("process", "power")
    /\ UNCHANGED <<cloudVars, flagVars, sectionVars, reply, executed,
                   suspended, deleted>>

(* The poller is in the middle of the copy of a set section. *)
SetCopying == pc["fetch"] \in Copying \ {"storeKind"} /\ reply["fetch"].cmd.kind = "set"

(* Mutant: the test of strcmp is the wrong way round. *)
SetOpposite ==
    /\ At("process", "power")
    /\ executed' = [kind |-> "set", dev |-> parsed, st |-> ~section.st]
    /\ fresh' = (fresh /\ (SetCopying \/ parsed # received.dev \/ section.st # received.st))
    /\ parsed' = 0
    /\ Goto("process", "patchStatus")
    /\ UNCHANGED <<cloudVars, flagVars, section, cut, received, reply,
                   suspended, deleted>>

(* Read the status, switch the relay and go on to report it. *)
SetDevice ==
    /\ At("process", "power")
    /\ executed' = [kind |-> "set", dev |-> parsed, st |-> section.st]
    /\ fresh' = (fresh /\ (SetCopying \/ parsed # received.dev \/ section.st # received.st))
    /\ parsed' = 0
    /\ Goto("process", "patchStatus")
    /\ UNCHANGED <<cloudVars, flagVars, section, cut, received, reply,
                   suspended, deleted>>

(* Mutant: the flag is reset after the handling, as main.cpp:393 says. *)
ResetAfterHandling ==
    /\ At("process", "raisePost")
    /\ WriteFlags("process", {"POSTNONEWDATA"}, {"SETNEWDEVICEDATA"})
    /\ Goto("process", "post")
    /\ UNCHANGED <<cloudVars, sectionVars, reply, parsed, executed, suspended,
                   deleted>>

RaisePost ==
    /\ At("process", "raisePost")
    /\ WriteFlags("process", {"POSTNONEWDATA"}, {})
    /\ Goto("process", "post")
    /\ UNCHANGED <<cloudVars, sectionVars, reply, parsed, executed, suspended,
                   deleted>>

TakePost ==
    /\ Take("post", "clear", "info")
    /\ UNCHANGED <<cloudVars, sectionVars, reply, parsed, executed, suspended,
                   deleted>>

(* clear_new_data_section: with status 200 the fetch flags go down too. *)
ResetFlags ==
    /\ At("process", "reset")
    /\ IF reply["process"].ok THEN WriteFlags("process", {}, ClearedByClear)
       ELSE WriteNothing("process")
    /\ reply' = [reply EXCEPT !["process"] = NoReply]
    /\ Goto("process", "resume")
    /\ UNCHANGED <<cloudVars, sectionVars, parsed, executed, suspended,
                   deleted>>

ResumeFetch ==
    /\ At("process", "resume")
    /\ suspended' = suspended \ {"fetch"}
    /\ Goto("process", "populate")
    /\ UNCHANGED <<cloudVars, flagVars, sectionVars, reply, parsed, executed,
                   deleted>>

PopulateMenu ==
    /\ Take("populate", "info", "info")
    /\ UNCHANGED <<cloudVars, sectionVars, reply, parsed, executed, suspended,
                   deleted>>
----------------------------------------------------------------------------
(* The rest of app_main begins when the tasks already run. *)
ClearInitializing ==
    /\ At("boot", "initializing")
    /\ WriteFlags("boot", {}, {"INITIALIZING"})
    /\ Goto("boot", "announce")
    /\ UNCHANGED <<cloudVars, sectionVars, reply, parsed, executed, suspended,
                   deleted>>

(* read_acs712_task has measured a powered relay. *)
ReportCurrent ==
    /\ At("acs", "report")
    /\ WriteFlags("acs", {"SETCONSUMEDCURRENT"}, {})
    /\ UNCHANGED <<cloudVars, sectionVars, pc, reply, parsed, executed,
                   suspended, deleted>>

(* An answer to a task that asks for no command: only the last rule of the *)
(* handler applies to it.                                                  *)
OtherAnswer ==
    /\ At("alive", "answer")
    /\ IF flags \cap ClearRequesters # {}
       THEN WriteFlags("alive", {"POSTNONEWDATA"}, {})
       ELSE WriteNothing("alive")
    /\ UNCHANGED <<cloudVars, sectionVars, pc, reply, parsed, executed,
                   suspended, deleted>>

(* The web client writes a command: environment. *)
WriteCommand ==
    /\ written < MaxCommands
    /\ newData' \in Commands
    /\ written' = written + 1
    /\ UNCHANGED <<reboots, flagVars, sectionVars, pc, reply, parsed,
                   executed, suspended, deleted>>

StartLocation == [fetch |-> "check", process |-> "info",
                  boot |-> "initializing", acs |-> "report", alive |-> "answer"]

(* A reset at any moment: the memory is lost, the database is not, and     *)
(* neither are the histories.  Boot is taken up where app_main has created *)
(* the tasks.                                                              *)
Reboot ==
    /\ reboots < MaxReboots
    /\ reboots' = reboots + 1
    /\ flags' = {"INITIALIZING"} /\ loading' = {} /\ byte' = [t \in Tasks |-> {}]
    /\ section' = NoData /\ cut' = TRUE
    /\ pc' = StartLocation
    /\ reply' = [t \in Tasks |-> NoReply]
    /\ parsed' = 0
    /\ suspended' = {} /\ deleted' = FALSE
    /\ UNCHANGED <<newData, written, received, fresh, executed>>
----------------------------------------------------------------------------
Init ==
    /\ newData = NoData /\ written = 0 /\ reboots = 0
    /\ flags = {"INITIALIZING"} /\ loading = {} /\ byte = [t \in Tasks |-> {}]
    /\ section = NoData /\ cut = TRUE /\ received = NoData /\ fresh = FALSE
    /\ pc = StartLocation
    /\ reply = [t \in Tasks |-> NoReply]
    /\ parsed = 0
    /\ executed = NoData
    /\ suspended = {} /\ deleted = FALSE

Http(t) == \E req \in Requests \cap {pc[t]} :
               Exchange(t, req) \/ ExchangeFails(t, req) \/ ExchangeRefused(t, req)
Handle(t) == StoreSection(t) \/ RaiseFlag(t) \/ RequestClear(t)
Fetch == CheckNewData \/ Http("fetch") \/ Handle("fetch")
Process == \/ TakeFetchInfo \/ TakeFetchDevices \/ SuspendFetch
           \/ TakeCurrent \/ ResumeAcs
           \/ TakeSet \/ Parse \/ CutSection \/ ReadDevice \/ SetDevice \/ RaisePost
           \/ TakePost \/ ResetFlags \/ ResumeFetch \/ PopulateMenu
           \/ Http("process") \/ Handle("process")
Boot == ClearInitializing \/ Http("boot") \/ Handle("boot")

Next == \/ Fetch \/ Process \/ Boot
        \/ ReportCurrent \/ OtherAnswer
        \/ \E t \in Tasks : LoadByte(t)
        \/ WriteCommand \/ Reboot

Spec == Init /\ [][Next]_vars

(* The scheduler runs every task that is ready, and an HTTP exchange ends  *)
(* (its timeout is finite), so each task that can step does.  No fairness  *)
(* for the client, for resets, nor for an exchange to succeed.             *)
Fairness == /\ WF_vars(Fetch \/ LoadByte("fetch"))
            /\ WF_vars(Process \/ LoadByte("process"))
            /\ WF_vars(Boot \/ LoadByte("boot"))
FairSpec == Spec /\ Fairness
----------------------------------------------------------------------------
TypeOK ==
    /\ {newData, section, received, executed} \subseteq Sections
    /\ cut \in BOOLEAN /\ fresh \in BOOLEAN /\ deleted \in BOOLEAN
    /\ written \in 0..MaxCommands /\ reboots \in 0..MaxReboots
    /\ flags \subseteq Flags
    /\ loading \subseteq Tasks /\ byte \in [Tasks -> SUBSET Flags]
    /\ pc \in [Tasks -> UNION {Locations[t] : t \in Tasks}]
    /\ \A t \in Tasks : pc[t] \in Locations[t]
    /\ reply \in [Tasks -> Replies]
    /\ parsed \in Devices \cup {0}
    /\ suspended \subseteq {"fetch", "acs"}

(* The handshake between the poller and the processing task loses no set   *)
(* command: while a copied one has not been acted on, its flag is up, is   *)
(* about to go up, or the processing task is between lowering it           *)
(* (main.cpp:393) and reading the buffer (:416).                           *)
Acting == {"parse", "cut", "device", "power"}
SetPending == \/ "SETNEWDEVICEDATA" \in flags
              \/ SetCopying
              \/ pc["fetch"] = "raise" /\ reply["fetch"].cmd.kind = "set"
FreshIsSignalled == fresh => SetPending \/ pc["process"] \in Acting

(* Whatever the interleaving of copies and reads, once nothing is pending  *)
(* the last set command carried out is the last one received, whatever was *)
(* copied, or reset, since.                                                *)
LastReceivedExecuted == ~fresh => executed = received

(* Nothing in the code ensures the two.  They hold unless one of four      *)
(* things happens to a set command, all of them real:                      *)
(* two tasks update flag bytes at once, or one is stopped in the middle of *)
(* an update (globals.h:58-82);                                            *)
OneUpdate == \A t, u \in loading : t = u /\ Runs(t)
(* a section of another kind is copied over one still to be acted on;      *)
NotOverwritten ==
    (\E t \in Tasks : pc[t] \in Copying /\ reply[t].cmd.kind # "set")
        => ~fresh /\ ~SetPending /\ pc["process"] \notin Acting
(* the cut falls into a copy that has only the status to write, so that    *)
(* the old status is read and the new section is found cut (main.cpp:407); *)
CutUntorn == pc["process"] = "cut" => \A t \in Tasks : pc[t] # "storeStatus"
(* or the chip resets before the command is acted on.                      *)
Undisturbed == /\ (OneUpdate /\ NotOverwritten /\ CutUntorn)'
               /\ reboots' # reboots => ~fresh

(* The behaviours in which none of the four happens. *)
UndisturbedSpec == Init /\ [][Next /\ Undisturbed]_vars

(* The device never stops entirely: the poller is not left suspended by a  *)
(* processing task that has been deleted (main.cpp:331, 367, 380).         *)
NeverBothStopped == ~(deleted /\ "fetch" \in suspended)

(* The sensor task, which only the processing task resumes, is resumed     *)
(* (main.cpp:387-389) unless that one is deleted.                          *)
AcsIsResumed == "acs" \in suspended ~> "acs" \notin suspended \/ deleted

(* "If WiFi is not connected, exit the task" (main.cpp:329): WiFi is       *)
(* connected throughout, so the processing task is not deleted,            *)
DeletedOnlyOffline == ~deleted
(* and the poller stops for no other reason: once suspended it is resumed  *)
(* (main.cpp:454).                                                         *)
PollerIsResumed == "fetch" \in suspended ~> "fetch" \notin suspended
=============================================================================
