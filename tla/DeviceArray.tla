---------------------------- MODULE DeviceArray ----------------------------
(***************************************************************************)
(* The devices array and the measurements taken along it.  An answer to    *)
(* GET devices.json replaces the array: the processing task frees the old  *)
(* one before it asks, the boot asks too, and the announcement it made     *)
(* makes the two do so at once.  read_acs712_task, which starts when the   *)
(* boot has its answer, walks along the array by deviceCount, measures the *)
(* relays that are powered and hands each reading to the processing task   *)
(* by currentDeviceIndex, device_currents and SETCONSUMEDCURRENT.  Nothing *)
(* but the suspension around a report keeps two tasks apart, and           *)
(* check_new_data_task may delete the processing task.                     *)
(*                                                                         *)
(* Places are counted from 1.  An entry of the answer that lacks a field   *)
(* is only counted.  free(devices) and devices = NULL are one step; the    *)
(* relays are in DeviceControl, the menu in Menu, the updates that bit     *)
(* fields lose in CommandLoop.                                             *)
(***************************************************************************)
EXTENDS Naturals, Sequences

CONSTANTS
    Lists,     \* the lists the database may have: how many entries, and the
               \* types of the valid ones
    Room,      \* the entries of device_currents
    Readings,  \* the average currents
    Steady     \* TRUE: a list does not change while a task asks for it

ASSUME ListsAssumption ==
    /\ Lists # {}
    /\ \A l \in Lists : /\ l.entries \in Seq({"relay", "ir"})
                        /\ l.size \in Len(l.entries)..Room
ASSUME RoomAssumption == Room \in Nat \ {0}
ASSUME SteadyAssumption == Steady \in BOOLEAN

VARIABLES
    list,             \* the list in the database
    devices,          \* the types in the array; <<>> for NULL
    deviceCount,
    pc,               \* where the three tasks stand
    answer, stored,   \* the answer a task handles, and the entries it has stored
    i,                \* the place read_acs712_task has come to
    device_currents, currentDeviceIndex,
    consumed,         \* SETCONSUMEDCURRENT
    suspended,        \* read_acs712_task is
    average,          \* the value the processing task has read for its report
    sent              \* history: the reading of the last report

loadVars == <<answer, stored>>
reportVars == <<suspended, average, sent>>
arrayVars == <<list, devices, deviceCount, loadVars>>
currentVars == <<device_currents, currentDeviceIndex>>
measureVars == <<i, currentVars, consumed, reportVars>>
vars == <<arrayVars, pc, measureVars>>
----------------------------------------------------------------------------
Tasks == {"boot", "process", "acs"}
Loaders == {"boot", "process"}
Places == 1..Room
Locations == {"get", "count", "malloc", "fill", "done",
              "fetch", "free", "zero", "current", "suspend", "value", "put", "resume",
              "next", "type", "level", "measure", "index", "raise",
              "deleted", "torn"}
Raw == "raw"      \* what malloc has left in an entry
Types == {"relay", "ir", Raw}

At(t, l) == pc[t] = l
Goto(t, l) == pc' = [pc EXCEPT ![t] = l]
Step(t, from, to) == At(t, from) /\ Goto(t, to)

(* The processing task is deleted, at "torn" while it was freeing the      *)
(* array.                                                                  *)
Deleted == pc["process"] \in {"deleted", "torn"}

(* The loaders after their request: the processing task goes on to the     *)
(* next flag.  Mutant: the flags are alternatives.                         *)
RestAtFirst(t) == IF t = "boot" THEN "done" ELSE "fetch"
Rest(t) == IF t = "boot" THEN "done" ELSE "current"
Loading(t) == pc[t] \in {"get", "count", "malloc", "fill"}
Quiet == \A t \in Loaders : ~Loading(t) /\ pc[t] \notin {"free", "zero"}
----------------------------------------------------------------------------
Beginning == [t \in Tasks |-> IF t = "boot" THEN "get"
                             ELSE IF t = "process" THEN "fetch" ELSE "next"]
NoAnswer == [t \in Loaders |-> [size |-> 0, entries |-> <<>>]]
NoCurrents == [k \in Places |-> 0]
NothingSent == [at |-> 1, value |-> 0]

Init == /\ list \in Lists
        /\ devices = <<>> /\ deviceCount = 0
        /\ pc = Beginning /\ answer = NoAnswer /\ stored = [t \in Loaders |-> 0]
        /\ i = 1 /\ device_currents = NoCurrents /\ currentDeviceIndex = 1
        /\ consumed = FALSE /\ suspended = FALSE /\ average = 0
        /\ sent = NothingSent

(* The client adds and removes devices. *)
ChangeList == /\ Steady => Quiet
              /\ list' \in Lists
              /\ UNCHANGED <<devices, deviceCount, pc, loadVars, measureVars>>
----------------------------------------------------------------------------
(* FETCHNEWDEVICESDATA is up, or is not; the task then looks at the next   *)
(* flag.                                                                   *)
TakeFetch == /\ Step("process", "fetch", "free") \/ Step("process", "fetch", "current")
             /\ UNCHANGED <<arrayVars, measureVars>>

FreeArray == /\ IF devices = <<>> THEN Step("process", "free", "get")
                                  ELSE Step("process", "free", "zero")
             /\ devices' = <<>>
             /\ UNCHANGED <<list, deviceCount, loadVars, measureVars>>

ZeroCount == /\ Step("process", "zero", "get")
             /\ deviceCount' = 0
             /\ UNCHANGED <<list, devices, loadVars, measureVars>>

(* Mutant: the index goes on where the last load left it. *)
GetAndGoOn(t) ==
    /\ \/ Step(t, "get", "count") /\ answer' = [answer EXCEPT ![t] = list]
       \/ Step(t, "get", Rest(t)) /\ UNCHANGED answer
    /\ UNCHANGED <<list, devices, deviceCount, stored, measureVars>>

(* The request fails, or its answer is no array. *)
GetDevices(t) ==
    /\ \/ /\ Step(t, "get", "count")
          /\ answer' = [answer EXCEPT ![t] = list] /\ stored' = [stored EXCEPT ![t] = 0]
       \/ Step(t, "get", Rest(t)) /\ UNCHANGED loadVars
    /\ UNCHANGED <<list, devices, deviceCount, measureVars>>

SetCount(t) == /\ Step(t, "count", "malloc")
               /\ deviceCount' = answer[t].size
               /\ UNCHANGED <<list, devices, loadVars, measureVars>>

(* Mutant: room for one entry less. *)
AllocateLess(t) ==
    /\ \/ /\ deviceCount > 0 /\ Step(t, "malloc", "fill")
          /\ devices' = [k \in 1..(deviceCount - 1) |-> Raw]
       \/ Step(t, "malloc", Rest(t)) /\ devices' = <<>>
    /\ UNCHANGED <<list, deviceCount, loadVars, measureVars>>

(* malloc is given the shared count; it may fail, and does for no entries. *)
Allocate(t) ==
    /\ \/ /\ deviceCount > 0 /\ Step(t, "malloc", "fill")
          /\ devices' = [k \in 1..deviceCount |-> Raw]
       \/ Step(t, "malloc", Rest(t)) /\ devices' = <<>>
    /\ UNCHANGED <<list, deviceCount, loadVars, measureVars>>

(* Entries go to wherever devices points to by then. *)
Left(t) == At(t, "fill") /\ stored[t] < Len(answer[t].entries)
Fill(t) ==
    /\ Left(t) /\ stored[t] + 1 \in DOMAIN devices
    /\ devices' = [devices EXCEPT ![stored[t] + 1] = answer[t].entries[stored[t] + 1]]
    /\ stored' = [stored EXCEPT ![t] = stored[t] + 1]
    /\ UNCHANGED <<list, deviceCount, pc, answer, measureVars>>

EndFill(t) == /\ ~Left(t) /\ Step(t, "fill", Rest(t))
              /\ UNCHANGED <<arrayVars, measureVars>>
----------------------------------------------------------------------------
(* read_acs712_task.  An entry that is not stored reads as anything.       *)
Runs == pc["boot"] = "done" /\ ~suspended
NextPlace == Goto("acs", "next") /\ i' = i + 1
Seen(k) == IF devices = <<>> THEN {}
           ELSE IF k \in DOMAIN devices /\ devices[k] # Raw THEN {devices[k]}
           ELSE Types \ {Raw}

CheckCount == /\ Runs /\ At("acs", "next")
              /\ IF i <= deviceCount THEN Goto("acs", "type") /\ UNCHANGED i
                                     ELSE i' = 1 /\ UNCHANGED pc
              /\ UNCHANGED <<arrayVars, currentVars, consumed, reportVars>>

CheckType == /\ Runs /\ At("acs", "type")
             /\ \/ "relay" \in Seen(i) /\ Goto("acs", "level") /\ UNCHANGED i
                \/ "ir" \in Seen(i) /\ NextPlace
             /\ UNCHANGED <<arrayVars, currentVars, consumed, reportVars>>

(* Only a relay that is powered is measured. *)
CheckLevel == /\ Runs /\ At("acs", "level") /\ devices # <<>>
              /\ (Goto("acs", "measure") /\ UNCHANGED i) \/ NextPlace
              /\ UNCHANGED <<arrayVars, currentVars, consumed, reportVars>>

Measure == /\ Runs /\ Step("acs", "measure", "index")
           /\ \E r \in Readings : device_currents' = [device_currents EXCEPT ![i] = r]
           /\ UNCHANGED <<arrayVars, i, currentDeviceIndex, consumed, reportVars>>

(* Mutant: the index is stored after the loop has stepped it. *)
StoreNext == /\ Runs /\ Step("acs", "index", "raise")
             /\ currentDeviceIndex' = i + 1
             /\ UNCHANGED <<arrayVars, i, device_currents, consumed, reportVars>>

StoreIndex == /\ Runs /\ Step("acs", "index", "raise")
              /\ currentDeviceIndex' = i
              /\ UNCHANGED <<arrayVars, i, device_currents, consumed, reportVars>>

(* Mutant: a small current is not announced. *)
RaiseLarge == /\ Runs /\ At("acs", "raise") /\ NextPlace
              /\ consumed' = (consumed \/ device_currents[i] > 1)
              /\ UNCHANGED <<arrayVars, currentVars, reportVars>>

RaiseCurrent == /\ Runs /\ At("acs", "raise") /\ NextPlace
                /\ consumed' = TRUE
                /\ UNCHANGED <<arrayVars, currentVars, reportVars>>
----------------------------------------------------------------------------
(* The processing task at SETCONSUMEDCURRENT. *)
TakeCurrent == /\ IF consumed THEN Step("process", "current", "suspend")
                              ELSE Step("process", "current", "fetch")
               /\ consumed' = FALSE
               /\ UNCHANGED <<arrayVars, i, currentVars, reportVars>>

(* Mutant: the task is not suspended. *)
LetAcsRun == /\ Step("process", "suspend", "value")
             /\ UNCHANGED <<arrayVars, measureVars>>

SuspendAcs == /\ Step("process", "suspend", "value")
              /\ suspended' = TRUE
              /\ UNCHANGED <<arrayVars, i, currentVars, consumed, average, sent>>

(* The two arguments of the report. *)
ReadValue == /\ Step("process", "value", "put")
             /\ average' = device_currents[currentDeviceIndex]
             /\ UNCHANGED <<arrayVars, i, currentVars, consumed, suspended, sent>>

(* The request is made once; whether it gets through, nobody looks at.     *)
PutCurrent == /\ Step("process", "put", "resume")
              /\ sent' = [at |-> currentDeviceIndex, value |-> average]
              /\ UNCHANGED <<arrayVars, i, currentVars, consumed, suspended, average>>

ResumeAcs == /\ Step("process", "resume", "fetch")
             /\ suspended' = FALSE
             /\ UNCHANGED <<arrayVars, i, currentVars, consumed, average, sent>>
----------------------------------------------------------------------------
(* check_new_data_task finds a fetch flag up and deletes the processing    *)
(* task, wherever that is.  Only while a load has its answer it cannot: it *)
(* is suspended before the request (main.cpp:380) and resumed after it.    *)
DeleteProcess ==
    /\ ~Deleted /\ pc["process"] \notin {"count", "malloc", "fill"}
    /\ IF At("process", "free")
       THEN /\ Goto("process", "torn")
            /\ \E n \in 0..deviceCount :
                   devices' = [k \in DOMAIN devices |-> IF k <= n THEN Raw ELSE devices[k]]
       ELSE Goto("process", "deleted") /\ UNCHANGED devices
    /\ UNCHANGED <<list, deviceCount, loadVars, measureVars>>
----------------------------------------------------------------------------
(* A task reads or writes through devices while it is NULL, or beyond its  *)
(* end, or frees or compares strings that nobody has stored: where this    *)
(* does not end in a reset, the actions above go on with any value.        *)
Bad(k) == k \in DOMAIN devices => devices[k] = Raw
Crash(t) == CASE t = "boot" -> Left(t) /\ stored[t] + 1 \notin DOMAIN devices
              [] t = "process" -> \/ Left(t) /\ stored[t] + 1 \notin DOMAIN devices
                                  \/ /\ At(t, "free") /\ devices # <<>>
                                     /\ \E k \in 1..deviceCount : Bad(k)
              [] OTHER -> Runs /\ \/ At(t, "type") /\ Bad(i)
                                  \/ At(t, "level") /\ devices = <<>>
Reset(t) ==
    /\ Crash(t)
    /\ devices' = <<>> /\ deviceCount' = 0
    /\ pc' = Beginning /\ answer' = NoAnswer /\ stored' = [l \in Loaders |-> 0]
    /\ i' = 1 /\ device_currents' = NoCurrents /\ currentDeviceIndex' = 1
    /\ consumed' = FALSE /\ suspended' = FALSE /\ average' = 0
    /\ sent' = NothingSent
    /\ UNCHANGED list

Load(t) == GetDevices(t) \/ SetCount(t) \/ Allocate(t) \/ Fill(t) \/ EndFill(t) \/ Reset(t)
Boot == Load("boot")
Process == \/ TakeFetch \/ FreeArray \/ ZeroCount \/ Load("process")
           \/ TakeCurrent \/ SuspendAcs \/ ReadValue \/ PutCurrent \/ ResumeAcs
Acs == \/ CheckCount \/ CheckType \/ CheckLevel \/ Measure \/ StoreIndex \/ RaiseCurrent
       \/ Reset("acs")
Next == ChangeList \/ Boot \/ Process \/ Acs \/ DeleteProcess
Spec == Init /\ [][Next]_vars

(* The scheduler runs a task that is ready and a request ends, so the      *)
(* processing task goes on until it is deleted.  No fairness for others.   *)
FairSpec == Spec /\ WF_vars(Process)
----------------------------------------------------------------------------
TypeOK == /\ list \in Lists
          /\ devices \in UNION {[1..n -> Types] : n \in 0..Room}
          /\ deviceCount \in 0..Room
          /\ pc \in [Tasks -> Locations]
          /\ answer \in [Loaders -> Lists \cup {NoAnswer["boot"]}]
          /\ stored \in [Loaders -> 0..Room]
          /\ i \in 1..(Room + 1)
          /\ device_currents \in [Places -> Readings \cup {0}]
          /\ currentDeviceIndex \in Places
          /\ consumed \in BOOLEAN /\ suspended \in BOOLEAN
          /\ average \in Readings \cup {0}
          /\ sent \in [at: Places, value: Readings \cup {0}]

(* Two tasks may be filling the array at once, each from its own answer:   *)
(* malloc and the loop around devices[index] (webserver.c:172-216) never   *)
(* let one of them store beyond the end of what the other has allocated.   *)
StoresInArray ==
    \A t \in Loaders : Left(t) /\ devices # <<>> => stored[t] + 1 \in DOMAIN devices

(* However the two loads interleave (main.cpp:371-382, 730), the array     *)
(* they leave behind is all of a list of the database, every valid entry   *)
(* of it stored, and deviceCount does not reach beyond it, also after the  *)
(* deletion of a loader, unless that was freeing the array.                *)
LoadedIsList ==
    Quiet /\ devices # <<>> /\ ~At("process", "torn") =>
        /\ 1..deviceCount \subseteq DOMAIN devices
        /\ \E t \in Loaders : /\ DOMAIN devices = 1..answer[t].size
                              /\ \A k \in 1..Len(answer[t].entries) :
                                     devices[k] = answer[t].entries[k]

(* The value that is reported was measured for the device it is reported   *)
(* of, although index and value are read apart (main.cpp:387-389).         *)
ReportIsPaired == At("process", "put") => average = device_currents[currentDeviceIndex]

(* What is handed over, and whether it is on its way to a report.          *)
Handed == [at |-> currentDeviceIndex, value |-> device_currents[currentDeviceIndex]]
OnItsWay == \/ consumed
            \/ pc["acs"] \in {"index", "raise"}
            \/ pc["process"] \in {"suspend", "value", "put"}

(* The hand-over by an index, a slot and a flag (main.cpp:384-389,         *)
(* 546-551) forgets no last reading while the processing task lives: with  *)
(* nothing on its way, the request made last is of what was measured last  *)
(* of currentDeviceIndex.                                                  *)
LastReadingSent == ~OnItsWay /\ ~Deleted => sent = Handed

(* A reading that was announced gets to its request, however often the     *)
(* list is fetched anew, unless the processing task is deleted or a reset  *)
(* comes first (main.cpp:331, 355-390, 551).                               *)
ReadingIsSent == consumed ~> At("process", "put") \/ Deleted \/ At("boot", "get")
=============================================================================
