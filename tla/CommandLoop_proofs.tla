------------------------- MODULE CommandLoop_proofs -------------------------
(***************************************************************************)
(* Proofs about CommandLoop for every set of devices and kinds of section, *)
(* any number of commands and of resets.                                   *)
(***************************************************************************)
EXTENDS CommandLoop, TLAPS

(* Every section a task may carry is a section. *)
LEMMA SectionsTyped ==
    /\ NoData \in Sections
    /\ Plain("devices") \in Sections
    /\ \A c \in Commands : c \in Sections
<1>. USE DEF Sections, Plain, NoData, AllKinds
<1>1. NoData \in Sections /\ Plain("devices") \in Sections
  OBVIOUS
<1>2. ASSUME NEW c \in Commands PROVE c \in Sections
  <2>1. CASE c \in Orders
    BY <2>1, OrdersAssumption DEF Devices
  <2>2. CASE c \in {Plain(k) : k \in OtherKinds}
    <3>1. PICK k \in OtherKinds : c = [kind |-> k, dev |-> 0, st |-> FALSE]
      BY <2>2
    <3>2. k \in AllKinds
      BY KindsAssumption
    <3>. QED BY <3>1, <3>2
  <2>. QED BY <1>2, <2>1, <2>2 DEF Commands
<1>. QED BY <1>1, <1>2

(* An update of the flags keeps flagVars well typed. *)
LEMMA FlagsTyped ==
    ASSUME TypeOK, NEW t \in Tasks, NEW up \in SUBSET Flags, NEW down \in SUBSET Flags,
           WriteFlags(t, up, down) \/ WriteNothing(t)
    PROVE  flags' \subseteq Flags /\ loading' \subseteq Tasks /\ byte' \in [Tasks -> SUBSET Flags]
  BY DEF TypeOK, WriteFlags, WriteNothing

(* Moving a task to a location of its own keeps pc well typed. *)
LEMMA GotoTyped ==
    ASSUME TypeOK, NEW t \in Tasks, NEW l \in Locations[t], Goto(t, l)
    PROVE  /\ pc' \in [Tasks -> UNION {Locations[u] : u \in Tasks}]
           /\ \A u \in Tasks : pc'[u] \in Locations[u]
  BY DEF TypeOK, Goto

LEMMA RaisedAreFlags ==
    /\ \A k : RaisedBy(k) \subseteq Flags
    /\ ClearedByClear \subseteq Flags
    /\ \A l \in DOMAIN Tested : Tested[l] \in Flags
    /\ {"POPULATEDEVICES", "POSTNONEWDATA", "SETCONSUMEDCURRENT", "INITIALIZING"} \subseteq Flags
  BY DEF RaisedBy, ClearedByClear, Tested, Flags, Byte2, Byte3

LEMMA InitTyped == Init => TypeOK
<1>. SUFFICES ASSUME Init PROVE TypeOK
  OBVIOUS
<1>1. pc \in [Tasks -> UNION {Locations[u] : u \in Tasks}]
      /\ \A u \in Tasks : pc[u] \in Locations[u]
  BY DEF Init, StartLocation, Tasks, Looping, Locations
<1>2. reply \in [Tasks -> Replies]
  BY SectionsTyped DEF Init, Replies, NoReply
<1>3. flags \subseteq Flags /\ loading \subseteq Tasks /\ byte \in [Tasks -> SUBSET Flags]
  BY RaisedAreFlags DEF Init
<1>4. {newData, section, received, executed} \subseteq Sections
  BY SectionsTyped DEF Init
<1>5. cut \in BOOLEAN /\ fresh \in BOOLEAN /\ deleted \in BOOLEAN
  BY DEF Init
<1>6. written \in 0..MaxCommands /\ reboots \in 0..MaxReboots
  BY BoundAssumption DEF Init
<1>7. /\ parsed \in Devices \cup {0}
      /\ suspended \subseteq {"fetch", "acs"}
  BY DEF Init
<1>. QED
  BY <1>1, <1>2, <1>3, <1>4, <1>5, <1>6, <1>7 DEF TypeOK
----------------------------------------------------------------------------
(* A task that handles an answer is one that sends that kind of request:   *)
(* without it the location it returns to would not be known.               *)
AnswersOwn == \A t \in Tasks : pc[t] \in Handling
                                  => reply[t].req \in Requests \cap Locations[t]
TInv == TypeOK /\ AnswersOwn

LEMMA SenderLocations ==
    ASSUME NEW t \in Tasks, NEW req \in Requests, req \in Locations[t]
    PROVE  /\ Handling \subseteq Locations[t]
           /\ After[req] \in Locations[t]
           /\ After[req] \notin Handling
           /\ req \notin Handling
  BY DEF Tasks, Looping, Requests, After, Locations, Handling, Copying

LEMMA HttpTyped ==
    ASSUME TInv, NEW t \in Tasks, NEW req \in Requests,
           Exchange(t, req) \/ ExchangeFails(t, req) \/ ExchangeRefused(t, req)
    PROVE  TInv'
<1>1. pc[t] = req /\ req \in Locations[t]
  BY DEF TInv, TypeOK, Exchange, ExchangeFails, ExchangeRefused, At
<1>2. /\ Handling \subseteq Locations[t] /\ After[req] \in Locations[t]
      /\ After[req] \notin Handling
  BY <1>1, SenderLocations
<1>3. Body(req) \in Sections /\ NodeAfter(req) \in Sections
  BY SectionsTyped DEF TInv, TypeOK, Body, NodeAfter
<1>4. PICK l \in Locations[t], r \in Replies :
          /\ Goto(t, l) /\ reply' = [reply EXCEPT ![t] = r]
          /\ l \in Handling => r.req = req
  <2>1. CASE Exchange(t, req)
    <3>1. [req |-> req, cmd |-> Body(req), ok |-> req = "clear"] \in Replies
      BY <1>3 DEF Replies
    <3>. QED BY <2>1, <3>1, <1>2 DEF Exchange, Handling, Copying
  <2>2. CASE ExchangeFails(t, req)
    BY <2>2, <1>2, SectionsTyped DEF ExchangeFails, NoReply, Replies
  <2>3. CASE ExchangeRefused(t, req)
    <3>1. NoReply \in Replies
      BY SectionsTyped DEF NoReply, Replies
    <3>2. [NoReply EXCEPT !.req = req] \in Replies /\ [NoReply EXCEPT !.req = req].req = req
      BY <3>1 DEF Replies
    <3>3. /\ reply' = [reply EXCEPT ![t] = [NoReply EXCEPT !.req = req]]
          /\ Goto(t, "rule") /\ "rule" \in Locations[t]
      BY <2>3, <1>2 DEF ExchangeRefused, Handling
    <3>. QED BY <3>2, <3>3
  <2>. QED BY <2>1, <2>2, <2>3
<1>6. newData' \in Sections
  BY <1>3 DEF TInv, TypeOK, Exchange, ExchangeFails, ExchangeRefused, cloudVars
<1>7. UNCHANGED <<written, reboots, flags, loading, byte, section, cut, received, fresh,
                 parsed, executed, suspended, deleted>>
  BY DEF Exchange, ExchangeFails, ExchangeRefused, cloudVars, flagVars, sectionVars
<1>8. TypeOK'
  <2>1. /\ pc' \in [Tasks -> UNION {Locations[u] : u \in Tasks}]
        /\ \A u \in Tasks : pc'[u] \in Locations[u]
    BY <1>4, GotoTyped DEF TInv
  <2>2. reply' \in [Tasks -> Replies]
    BY <1>4 DEF TInv, TypeOK
  <2>. QED BY <2>1, <2>2, <1>6, <1>7 DEF TInv, TypeOK
<1>9. AnswersOwn'
  BY <1>1, <1>4 DEF TInv, TypeOK, AnswersOwn, Goto
<1>. QED BY <1>8, <1>9 DEF TInv

(* What is left to show of a step that moves t and sends nothing.          *)
LocalTyped ==
    /\ UNCHANGED <<newData, written, reboots>>
    /\ flags' \subseteq Flags /\ loading' \subseteq Tasks
    /\ byte' \in [Tasks -> SUBSET Flags]
    /\ {section', received', executed'} \subseteq Sections
    /\ cut' \in BOOLEAN /\ fresh' \in BOOLEAN /\ deleted' \in BOOLEAN
    /\ parsed' \in Devices \cup {0}
    /\ suspended' \subseteq {"fetch", "acs"}

(* A task goes on with an answer whose section it has no more use for.     *)
Forgets(t, r) == pc[t] \in Handling /\ r = [reply[t] EXCEPT !.cmd = NoData]

LEMMA StepTyped ==
    ASSUME TInv, NEW t \in Tasks, NEW l \in Locations[t], Goto(t, l), LocalTyped,
           NEW r \in Replies,
           \/ UNCHANGED reply /\ (l \in Handling => pc[t] \in Handling)
           \/ reply' = [reply EXCEPT ![t] = r] /\ l \notin Handling
           \/ reply' = [reply EXCEPT ![t] = r] /\ Forgets(t, r)
    PROVE  TInv'
<1>1. AnswersOwn'
  BY DEF TInv, TypeOK, AnswersOwn, Goto, Forgets, Replies
<1>2. /\ pc' \in [Tasks -> UNION {Locations[u] : u \in Tasks}]
      /\ \A u \in Tasks : pc'[u] \in Locations[u]
  BY GotoTyped DEF TInv
<1>3. reply' \in [Tasks -> Replies]
  BY DEF TInv, TypeOK
<1>. QED BY <1>1, <1>2, <1>3 DEF LocalTyped, TInv, TypeOK

LEMMA HandleTyped ==
    ASSUME TInv, NEW t \in Tasks, Handle(t)
    PROVE  TInv'
<1>. USE DEF cloudVars, flagVars, sectionVars
<1>0. pc[t] \in Handling /\ pc[t] \in Locations[t]
  BY DEF Handle, StoreSection, StoreKind, StoreDevice, StoreSeparator, StoreStatus,
     RaiseFlag, RequestClear, At, Handling, Copying, TInv, TypeOK
<1>1. /\ reply[t] \in Replies
      /\ reply[t].req \in Requests \cap Locations[t]
      /\ reply[t].cmd \in Sections /\ reply[t].ok \in BOOLEAN
  BY <1>0 DEF TInv, TypeOK, AnswersOwn, Replies
<1>2. Handling \subseteq Locations[t] /\ After[reply[t].req] \in Locations[t]
      /\ After[reply[t].req] \notin Handling
  BY <1>1, SenderLocations
<1>3. CASE StoreSection(t)
  <2>1. /\ reply[t].cmd.kind \in AllKinds \cup {"set", "none"}
        /\ reply[t].cmd.dev \in Devices \cup {0} /\ reply[t].cmd.st \in BOOLEAN
    BY <1>1 DEF Sections
  <2>2. section' \in Sections
    BY <1>3, <2>1 DEF StoreSection, StoreKind, StoreDevice, StoreSeparator, StoreStatus,
       TInv, TypeOK, Sections
  <2>3. LocalTyped
    BY <1>3, <1>1, <2>2 DEF StoreSection, StoreKind, StoreDevice, StoreSeparator,
       StoreStatus, LocalTyped, TInv, TypeOK
  <2>4. UNCHANGED reply /\ \E l \in Handling : Goto(t, l)
    BY <1>3 DEF StoreSection, StoreKind, StoreDevice, StoreSeparator, StoreStatus,
       Handling, Copying
  <2>. QED BY <2>3, <2>4, <1>0, <1>1, <1>2, StepTyped
<1>4. CASE RaiseFlag(t)
  <2>1. flags' \subseteq Flags /\ loading' \subseteq Tasks /\ byte' \in [Tasks -> SUBSET Flags]
    <3>1. \E up \in SUBSET Flags : WriteFlags(t, up, {})
      BY <1>4, RaisedAreFlags DEF RaiseFlag
    <3>. QED BY <3>1, FlagsTyped DEF TInv
  <2>2. LocalTyped
    BY <1>4, <2>1 DEF RaiseFlag, LocalTyped, TInv, TypeOK
  <2>3. Goto(t, "rule") /\ "rule" \in Locations[t]
    BY <1>4, <1>2 DEF RaiseFlag, Handling
  <2>4. \E r \in Replies : reply' = [reply EXCEPT ![t] = r] /\ Forgets(t, r)
    <3>1. [reply[t] EXCEPT !.cmd = NoData] \in Replies
      BY <1>1, SectionsTyped DEF Replies
    <3>. QED BY <1>4, <1>0, <3>1 DEF RaiseFlag, Forgets
  <2>. QED BY <2>2, <2>3, <2>4, StepTyped
<1>5. CASE RequestClear(t)
  <2>1. flags' \subseteq Flags /\ loading' \subseteq Tasks /\ byte' \in [Tasks -> SUBSET Flags]
    <3>1. PICK up \in SUBSET Flags : WriteFlags(t, up, {}) \/ WriteNothing(t)
      BY <1>5, RaisedAreFlags DEF RequestClear
    <3>2. {} \in SUBSET Flags
      OBVIOUS
    <3>. QED BY <3>1, <3>2, FlagsTyped DEF TInv
  <2>2. LocalTyped
    BY <1>5, <2>1 DEF RequestClear, LocalTyped, TInv, TypeOK
  <2>3. \E r \in Replies : reply' = [reply EXCEPT ![t] = r]
    <3>1. [NoReply EXCEPT !.ok = reply[t].ok] \in Replies
      BY <1>1, SectionsTyped DEF NoReply, Replies
    <3>. QED BY <1>5, <3>1 DEF RequestClear
  <2>4. Goto(t, After[reply[t].req])
    BY <1>5 DEF RequestClear
  <2>. QED BY <2>2, <2>3, <2>4, <1>2, StepTyped
<1>. QED BY <1>3, <1>4, <1>5 DEF Handle

(* The processing task's own steps.                                        *)
OwnSteps == \/ TakeFetchInfo \/ TakeFetchDevices \/ SuspendFetch
            \/ TakeCurrent \/ ResumeAcs
            \/ TakeSet \/ Parse \/ CutSection \/ ReadDevice \/ SetDevice \/ RaisePost
            \/ TakePost \/ ResetFlags \/ ResumeFetch \/ PopulateMenu

LEMMA OwnStepsTyped == TInv /\ OwnSteps => TInv'
<1>. SUFFICES ASSUME TInv, OwnSteps PROVE TInv'
  OBVIOUS
<1>. USE DEF cloudVars, flagVars, sectionVars
<1>1. "process" \in Tasks
  BY DEF Tasks, Looping
<1>2. PICK l \in Locations["process"] \ Handling : Goto("process", l)
  BY DEF OwnSteps, TakeFetchInfo, TakeFetchDevices, SuspendFetch, TakeCurrent, ResumeAcs,
         TakeSet, Parse, CutSection, ReadDevice, SetDevice, RaisePost, TakePost, ResetFlags,
         ResumeFetch, PopulateMenu, Take, Locations, Handling, Copying
<1>3. flags' \subseteq Flags /\ loading' \subseteq Tasks /\ byte' \in [Tasks -> SUBSET Flags]
  <2>1. CASE UNCHANGED flagVars
    BY <2>1 DEF TInv, TypeOK
  <2>2. CASE \E up, down \in SUBSET Flags :
                 WriteFlags("process", up, down) \/ WriteNothing("process")
    BY <2>2, <1>1, FlagsTyped DEF TInv
  <2>3. UNCHANGED flagVars \/ \E up, down \in SUBSET Flags :
                 WriteFlags("process", up, down) \/ WriteNothing("process")
    <3>1. ASSUME NEW k \in DOMAIN Tested, NEW yes, NEW no, Take(k, yes, no)
          PROVE  \E up, down \in SUBSET Flags :
                     WriteFlags("process", up, down) \/ WriteNothing("process")
      BY <3>1, RaisedAreFlags DEF Take
    <3>2. {"info", "devices", "current", "set", "post", "populate"} \subseteq DOMAIN Tested
      BY DEF Tested
    <3>3. CASE TakeFetchInfo \/ TakeFetchDevices \/ TakeCurrent \/ TakeSet \/ TakePost
               \/ PopulateMenu
      BY <3>1, <3>2, <3>3 DEF TakeFetchInfo, TakeFetchDevices, TakeCurrent, TakeSet,
         TakePost, PopulateMenu
    <3>4. CASE RaisePost \/ ResetFlags
      BY <3>4, RaisedAreFlags DEF RaisePost, ResetFlags
    <3>5. CASE SuspendFetch \/ ResumeAcs \/ Parse \/ CutSection \/ ReadDevice
               \/ SetDevice \/ ResumeFetch
      BY <3>5 DEF SuspendFetch, ResumeAcs, Parse, CutSection, ReadDevice, SetDevice,
         ResumeFetch
    <3>. QED BY <3>3, <3>4, <3>5 DEF OwnSteps
  <2>. QED BY <2>1, <2>2, <2>3
<1>4. section.dev \in Devices \cup {0} /\ section.st \in BOOLEAN /\ parsed \in Devices \cup {0}
  BY DEF TInv, TypeOK, Sections
<1>5. [kind |-> "set", dev |-> parsed, st |-> section.st] \in Sections
  BY <1>4 DEF Sections
<1>6. \E r \in Replies : UNCHANGED reply \/ reply' = [reply EXCEPT !["process"] = r]
  <2>1. NoReply \in Replies
    BY SectionsTyped DEF NoReply, Replies
  <2>. QED BY <2>1 DEF OwnSteps, TakeFetchInfo, TakeFetchDevices, SuspendFetch,
     TakeCurrent, ResumeAcs, TakeSet, Parse, CutSection, ReadDevice, SetDevice, RaisePost,
     TakePost, ResetFlags, ResumeFetch, PopulateMenu
<1>7. LocalTyped
  BY <1>3, <1>4, <1>5 DEF OwnSteps, TakeFetchInfo, TakeFetchDevices, SuspendFetch,
     TakeCurrent, ResumeAcs, TakeSet, Parse, CutSection, ReadDevice, SetDevice, RaisePost,
     TakePost, ResetFlags, ResumeFetch, PopulateMenu, LocalTyped, TInv, TypeOK
<1>. QED BY <1>1, <1>2, <1>6, <1>7, StepTyped

LEMMA NextTyped == TInv /\ [Next]_vars => TInv'
<1>. SUFFICES ASSUME TInv, [Next]_vars PROVE TInv'
  OBVIOUS
<1>1. CASE \E t \in Tasks : Http(t)
  BY <1>1, HttpTyped DEF Http
<1>2. CASE \E t \in Tasks : Handle(t)
  BY <1>2, HandleTyped
<1>3. CASE OwnSteps
  BY <1>3, OwnStepsTyped
<1>4. CASE CheckNewData
  <2>1. "fetch" \in Tasks /\ "poll" \in Locations["fetch"] /\ "poll" \notin Handling
    BY DEF Tasks, Looping, Locations, Handling, Copying
  <2>2. LocalTyped
    BY <1>4 DEF CheckNewData, cloudVars, flagVars, sectionVars, LocalTyped,
       TInv, TypeOK
  <2>3. CASE Goto("fetch", "poll")
    <3>1. UNCHANGED reply /\ reply["fetch"] \in Replies
      BY <1>4, <2>1 DEF CheckNewData, TInv, TypeOK
    <3>. QED BY <2>1, <2>2, <2>3, <3>1, StepTyped
  <2>4. CASE UNCHANGED pc
    BY <1>4, <2>2, <2>4 DEF CheckNewData, LocalTyped, TInv, TypeOK, AnswersOwn
  <2>. QED BY <1>4, <2>3, <2>4 DEF CheckNewData
<1>5. CASE ReportCurrent \/ OtherAnswer \/ \E t \in Tasks : LoadByte(t)
  <2>1. flags' \subseteq Flags /\ loading' \subseteq Tasks /\ byte' \in [Tasks -> SUBSET Flags]
    <3>1. CASE ReportCurrent
      <4>1. "acs" \in Tasks /\ {} \in SUBSET Flags /\ {"SETCONSUMEDCURRENT"} \in SUBSET Flags
        BY RaisedAreFlags DEF Tasks, Looping
      <4>2. WriteFlags("acs", {"SETCONSUMEDCURRENT"}, {})
        BY <3>1 DEF ReportCurrent
      <4>. QED BY <4>1, <4>2, FlagsTyped DEF TInv
    <3>2. CASE \E t \in Tasks : LoadByte(t)
      BY <3>2 DEF LoadByte, TInv, TypeOK
    <3>3. CASE OtherAnswer
      <4>1. "alive" \in Tasks /\ {} \in SUBSET Flags /\ {"POSTNONEWDATA"} \in SUBSET Flags
        BY RaisedAreFlags DEF Tasks, Looping
      <4>2. WriteFlags("alive", {"POSTNONEWDATA"}, {}) \/ WriteNothing("alive")
        BY <3>3 DEF OtherAnswer
      <4>. QED BY <4>1, <4>2, FlagsTyped DEF TInv
    <3>. QED BY <1>5, <3>1, <3>2, <3>3
  <2>2. UNCHANGED <<cloudVars, sectionVars, pc, reply, parsed, executed, suspended, deleted>>
    BY <1>5 DEF ReportCurrent, OtherAnswer, LoadByte
  <2>. QED
    BY <2>1, <2>2 DEF cloudVars, sectionVars, TInv, TypeOK, AnswersOwn
<1>6. CASE WriteCommand
  <2>1. newData' \in Sections
    BY <1>6, SectionsTyped DEF WriteCommand
  <2>2. written' \in 0..MaxCommands
    <3>1. written \in 0..MaxCommands
      BY DEF TInv, TypeOK
    <3>. QED BY <3>1, <1>6, BoundAssumption DEF WriteCommand
  <2>. QED BY <1>6, <2>1, <2>2 DEF WriteCommand, flagVars, sectionVars, TInv,
           TypeOK, AnswersOwn
<1>7. CASE Reboot
  <2>1. pc' \in [Tasks -> UNION {Locations[u] : u \in Tasks}]
        /\ \A u \in Tasks : pc'[u] \in Locations[u] /\ pc'[u] \notin Handling
    BY <1>7 DEF Reboot, StartLocation, Tasks, Looping, Locations, Handling, Copying
  <2>2. reply' \in [Tasks -> Replies]
    BY <1>7, SectionsTyped DEF Reboot, Replies, NoReply
  <2>3. {section', received', executed'} \subseteq Sections
    BY <1>7, SectionsTyped DEF Reboot, TInv, TypeOK
  <2>4. reboots' \in 0..MaxReboots
    <3>1. reboots \in 0..MaxReboots
      BY DEF TInv, TypeOK
    <3>. QED BY <3>1, <1>7, BoundAssumption DEF Reboot
  <2>5. /\ flags' \subseteq Flags /\ loading' \subseteq Tasks
        /\ byte' \in [Tasks -> SUBSET Flags]
    BY <1>7, RaisedAreFlags DEF Reboot
  <2>6. UNCHANGED <<newData, written>>
    BY <1>7 DEF Reboot
  <2>7. /\ cut' \in BOOLEAN /\ fresh' \in BOOLEAN /\ deleted' \in BOOLEAN
        /\ parsed' \in Devices \cup {0} /\ suspended' \subseteq {"fetch", "acs"}
    BY <1>7 DEF Reboot, TInv, TypeOK
  <2>8. TypeOK'
    BY <2>1, <2>2, <2>3, <2>4, <2>5, <2>6, <2>7 DEF TInv, TypeOK
  <2>. QED BY <2>1, <2>8 DEF TInv, AnswersOwn
<1>8. CASE UNCHANGED vars
  BY <1>8 DEF vars, TInv, TypeOK, AnswersOwn
<1>9. {"fetch", "process", "boot"} \subseteq Tasks
  BY DEF Tasks, Looping
<1>10. CASE ClearInitializing
  <2>1. /\ "boot" \in Tasks /\ "announce" \in Locations["boot"] \ Handling
        /\ {} \in SUBSET Flags /\ {"INITIALIZING"} \in SUBSET Flags
    BY RaisedAreFlags DEF Tasks, Looping, Locations, Handling, Copying
  <2>2. flags' \subseteq Flags /\ loading' \subseteq Tasks /\ byte' \in [Tasks -> SUBSET Flags]
    BY <1>10, <2>1, FlagsTyped DEF ClearInitializing, TInv
  <2>3. LocalTyped
    BY <1>10, <2>2 DEF ClearInitializing, cloudVars, sectionVars, LocalTyped,
       TInv, TypeOK
  <2>4. UNCHANGED reply /\ reply["boot"] \in Replies
    BY <1>10, <2>1 DEF ClearInitializing, TInv, TypeOK
  <2>. QED BY <1>10, <2>1, <2>3, <2>4, StepTyped DEF ClearInitializing
<1>. QED
  BY <1>1, <1>2, <1>3, <1>4, <1>5, <1>6, <1>7, <1>8, <1>9, <1>10
  DEF Next, Fetch, Process, Boot, OwnSteps

LEMMA InitTInv == Init => TInv
<1>1. Init => AnswersOwn
  BY DEF Init, AnswersOwn, StartLocation, Tasks, Looping, Handling, Copying
<1>. QED BY <1>1, InitTyped DEF TInv

(* Every variable keeps its type, and a task handles only answers to       *)
(* requests of its own (client_event_get_handler runs on the caller).      *)
THEOREM TypeCorrect == Spec => [](TypeOK /\ AnswersOwn)
<1>1. Spec => []TInv
  BY InitTInv, NextTyped, PTL DEF Spec
<1>. QED BY <1>1, PTL DEF TInv
----------------------------------------------------------------------------
(* The poller and the processing task never stop for each other: a deleted *)
(* task suspends nobody, and a suspended poller deletes nobody.            *)
THEOREM NeverStoppedBoth == Spec => []NeverBothStopped
<1>1. Init => NeverBothStopped
  BY DEF Init, NeverBothStopped
<1>2. TInv /\ NeverBothStopped /\ [Next]_vars => NeverBothStopped'
  <2>. SUFFICES ASSUME TInv, NeverBothStopped, [Next]_vars PROVE NeverBothStopped'
    OBVIOUS
  <2>1. CASE UNCHANGED <<suspended, deleted>>
    BY <2>1 DEF NeverBothStopped
  <2>2. CASE OwnSteps
    <3>1. ~deleted /\ UNCHANGED deleted
      BY <2>2 DEF OwnSteps, TakeFetchInfo, TakeFetchDevices, SuspendFetch, TakeCurrent,
         ResumeAcs, TakeSet, Parse, CutSection, ReadDevice, SetDevice, RaisePost, TakePost,
         ResetFlags, ResumeFetch, PopulateMenu, Take, At, Runs
    <3>. QED BY <3>1 DEF NeverBothStopped
  <2>3. CASE CheckNewData
    BY <2>3 DEF CheckNewData, At, Runs, NeverBothStopped
  <2>4. CASE Reboot
    BY <2>4 DEF Reboot, NeverBothStopped
  <2>5. CASE \E t \in Tasks : Http(t) \/ Handle(t) \/ LoadByte(t)
    BY <2>1, <2>5 DEF Http, Exchange, ExchangeFails, ExchangeRefused, Handle, StoreSection,
       StoreKind, StoreDevice, StoreSeparator, StoreStatus, RaiseFlag, RequestClear, LoadByte
  <2>6. CASE ReportCurrent \/ OtherAnswer \/ WriteCommand \/ ClearInitializing
    BY <2>1, <2>6 DEF ReportCurrent, OtherAnswer, WriteCommand, ClearInitializing
  <2>7. {"fetch", "process", "boot"} \subseteq Tasks
    BY DEF Tasks, Looping
  <2>. QED BY <2>1, <2>2, <2>3, <2>4, <2>5, <2>6, <2>7
           DEF Next, Fetch, Process, Boot, OwnSteps, vars
<1>3. Spec => []TInv
  BY TypeCorrect, PTL DEF TInv
<1>. QED BY <1>1, <1>2, <1>3, PTL DEF Spec
----------------------------------------------------------------------------
(* The hand-over of set commands, as long as none of the four things       *)
(* happens to one.                                                         *)
Calm == OneUpdate /\ NotOverwritten /\ CutUntorn
Writing == Copying \ {"storeKind"}

(* Nobody else has updated the bytes a task has loaded.                    *)
ByteCurrent == \A t \in loading : byte[t] = flags

(* No task but the poller copies a set section.                            *)
OnlyPollerSets ==
    \A t \in Tasks \ {"fetch"} : pc[t] \in Handling => reply[t].cmd.kind # "set"

(* The copy of a set section is whole up to where it stands.               *)
CopySoFar ==
    SetCopying => /\ fresh /\ received = reply["fetch"].cmd /\ section.kind = "set"
                  /\ pc["fetch"] # "storeDevice" => section.dev = received.dev
                  /\ pc["fetch"] = "storeStatus" => ~cut

(* Once it is done, whoever is told of it finds the whole of it.           *)
Content ==
    fresh \/ SetPending \/ pc["process"] \in Acting
        => SetCopying \/ (section = received /\ section.kind = "set")

(* A command that waits is found cut only by the reader who cut it, and    *)
(* one that came between the two reads has its flag still to be seen.      *)
CutWhileRead ==
    fresh /\ cut /\ ~SetCopying => \/ pc["process"] = "device"
                                   \/ pc["process"] = "power" /\ parsed = received.dev
OvertakenIsPending ==
    pc["process"] = "power" /\ parsed # received.dev => fresh /\ SetPending

Handover == /\ CopySoFar /\ Content /\ CutWhileRead /\ OvertakenIsPending
            /\ FreshIsSignalled /\ LastReceivedExecuted
HInv == ByteCurrent /\ OnlyPollerSets /\ Handover

LEMMA PlainKinds == /\ NoData.kind = "none"
                    /\ Plain("devices").kind = "devices"
  BY DEF NoData, Plain

(* An update whose byte is current changes the flags it names, no other.   *)
LEMMA CurrentUpdate ==
    ASSUME TInv, ByteCurrent, NEW t \in Tasks, NEW up \in SUBSET Flags,
           NEW down \in SUBSET Flags, WriteFlags(t, up, down)
    PROVE  flags' = (flags \ down) \cup up
<1>1. byte[t] = flags /\ flags \subseteq Byte2 \cup Byte3
  BY DEF WriteFlags, ByteCurrent, TInv, TypeOK, Flags
<1>2. \A f \in down : \E b \in {Byte2, Byte3} : f \in b
  BY DEF Flags
<1>. DEFINE bytes == UNION {b \in {Byte2, Byte3} : b \cap (up \cup down) # {}}
<1>3. flags' = (flags \ bytes) \cup (((flags \cap bytes) \ down) \cup up)
  BY <1>1 DEF WriteFlags
<1>4. down \subseteq bytes
  BY <1>2
<1>. HIDE DEF bytes
<1>. QED BY <1>3, <1>4

(* With one update at a time, bytes stay current.                          *)
LEMMA BytesStayCurrent == TInv /\ OneUpdate /\ ByteCurrent /\ [Next]_vars => ByteCurrent'
<1>. SUFFICES ASSUME TInv, OneUpdate, ByteCurrent, [Next]_vars PROVE ByteCurrent'
  OBVIOUS
<1>. USE DEF TInv, TypeOK
<1>1. CASE UNCHANGED flagVars
  BY <1>1 DEF flagVars, ByteCurrent
<1>2. CASE loading' = {}
  BY <1>2 DEF ByteCurrent
<1>3. CASE \E t \in Tasks : LoadByte(t)
  BY <1>3 DEF LoadByte, ByteCurrent
<1>4. ASSUME NEW t \in Tasks, NEW up, NEW down, WriteFlags(t, up, down)
      PROVE  loading' = {}
  BY <1>4 DEF WriteFlags, OneUpdate
<1>5. ASSUME NEW t \in Tasks, WriteNothing(t) PROVE ByteCurrent'
  BY <1>5 DEF WriteNothing, ByteCurrent
<1>6. Tasks = {"fetch", "process", "boot", "acs", "alive"}
  BY DEF Tasks, Looping
<1>7. CASE \E t \in Tasks : Http(t)
  BY <1>1, <1>7 DEF Http, Exchange, ExchangeFails, ExchangeRefused
<1>8. CASE \E t \in Tasks : Handle(t)
  BY <1>1, <1>2, <1>4, <1>5, <1>8 DEF Handle, StoreSection, StoreKind, StoreDevice,
     StoreSeparator, StoreStatus, RaiseFlag, RequestClear
<1>9. CASE OwnSteps
  <2>1. CASE TakeFetchInfo \/ TakeFetchDevices \/ TakeCurrent \/ TakeSet \/ TakePost
             \/ PopulateMenu
    <3>1. ASSUME NEW k, NEW yes, NEW no, Take(k, yes, no)
          PROVE  ByteCurrent'
      BY <3>1, <1>2, <1>4, <1>5, <1>6 DEF Take
    <3>. QED BY <2>1, <3>1 DEF TakeFetchInfo, TakeFetchDevices, TakeCurrent, TakeSet,
             TakePost, PopulateMenu
  <2>2. CASE RaisePost \/ ResetFlags
    BY <2>2, <1>2, <1>4, <1>5, <1>6 DEF RaisePost, ResetFlags
  <2>3. CASE SuspendFetch \/ ResumeAcs \/ Parse \/ CutSection \/ ReadDevice \/ SetDevice
             \/ ResumeFetch
    BY <2>3, <1>1 DEF SuspendFetch, ResumeAcs, Parse, CutSection, ReadDevice, SetDevice,
       ResumeFetch
  <2>. QED BY <1>9, <2>1, <2>2, <2>3 DEF OwnSteps
<1>10. CASE CheckNewData \/ WriteCommand \/ UNCHANGED vars
  BY <1>1, <1>10 DEF CheckNewData, WriteCommand, vars, flagVars
<1>11. CASE ClearInitializing \/ ReportCurrent \/ OtherAnswer \/ Reboot
  BY <1>2, <1>4, <1>5, <1>6, <1>11 DEF ClearInitializing, ReportCurrent, OtherAnswer, Reboot
<1>. QED BY <1>3, <1>6, <1>7, <1>8, <1>9, <1>10, <1>11
         DEF Next, Fetch, Process, Boot, OwnSteps

(* An answer that carries a set section is one the poller asked for.       *)
LEMMA HttpKeepsPoller ==
    ASSUME TInv, OnlyPollerSets, NEW t \in Tasks, Http(t)
    PROVE  OnlyPollerSets'
<1>1. PICK req \in Requests : Exchange(t, req) \/ ExchangeFails(t, req) \/ ExchangeRefused(t, req)
  BY DEF Http
<1>2. pc[t] = req /\ req \in Locations[t]
  BY <1>1 DEF TInv, TypeOK, Exchange, ExchangeFails, ExchangeRefused, At
<1>3. \A u \in Tasks : u # t => pc'[u] = pc[u] /\ reply'[u] = reply[u]
  BY <1>1 DEF Exchange, ExchangeFails, ExchangeRefused, Goto, TInv, TypeOK
<1>4. CASE t = "fetch"
  BY <1>4, <1>3 DEF OnlyPollerSets
<1>5. CASE t # "fetch"
  <2>1. req # "poll"
    BY <1>5, <1>2 DEF Tasks, Looping, Locations, Handling, Copying
  <2>2. Body(req).kind # "set"
    BY <2>1, PlainKinds DEF Body
  <2>3. reply'[t].cmd.kind # "set"
    BY <1>1, <2>2, PlainKinds DEF Exchange, ExchangeFails, ExchangeRefused, NoReply, TInv, TypeOK
  <2>. QED BY <2>3, <1>3 DEF OnlyPollerSets
<1>. QED BY <1>4, <1>5

(* A task that goes on with its answer, or turns to something else, copies *)
(* nothing new.                                                            *)
LEMMA MovesKeepPoller ==
    ASSUME TInv, OnlyPollerSets, NEW t \in Tasks, NEW l, Goto(t, l), NEW r \in Replies,
           \/ UNCHANGED reply /\ (l \in Handling => pc[t] \in Handling)
           \/ reply' = [reply EXCEPT ![t] = r] /\ l \notin Handling
           \/ reply' = [reply EXCEPT ![t] = r] /\ Forgets(t, r)
    PROVE  OnlyPollerSets'
  BY PlainKinds DEF OnlyPollerSets, Goto, TInv, TypeOK, Tasks, Forgets, Replies

LEMMA ActingAside == Acting \cap Handling = {} /\ "rule" \notin Writing /\ "raise" \notin Writing
  BY DEF Acting, Handling, Copying, Writing

(* The poller is not starting, going on with or ending a copy.             *)
PollerAside ==
    \/ pc'["fetch"] = pc["fetch"] /\ reply'["fetch"] = reply["fetch"]
    \/ {pc["fetch"], pc'["fetch"]} \cap Writing = {}

(* A step beside the hand-over.                                            *)
LEMMA Aside ==
    ASSUME TInv, HInv, UNCHANGED <<section, cut, received, fresh, parsed, executed>>,
           PollerAside, SetPending' <=> SetPending,
           \A a \in Acting : pc'["process"] = a <=> pc["process"] = a
    PROVE  Handover'
<1>1. SetPending' <=> SetPending
  OBVIOUS
<1>2. SetCopying' <=> SetCopying
  BY DEF PollerAside, SetCopying, Writing
<1>3. pc'["process"] \in Acting <=> pc["process"] \in Acting
  OBVIOUS
<1>4. CopySoFar'
  BY <1>2 DEF HInv, Handover, CopySoFar, PollerAside, SetCopying, Writing
<1>5. Content'
  BY <1>1, <1>2, <1>3 DEF HInv, Handover, Content
<1>6. CutWhileRead' /\ OvertakenIsPending'
  BY <1>1, <1>2 DEF HInv, Handover, CutWhileRead, OvertakenIsPending, Acting
<1>7. FreshIsSignalled' /\ LastReceivedExecuted'
  BY <1>1, <1>3 DEF HInv, Handover, FreshIsSignalled, LastReceivedExecuted
<1>. QED BY <1>4, <1>5, <1>6, <1>7 DEF Handover

LEMMA HttpAside ==
    ASSUME TInv, HInv, NEW t \in Tasks, Http(t)
    PROVE  Handover'
<1>1. PICK req \in Requests : Exchange(t, req) \/ ExchangeFails(t, req) \/ ExchangeRefused(t, req)
  BY DEF Http
<1>2. pc[t] = req /\ req \in Locations[t]
  BY <1>1 DEF TInv, TypeOK, Exchange, ExchangeFails, ExchangeRefused, At
<1>3. UNCHANGED <<flags, section, cut, received, fresh, parsed, executed>>
  BY <1>1 DEF Exchange, ExchangeFails, ExchangeRefused, flagVars, sectionVars
<1>4. PICK l : /\ Goto(t, l)
               /\ \/ l \in {"storeKind", "rule", After[req]}
                  \/ l = "raise" /\ req \in {"getDevices", "bootGet"}
  BY <1>1 DEF Exchange, ExchangeFails, ExchangeRefused
<1>5. l \notin Acting \cup Writing /\ req \notin Acting \cup Writing \cup {"raise"}
  BY <1>2, <1>4 DEF Tasks, Looping, Requests, After, Locations, Handling, Copying, Writing, Acting
<1>6. t = "fetch" => l # "raise"
  BY <1>2, <1>4 DEF Requests, After, Locations, Handling, Copying
<1>7. \A u \in Tasks : u # t => pc'[u] = pc[u] /\ reply'[u] = reply[u]
  BY <1>1 DEF Exchange, ExchangeFails, ExchangeRefused, Goto, TInv, TypeOK
<1>8. pc'[t] = l
  BY <1>4 DEF Goto, TInv, TypeOK
<1>9. {"fetch", "process"} \subseteq Tasks
  BY DEF Tasks, Looping
<1>10. PollerAside
  BY <1>2, <1>5, <1>7, <1>8, <1>9 DEF PollerAside
<1>11. \A a \in Acting : pc'["process"] = a <=> pc["process"] = a
  BY <1>2, <1>5, <1>7, <1>8, <1>9
<1>12. SetPending' <=> SetPending
  BY <1>2, <1>3, <1>5, <1>6, <1>7, <1>8, <1>9 DEF SetPending, SetCopying, Writing
<1>. QED BY <1>3, <1>10, <1>11, <1>12, Aside

(* The copy of a section, one part after the other.                        *)
LEMMA StoreHandover ==
    ASSUME TInv, HInv, Calm, NEW t \in Tasks, StoreSection(t)
    PROVE  Handover'
<1>1. /\ pc[t] \in Copying /\ pc[t] \in Handling
      /\ UNCHANGED <<flags, reply, parsed, executed>>
  BY DEF StoreSection, StoreKind, StoreDevice, StoreSeparator, StoreStatus, At, Copying,
     Handling, flagVars
<1>2. PICK l \in Writing \cup {"raise"} : Goto(t, l)
  BY DEF StoreSection, StoreKind, StoreDevice, StoreSeparator, StoreStatus, Writing, Copying
<1>3. pc'[t] = l /\ (\A u \in Tasks : u # t => pc'[u] = pc[u])
      /\ {"fetch", "process"} \subseteq Tasks
  BY <1>2 DEF Goto, TInv, TypeOK, Tasks, Looping
<1>4. \A a \in Acting : pc'["process"] = a <=> pc["process"] = a
  BY <1>1, <1>3 DEF Acting, Handling, Copying, Writing
<1>5. CASE reply[t].cmd.kind # "set"
  <2>1. ~fresh /\ ~SetPending /\ pc["process"] \notin Acting
    BY <1>1, <1>5 DEF Calm, NotOverwritten
  <2>2. UNCHANGED <<fresh, received>>
    BY <1>5 DEF StoreSection, StoreKind, StoreDevice, StoreSeparator, StoreStatus
  <2>3. ~SetPending' /\ ~SetCopying'
    BY <1>1, <1>3, <1>5, <2>1 DEF SetPending, SetCopying
  <2>4. pc'["process"] \notin Acting
    BY <1>4, <2>1
  <2>. QED
    BY <1>1, <2>1, <2>2, <2>3, <2>4 DEF HInv, Handover, CopySoFar, Content, CutWhileRead,
       OvertakenIsPending, FreshIsSignalled, LastReceivedExecuted, Acting
<1>6. CASE reply[t].cmd.kind = "set"
  <2>1. t = "fetch"
    BY <1>1, <1>6 DEF HInv, OnlyPollerSets
  <2>2. reply["fetch"].cmd \in Sections
    BY <2>1 DEF TInv, TypeOK, Replies
  <2>3. CASE StoreKind(t)
    <3>1. /\ section' = [section EXCEPT !.kind = "set"] /\ fresh'
          /\ received' = reply'["fetch"].cmd /\ pc'["fetch"] = "storeDevice"
      BY <1>1, <1>6, <2>1, <2>3, <1>3 DEF StoreKind, Goto, TInv, TypeOK
    <3>2. SetCopying' /\ SetPending'
      BY <1>1, <1>6, <2>1, <3>1 DEF SetCopying, SetPending, Copying
    <3>3. section'.kind = "set"
      BY <3>1 DEF TInv, TypeOK, Sections
    <3>. QED
      BY <3>1, <3>2, <3>3 DEF Handover, CopySoFar, Content, CutWhileRead,
         OvertakenIsPending, FreshIsSignalled, LastReceivedExecuted
  <2>4. CASE ~StoreKind(t)
    <3>1. /\ pc["fetch"] \in Writing /\ SetCopying /\ SetPending
          /\ fresh /\ received = reply["fetch"].cmd /\ section.kind = "set"
      BY <1>6, <2>1, <2>4 DEF StoreSection, StoreDevice, StoreSeparator, StoreStatus, At,
         Writing, Copying, SetCopying, SetPending, HInv, Handover, CopySoFar
    <3>2. UNCHANGED <<received, fresh>>
      BY <2>4 DEF StoreSection, StoreDevice, StoreSeparator, StoreStatus
    <3>3. SetPending'
      BY <1>1, <1>2, <1>3, <1>6, <2>1 DEF SetPending, SetCopying, Writing
    <3>4. OvertakenIsPending' /\ FreshIsSignalled' /\ LastReceivedExecuted'
      BY <3>1, <3>2, <3>3 DEF OvertakenIsPending, FreshIsSignalled, LastReceivedExecuted
    <3>5. CASE StoreDevice(t)
      <4>1. /\ section' = [section EXCEPT !.dev = received.dev]
            /\ pc'["fetch"] = "storeSeparator" /\ SetCopying'
        BY <1>1, <1>3, <1>6, <2>1, <3>1, <3>5 DEF StoreDevice, Goto, TInv, TypeOK,
           SetCopying, Copying
      <4>2. section'.kind = "set" /\ section'.dev = received'.dev
        BY <3>1, <3>2, <4>1 DEF TInv, TypeOK, Sections
      <4>. QED BY <1>1, <3>1, <3>2, <3>4, <4>1, <4>2
               DEF Handover, CopySoFar, Content, CutWhileRead
    <3>6. CASE StoreSeparator(t)
      <4>1. /\ pc["fetch"] = "storeSeparator" /\ UNCHANGED section
            /\ pc'["fetch"] = "storeStatus" /\ SetCopying' /\ ~cut'
        BY <1>1, <1>3, <1>6, <2>1, <3>1, <3>6 DEF StoreSeparator, At, Goto, TInv, TypeOK,
           SetCopying, Copying
      <4>2. section.dev = received.dev
        BY <3>1, <4>1 DEF HInv, Handover, CopySoFar
      <4>. QED BY <1>1, <3>1, <3>2, <3>4, <4>1, <4>2
               DEF Handover, CopySoFar, Content, CutWhileRead
    <3>7. CASE StoreStatus(t)
      <4>1. /\ pc["fetch"] = "storeStatus" /\ UNCHANGED cut
            /\ section' = [section EXCEPT !.st = received.st]
            /\ pc'["fetch"] = "raise"
        BY <1>1, <1>3, <1>6, <2>1, <3>1, <3>7 DEF StoreStatus, At, Goto, TInv, TypeOK
      <4>2. section.dev = received.dev /\ ~cut'
        BY <3>1, <4>1 DEF HInv, Handover, CopySoFar
      <4>3. section' = received'
        BY <1>6, <2>1, <2>2, <3>1, <3>2, <4>1, <4>2 DEF TInv, TypeOK, Sections
      <4>4. ~SetCopying' /\ section'.kind = "set"
        BY <1>6, <2>1, <3>1, <3>2, <4>1, <4>3 DEF SetCopying, Copying
      <4>. QED BY <3>4, <4>2, <4>3, <4>4 DEF Handover, CopySoFar, Content, CutWhileRead
    <3>. QED BY <2>4, <3>5, <3>6, <3>7 DEF StoreSection
  <2>. QED BY <2>3, <2>4
<1>. QED BY <1>5, <1>6

(* An update of the flags by a step that does not lower SETNEWDEVICEDATA,  *)
(* and raises it only for the poller.                                      *)
LEMMA UpdateKeeps ==
    ASSUME TInv, HInv, NEW t \in Tasks, NEW up \in SUBSET Flags, NEW down \in SUBSET Flags,
           WriteFlags(t, up, down) \/ WriteNothing(t) \/ UNCHANGED flagVars,
           "SETNEWDEVICEDATA" \notin up \cup down
    PROVE  "SETNEWDEVICEDATA" \in flags' <=> "SETNEWDEVICEDATA" \in flags
<1>1. CASE WriteFlags(t, up, down)
  <2>1. flags' = (flags \ down) \cup up
    BY <1>1, CurrentUpdate DEF HInv
  <2>. QED BY <2>1
<1>2. CASE WriteNothing(t) \/ UNCHANGED flagVars
  BY <1>2 DEF WriteNothing, flagVars
<1>. QED BY <1>1, <1>2

LEMMA OtherFlags ==
    /\ {"POPULATEDEVICES", "POSTNONEWDATA", "SETCONSUMEDCURRENT", "INITIALIZING",
        "FETCHNEWINFODATA", "FETCHNEWDEVICESDATA"} \subseteq Flags \ {"SETNEWDEVICEDATA"}
    /\ ClearedByClear \subseteq Flags \ {"SETNEWDEVICEDATA"}
    /\ \A k : k # "set" => RaisedBy(k) \subseteq Flags \ {"SETNEWDEVICEDATA"}
    /\ RaisedBy("set") = {"SETNEWDEVICEDATA"}
    /\ "SETNEWDEVICEDATA" \in Flags
  BY DEF RaisedBy, ClearedByClear, Flags, Byte2, Byte3

(* The flag goes up after the copy, then the last rule of the handler.     *)
LEMMA SignalHandover ==
    ASSUME TInv, HInv, NEW t \in Tasks, RaiseFlag(t) \/ RequestClear(t)
    PROVE  Handover'
<1>1. /\ pc[t] \in {"raise", "rule"} /\ pc[t] \in Handling
      /\ UNCHANGED <<section, cut, received, fresh, parsed, executed>>
      /\ reply[t].req \in Requests \cap Locations[t]
  BY DEF RaiseFlag, RequestClear, At, Handling, sectionVars, TInv, AnswersOwn
<1>2. PICK l : Goto(t, l) /\ l \notin Acting \cup Copying \cup {"raise"}
  <2>1. CASE RaiseFlag(t)
    BY <2>1 DEF RaiseFlag, Acting, Copying
  <2>2. CASE RequestClear(t)
    <3>1. After[reply[t].req] \notin Acting \cup Copying \cup {"raise"}
      BY <1>1 DEF Requests, After, Acting, Copying
    <3>. QED BY <2>2, <3>1 DEF RequestClear
  <2>. QED BY <2>1, <2>2
<1>3. pc'[t] = l /\ (\A u \in Tasks : u # t => pc'[u] = pc[u] /\ reply'[u] = reply[u])
      /\ {"fetch", "process"} \subseteq Tasks
  BY <1>2 DEF RaiseFlag, RequestClear, Goto, TInv, TypeOK, Tasks, Looping
<1>4. \A a \in Acting : pc'["process"] = a <=> pc["process"] = a
  BY <1>1, <1>2, <1>3 DEF Acting
<1>5. PollerAside
  BY <1>1, <1>2, <1>3 DEF PollerAside, Writing, Copying
<1>6. SetPending' <=> SetPending
  <2>1. CASE RaiseFlag(t) /\ t = "fetch" /\ reply[t].cmd.kind = "set"
    <3>1. reply[t].req \notin {"getDevices", "bootGet"}
      BY <1>1, <2>1 DEF Requests, After, Locations, Handling, Copying
    <3>2. WriteFlags(t, {"SETNEWDEVICEDATA"}, {})
      BY <2>1, <3>1, OtherFlags DEF RaiseFlag
    <3>3. "SETNEWDEVICEDATA" \in flags'
      BY <3>2 DEF WriteFlags
    <3>4. pc["fetch"] = "raise"
      BY <2>1 DEF RaiseFlag, At
    <3>. QED BY <2>1, <3>3, <3>4 DEF SetPending
  <2>2. CASE ~(RaiseFlag(t) /\ t = "fetch" /\ reply[t].cmd.kind = "set")
    <3>1. RaiseFlag(t) => reply[t].cmd.kind # "set"
      BY <1>1, <2>2 DEF HInv, OnlyPollerSets
    <3>2. PICK up \in SUBSET Flags :
              /\ WriteFlags(t, up, {}) \/ WriteNothing(t)
              /\ "SETNEWDEVICEDATA" \notin up
      BY <3>1, OtherFlags DEF RaiseFlag, RequestClear
    <3>3. "SETNEWDEVICEDATA" \in flags' <=> "SETNEWDEVICEDATA" \in flags
      <4>. {} \in SUBSET Flags
        OBVIOUS
      <4>. QED BY <3>2, UpdateKeeps
    <3>4. t = "fetch" => ~(pc["fetch"] = "raise" /\ reply["fetch"].cmd.kind = "set")
      BY <1>1, <3>1 DEF RaiseFlag, RequestClear, At
    <3>. QED BY <1>1, <1>2, <1>3, <3>3, <3>4 DEF SetPending, SetCopying, Copying
  <2>. QED BY <2>1, <2>2
<1>. QED BY <1>1, <1>4, <1>5, <1>6, Aside

(* The processing task beside the hand-over.                               *)
LEMMA ProcessAside ==
    ASSUME TInv, HInv,
           UNCHANGED <<section, cut, received, fresh, parsed, executed>>,
           reply'["fetch"] = reply["fetch"],
           "SETNEWDEVICEDATA" \in flags' <=> "SETNEWDEVICEDATA" \in flags,
           NEW l, Goto("process", l),
           pc["process"] \notin Acting, l \notin Acting
    PROVE  Handover'
<1>1. pc'["process"] = l /\ pc'["fetch"] = pc["fetch"]
  BY DEF Goto, TInv, TypeOK, Tasks, Looping
<1>2. PollerAside /\ (SetPending' <=> SetPending)
  BY <1>1 DEF PollerAside, SetPending, SetCopying
<1>. QED BY <1>1, <1>2, Aside

LEMMA OwnAside ==
    ASSUME TInv, HInv,
           \/ TakeFetchInfo \/ TakeFetchDevices \/ TakeCurrent \/ TakePost \/ PopulateMenu
           \/ SuspendFetch \/ ResumeAcs \/ ResumeFetch \/ RaisePost \/ ResetFlags
    PROVE  Handover'
<1>1. UNCHANGED <<section, cut, received, fresh, parsed, executed>>
      /\ reply'["fetch"] = reply["fetch"]
  <2>1. CASE ResetFlags
    BY <2>1 DEF ResetFlags, sectionVars, TInv, TypeOK, Tasks, Looping
  <2>2. CASE ~ResetFlags
    BY <2>2 DEF TakeFetchInfo, TakeFetchDevices, TakeCurrent, TakePost, PopulateMenu,
       SuspendFetch, ResumeAcs, ResumeFetch, RaisePost, sectionVars
  <2>. QED BY <2>1, <2>2
<1>2. pc["process"] \notin Acting /\ \E l : Goto("process", l) /\ l \notin Acting
  BY DEF TakeFetchInfo, TakeFetchDevices, TakeCurrent, TakePost, PopulateMenu,
     SuspendFetch, ResumeAcs, ResumeFetch, RaisePost, ResetFlags, Take, At, Acting
<1>3. \E up, down \in SUBSET (Flags \ {"SETNEWDEVICEDATA"}) :
          \/ WriteFlags("process", up, down) \/ WriteNothing("process")
          \/ UNCHANGED flagVars
  <2>1. CASE TakeFetchInfo \/ TakeFetchDevices \/ TakeCurrent \/ TakePost \/ PopulateMenu
    <3>1. ASSUME NEW k \in {"info", "devices", "current", "post", "populate"},
                 NEW yes, NEW no, Take(k, yes, no)
          PROVE  \E down \in SUBSET (Flags \ {"SETNEWDEVICEDATA"}) :
                     WriteFlags("process", {}, down) \/ WriteNothing("process")
      <4>1. {Tested[k]} \in SUBSET (Flags \ {"SETNEWDEVICEDATA"})
        BY <3>1, OtherFlags DEF Tested
      <4>. QED BY <3>1, <4>1 DEF Take
    <3>2. {} \in SUBSET (Flags \ {"SETNEWDEVICEDATA"})
      OBVIOUS
    <3>. QED BY <2>1, <3>1, <3>2 DEF TakeFetchInfo, TakeFetchDevices, TakeCurrent, TakePost,
             PopulateMenu
  <2>2. CASE RaisePost \/ ResetFlags
    <3>1. /\ {} \in SUBSET (Flags \ {"SETNEWDEVICEDATA"})
          /\ {"POSTNONEWDATA"} \in SUBSET (Flags \ {"SETNEWDEVICEDATA"})
          /\ ClearedByClear \in SUBSET (Flags \ {"SETNEWDEVICEDATA"})
      BY OtherFlags
    <3>. QED BY <2>2, <3>1 DEF RaisePost, ResetFlags
  <2>3. CASE SuspendFetch \/ ResumeAcs \/ ResumeFetch
    BY <2>3 DEF SuspendFetch, ResumeAcs, ResumeFetch
  <2>. QED BY <2>1, <2>2, <2>3
<1>4. "SETNEWDEVICEDATA" \in flags' <=> "SETNEWDEVICEDATA" \in flags
  <2>1. PICK up \in SUBSET (Flags \ {"SETNEWDEVICEDATA"}),
             down \in SUBSET (Flags \ {"SETNEWDEVICEDATA"}) :
                \/ WriteFlags("process", up, down) \/ WriteNothing("process")
                \/ UNCHANGED flagVars
    BY <1>3
  <2>2. /\ up \in SUBSET Flags /\ down \in SUBSET Flags /\ "process" \in Tasks
        /\ "SETNEWDEVICEDATA" \notin up \cup down
    BY DEF Tasks, Looping
  <2>. QED BY <2>1, <2>2, UpdateKeeps
<1>. QED BY <1>1, <1>2, <1>4, ProcessAside

(* Lowering the flag before reading is what keeps a later copy in sight.   *)
LEMMA TakeSetHandover ==
    ASSUME TInv, HInv, TakeSet
    PROVE  Handover'
<1>1. /\ pc["process"] = "set"
      /\ UNCHANGED <<section, cut, received, fresh, parsed, executed, reply>>
  BY DEF TakeSet, Take, At, sectionVars
<1>2. ASSUME NEW l, Goto("process", l) PROVE pc'["process"] = l /\ pc'["fetch"] = pc["fetch"]
  BY <1>2 DEF Goto, TInv, TypeOK, Tasks, Looping
<1>3. CASE "SETNEWDEVICEDATA" \in flags
  <2>1. pc'["process"] = "parse" /\ pc'["fetch"] = pc["fetch"] /\ SetPending
    BY <1>2, <1>3 DEF TakeSet, Take, Tested, SetPending
  <2>2. SetCopying' <=> SetCopying
    BY <1>1, <2>1 DEF SetCopying
  <2>. QED
    BY <1>1, <2>1, <2>2 DEF HInv, Handover, CopySoFar, Content, CutWhileRead,
       OvertakenIsPending, FreshIsSignalled, LastReceivedExecuted, Acting
<1>4. CASE "SETNEWDEVICEDATA" \notin flags
  <2>1. Goto("process", "post") /\ UNCHANGED flags
    BY <1>4 DEF TakeSet, Take, Tested, WriteNothing
  <2>2. "post" \notin Acting /\ pc["process"] \notin Acting
    BY <1>1 DEF Acting
  <2>. QED BY <1>1, <2>1, <2>2, ProcessAside
<1>. QED BY <1>3, <1>4

(* The processing task between two of its looks at the buffer: what stays  *)
(* to be shown.                                                            *)
LEMMA LookHandover ==
    ASSUME TInv, HInv, UNCHANGED <<flags, section, received, reply>>,
           pc["process"] \in Acting, NEW l, Goto("process", l),
           (cut' = cut /\ fresh' = fresh) \/ ~SetCopying \/ (fresh' /\ pc["fetch"] # "storeStatus"),
           fresh' => fresh /\ (SetPending \/ l \in Acting),
           fresh' /\ cut' /\ ~SetCopying => \/ l = "device"
                                            \/ l = "power" /\ parsed' = received.dev,
           l = "power" /\ parsed' # received.dev => fresh' /\ SetPending,
           ~fresh' => executed' = received
    PROVE  Handover'
<1>1. pc'["process"] = l /\ pc'["fetch"] = pc["fetch"]
  BY DEF Goto, TInv, TypeOK, Tasks, Looping
<1>2. (SetCopying' <=> SetCopying) /\ (SetPending' <=> SetPending)
  BY <1>1 DEF SetCopying, SetPending
<1>3. CopySoFar'
  BY <1>1, <1>2 DEF HInv, Handover, CopySoFar
<1>4. Content'
  BY <1>1, <1>2 DEF HInv, Handover, Content
<1>5. CutWhileRead' /\ OvertakenIsPending' /\ FreshIsSignalled' /\ LastReceivedExecuted'
  BY <1>1, <1>2 DEF CutWhileRead, OvertakenIsPending, FreshIsSignalled, LastReceivedExecuted
<1>. QED BY <1>3, <1>4, <1>5 DEF Handover

LEMMA ReadHandover ==
    ASSUME TInv, HInv, Calm, Parse \/ CutSection \/ ReadDevice \/ SetDevice
    PROVE  Handover'
<1>. USE DEF sectionVars, flagVars
<1>1. /\ pc["process"] \in Acting
      /\ UNCHANGED <<flags, section, received, reply>>
  BY DEF Parse, CutSection, ReadDevice, SetDevice, At, Acting
(* What the task finds in the buffer is the last command received.         *)
<1>2. SetCopying => fresh /\ SetPending /\ section.kind = "set" /\ received.kind = "set"
  BY DEF HInv, Handover, CopySoFar, SetPending, SetCopying
<1>3. ~SetCopying => section = received /\ section.kind = "set"
  BY <1>1 DEF HInv, Handover, Content
<1>4. fresh /\ cut /\ ~SetCopying => pc["process"] \in {"device", "power"}
  BY DEF HInv, Handover, CutWhileRead
<1>5. ~fresh => executed = received
  BY DEF HInv, Handover, LastReceivedExecuted
<1>6. CASE Parse
  <2>1. PICK l \in {"cut", "raisePost"} :
            Goto("process", l) /\ (l = "raisePost" => section.kind # "set" \/ cut)
    BY <1>6 DEF Parse
  <2>2. pc["process"] = "parse" /\ UNCHANGED <<cut, fresh, parsed, executed>>
    BY <1>6 DEF Parse, At
  <2>3. fresh => SetPending \/ l \in Acting
    BY <1>2, <1>3, <1>4, <2>1, <2>2 DEF Acting
  <2>. QED BY <1>1, <1>2, <1>3, <1>4, <1>5, <2>1, <2>2, <2>3, LookHandover
<1>7. CASE CutSection
  <2>1. /\ pc["process"] = "cut" /\ Goto("process", "device") /\ "device" \in Acting
        /\ UNCHANGED <<fresh, parsed, executed>>
    BY <1>7 DEF CutSection, At, Acting
  <2>2. pc["fetch"] # "storeStatus"
    BY <2>1 DEF Calm, CutUntorn, Tasks, Looping
  <2>. QED BY <1>1, <1>2, <1>5, <2>1, <2>2, LookHandover
<1>8. CASE ReadDevice
  <2>1. /\ pc["process"] = "device" /\ Goto("process", "power") /\ "power" \in Acting
        /\ parsed' = section.dev /\ UNCHANGED <<cut, fresh, executed>>
    BY <1>8 DEF ReadDevice, At, Acting
  <2>2. ~SetCopying => parsed' = received.dev
    BY <1>3, <2>1
  <2>. QED BY <1>1, <1>2, <1>5, <2>1, <2>2, LookHandover
<1>9. CASE SetDevice
  <2>1. /\ pc["process"] = "power" /\ Goto("process", "patchStatus")
        /\ executed' = [kind |-> "set", dev |-> parsed, st |-> section.st]
        /\ fresh' = (fresh /\ (SetCopying \/ parsed # received.dev
                                          \/ section.st # received.st))
        /\ UNCHANGED cut
    BY <1>9 DEF SetDevice, At
  <2>2. parsed # received.dev => fresh /\ SetPending
    BY <2>1 DEF HInv, Handover, OvertakenIsPending
  <2>3. fresh' => fresh /\ SetPending
    BY <1>2, <1>3, <2>1, <2>2
  <2>4. ~fresh' => ~SetCopying /\ parsed = received.dev /\ section.st = received.st
    BY <1>2, <1>3, <2>1, <2>2
  <2>5. ~fresh' => executed' = received
    BY <1>3, <2>1, <2>4 DEF TInv, TypeOK, Sections
  <2>6. fresh' /\ cut' => SetCopying
    BY <1>3, <2>1 DEF HInv, Handover, CutWhileRead
  <2>7. fresh' = fresh \/ ~SetCopying
    BY <2>1 DEF TInv, TypeOK
  <2>. QED BY <1>1, <2>1, <2>3, <2>5, <2>6, <2>7, LookHandover
<1>. QED BY <1>6, <1>7, <1>8, <1>9

LEMMA ResetHandover ==
    ASSUME HInv, ~fresh, Reboot
    PROVE  Handover' /\ OnlyPollerSets'
<1>1. /\ flags' = {"INITIALIZING"} /\ UNCHANGED <<received, fresh, executed>>
      /\ pc'["fetch"] = "check" /\ pc'["process"] = "info"
      /\ \A u \in Tasks : pc'[u] \notin Handling
  BY DEF Reboot, StartLocation, Tasks, Looping, Handling, Copying
<1>2. ~SetPending' /\ ~SetCopying'
  BY <1>1 DEF SetPending, SetCopying, Copying
<1>. QED
  BY <1>1, <1>2 DEF HInv, Handover, CopySoFar, Content, CutWhileRead, OvertakenIsPending,
     FreshIsSignalled, LastReceivedExecuted, Acting, OnlyPollerSets

LEMMA NextHandover ==
    TInv /\ HInv /\ Calm /\ [Next /\ Undisturbed]_vars => Handover' /\ OnlyPollerSets'
<1>. SUFFICES ASSUME TInv, HInv, Calm, [Next /\ Undisturbed]_vars
              PROVE  Handover' /\ OnlyPollerSets'
  OBVIOUS
<1>. DEFINE Elsewhere(t) == /\ UNCHANGED <<section, cut, received, fresh, parsed, executed>>
                            /\ UNCHANGED reply
                            /\ UNCHANGED pc \/ \E l : Goto(t, l) /\ l \notin Handling
            FlagKept == "SETNEWDEVICEDATA" \in flags' <=> "SETNEWDEVICEDATA" \in flags
<1>0. Tasks = {"fetch", "process", "boot", "acs", "alive"}
  BY DEF Tasks, Looping
<1>. USE DEF sectionVars
<1>1. CASE \E t \in Tasks : Http(t)
  BY <1>1, HttpAside, HttpKeepsPoller DEF HInv
<1>2. CASE \E t \in Tasks : Handle(t)
  <2>1. PICK t \in Tasks : Handle(t)
    BY <1>2
  <2>2. Handover'
    BY <2>1, StoreHandover, SignalHandover DEF Handle
  <2>3. \E l : \E r \in Replies :
            /\ Goto(t, l)
            /\ \/ UNCHANGED reply /\ (l \in Handling => pc[t] \in Handling)
               \/ reply' = [reply EXCEPT ![t] = r] /\ l \notin Handling
               \/ reply' = [reply EXCEPT ![t] = r] /\ Forgets(t, r)
    <3>1. pc[t] \in Handling /\ reply[t] \in Replies
      BY <2>1 DEF Handle, StoreSection, StoreKind, StoreDevice, StoreSeparator,
         StoreStatus, RaiseFlag, RequestClear, At, Handling, Copying, TInv, TypeOK
    <3>2. CASE StoreSection(t)
      BY <3>1, <3>2 DEF StoreSection, StoreKind, StoreDevice, StoreSeparator, StoreStatus
    <3>3. CASE RaiseFlag(t)
      <4>1. [reply[t] EXCEPT !.cmd = NoData] \in Replies
        BY <3>1, SectionsTyped DEF Replies
      <4>. QED BY <3>1, <3>3, <4>1 DEF RaiseFlag, Forgets
    <3>4. CASE RequestClear(t)
      <4>1. After[reply[t].req] \notin Handling
        BY <3>1 DEF TInv, AnswersOwn, Requests, After, Handling, Copying
      <4>2. [NoReply EXCEPT !.ok = reply[t].ok] \in Replies
        BY <3>1, SectionsTyped DEF NoReply, Replies
      <4>. QED BY <3>4, <4>1, <4>2 DEF RequestClear
    <3>. QED BY <2>1, <3>2, <3>3, <3>4 DEF Handle
  <2>. QED BY <2>2, <2>3, MovesKeepPoller DEF HInv
<1>3. CASE OwnSteps
  <2>1. Handover'
    BY <1>3, OwnAside, TakeSetHandover, ReadHandover DEF OwnSteps
  <2>2. NoReply \in Replies
    BY SectionsTyped DEF NoReply, Replies
  <2>3. \E l : /\ Goto("process", l) /\ l \notin Handling
               /\ UNCHANGED reply \/ reply' = [reply EXCEPT !["process"] = NoReply]
    BY <1>3 DEF OwnSteps, TakeFetchInfo, TakeFetchDevices, SuspendFetch, TakeCurrent,
       ResumeAcs, TakeSet, Parse, CutSection, ReadDevice, SetDevice, RaisePost, TakePost,
       ResetFlags, ResumeFetch, PopulateMenu, Take, Handling, Copying
  <2>. QED BY <1>0, <2>1, <2>2, <2>3, MovesKeepPoller DEF HInv
<1>4. ASSUME NEW t \in {"fetch", "boot", "acs", "alive"}, Elsewhere(t), FlagKept,
             t = "fetch" => pc["fetch"] = "check" /\ pc'["fetch"] \in {"check", "poll"}
      PROVE  Handover' /\ OnlyPollerSets'
  <2>1. /\ pc'["process"] = pc["process"]
        /\ t # "fetch" => pc'["fetch"] = pc["fetch"]
    BY <1>0, <1>4 DEF Goto, TInv, TypeOK
  <2>2. PollerAside
    BY <1>4, <2>1 DEF PollerAside, Writing, Copying
  <2>3. SetPending' <=> SetPending
    BY <1>4, <2>1 DEF SetPending, SetCopying, Copying
  <2>4. OnlyPollerSets'
    <3>1. t \in Tasks /\ reply[t] \in Replies
      BY <1>0 DEF TInv, TypeOK
    <3>2. CASE UNCHANGED pc
      BY <1>4, <3>2 DEF HInv, OnlyPollerSets
    <3>3. CASE \E l : Goto(t, l) /\ l \notin Handling
      BY <1>4, <3>1, <3>3, MovesKeepPoller DEF HInv
    <3>. QED BY <1>4, <3>2, <3>3
  <2>. QED BY <1>4, <2>1, <2>2, <2>3, <2>4, Aside
<1>5. ASSUME NEW t \in Tasks, NEW up \in SUBSET (Flags \ {"SETNEWDEVICEDATA"}),
             NEW down \in SUBSET (Flags \ {"SETNEWDEVICEDATA"}),
             WriteFlags(t, up, down) \/ WriteNothing(t) \/ UNCHANGED flagVars
      PROVE  FlagKept
  BY <1>5, UpdateKeeps
<1>6. /\ {} \in SUBSET (Flags \ {"SETNEWDEVICEDATA"})
      /\ \A f \in {"INITIALIZING", "SETCONSUMEDCURRENT", "POSTNONEWDATA"} :
             {f} \in SUBSET (Flags \ {"SETNEWDEVICEDATA"})
  BY OtherFlags
<1>7. CASE CheckNewData
  <2>1. Elsewhere("fetch") /\ FlagKept /\ pc["fetch"] = "check"
        /\ pc'["fetch"] \in {"check", "poll"}
    BY <1>0, <1>7 DEF CheckNewData, At, flagVars, Handling, Copying, Goto, TInv, TypeOK
  <2>. QED BY <2>1, <1>4
<1>8. CASE ClearInitializing
  <2>1. Elsewhere("boot") /\ FlagKept
    BY <1>0, <1>5, <1>6, <1>8 DEF ClearInitializing, Handling, Copying
  <2>. QED BY <2>1, <1>4
<1>9. CASE ReportCurrent
  <2>1. Elsewhere("acs") /\ FlagKept
    BY <1>0, <1>5, <1>6, <1>9 DEF ReportCurrent
  <2>. QED BY <2>1, <1>4
<1>10. CASE OtherAnswer
  <2>1. Elsewhere("alive") /\ FlagKept
    BY <1>0, <1>5, <1>6, <1>10 DEF OtherAnswer
  <2>. QED BY <2>1, <1>4
<1>11. CASE WriteCommand \/ UNCHANGED vars \/ \E t \in Tasks : LoadByte(t)
  <2>1. Elsewhere("acs") /\ FlagKept
    BY <1>11 DEF WriteCommand, vars, LoadByte, flagVars
  <2>. QED BY <2>1, <1>4
<1>12. CASE Reboot /\ Undisturbed
  <2>1. ~fresh
    BY <1>12 DEF Reboot, Undisturbed, TInv, TypeOK
  <2>. QED BY <1>12, <2>1, ResetHandover
<1>. QED BY <1>0, <1>1, <1>2, <1>3, <1>7, <1>8, <1>9, <1>10, <1>11, <1>12
         DEF Next, Fetch, Process, Boot, OwnSteps

LEMMA InitHandover == Init => Calm /\ HInv
<1>. SUFFICES ASSUME Init PROVE Calm /\ HInv
  OBVIOUS
<1>1. /\ flags = {"INITIALIZING"} /\ loading = {} /\ ~fresh /\ executed = received
      /\ pc["fetch"] = "check" /\ pc["process"] = "info"
      /\ \A u \in Tasks : pc[u] \notin Handling /\ pc[u] \notin Copying
  BY DEF Init, StartLocation, Tasks, Looping, Handling, Copying
<1>2. ~SetPending /\ ~SetCopying
  BY <1>1 DEF SetPending, SetCopying, Copying
<1>3. Calm
  BY <1>1 DEF Calm, OneUpdate, NotOverwritten, CutUntorn
<1>4. Handover
  BY <1>1, <1>2 DEF Handover, CopySoFar, Content, CutWhileRead, OvertakenIsPending,
     FreshIsSignalled, LastReceivedExecuted, Acting
<1>. QED BY <1>1, <1>3, <1>4 DEF HInv, ByteCurrent, OnlyPollerSets

LEMMA CalmStep == TInv /\ Calm /\ [Next /\ Undisturbed]_vars => Calm'
<1>1. CASE Undisturbed
  BY <1>1 DEF Undisturbed, Calm
<1>2. CASE UNCHANGED vars
  BY <1>2 DEF vars, Calm, OneUpdate, NotOverwritten, CutUntorn, Runs,
     SetPending, SetCopying
<1>. QED BY <1>1, <1>2

LEMMA HandoverAlways == UndisturbedSpec => [](TInv /\ Calm /\ HInv)
<1>1. TInv /\ Calm /\ HInv /\ [Next /\ Undisturbed]_vars => (TInv /\ Calm /\ HInv)'
  BY NextTyped, CalmStep, NextHandover, BytesStayCurrent DEF Calm, HInv
<1>. QED BY <1>1, InitTInv, InitHandover, PTL DEF UndisturbedSpec

(* A set command the poller has received is lost only to one of the four   *)
(* things Undisturbed lists: two updates of flags at once, a section of    *)
(* another kind copied over it, a cut in the middle of its copy, a reset.  *)
(* In every other interleaving of polls, duplicates, failed requests,      *)
(* deletions and resets its flag is up or about to be until the processing *)
(* task reads it (webserver.c:100-110, main.cpp:391-416),                  *)
THEOREM NoSetForgotten == UndisturbedSpec => []FreshIsSignalled
<1>1. HInv => FreshIsSignalled
  BY DEF HInv, Handover
<1>. QED BY <1>1, HandoverAlways, PTL

(* and when none waits, the last one carried out is the last one received. *)
THEOREM LastIsExecuted == UndisturbedSpec => []LastReceivedExecuted
<1>1. HInv => LastReceivedExecuted
  BY DEF HInv, Handover
<1>. QED BY <1>1, HandoverAlways, PTL
----------------------------------------------------------------------------
(* The loop implements a mailbox of one slot.                              *)
MB == INSTANCE Mailbox WITH Orders <- [kind: {"set"}, dev: Devices \cup {0}, st: BOOLEAN],
                            Empty <- NoData,
                            slot <- received,
                            waiting <- fresh,
                            applied <- executed

LEMMA SetsAreOrders ==
    ASSUME NEW c \in Sections, c.kind = "set"
    PROVE  c \in [kind: {"set"}, dev: Devices \cup {0}, st: BOOLEAN]
  BY DEF Sections

LEMMA MailStep ==
    TInv /\ Calm /\ HInv /\ [Next /\ Undisturbed]_vars => [MB!MailNext]_MB!mailVars
<1>. SUFFICES ASSUME TInv, Calm, HInv, [Next /\ Undisturbed]_vars
              PROVE  MB!MailNext \/ UNCHANGED <<received, fresh, executed>>
  BY DEF MB!mailVars
<1>. USE DEF sectionVars
<1>1. CASE SetDevice
  <2>1. /\ pc["process"] = "power"
        /\ executed' = [kind |-> "set", dev |-> parsed, st |-> section.st]
        /\ fresh' = (fresh /\ (SetCopying \/ parsed # received.dev
                                          \/ section.st # received.st))
        /\ UNCHANGED received
    BY <1>1 DEF SetDevice, At
  <2>2. executed' \in [kind: {"set"}, dev: Devices \cup {0}, st: BOOLEAN]
    BY <2>1 DEF TInv, TypeOK, Sections
  <2>3. CASE fresh'
    <3>1. fresh /\ fresh' = fresh
      BY <2>1, <2>3 DEF TInv, TypeOK
    <3>. QED BY <2>1, <2>2, <3>1 DEF MB!MailNext, MB!Overtaken
  <2>4. CASE ~fresh'
    <3>1. executed' = received
      BY <1>1, <2>4, ReadHandover DEF Handover, LastReceivedExecuted, SetDevice
    <3>2. fresh' = FALSE
      BY <2>1, <2>4 DEF TInv, TypeOK
    <3>. QED BY <2>1, <2>2, <3>1, <3>2 DEF MB!MailNext, MB!Apply
  <2>. QED BY <2>3, <2>4
<1>2. CASE \E t \in Tasks : StoreKind(t)
  <2>1. PICK t \in Tasks : StoreKind(t)
    BY <1>2
  <2>2. UNCHANGED executed
    BY <2>1 DEF StoreKind
  <2>3. CASE reply[t].cmd.kind = "set"
    <3>1. reply[t].cmd \in Sections
      BY DEF TInv, TypeOK, Replies
    <3>2. received' \in [kind: {"set"}, dev: Devices \cup {0}, st: BOOLEAN] /\ fresh' = TRUE
      BY <2>1, <2>3, <3>1, SetsAreOrders DEF StoreKind
    <3>. QED BY <2>2, <3>2 DEF MB!MailNext, MB!Deposit
  <2>4. CASE reply[t].cmd.kind # "set"
    BY <2>1, <2>2, <2>4 DEF StoreKind
  <2>. QED BY <2>3, <2>4
<1>3. CASE OwnSteps /\ ~SetDevice
  BY <1>3 DEF OwnSteps, TakeFetchInfo, TakeFetchDevices, SuspendFetch, TakeCurrent,
     ResumeAcs, TakeSet, Parse, CutSection, ReadDevice, RaisePost, TakePost,
     ResetFlags, ResumeFetch, PopulateMenu
<1>4. CASE \E t \in Tasks : Http(t) \/ (Handle(t) /\ ~StoreKind(t)) \/ LoadByte(t)
  BY <1>4 DEF Http, Exchange, ExchangeFails, ExchangeRefused, Handle, StoreSection,
     StoreDevice, StoreSeparator, StoreStatus, RaiseFlag, RequestClear, LoadByte
<1>5. CASE CheckNewData \/ ClearInitializing \/ ReportCurrent \/ OtherAnswer
           \/ WriteCommand \/ Reboot \/ UNCHANGED vars
  BY <1>5 DEF CheckNewData, ClearInitializing, ReportCurrent, OtherAnswer, WriteCommand,
     Reboot, vars
<1>6. {"fetch", "process", "boot"} \subseteq Tasks
  BY DEF Tasks, Looping
<1>. QED BY <1>1, <1>2, <1>3, <1>4, <1>5, <1>6
         DEF Next, Fetch, Process, Boot, OwnSteps

(* Undisturbed, the loop is that mailbox through any number of commands,   *)
(* duplicates, failed requests and resets: a command made of two, or out   *)
(* of date, is carried out only while a newer one is still to be           *)
(* (webserver.c:100-110, main.cpp:391-447).                                *)
THEOREM LoopIsMailbox == UndisturbedSpec => MB!MailSafety
<1>1. Init => MB!MailInit
  BY DEF Init, MB!MailInit
<1>. QED BY <1>1, MailStep, HandoverAlways, PTL DEF UndisturbedSpec, MB!MailSafety
----------------------------------------------------------------------------
(* Why the processing task is deleted.  A command to fetch is what makes a *)
(* flag of PollBlockers go up; while newData never holds one, no answer    *)
(* carries it, no flag is up and no loaded byte would put one back.        *)
FetchKinds == {"info", "devices"}
NoFetchAsked == newData.kind \notin FetchKinds
NoFetchOnItsWay ==
    /\ flags \cap PollBlockers = {}
    /\ \A t \in Tasks : byte[t] \cap PollBlockers = {} /\ reply[t].cmd.kind \notin FetchKinds
QuietInv == NoFetchOnItsWay /\ DeletedOnlyOffline

LEMMA QuietFlags ==
    /\ {"POPULATEDEVICES", "POSTNONEWDATA", "SETCONSUMEDCURRENT"} \cap PollBlockers = {}
    /\ NoReply.cmd.kind \notin FetchKinds
    /\ \A b \in BOOLEAN : [NoReply EXCEPT !.ok = b].cmd.kind \notin FetchKinds
    /\ \A k : k \notin FetchKinds => RaisedBy(k) \cap PollBlockers = {}
  BY DEF PollBlockers, RaisedBy, FetchKinds, NoReply, NoData, Plain

LEMMA WriteKeepsQuiet ==
    ASSUME TInv, NoFetchOnItsWay, NEW t \in Tasks, NEW up, NEW down,
           up \cap PollBlockers = {},
           WriteFlags(t, up, down) \/ WriteNothing(t)
    PROVE  flags' \cap PollBlockers = {} /\ \A u \in Tasks : byte'[u] \cap PollBlockers = {}
<1>1. byte \in [Tasks -> SUBSET Flags]
  BY DEF TInv, TypeOK
<1>2. CASE WriteNothing(t)
  BY <1>1, <1>2 DEF WriteNothing, NoFetchOnItsWay
<1>3. CASE WriteFlags(t, up, down)
  <2>1. flags' \subseteq flags \cup byte[t] \cup up
    BY <1>3 DEF WriteFlags
  <2>2. byte' = byte \/ byte' = [byte EXCEPT ![t] = {}]
    BY <1>3 DEF WriteFlags
  <2>. QED BY <1>1, <2>1, <2>2 DEF NoFetchOnItsWay
<1>. QED BY <1>2, <1>3

(* A step that raises none of the two flags, if any. *)
LEMMA StepKeepsQuiet ==
    ASSUME TInv, QuietInv, NEW t \in Tasks, NEW up, NEW down,
           up \cap PollBlockers = {},
           WriteFlags(t, up, down) \/ WriteNothing(t) \/ UNCHANGED flagVars,
           UNCHANGED reply \/ \E r : r.cmd.kind \notin FetchKinds
                                     /\ reply' = [reply EXCEPT ![t] = r],
           UNCHANGED deleted
    PROVE  QuietInv'
<1>1. flags' \cap PollBlockers = {} /\ \A u \in Tasks : byte'[u] \cap PollBlockers = {}
  <2>1. CASE UNCHANGED flagVars
    BY <2>1 DEF flagVars, QuietInv, NoFetchOnItsWay
  <2>. QED BY <2>1, WriteKeepsQuiet DEF QuietInv
<1>2. \A u \in Tasks : reply'[u].cmd.kind \notin FetchKinds
  BY DEF QuietInv, NoFetchOnItsWay, TInv, TypeOK
<1>. QED BY <1>1, <1>2 DEF QuietInv, NoFetchOnItsWay, DeletedOnlyOffline

LEMMA HttpQuiet ==
    ASSUME TInv, QuietInv, NoFetchAsked, NoFetchAsked', NEW t \in Tasks, Http(t)
    PROVE  QuietInv'
<1>1. PICK req \in Requests : Exchange(t, req) \/ ExchangeFails(t, req) \/ ExchangeRefused(t, req)
  BY DEF Http
<1>2. \E c : reply'[t].cmd = c /\ c.kind \notin FetchKinds
  <2>1. CASE Exchange(t, req)
    <3>1. newData' = NodeAfter(req) /\ NodeAfter(req).kind \notin FetchKinds
      BY <2>1 DEF Exchange, NoFetchAsked
    <3>2. req # "announce"
      BY <3>1, PlainKinds DEF NodeAfter, FetchKinds
    <3>3. Body(req).kind \notin FetchKinds
      BY <3>2, PlainKinds DEF Body, NoFetchAsked, FetchKinds
    <3>4. reply'[t].cmd = Body(req)
      BY <2>1 DEF Exchange, TInv, TypeOK
    <3>. QED BY <3>3, <3>4
  <2>2. CASE ExchangeFails(t, req) \/ ExchangeRefused(t, req)
    <3>1. reply'[t].cmd = NoData
      BY <2>2 DEF ExchangeFails, ExchangeRefused, NoReply, TInv, TypeOK
    <3>. QED BY <3>1, PlainKinds DEF FetchKinds
  <2>. QED BY <1>1, <2>1, <2>2
<1>3. \A u \in Tasks : u # t => reply'[u] = reply[u]
  BY <1>1 DEF Exchange, ExchangeFails, ExchangeRefused, TInv, TypeOK
<1>4. UNCHANGED <<flags, byte, deleted>>
  BY <1>1 DEF Exchange, ExchangeFails, ExchangeRefused, flagVars
<1>. QED BY <1>2, <1>3, <1>4 DEF QuietInv, NoFetchOnItsWay, DeletedOnlyOffline

LEMMA HandleQuiet ==
    ASSUME TInv, QuietInv, NEW t \in Tasks, Handle(t)
    PROVE  QuietInv'
<1>1. UNCHANGED deleted
      /\ (UNCHANGED reply \/ \E r : r.cmd.kind \notin FetchKinds
                                    /\ reply' = [reply EXCEPT ![t] = r])
  <2>1. CASE StoreSection(t)
    BY <2>1 DEF StoreSection, StoreKind, StoreDevice, StoreSeparator, StoreStatus
  <2>2. CASE RequestClear(t)
    <3>1. reply[t].ok \in BOOLEAN
      BY DEF TInv, TypeOK, Replies
    <3>. QED BY <2>2, <3>1, QuietFlags DEF RequestClear
  <2>3. CASE RaiseFlag(t)
    <3>1. [reply[t] EXCEPT !.cmd = NoData].cmd.kind \notin FetchKinds
      <4>1. reply[t] \in Replies
        BY DEF TInv, TypeOK
      <4>. QED BY <4>1, PlainKinds DEF Replies, FetchKinds
    <3>. QED BY <2>3, <3>1 DEF RaiseFlag
  <2>. QED BY <2>1, <2>2, <2>3 DEF Handle
<1>2. RaisedBy(reply[t].cmd.kind) \cap PollBlockers = {}
  BY QuietFlags DEF QuietInv, NoFetchOnItsWay
<1>3. PICK up : /\ up \cap PollBlockers = {}
                /\ WriteFlags(t, up, {}) \/ WriteNothing(t) \/ UNCHANGED flagVars
  <2>1. CASE StoreSection(t)
    <3>1. UNCHANGED flagVars
      BY <2>1 DEF StoreSection, StoreKind, StoreDevice, StoreSeparator, StoreStatus
    <3>2. {} \cap PollBlockers = {}
      OBVIOUS
    <3>. QED BY <3>1, <3>2
  <2>2. CASE RaiseFlag(t)
    BY <2>2, <1>2, QuietFlags DEF RaiseFlag
  <2>3. CASE RequestClear(t)
    BY <2>3, QuietFlags DEF RequestClear
  <2>. QED BY <2>1, <2>2, <2>3 DEF Handle
<1>. QED BY <1>1, <1>3, StepKeepsQuiet

LEMMA OwnStepsQuiet == TInv /\ QuietInv /\ OwnSteps => QuietInv'
<1>. SUFFICES ASSUME TInv, QuietInv, OwnSteps PROVE QuietInv'
  OBVIOUS
<1>1. /\ "process" \in Tasks /\ UNCHANGED deleted
      /\ UNCHANGED reply \/ reply' = [reply EXCEPT !["process"] = NoReply]
  BY DEF Tasks, Looping, OwnSteps, TakeFetchInfo, TakeFetchDevices, SuspendFetch, TakeCurrent,
     ResumeAcs, TakeSet, Parse, CutSection, ReadDevice, SetDevice, RaisePost, TakePost,
     ResetFlags, ResumeFetch, PopulateMenu
<1>2. PICK up, down : /\ up \cap PollBlockers = {}
                      /\ \/ WriteFlags("process", up, down) \/ WriteNothing("process")
                         \/ UNCHANGED flagVars
  <2>1. CASE TakeFetchInfo \/ TakeFetchDevices \/ TakeCurrent \/ TakeSet \/ TakePost
             \/ PopulateMenu
    <3>1. ASSUME NEW k, NEW yes, NEW no, Take(k, yes, no)
          PROVE  \E down : WriteFlags("process", {}, down) \/ WriteNothing("process")
      BY <3>1 DEF Take
    <3>. QED BY <2>1, <3>1 DEF TakeFetchInfo, TakeFetchDevices, TakeCurrent, TakeSet,
             TakePost, PopulateMenu
  <2>2. CASE RaisePost
    BY <2>2, QuietFlags DEF RaisePost
  <2>3. CASE ResetFlags
    BY <2>3 DEF ResetFlags
  <2>4. CASE SuspendFetch \/ ResumeAcs \/ Parse \/ CutSection \/ ReadDevice \/ SetDevice
             \/ ResumeFetch
    <3>1. UNCHANGED flagVars
      BY <2>4 DEF SuspendFetch, ResumeAcs, Parse, CutSection, ReadDevice, SetDevice,
         ResumeFetch
    <3>2. {} \cap PollBlockers = {}
      OBVIOUS
    <3>. QED BY <3>1, <3>2
  <2>. QED BY <2>1, <2>2, <2>3, <2>4 DEF OwnSteps
<1>. QED BY <1>1, <1>2, StepKeepsQuiet, QuietFlags

LEMMA NextQuiet ==
    TInv /\ QuietInv /\ NoFetchAsked /\ NoFetchAsked' /\ [Next]_vars => QuietInv'
<1>. SUFFICES ASSUME TInv, QuietInv, NoFetchAsked, NoFetchAsked', [Next]_vars PROVE QuietInv'
  OBVIOUS
<1>0. {"fetch", "process", "boot", "acs", "alive"} = Tasks
  BY DEF Tasks, Looping
<1>1. CASE \E t \in Tasks : Http(t)
  BY <1>1, HttpQuiet
<1>2. CASE \E t \in Tasks : Handle(t)
  BY <1>2, HandleQuiet
<1>3. CASE OwnSteps
  BY <1>3, OwnStepsQuiet
<1>4. CASE CheckNewData
  <2>1. UNCHANGED <<flags, byte, reply, deleted>>
    BY <1>4 DEF CheckNewData, flagVars, QuietInv, NoFetchOnItsWay
  <2>. QED BY <2>1 DEF QuietInv, NoFetchOnItsWay, DeletedOnlyOffline
<1>5. CASE ClearInitializing
  BY <1>0, <1>5, StepKeepsQuiet DEF ClearInitializing
<1>6. CASE ReportCurrent
  BY <1>0, <1>6, StepKeepsQuiet, QuietFlags DEF ReportCurrent
<1>7. CASE OtherAnswer
  BY <1>0, <1>7, StepKeepsQuiet, QuietFlags DEF OtherAnswer
<1>8. CASE \E t \in Tasks : LoadByte(t)
  BY <1>8 DEF LoadByte, TInv, TypeOK, QuietInv, NoFetchOnItsWay, DeletedOnlyOffline
<1>9. CASE WriteCommand \/ UNCHANGED vars
  BY <1>9 DEF WriteCommand, vars, flagVars, QuietInv, NoFetchOnItsWay, DeletedOnlyOffline
<1>10. CASE Reboot
  BY <1>10, PlainKinds DEF Reboot, NoReply, PollBlockers, FetchKinds, QuietInv,
     NoFetchOnItsWay, DeletedOnlyOffline
<1>. QED BY <1>0, <1>1, <1>2, <1>3, <1>4, <1>5, <1>6, <1>7, <1>8, <1>9, <1>10
         DEF Next, Fetch, Process, Boot, OwnSteps

(* The poller deletes the processing task with WiFi connected              *)
(* (main.cpp:329-331) only because of a get/info or a get/devices in       *)
(* newData: the client's, or the one app_main announces to itself          *)
(* (firebaseFns.c:345).  While there is none, every other command, loss,   *)
(* reset and lost update of a flag leaves the task alive.                  *)
THEOREM DeletionNeedsFetch == Spec /\ []NoFetchAsked => []DeletedOnlyOffline
<1>1. Init => QuietInv
  BY PlainKinds DEF Init, NoReply, PollBlockers, FetchKinds, QuietInv, NoFetchOnItsWay,
     DeletedOnlyOffline
<1>2. Spec => []TInv
  BY TypeCorrect, PTL DEF TInv
<1>3. QuietInv => DeletedOnlyOffline
  BY DEF QuietInv
<1>. QED BY <1>1, <1>2, <1>3, NextQuiet, PTL DEF Spec
=============================================================================
