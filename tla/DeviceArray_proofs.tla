------------------------- MODULE DeviceArray_proofs -------------------------
(***************************************************************************)
(* Proofs about DeviceArray, for any lists: how a reading gets from        *)
(* read_acs712_task to the report, whatever the loads do to each other;    *)
(* and what two loads at once make of the array.                           *)
(***************************************************************************)
EXTENDS DeviceArray, TLAPS

AtReport == pc["process"] \in {"value", "put", "resume"}

(* read_acs712_task is suspended around the report. *)
SuspendInv == pc \in [Tasks -> Locations] /\ (AtReport => suspended)
HandInv == SuspendInv /\ ReportIsPaired /\ LastReadingSent

LEMMA HandInit == Init => HandInv
  BY RoomAssumption DEF Init, HandInv, SuspendInv, AtReport, ReportIsPaired, LastReadingSent,
     OnItsWay, Handed, Deleted,
     Beginning, NoCurrents, NothingSent, Tasks, Locations, Places, At

(* The steps that leave the readings and the report alone. *)
LEMMA Untouched ==
    ASSUME HandInv, UNCHANGED measureVars, pc' \in [Tasks -> Locations],
           pc'["acs"] = pc["acs"],
           pc["process"] \notin {"suspend", "value", "put", "resume", "deleted", "torn"},
           pc'["process"] \notin {"suspend", "value", "put", "resume", "deleted", "torn"}
    PROVE  HandInv'
  BY DEF HandInv, SuspendInv, AtReport, ReportIsPaired, LastReadingSent,
     OnItsWay, Handed, Deleted, measureVars,
     currentVars, reportVars, At

LEMMA HandNext == HandInv /\ [Next]_vars => HandInv'
<1> SUFFICES ASSUME HandInv, [Next]_vars PROVE HandInv'
  OBVIOUS
<1> USE DEF Tasks, Locations
<1>0. pc \in [Tasks -> Locations]
  BY DEF HandInv, SuspendInv
<1>1. ASSUME NEW t \in Tasks, Reset(t) PROVE HandInv'
  BY <1>1, RoomAssumption DEF Reset, HandInv, SuspendInv, AtReport, ReportIsPaired,
     LastReadingSent, OnItsWay, Handed, Deleted, Beginning, NoCurrents, NothingSent, Places, At
<1>2. CASE ChangeList
  BY <1>2, <1>0 DEF ChangeList, HandInv, SuspendInv, AtReport, ReportIsPaired,
     LastReadingSent, OnItsWay, Handed, Deleted, measureVars, currentVars, reportVars, At
<1>3. ASSUME NEW t \in Loaders, GetDevices(t) \/ SetCount(t) \/ Allocate(t) \/ Fill(t) \/ EndFill(t)
      PROVE  HandInv'
  <2>1. /\ UNCHANGED measureVars /\ pc' \in [Tasks -> Locations] /\ pc'["acs"] = pc["acs"]
        /\ t = "boot" => pc'["process"] = pc["process"]
        /\ t = "process" =>
             /\ pc["process"] \in {"get", "count", "malloc", "fill"}
             /\ pc'["process"] \in {"count", "malloc", "fill", "current"}
    BY <1>0, <1>3 DEF GetDevices, SetCount, Allocate, Fill, EndFill, Left, Step, Goto, At, Rest,
                      Loaders
  <2>2. CASE t = "boot"
    BY <2>1, <2>2, <1>0 DEF HandInv, SuspendInv, AtReport, ReportIsPaired,
       LastReadingSent, OnItsWay, Handed, Deleted, measureVars, currentVars, reportVars, At
  <2>3. CASE t = "process"
    BY <2>1, <2>3, <1>0, Untouched
  <2> QED BY <2>2, <2>3 DEF Loaders
<1>4. CASE TakeFetch \/ FreeArray \/ ZeroCount
  <2>1. /\ UNCHANGED measureVars /\ pc' \in [Tasks -> Locations] /\ pc'["acs"] = pc["acs"]
        /\ pc["process"] \in {"fetch", "free", "zero"}
        /\ pc'["process"] \in {"free", "current", "get", "zero"}
    BY <1>0, <1>4 DEF TakeFetch, FreeArray, ZeroCount, Step, Goto, At
  <2> QED BY <2>1, Untouched
<1>5. CASE TakeCurrent
  BY <1>0, <1>5 DEF TakeCurrent, Step, Goto, HandInv, SuspendInv, AtReport, ReportIsPaired,
     LastReadingSent, OnItsWay, Handed, Deleted, currentVars, reportVars, At
<1>6. CASE SuspendAcs
  BY <1>0, <1>6 DEF SuspendAcs, Step, Goto, HandInv, SuspendInv, AtReport, ReportIsPaired,
     LastReadingSent, OnItsWay, Handed, Deleted, currentVars, At
<1>7. CASE ReadValue
  BY <1>0, <1>7 DEF ReadValue, Step, Goto, HandInv, SuspendInv, AtReport, ReportIsPaired,
     LastReadingSent, OnItsWay, Handed, Deleted, currentVars, At
<1>8. CASE PutCurrent
  BY <1>0, <1>8 DEF PutCurrent, Step, Goto, HandInv, SuspendInv, AtReport, ReportIsPaired,
     LastReadingSent, OnItsWay, Handed, Deleted, currentVars, At
<1>9. CASE ResumeAcs
  BY <1>0, <1>9 DEF ResumeAcs, Step, Goto, HandInv, SuspendInv, AtReport, ReportIsPaired,
     LastReadingSent, OnItsWay, Handed, Deleted, currentVars, At
<1>10. CASE CheckCount \/ CheckType \/ CheckLevel
  <2>1. /\ pc' \in [Tasks -> Locations] /\ pc'["process"] = pc["process"]
        /\ pc["acs"] \in {"next", "type", "level"}
        /\ UNCHANGED <<device_currents, currentDeviceIndex, consumed, suspended, average, sent>>
    BY <1>0, <1>10 DEF CheckCount, CheckType, CheckLevel, NextPlace, Goto, At, currentVars,
                       reportVars
  <2> QED BY <2>1, <1>0 DEF HandInv, SuspendInv, AtReport, ReportIsPaired, LastReadingSent,
     OnItsWay, Handed, Deleted, At
<1>11. CASE Measure
  BY <1>0, <1>11 DEF Measure, Runs, Step, Goto, HandInv, SuspendInv, AtReport, ReportIsPaired,
     LastReadingSent, OnItsWay, Handed, Deleted, reportVars, At
<1>12. CASE StoreIndex
  BY <1>0, <1>12 DEF StoreIndex, Runs, Step, Goto, HandInv, SuspendInv, AtReport, ReportIsPaired,
     LastReadingSent, OnItsWay, Handed, Deleted, reportVars, At
<1>13. CASE RaiseCurrent
  BY <1>0, <1>13 DEF RaiseCurrent, NextPlace, Runs, Goto, HandInv, SuspendInv, AtReport,
     ReportIsPaired, LastReadingSent, OnItsWay, Handed, Deleted, currentVars, reportVars, At
<1>14. CASE DeleteProcess
  <2>1. /\ pc' \in [Tasks -> Locations] /\ pc'["acs"] = pc["acs"]
        /\ pc'["process"] \in {"deleted", "torn"} /\ UNCHANGED measureVars
    BY <1>0, <1>14 DEF DeleteProcess, Goto, At
  <2> QED BY <2>1 DEF HandInv, SuspendInv, AtReport, ReportIsPaired, LastReadingSent, Deleted, At,
     OnItsWay
<1>15. CASE UNCHANGED vars
  BY <1>15 DEF vars, measureVars, currentVars, reportVars, HandInv, SuspendInv, AtReport,
     ReportIsPaired, LastReadingSent, OnItsWay, Handed, Deleted, At
<1> QED BY <1>1, <1>2, <1>3, <1>4, <1>5, <1>6, <1>7, <1>8, <1>9, <1>10, <1>11, <1>12, <1>13, <1>14,
            <1>15
        DEF Next, Boot, Process, Acs, Load, Loaders

LEMMA HandInvariant == Spec => []HandInv
<1> QED BY HandInit, HandNext, PTL DEF Spec

(* Index and value of a report are of one device: read_acs712_task cannot  *)
(* store between the two reads (main.cpp:387-389).                         *)
THEOREM ReportsArePaired == Spec => []ReportIsPaired
<1>1. HandInv => ReportIsPaired
  BY DEF HandInv
<1> QED BY <1>1, HandInvariant, PTL

(* While the processing task lives and with nothing on its way, the        *)
(* request made last is of the last reading, also while the array is freed *)
(* and filled anew (main.cpp:384-389, 546-551).                            *)
THEOREM LastIsSent == Spec => []LastReadingSent
<1>1. HandInv => LastReadingSent
  BY DEF HandInv
<1> QED BY <1>1, HandInvariant, PTL
-----------------------------------------------------------------------------
(* Two loads at once.  While a load is under way the database keeps its    *)
(* list, so both work from the same one; the array has room for that list, *)
(* and one of the two, its owner, has stored the entries it has come to.   *)
Mid(t) == pc[t] \in {"zero", "get", "count", "malloc", "fill"}
SomeMid == \E t \in Loaders : Mid(t)
Answered(t) == pc[t] \in {"count", "malloc", "fill"}

MayOwn(t) == pc[t] \in IF t = "boot" THEN {"fill", "done"}
                       ELSE Locations \ {"zero", "get", "count", "malloc"}
Own(t) == /\ MayOwn(t)
          /\ SomeMid => answer[t] = list
          /\ DOMAIN devices = 1..answer[t].size
          /\ \A k \in 1..Len(answer[t].entries) :
                (pc[t] = "fill" => k <= stored[t]) => devices[k] = answer[t].entries[k]

Answers == Lists \cup {[size |-> 0, entries |-> <<>>]}
LoadTyped == /\ pc \in [Tasks -> Locations]
             /\ list \in Lists
             /\ answer \in [Loaders -> Answers] /\ stored \in [Loaders -> Nat]
             /\ deviceCount \in Nat
             /\ devices = [k \in DOMAIN devices |-> devices[k]]
AnswerInv == \A t \in Loaders : /\ Answered(t) => answer[t] = list
                                /\ pc[t] \in {"count", "malloc"} => stored[t] = 0
CountInv == \A t \in Loaders : pc[t] = "malloc" => deviceCount \in {0, list.size}
ArrayInv == devices # <<>> => /\ deviceCount = 0 \/ DOMAIN devices = 1..deviceCount
                              /\ SomeMid => DOMAIN devices = 1..list.size
                              /\ pc["process"] # "torn" => \E t \in Loaders : Own(t)
LoadInv == LoadTyped /\ AnswerInv /\ CountInv /\ ArrayInv

LEMMA Sizes == \A l \in Answers : /\ l.size \in Nat /\ Len(l.entries) \in Nat
                                  /\ Len(l.entries) <= l.size
<1> SUFFICES ASSUME NEW l \in Answers
             PROVE  l.size \in Nat /\ Len(l.entries) \in Nat /\ Len(l.entries) <= l.size
  OBVIOUS
<1>1. CASE l \in Lists
  <2>1. l.entries \in Seq({"relay", "ir"}) /\ l.size \in Len(l.entries)..Room
    BY <1>1, ListsAssumption
  <2>2. Len(l.entries) \in Nat
    BY <2>1
  <2> QED BY <2>1, <2>2, RoomAssumption
<1>2. CASE l = [size |-> 0, entries |-> <<>>]
  BY <1>2
<1> QED BY <1>1, <1>2 DEF Answers

LEMMA LoadInit == Init => LoadInv
<1> SUFFICES ASSUME Init PROVE LoadInv
  OBVIOUS
<1>1. /\ pc \in [Tasks -> Locations] /\ pc["boot"] = "get" /\ pc["process"] = "fetch"
      /\ devices = <<>> /\ deviceCount = 0 /\ list \in Lists
  BY DEF Init, Beginning, Tasks, Locations
<1>2. answer \in [Loaders -> Answers] /\ stored \in [Loaders -> Nat]
  BY DEF Init, NoAnswer, Answers
<1>3. devices = [k \in DOMAIN devices |-> devices[k]]
  BY <1>1
<1> QED BY <1>1, <1>2, <1>3
        DEF LoadInv, LoadTyped, AnswerInv, CountInv, ArrayInv, Answered, Loaders

(* Steps away from the array, at which a loader stays where it is or the   *)
(* processing task is outside a load before and after.                     *)
Outside == {"fetch", "free", "current", "suspend", "value", "put", "resume", "deleted"}
LEMMA LoadUntouched ==
    ASSUME LoadInv, UNCHANGED arrayVars, pc' \in [Tasks -> Locations],
           pc'["boot"] = pc["boot"],
           \/ pc'["process"] = pc["process"]
           \/ pc["process"] \in Outside /\ pc'["process"] \in Outside
    PROVE  LoadInv'
<1>1. LoadTyped'
  BY DEF LoadInv, LoadTyped, arrayVars, loadVars
<1>2. \A t \in Loaders : /\ Mid(t)' <=> Mid(t)
                         /\ Answered(t)' <=> Answered(t)
                         /\ pc'[t] = "malloc" <=> pc[t] = "malloc"
                         /\ pc'[t] = "count" <=> pc[t] = "count"
                         /\ pc'[t] = "fill" <=> pc[t] = "fill"
                         /\ MayOwn(t)' <=> MayOwn(t)
                         /\ pc'[t] = "torn" <=> pc[t] = "torn"
  BY DEF Loaders, Mid, Answered, MayOwn, Outside, Locations
<1>3. SomeMid' <=> SomeMid
  BY <1>2 DEF SomeMid
<1>4. \A t \in Loaders : Own(t) => Own(t)'
  BY <1>2, <1>3 DEF Own, arrayVars, loadVars
<1>5. ArrayInv'
  BY <1>2, <1>3, <1>4 DEF LoadInv, ArrayInv, arrayVars, loadVars, Loaders
<1>6. AnswerInv' /\ CountInv'
  BY <1>2 DEF LoadInv, AnswerInv, CountInv, arrayVars, loadVars
<1> QED BY <1>1, <1>5, <1>6 DEF LoadInv

LEMMA LoadChange == ASSUME Steady, LoadInv, ChangeList PROVE LoadInv'
<1>1. /\ list' \in Lists /\ Quiet
      /\ UNCHANGED <<devices, deviceCount, pc, answer, stored>>
  BY DEF ChangeList, loadVars
<1>2. \A t \in Loaders : ~Mid(t) /\ ~Answered(t) /\ pc[t] # "malloc"
  BY <1>1 DEF Quiet, Loading, Mid, Answered
<1>3. LoadTyped'
  BY <1>1 DEF LoadInv, LoadTyped
<1>4. AnswerInv' /\ CountInv'
  BY <1>1, <1>2 DEF AnswerInv, CountInv, Answered
<1>5. ~SomeMid'
  BY <1>1, <1>2 DEF SomeMid, Mid
<1>6. \A t \in Loaders : Own(t) => Own(t)'
  BY <1>1, <1>5 DEF Own, MayOwn
<1>7. ArrayInv'
  BY <1>1, <1>5, <1>6 DEF LoadInv, ArrayInv
<1> QED BY <1>3, <1>4, <1>7 DEF LoadInv

(* A step after which the array is gone. *)
LEMMA LoadNoArray == ASSUME LoadTyped', AnswerInv', CountInv', devices' = <<>> PROVE LoadInv'
  BY DEF LoadInv, ArrayInv

LEMMA LoadReset == ASSUME LoadInv, NEW t \in Tasks, Reset(t) PROVE LoadInv'
<1>1. /\ pc' \in [Tasks -> Locations] /\ pc'["boot"] = "get" /\ pc'["process"] = "fetch"
      /\ devices' = <<>> /\ deviceCount' = 0 /\ list' = list
  BY DEF Reset, Beginning, Tasks, Locations
<1>2. answer' \in [Loaders -> Answers] /\ stored' \in [Loaders -> Nat]
  BY DEF Reset, NoAnswer, Answers
<1>3. LoadTyped'
  BY <1>1, <1>2 DEF LoadInv, LoadTyped
<1> QED BY <1>1, <1>3, LoadNoArray DEF AnswerInv, CountInv, Answered, Loaders

LEMMA LoadFree == ASSUME LoadInv, FreeArray PROVE LoadInv'
<1>1. /\ pc["process"] = "free" /\ pc' = [pc EXCEPT !["process"] = pc'["process"]]
      /\ pc'["process"] \in {"get", "zero"} /\ devices' = <<>>
      /\ UNCHANGED <<list, deviceCount, answer, stored>>
  BY DEF FreeArray, Step, Goto, At, LoadInv, LoadTyped, Tasks, loadVars
<1>2. pc' \in [Tasks -> Locations] /\ pc'["boot"] = pc["boot"]
  BY <1>1 DEF LoadInv, LoadTyped, Tasks, Locations
<1>3. LoadTyped'
  BY <1>1, <1>2 DEF LoadInv, LoadTyped
<1>4. AnswerInv' /\ CountInv'
  BY <1>1, <1>2 DEF LoadInv, AnswerInv, CountInv, Answered, Loaders
<1> QED BY <1>1, <1>3, <1>4, LoadNoArray

(* The owner stays the owner when another task steps, and the array and    *)
(* the answers stay.                                                       *)
LEMMA OwnStays == ASSUME NEW t \in Loaders, Own(t), SomeMid' => SomeMid, MayOwn(t)',
                         pc'[t] = pc[t], UNCHANGED <<list, devices>>,
                         answer'[t] = answer[t], stored'[t] = stored[t]
                  PROVE  Own(t)'
  BY DEF Own

LEMMA LoadZero == ASSUME LoadInv, ZeroCount PROVE LoadInv'
<1>1. /\ pc["process"] = "zero" /\ pc' = [pc EXCEPT !["process"] = "get"]
      /\ deviceCount' = 0 /\ UNCHANGED <<list, devices, answer, stored>>
  BY DEF ZeroCount, Step, Goto, At, loadVars
<1>2. /\ pc' \in [Tasks -> Locations] /\ pc'["boot"] = pc["boot"] /\ pc'["process"] = "get"
  BY <1>1 DEF LoadInv, LoadTyped, Tasks, Locations
<1>3. LoadTyped'
  BY <1>1, <1>2 DEF LoadInv, LoadTyped
<1>4. AnswerInv' /\ CountInv'
  BY <1>1, <1>2 DEF LoadInv, AnswerInv, CountInv, Answered, Loaders
<1>5. SomeMid
  BY <1>1 DEF SomeMid, Mid, Loaders
<1>6. \A t \in Loaders : Own(t) => t = "boot" /\ Own(t)'
  <2> SUFFICES ASSUME NEW t \in Loaders, Own(t) PROVE t = "boot" /\ Own(t)'
    OBVIOUS
  <2>1. t = "boot"
    BY <1>1 DEF Own, MayOwn, Loaders
  <2>2. MayOwn(t)'
    BY <1>2, <2>1 DEF Own, MayOwn
  <2> QED BY <1>1, <1>2, <1>5, <2>1, <2>2, OwnStays
<1>7. ArrayInv'
  BY <1>1, <1>5, <1>6 DEF LoadInv, ArrayInv
<1> QED BY <1>3, <1>4, <1>7 DEF LoadInv

LEMMA LoadGet == ASSUME LoadInv, NEW t \in Loaders, GetDevices(t) PROVE LoadInv'
<1>1. /\ pc[t] = "get" /\ pc' = [pc EXCEPT ![t] = pc'[t]]
      /\ UNCHANGED <<list, devices, deviceCount>>
      /\ \/ pc'[t] = "count" /\ answer' = [answer EXCEPT ![t] = list]
                             /\ stored' = [stored EXCEPT ![t] = 0]
         \/ pc'[t] = Rest(t) /\ UNCHANGED <<answer, stored>>
  BY DEF GetDevices, Step, Goto, At, LoadInv, LoadTyped, Tasks, Loaders, loadVars
<1>2. /\ pc' \in [Tasks -> Locations] /\ pc'[t] \in {"count", Rest(t)}
      /\ Rest(t) \in {"done", "current"} /\ \A u \in Loaders \ {t} : pc'[u] = pc[u]
  BY <1>1 DEF LoadInv, LoadTyped, Tasks, Locations, Loaders, Rest
<1>3. LoadTyped'
  BY <1>1, <1>2 DEF LoadInv, LoadTyped, Answers
<1>4. \A u \in Loaders \ {t} : answer'[u] = answer[u] /\ stored'[u] = stored[u]
  BY <1>1 DEF LoadInv, LoadTyped
<1>5. AnswerInv'
  BY <1>1, <1>2, <1>4 DEF LoadInv, LoadTyped, AnswerInv, Answered
<1>6. CountInv'
  BY <1>1, <1>2 DEF LoadInv, CountInv
<1>7. SomeMid
  BY <1>1 DEF SomeMid, Mid
<1>8. \A u \in Loaders : Own(u) => Own(u)'
  <2> SUFFICES ASSUME NEW u \in Loaders, Own(u) PROVE Own(u)'
    OBVIOUS
  <2>1. u # t
    BY <1>1 DEF Own, MayOwn
  <2>2. MayOwn(u)'
    BY <1>2, <2>1 DEF Own, MayOwn
  <2> QED BY <1>1, <1>2, <1>4, <1>7, <2>1, <2>2, OwnStays
<1>9. ArrayInv'
  BY <1>1, <1>2, <1>7, <1>8 DEF LoadInv, ArrayInv, Loaders
<1> QED BY <1>3, <1>5, <1>6, <1>9 DEF LoadInv

LEMMA LoadCount == ASSUME LoadInv, NEW t \in Loaders, SetCount(t) PROVE LoadInv'
<1>1. /\ pc[t] = "count" /\ pc' = [pc EXCEPT ![t] = "malloc"]
      /\ deviceCount' = answer[t].size /\ answer[t] = list
      /\ UNCHANGED <<list, devices, answer, stored>>
  BY DEF SetCount, Step, Goto, At, LoadInv, AnswerInv, Answered, loadVars
<1>2. /\ pc' \in [Tasks -> Locations] /\ pc'[t] = "malloc"
      /\ \A u \in Loaders \ {t} : pc'[u] = pc[u]
  BY <1>1 DEF LoadInv, LoadTyped, Tasks, Locations, Loaders
<1>3. LoadTyped'
  BY <1>1, <1>2, Sizes DEF LoadInv, LoadTyped, Answers
<1>4. AnswerInv' /\ CountInv'
  BY <1>1, <1>2 DEF LoadInv, AnswerInv, CountInv, Answered
<1>5. SomeMid
  BY <1>1 DEF SomeMid, Mid
<1>6. \A u \in Loaders : Own(u) => Own(u)'
  <2> SUFFICES ASSUME NEW u \in Loaders, Own(u) PROVE Own(u)'
    OBVIOUS
  <2>1. u # t
    BY <1>1 DEF Own, MayOwn
  <2>2. MayOwn(u)'
    BY <1>2, <2>1 DEF Own, MayOwn
  <2> QED BY <1>1, <1>2, <1>5, <2>1, <2>2, OwnStays
<1>7. ArrayInv'
  BY <1>1, <1>5, <1>6 DEF LoadInv, ArrayInv
<1> QED BY <1>3, <1>4, <1>7 DEF LoadInv

(* Whoever allocates owns the array, which has room for the list. *)
LEMMA LoadAllocate == ASSUME LoadInv, NEW t \in Loaders, Allocate(t) PROVE LoadInv'
<1>1. /\ pc[t] = "malloc" /\ answer[t] = list /\ deviceCount \in {0, list.size}
      /\ pc' = [pc EXCEPT ![t] = pc'[t]]
      /\ UNCHANGED <<list, deviceCount, answer, stored>>
  BY DEF Allocate, Step, Goto, At, LoadInv, LoadTyped, AnswerInv, CountInv, Answered,
         Tasks, Loaders, loadVars
<1>2. \/ /\ deviceCount > 0 /\ pc'[t] = "fill" /\ devices' = [k \in 1..deviceCount |-> Raw]
      \/ pc'[t] = Rest(t) /\ devices' = <<>>
  BY DEF Allocate, Step, Goto, At, LoadInv, LoadTyped, Tasks, Loaders
<1>3. /\ pc' \in [Tasks -> Locations] /\ pc'[t] \in {"fill", "done", "current"}
      /\ \A u \in Loaders \ {t} : pc'[u] = pc[u]
  BY <1>1, <1>2 DEF LoadInv, LoadTyped, Tasks, Locations, Loaders, Rest
<1>4. devices' = [k \in DOMAIN devices' |-> devices'[k]]
  <2>1. CASE devices' = <<>>
    BY <2>1
  <2>2. CASE devices' = [k \in 1..deviceCount |-> Raw]
    BY <2>2
  <2> QED BY <1>2, <2>1, <2>2
<1>5. LoadTyped'
  BY <1>1, <1>3, <1>4 DEF LoadInv, LoadTyped
<1>6. AnswerInv' /\ CountInv'
  BY <1>1, <1>3 DEF LoadInv, AnswerInv, CountInv, Answered
<1>7. CASE devices' = <<>>
  BY <1>5, <1>6, <1>7, LoadNoArray
<1>8. CASE deviceCount > 0 /\ pc'[t] = "fill" /\ devices' = [k \in 1..deviceCount |-> Raw]
  <2>1. deviceCount = list.size /\ DOMAIN devices' = 1..list.size
    BY <1>1, <1>8
  <2>2. stored[t] = 0 /\ \A k \in 1..Len(answer[t].entries) : ~(k <= stored[t])
    BY <1>1, Sizes DEF LoadInv, AnswerInv
  <2>3. MayOwn(t)'
    BY <1>3, <1>8 DEF MayOwn, Loaders, Locations
  <2>4. Own(t)'
    BY <1>1, <1>8, <2>1, <2>2, <2>3 DEF Own
  <2>5. ArrayInv'
    BY <1>1, <1>8, <2>1, <2>4 DEF ArrayInv
  <2> QED BY <1>5, <1>6, <2>5 DEF LoadInv
<1> QED BY <1>2, <1>7, <1>8

(* Both write the entries of the same list. *)
LEMMA LoadFill == ASSUME LoadInv, NEW t \in Loaders, Fill(t) PROVE LoadInv'
<1> DEFINE n == stored[t] + 1
<1>1. /\ pc[t] = "fill" /\ answer[t] = list /\ n \in Nat /\ n \in DOMAIN devices
      /\ n \in 1..Len(list.entries)
      /\ devices' = [devices EXCEPT ![n] = list.entries[n]]
      /\ stored' = [stored EXCEPT ![t] = n]
      /\ UNCHANGED <<list, deviceCount, pc, answer>>
  <2>1. /\ pc[t] = "fill" /\ stored[t] < Len(answer[t].entries) /\ n \in DOMAIN devices
        /\ devices' = [devices EXCEPT ![n] = answer[t].entries[n]]
        /\ stored' = [stored EXCEPT ![t] = n]
        /\ UNCHANGED <<list, deviceCount, pc, answer>>
    BY DEF Fill, Left, At
  <2>2. answer[t] = list
    BY <2>1 DEF LoadInv, AnswerInv, Answered
  <2>3. stored[t] \in Nat /\ list \in Answers
    BY DEF LoadInv, LoadTyped, Answers
  <2>4. n \in Nat /\ n \in 1..Len(list.entries)
    BY <2>1, <2>2, <2>3, Sizes
  <2> QED BY <2>1, <2>2, <2>4
<1>2. DOMAIN devices' = DOMAIN devices /\ devices' = [k \in DOMAIN devices' |-> devices'[k]]
  BY <1>1 DEF LoadInv, LoadTyped
<1>3. \A k \in DOMAIN devices : devices'[k] = IF k = n THEN list.entries[n] ELSE devices[k]
  BY <1>1, <1>2 DEF LoadInv, LoadTyped
<1>4. stored' \in [Loaders -> Nat] /\ stored'[t] = n
      /\ \A u \in Loaders \ {t} : stored'[u] = stored[u]
  BY <1>1 DEF LoadInv, LoadTyped
<1>5. LoadTyped'
  BY <1>1, <1>2, <1>4 DEF LoadInv, LoadTyped
<1>6. AnswerInv' /\ CountInv'
  BY <1>1, <1>4 DEF LoadInv, AnswerInv, CountInv, Answered
<1>7. SomeMid
  BY <1>1 DEF SomeMid, Mid
<1> HIDE DEF n
<1>8. \A u \in Loaders : Own(u) => Own(u)'
  <2> SUFFICES ASSUME NEW u \in Loaders, Own(u) PROVE Own(u)'
    OBVIOUS
  <2>1. answer[u] = list /\ answer'[u] = list /\ MayOwn(u)'
    BY <1>1, <1>7 DEF Own, MayOwn
  <2>2. DOMAIN devices' = 1..list.size
    BY <1>2, <2>1 DEF Own
  <2>3. ASSUME NEW k \in 1..Len(list.entries), pc[u] = "fill" => k <= stored'[u]
        PROVE  devices'[k] = list.entries[k]
    <3>1. k \in DOMAIN devices
      <4>1. list \in Answers
        BY DEF LoadInv, LoadTyped, Answers
      <4> QED BY <1>2, <2>2, <4>1, Sizes
    <3>2. CASE k = n
      BY <1>3, <3>1, <3>2
    <3>3. CASE k # n
      <4>1. pc[u] = "fill" => k <= stored[u]
        <5>1. CASE u = t
          BY <1>4, <2>3, <3>3, <5>1 DEF n, LoadInv, LoadTyped
        <5>2. CASE u # t
          BY <1>4, <2>3, <5>2
        <5> QED BY <5>1, <5>2
      <4> QED BY <1>3, <2>1, <3>1, <3>3, <4>1 DEF Own
    <3> QED BY <3>2, <3>3
  <2> QED BY <1>1, <2>1, <2>2, <2>3 DEF Own
<1>9. ArrayInv'
  <2>1. devices # <<>>
    BY <1>1
  <2> QED BY <1>1, <1>2, <1>7, <1>8, <2>1 DEF LoadInv, ArrayInv
<1> QED BY <1>5, <1>6, <1>9 DEF LoadInv

(* The owner that ends has stored every entry. *)
LEMMA LoadEnd == ASSUME LoadInv, NEW t \in Loaders, EndFill(t) PROVE LoadInv'
<1>1. /\ pc[t] = "fill" /\ pc' = [pc EXCEPT ![t] = Rest(t)] /\ ~Left(t)
      /\ answer[t] = list
      /\ UNCHANGED <<list, devices, deviceCount, answer, stored>>
  BY DEF EndFill, Step, Goto, At, LoadInv, AnswerInv, Answered, arrayVars, loadVars
<1>2. /\ pc' \in [Tasks -> Locations] /\ pc'[t] = Rest(t) /\ Rest(t) \in {"done", "current"}
      /\ \A u \in Loaders \ {t} : pc'[u] = pc[u]
  BY <1>1 DEF LoadInv, LoadTyped, Tasks, Locations, Loaders, Rest
<1>3. LoadTyped'
  BY <1>1, <1>2 DEF LoadInv, LoadTyped
<1>4. AnswerInv' /\ CountInv'
  BY <1>1, <1>2 DEF LoadInv, AnswerInv, CountInv, Answered
<1>5. SomeMid
  BY <1>1 DEF SomeMid, Mid
<1>6. ASSUME NEW u \in Loaders, Own(u) PROVE Own(u)'
  <2>1. CASE u # t
    BY <1>1, <1>2, <1>5, <1>6, <2>1, OwnStays DEF Own, MayOwn
  <2>2. CASE u = t
    <3>1. \A k \in 1..Len(answer[t].entries) : k <= stored[t]
      <4>1. list \in Answers /\ stored[t] \in Nat
        BY DEF LoadInv, LoadTyped, Answers
      <4> QED BY <1>1, <4>1, Sizes DEF Left, At
    <3>2. MayOwn(t)'
      BY <1>2 DEF MayOwn, Rest, Loaders, Locations
    <3> QED BY <1>1, <1>2, <1>5, <1>6, <2>2, <3>1, <3>2 DEF Own
  <2> QED BY <2>1, <2>2
<1>7. ArrayInv'
  BY <1>1, <1>5, <1>6 DEF LoadInv, ArrayInv
<1> QED BY <1>3, <1>4, <1>7 DEF LoadInv

(* What is deleted outside a load has left the array as it was; at "get"   *)
(* it owned nothing, and "torn" ends the claim about the entries.          *)
LEMMA LoadDelete == ASSUME LoadInv, DeleteProcess PROVE LoadInv'
<1>1. /\ pc["process"] \notin {"deleted", "torn", "count", "malloc", "fill"}
      /\ pc' \in [Tasks -> Locations] /\ pc'["boot"] = pc["boot"]
      /\ pc'["process"] = IF pc["process"] = "free" THEN "torn" ELSE "deleted"
      /\ UNCHANGED <<list, deviceCount, answer, stored>>
  BY DEF DeleteProcess, Deleted, Goto, At, LoadInv, LoadTyped, Tasks, Locations, loadVars
<1>2. DOMAIN devices' = DOMAIN devices /\ devices' = [k \in DOMAIN devices' |-> devices'[k]]
  <2>1. CASE pc["process"] = "free"
    <3>1. PICK n \in 0..deviceCount :
             devices' = [k \in DOMAIN devices |-> IF k <= n THEN Raw ELSE devices[k]]
      BY <2>1 DEF DeleteProcess, At
    <3> QED BY <3>1
  <2>2. CASE pc["process"] # "free"
    BY <2>2 DEF DeleteProcess, At, LoadInv, LoadTyped
  <2> QED BY <2>1, <2>2
<1>3. LoadTyped'
  BY <1>1, <1>2 DEF LoadInv, LoadTyped
<1>4. AnswerInv' /\ CountInv'
  BY <1>1 DEF LoadInv, AnswerInv, CountInv, Answered, Loaders
<1>5. SomeMid' => SomeMid
  BY <1>1 DEF SomeMid, Mid, Loaders
<1>6. devices' # <<>> => devices # <<>>
  BY <1>2 DEF LoadInv, LoadTyped
<1>7. ASSUME pc["process"] # "free", NEW t \in Loaders, Own(t) PROVE Own(t)'
  <2>1. UNCHANGED devices
    BY <1>7 DEF DeleteProcess, At
  <2>2. MayOwn(t)'
    BY <1>1, <1>7 DEF Own, MayOwn, Locations, Loaders
  <2>3. pc'[t] = "fill" <=> pc[t] = "fill"
    BY <1>1, <1>7 DEF Loaders
  <2> QED BY <1>1, <1>5, <1>7, <2>1, <2>2, <2>3 DEF Own
<1>8. ArrayInv'
  BY <1>1, <1>2, <1>5, <1>6, <1>7 DEF LoadInv, ArrayInv
<1> QED BY <1>3, <1>4, <1>8 DEF LoadInv

LEMMA LoadNext == ASSUME Steady PROVE LoadInv /\ [Next]_vars => LoadInv'
<1> SUFFICES ASSUME LoadInv, [Next]_vars PROVE LoadInv'
  OBVIOUS
<1>1. CASE ChangeList
  BY <1>1, LoadChange
<1>2. ASSUME NEW t \in Loaders, GetDevices(t) \/ SetCount(t) \/ Allocate(t) \/ Fill(t) \/ EndFill(t)
      PROVE  LoadInv'
  BY <1>2, LoadGet, LoadCount, LoadAllocate, LoadFill, LoadEnd
<1>3. ASSUME NEW t \in Tasks, Reset(t) PROVE LoadInv'
  BY <1>3, LoadReset
<1>4. CASE FreeArray \/ ZeroCount
  BY <1>4, LoadFree, LoadZero
<1>5. CASE TakeFetch \/ TakeCurrent \/ SuspendAcs \/ ReadValue \/ PutCurrent \/ ResumeAcs
  <2>1. /\ UNCHANGED arrayVars /\ pc' \in [Tasks -> Locations] /\ pc'["boot"] = pc["boot"]
        /\ pc["process"] \in Outside /\ pc'["process"] \in Outside
    BY <1>5 DEF TakeFetch, TakeCurrent, SuspendAcs, ReadValue, PutCurrent, ResumeAcs, Step, Goto,
                At, LoadInv, LoadTyped, Tasks, Locations, Outside
  <2> QED BY <2>1, LoadUntouched
<1>6. CASE CheckCount \/ CheckType \/ CheckLevel \/ Measure \/ StoreIndex \/ RaiseCurrent
  <2>1. /\ UNCHANGED arrayVars /\ pc' \in [Tasks -> Locations] /\ pc'["boot"] = pc["boot"]
        /\ pc'["process"] = pc["process"]
    BY <1>6 DEF CheckCount, CheckType, CheckLevel, Measure, StoreIndex, RaiseCurrent, NextPlace,
                Step, Goto, At, LoadInv, LoadTyped, Tasks, Locations
  <2> QED BY <2>1, LoadUntouched
<1>7. CASE DeleteProcess
  BY <1>7, LoadDelete
<1>8. CASE UNCHANGED vars
  BY <1>8, LoadUntouched DEF vars, LoadInv, LoadTyped
<1> QED BY <1>1, <1>2, <1>3, <1>4, <1>5, <1>6, <1>7, <1>8
        DEF Next, Boot, Process, Acs, Load, Loaders, Tasks

LEMMA LoadInvariant == ASSUME Steady PROVE Spec => []LoadInv
<1> QED BY LoadInit, LoadNext, PTL DEF Spec

(* If the list stays while it is loaded, no load stores beyond the array   *)
(* another has allocated, whatever their order (webserver.c:172-216).      *)
THEOREM LoadsStayInArray == ASSUME Steady PROVE Spec => []StoresInArray
<1>1. LoadInv => StoresInArray
  <2> SUFFICES ASSUME LoadInv, NEW t \in Loaders, Left(t), devices # <<>>
               PROVE  stored[t] + 1 \in DOMAIN devices
    BY DEF StoresInArray
  <2>1. pc[t] = "fill" /\ stored[t] < Len(answer[t].entries)
    BY DEF Left, At
  <2>2. SomeMid /\ answer[t] = list
    BY <2>1 DEF SomeMid, Mid, LoadInv, AnswerInv, Answered
  <2>3. DOMAIN devices = 1..list.size
    BY <2>2 DEF LoadInv, ArrayInv
  <2>4. stored[t] \in Nat /\ list \in Answers
    BY DEF LoadInv, LoadTyped, Answers
  <2> QED BY <2>1, <2>2, <2>3, <2>4, Sizes
<1> QED BY <1>1, LoadInvariant, PTL

(* If the list stays while it is loaded, what the boot and the processing  *)
(* task leave in the array is all of one list (main.cpp:371-382, 730).     *)
THEOREM LoadsLeaveAList == ASSUME Steady PROVE Spec => []LoadedIsList
<1>1. LoadInv => LoadedIsList
  <2> SUFFICES ASSUME LoadInv, Quiet, devices # <<>>, pc["process"] # "torn" PROVE LoadedIsList
    BY DEF LoadedIsList, At
  <2>1. 1..deviceCount \subseteq DOMAIN devices
    BY DEF LoadInv, LoadTyped, ArrayInv
  <2>2. PICK t \in Loaders : Own(t)
    BY DEF LoadInv, ArrayInv
  <2>3. pc[t] # "fill"
    BY DEF Quiet, Loading
  <2> QED BY <2>1, <2>2, <2>3 DEF LoadedIsList, Own
<1> QED BY <1>1, LoadInvariant, PTL
-----------------------------------------------------------------------------
(* The types, for any lists and readings.  What makes the index of a       *)
(* reading a place of device_currents is that deviceCount never exceeds    *)
(* the room, and that i moves only after its reading has been announced.   *)
Measuring == {"type", "level", "measure", "index", "raise"}
ArrayTyped == \E n \in 0..Room : devices \in [1..n -> Types]
LoadTypes == /\ list \in Lists /\ deviceCount \in 0..Room
             /\ answer \in [Loaders -> Answers] /\ stored \in [Loaders -> 0..Room]
             /\ ArrayTyped
PlaceTypes == i \in 1..(Room + 1) /\ (pc["acs"] \in Measuring => i \in Places)
HandTypes == /\ device_currents \in [Places -> Readings \cup {0}]
             /\ currentDeviceIndex \in Places
             /\ consumed \in BOOLEAN /\ suspended \in BOOLEAN
             /\ average \in Readings \cup {0}
             /\ sent \in [at: Places, value: Readings \cup {0}]
ReadTypes == PlaceTypes /\ HandTypes
TypeInv == pc \in [Tasks -> Locations] /\ LoadTypes /\ ReadTypes

LEMMA EmptyTyped == 0 \in 0..Room /\ <<>> \in [1..0 -> Types]
  BY RoomAssumption

LEMMA InTypes == TypeInv => TypeOK
<1> SUFFICES ASSUME TypeInv PROVE TypeOK
  OBVIOUS
<1>1. PICK n \in 0..Room : devices \in [1..n -> Types]
  BY DEF TypeInv, LoadTypes, ArrayTyped
<1>2. devices \in UNION {[1..m -> Types] : m \in 0..Room}
  BY <1>1
<1>3. Answers = Lists \cup {NoAnswer["boot"]}
  BY DEF Answers, NoAnswer, Loaders
<1> QED BY <1>2, <1>3 DEF TypeInv, LoadTypes, ReadTypes, PlaceTypes, HandTypes, TypeOK

LEMMA TypeInit == Init => TypeInv
<1> SUFFICES ASSUME Init PROVE TypeInv
  OBVIOUS
<1>1. Room \in Nat /\ 1 \in Places /\ 0 \in 0..Room
  BY RoomAssumption DEF Places
<1>2. ArrayTyped
  BY EmptyTyped DEF Init, ArrayTyped
<1>3. pc \in [Tasks -> Locations] /\ pc["acs"] = "next"
  BY DEF Init, Beginning, Tasks, Locations
<1>4. answer \in [Loaders -> Answers]
  BY DEF Init, NoAnswer, Answers
<1>5. LoadTypes
  BY <1>1, <1>2, <1>4 DEF Init, LoadTypes
<1>6. i \in 1..(Room + 1) /\ i \in Places
  BY <1>1 DEF Init
<1>7. HandTypes
  BY <1>1 DEF Init, HandTypes, NoCurrents, NothingSent
<1> QED BY <1>3, <1>5, <1>6, <1>7 DEF TypeInv, ReadTypes, PlaceTypes

LEMMA LoadKeepsTypes ==
    ASSUME TypeInv, NEW t \in Loaders,
           GetDevices(t) \/ SetCount(t) \/ Allocate(t) \/ Fill(t) \/ EndFill(t)
    PROVE  LoadTypes'
<1>1. /\ Room \in Nat /\ list \in Lists /\ deviceCount \in 0..Room
      /\ answer \in [Loaders -> Answers] /\ stored \in [Loaders -> 0..Room] /\ ArrayTyped
  BY RoomAssumption DEF TypeInv, LoadTypes
<1>2. \A l \in Answers : l.size \in 0..Room /\ Len(l.entries) \in 0..Room
  <2> SUFFICES ASSUME NEW l \in Answers PROVE l.size \in 0..Room /\ Len(l.entries) \in 0..Room
    OBVIOUS
  <2>1. l.size \in Nat /\ Len(l.entries) \in Nat /\ Len(l.entries) <= l.size
    BY Sizes
  <2>2. l.size <= Room
    BY <1>1, <2>1, ListsAssumption DEF Answers
  <2> QED BY <1>1, <2>1, <2>2
<1>3. CASE GetDevices(t)
  <2>1. UNCHANGED <<list, devices, deviceCount>>
    BY <1>3 DEF GetDevices
  <2>2. list \in Answers /\ 0 \in 0..Room
    BY <1>1 DEF Answers
  <2>3. answer' \in [Loaders -> Answers]
    BY <1>1, <1>3, <2>2 DEF GetDevices, loadVars
  <2>4. stored' \in [Loaders -> 0..Room]
    BY <1>1, <1>3, <2>2 DEF GetDevices, loadVars
  <2> QED BY <1>1, <2>1, <2>3, <2>4 DEF LoadTypes, ArrayTyped
<1>4. CASE SetCount(t)
  BY <1>1, <1>2, <1>4 DEF SetCount, LoadTypes, ArrayTyped, loadVars
<1>5. CASE Allocate(t)
  <2>1. ArrayTyped'
    <3>1. devices' = <<>> \/ devices' = [k \in 1..deviceCount |-> Raw]
      BY <1>5 DEF Allocate
    <3>2. CASE devices' = <<>>
      BY <3>2, EmptyTyped DEF ArrayTyped
    <3>3. CASE devices' = [k \in 1..deviceCount |-> Raw]
      BY <3>3, <1>1 DEF ArrayTyped, Types
    <3> QED BY <3>1, <3>2, <3>3
  <2> QED BY <1>1, <1>5, <2>1 DEF Allocate, LoadTypes, loadVars
<1>6. CASE Fill(t)
  <2>1. PICK n \in 0..Room : devices \in [1..n -> Types]
    BY <1>1 DEF ArrayTyped
  <2>2. /\ stored[t] \in 0..Room /\ answer[t] \in Answers /\ stored[t] < Len(answer[t].entries)
    BY <1>1, <1>6 DEF Fill, Left
  <2>3. stored[t] + 1 \in 0..Room /\ stored[t] + 1 \in 1..Len(answer[t].entries)
    BY <1>1, <1>2, <2>2
  <2>4. answer[t].entries[stored[t] + 1] \in Types
    <3>1. answer[t] \in Lists
      <4>1. ASSUME answer[t] = [size |-> 0, entries |-> <<>>] PROVE FALSE
        BY <4>1, <2>2
      <4> QED BY <4>1, <2>2 DEF Answers
    <3>2. answer[t].entries \in Seq({"relay", "ir"})
      BY <3>1, ListsAssumption
    <3> QED BY <2>3, <3>2 DEF Types
  <2>5. devices' \in [1..n -> Types]
    BY <1>6, <2>1, <2>4 DEF Fill
  <2>6. ArrayTyped'
    BY <2>1, <2>5 DEF ArrayTyped
  <2> QED BY <1>1, <1>6, <2>3, <2>6 DEF Fill, LoadTypes
<1>7. CASE EndFill(t)
  BY <1>1, <1>7 DEF EndFill, LoadTypes, ArrayTyped, arrayVars, loadVars
<1> QED BY <1>3, <1>4, <1>5, <1>6, <1>7

LEMMA TypeNext == TypeInv /\ [Next]_vars => TypeInv'
<1> SUFFICES ASSUME TypeInv, [Next]_vars PROVE TypeInv'
  OBVIOUS
<1> USE DEF Tasks, Locations
<1>0. pc \in [Tasks -> Locations] /\ LoadTypes /\ ReadTypes
  BY DEF TypeInv
<1>1. ASSUME NEW t \in Tasks, Reset(t) PROVE TypeInv'
  <2>1. Init'
    BY <1>0, <1>1 DEF Reset, Init, LoadTypes
  <2> QED BY <2>1, TypeInit, PTL
<1>2. CASE ChangeList
  <2>1. LoadTypes'
    BY <1>0, <1>2 DEF ChangeList, LoadTypes, ArrayTyped, loadVars
  <2>2. ReadTypes'
    BY <1>0, <1>2 DEF ChangeList, ReadTypes, PlaceTypes, HandTypes, measureVars, currentVars,
                      reportVars
  <2> QED BY <1>0, <1>2, <2>1, <2>2 DEF ChangeList, TypeInv
<1>3. ASSUME NEW t \in Loaders, GetDevices(t) \/ SetCount(t) \/ Allocate(t) \/ Fill(t) \/ EndFill(t)
      PROVE  TypeInv'
  <2>1. LoadTypes'
    BY <1>3, LoadKeepsTypes
  <2>2. UNCHANGED measureVars /\ pc' \in [Tasks -> Locations] /\ pc'["acs"] = pc["acs"]
    BY <1>0, <1>3 DEF GetDevices, SetCount, Allocate, Fill, EndFill, Step, Goto, At, Rest, Loaders
  <2>3. ReadTypes'
    BY <1>0, <2>2 DEF ReadTypes, PlaceTypes, HandTypes, measureVars, currentVars, reportVars
  <2> QED BY <2>1, <2>2, <2>3 DEF TypeInv
<1>4. CASE TakeFetch \/ FreeArray \/ ZeroCount
  <2>1. UNCHANGED measureVars /\ pc' \in [Tasks -> Locations] /\ pc'["acs"] = pc["acs"]
    BY <1>0, <1>4 DEF TakeFetch, FreeArray, ZeroCount, Step, Goto, At
  <2>2. ReadTypes'
    BY <1>0, <2>1 DEF ReadTypes, PlaceTypes, HandTypes, measureVars, currentVars, reportVars
  <2>3. /\ UNCHANGED <<list, loadVars>> /\ devices' \in {devices, <<>>}
        /\ deviceCount' \in {deviceCount, 0}
    BY <1>4 DEF TakeFetch, FreeArray, ZeroCount, arrayVars
  <2>4. ArrayTyped'
    <3>1. CASE devices' = devices
      BY <1>0, <3>1 DEF LoadTypes, ArrayTyped
    <3>2. CASE devices' = <<>>
      BY <3>2, EmptyTyped DEF ArrayTyped
    <3> QED BY <2>3, <3>1, <3>2
  <2>5. LoadTypes'
    BY <1>0, <2>3, <2>4, RoomAssumption DEF LoadTypes, loadVars
  <2> QED BY <2>1, <2>2, <2>5 DEF TypeInv
<1>5. CASE TakeCurrent \/ SuspendAcs \/ ReadValue \/ PutCurrent \/ ResumeAcs
  <2>1. UNCHANGED arrayVars /\ pc' \in [Tasks -> Locations] /\ pc'["acs"] = pc["acs"]
    BY <1>0, <1>5 DEF TakeCurrent, SuspendAcs, ReadValue, PutCurrent, ResumeAcs, Step, Goto, At
  <2>2. LoadTypes'
    BY <1>0, <2>1 DEF LoadTypes, ArrayTyped, arrayVars, loadVars
  <2>3. PlaceTypes'
    BY <1>0, <1>5, <2>1 DEF ReadTypes, PlaceTypes, TakeCurrent, SuspendAcs, ReadValue, PutCurrent,
       ResumeAcs
  <2>4. ASSUME TakeCurrent PROVE HandTypes'
    BY <1>0, <2>4 DEF ReadTypes, HandTypes, TakeCurrent, currentVars, reportVars
  <2>5. ASSUME SuspendAcs \/ ResumeAcs PROVE HandTypes'
    BY <1>0, <2>5 DEF ReadTypes, HandTypes, SuspendAcs, ResumeAcs, currentVars
  <2>6. ASSUME ReadValue PROVE HandTypes'
    BY <1>0, <2>6 DEF ReadTypes, HandTypes, ReadValue, currentVars
  <2>7. ASSUME PutCurrent PROVE HandTypes'
    BY <1>0, <2>7 DEF ReadTypes, HandTypes, PutCurrent, currentVars
  <2>8. HandTypes'
    BY <1>5, <2>4, <2>5, <2>6, <2>7
  <2> QED BY <2>1, <2>2, <2>3, <2>8 DEF TypeInv, ReadTypes
<1>6. CASE CheckCount \/ CheckType \/ CheckLevel \/ Measure \/ StoreIndex \/ RaiseCurrent
  <2>1. UNCHANGED arrayVars /\ pc' \in [Tasks -> Locations]
    BY <1>0, <1>6 DEF CheckCount, CheckType, CheckLevel, Measure, StoreIndex, RaiseCurrent,
                      NextPlace, Step, Goto, At
  <2>2. LoadTypes'
    BY <1>0, <2>1 DEF LoadTypes, ArrayTyped, arrayVars, loadVars
  <2>3. /\ Room \in Nat \ {0} /\ deviceCount \in 0..Room /\ i \in 1..(Room + 1)
        /\ pc["acs"] \in Measuring => i \in 1..Room
    BY <1>0, RoomAssumption DEF LoadTypes, ReadTypes, PlaceTypes, Places
  <2>4. ASSUME CheckCount PROVE ReadTypes'
    <3>1. PlaceTypes'
      <4>1. CASE i <= deviceCount
        <5>1. i \in 1..Room /\ i' = i
          BY <2>3, <2>4, <4>1 DEF CheckCount
        <5> QED BY <2>3, <5>1 DEF PlaceTypes, Places
      <4>2. CASE ~(i <= deviceCount)
        <5>1. i' = 1 /\ 1 \in 1..Room /\ 1 \in 1..(Room + 1)
          BY <2>3, <2>4, <4>2 DEF CheckCount
        <5> QED BY <5>1 DEF PlaceTypes, Places
      <4> QED BY <4>1, <4>2
    <3>2. HandTypes'
      BY <1>0, <2>4 DEF CheckCount, ReadTypes, HandTypes, currentVars, reportVars
    <3> QED BY <3>1, <3>2 DEF ReadTypes
  <2>5. ASSUME CheckType \/ CheckLevel \/ RaiseCurrent PROVE ReadTypes'
    <3>1. /\ pc["acs"] \in Measuring
          /\ i' = i \/ (i' = i + 1 /\ pc'["acs"] = "next")
      BY <1>0, <2>5 DEF CheckType, CheckLevel, RaiseCurrent, NextPlace, Goto, At, Measuring
    <3>2. i' \in 1..(Room + 1) /\ (i' = i => i' \in 1..Room)
      BY <2>3, <3>1
    <3>3. PlaceTypes'
      BY <3>1, <3>2 DEF PlaceTypes, Places, Measuring
    <3>4. HandTypes'
      BY <1>0, <2>5 DEF CheckType, CheckLevel, RaiseCurrent, ReadTypes, HandTypes, currentVars,
         reportVars
    <3> QED BY <3>3, <3>4 DEF ReadTypes
  <2>6. ASSUME Measure \/ StoreIndex PROVE ReadTypes'
    <3>1. pc["acs"] \in Measuring /\ i' = i
      BY <2>6 DEF Measure, StoreIndex, Step, At, Measuring
    <3>2. i \in Places
      BY <2>3, <3>1 DEF Places
    <3>3. PlaceTypes'
      BY <2>3, <3>1, <3>2 DEF PlaceTypes
    <3>4. ASSUME Measure PROVE HandTypes'
      BY <1>0, <3>2, <3>4 DEF Measure, ReadTypes, HandTypes, reportVars
    <3>5. ASSUME StoreIndex PROVE HandTypes'
      BY <1>0, <3>2, <3>5 DEF StoreIndex, ReadTypes, HandTypes, reportVars
    <3> QED BY <2>6, <3>3, <3>4, <3>5 DEF ReadTypes
  <2>7. ReadTypes'
    BY <1>6, <2>4, <2>5, <2>6
  <2> QED BY <2>1, <2>2, <2>7 DEF TypeInv
<1>7. CASE DeleteProcess
  <2>1. /\ UNCHANGED <<list, deviceCount, loadVars, measureVars>>
        /\ pc' \in [Tasks -> Locations] /\ pc'["acs"] = pc["acs"]
    BY <1>0, <1>7 DEF DeleteProcess, Goto, At
  <2>2. ReadTypes'
    BY <1>0, <2>1 DEF ReadTypes, PlaceTypes, HandTypes, measureVars, currentVars, reportVars
  <2>3. PICK m \in 0..Room : devices \in [1..m -> Types]
    BY <1>0 DEF LoadTypes, ArrayTyped
  <2>4. devices' \in [1..m -> Types]
    <3>1. CASE At("process", "free")
      <4>1. PICK n \in 0..deviceCount :
               devices' = [k \in DOMAIN devices |-> IF k <= n THEN Raw ELSE devices[k]]
        BY <1>7, <3>1 DEF DeleteProcess
      <4> QED BY <2>3, <4>1 DEF Types
    <3>2. CASE ~At("process", "free")
      BY <1>7, <2>3, <3>2 DEF DeleteProcess
    <3> QED BY <3>1, <3>2
  <2>5. LoadTypes'
    BY <1>0, <2>1, <2>3, <2>4 DEF LoadTypes, ArrayTyped, loadVars
  <2> QED BY <2>1, <2>2, <2>5 DEF TypeInv
<1>8. CASE UNCHANGED vars
  BY <1>0, <1>8 DEF vars, arrayVars, loadVars, measureVars, currentVars, reportVars, TypeInv,
     LoadTypes, ArrayTyped, ReadTypes, PlaceTypes, HandTypes
<1> QED BY <1>1, <1>2, <1>3, <1>4, <1>5, <1>6, <1>7, <1>8 DEF Next, Boot, Process, Acs, Load, Loaders

(* Every variable keeps its type; in particular the index of a reading is  *)
(* one of device_currents (main.cpp:122, 546-549).                         *)
THEOREM ArrayTypeCorrect == Spec => []TypeOK
<1> QED BY TypeInit, TypeNext, InTypes, PTL DEF Spec
=============================================================================
