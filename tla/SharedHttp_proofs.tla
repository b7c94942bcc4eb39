-------------------------- MODULE SharedHttp_proofs --------------------------
(***************************************************************************)
(* Proofs about SharedHttp: its types for any clients and, while requests  *)
(* do not overlap, what an answer and a device list are when they are      *)
(* handled and that the requests implement HttpService.                    *)
(***************************************************************************)
EXTENDS SharedHttp, TLAPS

Pieces == [of: Targets, part: 0..DeviceParts]

LEMMA PieceTyped == ASSUME TypeOK, NEW t \in Clients, NEW k \in 1..Total(t)
                    PROVE  Piece(t, k) \in Pieces /\ Total(t) \in 1..DeviceParts
  BY PartsAssumption DEF TypeOK, Piece, Pieces, Total, Parts, Targets

LEMMA TotalTyped == ASSUME TypeOK, NEW t \in Clients PROVE Total(t) \in 1..DeviceParts
  BY PartsAssumption DEF TypeOK, Total, Parts

LEMMA InitTyped == Init => TypeOK
  <1> SUFFICES ASSUME Init PROVE TypeOK
    OBVIOUS
  <1>1. 0 \in 0..DeviceParts
    BY PartsAssumption
  <1>2. got \in [Clients -> 0..DeviceParts]
    BY <1>1 DEF Init
  <1>3. response_data \in Seq([of: Targets, part: 0..DeviceParts])
    BY DEF Init
  <1>4. /\ pc \in [Clients -> Locations] /\ url \in Targets
        /\ wanted \in [Clients -> Targets] /\ sent \in [Clients -> Targets]
    BY DEF Init, Targets, Locations
  <1>5. refused \in [Clients -> BOOLEAN] /\ left \in {"nothing", "scraps", "list"}
    BY DEF Init
  <1> QED BY <1>2, <1>3, <1>4, <1>5 DEF TypeOK

LEMMA RequestTyped == ASSUME TypeOK, NEW t \in Clients, Request(t) PROVE TypeOK'
  <1> USE DEF TypeOK
  <1>1. CASE WriteUrl(t)
    BY <1>1 DEF WriteUrl, Goto, Locations
  <1>2. CASE Open(t)
    <2>1. 0 \in 0..DeviceParts
      BY PartsAssumption
    <2>2. got' \in [Clients -> 0..DeviceParts]
      BY <1>2, <2>1 DEF Open
    <2>3. refused' \in [Clients -> BOOLEAN]
      BY <1>2 DEF Open
    <2>4. /\ pc' \in [Clients -> Locations] /\ sent' \in [Clients -> Targets]
          /\ UNCHANGED <<url, response_data, wanted, left>>
      BY <1>2 DEF Open, Goto, Locations
    <2> QED BY <2>2, <2>3, <2>4
  <1>3. CASE OnData(t)
    <2>0. Total(t) \in 1..DeviceParts /\ got[t] \in Nat /\ got[t] < Total(t)
      BY <1>3, TotalTyped, PartsAssumption DEF OnData
    <2>1. got[t] + 1 \in 1..Total(t) /\ got[t] + 1 \in 0..DeviceParts
      BY <2>0, PartsAssumption
    <2>2. Piece(t, got[t] + 1) \in Pieces
      BY <2>1, PieceTyped
    <2>3. response_data' \in Seq(Pieces)
      BY <1>3, <2>2 DEF OnData, Pieces
    <2>4. url' \in Targets
      BY <1>3 DEF OnData
    <2>5. got' \in [Clients -> 0..DeviceParts]
      BY <1>3, <2>1 DEF OnData
    <2> QED BY <1>3, <2>3, <2>4, <2>5 DEF OnData, Pieces
  <1>4. CASE OnFinish(t)
    BY <1>4 DEF OnFinish, Goto, Locations
  <1>5. CASE Dispatch(t)
    <2>1. pc' \in [Clients -> Locations]
      BY <1>5 DEF Dispatch, Goto, Locations
    <2>2. response_data' \in Seq([of: Targets, part: 0..DeviceParts])
      <3>1. response_data' = response_data \/ response_data' = <<>>
        BY <1>5 DEF Dispatch, NoArray, NoMemory, FreeBuffer
      <3>2. <<>> \in Seq([of: Targets, part: 0..DeviceParts])
        OBVIOUS
      <3> QED BY <3>1, <3>2, Zenon
    <2>3. left' \in {"nothing", "scraps", "list"}
      BY <1>5 DEF Dispatch, NoArray, NoMemory, FreeBuffer
    <2> QED BY <1>5, <2>1, <2>2, <2>3 DEF Dispatch
  <1>6. CASE Fail(t)
    BY <1>6 DEF Fail, Goto, Locations
  <1> QED BY <1>1, <1>2, <1>3, <1>4, <1>5, <1>6 DEF Request

LEMMA NextTyped == TypeOK /\ [Next]_vars => TypeOK'
  <1> SUFFICES ASSUME TypeOK, [Next]_vars PROVE TypeOK'
    OBVIOUS
  <1>1. CASE UNCHANGED vars
    BY <1>1 DEF TypeOK, vars
  <1> QED BY <1>1, RequestTyped DEF Next

(* Every variable keeps its type, whatever the tasks that make requests    *)
(* and the length of devices.json: in particular no piece is taken that    *)
(* the answer does not have (webserver.c:42-63).                           *)
THEOREM HttpTypeCorrect == Spec => []TypeOK
  <1> QED BY InitTyped, NextTyped, PTL DEF Spec
-----------------------------------------------------------------------------
(* While one client alone is busy.  A clean buffer holds the pieces         *)
(* received so far, all of the exchange under way.  Scraps are something   *)
(* that no further piece can make an array, except between exchanges; a    *)
(* list that was left is one whatever is appended to it.                   *)
Received(t) == /\ Len(response_data) = got[t]
               /\ \A k \in 1..got[t] : response_data[k] = Piece(t, k)

Between(t) == ~Answering(t) \/ got[t] = 0

Spoilt == \E k \in 1..DeviceParts : /\ k <= Len(response_data)
                                    /\ response_data[k] # [of |-> "devices", part |-> k]

CleanInv(t) == left = "nothing" => IF Answering(t) THEN Received(t)
                                   ELSE response_data = <<>>
LeftInv(t) ==
    left # "nothing" =>
        /\ Len(response_data) >= 1 /\ response_data[1].of = "devices"
        /\ Answering(t) => Len(response_data) > got[t]
        /\ left = "list" => IsArray
        /\ left = "scraps" => Spoilt \/ (Between(t) /\ Len(response_data) < DeviceParts)
EndInv(t) == /\ Answering(t) => got[t] <= Total(t) /\ sent[t] = wanted[t]
             /\ pc[t] = "written" => url = wanted[t]
             /\ pc[t] = "dispatch" => url = sent[t] /\ response_data # <<>>
HttpInv(t) == CleanInv(t) /\ LeftInv(t) /\ EndInv(t)

LEMMA HttpInit == ASSUME NEW t \in Clients PROVE Init => HttpInv(t)
  BY DEF Init, HttpInv, CleanInv, LeftInv, EndInv, Answering

(* What is in a buffer that grows stays where it is. *)
LEMMA PieceAppended ==
    ASSUME TypeOK, NEW p \in Pieces, response_data' = Append(response_data, p)
    PROVE  /\ Len(response_data') = Len(response_data) + 1
           /\ response_data'[Len(response_data) + 1] = p
           /\ \A k \in 1..Len(response_data) : response_data'[k] = response_data[k]
  BY DEF TypeOK, Pieces

LEMMA SpoiltStays == ASSUME TypeOK, Spoilt, NEW p \in Pieces,
                            response_data' = Append(response_data, p)
                     PROVE  Spoilt'
  BY PieceAppended DEF TypeOK, Spoilt, Pieces

LEMMA ArrayStays == ASSUME TypeOK, IsArray, NEW p \in Pieces,
                           response_data' = Append(response_data, p)
                    PROVE  IsArray'
  BY PieceAppended, PartsAssumption DEF TypeOK, IsArray, Pieces

(* A buffer that begins with the list is never spoilt, nor too short.      *)
LEMMA ArrayOrNot ==
    ASSUME TypeOK
    PROVE  IsArray <=> ~Spoilt /\ Len(response_data) >= DeviceParts
  <1>1. Len(response_data) \in Nat
    BY DEF TypeOK
  <1>2. IsArray => ~Spoilt
    BY DEF IsArray, Spoilt
  <1>3. ~Spoilt /\ Len(response_data) >= DeviceParts => IsArray
    BY <1>1, PartsAssumption DEF IsArray, Spoilt
  <1> QED BY <1>2, <1>3 DEF IsArray

(* The first piece of an answer has part 0 or 1, so after pieces of        *)
(* another exchange it is out of place: those are spoilt already, or are   *)
(* less than an array and this piece spoils them.                          *)
LEMMA PieceKeeps == ASSUME NEW t \in Clients, TypeOK, HttpInv(t), OnData(t)
                    PROVE  HttpInv(t)'
  <1> DEFINE p == Piece(t, got[t] + 1)
  <1>0. /\ response_data \in Seq(Pieces) /\ got[t] \in Nat /\ got[t] < Total(t)
        /\ response_data' = Append(response_data, p)
        /\ got'[t] = got[t] + 1 /\ left' = left /\ url' = sent[t]
        /\ pc[t] = "receiving" /\ pc' = pc
        /\ UNCHANGED <<sent, wanted, refused>>
    BY DEF TypeOK, OnData, Pieces
  <1>1. p \in Pieces
    BY <1>0, PieceTyped, TotalTyped
  <1>2. Answering(t) /\ Answering(t)'
    BY <1>0 DEF Answering
  <1>3. /\ Len(response_data') = Len(response_data) + 1 /\ Len(response_data) \in Nat
        /\ response_data'[Len(response_data) + 1] = p
        /\ \A k \in 1..Len(response_data) : response_data'[k] = response_data[k]
    <2> HIDE DEF p
    <2> QED BY <1>0, <1>1, PieceAppended
  <1>4. CleanInv(t)'
    <2> SUFFICES ASSUME left = "nothing" PROVE Received(t)'
      BY <1>0, <1>2 DEF CleanInv
    <2>1. Received(t)
      BY <1>2 DEF HttpInv, CleanInv
    <2>2. \A k : Piece(t, k)' = Piece(t, k)
      BY <1>0 DEF Piece
    <2> HIDE DEF p
    <2>3. \A k \in 1..(got[t] + 1) : k \in 1..got[t] \/ k = got[t] + 1
      BY <1>0
    <2> QED BY <1>0, <1>3, <2>1, <2>2, <2>3 DEF Received, p
  <1>5. LeftInv(t)'
    <2> SUFFICES ASSUME left # "nothing"
                 PROVE  /\ Len(response_data') >= 1 /\ response_data'[1].of = "devices"
                        /\ Len(response_data') > got'[t]
                        /\ left = "list" => IsArray'
                        /\ left = "scraps" => Spoilt'
      BY <1>0, <1>2 DEF LeftInv
    <2>1. /\ Len(response_data) >= 1 /\ response_data[1].of = "devices"
          /\ Len(response_data) > got[t]
          /\ left = "list" => IsArray
          /\ left = "scraps" => Spoilt \/ (got[t] = 0 /\ Len(response_data) < DeviceParts)
      BY <1>2 DEF HttpInv, LeftInv, Between
    <2> HIDE DEF p
    <2>2. Len(response_data') >= 1 /\ response_data'[1].of = "devices"
      BY <1>3, <2>1
    <2>3. Len(response_data') > got'[t]
      BY <1>0, <1>3, <2>1
    <2>4. left = "list" => IsArray'
      BY <1>0, <1>1, <2>1, ArrayStays
    <2>5. ASSUME left = "scraps" PROVE Spoilt'
      <3>1. CASE Spoilt
        BY <1>0, <1>1, <3>1, SpoiltStays
      <3>2. CASE got[t] = 0 /\ Len(response_data) < DeviceParts
        <4>1. p.part \in {0, 1}
          BY <3>2 DEF Piece, p
        <4> DEFINE n == Len(response_data) + 1
        <4>2. n \in 1..DeviceParts /\ n >= 2 /\ Len(response_data') = n /\ response_data'[n] = p
          BY <1>3, <2>1, <3>2, PartsAssumption
        <4>3. p # [of |-> "devices", part |-> n]
          BY <4>1, <4>2
        <4> QED BY <4>2, <4>3 DEF Spoilt
      <3> QED BY <2>1, <2>5, <3>1, <3>2
    <2> QED BY <2>2, <2>3, <2>4, <2>5
  <1>6. EndInv(t)'
    <2>1. Total(t)' = Total(t) /\ Total(t) \in Nat /\ sent[t] = wanted[t]
      BY <1>0, <1>2, TotalTyped DEF Total, Parts, HttpInv, EndInv
    <2> QED BY <1>0, <2>1 DEF EndInv
  <1> QED BY <1>4, <1>5, <1>6 DEF HttpInv

LEMMA DispatchKeepsInv == ASSUME NEW t \in Clients, TypeOK, HttpInv(t), Dispatch(t)
                          PROVE  HttpInv(t)'
  <1>0. pc[t] = "dispatch" /\ url = sent[t] /\ response_data # <<>> /\ Answering(t)
    BY DEF Dispatch, HttpInv, EndInv, Answering
  <1>1. pc'[t] = "idle" /\ ~Answering(t)'
    BY DEF TypeOK, Dispatch, Goto, Answering
  <1>2. EndInv(t)'
    BY <1>1 DEF EndInv
  <1>3. CASE FreeBuffer
    BY <1>1, <1>2, <1>3 DEF FreeBuffer, HttpInv, CleanInv, LeftInv
  <1>4. ASSUME url = "devices", UNCHANGED response_data
        PROVE  Len(response_data) >= 1 /\ response_data[1].of = "devices"
    <2>1. Len(response_data) >= 1 /\ 1 \in 1..Len(response_data)
      BY <1>0 DEF TypeOK
    <2>2. CASE left = "nothing"
      <3>1. Received(t)
        BY <1>0, <2>2 DEF HttpInv, CleanInv
      <3>2. response_data[1] = Piece(t, 1)
        BY <2>1, <3>1 DEF Received
      <3>3. Piece(t, 1).of = sent[t]
        BY DEF Piece
      <3> QED BY <1>0, <1>4, <2>1, <3>2, <3>3
    <2>3. CASE left # "nothing"
      BY <2>3 DEF HttpInv, LeftInv
    <2> QED BY <2>2, <2>3
  <1>5. CASE NoArray
    <2>1. left' = "scraps" /\ response_data' = response_data /\ url = "devices" /\ ~IsArray
      BY <1>0, <1>5 DEF NoArray
    <2>2. Spoilt \/ Len(response_data) < DeviceParts
      BY <2>1, ArrayOrNot, PartsAssumption DEF TypeOK
    <2> QED BY <1>1, <1>2, <1>4, <2>1, <2>2
            DEF HttpInv, CleanInv, LeftInv, Between, Spoilt
  <1>6. CASE NoMemory
    <2>1. left' = "list" /\ response_data' = response_data /\ url = "devices" /\ IsArray
      BY <1>6 DEF NoMemory
    <2> QED BY <1>1, <1>2, <1>4, <2>1 DEF HttpInv, CleanInv, LeftInv, IsArray
  <1> QED BY <1>3, <1>5, <1>6 DEF Dispatch

LEMMA RequestKeeps == ASSUME NEW t \in Clients, TypeOK, HttpInv(t), Request(t)
                      PROVE  HttpInv(t)'
  <1> USE DEF HttpInv
  <1>1. CASE WriteUrl(t)
    <2>1. /\ pc[t] = "idle" /\ pc'[t] = "written" /\ url' = wanted'[t]
          /\ UNCHANGED <<response_data, left>>
      BY <1>1 DEF TypeOK, WriteUrl, Goto
    <2> QED BY <2>1 DEF CleanInv, LeftInv, EndInv, Between, Answering, Spoilt, IsArray
  <1>2. CASE Open(t)
    <2>1. /\ got'[t] = 0 /\ pc'[t] = "receiving" /\ pc[t] = "written"
          /\ sent'[t] = wanted'[t]
          /\ UNCHANGED <<response_data, left>>
      BY <1>2 DEF TypeOK, Open, Goto, EndInv
    <2>2. Total(t)' \in 1..DeviceParts
      BY PartsAssumption DEF Total, Parts
    <2>3. EndInv(t)'
      BY <2>1, <2>2 DEF EndInv
    <2>4. CleanInv(t)'
      BY <2>1 DEF CleanInv, Received, Answering
    <2>5. LeftInv(t)'
      BY <2>1 DEF LeftInv, Between, Answering, Spoilt, IsArray
    <2> QED BY <2>3, <2>4, <2>5
  <1>3. CASE OnData(t)
    BY <1>3, PieceKeeps
  <1>4. CASE OnFinish(t)
    <2>1. /\ pc[t] = "receiving" /\ Answering(t)
          /\ UNCHANGED <<response_data, left, got, sent, wanted, refused>>
      BY <1>4 DEF OnFinish, Answering
    <2>2. /\ Received(t)' = Received(t) /\ Total(t)' = Total(t)
          /\ Spoilt' = Spoilt /\ IsArray' = IsArray
      BY <2>1 DEF Received, Piece, Total, Parts, Spoilt, IsArray
    <2>4. CASE response_data = <<>>
      <3>1. pc'[t] = "idle"
        BY <1>4, <2>4 DEF TypeOK, OnFinish, Goto
      <3>2. left = "nothing"
        BY <2>4 DEF LeftInv
      <3> QED BY <2>1, <2>4, <3>1, <3>2 DEF CleanInv, LeftInv, EndInv, Answering
    <2>5. CASE response_data # <<>>
      <3>1. pc'[t] = "dispatch" /\ url' = sent[t] /\ Answering(t)'
        BY <1>4, <2>5 DEF TypeOK, OnFinish, Goto, Answering
      <3>2. CleanInv(t)'
        BY <2>1, <2>2, <3>1 DEF CleanInv
      <3>3. LeftInv(t)'
        BY <2>1, <2>2, <3>1 DEF LeftInv, Between
      <3>4. EndInv(t)'
        BY <2>1, <2>2, <2>5, <3>1 DEF EndInv
      <3> QED BY <3>2, <3>3, <3>4
    <2> QED BY <2>4, <2>5
  <1>5. CASE Dispatch(t)
    BY <1>5, DispatchKeepsInv
  <1>6. CASE Fail(t)
    <2>1. /\ pc[t] = "receiving" /\ got[t] = 0 /\ pc'[t] = "idle" /\ Answering(t)
          /\ ~Answering(t)' /\ response_data \in Seq(Pieces)
          /\ UNCHANGED <<response_data, got, left>>
      BY <1>6 DEF TypeOK, Fail, Goto, Pieces, Answering
    <2>2. left = "nothing" => response_data = <<>>
      BY <2>1 DEF CleanInv, Received
    <2>3. CleanInv(t)' /\ EndInv(t)'
      BY <2>1, <2>2 DEF CleanInv, EndInv
    <2>4. LeftInv(t)'
      BY <2>1 DEF LeftInv, Between, Spoilt, IsArray
    <2> QED BY <2>3, <2>4
  <1> QED BY <1>1, <1>2, <1>3, <1>4, <1>5, <1>6 DEF Request
-----------------------------------------------------------------------------
(* Any number of clients, one at a time: the invariant of each holds while *)
(* the others are idle, and between requests it is the same for all.       *)
Alone(t) == \A u \in Clients : u # t => pc[u] = "idle"
SerialInv == \A t \in Clients : Alone(t) => HttpInv(t)

LEMMA OthersStay == ASSUME NEW t \in Clients, TypeOK, Request(t)
                    PROVE  /\ \A u \in Clients : u # t => pc'[u] = pc[u]
                           /\ pc'[t] = "idle" => pc[t] # "idle"
                           /\ pc'[t] # pc[t] \/ (pc[t] = "receiving" /\ OnData(t))
  BY DEF TypeOK, Request, WriteUrl, Open, OnData, OnFinish, Dispatch, Fail, Goto

LEMMA SerialAlone == ASSUME NEW t \in Clients, TypeOK, Request(t), Serialised, Serialised'
                     PROVE  Alone(t) /\ Alone(t)'
  BY OthersStay DEF Serialised, Alone

LEMMA SerialStep == ASSUME TypeOK, SerialInv, Serialised, Serialised', [Next]_vars
                    PROVE  SerialInv'
  <1>1. CASE UNCHANGED vars
    BY <1>1 DEF vars, SerialInv, Alone, HttpInv, CleanInv, LeftInv, EndInv, Received, Between,
                Answering, Spoilt, IsArray, Piece, Total, Parts
  <1>2. ASSUME NEW t \in Clients, Request(t) PROVE SerialInv'
    <2>1. Alone(t) /\ HttpInv(t)'
      BY <1>2, SerialAlone, RequestKeeps DEF SerialInv
    <2> SUFFICES ASSUME NEW u \in Clients, Alone(u)', u # t PROVE HttpInv(u)'
      BY <2>1 DEF SerialInv
    <2>2. pc'[t] = "idle" /\ pc'[u] = "idle"
      BY <1>2, <2>1, OthersStay DEF Alone
    <2> QED BY <2>1, <2>2 DEF HttpInv, CleanInv, LeftInv, EndInv, Between, Answering
  <1> QED BY <1>1, <1>2 DEF Next

LEMMA SerialAlways == Spec /\ []Serialised => [](TypeOK /\ SerialInv /\ Serialised)
  <1>1. Init => SerialInv
    BY HttpInit DEF SerialInv
  <1>2. TypeOK /\ SerialInv /\ Serialised /\ Serialised' /\ [Next]_vars => SerialInv'
    BY SerialStep
  <1> QED BY <1>1, <1>2, HttpTypeCorrect, PTL DEF Spec

LEMMA BusyInv == ASSUME SerialInv, Serialised, NEW t \in Clients, pc[t] # "idle"
                 PROVE  HttpInv(t)
  BY DEF SerialInv, Serialised, Alone

LEMMA PrefixFromInv == TypeOK /\ SerialInv /\ Serialised => CleanIsPrefix
  <1> SUFFICES ASSUME TypeOK, SerialInv, Serialised,
                      NEW t \in Clients, pc[t] = "dispatch", left = "nothing"
               PROVE  Received(t) /\ got[t] \in 1..Total(t)
    BY DEF CleanIsPrefix, Received
  <1>1. HttpInv(t) /\ Answering(t)
    BY BusyInv DEF Answering
  <1>2. Received(t) /\ response_data # <<>> /\ got[t] <= Total(t)
    BY <1>1 DEF HttpInv, CleanInv, EndInv
  <1>3. response_data \in Seq(Pieces) /\ got[t] \in Nat /\ Total(t) \in Nat
    BY TotalTyped DEF TypeOK, Pieces
  <1> QED BY <1>2, <1>3 DEF Received

(* An array that is not one left from before is the whole answer.          *)
LEMMA ArrayIsAnswer ==
    ASSUME TypeOK, NEW t \in Clients, HttpInv(t), pc[t] = "dispatch", url = "devices",
           IsArray, left # "list"
    PROVE  /\ left = "nothing" /\ sent[t] = "devices" /\ ~refused[t]
           /\ got[t] = DeviceParts /\ Len(response_data) = DeviceParts
  <1>1. /\ sent[t] = "devices" /\ got[t] <= Total(t) /\ got[t] \in Nat /\ Answering(t)
    BY DEF HttpInv, EndInv, TypeOK, Answering
  <1>2. ~Spoilt /\ Len(response_data) >= DeviceParts
    BY ArrayOrNot
  <1>3. left = "nothing" /\ Received(t)
    BY <1>1, <1>2, PartsAssumption DEF HttpInv, CleanInv, LeftInv, TypeOK
  <1>4. got[t] >= DeviceParts /\ Len(response_data) = got[t]
    BY <1>2, <1>3 DEF Received
  <1>5. ~refused[t]
    <2>1. 1 \in 1..DeviceParts /\ 1 \in 1..got[t]
      BY <1>1, <1>4, PartsAssumption
    <2>2. response_data[1] = [of |-> "devices", part |-> 1] /\ response_data[1] = Piece(t, 1)
      BY <1>3, <2>1 DEF IsArray, Received
    <2> QED BY <2>2 DEF Piece
  <1>6. Total(t) = DeviceParts
    BY <1>1, <1>5 DEF Total, Parts
  <1> QED BY <1>1, <1>3, <1>4, <1>5, <1>6, PartsAssumption

LEMMA WholeFromInv == TypeOK /\ SerialInv /\ Serialised => AppliedIsWhole
  BY BusyInv, ArrayIsAnswer DEF AppliedIsWhole

(* While requests do not overlap, what is handled is the beginning of its  *)
(* own answer, unless an earlier one is still in response_data, whatever   *)
(* the tasks that take turns and the length of the list                    *)
(* (webserver.c:46-54, 72-77).                                             *)
THEOREM SerialCleanIsPrefix == Spec /\ []Serialised => []CleanIsPrefix
  <1> QED BY PrefixFromInv, SerialAlways, PTL

(* While requests do not overlap, the device list applied to the relays is *)
(* the answer just received and all of it, or one that malloc refused      *)
(* before: scraps of failed exchanges are never taken for it               *)
(* (webserver.c:154-221).                                                  *)
THEOREM SerialAppliedIsWhole == Spec /\ []Serialised => []AppliedIsWhole
  <1> QED BY WholeFromInv, SerialAlways, PTL

(* While requests do not overlap, each goes to the address its task wrote  *)
(* (firebaseFns.c:225-226, httpMethods.c:16-27): the wrong address of      *)
(* GoesToOwnUrl's counterexample takes an overlap.                         *)
THEOREM SerialGoesToOwnUrl == Spec /\ []Serialised => []GoesToOwnUrl
  <1>1. TypeOK /\ SerialInv /\ Serialised => GoesToOwnUrl
    BY BusyInv DEF GoesToOwnUrl, HttpInv, EndInv, Answering
  <1> QED BY <1>1, SerialAlways, PTL

-----------------------------------------------------------------------------
(* The state of the service, seen through the one client that is busy.     *)
View(t) == /\ Asked = IF pc[t] = "idle" THEN {} ELSE {wanted[t]}
           /\ Delivered = (Answering(t) /\ ~refused[t] /\ got[t] = Parts(sent[t]))
           /\ Outcome = IF pc[t] # "dispatch" THEN "pending"
                        ELSE IF ~Understood THEN "nothing"
                        ELSE IF Len(response_data) = got[t] THEN "answer" ELSE "stale"

LEMMA AloneView == \A t \in Clients : Alone(t) => View(t)
  <1> SUFFICES ASSUME NEW t \in Clients, Alone(t) PROVE View(t)
    OBVIOUS
  <1>1. Asked = IF pc[t] = "idle" THEN {} ELSE {wanted[t]}
    BY DEF Asked, Alone
  <1>2. Delivered = (Answering(t) /\ ~refused[t] /\ got[t] = Parts(sent[t]))
    BY DEF Delivered, Alone, Answering
  <1>3. /\ (\A u \in Clients : pc[u] # "dispatch") <=> pc[t] # "dispatch"
        /\ (\E u \in Clients : pc[u] = "dispatch" /\ Len(response_data) = got[u])
           <=> pc[t] = "dispatch" /\ Len(response_data) = got[t]
    BY DEF Alone
  <1>4. Outcome = IF pc[t] # "dispatch" THEN "pending"
                  ELSE IF ~Understood THEN "nothing"
                  ELSE IF Len(response_data) = got[t] THEN "answer" ELSE "stale"
    BY <1>3 DEF Outcome
  <1> QED BY <1>1, <1>2, <1>4 DEF View

LEMMA AloneViewNext == (\A t \in Clients : Alone(t) => View(t))'
  <1> QED BY AloneView, PTL

(* What the handler understands, from what was left and what has come.     *)
Decided(t) == /\ left = "nothing" =>
                    /\ Understood <=> ~refused[t] /\ got[t] = Parts(sent[t])
                    /\ Len(response_data) = got[t]
              /\ left = "list" => /\ Understood <=> sent[t] = "devices"
                                  /\ Len(response_data) # got[t]
              /\ left = "scraps" => ~Understood

LEMMA WhatIsUnderstood ==
    ASSUME TypeOK, NEW t \in Clients, HttpInv(t), pc[t] = "dispatch"
    PROVE  Decided(t)
  <1>1. /\ Answering(t) /\ url = sent[t] /\ response_data # <<>> /\ got[t] <= Total(t)
        /\ got[t] \in 0..DeviceParts /\ Len(response_data) \in Nat /\ sent[t] \in Targets
        /\ Len(response_data) >= 1 /\ DeviceParts \in Nat \ {0} /\ refused[t] \in BOOLEAN
    BY PartsAssumption DEF HttpInv, EndInv, Answering, TypeOK
  <1>2. ASSUME left = "nothing"
        PROVE  /\ Understood <=> ~refused[t] /\ got[t] = Parts(sent[t])
               /\ Len(response_data) = got[t]
    <2>1. Received(t) /\ Len(response_data) = got[t]
      BY <1>1, <1>2 DEF HttpInv, CleanInv, Received
    <2>2. response_data[1] = Piece(t, 1)
      BY <1>1, <2>1 DEF Received
    <2>3. CASE sent[t] # "devices"
      <3>1. Understood <=> response_data[1] = [of |-> sent[t], part |-> 1]
        BY <1>1, <2>3 DEF Understood
      <3>2. Parts(sent[t]) = 1 /\ got[t] = 1
        BY <1>1, <2>1, <2>3 DEF Total, Parts
      <3> QED BY <1>1, <2>1, <2>2, <3>1, <3>2 DEF Piece
    <2>4. CASE sent[t] = "devices"
      <3>1. IsArray => got[t] = DeviceParts /\ ~refused[t]
        BY <1>1, <1>2, <2>4, ArrayIsAnswer
      <3>2. ASSUME got[t] = DeviceParts, ~refused[t] PROVE IsArray
        <4>1. \A k \in 1..DeviceParts : response_data[k] = [of |-> "devices", part |-> k]
          BY <2>1, <2>4, <3>2 DEF Received, Piece
        <4> QED BY <1>1, <2>1, <3>2, <4>1 DEF IsArray
      <3> QED BY <1>1, <2>1, <2>4, <3>1, <3>2 DEF Understood, Parts
    <2> QED BY <2>3, <2>4
  <1>3. ASSUME left = "list"
        PROVE  (Understood <=> sent[t] = "devices") /\ Len(response_data) # got[t]
    BY <1>1, <1>3 DEF HttpInv, LeftInv, Understood
  <1>4. ASSUME left = "scraps" PROVE ~Understood
    <2>1. /\ response_data[1].of = "devices" /\ Len(response_data) > got[t]
          /\ Spoilt \/ Len(response_data) < DeviceParts
      BY <1>1, <1>4 DEF HttpInv, LeftInv
    <2>2. ~IsArray
      BY <1>1, <2>1, ArrayOrNot
    <2> QED BY <1>1, <2>1, <2>2 DEF Understood
  <1> QED BY <1>2, <1>3, <1>4 DEF Decided

LEMMA WhatIsUnderstoodNext ==
    (TypeOK => \A t \in Clients : HttpInv(t) /\ pc[t] = "dispatch" => Decided(t))'
  <1>1. TypeOK => \A t \in Clients : HttpInv(t) /\ pc[t] = "dispatch" => Decided(t)
    BY WhatIsUnderstood
  <1> QED BY <1>1, PTL

LEMMA ServiceStep ==
    ASSUME TypeOK, TypeOK', SerialInv, Serialised, Serialised', NEW t \in Clients, Request(t)
    PROVE  [Service!ServiceNext]_(Service!serviceVars)
  <1>1. Alone(t) /\ Alone(t)' /\ HttpInv(t) /\ HttpInv(t)'
    BY SerialAlone, RequestKeeps DEF SerialInv
  <1>2. View(t) /\ View(t)'
    BY <1>1, AloneView, AloneViewNext
  <1> USE DEF Service!serviceVars, Service!ServiceNext
  <1>3. CASE WriteUrl(t)
    <2>1. /\ pc[t] = "idle" /\ pc'[t] = "written" /\ wanted'[t] \in Targets /\ left' = left
      BY <1>3 DEF TypeOK, WriteUrl, Goto
    <2>2. Asked = {} /\ Asked' = {wanted'[t]} /\ Delivered' = Delivered /\ Outcome' = Outcome
      BY <1>2, <2>1 DEF View, Answering
    <2> QED BY <2>1, <2>2 DEF Service!Ask
  <1>4. CASE Open(t)
    <2>1. /\ pc[t] = "written" /\ pc'[t] = "receiving" /\ wanted' = wanted /\ got'[t] = 0
          /\ left' = left
      BY <1>4 DEF TypeOK, Open, Goto
    <2>2. got'[t] # Parts(sent'[t])
      BY <2>1, PartsAssumption DEF Parts
    <2>3. Asked' = Asked /\ Delivered' = Delivered /\ Outcome' = Outcome
      BY <1>2, <2>1, <2>2 DEF View, Answering
    <2> QED BY <2>1, <2>3
  <1>5. CASE OnData(t)
    <2>1. /\ pc[t] = "receiving" /\ pc' = pc /\ got'[t] = got[t] + 1 /\ got[t] < Total(t)
          /\ UNCHANGED <<sent, wanted, refused, left>>
      BY <1>5 DEF TypeOK, OnData
    <2>2. got[t] \in Nat /\ Total(t) \in Nat /\ (~refused[t] => Total(t) = Parts(sent[t]))
      BY TotalTyped DEF TypeOK, Total
    <2>3. /\ Asked' = Asked /\ Asked = {wanted[t]}
          /\ Outcome = "pending" /\ Outcome' = "pending"
      BY <1>2, <2>1 DEF View
    <2>4. ~refused[t] => got[t] # Parts(sent[t])
      BY <2>1, <2>2
    <2>5. Delivered = FALSE /\ Delivered' \in BOOLEAN
      BY <1>2, <2>4 DEF View, Answering
    <2> QED BY <2>1, <2>3, <2>5 DEF Service!Deliver
  <1>6. CASE OnFinish(t)
    <2>1. /\ pc[t] = "receiving" /\ Answering(t)
          /\ UNCHANGED <<response_data, left, got, sent, wanted, refused>>
      BY <1>6 DEF OnFinish, Answering
    <2>2. Asked = {wanted[t]} /\ Outcome = "pending" /\ sent[t] = wanted[t]
      BY <1>1, <1>2, <2>1 DEF View, HttpInv, EndInv
    <2>3. CASE response_data = <<>>
      <3>1. pc'[t] = "idle"
        BY <1>6, <2>3 DEF TypeOK, OnFinish, Goto
      <3>2. got[t] = 0
        BY <1>1, <2>1, <2>3 DEF HttpInv, CleanInv, LeftInv, Received
      <3>3. got[t] # Parts(sent[t])
        BY <3>2, PartsAssumption DEF Parts
      <3>4. Asked' = {} /\ Delivered = FALSE /\ Delivered' = FALSE /\ Outcome' = "pending"
        BY <1>2, <3>1, <3>3 DEF View, Answering
      <3> QED BY <2>1, <2>2, <3>4 DEF Service!GiveUp
    <2>4. CASE response_data # <<>>
      <3>1. pc'[t] = "dispatch"
        BY <1>6, <2>4 DEF TypeOK, OnFinish, Goto
      <3>2. /\ left = "nothing" => /\ Understood' <=> ~refused[t] /\ got[t] = Parts(sent[t])
                                   /\ Len(response_data) = got[t]
            /\ left = "list" => /\ Understood' <=> sent[t] = "devices"
                                /\ Len(response_data) # got[t]
            /\ left = "scraps" => ~Understood'
        BY <1>1, <2>1, <3>1, WhatIsUnderstoodNext DEF Decided, Parts
      <3>3. Asked' = Asked /\ Delivered' = Delivered
        BY <1>2, <2>1, <3>1 DEF View, Answering, Parts
      <3>4. Outcome' = IF ~Understood' THEN "nothing"
                       ELSE IF Len(response_data) = got[t] THEN "answer" ELSE "stale"
        BY <1>2, <2>1, <3>1 DEF View
      <3>5. Delivered <=> ~refused[t] /\ got[t] = Parts(sent[t])
        BY <1>2, <2>1 DEF View
      <3>6. left \in {"nothing", "scraps", "list"}
        BY DEF TypeOK
      <3>7. Outcome' = IF left = "nothing" /\ Delivered THEN "answer"
                       ELSE IF left = "list" /\ Asked = {"devices"} THEN "stale"
                       ELSE "nothing"
        BY <2>2, <3>2, <3>4, <3>5, <3>6
      <3> QED BY <2>1, <2>2, <3>3, <3>7 DEF Service!Conclude
    <2> QED BY <2>3, <2>4
  <1>7. CASE Dispatch(t)
    <2>1. /\ pc[t] = "dispatch" /\ pc'[t] = "idle" /\ url = wanted[t] /\ response_data # <<>>
      BY <1>1, <1>7 DEF TypeOK, Dispatch, Goto, HttpInv, EndInv, Answering
    <2>2. Asked = {url} /\ Asked' = {} /\ ~Delivered' /\ Outcome' = "pending"
      BY <1>2, <2>1 DEF View, Answering
    <2>3. /\ Outcome \in {"nothing", "answer", "stale"}
          /\ url = "devices" => (Outcome = "nothing" <=> ~IsArray)
      BY <1>2, <2>1 DEF View, Understood
    <2>4. left' \in IF url # "devices" THEN {"nothing"}
                    ELSE IF ~IsArray THEN {"scraps"} ELSE {"nothing", "list"}
      BY <1>7, <2>1 DEF Dispatch, NoArray, NoMemory, FreeBuffer
    <2> QED BY <2>2, <2>3, <2>4 DEF Service!End
  <1>8. CASE Fail(t)
    <2>1. /\ pc[t] = "receiving" /\ pc'[t] = "idle" /\ got[t] = 0 /\ left' = left
      BY <1>8 DEF TypeOK, Fail, Goto
    <2>2. got[t] # Parts(sent[t])
      BY <2>1, PartsAssumption DEF Parts
    <2>3. /\ Asked = {wanted[t]} /\ Asked' = {} /\ Delivered = FALSE /\ Delivered' = FALSE
          /\ Outcome = "pending" /\ Outcome' = "pending"
      BY <1>2, <2>1, <2>2 DEF View, Answering
    <2> QED BY <2>1, <2>3 DEF Service!GiveUp
  <1> QED BY <1>3, <1>4, <1>5, <1>6, <1>7, <1>8 DEF Request

LEMMA ServiceNext ==
    TypeOK /\ TypeOK' /\ SerialInv /\ Serialised /\ Serialised' /\ [Next]_vars
        => [Service!ServiceNext]_(Service!serviceVars)
  <1>1. ASSUME UNCHANGED vars PROVE UNCHANGED Service!serviceVars
    BY <1>1 DEF vars, Service!serviceVars, Asked, Delivered, Outcome, Answering, Parts,
                Understood, IsArray
  <1> QED BY <1>1, ServiceStep DEF Next

LEMMA ServiceInit == Init => Service!ServiceInit
  BY DEF Init, Service!ServiceInit, Asked, Delivered, Outcome, Answering

(* Requests that do not overlap, of any number of tasks and for any length *)
(* of the list, implement the HTTP service: each answer that has come      *)
(* whole is handled, unless something was left, which only a list leaves   *)
(* and the next answer to be handled removes (webserver.c:44-83, 154-180,  *)
(* 238-240).                                                               *)
THEOREM SerialService == Spec /\ []Serialised => ImplementsService
  <1> QED BY ServiceInit, ServiceNext, SerialAlways, PTL
          DEF Spec, ImplementsService, Service!ServiceSpec
=============================================================================
