----------------------------- MODULE SharedHttp -----------------------------
(***************************************************************************)
(* The HTTP requests of the firmware and the two buffers they share.       *)
(* Every request is made alike: snprintf writes its address into the       *)
(* global url, perform_http_get, _put or _patch hands url to a client of   *)
(* its own, and the client calls client_event_get_handler for each piece   *)
(* of the answer (HTTP_EVENT_ON_DATA) and at its end                       *)
(* (HTTP_EVENT_ON_FINISH).  The handler gathers the pieces in the global   *)
(* response_data, copies the client's address back into url, and decides   *)
(* on url what the answer is.  Nothing keeps two requests apart.           *)
(*                                                                         *)
(* What an answer makes the firmware do is in CommandLoop and              *)
(* DeviceControl.  A piece is appended in one step: what two tasks inside  *)
(* realloc do to the heap is left out.                                     *)
(***************************************************************************)
EXTENDS Integers, Sequences

CONSTANTS
    Clients,      \* the tasks that make requests
    DeviceParts,  \* the pieces of devices.json; the other answers are one
    MaxLength     \* bound: devices.json is asked for only when response_data
                  \* has at most this many pieces

ASSUME PartsAssumption == DeviceParts \in Nat \ {0}
ASSUME LengthAssumption == MaxLength \in Nat

VARIABLES
    url,            \* the shared address
    response_data,  \* the pieces in the shared buffer; <<>> for NULL
    pc,             \* where each client stands
    wanted,         \* the address the task meant to ask
    sent,           \* the address its client has
    got,            \* pieces of the answer received so far
    refused,        \* the answer is an error of the server
    left            \* history: what an exchange that is over has left in
                    \* response_data: "nothing", "scraps" of something, or
                    \* a whole "list" of devices

vars == <<url, response_data, pc, wanted, sent, got, refused, left>>
----------------------------------------------------------------------------
Targets == {"newData", "info", "devices"}
Locations == {"idle", "written", "receiving", "dispatch"}

Goto(t, l) == pc' = [pc EXCEPT ![t] = l]

(* The pieces of the answer to t; part 0 is an error of the server.        *)
Parts(x) == IF x = "devices" THEN DeviceParts ELSE 1
Total(t) == IF refused[t] THEN 1 ELSE Parts(sent[t])
Piece(t, k) == [of |-> sent[t], part |-> IF refused[t] THEN 0 ELSE k]

(* Mutant: only the beginning of the buffer is looked at. *)
BeginsArray == Len(response_data) >= 1 /\ response_data[1] = [of |-> "devices", part |-> 1]

(* cJSON_Parse takes the first value of the buffer, if it is complete. *)
IsArray == /\ Len(response_data) >= DeviceParts
           /\ \A k \in 1..DeviceParts : response_data[k] = [of |-> "devices", part |-> k]

(* The branch of url finds what it looks for in the first value. *)
Understood == IF url = "devices" THEN IsArray
              ELSE Len(response_data) >= 1 /\ response_data[1] = [of |-> url, part |-> 1]
----------------------------------------------------------------------------
WriteUrl(t) == /\ pc[t] = "idle"
               /\ \E x \in Targets : /\ x = "devices" => Len(response_data) <= MaxLength
                                     /\ url' = x
                                     /\ wanted' = [wanted EXCEPT ![t] = x]
               /\ Goto(t, "written")
               /\ UNCHANGED <<response_data, sent, got, refused, left>>

(* esp_http_client_init takes a copy of url. *)
Open(t) == /\ pc[t] = "written"
           /\ sent' = [sent EXCEPT ![t] = url]
           /\ got' = [got EXCEPT ![t] = 0]
           /\ refused' \in {[refused EXCEPT ![t] = b] : b \in BOOLEAN}
           /\ Goto(t, "receiving")
           /\ UNCHANGED <<url, response_data, wanted, left>>

(* Mutant: the first piece of the buffer is overwritten, not appended to. *)
OnDataOverwrites(t) ==
    /\ pc[t] = "receiving" /\ got[t] < Total(t)
    /\ response_data' = <<Piece(t, got[t] + 1)>>
    /\ url' = sent[t]
    /\ got' = [got EXCEPT ![t] = got[t] + 1]
    /\ UNCHANGED <<pc, wanted, sent, refused, left>>

OnData(t) == /\ pc[t] = "receiving" /\ got[t] < Total(t)
             /\ response_data' = Append(response_data, Piece(t, got[t] + 1))
             /\ url' = sent[t]
             /\ got' = [got EXCEPT ![t] = got[t] + 1]
             /\ UNCHANGED <<pc, wanted, sent, refused, left>>

(* The answer has ended, or the connection has: esp_http_client_perform    *)
(* ends a body that is cut short like one that is complete.                *)
OnFinish(t) == /\ pc[t] = "receiving"
               /\ IF response_data = <<>>
                  THEN Goto(t, "idle") /\ UNCHANGED url
                  ELSE Goto(t, "dispatch") /\ url' = sent[t]
               /\ UNCHANGED <<response_data, wanted, sent, got, refused, left>>

(* Mutant: the buffer is never freed. *)
KeepBuffer == left' = "nothing" /\ UNCHANGED response_data

FreeBuffer == left' = "nothing" /\ response_data' = <<>>

(* What should be devices.json and is no array leaves the handler before   *)
(* response_data is freed; so does a list for which malloc gives no        *)
(* memory, an empty one among them.                                        *)
NoArray == /\ url = "devices" /\ ~IsArray
           /\ left' = (IF response_data = <<>> THEN "nothing" ELSE "scraps")
           /\ UNCHANGED response_data
NoMemory == /\ url = "devices" /\ IsArray
            /\ left' = "list"
            /\ UNCHANGED response_data

(* The branch is chosen on url. *)
Dispatch(t) == /\ pc[t] = "dispatch"
               /\ \/ NoArray
                  \/ NoMemory
                  \/ (url = "devices" => IsArray) /\ FreeBuffer
               /\ Goto(t, "idle")
               /\ UNCHANGED <<url, wanted, sent, got, refused>>

(* The connection fails before there is an answer: the handler ignores     *)
(* HTTP_EVENT_ERROR and HTTP_EVENT_DISCONNECTED.                           *)
Fail(t) == /\ pc[t] = "receiving" /\ got[t] = 0
           /\ Goto(t, "idle")
           /\ UNCHANGED <<url, response_data, wanted, sent, got, refused, left>>
----------------------------------------------------------------------------
Init == /\ url = "info" /\ response_data = <<>> /\ left = "nothing"
        /\ pc = [t \in Clients |-> "idle"]
        /\ wanted = [t \in Clients |-> "info"] /\ sent = [t \in Clients |-> "info"]
        /\ got = [t \in Clients |-> 0] /\ refused = [t \in Clients |-> FALSE]

Request(t) == \/ WriteUrl(t) \/ Open(t) \/ OnData(t) \/ OnFinish(t) \/ Dispatch(t) \/ Fail(t)
Next == \E t \in Clients : Request(t)
Spec == Init /\ [][Next]_vars
----------------------------------------------------------------------------
TypeOK == /\ url \in Targets
          /\ response_data \in Seq([of: Targets, part: 0..DeviceParts])
          /\ pc \in [Clients -> Locations]
          /\ wanted \in [Clients -> Targets] /\ sent \in [Clients -> Targets]
          /\ got \in [Clients -> 0..DeviceParts]
          /\ refused \in [Clients -> BOOLEAN]
          /\ left \in {"nothing", "scraps", "list"}

(* "Format the URL to point directly to the device's status field"         *)
(* (firebaseFns.c:225): a client asks the address its task has written.    *)
GoesToOwnUrl == \A t \in Clients : pc[t] \in {"receiving", "dispatch"} => sent[t] = wanted[t]

(* Unless an earlier exchange has left its pieces in response_data, what   *)
(* is handled is the beginning of this answer, in order; how much of it is *)
(* left to cJSON_Parse (webserver.c:46-54, 72-77).                         *)
CleanIsPrefix ==
    \A t \in Clients : pc[t] = "dispatch" /\ left = "nothing" =>
        /\ Len(response_data) = got[t] /\ got[t] \in 1..Total(t)
        /\ \A k \in 1..got[t] : response_data[k] = Piece(t, k)

(* An array of devices is applied to the relays (webserver.c:170-221) only *)
(* if all of it is the answer just received: what is left in the buffer by *)
(* a list cut short, or by an error, is never taken for devices.json.  A   *)
(* whole list that malloc has refused is: it is applied in place of the    *)
(* next answer (webserver.c:176-180).                                      *)
AppliedIsWhole ==
    \A t \in Clients : pc[t] = "dispatch" /\ url = "devices" /\ IsArray /\ left # "list" =>
        /\ sent[t] = "devices" /\ ~refused[t]
        /\ Len(response_data) = DeviceParts
----------------------------------------------------------------------------
(* Nothing in the code keeps requests of two tasks apart.  What holds      *)
(* while none overlap, whichever task makes each:                          *)
Serialised == \A t, u \in Clients : pc[t] # "idle" /\ pc[u] # "idle" => t = u
SerialSpec == Init /\ [][Next /\ Serialised']_vars

Answering(t) == pc[t] \in {"receiving", "dispatch"}

Asked == {wanted[t] : t \in {u \in Clients : pc[u] # "idle"}}
Delivered == \E t \in Clients : Answering(t) /\ ~refused[t] /\ got[t] = Parts(sent[t])

(* What is handled counts as the answer if nothing else is in the buffer.  *)
Outcome == IF \A t \in Clients : pc[t] # "dispatch" THEN "pending"
           ELSE IF ~Understood THEN "nothing"
           ELSE IF \E t \in Clients : pc[t] = "dispatch" /\ Len(response_data) = got[t]
                THEN "answer" ELSE "stale"

Service == INSTANCE HttpService WITH List <- "devices", asked <- Asked,
               delivered <- Delivered, outcome <- Outcome, residue <- left

(* Requests that do not overlap are an HTTP service that handles each      *)
(* answer it has whole, and nothing else, but for what a list of devices   *)
(* that was cut short, was no list or found no memory leaves to the next   *)
(* request (webserver.c:44-83, 154-180, 238-240).                          *)
ImplementsService == Service!ServiceSpec
=============================================================================
