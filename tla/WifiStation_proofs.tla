------------------------- MODULE WifiStation_proofs -------------------------
(***************************************************************************)
(* Proofs about WifiStation for every bound on the retries.                *)
(***************************************************************************)
EXTENDS WifiStation, TLAPS, SequenceTheorems

(* What the events on their way say of the driver and of the counts.  An   *)
(* attempt under way has no event yet; a link that is down has been, or is *)
(* to be, dealt with by the handler.                                       *)
Attempted == tries \in {retries, retries + 1}
DriverInv ==
    \/ link = "trying" /\ queue = <<>> /\ Attempted
    \/ link = "up" /\ queue = <<>> /\ retries = 0 /\ tries = 0
    \/ link = "up" /\ queue = <<"ip">> /\ tries = 0
    \/ link = "down" /\ queue = <<"ip", "disc">> /\ tries = 0
    \/ link = "down" /\ queue = <<"disc">> /\ Attempted
    \/ link = "down" /\ queue = <<"start">> /\ retries = 0 /\ tries = 0
    \/ link = "down" /\ queue = <<>> /\ main = "init" /\ retries = 0 /\ tries = 0
    \/ link = "down" /\ queue = <<>> /\ main # "init"
InitInv == main = "init" => bits = {} /\ queue = <<>> /\ link = "down"
(* A call that is refused leaves nothing that would start another.         *)
Silent == refused => link = "down" /\ queue = <<>> /\ main # "init"
RestTyped == /\ retries \in 0..MaxRetry /\ tries \in Nat /\ refused \in BOOLEAN
             /\ bits \subseteq Bits
             /\ main \in MainLocations
             /\ apNetif \in BOOLEAN
WInv == RestTyped /\ DriverInv /\ InitInv /\ Silent /\ FailIsExhausted

LEMMA LostAfterIp == Append(<<"ip">>, "disc") = <<"ip", "disc">>
<1>1. <<"ip">> \in Seq(Events) /\ Len(<<"ip">>) = 1 /\ <<"ip">>[1] = "ip" /\ "disc" \in Events
  BY DEF Events
<1>2. /\ Append(<<"ip">>, "disc") \in Seq(Events)
      /\ Len(Append(<<"ip">>, "disc")) = 2
      /\ Append(<<"ip">>, "disc")[1] = "ip"
      /\ Append(<<"ip">>, "disc")[2] = "disc"
  BY <1>1, AppendProperties
<1>3. /\ <<"ip", "disc">> \in Seq(Events) /\ Len(<<"ip", "disc">>) = 2
      /\ <<"ip", "disc">>[1] = "ip" /\ <<"ip", "disc">>[2] = "disc"
  BY DEF Events
<1>. DEFINE s == Append(<<"ip">>, "disc")
            t == <<"ip", "disc">>
<1>4. \A i \in 1 .. Len(s) : s[i] = t[i]
  BY <1>2, <1>3
<1>5. s \in Seq(Events) /\ t \in Seq(Events) /\ Len(s) = Len(t)
  BY <1>2, <1>3
<1>. HIDE DEF s, t
<1>6. s = t
  BY <1>4, <1>5, SeqEqual
<1>. QED BY <1>6 DEF s, t

LEMMA Queues ==
    /\ Append(<<>>, "start") = <<"start">>
    /\ Append(<<>>, "ip") = <<"ip">>
    /\ Append(<<>>, "disc") = <<"disc">>
    /\ Append(<<"ip">>, "disc") = <<"ip", "disc">>
    /\ Tail(<<"start">>) = <<>> /\ Head(<<"start">>) = "start"
    /\ Tail(<<"ip">>) = <<>> /\ Head(<<"ip">>) = "ip"
    /\ Tail(<<"disc">>) = <<>> /\ Head(<<"disc">>) = "disc"
    /\ Tail(<<"ip", "disc">>) = <<"disc">> /\ Head(<<"ip", "disc">>) = "ip"
    /\ {<<>>, <<"start">>, <<"ip">>, <<"disc">>, <<"ip", "disc">>} \subseteq Seq(Events)
    /\ <<"start">> # <<>> /\ <<"ip">> # <<>> /\ <<"disc">> # <<>> /\ <<"ip", "disc">> # <<>>
<1>1. /\ Append(<<>>, "start") = <<"start">>
      /\ Append(<<>>, "ip") = <<"ip">>
      /\ Append(<<>>, "disc") = <<"disc">>
      /\ Append(<<"ip">>, "disc") = <<"ip", "disc">>
  BY LostAfterIp
<1>2. /\ Tail(<<"start">>) = <<>> /\ Head(<<"start">>) = "start"
      /\ Tail(<<"ip">>) = <<>> /\ Head(<<"ip">>) = "ip"
      /\ Tail(<<"disc">>) = <<>> /\ Head(<<"disc">>) = "disc"
  OBVIOUS
<1>3. Tail(<<"ip", "disc">>) = <<"disc">> /\ Head(<<"ip", "disc">>) = "ip"
  OBVIOUS
<1>4. {<<>>, <<"start">>, <<"ip">>, <<"disc">>, <<"ip", "disc">>} \subseteq Seq(Events)
  BY DEF Events
<1>5. <<"start">> # <<>> /\ <<"ip">> # <<>> /\ <<"disc">> # <<>> /\ <<"ip", "disc">> # <<>>
  OBVIOUS
<1>. QED BY <1>1, <1>2, <1>3, <1>4, <1>5

LEMMA ZeroTries == 0 \in 0..MaxRetry /\ 0 \in Nat
  BY RetryAssumption

LEMMA WInit == WifiInit => WInv
<1>. SUFFICES ASSUME WifiInit PROVE WInv
  OBVIOUS
<1>1. RestTyped
  <2>1. retries = 0 /\ tries = 0 /\ bits = {} /\ main = "init" /\ apNetif = FALSE
        /\ refused = FALSE
    BY DEF WifiInit
  <2>2. retries \in 0..MaxRetry /\ tries \in Nat /\ refused \in BOOLEAN
    BY <2>1, ZeroTries
  <2>3. main \in MainLocations /\ apNetif \in BOOLEAN /\ bits \subseteq Bits
    BY <2>1 DEF MainLocations
  <2>. QED BY <2>2, <2>3 DEF RestTyped
<1>2. DriverInv
  BY DEF WifiInit, DriverInv
<1>3. InitInv /\ Silent /\ FailIsExhausted
  BY DEF WifiInit, InitInv, Silent, FailIsExhausted
<1>. QED BY <1>1, <1>2, <1>3 DEF WInv

LEMMA WNext == WInv /\ [WifiNext]_wifiVars => WInv'
<1>. SUFFICES ASSUME WInv, [WifiNext]_wifiVars PROVE WInv'
  OBVIOUS
<1>0. /\ MaxRetry \in Nat /\ retries \in Nat /\ retries <= MaxRetry /\ tries \in Nat
      /\ bits \subseteq Bits /\ main \in MainLocations /\ apNetif \in BOOLEAN
      /\ refused \in BOOLEAN
  BY RetryAssumption DEF WInv, RestTyped
<1>1. CASE Join \/ Leave
  <2>1. UNCHANGED <<retries, bits, main, apNetif, refused>> /\ (tries' = 0 \/ tries' = tries)
    BY <1>1 DEF Join, Leave
  <2>2. DriverInv'
    BY <1>1, Queues DEF Join, Leave, WInv, DriverInv, Attempted
  <2>3. "FAIL" \notin bits /\ main # "init" /\ ~refused
    BY <1>1 DEF Join, Leave, WInv, FailIsExhausted, InitInv, Silent
  <2>. QED BY <1>0, <2>1, <2>2, <2>3 DEF WInv, RestTyped, InitInv, Silent, FailIsExhausted
<1>2. CASE HandleStart
  <2>1. /\ queue = <<"start">> /\ queue' = <<>> /\ link = "down" /\ tries = 0 /\ retries = 0
        /\ UNCHANGED <<retries, bits, main, apNetif>>
    BY <1>2, Queues DEF HandleStart, Next1, WInv, DriverInv
  <2>2. "FAIL" \notin bits /\ main # "init" /\ ~refused
    BY <2>1, Queues DEF WInv, FailIsExhausted, InitInv, Silent
  <2>3. CASE link' = "trying" /\ tries' = tries + 1 /\ UNCHANGED refused
    <3>1. tries' = 1
      BY <2>1, <2>3
    <3>2. DriverInv'
      BY <2>1, <2>3, <3>1 DEF DriverInv, Attempted
    <3>. QED BY <1>0, <2>1, <2>2, <2>3, <3>1, <3>2
             DEF WInv, RestTyped, InitInv, Silent, FailIsExhausted
  <2>4. CASE refused' = TRUE /\ UNCHANGED <<link, tries>>
    <3>1. DriverInv'
      BY <2>1, <2>2, <2>4 DEF DriverInv
    <3>. QED BY <1>0, <2>1, <2>2, <2>4, <3>1
             DEF WInv, RestTyped, InitInv, Silent, FailIsExhausted
  <2>. QED BY <1>2, <2>3, <2>4 DEF HandleStart, Connect
<1>3. CASE HandleDisconnected
  <2>1. /\ queue = <<"disc">> /\ queue' = <<>> /\ link = "down" /\ Attempted
        /\ UNCHANGED <<main, apNetif>>
    BY <1>3, Queues DEF HandleDisconnected, Next1, WInv, DriverInv
  <2>2. "FAIL" \notin bits /\ main # "init" /\ ~refused
    BY <2>1, Queues DEF WInv, FailIsExhausted, InitInv, Silent
  <2>3. CASE retries < MaxRetry
    <3>1. retries' = retries + 1 /\ bits' = bits /\ Connect
      BY <1>3, <2>3 DEF HandleDisconnected
    <3>2. retries' \in 0..MaxRetry
      BY <1>0, <2>3, <3>1
    <3>3. CASE link' = "trying" /\ tries' = tries + 1 /\ UNCHANGED refused
      <4>1. DriverInv' /\ tries' \in Nat
        BY <1>0, <2>1, <3>1, <3>3 DEF DriverInv, Attempted
      <4>. QED BY <1>0, <2>1, <2>2, <3>1, <3>2, <3>3, <4>1
               DEF WInv, RestTyped, InitInv, Silent, FailIsExhausted
    <3>4. CASE refused' = TRUE /\ UNCHANGED <<link, tries>>
      <4>1. DriverInv'
        BY <2>1, <2>2, <3>4 DEF DriverInv
      <4>. QED BY <1>0, <2>1, <2>2, <3>1, <3>2, <3>4, <4>1
               DEF WInv, RestTyped, InitInv, Silent, FailIsExhausted
    <3>. QED BY <3>1, <3>3, <3>4 DEF Connect
  <2>4. CASE ~(retries < MaxRetry)
    <3>1. /\ link' = "down" /\ tries' = tries /\ retries' = retries
          /\ refused' = refused /\ bits' = bits \cup {"FAIL"}
      BY <1>3, <2>1, <2>4 DEF HandleDisconnected
    <3>2. DriverInv'
      BY <2>1, <2>2, <3>1 DEF DriverInv
    <3>3. tries \in {MaxRetry, MaxRetry + 1}
      BY <1>0, <2>1, <2>4 DEF Attempted
    <3>4. bits' \subseteq Bits
      BY <1>0, <3>1 DEF Bits
    <3>. QED BY <1>0, <2>1, <2>2, <3>1, <3>2, <3>3, <3>4
             DEF WInv, RestTyped, InitInv, Silent, FailIsExhausted
  <2>. QED BY <2>3, <2>4
<1>4. CASE HandleGotIp
  <2>1. /\ queue \in {<<"ip">>, <<"ip", "disc">>} /\ queue' = Tail(queue) /\ tries = 0
        /\ \/ queue = <<"ip">> /\ link = "up"
           \/ queue = <<"ip", "disc">> /\ link = "down"
        /\ retries' = 0 /\ bits' = bits \cup {"CONNECTED"}
        /\ UNCHANGED <<link, tries, refused, main, apNetif>>
    BY <1>4, Queues DEF HandleGotIp, Next1, WInv, DriverInv
  <2>2. "FAIL" \notin bits /\ main # "init" /\ ~refused
    BY <2>1, Queues DEF WInv, FailIsExhausted, InitInv, Silent
  <2>3. DriverInv'
    BY <2>1, Queues DEF DriverInv, Attempted
  <2>4. RestTyped'
    <3>1. retries' \in 0..MaxRetry /\ tries' \in Nat
      BY <1>0, <2>1, ZeroTries
    <3>2. main' \in MainLocations /\ apNetif' \in BOOLEAN /\ refused' \in BOOLEAN
      BY <1>0, <2>1
    <3>3. bits' \subseteq Bits
      BY <1>0, <2>1 DEF Bits
    <3>. QED BY <3>1, <3>2, <3>3 DEF RestTyped
  <2>. QED BY <2>1, <2>2, <2>3, <2>4 DEF WInv, InitInv, Silent, FailIsExhausted
<1>5. CASE StartSta
  <2>1. /\ main = "init" /\ main' = "waitSta" /\ queue = <<>> /\ queue' = <<"start">>
        /\ link' = "down" /\ bits = {} /\ retries' = 0 /\ tries' = 0
        /\ UNCHANGED <<bits, apNetif, refused>> /\ ~refused
    BY <1>5, Queues DEF StartSta, WInv, DriverInv, InitInv, Silent
  <2>2. DriverInv'
    BY <2>1 DEF DriverInv
  <2>. QED BY <1>0, <2>1, <2>2 DEF WInv, RestTyped, InitInv, Silent, FailIsExhausted, MainLocations
<1>6. CASE AfterWait \/ CreateApNetif \/ StartAp
  <2>1. /\ main # "init" /\ main' # "init" /\ main' \in MainLocations /\ apNetif' \in BOOLEAN
        /\ UNCHANGED <<link, queue, tries, retries, bits, refused>>
    BY <1>0, <1>6
    DEF AfterWait, CreateApNetif, StartAp, driverVars, MainLocations
  <2>. QED BY <2>1 DEF WInv, RestTyped, DriverInv, InitInv, Silent, FailIsExhausted, Attempted
<1>7. CASE MemoryLost
  <2>1. /\ link' = "down" /\ queue' = <<>> /\ tries' = 0 /\ retries' = 0 /\ bits' = {}
        /\ main' = "init" /\ apNetif' = FALSE /\ refused' = FALSE
    BY <1>7 DEF MemoryLost
  <2>2. retries' \in 0..MaxRetry /\ tries' \in Nat
    BY <2>1, ZeroTries
  <2>3. main' \in MainLocations /\ apNetif' \in BOOLEAN /\ bits' \subseteq Bits
        /\ refused' \in BOOLEAN
    BY <2>1 DEF MainLocations
  <2>4. RestTyped'
    BY <2>2, <2>3 DEF RestTyped
  <2>5. DriverInv' /\ InitInv' /\ Silent' /\ FailIsExhausted'
    BY <2>1 DEF DriverInv, InitInv, Silent, FailIsExhausted
  <2>. QED BY <2>4, <2>5 DEF WInv
<1>8. CASE UNCHANGED wifiVars
  BY <1>8 DEF wifiVars, WInv, RestTyped, DriverInv, InitInv, Silent, FailIsExhausted, Attempted
<1>. QED
  BY <1>1, <1>2, <1>3, <1>4, <1>5, <1>6, <1>7, <1>8
  DEF WifiNext, Driver, Handler, MainTask

LEMMA WInvariant == WifiSpec => []WInv
  BY WInit, WNext, PTL DEF WifiSpec

(* Every variable keeps its type; in particular s_retry_num stays within   *)
(* CONFIG_ESP_MAXIMUM_RETRY (wifi_utils.c:48-50).                          *)
THEOREM WifiTypeCorrect == WifiSpec => []WifiTypeOK
<1>1. WInv => WifiTypeOK
  <2>1. DriverInv => queue \in Seq(Events) /\ link \in {"down", "trying", "up"}
    BY Queues DEF DriverInv
  <2>. QED BY <2>1 DEF WInv, RestTyped, WifiTypeOK
<1>. QED BY <1>1, WInvariant, PTL

(* event_handler never connects while an attempt or a link stands          *)
(* (wifi_utils.c:45-49).                                                   *)
THEOREM OneAttemptAtATime == WifiSpec => []OneAttempt
<1>1. WInv => OneAttempt
  BY Queues DEF WInv, DriverInv, OneAttempt
<1>. QED BY <1>1, WInvariant, PTL

(* WIFI_FAIL_BIT stands for exhausted retries, for good                    *)
(* (wifi_utils.c:48-54, globals.h:116).                                    *)
THEOREM FailMeansExhausted == WifiSpec => []FailIsExhausted
  BY WInvariant, PTL DEF WInv
=============================================================================
