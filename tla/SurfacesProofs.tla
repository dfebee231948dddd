--------------------------- MODULE SurfacesProofs ---------------------------
(***************************************************************************)
(* Proofs about Surfaces, for any ring, queues, packets and number of      *)
(* connections: the types, and the three invariants of its run.            *)
(***************************************************************************)
EXTENDS Surfaces, SequenceTheorems, TLAPS

(* A packet carries its connection's number; a reset, and only it, none.   *)
Packets ==
  [kind : {"whole", "last"}, conn : Nat \ {0}, value : Values] \cup
  [kind : {"first", "request", "foreign"}, conn : Nat \ {0}, value : {0}] \cup
  {Reset}

Events == [kind : {"edit", "sync"}, value : Values, source : {"ble", "other"}]

Messages == [value : Values, except : {"ble", "other"}]

Links == [conn : Nat, mtu : {SMALL_MTU, MTU}, subscribed : BOOLEAN,
          advertising : BOOLEAN]

Drains == [pc : {"idle", "adding", "full", "last"}, item : Messages,
           ble : BOOLEAN, capacity : {SMALL_MTU, MTU}, packet : Seq(Values),
           attempts : Nat]

Pasts == [links : Nat, asked : BOOLEAN, told : BOOLEAN, lost : BOOLEAN,
          crossed : BOOLEAN, behind : BOOLEAN, missed : BOOLEAN,
          reset_lost : BOOLEAN, joined : BOOLEAN, half : BOOLEAN]

TypeOK ==
  /\ link \in Links
  /\ s_rx_rb \in Seq(Packets)
  /\ parser \in [status : Nat, data : Nat]
  /\ s_queue \in Seq(Events)
  /\ g_preset \in Values
  /\ out_queue \in Seq(Messages)
  /\ out \in Drains
  /\ out.pc \in {"full", "last"} => out.packet # <<>>
  /\ shown \in Values \cup {0}
  /\ sends \in Nat
  /\ past \in Pasts

-----------------------------------------------------------------------------
(* Between bytes of two connections stands a reset: in the ring, between   *)
(* the ring and what the parser holds, and before whatever comes next.     *)
IsReset(j) == s_rx_rb[j].kind = "reset"

ResetBetween ==
  /\ \A i, k \in DOMAIN s_rx_rb :
       i < k /\ s_rx_rb[i].conn # 0 /\ s_rx_rb[k].conn \notin {0, s_rx_rb[i].conn}
         => \E j \in i + 1 .. k - 1 : IsReset(j)
  /\ \A i \in DOMAIN s_rx_rb :
       s_rx_rb[i].conn \notin {0, link.conn}
         => \E j \in i + 1 .. Len(s_rx_rb) : IsReset(j)

ResetAfterParser ==
  /\ \A k \in DOMAIN s_rx_rb :
       parser.status # 0 /\ s_rx_rb[k].conn \notin {0, parser.status}
         => \E j \in 1 .. k - 1 : IsReset(j)
  /\ parser.status \notin {0, link.conn}
       => \E j \in 1 .. Len(s_rx_rb) : IsReset(j)
  /\ parser.data \in {0, parser.status}

NotJoined ==
  ~past.reset_lost => ~past.joined /\ ResetBetween /\ ResetAfterParser

-----------------------------------------------------------------------------
(* What a surface asked for is on its way to it: the request, the voice    *)
(* task's event, a message, or a packet that holds one.                    *)
ToBeTold ==
  \/ \E i \in DOMAIN out_queue : out_queue[i].except # "ble"
  \/ out.pc = "adding" /\ out.item.except # "ble"
  \/ out.pc # "idle" /\ out.packet # <<>>

AnswerOnItsWay ==
  can_notify /\ past.asked /\ ~past.lost /\ ~past.missed /\ ~past.told
    => \/ \E i \in DOMAIN s_rx_rb : s_rx_rb[i].kind = "request"
       \/ \E i \in DOMAIN s_queue : s_queue[i].kind = "sync"
       \/ ToBeTold

-----------------------------------------------------------------------------
(* A drain that has a packet was begun for Bluetooth, and sends no empty   *)
(* packet; one that has told this surface goes on telling it.              *)
DrainForBle ==
  /\ out.packet # <<>> => out.ble
  /\ out.pc = "full" => out.item.except # "ble"
  /\ out.pc = "idle" => out.packet = <<>>
  /\ can_notify /\ past.told /\ out.pc # "idle" => out.ble

(* The newest message on its way out holds the preset.                     *)
NewestIsPreset ==
  ~past.lost =>
    /\ out_queue # <<>> => out_queue[Len(out_queue)].value = g_preset
    /\ out_queue = <<>> /\ out.pc \in {"adding", "full"} => out.item.value = g_preset
    /\ out_queue = <<>> /\ out.pc = "last" /\ ~past.behind
         => out.packet[Len(out.packet)] = g_preset

(* The end of a CC finds its beginning in the parser.                      *)
HalvesMeet ==
  ~past.lost =>
    /\ \A i \in DOMAIN s_rx_rb :
         s_rx_rb[i].kind = "last"
           => IF i = 1 THEN parser.data # 0 ELSE s_rx_rb[i - 1].kind = "first"
    /\ past.half /\ link.conn # 0
         => IF s_rx_rb = <<>> THEN parser.data # 0
                              ELSE s_rx_rb[Len(s_rx_rb)].kind = "first"

(* The surface's own edits upstream of the preset.                         *)
IsTurn(p) == p.kind \in {"whole", "last"}
IsOwn(e) == e.kind = "edit" /\ e.source = "ble"

TurnInRing == \E i \in DOMAIN s_rx_rb : IsTurn(s_rx_rb[i])
OwnInQueue == \E i \in DOMAIN s_queue : IsOwn(s_queue[i])

(* The newest of them is what a told surface shows; without any, and with  *)
(* nothing to be told, it shows the preset.                                *)
TurnShown ==
  \A i \in DOMAIN s_rx_rb :
    IsTurn(s_rx_rb[i]) /\ (\A j \in DOMAIN s_rx_rb : j > i => ~IsTurn(s_rx_rb[j]))
      => s_rx_rb[i].value = shown
OwnShown ==
  ~TurnInRing => \A i \in DOMAIN s_queue :
    IsOwn(s_queue[i]) /\ (\A j \in DOMAIN s_queue : j > i => ~IsOwn(s_queue[j]))
      => s_queue[i].value = shown
PresetShown == ~TurnInRing /\ ~OwnInQueue /\ ~ToBeTold => shown = g_preset

ShowsNewest ==
  can_notify /\ past.told /\ ~past.lost /\ ~past.crossed
    => TurnShown /\ OwnShown /\ PresetShown

-----------------------------------------------------------------------------
LEMMA TypeCorrectInit == Init => TypeOK
  BY SurfacesAssumption, EmptySeq
  DEF Init, TypeOK, Links, NoBytes, Idle, Nothing, Drains, Pasts, Messages

(* What the parser completes is events.                                    *)
LEMMA CompleteEvents ==
  ASSUME TypeOK, NEW p \in Packets
  PROVE  /\ Complete(p) \in Seq(Events)
         /\ Holds(p) \in [status : Nat, data : Nat]
<1>1. /\ Event("sync", Startup, "ble") \in Events
      /\ IsTurn(p) => Event("edit", p.value, "ble") \in Events
  BY SurfacesAssumption DEF Packets, Events, Event, Reset, IsTurn
<1>2. Complete(p) \in Seq(Events)
  BY <1>1 DEF Complete, IsTurn
<1>3. p.conn \in Nat
  BY DEF Packets, Reset
<1>4. Holds(p) \in [status : Nat, data : Nat]
  BY <1>3 DEF Holds, NoBytes, TypeOK
<1> QED
  BY <1>2, <1>4

(* A message sent, or dropped.                                             *)
LEMMA SendTypes ==
  ASSUME TypeOK, NEW v \in Values, NEW x \in {"ble", "other"}, midi_out_send(v, x)
  PROVE  out_queue' \in Seq(Messages) /\ past' \in Pasts
<1>1. [value |-> v, except |-> x] \in Messages
  BY DEF Messages
<1>2. out_queue' \in Seq(Messages)
  BY <1>1 DEF midi_out_send, TypeOK
<1>3. past' \in Pasts
  <2> DEFINE fits == Len(out_queue) < OUT_LENGTH
  <2>1. past' = [past EXCEPT !.lost = @ \/ ~fits]
    BY DEF midi_out_send
  <2> HIDE DEF fits
  <2> QED
    BY <2>1 DEF TypeOK, Pasts
<1> QED
  BY <1>2, <1>3

(* The task goes on from any o that is a drain.                            *)
LEMMA ProceedTypes ==
  ASSUME TypeOK, NEW o \in Drains, Proceed(o)
  PROVE  /\ out_queue' \in Seq(Messages) /\ out' \in Drains
         /\ out'.pc \in {"full", "last"} => out'.packet # <<>>
<1>1. CASE out_queue # <<>>
  <2>1. /\ Head(out_queue) \in Messages
        /\ Tail(out_queue) \in Seq(Messages)
    BY <1>1, HeadTailProperties DEF TypeOK
  <2> QED
    BY <1>1, <2>1 DEF Proceed, Drains
<1>2. CASE out_queue = <<>>
  BY <1>2 DEF Proceed, TypeOK, Drains
<1> QED
  BY <1>1, <1>2

LEMMA BegunTypes ==
  ASSUME TypeOK, NEW item \in Messages, NEW packet \in Seq(Values)
  PROVE  Begun(item, packet) \in Drains
  BY DEF Begun, TypeOK, Drains, Links

LEMMA DoneTypes ==
  ASSUME TypeOK, Done
  PROVE  /\ out_queue' \in Seq(Messages) /\ out' \in Drains
         /\ out'.pc \in {"full", "last"} => out'.packet # <<>>
<1>1. Idle \in Drains /\ Idle.pc = "idle"
  BY SurfacesAssumption, EmptySeq DEF Idle, Drains, Messages
<1>2. /\ out.item \in Messages
      /\ <<out.item.value>> \in Seq(Values)
  BY DEF TypeOK, Drains, Messages
<1>3. Begun(out.item, <<out.item.value>>) \in Drains
  BY <1>2, BegunTypes
<1> QED
  BY <1>1, <1>3, ProceedTypes DEF Done, TypeOK

LEMMA TypeCorrectStep == TypeOK /\ [Next]_vars => TypeOK'
<1> SUFFICES ASSUME TypeOK, [Next]_vars
             PROVE  TypeOK'
  OBVIOUS
<1>f. RingFull \in BOOLEAN
  BY DEF RingFull
<1>r. Reset \in Packets
  BY DEF Packets
<1>a. SendReset => s_rx_rb' \in Seq(Packets)
  BY <1>r DEF SendReset, TypeOK
<1>1. CASE GapConnect
  <2>1. link' \in Links /\ shown' \in Values \cup {0}
    BY <1>1 DEF GapConnect, TypeOK, Links, Pasts
  <2>2. past' \in Pasts
    <3> DEFINE stays == past.lost /\ ~AtRest
               loses == past.reset_lost \/ RingFull
               count == past.links + 1
    <3>1. past' = [past EXCEPT !.links = count,
                     !.asked = FALSE, !.told = FALSE, !.half = FALSE,
                     !.crossed = FALSE, !.missed = FALSE, !.lost = stays,
                     !.reset_lost = loses]
      BY <1>1 DEF GapConnect
    <3>2. stays \in BOOLEAN /\ loses \in BOOLEAN /\ count \in Nat
      BY DEF TypeOK, Pasts
    <3> HIDE DEF stays, loses, count
    <3> DEFINE begun == [past EXCEPT !.links = count, !.asked = FALSE,
                                     !.told = FALSE, !.half = FALSE]
    <3>3. begun \in Pasts
      BY <3>2 DEF TypeOK, Pasts
    <3>4. past' = [begun EXCEPT !.crossed = FALSE, !.missed = FALSE,
                                !.lost = stays, !.reset_lost = loses]
      BY ONLY <3>1
    <3> HIDE DEF begun
    <3> QED
      BY ONLY <3>2, <3>3, <3>4, ZenonT(60) DEF Pasts
  <2> QED
    BY <1>1, <1>a, <2>1, <2>2 DEF GapConnect, TypeOK, RestOfTheSynth
<1>2. CASE GapConnectFails
  <2>1. link' \in Links /\ past' \in Pasts
    BY <1>2 DEF GapConnectFails, TypeOK, Links, Pasts
  <2> QED
    BY <1>2, <1>a, <2>1 DEF GapConnectFails, TypeOK, RestOfTheSynth
<1>3. CASE GapDisconnect
  <2>1. link' \in Links
    <3>1. PICK starts \in BOOLEAN :
            link' = [link EXCEPT !.conn = 0, !.subscribed = FALSE, !.advertising = starts]
      BY <1>3 DEF GapDisconnect
    <3> QED
      BY <3>1 DEF TypeOK, Links
  <2>2. past' \in Pasts
    BY <1>3, <1>f DEF GapDisconnect, TypeOK, Pasts
  <2> QED
    BY <1>3, <1>a, <2>1, <2>2 DEF GapDisconnect, TypeOK, RestOfTheSynth
<1>4. CASE GapMtu
  BY <1>4 DEF GapMtu, TypeOK, RestOfTheSynth, Links
<1>5. CASE GapSubscribe
  <2>1. link' \in Links /\ past' \in Pasts
    BY <1>5 DEF GapSubscribe, TypeOK, Links, Pasts
  <2> QED
    BY <1>5, <2>1 DEF GapSubscribe, TypeOK, RestOfTheSynth
<1>6. CASE ble_midi_console_status
  BY <1>6 DEF ble_midi_console_status, TypeOK, RestOfTheSynth, Links
<1>7. CASE gatt_svr_chr_access
  <2>1. ASSUME NEW kind, NEW v, Write(kind, v),
               \/ kind \in {"whole", "last"} /\ v \in Values
               \/ kind \in {"first", "request", "foreign"} /\ v = 0
        PROVE  TypeOK'
    <3>1. [kind |-> kind, conn |-> link.conn, value |-> v] \in Packets
      BY <2>1 DEF Write, Packets, TypeOK, Links
    <3>2. s_rx_rb' \in Seq(Packets) /\ shown' \in Values \cup {0} /\ sends' \in Nat
      BY <2>1, <3>1 DEF Write, TypeOK
    <3>3. past' \in Pasts
      <4> DEFINE loses == past.lost \/ RingFull
                 first == kind = "first"
                 asks == past.asked \/ (kind = "request" /\ link.subscribed)
      <4>1. past' = [past EXCEPT !.lost = loses, !.half = first, !.asked = asks]
        BY <2>1 DEF Write
      <4>2. loses \in BOOLEAN /\ first \in BOOLEAN /\ asks \in BOOLEAN
        OBVIOUS
      <4>3. past \in Pasts
        BY DEF TypeOK
      <4> HIDE DEF loses, first, asks
      <4> QED
        BY ONLY <4>1, <4>2, <4>3, ZenonT(60) DEF Pasts
    <3> QED
      BY <2>1, <3>2, <3>3 DEF Write, TypeOK
  <2> QED
    BY <1>7, <2>1 DEF gatt_svr_chr_access
<1>8. CASE ble_rx_task
  <2>1. /\ Head(s_rx_rb) \in Packets
        /\ Tail(s_rx_rb) \in Seq(Packets)
    BY <1>8, HeadTailProperties DEF ble_rx_task, TypeOK
  <2>2. /\ parser' \in [status : Nat, data : Nat]
        /\ Complete(Head(s_rx_rb)) \in Seq(Events)
    BY <1>8, <2>1, CompleteEvents DEF ble_rx_task
  <2>3. s_queue' \in Seq(Events)
    BY <1>8, <2>2 DEF ble_rx_task, TypeOK
  <2>4. past' \in Pasts
    BY <1>8 DEF ble_rx_task, TypeOK, Pasts, Joins
  <2> QED
    BY <1>8, <2>1, <2>2, <2>3, <2>4 DEF ble_rx_task, TypeOK
<1>9. CASE voice_alloc_task
  <2>1. /\ Head(s_queue) \in Events
        /\ s_queue' \in Seq(Events)
    BY <1>9, HeadTailProperties DEF voice_alloc_task, TypeOK
  <2>2. CASE Head(s_queue).kind = "sync"
    <3>1. midi_out_send(g_preset, "other") /\ g_preset' = g_preset
      BY <1>9, <2>2 DEF voice_alloc_task, sync_surfaces
    <3> QED
      BY <1>9, <2>1, <3>1, SendTypes DEF voice_alloc_task, TypeOK
  <2>3. CASE Head(s_queue).kind # "sync"
    <3>1. /\ midi_out_send(Head(s_queue).value, Head(s_queue).source)
          /\ g_preset' = Head(s_queue).value
      BY <1>9, <2>3 DEF voice_alloc_task, handle_midi
    <3>2. Head(s_queue).value \in Values /\ Head(s_queue).source \in {"ble", "other"}
      BY <2>1 DEF Events
    <3> QED
      BY <1>9, <2>1, <3>1, <3>2, SendTypes DEF voice_alloc_task, TypeOK
  <2> QED
    BY <2>2, <2>3
<1>10. CASE \E v \in Values : EditElsewhere(v)
  <2> PICK v \in Values : EditElsewhere(v)
    BY <1>10
  <2>1. Event("edit", v, "other") \in Events
    BY DEF Event, Events
  <2>2. s_queue' \in Seq(Events) /\ sends' \in Nat
    BY <2>1 DEF EditElsewhere, TypeOK
  <2>3. past' \in Pasts
    <3> DEFINE fits == Len(s_queue) < QUEUE_LENGTH
    <3>1. past' = [past EXCEPT !.lost = @ \/ ~fits]
      BY DEF EditElsewhere
    <3> HIDE DEF fits
    <3> QED
      BY <3>1 DEF TypeOK, Pasts
  <2> QED
    BY <2>2, <2>3 DEF EditElsewhere, TypeOK
<1>11. CASE OutReceive
  <2>1. Head(out_queue) \in Messages /\ Tail(out_queue) \in Seq(Messages)
    BY <1>11, HeadTailProperties DEF OutReceive, TypeOK
  <2>2. Begun(Head(out_queue), <<>>) \in Drains
    BY <2>1, BegunTypes, EmptySeq
  <2>3. can_notify \in BOOLEAN
    BY DEF can_notify, TypeOK, Links
  <2>4. out' \in Drains
    BY <1>11, <2>2, <2>3 DEF OutReceive, Drains
  <2> QED
    BY <1>11, <2>1, <2>4 DEF OutReceive, TypeOK, Rest
<1>12. CASE OutPasses
  <2>1. past' \in Pasts
    BY <1>12, ZenonT(30) DEF OutPasses, TypeOK, Pasts
  <2> QED
    BY <1>12, <2>1, ProceedTypes DEF OutPasses, TypeOK, Rest
<1>13. CASE OutAdds
  <2>1. past' \in Pasts
    BY <1>13 DEF OutAdds, TypeOK, Pasts
  <2>o. out \in Drains
    BY DEF TypeOK
  <2>v. Append(out.packet, out.item.value) \in Seq(Values)
    BY <2>o DEF Drains, Messages
  <2>2. /\ [out EXCEPT !.packet = Append(@, out.item.value)] \in Drains
        /\ [out EXCEPT !.pc = "full"] \in Drains
    BY <2>o, <2>v DEF Drains
  <2>3. /\ out_queue' \in Seq(Messages) /\ out' \in Drains
        /\ out'.pc \in {"full", "last"} => out'.packet # <<>>
    <3>1. CASE Len(out.packet) < out.capacity
      BY <1>13, <2>2, <3>1, ProceedTypes DEF OutAdds
    <3>2. CASE ~(Len(out.packet) < out.capacity)
      <4>1. Len(out.packet) # 0
        BY <3>2, SurfacesAssumption DEF TypeOK, Drains
      <4>2. out.packet # <<>>
        BY <4>1
      <4> QED
        BY <1>13, <2>2, <3>2, <4>2 DEF OutAdds, TypeOK, Drains
    <3> QED
      BY <3>1, <3>2
  <2> QED
    BY <1>13, <2>1, <2>3 DEF OutAdds, TypeOK, Rest
<1>14. CASE OutNotifies
  <2>1. shown' \in Values \cup {0}
    <3>1. Len(out.packet) \in Nat \ {0} /\ out.packet \in Seq(Values)
      BY <1>14, EmptySeq DEF OutNotifies, TypeOK, Drains
    <3>2. link.mtu \in Nat \ {0}
      BY SurfacesAssumption DEF TypeOK, Links
    <3> DEFINE n == IF Len(out.packet) < link.mtu THEN Len(out.packet) ELSE link.mtu
    <3>3. n \in 1 .. Len(out.packet)
      BY <3>1, <3>2
    <3> HIDE DEF n
    <3>4. out.packet[n] \in Values
      BY <3>1, <3>3
    <3> QED
      BY <1>14, <3>4 DEF OutNotifies, n
  <2>2. past' \in Pasts
    <3> DEFINE cut == Len(out.packet) > link.mtu
    <3>1. past' = [past EXCEPT !.told = TRUE, !.behind = FALSE,
                     !.crossed = EditUnderWay, !.lost = @ \/ cut]
      BY <1>14 DEF OutNotifies
    <3>2. EditUnderWay \in BOOLEAN
      BY DEF EditUnderWay
    <3> HIDE DEF cut
    <3> QED
      BY <3>1, <3>2, ZenonT(40) DEF TypeOK, Pasts
  <2> QED
    BY <1>14, <2>1, <2>2, DoneTypes DEF OutNotifies, TypeOK, Rest
<1>15. CASE OutRetries
  <2>1. past' \in Pasts
    <3>1. past' = past \/ past' = [past EXCEPT !.lost = TRUE, !.behind = FALSE]
      BY <1>15 DEF OutRetries
    <3> QED
      BY <3>1 DEF TypeOK, Pasts
  <2>2. /\ out_queue' \in Seq(Messages) /\ out' \in Drains
        /\ out'.pc \in {"full", "last"} => out'.packet # <<>>
    <3>1. out \in Drains /\ out.attempts \in Nat
      BY DEF TypeOK, Drains
    <3>2. out.attempts + 1 \in Nat
      BY <3>1
    <3>3. [out EXCEPT !.attempts = @ + 1] \in Drains
      BY <3>1, <3>2 DEF Drains
    <3>4. CASE out.attempts + 1 < RETRY_LIMIT
      <4>1. /\ out' = [out EXCEPT !.attempts = @ + 1]
            /\ out_queue' = out_queue
        BY <1>15, <3>4 DEF OutRetries
      <4>2. out'.pc = out.pc /\ out'.packet = out.packet
        BY <4>1, <3>1 DEF Drains
      <4> QED
        BY <3>3, <4>1, <4>2 DEF TypeOK
    <3>5. CASE ~(out.attempts + 1 < RETRY_LIMIT)
      BY <1>15, <3>5, DoneTypes DEF OutRetries
    <3> QED
      BY <3>4, <3>5
  <2> QED
    BY <1>15, <2>1, <2>2 DEF OutRetries, TypeOK, Rest
<1>16. CASE OutGivesUp
  <2>1. past' \in Pasts
    BY <1>16 DEF OutGivesUp, TypeOK, Pasts
  <2> QED
    BY <1>16, <2>1, DoneTypes DEF OutGivesUp, TypeOK, Rest
<1>17. CASE UNCHANGED vars
  BY <1>17 DEF vars, TypeOK
<1> QED
  BY <1>1, <1>2, <1>3, <1>4, <1>5, <1>6, <1>7, <1>8, <1>9, <1>10, <1>11, <1>12,
     <1>13, <1>14, <1>15, <1>16, <1>17
  DEF Next, ble_midi_gap_event, midi_out_task

(* Type correctness of the surface's link, both ways.                      *)
THEOREM TypeCorrect == Spec => []TypeOK
<1>1. Init => TypeOK
  BY TypeCorrectInit
<1>2. TypeOK /\ [Next]_vars => TypeOK'
  BY TypeCorrectStep
<1> QED
  BY <1>1, <1>2, PTL DEF Spec

-----------------------------------------------------------------------------
(* A reset keeps apart what comes before it and what comes after.          *)
LEMMA ResetParts ==
  ASSUME TypeOK, NotJoined, SendReset, parser' = parser,
         past'.joined = past.joined,
         past'.reset_lost = (past.reset_lost \/ RingFull)
  PROVE  NotJoined'
<1> SUFFICES ASSUME ~past'.reset_lost
             PROVE  ~past'.joined /\ ResetBetween' /\ ResetAfterParser'
  BY DEF NotJoined
<1>1. ~past.joined /\ ResetBetween /\ ResetAfterParser /\ ~RingFull
  BY DEF NotJoined
<1>2. s_rx_rb' = Append(s_rx_rb, Reset)
  BY <1>1 DEF SendReset
<1> DEFINE n == Len(s_rx_rb)
<1>3. /\ n \in Nat /\ DOMAIN s_rx_rb = 1 .. n
      /\ Len(s_rx_rb') = n + 1 /\ DOMAIN s_rx_rb' = 1 .. n + 1
      /\ \A i \in 1 .. n : s_rx_rb'[i] = s_rx_rb[i]
      /\ s_rx_rb'[n + 1] = Reset
  BY <1>2 DEF TypeOK
<1>4. s_rx_rb'[n + 1].conn = 0 /\ s_rx_rb'[n + 1].kind = "reset"
  BY <1>3 DEF Reset
<1> HIDE DEF n
<1>5. ResetBetween'
  <2>1. ASSUME NEW i \in 1 .. n + 1, NEW k \in 1 .. n + 1, i < k,
               s_rx_rb'[i].conn # 0, s_rx_rb'[k].conn \notin {0, s_rx_rb'[i].conn}
        PROVE  \E j \in i + 1 .. k - 1 : s_rx_rb'[j].kind = "reset"
    <3>1. i \in 1 .. n /\ k \in 1 .. n
      BY <2>1, <1>3, <1>4
    <3>2. PICK j \in i + 1 .. k - 1 : IsReset(j)
      BY <2>1, <3>1, <1>1, <1>3 DEF ResetBetween
    <3> QED
      BY <3>1, <3>2, <1>3 DEF IsReset
  <2>2. ASSUME NEW i \in 1 .. n + 1, s_rx_rb'[i].conn # 0
        PROVE  \E j \in i + 1 .. n + 1 : s_rx_rb'[j].kind = "reset"
    BY <2>2, <1>3, <1>4
  <2> QED
    BY <2>1, <2>2, <1>3 DEF ResetBetween, IsReset
<1>6. ResetAfterParser'
  <2>1. ASSUME NEW k \in 1 .. n + 1, parser.status # 0,
               s_rx_rb'[k].conn \notin {0, parser.status}
        PROVE  \E j \in 1 .. k - 1 : s_rx_rb'[j].kind = "reset"
    <3>1. k \in 1 .. n
      BY <2>1, <1>3, <1>4
    <3>2. PICK j \in 1 .. k - 1 : IsReset(j)
      BY <2>1, <3>1, <1>1, <1>3 DEF ResetAfterParser
    <3> QED
      BY <3>1, <3>2, <1>3 DEF IsReset
  <2>2. \E j \in 1 .. n + 1 : s_rx_rb'[j].kind = "reset"
    BY <1>3, <1>4
  <2>3. parser.data \in {0, parser.status}
    BY <1>1 DEF ResetAfterParser
  <2> QED
    BY <2>1, <2>2, <2>3, <1>3 DEF ResetAfterParser, IsReset
<1> QED
  BY <1>1, <1>5, <1>6

(* A packet of the link's own comes after a reset, if others do before it. *)
LEMMA PacketParts ==
  ASSUME TypeOK, NotJoined, NEW kind, NEW v, Write(kind, v), kind # "reset",
         past'.joined = past.joined, past'.reset_lost = past.reset_lost
  PROVE  NotJoined'
<1> SUFFICES ASSUME ~past'.reset_lost
             PROVE  ~past'.joined /\ ResetBetween' /\ ResetAfterParser'
  BY DEF NotJoined
<1>1. ~past.joined /\ ResetBetween /\ ResetAfterParser
  BY DEF NotJoined
<1>2. link' = link /\ parser' = parser /\ link.conn # 0
  BY DEF Write
<1>3. CASE RingFull
  <2>1. s_rx_rb' = s_rx_rb
    BY <1>3 DEF Write
  <2> QED
    BY <1>1, <1>2, <2>1 DEF ResetBetween, ResetAfterParser, IsReset
<1>4. CASE ~RingFull
  <2> DEFINE n == Len(s_rx_rb)
  <2>1. s_rx_rb' = Append(s_rx_rb, [kind |-> kind, conn |-> link.conn, value |-> v])
    BY <1>4 DEF Write
  <2>2. /\ n \in Nat /\ DOMAIN s_rx_rb = 1 .. n
        /\ Len(s_rx_rb') = n + 1 /\ DOMAIN s_rx_rb' = 1 .. n + 1
        /\ \A i \in 1 .. n : s_rx_rb'[i] = s_rx_rb[i]
        /\ s_rx_rb'[n + 1] = [kind |-> kind, conn |-> link.conn, value |-> v]
    BY <2>1 DEF TypeOK
  <2>3. s_rx_rb'[n + 1].conn = link.conn
    BY <2>2
  <2> HIDE DEF n
  <2>n. n = Len(s_rx_rb)
    BY DEF n
  <2>4. ASSUME NEW i \in 1 .. n + 1, NEW k \in 1 .. n + 1, i < k,
               s_rx_rb'[i].conn # 0, s_rx_rb'[k].conn \notin {0, s_rx_rb'[i].conn}
        PROVE  \E j \in i + 1 .. k - 1 : s_rx_rb'[j].kind = "reset"
    <3>1. PICK j \in i + 1 .. k - 1 : IsReset(j)
      <4>1. CASE k = n + 1
        BY <4>1, <2>4, <1>1, <2>2, <2>3, <2>n DEF ResetBetween
      <4>2. CASE k # n + 1
        <5>1. i \in 1 .. n /\ k \in 1 .. n
          BY <4>2, <2>4, <2>2
        <5>2. s_rx_rb'[i] = s_rx_rb[i] /\ s_rx_rb'[k] = s_rx_rb[k]
          BY <5>1, <2>2
        <5> QED
          BY <5>1, <5>2, <2>4, <1>1, <2>2 DEF ResetBetween
      <4> QED
        BY <4>1, <4>2
    <3>2. j \in 1 .. n
      BY <3>1, <2>4, <2>2
    <3> QED
      BY <3>1, <3>2, <2>2 DEF IsReset
  <2>5. ASSUME NEW i \in 1 .. n + 1, s_rx_rb'[i].conn \notin {0, link.conn}
        PROVE  \E j \in i + 1 .. n + 1 : s_rx_rb'[j].kind = "reset"
    <3>1. i \in 1 .. n
      BY <2>5, <2>2, <2>3
    <3>2. PICK j \in i + 1 .. n : IsReset(j)
      BY <3>1, <2>5, <1>1, <2>2, <2>n DEF ResetBetween
    <3> QED
      BY <3>1, <3>2, <2>2 DEF IsReset
  <2>6. ASSUME NEW k \in 1 .. n + 1, parser.status # 0,
               s_rx_rb'[k].conn \notin {0, parser.status}
        PROVE  \E j \in 1 .. k - 1 : s_rx_rb'[j].kind = "reset"
    <3>1. PICK j \in 1 .. k - 1 : IsReset(j)
      <4>1. CASE k = n + 1
        BY <4>1, <2>6, <1>1, <2>2, <2>3, <2>n DEF ResetAfterParser
      <4>2. CASE k # n + 1
        BY <4>2, <2>6, <1>1, <2>2 DEF ResetAfterParser
      <4> QED
        BY <4>1, <4>2
    <3>2. j \in 1 .. n
      BY <3>1, <2>6, <2>2
    <3> QED
      BY <3>1, <3>2, <2>2 DEF IsReset
  <2>7. ASSUME parser.status \notin {0, link.conn}
        PROVE  \E j \in 1 .. n + 1 : s_rx_rb'[j].kind = "reset"
    <3>1. PICK j \in 1 .. n : IsReset(j)
      BY <2>7, <1>1, <2>n DEF ResetAfterParser
    <3> QED
      BY <3>1, <2>2 DEF IsReset
  <2>8. parser.data \in {0, parser.status}
    BY <1>1 DEF ResetAfterParser
  <2>9. ResetBetween'
    BY <2>4, <2>5, <2>2, <1>2 DEF ResetBetween, IsReset
  <2> QED
    BY <1>1, <2>9, <2>6, <2>7, <2>8, <2>2, <1>2 DEF ResetAfterParser, IsReset
<1> QED
  BY <1>3, <1>4

(* Popping a packet: what stands behind it moves up by one.                *)
LEMMA Popped ==
  ASSUME NEW S, NEW q \in Seq(S), q # <<>>
  PROVE  /\ Head(q) = q[1] /\ Tail(q) \in Seq(S)
         /\ Len(q) \in Nat \ {0} /\ Len(Tail(q)) = Len(q) - 1
         /\ \A i \in 1 .. Len(q) - 1 : Tail(q)[i] = q[i + 1]
         /\ q[1] \in S
  BY HeadTailProperties

LEMMA ParsedParts == TypeOK /\ NotJoined /\ ble_rx_task => NotJoined'
<1> SUFFICES ASSUME TypeOK, NotJoined, ble_rx_task, ~past'.reset_lost
             PROVE  ~past'.joined /\ ResetBetween' /\ ResetAfterParser'
  BY DEF NotJoined
<1> DEFINE p == Head(s_rx_rb)
           n == Len(s_rx_rb)
<1>1. /\ s_rx_rb # <<>> /\ s_rx_rb' = Tail(s_rx_rb)
      /\ parser' = Holds(p) /\ link' = link
  BY DEF ble_rx_task
<1>2. /\ p = s_rx_rb[1] /\ p \in Packets
      /\ n \in Nat \ {0} /\ DOMAIN s_rx_rb = 1 .. n
      /\ Len(s_rx_rb') = n - 1 /\ DOMAIN s_rx_rb' = 1 .. n - 1
      /\ \A i \in 1 .. n - 1 : s_rx_rb'[i] = s_rx_rb[i + 1]
  <2>1. s_rx_rb \in Seq(Packets)
    BY DEF TypeOK
  <2> QED
    BY <1>1, <2>1, Popped
<1>3. /\ past'.reset_lost = past.reset_lost
      /\ past'.joined = (past.joined \/ Joins(p))
  <2> DEFINE fits == Len(s_queue) < QUEUE_LENGTH \/ Complete(p) = <<>>
  <2>1. past' = [past EXCEPT !.joined = @ \/ Joins(p), !.lost = @ \/ ~fits]
    BY DEF ble_rx_task
  <2> HIDE DEF fits, p
  <2> QED
    BY <2>1 DEF TypeOK, Pasts
<1>4. ~past.joined /\ ResetBetween /\ ResetAfterParser
  BY <1>3 DEF NotJoined
<1>n. n = Len(s_rx_rb) /\ parser \in [status : Nat, data : Nat]
  BY DEF TypeOK
<1> HIDE DEF p, n
<1>5. p.conn \in Nat /\ (p.kind = "reset" \/ p.conn # 0)
  BY <1>2 DEF Packets, Reset
(* The end of a CC, and what the parser holds, are of one connection.      *)
<1>6. p.kind = "last" /\ parser.status # 0 => p.conn = parser.status
  <2> SUFFICES ASSUME p.kind = "last", parser.status # 0, p.conn # parser.status
               PROVE  FALSE
    OBVIOUS
  <2>1. PICK j \in 1 .. 1 - 1 : IsReset(j)
    BY <1>2, <1>4, <1>5 DEF ResetAfterParser
  <2> QED
    BY <2>1
<1>7. ~Joins(p)
  BY <1>4, <1>5, <1>6, <1>n DEF Joins, ResetAfterParser
<1>8. parser'.data \in {0, parser'.status}
  <2>1. CASE p.kind = "last" /\ ~(parser.status = 0 \/ parser.data # 0)
    BY <2>1, <1>1, <1>6, <1>n DEF Holds
  <2>2. CASE p.kind = "last" /\ (parser.status = 0 \/ parser.data # 0)
    BY <2>2, <1>1, <1>n DEF Holds
  <2>3. CASE p.kind # "last"
    BY <2>3, <1>1, <1>2 DEF Holds, NoBytes, Packets, Reset
  <2> QED
    BY <2>1, <2>2, <2>3
(* What the parser holds now is the packet's, if it holds anything.        *)
<1>9. parser'.status # 0 => p.kind # "reset" /\ parser'.status = p.conn
  <2>1. CASE p.kind = "last"
    <3>1. parser'.status = parser.status
      BY <2>1, <1>1, <1>n DEF Holds
    <3> QED
      BY <2>1, <3>1, <1>6
  <2>2. CASE p.kind # "last"
    BY <2>2, <1>1, <1>2 DEF Holds, NoBytes, Packets, Reset
  <2> QED
    BY <2>1, <2>2
<1>10. ResetBetween'
  <2>1. ASSUME NEW i \in 1 .. n - 1, NEW k \in 1 .. n - 1, i < k,
               s_rx_rb'[i].conn # 0, s_rx_rb'[k].conn \notin {0, s_rx_rb'[i].conn}
        PROVE  \E j \in i + 1 .. k - 1 : s_rx_rb'[j].kind = "reset"
    <3> DEFINE a == i + 1
               b == k + 1
    <3>1. /\ s_rx_rb'[i] = s_rx_rb[a] /\ s_rx_rb'[k] = s_rx_rb[b]
          /\ a \in 1 .. n /\ b \in 1 .. n /\ a < b
      BY <2>1, <1>2
    <3> HIDE DEF a, b
    <3>2. PICK j \in a + 1 .. b - 1 : IsReset(j)
      BY <2>1, <3>1, <1>2, <1>4 DEF ResetBetween
    <3>3. j - 1 \in i + 1 .. k - 1 /\ s_rx_rb'[j - 1] = s_rx_rb[j]
      BY <3>2, <1>2 DEF a, b
    <3> QED
      BY <3>2, <3>3 DEF IsReset
  <2>2. ASSUME NEW i \in 1 .. n - 1, s_rx_rb'[i].conn \notin {0, link.conn}
        PROVE  \E j \in i + 1 .. n - 1 : s_rx_rb'[j].kind = "reset"
    <3>1. s_rx_rb'[i] = s_rx_rb[i + 1] /\ i + 1 \in 1 .. n
      BY <1>2
    <3>2. PICK j \in (i + 1) + 1 .. n : IsReset(j)
      BY <2>2, <3>1, <1>2, <1>4, <1>n DEF ResetBetween
    <3>3. j - 1 \in i + 1 .. n - 1 /\ s_rx_rb'[j - 1] = s_rx_rb[j]
      BY <3>2, <1>2
    <3> QED
      BY <3>2, <3>3 DEF IsReset
  <2>3. DOMAIN s_rx_rb' = 1 .. n - 1 /\ Len(s_rx_rb') = n - 1 /\ link' = link
    BY <1>1, <1>2
  <2> QED
    BY ONLY <2>1, <2>2, <2>3 DEF ResetBetween, IsReset
<1>11. ASSUME NEW k \in 1 .. n - 1, parser'.status # 0,
              s_rx_rb'[k].conn \notin {0, parser'.status}
       PROVE  \E j \in 1 .. k - 1 : s_rx_rb'[j].kind = "reset"
  <2> DEFINE b == k + 1
  <2>1. /\ s_rx_rb'[k] = s_rx_rb[b] /\ b \in 1 .. n /\ 1 \in 1 .. n /\ 1 < b
        /\ s_rx_rb[1].conn # 0 /\ s_rx_rb[b].conn \notin {0, s_rx_rb[1].conn}
    BY <1>2, <1>9, <1>11
  <2> HIDE DEF b
  <2>2. PICK j \in 1 + 1 .. b - 1 : IsReset(j)
    BY <2>1, <1>2, <1>4 DEF ResetBetween
  <2>3. j - 1 \in 1 .. k - 1 /\ s_rx_rb'[j - 1] = s_rx_rb[j]
    BY <2>2, <1>2 DEF b
  <2> QED
    BY <2>2, <2>3 DEF IsReset
<1>12. ASSUME parser'.status \notin {0, link.conn}
       PROVE  \E j \in 1 .. n - 1 : s_rx_rb'[j].kind = "reset"
  <2>1. 1 \in 1 .. n /\ s_rx_rb[1].conn \notin {0, link.conn}
    BY <1>12, <1>2, <1>9
  <2>2. PICK j \in 1 + 1 .. n : IsReset(j)
    BY <2>1, <1>2, <1>4, <1>n DEF ResetBetween
  <2>3. j - 1 \in 1 .. n - 1 /\ s_rx_rb'[j - 1] = s_rx_rb[j]
    BY <2>2, <1>2
  <2> QED
    BY <2>2, <2>3 DEF IsReset
<1>13. ResetAfterParser'
  BY <1>1, <1>2, <1>8, <1>11, <1>12 DEF ResetAfterParser, IsReset
<1> QED
  BY <1>3, <1>4, <1>7, <1>10, <1>13

(* A history in which only lost can have changed.                          *)
OnlyLost ==
  /\ past'.asked = past.asked /\ past'.told = past.told
  /\ past'.crossed = past.crossed /\ past'.behind = past.behind
  /\ past'.missed = past.missed /\ past'.reset_lost = past.reset_lost
  /\ past'.joined = past.joined /\ past'.half = past.half
  /\ ~past'.lost => ~past.lost

LEMMA LostOrNot ==
  ASSUME past \in Pasts, NEW fits, past' = [past EXCEPT !.lost = @ \/ ~fits]
  PROVE  OnlyLost /\ (~past'.lost => fits)
  BY DEF OnlyLost, Pasts

LEMMA VoiceTaskPast ==
  ASSUME TypeOK, voice_alloc_task
  PROVE  /\ OnlyLost
         /\ \/ /\ Head(s_queue).kind = "sync"
               /\ midi_out_send(g_preset, "other") /\ g_preset' = g_preset
            \/ /\ Head(s_queue).kind # "sync"
               /\ midi_out_send(Head(s_queue).value, Head(s_queue).source)
               /\ g_preset' = Head(s_queue).value
<1>1. \/ /\ Head(s_queue).kind = "sync"
         /\ midi_out_send(g_preset, "other") /\ g_preset' = g_preset
      \/ /\ Head(s_queue).kind # "sync"
         /\ midi_out_send(Head(s_queue).value, Head(s_queue).source)
         /\ g_preset' = Head(s_queue).value
  BY DEF voice_alloc_task, sync_surfaces, handle_midi
<1>2. past' = [past EXCEPT !.lost = @ \/ ~(Len(out_queue) < OUT_LENGTH)]
  BY <1>1 DEF midi_out_send
<1> QED
  BY <1>1, <1>2, LostOrNot DEF TypeOK

LEMMA EditPast ==
  ASSUME TypeOK, NEW v \in Values, EditElsewhere(v)
  PROVE  OnlyLost /\ (~past'.lost => Len(s_queue) < QUEUE_LENGTH)
<1>1. past' = [past EXCEPT !.lost = @ \/ ~(Len(s_queue) < QUEUE_LENGTH)]
  BY DEF EditElsewhere
<1> QED
  BY <1>1, LostOrNot DEF TypeOK

(* The output task knows nothing of the other direction.                   *)
LEMMA OutputPast ==
  ASSUME TypeOK, midi_out_task
  PROVE  /\ UNCHANGED <<link, s_rx_rb, parser, s_queue, g_preset>>
         /\ past'.asked = past.asked /\ past'.half = past.half
         /\ past'.joined = past.joined /\ past'.reset_lost = past.reset_lost
         /\ ~past'.told => ~past.told
         /\ ~past'.lost => ~past.lost
         /\ ~past'.missed => ~past.missed
         /\ \/ OutNotifies
            \/ /\ past'.told = past.told /\ past'.crossed = past.crossed
               /\ shown' = shown
<1>t. past \in Pasts
  BY DEF TypeOK
<1>1. CASE OutReceive
  BY <1>1 DEF OutReceive, Rest
<1>2. CASE OutPasses
  BY <1>2, <1>t DEF OutPasses, Rest, Pasts
<1>3. CASE OutAdds
  BY <1>3, <1>t DEF OutAdds, Rest, Pasts
<1>4. CASE OutNotifies
  BY <1>4, <1>t DEF OutNotifies, Rest, Pasts
<1>5. CASE OutRetries
  BY <1>5, <1>t DEF OutRetries, Rest, Pasts
<1>6. CASE OutGivesUp
  BY <1>6, <1>t DEF OutGivesUp, Rest, Pasts
<1> QED
  BY <1>1, <1>2, <1>3, <1>4, <1>5, <1>6 DEF midi_out_task

(* The link's events: a reset or nothing goes in to the ring.              *)
LEMMA LinkPast ==
  ASSUME TypeOK, ble_midi_gap_event \/ ble_midi_console_status
  PROVE  /\ UNCHANGED <<parser, s_queue, g_preset, out_queue, out, sends>>
         /\ past'.joined = past.joined /\ past'.behind = past.behind
         /\ ~past'.lost => ~past.lost \/ AtRest
         /\ \/ /\ SendReset /\ past'.reset_lost = (past.reset_lost \/ RingFull)
               /\ ~(past'.half /\ link'.conn # 0)
            \/ /\ UNCHANGED s_rx_rb /\ past'.reset_lost = past.reset_lost
               /\ past'.lost = past.lost /\ past'.half = past.half
               /\ link'.conn = link.conn
<1>t. past \in Pasts /\ link \in Links
  BY DEF TypeOK
<1>1. CASE GapConnect
  BY <1>1, <1>t DEF GapConnect, RestOfTheSynth, Pasts
<1>2. CASE GapConnectFails
  BY <1>2, <1>t DEF GapConnectFails, RestOfTheSynth, Pasts, Links
<1>3. CASE GapDisconnect
  BY <1>3, <1>t DEF GapDisconnect, RestOfTheSynth, Pasts, Links
<1>4. CASE GapMtu
  BY <1>4, <1>t DEF GapMtu, RestOfTheSynth, Links
<1>5. CASE GapSubscribe
  BY <1>5, <1>t DEF GapSubscribe, RestOfTheSynth, Pasts, Links
<1>6. CASE ble_midi_console_status
  BY <1>6, <1>t DEF ble_midi_console_status, RestOfTheSynth, Links
<1> QED
  BY <1>1, <1>2, <1>3, <1>4, <1>5, <1>6 DEF ble_midi_gap_event

(* A write: the packet is in the ring, or lost.                            *)
LEMMA WritePast ==
  ASSUME TypeOK, NEW kind, NEW v, Write(kind, v)
  PROVE  /\ past'.joined = past.joined /\ past'.reset_lost = past.reset_lost
         /\ past'.told = past.told /\ past'.missed = past.missed
         /\ past'.crossed = past.crossed /\ past'.behind = past.behind
         /\ past'.half = (kind = "first")
         /\ past'.asked /\ ~past.asked => kind = "request"
         /\ ~past'.lost => ~past.lost /\ ~RingFull
<1> DEFINE first == kind = "first"
           asks == kind = "request" /\ link.subscribed
<1>1. past' = [past EXCEPT !.lost = @ \/ RingFull, !.half = first,
                           !.asked = @ \/ asks]
  BY DEF Write
<1>2. first \in BOOLEAN /\ (asks => kind = "request")
  OBVIOUS
<1> HIDE DEF first, asks
<1>3. /\ past'.joined = past.joined /\ past'.reset_lost = past.reset_lost
      /\ past'.told = past.told /\ past'.missed = past.missed
      /\ past'.crossed = past.crossed /\ past'.behind = past.behind
      /\ past'.half = first
      /\ past'.asked /\ ~past.asked => kind = "request"
      /\ ~past'.lost => ~past.lost /\ ~RingFull
  BY <1>1, <1>2 DEF TypeOK, Pasts
<1> QED
  BY <1>3 DEF first

LEMMA NotJoinedStep == TypeOK /\ NotJoined /\ [Next]_vars => NotJoined'
<1> SUFFICES ASSUME TypeOK, NotJoined, [Next]_vars
             PROVE  NotJoined'
  OBVIOUS
<1>1. ASSUME UNCHANGED <<s_rx_rb, parser>>, link'.conn = link.conn,
             past'.joined = past.joined, past'.reset_lost = past.reset_lost
      PROVE  NotJoined'
  BY <1>1 DEF NotJoined, ResetBetween, ResetAfterParser, IsReset
<1>2. CASE ble_midi_gap_event \/ ble_midi_console_status
  BY <1>1, <1>2, LinkPast, ResetParts
<1>3. CASE gatt_svr_chr_access
  BY <1>3, WritePast, PacketParts DEF gatt_svr_chr_access
<1>4. CASE ble_rx_task
  BY <1>4, ParsedParts
<1>5. CASE voice_alloc_task
  <2>1. OnlyLost /\ UNCHANGED <<link, s_rx_rb, parser>>
    BY <1>5, VoiceTaskPast DEF voice_alloc_task
  <2> QED
    BY <1>1, <2>1 DEF OnlyLost
<1>6. CASE midi_out_task
  BY <1>1, <1>6, OutputPast
<1>7. CASE \E v \in Values : EditElsewhere(v)
  <2>1. OnlyLost /\ UNCHANGED <<link, s_rx_rb, parser>>
    BY <1>7, EditPast DEF EditElsewhere
  <2> QED
    BY <1>1, <2>1 DEF OnlyLost
<1>8. CASE UNCHANGED vars
  BY <1>1, <1>8 DEF vars
<1> QED
  BY <1>2, <1>3, <1>4, <1>5, <1>6, <1>7, <1>8 DEF Next

(* No message is made of the bytes of two connections, whatever the ring   *)
(* holds when a link goes, unless it had no room for a reset.              *)
THEOREM NoMixedMessages == Spec => []NoMessageOfTwoLinks
<1>1. Init => NotJoined
  BY DEF Init, NotJoined, ResetBetween, ResetAfterParser, NoBytes, Nothing
<1>2. TypeOK /\ NotJoined /\ [Next]_vars => NotJoined'
  BY NotJoinedStep
<1>3. TypeOK /\ NotJoined => NoMessageOfTwoLinks
  BY DEF NotJoined, NoMessageOfTwoLinks, TypeOK, Pasts
<1> QED
  BY <1>1, <1>2, <1>3, TypeCorrect, PTL DEF Spec

-----------------------------------------------------------------------------
(* A surface that can be notified, and has asked or been told, had both    *)
(* before an event of the link.                                            *)
LEMMA LinkKeepsSurface ==
  ASSUME TypeOK, ble_midi_gap_event \/ ble_midi_console_status,
         can_notify', past'.asked \/ past'.told
  PROVE  can_notify /\ UNCHANGED <<s_rx_rb, past, shown>>
<1>t. past \in Pasts /\ link \in Links
  BY DEF TypeOK
<1>1. CASE GapConnect
  BY <1>1, <1>t DEF GapConnect, Pasts
<1>2. CASE GapConnectFails
  BY <1>2, <1>t DEF GapConnectFails, can_notify, Links
<1>3. CASE GapDisconnect
  BY <1>3, <1>t DEF GapDisconnect, can_notify, Links
<1>4. CASE GapMtu
  BY <1>4, <1>t DEF GapMtu, can_notify, Links
<1>5. CASE GapSubscribe
  BY <1>5, <1>t DEF GapSubscribe, Pasts
<1>6. CASE ble_midi_console_status
  BY <1>6, <1>t DEF ble_midi_console_status, can_notify, Links
<1> QED
  BY <1>1, <1>2, <1>3, <1>4, <1>5, <1>6 DEF ble_midi_gap_event

(* With a packet begun, or a message for Bluetooth queued, going on leaves *)
(* something to be told.                                                   *)
LEMMA ProceedToBeTold ==
  ASSUME TypeOK, NEW o \in Drains, Proceed(o),
         o.packet # <<>> \/ \E i \in DOMAIN out_queue : out_queue[i].except # "ble"
  PROVE  ToBeTold'
<1>1. CASE out_queue = <<>>
  <2>1. o.packet # <<>>
    BY <1>1
  <2>2. out' = [o EXCEPT !.pc = "last"]
    BY <1>1, <2>1 DEF Proceed
  <2> QED
    BY <2>1, <2>2 DEF ToBeTold, Drains
<1>2. CASE out_queue # <<>>
  <2>1. /\ out' = [o EXCEPT !.pc = "adding", !.item = Head(out_queue)]
        /\ out_queue' = Tail(out_queue)
    BY <1>2 DEF Proceed
  <2>2. out'.pc = "adding" /\ out'.packet = o.packet /\ out'.item = Head(out_queue)
    BY <2>1 DEF Drains
  <2>3. CASE o.packet # <<>>
    BY <2>2, <2>3 DEF ToBeTold
  <2>4. ASSUME NEW i \in DOMAIN out_queue, out_queue[i].except # "ble"
        PROVE  ToBeTold'
    <3>1. /\ Head(out_queue) = out_queue[1]
          /\ Len(out_queue') = Len(out_queue) - 1 /\ Len(out_queue) \in Nat
          /\ DOMAIN out_queue = 1 .. Len(out_queue)
          /\ DOMAIN out_queue' = 1 .. Len(out_queue')
          /\ \A k \in 1 .. Len(out_queue) - 1 : out_queue'[k] = out_queue[k + 1]
      BY <1>2, <2>1, Popped DEF TypeOK
    <3>2. CASE i = 1
      BY <2>2, <2>4, <3>1, <3>2 DEF ToBeTold
    <3>3. CASE i # 1
      <4>1. i - 1 \in DOMAIN out_queue' /\ out_queue'[i - 1] = out_queue[i]
        BY <3>1, <3>3
      <4> QED
        BY <2>4, <4>1 DEF ToBeTold
    <3> QED
      BY <3>2, <3>3
  <2> QED
    BY <2>3, <2>4
<1> QED
  BY <1>1, <1>2

(* What is to be told stays so until the surface is notified, unless a     *)
(* message is passed over or a packet given up.                            *)
LEMMA StaysToBeTold ==
  ASSUME TypeOK, midi_out_task, ToBeTold, ~past'.lost,
         out.pc = "adding" => out.ble \/ out.item.except = "ble"
  PROVE  ToBeTold' \/ OutNotifies
<1>t. past \in Pasts /\ out \in Drains
  BY DEF TypeOK
<1> DEFINE queued == \E i \in DOMAIN out_queue : out_queue[i].except # "ble"
<1>1. CASE OutReceive
  <2>1. queued
    BY <1>1 DEF OutReceive, ToBeTold
  <2>2. /\ out'.pc = "adding" /\ out'.item = Head(out_queue)
        /\ out_queue' = Tail(out_queue) /\ out_queue # <<>>
    BY <1>1, <1>t DEF OutReceive, Begun, Drains
  <2>3. PICK i \in DOMAIN out_queue : out_queue[i].except # "ble"
    BY <2>1
  <2>4. /\ Head(out_queue) = out_queue[1]
        /\ Len(out_queue') = Len(out_queue) - 1 /\ Len(out_queue) \in Nat
        /\ DOMAIN out_queue = 1 .. Len(out_queue)
        /\ DOMAIN out_queue' = 1 .. Len(out_queue')
        /\ \A k \in 1 .. Len(out_queue) - 1 : out_queue'[k] = out_queue[k + 1]
    BY <2>2, Popped DEF TypeOK
  <2>5. CASE i = 1
    BY <2>2, <2>3, <2>4, <2>5 DEF ToBeTold
  <2>6. CASE i # 1
    <3>1. i - 1 \in DOMAIN out_queue' /\ out_queue'[i - 1] = out_queue[i]
      BY <2>3, <2>4, <2>6
    <3> QED
      BY <2>3, <3>1 DEF ToBeTold
  <2> QED
    BY <2>5, <2>6
<1>2. CASE OutPasses
  <2>1. out.packet # <<>> \/ queued
    BY <1>2 DEF OutPasses, ToBeTold
  <2>2. Proceed(out)
    BY <1>2 DEF OutPasses
  <2> QED
    BY <1>t, <2>1, <2>2, ProceedToBeTold
<1>3. CASE OutAdds
  <2>1. CASE Len(out.packet) < out.capacity
    <3> DEFINE o == [out EXCEPT !.packet = Append(@, out.item.value)]
    <3>1. Append(out.packet, out.item.value) \in Seq(Values)
      BY <1>t DEF Drains, Messages
    <3>2. o \in Drains /\ o.packet = Append(out.packet, out.item.value)
      BY <1>t, <3>1 DEF Drains
    <3>3. o.packet # <<>>
      BY <1>t, <3>2 DEF Drains
    <3>4. Proceed(o)
      BY <1>3, <2>1 DEF OutAdds
    <3> HIDE DEF o
    <3> QED
      BY <3>2, <3>3, <3>4, ProceedToBeTold
  <2>2. CASE ~(Len(out.packet) < out.capacity)
    <3>1. Len(out.packet) # 0
      BY <2>2, <1>t, SurfacesAssumption DEF Drains
    <3>2. out.packet # <<>>
      BY <3>1
    <3>3. out' = [out EXCEPT !.pc = "full"]
      BY <1>3, <2>2 DEF OutAdds
    <3>4. out'.pc = "full" /\ out'.packet = out.packet
      BY <3>3, <1>t DEF Drains
    <3> QED
      BY <3>2, <3>4 DEF ToBeTold
  <2> QED
    BY <2>1, <2>2
<1>4. CASE OutRetries
  <2>1. ~(Done /\ past' = [past EXCEPT !.lost = TRUE, !.behind = FALSE])
    BY <1>t DEF Pasts
  <2>2. out' = [out EXCEPT !.attempts = @ + 1] /\ out_queue' = out_queue
    BY <1>4, <2>1 DEF OutRetries
  <2>3. out'.pc = out.pc /\ out'.packet = out.packet /\ out'.item = out.item
    BY <1>t, <2>2 DEF Drains
  <2> QED
    BY <2>2, <2>3 DEF ToBeTold
<1>5. CASE OutGivesUp
  BY <1>5, <1>t DEF OutGivesUp, Pasts
<1> QED
  BY <1>1, <1>2, <1>3, <1>4, <1>5 DEF midi_out_task

LEMMA AnswerStep == TypeOK /\ AnswerOnItsWay /\ [Next]_vars => AnswerOnItsWay'
<1> DEFINE inRing == \E i \in DOMAIN s_rx_rb : s_rx_rb[i].kind = "request"
           inQueue == \E i \in DOMAIN s_queue : s_queue[i].kind = "sync"
           told == inRing \/ inQueue \/ ToBeTold
<1> SUFFICES ASSUME TypeOK, AnswerOnItsWay, [Next]_vars,
                    can_notify', past'.asked, ~past'.lost, ~past'.missed, ~past'.told
             PROVE  told'
  BY DEF AnswerOnItsWay
<1>0. can_notify /\ past.asked /\ ~past.lost /\ ~past.missed /\ ~past.told => told
  BY DEF AnswerOnItsWay
<1> HIDE DEF told
<1>1. CASE UNCHANGED <<link, s_rx_rb, s_queue, out_queue, out, past>>
  BY <1>0, <1>1 DEF told, ToBeTold, can_notify
<1>2. CASE ble_midi_gap_event \/ ble_midi_console_status
  <2>1. /\ can_notify /\ UNCHANGED <<s_rx_rb, past>>
        /\ UNCHANGED <<s_queue, out_queue, out>>
    BY <1>2, LinkKeepsSurface, LinkPast
  <2> QED
    BY <1>0, <2>1 DEF told, ToBeTold
<1>3. ASSUME NEW kind, NEW v, Write(kind, v)
      PROVE  told'
  <2>1. /\ ~past.lost /\ ~RingFull /\ ~past.missed /\ ~past.told
        /\ past.asked \/ kind = "request"
    BY <1>3, WritePast
  <2>2. /\ s_rx_rb' = Append(s_rx_rb, [kind |-> kind, conn |-> link.conn, value |-> v])
        /\ UNCHANGED <<link, s_queue, out_queue, out>>
    BY <1>3, <2>1 DEF Write
  <2>3. /\ Len(s_rx_rb) \in Nat /\ DOMAIN s_rx_rb = 1 .. Len(s_rx_rb)
        /\ DOMAIN s_rx_rb' = 1 .. Len(s_rx_rb) + 1
        /\ \A i \in 1 .. Len(s_rx_rb) : s_rx_rb'[i] = s_rx_rb[i]
        /\ s_rx_rb'[Len(s_rx_rb) + 1].kind = kind
    BY <2>2 DEF TypeOK
  <2>4. CASE kind = "request"
    BY <2>3, <2>4 DEF told
  <2>5. CASE past.asked
    <3>1. told
      BY <1>0, <2>1, <2>2, <2>5 DEF can_notify
    <3>2. inRing => inRing'
      BY <2>3
    <3> QED
      BY <2>2, <3>1, <3>2 DEF told, ToBeTold
  <2> QED
    BY <2>1, <2>4, <2>5
<1>4. CASE ble_rx_task
  <2> DEFINE p == Head(s_rx_rb)
             fits == Len(s_queue) < QUEUE_LENGTH \/ Complete(p) = <<>>
  <2>1. past' = [past EXCEPT !.joined = @ \/ Joins(p), !.lost = @ \/ ~fits]
    BY <1>4 DEF ble_rx_task
  <2>2. /\ s_rx_rb # <<>> /\ s_rx_rb' = Tail(s_rx_rb)
        /\ s_queue' = IF fits THEN s_queue \o Complete(p) ELSE s_queue
        /\ UNCHANGED <<link, out_queue, out>>
    BY <1>4 DEF ble_rx_task
  <2> HIDE DEF fits
  <2>3. fits /\ past.asked /\ ~past.lost /\ ~past.missed /\ ~past.told
    BY <2>1 DEF TypeOK, Pasts
  <2>4. told
    BY <1>0, <2>2, <2>3 DEF can_notify
  <2>5. s_queue' = s_queue \o Complete(p)
    BY <2>2, <2>3
  <2>6. s_rx_rb \in Seq(Packets) /\ s_queue \in Seq(Events)
    BY DEF TypeOK
  <2>7. p \in Packets /\ Complete(p) \in Seq(Events)
    BY <2>2, <2>6, Popped, CompleteEvents
  <2>8. /\ Len(s_queue) \in Nat /\ Len(Complete(p)) \in Nat
        /\ DOMAIN s_queue = 1 .. Len(s_queue)
        /\ DOMAIN s_queue' = 1 .. Len(s_queue) + Len(Complete(p))
        /\ \A i \in 1 .. Len(s_queue) : s_queue'[i] = s_queue[i]
        /\ \A i \in 1 .. Len(Complete(p)) :
             s_queue'[Len(s_queue) + i] = Complete(p)[i]
    BY <2>5, <2>6, <2>7
  <2>9. inQueue => inQueue'
    BY <2>8
  <2>10. ASSUME NEW i \in DOMAIN s_rx_rb, s_rx_rb[i].kind = "request"
         PROVE  inRing' \/ inQueue'
    <3>1. /\ p = s_rx_rb[1] /\ Len(s_rx_rb) \in Nat
          /\ DOMAIN s_rx_rb = 1 .. Len(s_rx_rb)
          /\ DOMAIN s_rx_rb' = 1 .. Len(s_rx_rb) - 1
          /\ \A k \in 1 .. Len(s_rx_rb) - 1 : s_rx_rb'[k] = s_rx_rb[k + 1]
      BY <2>2, <2>6, Popped
    <3>2. CASE i = 1
      <4>1. Complete(p) = <<Event("sync", Startup, "ble")>>
        BY <2>10, <3>1, <3>2 DEF Complete
      <4>2. Len(Complete(p)) = 1 /\ Complete(p)[1].kind = "sync"
        BY <4>1 DEF Event
      <4>3. /\ s_queue'[Len(s_queue) + 1] = Complete(p)[1]
            /\ Len(s_queue) + 1 \in DOMAIN s_queue'
        BY <2>8, <4>2
      <4> QED
        BY <4>2, <4>3
    <3>3. CASE i # 1
      <4>1. i - 1 \in DOMAIN s_rx_rb' /\ s_rx_rb'[i - 1] = s_rx_rb[i]
        BY <3>1, <3>3
      <4> QED
        BY <2>10, <4>1
    <3> QED
      BY <3>2, <3>3
  <2> QED
    BY <2>2, <2>4, <2>9, <2>10 DEF told, ToBeTold
<1>5. CASE voice_alloc_task
  <2>1. /\ OnlyLost
        /\ s_queue # <<>> /\ s_queue' = Tail(s_queue)
        /\ UNCHANGED <<link, s_rx_rb, out>>
    BY <1>5, VoiceTaskPast DEF voice_alloc_task
  <2>2. told
    BY <1>0, <2>1 DEF OnlyLost, can_notify
  <2>3. ASSUME NEW v, NEW x, midi_out_send(v, x)
        PROVE  /\ ToBeTold => ToBeTold'
               /\ x # "ble" => ToBeTold'
    <3>1. past' = [past EXCEPT !.lost = @ \/ ~(Len(out_queue) < OUT_LENGTH)]
      BY <2>3 DEF midi_out_send
    <3>2. Len(out_queue) < OUT_LENGTH
      BY <3>1, LostOrNot DEF TypeOK
    <3>3. out_queue' = Append(out_queue, [value |-> v, except |-> x])
      BY <2>3, <3>2 DEF midi_out_send
    <3>4. /\ Len(out_queue) \in Nat /\ DOMAIN out_queue = 1 .. Len(out_queue)
          /\ DOMAIN out_queue' = 1 .. Len(out_queue) + 1
          /\ \A i \in 1 .. Len(out_queue) : out_queue'[i] = out_queue[i]
          /\ out_queue'[Len(out_queue) + 1].except = x
      BY <3>3 DEF TypeOK
    <3> QED
      BY <2>1, <3>4 DEF ToBeTold
  <2>4. ToBeTold => ToBeTold'
    BY <1>5, <2>3, VoiceTaskPast
  <2>5. Head(s_queue).kind = "sync" => ToBeTold'
    BY <1>5, <2>3, VoiceTaskPast
  <2>6. ASSUME NEW i \in DOMAIN s_queue, s_queue[i].kind = "sync"
        PROVE  inQueue' \/ ToBeTold'
    <3>1. /\ Head(s_queue) = s_queue[1] /\ Len(s_queue) \in Nat
          /\ DOMAIN s_queue = 1 .. Len(s_queue)
          /\ DOMAIN s_queue' = 1 .. Len(s_queue) - 1
          /\ \A k \in 1 .. Len(s_queue) - 1 : s_queue'[k] = s_queue[k + 1]
      BY <2>1, Popped DEF TypeOK
    <3>2. CASE i = 1
      BY <2>5, <2>6, <3>1, <3>2
    <3>3. CASE i # 1
      <4>1. i - 1 \in DOMAIN s_queue' /\ s_queue'[i - 1] = s_queue[i]
        BY <3>1, <3>3
      <4> QED
        BY <2>6, <4>1
    <3> QED
      BY <3>2, <3>3
  <2> QED
    BY <2>1, <2>2, <2>4, <2>6 DEF told
<1>6. CASE midi_out_task
  <2>1. /\ UNCHANGED <<link, s_rx_rb, s_queue>>
        /\ past.asked /\ ~past.lost /\ ~past.missed /\ ~past.told
    BY <1>6, OutputPast
  <2>2. told /\ can_notify
    BY <1>0, <2>1 DEF can_notify
  <2>3. ~OutNotifies
    BY DEF OutNotifies, TypeOK, Pasts
  <2>4. out.pc = "adding" => out.ble \/ out.item.except = "ble"
    <3> SUFFICES ASSUME out.pc = "adding", ~out.ble, out.item.except # "ble"
                 PROVE  FALSE
      OBVIOUS
    <3>1. OutPasses
      BY <1>6 DEF midi_out_task, OutReceive, OutAdds, OutNotifies, OutRetries, OutGivesUp
    <3> QED
      BY <2>2, <3>1 DEF OutPasses, TypeOK, Pasts
  <2>5. ToBeTold => ToBeTold'
    BY <1>6, <2>3, <2>4, StaysToBeTold
  <2> QED
    BY <2>1, <2>2, <2>5 DEF told
<1>7. ASSUME NEW v \in Values, EditElsewhere(v)
      PROVE  told'
  <2>1. OnlyLost /\ Len(s_queue) < QUEUE_LENGTH
    BY <1>7, EditPast
  <2>2. /\ s_queue' = Append(s_queue, Event("edit", v, "other"))
        /\ UNCHANGED <<link, s_rx_rb, out_queue, out>>
    BY <1>7, <2>1 DEF EditElsewhere
  <2>3. told
    BY <1>0, <2>1, <2>2 DEF OnlyLost, can_notify
  <2>4. inQueue => inQueue'
    BY <2>2 DEF TypeOK
  <2> QED
    BY <2>2, <2>3, <2>4 DEF told, ToBeTold
<1> QED
  BY <1>1, <1>2, <1>3, <1>4, <1>5, <1>6, <1>7 DEF Next, gatt_svr_chr_access, vars

(* A subscribed surface that asks for the state is sent it: with all at    *)
(* rest it has been told, unless a message was dropped or passed over.     *)
THEOREM AskersAreAnswered == Spec => []AskersAreTold
<1>1. Init => AnswerOnItsWay
  BY DEF Init, AnswerOnItsWay, Nothing
<1>2. TypeOK /\ AnswerOnItsWay /\ [Next]_vars => AnswerOnItsWay'
  BY AnswerStep
<1>3. TypeOK /\ AnswerOnItsWay => AskersAreTold
  BY DEF AnswerOnItsWay, AskersAreTold, AtRest, ToBeTold
<1> QED
  BY <1>1, <1>2, <1>3, TypeCorrect, PTL DEF Spec

-----------------------------------------------------------------------------
(* After Proceed: the message of a queue that had one, or the packet's end.*)
LEMMA ProceedTo ==
  ASSUME NEW o \in Drains, Proceed(o)
  PROVE  /\ out'.ble = o.ble /\ out'.packet = o.packet
         /\ \/ /\ out_queue # <<>> /\ out_queue' = Tail(out_queue)
               /\ out'.pc = "adding" /\ out'.item = Head(out_queue)
            \/ /\ out_queue = <<>> /\ out_queue' = <<>>
               /\ out'.pc = (IF o.packet = <<>> THEN "idle" ELSE "last")
  BY DEF Proceed, Drains

LEMMA BegunIs ==
  ASSUME TypeOK, NEW item \in Messages, NEW packet \in Seq(Values)
  PROVE  /\ Begun(item, packet) \in Drains
         /\ Begun(item, packet).packet = packet /\ Begun(item, packet).ble = out.ble
<1>1. Begun(item, packet) \in Drains
  BY BegunTypes
<1> QED
  BY <1>1 DEF Begun, TypeOK, Drains

(* After Done: nothing in hand, or the message that did not fit in a packet*)
(* of its own.                                                             *)
LEMMA DoneTo ==
  ASSUME TypeOK, Done, out.pc \in {"full", "last"}
  PROVE  \/ out.pc = "last" /\ out' = Idle /\ out_queue' = out_queue
         \/ /\ out.pc = "full"
            /\ \E o \in Drains : /\ Proceed(o) /\ o.ble = out.ble
                               /\ o.packet = <<out.item.value>>
<1>1. out.item \in Messages /\ <<out.item.value>> \in Seq(Values)
  BY DEF TypeOK, Drains, Messages
<1> QED
  BY <1>1, BegunIs DEF Done

LEMMA DrainStep == TypeOK /\ DrainForBle /\ [Next]_vars => DrainForBle'
<1> SUFFICES ASSUME TypeOK, DrainForBle, [Next]_vars
             PROVE  DrainForBle'
  OBVIOUS
<1>t. past \in Pasts /\ out \in Drains
  BY DEF TypeOK
<1>1. ASSUME out' = out, can_notify' /\ past'.told => can_notify /\ past.told
      PROVE  DrainForBle'
  BY <1>1 DEF DrainForBle
<1>2. CASE ble_midi_gap_event \/ ble_midi_console_status
  BY <1>1, <1>2, LinkPast, LinkKeepsSurface
<1>3. ASSUME NEW kind, NEW v, Write(kind, v)
      PROVE  DrainForBle'
  BY <1>1, <1>3, WritePast DEF Write, can_notify
<1>4. CASE ble_rx_task
  <2> DEFINE joins == Joins(Head(s_rx_rb))
             fits == Len(s_queue) < QUEUE_LENGTH \/ Complete(Head(s_rx_rb)) = <<>>
  <2>1. /\ past' = [past EXCEPT !.joined = @ \/ joins, !.lost = @ \/ ~fits]
        /\ UNCHANGED <<link, out>>
    BY <1>4 DEF ble_rx_task
  <2> HIDE DEF joins, fits
  <2>2. past'.told = past.told
    BY <1>t, <2>1 DEF Pasts
  <2> QED
    BY <1>1, <2>1, <2>2 DEF can_notify
<1>5. CASE voice_alloc_task
  BY <1>1, <1>5, VoiceTaskPast DEF voice_alloc_task, OnlyLost, can_notify
<1>6. CASE \E v \in Values : EditElsewhere(v)
  BY <1>1, <1>6, EditPast DEF EditElsewhere, OnlyLost, can_notify
<1>7. CASE midi_out_task
  <2>l. link' = link /\ can_notify' = can_notify
    BY <1>7, OutputPast DEF can_notify
  <2>1. ASSUME NEW o \in Drains, Proceed(o), o.packet # <<>> => o.ble,
               can_notify /\ past'.told => o.ble
        PROVE  DrainForBle'
    BY <2>1, <2>l, ProceedTo DEF DrainForBle
  <2>2. CASE OutReceive
    <3>1. /\ out'.pc = "adding" /\ out'.packet = <<>> /\ out'.ble = can_notify
      BY <2>2, <1>t DEF OutReceive, Begun, Drains
    <3> QED
      BY <3>1, <2>l DEF DrainForBle
  <2>3. CASE OutPasses
    <3>1. Proceed(out) /\ past'.told = past.told /\ out.pc # "idle"
      BY <2>3, <1>t DEF OutPasses, Pasts
    <3> QED
      BY <2>1, <1>t, <3>1 DEF DrainForBle
  <2>4. CASE OutAdds
    <3>1. CASE Len(out.packet) < out.capacity
      <4> DEFINE o == [out EXCEPT !.packet = Append(@, out.item.value)]
      <4>1. Append(out.packet, out.item.value) \in Seq(Values)
        BY <1>t DEF Drains, Messages
      <4>2. o \in Drains /\ o.ble
        BY <1>t, <2>4, <4>1 DEF Drains, OutAdds
      <4>3. Proceed(o)
        BY <2>4, <3>1 DEF OutAdds
      <4> HIDE DEF o
      <4> QED
        BY <2>1, <4>2, <4>3
    <3>2. CASE ~(Len(out.packet) < out.capacity)
      <4>1. out' = [out EXCEPT !.pc = "full"]
        BY <2>4, <3>2 DEF OutAdds
      <4>2. /\ out'.pc = "full" /\ out'.ble = out.ble /\ out'.item = out.item
            /\ out.ble /\ out.item.except # "ble"
        BY <1>t, <2>4, <4>1 DEF OutAdds, Drains
      <4> QED
        BY <4>2 DEF DrainForBle
    <3> QED
      BY <3>1, <3>2
  <2>5. ASSUME out.pc \in {"full", "last"}, Done
        PROVE  DrainForBle'
    <3>1. CASE out' = Idle
      BY <3>1 DEF DrainForBle, Idle
    <3>2. ASSUME NEW o \in Drains, Proceed(o), o.ble = out.ble
          PROVE  DrainForBle'
      <4>1. out.ble
        BY <2>5 DEF TypeOK, DrainForBle
      <4> QED
        BY <2>1, <3>2, <4>1
    <3> QED
      BY <2>5, <3>1, <3>2, DoneTo
  <2>6. CASE OutRetries
    <3>1. CASE out' = [out EXCEPT !.attempts = @ + 1] /\ past' = past
      <4>1. /\ out'.pc = out.pc /\ out'.packet = out.packet
            /\ out'.item = out.item /\ out'.ble = out.ble
        BY <3>1, <1>t DEF Drains
      <4> QED
        BY <3>1, <4>1, <2>l DEF DrainForBle
    <3> QED
      BY <2>6, <3>1, <2>5 DEF OutRetries
  <2>7. CASE OutNotifies \/ OutGivesUp
    BY <2>5, <2>7 DEF OutNotifies, OutGivesUp
  <2> QED
    BY <1>7, <2>2, <2>3, <2>4, <2>6, <2>7 DEF midi_out_task
<1>8. CASE UNCHANGED vars
  BY <1>1, <1>8 DEF vars, can_notify
<1> QED
  BY <1>2, <1>3, <1>4, <1>5, <1>6, <1>7, <1>8 DEF Next, gatt_svr_chr_access

(* The newest message is still the preset's when the task goes on.         *)
LEMMA ProceedNewest ==
  ASSUME TypeOK, NEW o \in Drains, Proceed(o), g_preset' = g_preset,
         out_queue # <<>> => out_queue[Len(out_queue)].value = g_preset,
         out_queue = <<>> /\ o.packet # <<>> /\ ~past'.behind
           => o.packet[Len(o.packet)] = g_preset
  PROVE  NewestIsPreset'
<1>1. CASE out_queue = <<>>
  <2>1. /\ out_queue' = <<>> /\ out'.packet = o.packet
        /\ out'.pc = (IF o.packet = <<>> THEN "idle" ELSE "last")
    BY <1>1, ProceedTo
  <2> QED
    BY <1>1, <2>1 DEF NewestIsPreset
<1>2. CASE out_queue # <<>>
  <2>1. /\ out_queue' = Tail(out_queue) /\ out'.pc = "adding"
        /\ out'.item = Head(out_queue)
    BY <1>2, ProceedTo
  <2>2. /\ Head(out_queue) = out_queue[1]
        /\ Len(out_queue) \in Nat \ {0}
        /\ Len(out_queue') = Len(out_queue) - 1
        /\ \A k \in 1 .. Len(out_queue) - 1 : out_queue'[k] = out_queue[k + 1]
        /\ out_queue' \in Seq(Messages)
    BY <1>2, <2>1, Popped DEF TypeOK
  <2>3. CASE Len(out_queue) = 1
    <3>1. out_queue' = <<>>
      BY <2>2, <2>3, EmptySeq
    <3>2. out'.item.value = g_preset
      BY <1>2, <2>1, <2>2, <2>3
    <3> QED
      BY <2>1, <3>1, <3>2 DEF NewestIsPreset
  <2>4. CASE Len(out_queue) # 1
    <3>1. out_queue'[Len(out_queue')] = out_queue[Len(out_queue)]
      BY <2>2, <2>4
    <3>2. out_queue' # <<>>
      BY <2>2, <2>4
    <3> QED
      BY <1>2, <3>1, <3>2 DEF NewestIsPreset
  <2> QED
    BY <2>3, <2>4
<1> QED
  BY <1>1, <1>2

LEMMA NewestStep ==
  TypeOK /\ DrainForBle /\ NewestIsPreset /\ [Next]_vars => NewestIsPreset'
<1> SUFFICES ASSUME TypeOK, DrainForBle, NewestIsPreset, [Next]_vars, ~past'.lost
             PROVE  NewestIsPreset'
  BY DEF NewestIsPreset
<1>t. past \in Pasts /\ out \in Drains
  BY DEF TypeOK
<1>1. ASSUME UNCHANGED <<out_queue, out, g_preset>>, past'.behind = past.behind,
             ~past.lost
      PROVE  NewestIsPreset'
  BY <1>1 DEF NewestIsPreset
<1>2. CASE ble_midi_gap_event \/ ble_midi_console_status
  <2>1. /\ UNCHANGED <<out_queue, out, g_preset>> /\ past'.behind = past.behind
        /\ ~past.lost \/ AtRest
    BY <1>2, LinkPast
  <2>2. CASE AtRest
    BY <2>1, <2>2 DEF AtRest, NewestIsPreset
  <2> QED
    BY <1>1, <2>1, <2>2
<1>3. ASSUME NEW kind, NEW v, Write(kind, v)
      PROVE  NewestIsPreset'
  BY <1>1, <1>3, WritePast DEF Write
<1>4. CASE ble_rx_task
  <2> DEFINE joins == Joins(Head(s_rx_rb))
             fits == Len(s_queue) < QUEUE_LENGTH \/ Complete(Head(s_rx_rb)) = <<>>
  <2>1. /\ past' = [past EXCEPT !.joined = @ \/ joins, !.lost = @ \/ ~fits]
        /\ UNCHANGED <<out_queue, out, g_preset>>
    BY <1>4 DEF ble_rx_task
  <2> HIDE DEF joins, fits
  <2>2. past'.behind = past.behind /\ ~past.lost
    BY <1>t, <2>1 DEF Pasts
  <2> QED
    BY <1>1, <2>1, <2>2
<1>5. CASE voice_alloc_task
  <2>1. ASSUME NEW v, NEW x, midi_out_send(v, x), g_preset' = v
        PROVE  NewestIsPreset'
    <3>1. past' = [past EXCEPT !.lost = @ \/ ~(Len(out_queue) < OUT_LENGTH)]
      BY <2>1 DEF midi_out_send
    <3>2. Len(out_queue) < OUT_LENGTH
      BY <1>t, <3>1, LostOrNot
    <3>3. out_queue' = Append(out_queue, [value |-> v, except |-> x])
      BY <2>1, <3>2 DEF midi_out_send
    <3>4. /\ Len(out_queue) \in Nat /\ Len(out_queue') = Len(out_queue) + 1
          /\ out_queue'[Len(out_queue) + 1].value = v
      BY <3>3 DEF TypeOK
    <3>5. out_queue' # <<>>
      BY <3>4
    <3> QED
      BY <2>1, <3>4, <3>5 DEF NewestIsPreset
  <2> QED
    BY <1>5, <2>1, VoiceTaskPast
<1>6. CASE \E v \in Values : EditElsewhere(v)
  BY <1>1, <1>6, EditPast DEF EditElsewhere, OnlyLost
<1>7. CASE midi_out_task
  <2>0. ~past.lost /\ g_preset' = g_preset
    BY <1>7, OutputPast
  <2>n. /\ out_queue # <<>> => out_queue[Len(out_queue)].value = g_preset
        /\ out_queue = <<>> /\ out.pc \in {"adding", "full"} => out.item.value = g_preset
        /\ out_queue = <<>> /\ out.pc = "last" /\ ~past.behind
             => out.packet[Len(out.packet)] = g_preset
    BY <2>0 DEF NewestIsPreset
  <2>1. ASSUME NEW o \in Drains, Proceed(o),
               out_queue = <<>> /\ o.packet # <<>> /\ ~past'.behind
                 => o.packet[Len(o.packet)] = g_preset
        PROVE  NewestIsPreset'
    BY <2>0, <2>1, <2>n, ProceedNewest
  <2>2. CASE OutReceive
    <3> DEFINE o == [Begun(Head(out_queue), <<>>) EXCEPT !.ble = can_notify]
    <3>0. Head(out_queue) \in Messages
      BY <2>2, HeadTailProperties DEF OutReceive, TypeOK
    <3>b. can_notify \in BOOLEAN /\ <<>> \in Seq(Values)
      BY EmptySeq DEF can_notify, TypeOK, Links
    <3>1. /\ Begun(Head(out_queue), <<>>) \in Drains
          /\ Begun(Head(out_queue), <<>>).packet = <<>>
          /\ Begun(Head(out_queue), <<>>).item = Head(out_queue)
      BY <3>0, <3>b, <1>t, BegunIs DEF Begun, Drains
    <3>2. o \in Drains /\ o.packet = <<>>
      BY <3>1, <3>b DEF Drains
    <3>3. out' = [o EXCEPT !.pc = "adding", !.item = Head(out_queue)]
      BY <2>2, <3>1 DEF OutReceive, Drains
    <3>4. Proceed(o)
      BY <2>2, <3>3 DEF OutReceive, Proceed
    <3> HIDE DEF o
    <3> QED
      BY <2>1, <3>2, <3>4
  <2>3. CASE OutPasses
    <3>1. /\ ~out.ble \/ out.item.except = "ble"
          /\ out.item.except = "ble" => past'.behind
      BY <2>3, <1>t DEF OutPasses, Pasts
    <3>2. out.packet # <<>> => out.ble
      BY DEF DrainForBle
    <3> QED
      <4>1. out.packet # <<>> => past'.behind
        BY <3>1, <3>2
      <4>2. Proceed(out)
        BY <2>3 DEF OutPasses
      <4>3. out \in Drains
        BY <1>t
      <4> QED
        BY <2>1, <4>1, <4>2, <4>3
  <2>4. CASE OutAdds
    <3>1. CASE Len(out.packet) < out.capacity
      <4> DEFINE o == [out EXCEPT !.packet = Append(@, out.item.value)]
      <4>1. Append(out.packet, out.item.value) \in Seq(Values)
        BY <1>t DEF Drains, Messages
      <4>2. /\ o \in Drains /\ o.packet = Append(out.packet, out.item.value)
            /\ out.packet \in Seq(Values)
        BY <1>t, <4>1 DEF Drains
      <4>3. Proceed(o) /\ out.pc = "adding"
        BY <2>4, <3>1 DEF OutAdds
      <4>4. o.packet[Len(o.packet)] = out.item.value
        BY <4>2
      <4> HIDE DEF o
      <4> QED
        BY <2>1, <2>n, <4>2, <4>3, <4>4
    <3>2. CASE ~(Len(out.packet) < out.capacity)
      <4>1. out' = [out EXCEPT !.pc = "full"] /\ out_queue' = out_queue
        BY <2>4, <3>2 DEF OutAdds
      <4>2. out'.pc = "full" /\ out'.item = out.item /\ out.pc = "adding"
        BY <1>t, <2>4, <4>1 DEF OutAdds, Drains
      <4> QED
        BY <2>0, <2>n, <4>1, <4>2 DEF NewestIsPreset
    <3> QED
      BY <3>1, <3>2
  <2>5. ASSUME out.pc \in {"full", "last"}, Done
        PROVE  NewestIsPreset'
    <3>1. CASE out' = Idle /\ out_queue' = out_queue
      <4>1. out'.pc = "idle"
        BY <3>1 DEF Idle
      <4> QED
        BY <2>0, <2>n, <3>1, <4>1 DEF NewestIsPreset
    <3>2. ASSUME out.pc = "full", NEW o \in Drains, Proceed(o),
                 o.packet = <<out.item.value>>
          PROVE  NewestIsPreset'
      <4>1. o.packet[Len(o.packet)] = out.item.value
        BY <3>2
      <4> QED
        BY <2>1, <2>n, <3>2, <4>1
    <3> QED
      BY <2>5, <3>1, <3>2, DoneTo
  <2>6. CASE OutRetries
    <3>1. CASE /\ out' = [out EXCEPT !.attempts = @ + 1]
               /\ UNCHANGED <<out_queue, past>>
      <4>1. /\ out'.pc = out.pc /\ out'.packet = out.packet
            /\ out'.item = out.item
        BY <3>1, <1>t DEF Drains
      <4> QED
        BY <2>0, <2>n, <3>1, <4>1 DEF NewestIsPreset
    <3> QED
      BY <2>6, <3>1, <2>5 DEF OutRetries
  <2>7. CASE OutNotifies \/ OutGivesUp
    BY <2>5, <2>7 DEF OutNotifies, OutGivesUp
  <2> QED
    BY <1>7, <2>2, <2>3, <2>4, <2>6, <2>7 DEF midi_out_task
<1>8. CASE UNCHANGED vars
  BY <1>1, <1>8 DEF vars
<1> QED
  BY <1>2, <1>3, <1>4, <1>5, <1>6, <1>7, <1>8 DEF Next, gatt_svr_chr_access

LEMMA HalvesStep == TypeOK /\ HalvesMeet /\ [Next]_vars => HalvesMeet'
<1> SUFFICES ASSUME TypeOK, HalvesMeet, [Next]_vars, ~past'.lost
             PROVE  HalvesMeet'
  BY DEF HalvesMeet
<1>t. past \in Pasts /\ s_rx_rb \in Seq(Packets)
      /\ parser \in [status : Nat, data : Nat]
  BY DEF TypeOK
<1> DEFINE n == Len(s_rx_rb)
<1>n. n \in Nat /\ DOMAIN s_rx_rb = 1 .. n /\ (n = 0 <=> s_rx_rb = <<>>)
  BY <1>t, EmptySeq
<1>1. ASSUME UNCHANGED <<s_rx_rb, parser>>, link'.conn = link.conn,
             past'.half = past.half, ~past.lost
      PROVE  HalvesMeet'
  BY <1>1 DEF HalvesMeet
<1>2. CASE ble_midi_gap_event \/ ble_midi_console_status
  <2>1. CASE /\ UNCHANGED <<s_rx_rb, parser>> /\ link'.conn = link.conn
             /\ past'.half = past.half /\ past'.lost = past.lost
    BY <1>1, <2>1
  <2>2. CASE /\ SendReset /\ parser' = parser /\ ~(past'.half /\ link'.conn # 0)
             /\ ~past.lost \/ AtRest
    <3>1. CASE RingFull
      <4>1. s_rx_rb' = s_rx_rb
        BY <2>2, <3>1 DEF SendReset
      <4>2. CASE AtRest
        BY <2>2, <4>1, <4>2 DEF AtRest, HalvesMeet
      <4> QED
        BY <2>2, <4>1, <4>2 DEF HalvesMeet
    <3>2. CASE ~RingFull
      <4>1. s_rx_rb' = Append(s_rx_rb, Reset)
        BY <2>2, <3>2 DEF SendReset
      <4>2. /\ DOMAIN s_rx_rb' = 1 .. n + 1
            /\ \A i \in 1 .. n : s_rx_rb'[i] = s_rx_rb[i]
            /\ s_rx_rb'[n + 1].kind = "reset"
        BY <1>t, <4>1 DEF Reset
      <4>3. \A i \in 1 .. n :
              s_rx_rb[i].kind = "last"
                => IF i = 1 THEN parser.data # 0 ELSE s_rx_rb[i - 1].kind = "first"
        <5>1. CASE AtRest
          BY <5>1, <1>n DEF AtRest
        <5>2. CASE ~past.lost
          BY <5>2, <1>n DEF HalvesMeet
        <5> QED
          BY <2>2, <5>1, <5>2
      <4> HIDE DEF n
      <4>4. ASSUME NEW i \in 1 .. n + 1, s_rx_rb'[i].kind = "last"
            PROVE  IF i = 1 THEN parser.data # 0 ELSE s_rx_rb'[i - 1].kind = "first"
        <5>1. i \in 1 .. n /\ (i # 1 => i - 1 \in 1 .. n)
          BY <1>n, <4>2, <4>4
        <5> QED
          BY <4>2, <4>3, <4>4, <5>1
      <4> QED
        BY <2>2, <4>2, <4>4 DEF HalvesMeet
    <3> QED
      BY <3>1, <3>2
  <2> QED
    BY <1>2, <2>1, <2>2, LinkPast
<1>3. ASSUME NEW kind, NEW v, Write(kind, v)
      PROVE  HalvesMeet'
  <2>1. ~past.lost /\ ~RingFull /\ past'.half = (kind = "first")
    BY <1>3, WritePast
  <2>2. /\ s_rx_rb' = Append(s_rx_rb, [kind |-> kind, conn |-> link.conn, value |-> v])
        /\ UNCHANGED <<link, parser>> /\ link.conn # 0
        /\ past.half <=> kind = "last"
    BY <1>3, <2>1 DEF Write
  <2>3. /\ DOMAIN s_rx_rb' = 1 .. n + 1 /\ Len(s_rx_rb') = n + 1
        /\ \A i \in 1 .. n : s_rx_rb'[i] = s_rx_rb[i]
        /\ s_rx_rb'[n + 1].kind = kind
    BY <1>t, <2>2
  <2>4. /\ \A i \in 1 .. n :
             s_rx_rb[i].kind = "last"
               => IF i = 1 THEN parser.data # 0 ELSE s_rx_rb[i - 1].kind = "first"
        /\ kind = "last"
             => IF n = 0 THEN parser.data # 0 ELSE s_rx_rb[n].kind = "first"
    BY <2>1, <2>2, <1>n DEF HalvesMeet
  <2> HIDE DEF n
  <2>5. ASSUME NEW i \in 1 .. n + 1, s_rx_rb'[i].kind = "last"
        PROVE  IF i = 1 THEN parser.data # 0 ELSE s_rx_rb'[i - 1].kind = "first"
    <3>1. CASE i = n + 1
      <4>1. kind = "last" /\ (i = 1 <=> n = 0) /\ (n # 0 => n \in 1 .. n)
        BY <1>n, <2>3, <2>5, <3>1
      <4>2. i # 1 => i - 1 = n /\ s_rx_rb'[n] = s_rx_rb[n]
        BY <1>n, <2>3, <3>1, <4>1
      <4> QED
        BY <2>4, <4>1, <4>2
    <3>2. CASE i # n + 1
      <4>1. i \in 1 .. n /\ (i # 1 => i - 1 \in 1 .. n)
        BY <1>n, <3>2
      <4> QED
        BY <2>3, <2>4, <2>5, <4>1
    <3> QED
      BY <3>1, <3>2
  <2>6. s_rx_rb' # <<>>
    BY <1>n, <2>3
  <2> QED
    BY <2>1, <2>2, <2>3, <2>5, <2>6 DEF HalvesMeet
<1>4. CASE ble_rx_task
  <2> DEFINE p == Head(s_rx_rb)
             joins == Joins(p)
             fits == Len(s_queue) < QUEUE_LENGTH \/ Complete(p) = <<>>
  <2>1. /\ past' = [past EXCEPT !.joined = @ \/ joins, !.lost = @ \/ ~fits]
        /\ s_rx_rb # <<>> /\ s_rx_rb' = Tail(s_rx_rb)
        /\ parser' = Holds(p) /\ link' = link
    BY <1>4 DEF ble_rx_task
  <2> HIDE DEF joins, fits
  <2>2. past'.half = past.half /\ ~past.lost
    BY <1>t, <2>1 DEF Pasts
  <2>3. /\ p = s_rx_rb[1] /\ p \in Packets /\ n \in Nat \ {0}
        /\ Len(s_rx_rb') = n - 1 /\ DOMAIN s_rx_rb' = 1 .. n - 1
        /\ \A i \in 1 .. n - 1 : s_rx_rb'[i] = s_rx_rb[i + 1]
        /\ s_rx_rb' \in Seq(Packets)
    BY <1>t, <2>1, Popped
  <2>4. p.kind = "first" => parser'.data # 0
    BY <2>1, <2>3 DEF Holds, Packets, Reset
  <2>5. /\ \A i \in 1 .. n :
             s_rx_rb[i].kind = "last"
               => IF i = 1 THEN parser.data # 0 ELSE s_rx_rb[i - 1].kind = "first"
        /\ past.half /\ link.conn # 0 => s_rx_rb[n].kind = "first"
    BY <2>1, <2>2, <1>n DEF HalvesMeet
  <2> HIDE DEF n, p
  <2>6. ASSUME NEW i \in 1 .. n - 1, s_rx_rb'[i].kind = "last"
        PROVE  IF i = 1 THEN parser'.data # 0 ELSE s_rx_rb'[i - 1].kind = "first"
    <3> DEFINE k == i + 1
    <3>1. /\ k \in 1 .. n /\ k # 1 /\ s_rx_rb'[i] = s_rx_rb[k] /\ k - 1 = i
      BY <2>3
    <3>2. s_rx_rb[i].kind = "first"
      <4> HIDE DEF k
      <4> QED
        BY <2>5, <2>6, <3>1
    <3>3. CASE i = 1
      BY <2>3, <2>4, <3>2, <3>3
    <3>4. CASE i # 1
      <4>1. i - 1 \in 1 .. n - 1 /\ (i - 1) + 1 = i
        BY <2>3, <3>4
      <4>2. s_rx_rb'[i - 1] = s_rx_rb[i]
        BY <2>3, <4>1
      <4> QED
        BY <3>2, <3>4, <4>2
    <3> QED
      BY <3>3, <3>4
  <2>7. ASSUME past.half, link.conn # 0
        PROVE  IF s_rx_rb' = <<>> THEN parser'.data # 0
                                  ELSE s_rx_rb'[Len(s_rx_rb')].kind = "first"
    <3>1. CASE n = 1
      <4>1. s_rx_rb' = <<>>
        BY <2>3, <3>1, EmptySeq
      <4> QED
        BY <2>3, <2>4, <2>5, <2>7, <3>1, <4>1
    <3>2. CASE n # 1
      <4>1. n - 1 \in 1 .. n - 1 /\ (n - 1) + 1 = n
        BY <2>3, <3>2
      <4>2. s_rx_rb'[n - 1] = s_rx_rb[n] /\ s_rx_rb' # <<>>
        BY <2>3, <4>1
      <4> QED
        BY <2>3, <2>5, <2>7, <4>2
    <3> QED
      BY <3>1, <3>2
  <2> QED
    BY <2>1, <2>2, <2>3, <2>6, <2>7 DEF HalvesMeet
<1>5. CASE voice_alloc_task
  BY <1>1, <1>5, VoiceTaskPast DEF voice_alloc_task, OnlyLost
<1>6. CASE \E v \in Values : EditElsewhere(v)
  BY <1>1, <1>6, EditPast DEF EditElsewhere, OnlyLost
<1>7. CASE midi_out_task
  BY <1>1, <1>7, OutputPast
<1>8. CASE UNCHANGED vars
  BY <1>1, <1>8 DEF vars
<1> QED
  BY <1>2, <1>3, <1>4, <1>5, <1>6, <1>7, <1>8 DEF Next, gatt_svr_chr_access

(* Bytes from the ring: a knob's turn becomes the newest of the surface's  *)
(* own edits, and whatever else is no turn adds none.                      *)
LEMMA ShowsParsed ==
  ASSUME TypeOK, HalvesMeet, ble_rx_task, TurnShown, OwnShown, PresetShown,
         ~past'.lost
  PROVE  TurnShown' /\ OwnShown' /\ PresetShown'
<1> DEFINE p == Head(s_rx_rb)
           n == Len(s_rx_rb)
           m == Len(s_queue)
           c == Complete(p)
           joins == Joins(p)
           fits == Len(s_queue) < QUEUE_LENGTH \/ c = <<>>
<1>1. /\ past' = [past EXCEPT !.joined = @ \/ joins, !.lost = @ \/ ~fits]
      /\ s_rx_rb # <<>> /\ s_rx_rb' = Tail(s_rx_rb)
      /\ s_queue' = (IF fits THEN s_queue \o c ELSE s_queue)
      /\ UNCHANGED <<out_queue, out, g_preset, shown>>
  BY DEF ble_rx_task
<1>2. fits /\ ~past.lost
  <2> HIDE DEF joins, fits
  <2> QED
    BY <1>1 DEF TypeOK, Pasts
<1>3. s_queue' = s_queue \o c
  BY <1>1, <1>2
<1>4. s_rx_rb \in Seq(Packets) /\ s_queue \in Seq(Events)
  BY DEF TypeOK
<1>5. /\ p = s_rx_rb[1] /\ p \in Packets /\ n \in Nat \ {0}
      /\ DOMAIN s_rx_rb = 1 .. n /\ DOMAIN s_rx_rb' = 1 .. n - 1
      /\ \A i \in 1 .. n - 1 : s_rx_rb'[i] = s_rx_rb[i + 1]
  BY <1>1, <1>4, Popped
<1>6. c \in Seq(Events)
  BY <1>5, CompleteEvents
<1>7. /\ m \in Nat /\ Len(c) \in Nat /\ DOMAIN s_queue = 1 .. m
      /\ DOMAIN s_queue' = 1 .. m + Len(c)
      /\ \A i \in 1 .. m : s_queue'[i] = s_queue[i]
      /\ \A i \in 1 .. Len(c) : s_queue'[m + i] = c[i]
  BY <1>3, <1>4, <1>6
<1>8. p.kind = "last" => parser.data # 0
  <2>1. 1 \in DOMAIN s_rx_rb /\ s_rx_rb[1] = p
    BY <1>5
  <2> HIDE DEF p
  <2> QED
    BY <1>2, <2>1 DEF HalvesMeet
<1>9. IsTurn(p) => c = <<Event("edit", p.value, "ble")>>
  BY <1>8 DEF IsTurn, Complete
<1>10. IsTurn(p) => Len(c) = 1 /\ IsOwn(c[1]) /\ c[1].value = p.value
  BY <1>9 DEF IsOwn, Event
<1>11. ~IsTurn(p) => \A i \in 1 .. Len(c) : ~IsOwn(c[i])
  BY DEF IsTurn, Complete, IsOwn, Event
<1> HIDE DEF p, n, m, c
<1>12. TurnShown'
  <2>1. ASSUME NEW i \in 1 .. n - 1, IsTurn(s_rx_rb'[i]),
               \A j \in 1 .. n - 1 : j > i => ~IsTurn(s_rx_rb'[j])
        PROVE  s_rx_rb'[i].value = shown
    <3> DEFINE k == i + 1
    <3>1. k \in 1 .. n /\ s_rx_rb'[i] = s_rx_rb[k]
      BY <1>5
    <3>2. ASSUME NEW j \in 1 .. n, j > k
          PROVE  ~IsTurn(s_rx_rb[j])
      <4>1. j - 1 \in 1 .. n - 1 /\ j - 1 > i /\ (j - 1) + 1 = j
        BY <1>5, <3>2
      <4>2. s_rx_rb'[j - 1] = s_rx_rb[j]
        BY <1>5, <4>1
      <4> QED
        BY <2>1, <4>1, <4>2
    <3> HIDE DEF k
    <3> QED
      BY <1>5, <2>1, <3>1, <3>2 DEF TurnShown
  <2> QED
    BY <1>1, <1>5, <2>1 DEF TurnShown, IsTurn
<1>13. ASSUME TurnInRing, ~TurnInRing'
       PROVE  IsTurn(p) /\ p.value = shown
  <2>1. ASSUME NEW j \in 1 .. n, j > 1
        PROVE  ~IsTurn(s_rx_rb[j])
    <3>1. j - 1 \in 1 .. n - 1 /\ (j - 1) + 1 = j
      BY <1>5, <2>1
    <3>2. s_rx_rb'[j - 1] = s_rx_rb[j]
      BY <1>5, <3>1
    <3> QED
      BY <1>5, <1>13, <3>1, <3>2 DEF TurnInRing, IsTurn
  <2>2. IsTurn(s_rx_rb[1]) /\ 1 \in 1 .. n
    BY <1>5, <1>13, <2>1 DEF TurnInRing
  <2> QED
    BY <1>5, <2>1, <2>2 DEF TurnShown
<1>14. IsTurn(p) => TurnInRing
  BY <1>5 DEF TurnInRing
<1>15. ToBeTold' <=> ToBeTold
  BY <1>1 DEF ToBeTold
<1>16. CASE IsTurn(p)
  <2>1. /\ m + 1 \in DOMAIN s_queue' /\ s_queue'[m + 1] = c[1]
        /\ DOMAIN s_queue' = 1 .. m + 1
    <3>1. Len(c) = 1 /\ 1 \in 1 .. Len(c)
      BY <1>10, <1>16
    <3>2. s_queue'[m + 1] = c[1]
      BY <1>7, <3>1
    <3> QED
      BY <1>7, <3>1, <3>2
  <2>2. OwnInQueue'
    BY <1>10, <1>16, <2>1 DEF OwnInQueue, IsOwn
  <2>3. ASSUME ~TurnInRing', NEW i \in 1 .. m + 1, IsOwn(s_queue'[i]),
               \A j \in 1 .. m + 1 : j > i => ~IsOwn(s_queue'[j])
        PROVE  s_queue'[i].value = shown
    <3>1. i = m + 1
      BY <1>7, <1>10, <1>16, <2>1, <2>3
    <3> QED
      BY <1>10, <1>13, <1>14, <1>16, <2>1, <2>3, <3>1
  <2>4. OwnShown'
    BY <1>1, <2>1, <2>3 DEF OwnShown, IsOwn
  <2> QED
    BY <1>12, <2>2, <2>4 DEF PresetShown
<1>17. CASE ~IsTurn(p)
  <2>1. ~TurnInRing' => ~TurnInRing
    BY <1>13, <1>17
  <2>2. ASSUME NEW i \in 1 .. m + Len(c), IsOwn(s_queue'[i])
        PROVE  i \in 1 .. m /\ s_queue'[i] = s_queue[i]
    <3>1. CASE i > m
      <4>1. i - m \in 1 .. Len(c) /\ m + (i - m) = i
        BY <1>7, <3>1
      <4>2. s_queue'[i] = c[i - m]
        BY <1>7, <4>1
      <4> QED
        BY <1>11, <1>17, <2>2, <4>1, <4>2
    <3> QED
      BY <1>7, <3>1
  <2>3. ASSUME ~TurnInRing, NEW i \in 1 .. m + Len(c), IsOwn(s_queue'[i]),
               \A j \in 1 .. m + Len(c) : j > i => ~IsOwn(s_queue'[j])
        PROVE  s_queue'[i].value = shown
    <3>1. i \in 1 .. m /\ s_queue'[i] = s_queue[i]
      BY <2>2, <2>3
    <3>2. \A j \in 1 .. m : j > i => ~IsOwn(s_queue[j])
      BY <1>7, <2>3
    <3> QED
      BY <1>7, <2>3, <3>1, <3>2 DEF OwnShown
  <2>4. OwnShown'
    BY <1>1, <1>7, <2>1, <2>3, ZenonT(30) DEF OwnShown, IsOwn
  <2>5. OwnInQueue => OwnInQueue'
    BY <1>7 DEF OwnInQueue, IsOwn
  <2>6. PresetShown'
    BY <1>1, <1>15, <2>1, <2>5 DEF PresetShown
  <2> QED
    BY <1>12, <2>4, <2>6
<1> QED
  BY <1>16, <1>17

(* The voice task takes an event: the surface's newest edit becomes the    *)
(* preset, and whatever else is done is to be told.                        *)
LEMMA ShowsHandled ==
  ASSUME TypeOK, voice_alloc_task, TurnShown, OwnShown, PresetShown, ~past'.lost
  PROVE  TurnShown' /\ OwnShown' /\ PresetShown'
<1> DEFINE e == Head(s_queue)
           m == Len(s_queue)
<1>1. /\ s_queue # <<>> /\ s_queue' = Tail(s_queue)
      /\ UNCHANGED <<s_rx_rb, shown, out>>
  BY DEF voice_alloc_task
<1>2. s_queue \in Seq(Events)
  BY DEF TypeOK
<1>3. /\ e = s_queue[1] /\ e \in Events /\ m \in Nat \ {0}
      /\ DOMAIN s_queue = 1 .. m /\ DOMAIN s_queue' = 1 .. m - 1
      /\ \A i \in 1 .. m - 1 : s_queue'[i] = s_queue[i + 1]
  BY <1>1, <1>2, Popped
<1>4. PICK v, x : /\ midi_out_send(v, x)
                  /\ \/ x # "ble"
                     \/ IsOwn(e) /\ g_preset' = e.value
  <2>1. e.source \in {"ble", "other"} /\ e.kind \in {"edit", "sync"}
    BY <1>3 DEF Events
  <2>2. CASE e.kind = "sync"
    BY <2>2, VoiceTaskPast
  <2>3. CASE e.kind # "sync"
    <3>1. midi_out_send(e.value, e.source) /\ g_preset' = e.value
      BY <2>3, VoiceTaskPast
    <3>2. e.source # "ble" \/ IsOwn(e)
      BY <2>1, <2>3 DEF IsOwn
    <3> QED
      BY <3>1, <3>2
  <2> QED
    BY <2>2, <2>3
<1> HIDE DEF e, m
<1>5. /\ Len(out_queue) \in Nat /\ DOMAIN out_queue' = 1 .. Len(out_queue) + 1
      /\ out_queue'[Len(out_queue) + 1].except = x
  <2>1. past' = [past EXCEPT !.lost = @ \/ ~(Len(out_queue) < OUT_LENGTH)]
    BY <1>4 DEF midi_out_send
  <2>2. Len(out_queue) < OUT_LENGTH
    BY <2>1, LostOrNot DEF TypeOK
  <2>3. out_queue' = Append(out_queue, [value |-> v, except |-> x])
    BY <1>4, <2>2 DEF midi_out_send
  <2> QED
    BY <2>3 DEF TypeOK
<1>6. x # "ble" => ToBeTold'
  BY <1>5 DEF ToBeTold
<1>7. TurnShown' /\ (TurnInRing' <=> TurnInRing)
  BY <1>1 DEF TurnShown, TurnInRing, IsTurn
<1>8. OwnShown'
  <2>1. ASSUME ~TurnInRing, NEW i \in 1 .. m - 1, IsOwn(s_queue'[i]),
               \A j \in 1 .. m - 1 : j > i => ~IsOwn(s_queue'[j])
        PROVE  s_queue'[i].value = shown
    <3> DEFINE k == i + 1
    <3>1. k \in 1 .. m /\ s_queue'[i] = s_queue[k]
      BY <1>3
    <3>2. ASSUME NEW j \in 1 .. m, j > k
          PROVE  ~IsOwn(s_queue[j])
      <4>1. j - 1 \in 1 .. m - 1 /\ j - 1 > i /\ (j - 1) + 1 = j
        BY <1>3, <3>2
      <4>2. s_queue'[j - 1] = s_queue[j]
        BY <1>3, <4>1
      <4> QED
        BY <2>1, <4>1, <4>2
    <3> HIDE DEF k
    <3> QED
      BY <1>3, <2>1, <3>1, <3>2 DEF OwnShown
  <2> QED
    BY <1>1, <1>3, <1>7, <2>1 DEF OwnShown, IsOwn
<1>9. PresetShown'
  <2> SUFFICES ASSUME ~TurnInRing', ~OwnInQueue', ~ToBeTold'
               PROVE  shown' = g_preset'
    BY DEF PresetShown
  <2>1. IsOwn(e) /\ g_preset' = e.value
    BY <1>4, <1>6
  <2>2. ASSUME NEW j \in 1 .. m, j > 1
        PROVE  ~IsOwn(s_queue[j])
    <3>1. j - 1 \in 1 .. m - 1 /\ (j - 1) + 1 = j
      BY <1>3, <2>2
    <3>2. s_queue'[j - 1] = s_queue[j]
      BY <1>3, <3>1
    <3> QED
      BY <1>3, <3>1, <3>2 DEF OwnInQueue, IsOwn
  <2>3. 1 \in 1 .. m
    BY <1>3
  <2>4. s_queue[1].value = shown
    BY <1>3, <1>7, <2>1, <2>2, <2>3 DEF OwnShown
  <2> QED
    BY <1>1, <1>3, <2>1, <2>4
<1> QED
  BY <1>7, <1>8, <1>9

(* A notification shows the packet's last message: the preset's, unless    *)
(* more is to be told or an own edit was on its way.                       *)
LEMMA ShowsNotified ==
  ASSUME TypeOK, NewestIsPreset, OutNotifies, ~past'.lost, ~past'.crossed
  PROVE  TurnShown' /\ OwnShown' /\ PresetShown'
<1> DEFINE cut == Len(out.packet) > link.mtu
<1>t. past \in Pasts /\ out \in Drains /\ link \in Links
  BY DEF TypeOK
<1>1. /\ past' = [past EXCEPT !.told = TRUE, !.behind = FALSE,
                     !.crossed = EditUnderWay, !.lost = @ \/ cut]
      /\ UNCHANGED <<link, s_rx_rb, s_queue, g_preset>>
      /\ out.pc \in {"full", "last"} /\ Done
  BY DEF OutNotifies, Rest
<1>2. ~cut /\ ~EditUnderWay /\ ~past.lost
  <2> HIDE DEF cut
  <2> QED
    BY <1>1, <1>t DEF Pasts
<1>3. shown' = out.packet[Len(out.packet)]
  <2>1. Len(out.packet) \in Nat /\ link.mtu \in Nat
    BY <1>t, SurfacesAssumption DEF Drains, Links
  <2>2. Len(out.packet) < link.mtu \/ Len(out.packet) = link.mtu
    BY <1>2, <2>1
  <2> QED
    BY <2>1, <2>2 DEF OutNotifies
<1>4. ~TurnInRing /\ ~OwnInQueue
  BY <1>2 DEF EditUnderWay, TurnInRing, OwnInQueue, IsTurn, IsOwn
<1>5. ~TurnInRing' /\ ~OwnInQueue'
  BY <1>1, <1>4 DEF TurnInRing, OwnInQueue, IsTurn, IsOwn
<1>6. TurnShown' /\ OwnShown'
  BY <1>5 DEF TurnShown, OwnShown, TurnInRing, OwnInQueue
<1>7. ASSUME ~ToBeTold'
      PROVE  shown' = g_preset'
  <2>1. CASE /\ out.pc = "full"
             /\ \E o \in Drains : /\ Proceed(o) /\ o.ble = out.ble
                                /\ o.packet = <<out.item.value>>
    <3>1. PICK o \in Drains : Proceed(o) /\ o.packet = <<out.item.value>>
      BY <2>1
    <3>2. o.packet # <<>>
      BY <3>1
    <3> QED
      BY <1>7, <3>1, <3>2, ProceedToBeTold
  <2>2. CASE out.pc = "last" /\ out' = Idle /\ out_queue' = out_queue
    <3>1. \A i \in DOMAIN out_queue : out_queue[i].except # "ble"
      BY <1>2 DEF EditUnderWay
    <3>2. \A i \in DOMAIN out_queue : out_queue[i].except = "ble"
      BY <1>7, <2>2 DEF ToBeTold
    <3>3. out_queue = <<>>
      BY <3>1, <3>2, EmptySeq DEF TypeOK
    <3>4. ~past.behind
      BY <1>2 DEF EditUnderWay
    <3> QED
      BY <1>1, <1>2, <1>3, <2>2, <3>3, <3>4 DEF NewestIsPreset
  <2> QED
    BY <1>1, <2>1, <2>2, DoneTo
<1> QED
  BY <1>6, <1>7 DEF PresetShown

LEMMA ShowsStep ==
  /\ TypeOK /\ DrainForBle /\ NewestIsPreset /\ HalvesMeet /\ ShowsNewest
  /\ [Next]_vars
  => ShowsNewest'
<1> SUFFICES ASSUME TypeOK, DrainForBle, NewestIsPreset, HalvesMeet, ShowsNewest,
                    [Next]_vars, can_notify', past'.told, ~past'.lost, ~past'.crossed
             PROVE  TurnShown' /\ OwnShown' /\ PresetShown'
  BY DEF ShowsNewest
<1>t. past \in Pasts
  BY DEF TypeOK
<1>0. can_notify /\ past.told /\ ~past.lost /\ ~past.crossed
        => TurnShown /\ OwnShown /\ PresetShown
  BY DEF ShowsNewest
<1>1. ASSUME UNCHANGED <<s_rx_rb, s_queue, out_queue, out, g_preset, shown>>,
             can_notify, past.told, ~past.lost, ~past.crossed
      PROVE  TurnShown' /\ OwnShown' /\ PresetShown'
  BY <1>0, <1>1
  DEF TurnShown, OwnShown, PresetShown, TurnInRing, OwnInQueue, ToBeTold, IsTurn, IsOwn
<1>2. CASE ble_midi_gap_event \/ ble_midi_console_status
  BY <1>1, <1>2, LinkPast, LinkKeepsSurface
<1>3. ASSUME NEW kind, NEW v, Write(kind, v)
      PROVE  TurnShown' /\ OwnShown' /\ PresetShown'
  <2> DEFINE n == Len(s_rx_rb)
  <2>1. ~past.lost /\ ~RingFull /\ past.told /\ ~past.crossed
    BY <1>3, WritePast
  <2>2. /\ s_rx_rb' = Append(s_rx_rb, [kind |-> kind, conn |-> link.conn, value |-> v])
        /\ UNCHANGED <<link, s_queue, out_queue, out, g_preset>>
        /\ shown' = IF kind \in {"whole", "last"} THEN v ELSE shown
    BY <1>3, <2>1 DEF Write
  <2>3. TurnShown /\ OwnShown /\ PresetShown
    BY <1>0, <2>1, <2>2 DEF can_notify
  <2>4. /\ n \in Nat /\ DOMAIN s_rx_rb = 1 .. n /\ DOMAIN s_rx_rb' = 1 .. n + 1
        /\ \A i \in 1 .. n : s_rx_rb'[i] = s_rx_rb[i]
        /\ s_rx_rb'[n + 1].kind = kind /\ s_rx_rb'[n + 1].value = v
    BY <2>2 DEF TypeOK
  <2> HIDE DEF n
  <2>5. CASE kind \in {"whole", "last"}
    <3>1. IsTurn(s_rx_rb'[n + 1]) /\ n + 1 \in DOMAIN s_rx_rb' /\ shown' = v
      BY <2>2, <2>4, <2>5 DEF IsTurn
    <3>2. TurnInRing'
      BY <3>1 DEF TurnInRing, IsTurn
    <3>3. TurnShown'
      <4>1. ASSUME NEW i \in 1 .. n + 1, IsTurn(s_rx_rb'[i]),
                   \A j \in 1 .. n + 1 : j > i => ~IsTurn(s_rx_rb'[j])
            PROVE  s_rx_rb'[i].value = v
        <5>1. i = n + 1
          BY <2>4, <3>1, <4>1
        <5> QED
          BY <2>4, <5>1
      <4> QED
        BY <2>4, <3>1, <4>1 DEF TurnShown, IsTurn
    <3> QED
      BY <3>2, <3>3 DEF OwnShown, PresetShown
  <2>6. CASE kind \notin {"whole", "last"}
    <3>1. ~IsTurn(s_rx_rb'[n + 1]) /\ shown' = shown
      BY <2>2, <2>4, <2>6 DEF IsTurn
    <3>2. TurnShown'
      <4>1. ASSUME NEW i \in 1 .. n + 1, IsTurn(s_rx_rb'[i]),
                   \A j \in 1 .. n + 1 : j > i => ~IsTurn(s_rx_rb'[j])
            PROVE  s_rx_rb'[i].value = shown
        <5>1. i \in 1 .. n /\ s_rx_rb'[i] = s_rx_rb[i]
          <6>1. i # n + 1
            BY <3>1, <4>1
          <6> QED
            BY <2>4, <6>1
        <5>2. \A j \in 1 .. n : j > i => ~IsTurn(s_rx_rb[j])
          BY <2>4, <4>1
        <5> QED
          BY <2>3, <2>4, <4>1, <5>1, <5>2 DEF TurnShown
      <4> QED
        BY <2>4, <3>1, <4>1 DEF TurnShown, IsTurn
    <3>3. ~TurnInRing' => ~TurnInRing
      BY <2>4 DEF TurnInRing, IsTurn
    <3>4. OwnShown' /\ PresetShown'
      BY <2>2, <2>3, <3>1, <3>3
      DEF OwnShown, PresetShown, OwnInQueue, ToBeTold, IsOwn
    <3> QED
      BY <3>2, <3>4
  <2> QED
    BY <2>5, <2>6
<1>4. CASE ble_rx_task
  <2> DEFINE joins == Joins(Head(s_rx_rb))
             fits == Len(s_queue) < QUEUE_LENGTH \/ Complete(Head(s_rx_rb)) = <<>>
  <2>1. /\ past' = [past EXCEPT !.joined = @ \/ joins, !.lost = @ \/ ~fits]
        /\ link' = link
    BY <1>4 DEF ble_rx_task
  <2> HIDE DEF joins, fits
  <2>2. past.told /\ ~past.lost /\ ~past.crossed
    BY <1>t, <2>1 DEF Pasts
  <2>3. TurnShown /\ OwnShown /\ PresetShown
    BY <1>0, <2>1, <2>2 DEF can_notify
  <2> QED
    BY <1>4, <2>3, ShowsParsed
<1>5. CASE voice_alloc_task
  <2>1. OnlyLost /\ link' = link
    BY <1>5, VoiceTaskPast DEF voice_alloc_task
  <2>2. TurnShown /\ OwnShown /\ PresetShown
    BY <1>0, <2>1 DEF OnlyLost, can_notify
  <2> QED
    BY <1>5, <2>2, ShowsHandled
<1>6. ASSUME NEW w \in Values, EditElsewhere(w)
      PROVE  TurnShown' /\ OwnShown' /\ PresetShown'
  <2> DEFINE m == Len(s_queue)
  <2>1. OnlyLost /\ Len(s_queue) < QUEUE_LENGTH
    BY <1>6, EditPast
  <2>2. /\ s_queue' = Append(s_queue, Event("edit", w, "other"))
        /\ UNCHANGED <<link, s_rx_rb, out_queue, out, g_preset, shown>>
    BY <1>6, <2>1 DEF EditElsewhere
  <2>3. TurnShown /\ OwnShown /\ PresetShown
    BY <1>0, <2>1, <2>2 DEF OnlyLost, can_notify
  <2>4. /\ m \in Nat /\ DOMAIN s_queue = 1 .. m /\ DOMAIN s_queue' = 1 .. m + 1
        /\ \A i \in 1 .. m : s_queue'[i] = s_queue[i]
        /\ s_queue'[m + 1] = Event("edit", w, "other")
    BY <2>2 DEF TypeOK
  <2>5. ~IsOwn(s_queue'[m + 1])
    BY <2>4 DEF IsOwn, Event
  <2> HIDE DEF m
  <2>6. TurnShown' /\ (TurnInRing' <=> TurnInRing) /\ (ToBeTold' <=> ToBeTold)
    BY <2>2, <2>3 DEF TurnShown, TurnInRing, ToBeTold, IsTurn
  <2>7. ASSUME ~TurnInRing, NEW i \in 1 .. m + 1, IsOwn(s_queue'[i]),
               \A j \in 1 .. m + 1 : j > i => ~IsOwn(s_queue'[j])
        PROVE  s_queue'[i].value = shown
    <3>1. i \in 1 .. m /\ s_queue'[i] = s_queue[i]
      <4>1. i # m + 1
        BY <2>5, <2>7
      <4> QED
        BY <2>4, <4>1
    <3>2. \A j \in 1 .. m : j > i => ~IsOwn(s_queue[j])
      BY <2>4, <2>7
    <3> QED
      BY <2>3, <2>4, <2>7, <3>1, <3>2 DEF OwnShown
  <2>8. OwnShown'
    BY <2>2, <2>4, <2>6, <2>7 DEF OwnShown, IsOwn
  <2>9. OwnInQueue => OwnInQueue'
    BY <2>4 DEF OwnInQueue, IsOwn
  <2>10. PresetShown'
    BY <2>2, <2>3, <2>6, <2>9 DEF PresetShown
  <2> QED
    BY <2>6, <2>8, <2>10
<1>7. CASE midi_out_task
  <2>1. CASE OutNotifies
    BY <2>1, ShowsNotified
  <2>2. CASE ~OutNotifies
    <3>1. /\ UNCHANGED <<link, s_rx_rb, parser, s_queue, g_preset, shown>>
          /\ past.told /\ ~past.crossed /\ ~past.lost
      BY <1>7, <2>2, OutputPast
    <3>2. can_notify /\ TurnShown /\ OwnShown /\ PresetShown
      BY <1>0, <3>1 DEF can_notify
    <3>3. out.pc = "adding" => out.ble
      BY <3>1, <3>2 DEF DrainForBle
    <3>4. ToBeTold => ToBeTold'
      BY <1>7, <2>2, <3>3, StaysToBeTold
    <3> QED
      BY <3>1, <3>2, <3>4
      DEF TurnShown, OwnShown, PresetShown, TurnInRing, OwnInQueue, IsTurn, IsOwn
  <2> QED
    BY <2>1, <2>2
<1>8. CASE UNCHANGED vars
  BY <1>1, <1>8 DEF vars, can_notify
<1> QED
  BY <1>2, <1>3, <1>4, <1>5, <1>6, <1>7, <1>8 DEF Next, gatt_svr_chr_access

(* A surface follows the instrument: with all at rest, a surface that has  *)
(* been told shows what the preset holds, whoever changed it, unless       *)
(* something was dropped or an edit of its own was under way when it was   *)
(* last told.                                                              *)
THEOREM ASurfaceFollows == Spec => []SurfaceFollows
<1>1. Init => DrainForBle /\ NewestIsPreset /\ HalvesMeet /\ ShowsNewest
  BY DEF Init, Idle, Nothing, NoBytes, DrainForBle, NewestIsPreset, HalvesMeet,
         ShowsNewest
<1>2. TypeOK /\ DrainForBle /\ [Next]_vars => DrainForBle'
  BY DrainStep
<1>3. TypeOK /\ DrainForBle /\ NewestIsPreset /\ [Next]_vars => NewestIsPreset'
  BY NewestStep
<1>4. TypeOK /\ HalvesMeet /\ [Next]_vars => HalvesMeet'
  BY HalvesStep
<1>5. /\ TypeOK /\ DrainForBle /\ NewestIsPreset /\ HalvesMeet /\ ShowsNewest
      /\ [Next]_vars
      => ShowsNewest'
  BY ShowsStep
<1>6. DrainForBle /\ ShowsNewest => SurfaceFollows
  <2>1. AtRest => ~TurnInRing /\ ~OwnInQueue /\ ~ToBeTold
    BY DEF AtRest, TurnInRing, OwnInQueue, ToBeTold
  <2> QED
    BY <2>1 DEF SurfaceFollows, ShowsNewest, PresetShown
<1> QED
  BY <1>1, <1>2, <1>3, <1>4, <1>5, <1>6, TypeCorrect, PTL DEF Spec

=============================================================================
