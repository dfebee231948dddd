------------------------------ MODULE Surfaces ------------------------------
(***************************************************************************)
(* A control surface over Bluetooth, both ways: app/main/ble_midi.c (the   *)
(* link, the ingress ring, the ble_rx task), midi_sysex.cpp (the state     *)
(* request), voice_alloc.cpp (a CC that edits the preset, the preset as    *)
(* CCs) and midi_out.cpp (the output queue and task).                      *)
(*                                                                         *)
(* The preset is one CC's value.  Connections are numbered as they come; 0 *)
(* is none.  A central's packet is a whole CC, the first or the last bytes *)
(* of one, or a SysEx frame, and carries its connection's number.  What the*)
(* surface shows is the central's own.                                     *)
(***************************************************************************)
EXTENDS Integers, Sequences

CONSTANTS Values,          \* positions of the knob
          Startup,         \* the preset at power-on, one of them
          RING_SIZE,       \* the ingress ring, in packets (4096 bytes)
          QUEUE_LENGTH,    \* the voice task's queue (64)
          OUT_LENGTH,      \* midi_out's queue (128)
          SMALL_MTU, MTU,  \* messages a packet holds, before and after the
                           \* MTU is negotiated
          RETRY_LIMIT,     \* attempts at a notification (40)
          MaxLinks,        \* bound: connections in a behaviour
          MaxSends         \* bound: packets, and edits made elsewhere

ASSUME SurfacesAssumption ==
  /\ Startup \in Values /\ 0 \notin Values
  /\ {RING_SIZE, QUEUE_LENGTH, OUT_LENGTH, MaxLinks, MaxSends} \subseteq Nat
  /\ {SMALL_MTU, MTU, RETRY_LIMIT} \subseteq Nat \ {0} /\ SMALL_MTU <= MTU

VARIABLES
  link,         \* s_conn_handle, s_mtu, s_notify_subscribed, s_advertising
  s_rx_rb,      \* the ingress ring
  parser,       \* the connections whose status and data bytes it holds
  s_queue,      \* the voice task's events
  g_preset,
  out_queue,    \* messages for the outputs
  out,          \* the midi_out task
  shown,        \* what the surface shows, 0 before it shows anything
  sends,        \* history: packets sent and edits made, for the bound
  past          \* history: what has come about, see Nothing

vars == <<link, s_rx_rb, parser, s_queue, g_preset, out_queue, out, shown,
          sends, past>>

Idle == [pc |-> "idle", item |-> [value |-> Startup, except |-> "other"],
         ble |-> FALSE, capacity |-> SMALL_MTU, packet |-> <<>>, attempts |-> 0]

Nothing ==
  [links |-> 0,            \* connections so far
   asked |-> FALSE,        \* this surface has subscribed and asked for the state
   told |-> FALSE,         \* and has been sent a message
   lost |-> FALSE,         \* something was dropped, and not all at rest before
                            \* this connection
   crossed |-> FALSE,      \* its last message met an edit of its own on the way
   behind |-> FALSE,       \* its edit was handled after the packet's last message
   missed |-> FALSE,       \* a message was passed over though it listened
   reset_lost |-> FALSE,   \* the ring did not take a reset
   joined |-> FALSE,       \* a message was made of two connections' bytes
   half |-> FALSE]         \* the central is in the middle of a CC

NoBytes == [status |-> 0, data |-> 0]
Reset == [kind |-> "reset", conn |-> 0, value |-> 0]
Event(kind, v, source) == [kind |-> kind, value |-> v, source |-> source]

Init ==
  /\ link = [conn |-> 0, mtu |-> SMALL_MTU, subscribed |-> FALSE,
             advertising |-> TRUE]
  /\ s_rx_rb = <<>> /\ parser = NoBytes
  /\ s_queue = <<>> /\ g_preset = Startup
  /\ out_queue = <<>> /\ out = Idle
  /\ shown = 0 /\ sends = 0 /\ past = Nothing

AtRest == s_rx_rb = <<>> /\ s_queue = <<>> /\ out_queue = <<>> /\ out.pc = "idle"

-----------------------------------------------------------------------------
(***************************************************************************)
(* The NimBLE host task: GAP events and the central's writes.  A reset of  *)
(* the parser rides the ring; a packet that finds it full is dropped.      *)
(***************************************************************************)
RingFull == Len(s_rx_rb) = RING_SIZE

SendReset == s_rx_rb' = IF RingFull THEN s_rx_rb ELSE Append(s_rx_rb, Reset)

RestOfTheSynth == <<parser, s_queue, g_preset, out_queue, out, sends>>

(* Starting to advertise may fail.                                         *)
GapConnect ==
  /\ link.advertising /\ past.links < MaxLinks
  /\ SendReset
  /\ link' = [conn |-> past.links + 1, mtu |-> SMALL_MTU, subscribed |-> FALSE,
              advertising |-> FALSE]
  /\ shown' = 0
  /\ past' = [past EXCEPT !.links = @ + 1,
                !.asked = FALSE, !.told = FALSE, !.half = FALSE, !.crossed = FALSE,
                !.missed = FALSE, !.lost = @ /\ ~AtRest,
                !.reset_lost = @ \/ RingFull]
  /\ UNCHANGED RestOfTheSynth

GapConnectFails ==
  /\ link.advertising /\ link.conn = 0
  /\ SendReset
  /\ \E starts \in BOOLEAN : link' = [link EXCEPT !.advertising = starts]
  /\ past' = [past EXCEPT !.reset_lost = @ \/ RingFull]
  /\ UNCHANGED <<RestOfTheSynth, shown>>

GapDisconnect ==
  /\ link.conn # 0
  /\ SendReset
  /\ \E starts \in BOOLEAN :
       link' = [link EXCEPT !.conn = 0, !.subscribed = FALSE,
                            !.advertising = starts]
  /\ past' = [past EXCEPT !.reset_lost = @ \/ RingFull]
  /\ UNCHANGED <<RestOfTheSynth, shown>>

GapMtu ==
  /\ link.conn # 0 /\ link' = [link EXCEPT !.mtu = MTU]
  /\ UNCHANGED <<s_rx_rb, RestOfTheSynth, shown, past>>

GapSubscribe ==           \* the central's CCCD write
  /\ link.conn # 0
  /\ link' = [link EXCEPT !.subscribed = ~@]
  /\ past' = [past EXCEPT !.asked = FALSE, !.told = FALSE]
  /\ UNCHANGED <<s_rx_rb, RestOfTheSynth, shown>>

ble_midi_console_status ==
  /\ ~link.advertising /\ link.conn = 0
  /\ link' = [link EXCEPT !.advertising = TRUE]
  /\ UNCHANGED <<s_rx_rb, RestOfTheSynth, shown, past>>

(* The surface writes a packet; with a CC, whole or its end, its knob has  *)
(* turned.  It keeps to MIDI: after a CC's beginning comes its end.        *)
Write(kind, v) ==
  /\ link.conn # 0 /\ sends < MaxSends
  /\ past.half <=> kind = "last"
  /\ sends' = sends + 1
  /\ s_rx_rb' = IF RingFull THEN s_rx_rb
                ELSE Append(s_rx_rb, [kind |-> kind, conn |-> link.conn, value |-> v])
  /\ shown' = IF kind \in {"whole", "last"} THEN v ELSE shown
  /\ past' = [past EXCEPT !.lost = @ \/ RingFull, !.half = (kind = "first"),
                          !.asked = @ \/ (kind = "request" /\ link.subscribed)]
  /\ UNCHANGED <<link, parser, s_queue, g_preset, out_queue, out>>

gatt_svr_chr_access ==
  \/ Write("first", 0) \/ Write("request", 0) \/ Write("foreign", 0)
  \/ \E v \in Values : Write("whole", v) \/ Write("last", v)

ble_midi_gap_event ==
  \/ GapConnect \/ GapConnectFails \/ GapDisconnect \/ GapMtu \/ GapSubscribe

-----------------------------------------------------------------------------
(* The parser under a packet's bytes: what is complete, and what it holds. *)
Complete(p) ==
  CASE p.kind = "whole" -> <<Event("edit", p.value, "ble")>>
    [] p.kind = "last" /\ parser.data # 0 -> <<Event("edit", p.value, "ble")>>
    [] p.kind = "request" -> <<Event("sync", Startup, "ble")>>
    [] OTHER -> <<>>

(* Mutant: a reset is taken for an empty packet.                           *)
Holds_no_reset(p) ==
  CASE p.kind = "reset" -> parser
    [] p.kind \in {"request", "foreign"} -> NoBytes
    [] p.kind = "whole" -> [status |-> p.conn, data |-> 0]
    [] p.kind = "first" -> [status |-> p.conn, data |-> p.conn]
    [] OTHER -> [parser EXCEPT !.data = 0]

Holds(p) ==
  CASE p.kind \in {"reset", "request", "foreign"} -> NoBytes
    [] p.kind = "whole" -> [status |-> p.conn, data |-> 0]
    [] p.kind = "first" -> [status |-> p.conn, data |-> p.conn]
    [] p.kind = "last" /\ (parser.status = 0 \/ parser.data # 0) ->
         [parser EXCEPT !.data = 0]
    [] OTHER -> [parser EXCEPT !.data = p.conn]

Joins(p) == /\ p.kind = "last" /\ parser.data # 0
            /\ {parser.status, parser.data} # {p.conn}

ble_rx_task ==
  /\ s_rx_rb # <<>>
  /\ LET p == Head(s_rx_rb)
         fits == Len(s_queue) < QUEUE_LENGTH \/ Complete(p) = <<>> IN
       /\ parser' = Holds(p)
       /\ s_queue' = IF fits THEN s_queue \o Complete(p) ELSE s_queue
       /\ past' = [past EXCEPT !.joined = @ \/ Joins(p), !.lost = @ \/ ~fits]
  /\ s_rx_rb' = Tail(s_rx_rb)
  /\ UNCHANGED <<link, g_preset, out_queue, out, shown, sends>>

(* An edit from the panel, or a preset loaded by the console or a Program  *)
(* Change: to Bluetooth they are the same.                                 *)
EditElsewhere(v) ==
  /\ sends < MaxSends /\ sends' = sends + 1
  /\ LET fits == Len(s_queue) < QUEUE_LENGTH IN
       /\ s_queue' = IF fits THEN Append(s_queue, Event("edit", v, "other")) ELSE s_queue
       /\ past' = [past EXCEPT !.lost = @ \/ ~fits]
  /\ UNCHANGED <<link, s_rx_rb, parser, g_preset, out_queue, out, shown>>

(***************************************************************************)
(* The voice task: an edit goes on to every output but the one it came     *)
(* through; a load, and a request, send the whole preset to them all.      *)
(***************************************************************************)
midi_out_send(value, except) ==
  LET fits == Len(out_queue) < OUT_LENGTH IN
  /\ out_queue' = IF fits THEN Append(out_queue, [value |-> value, except |-> except])
                          ELSE out_queue
  /\ past' = [past EXCEPT !.lost = @ \/ ~fits]

(* Mutant: the asker's own output is excepted from the answer.             *)
voice_alloc_task_except_asker ==
  /\ s_queue # <<>>
  /\ LET e == Head(s_queue)
         preset == IF e.kind = "sync" THEN g_preset ELSE e.value IN
       g_preset' = preset /\ midi_out_send(preset, e.source)
  /\ s_queue' = Tail(s_queue)
  /\ UNCHANGED <<link, s_rx_rb, parser, out, shown, sends>>

sync_surfaces(except) == midi_out_send(g_preset, except) /\ UNCHANGED g_preset

handle_midi(e) == g_preset' = e.value /\ midi_out_send(e.value, e.source)

voice_alloc_task ==
  /\ s_queue # <<>>
  /\ LET e == Head(s_queue) IN
       IF e.kind = "sync" THEN sync_surfaces("other") ELSE handle_midi(e)
  /\ s_queue' = Tail(s_queue)
  /\ UNCHANGED <<link, s_rx_rb, parser, out, shown, sends>>

-----------------------------------------------------------------------------
(***************************************************************************)
(* The midi_out task.  A drain begins with the first message received; the *)
(* subscription is looked at then, the MTU at each packet's beginning.     *)
(***************************************************************************)
can_notify == link.conn # 0 /\ link.subscribed

Rest == <<link, s_rx_rb, parser, s_queue, g_preset, sends>>

Begun(item, packet) ==
  [out EXCEPT !.item = item, !.packet = packet, !.capacity = link.mtu,
              !.attempts = 0]

OutReceive ==
  /\ out.pc = "idle" /\ out_queue # <<>>
  /\ out' = [Begun(Head(out_queue), <<>>) EXCEPT !.pc = "adding",
                                                 !.ble = can_notify]
  /\ out_queue' = Tail(out_queue)
  /\ UNCHANGED <<Rest, shown, past>>

(* After a message: the next, or the packet's end.                         *)
Proceed(o) ==
  \/ /\ out_queue # <<>>
     /\ out_queue' = Tail(out_queue)
     /\ out' = [o EXCEPT !.pc = "adding", !.item = Head(out_queue)]
  \/ /\ out_queue = <<>>
     /\ out' = [o EXCEPT !.pc = IF o.packet = <<>> THEN "idle" ELSE "last"]
     /\ UNCHANGED out_queue

OutPasses ==
  /\ out.pc = "adding"
  /\ ~out.ble \/ out.item.except = "ble"
  /\ Proceed(out)
  /\ past' = [past EXCEPT !.missed = @ \/ (~out.ble /\ can_notify),
                          !.behind = @ \/ out.item.except = "ble"]
  /\ UNCHANGED <<Rest, shown>>

OutAdds ==
  /\ out.pc = "adding" /\ out.ble /\ out.item.except # "ble"
  /\ IF Len(out.packet) < out.capacity
     THEN Proceed([out EXCEPT !.packet = Append(@, out.item.value)])
     ELSE out' = [out EXCEPT !.pc = "full"] /\ UNCHANGED out_queue
  /\ past' = [past EXCEPT !.behind = @ /\ Len(out.packet) = out.capacity]
  /\ UNCHANGED <<Rest, shown>>

(* The packet is sent, or given up; then the message that did not fit      *)
(* begins another.                                                         *)
(* Mutant: the message that did not fit is forgotten.                      *)
Done_without_it == IF out.pc = "last"
                   THEN out' = Idle /\ UNCHANGED out_queue
                   ELSE Proceed(Begun(out.item, <<>>))

Done == IF out.pc = "last"
        THEN out' = Idle /\ UNCHANGED out_queue
        ELSE Proceed(Begun(out.item, <<out.item.value>>))

(* An edit the surface has made, which the packet's messages do not know of.*)
EditUnderWay ==
  \/ past.behind \/ \E i \in DOMAIN out_queue : out_queue[i].except = "ble"
  \/ \E i \in DOMAIN s_rx_rb : s_rx_rb[i].kind \in {"whole", "last"}
  \/ \E i \in DOMAIN s_queue : s_queue[i].source = "ble" /\ s_queue[i].kind = "edit"

OutNotifies ==
  /\ out.pc \in {"full", "last"} /\ can_notify
  /\ shown' = out.packet[IF Len(out.packet) < link.mtu THEN Len(out.packet)
                                                       ELSE link.mtu]
  /\ past' = [past EXCEPT !.told = TRUE, !.behind = FALSE, !.crossed = EditUnderWay,
                          !.lost = @ \/ Len(out.packet) > link.mtu]
  /\ Done
  /\ UNCHANGED Rest

(* No buffer for it now: again, a bounded number of times.                 *)
OutRetries ==
  /\ out.pc \in {"full", "last"} /\ can_notify
  /\ IF out.attempts + 1 < RETRY_LIMIT
     THEN out' = [out EXCEPT !.attempts = @ + 1] /\ UNCHANGED <<out_queue, past>>
     ELSE Done /\ past' = [past EXCEPT !.lost = TRUE, !.behind = FALSE]
  /\ UNCHANGED <<Rest, shown>>

(* The central has left.                                                   *)
OutGivesUp ==
  /\ out.pc \in {"full", "last"} /\ ~can_notify
  /\ Done
  /\ past' = [past EXCEPT !.lost = TRUE, !.behind = FALSE]
  /\ UNCHANGED <<Rest, shown>>

midi_out_task ==
  \/ OutReceive \/ OutPasses \/ OutAdds \/ OutNotifies \/ OutRetries \/ OutGivesUp

Next ==
  \/ ble_midi_gap_event \/ ble_midi_console_status \/ gatt_svr_chr_access
  \/ ble_rx_task \/ voice_alloc_task \/ midi_out_task
  \/ \E v \in Values : EditElsewhere(v)

Spec == Init /\ [][Next]_vars

-----------------------------------------------------------------------------
(* No message is made of bytes of two connections: "running status dies    *)
(* with the connection" (ble_midi.c:34-35), whatever the ring holds when   *)
(* the link goes, unless the ring was too full for a reset.                *)
NoMessageOfTwoLinks == past.joined => past.reset_lost

(* A surface follows the instrument (docs/midi_schema.md:137-149): once    *)
(* told, it shows what the preset holds whenever all is at rest, whoever   *)
(* changed it; unless something was dropped, or its own edit was on the way*)
(* when it was last told.                                                  *)
SurfaceFollows ==
  AtRest /\ can_notify /\ past.told /\ ~past.lost /\ ~past.crossed
    => shown = g_preset

(* A subscribed surface that asks for the state is sent it, unless dropped *)
(* or passed over (midi_schema.md:184).                                    *)
AskersAreTold ==
  AtRest /\ can_notify /\ past.asked /\ ~past.lost /\ ~past.missed => past.told
=============================================================================
