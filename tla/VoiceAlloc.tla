----------------------------- MODULE VoiceAlloc -----------------------------
(***************************************************************************)
(* app/main/voice_alloc.cpp, the notes: which voice a keystroke takes, and *)
(* which voice a key-up, the sustain pedal or a panic releases.            *)
(*                                                                         *)
(* Every action is one event handled by the voice task, which handles one  *)
(* at a time.  A voice is an instance of a keystroke: every note-on takes  *)
(* a fresh voice.  `keys` is not the program's: it counts, for each note,  *)
(* the note-ons that the surfaces have not yet matched with a note-off, on *)
(* all channels together, as the allocator is omni.                        *)
(*                                                                         *)
(* Time is the count of releases: esp_timer runs in microseconds and a     *)
(* release takes longer (it takes the link's lock), so no two are equal.   *)
(***************************************************************************)
EXTENDS Integers, FiniteSets

CONSTANTS VOICE_COUNT,   \* voices of the synth (32)
          Notes,         \* the notes the surfaces play
          NoNote,        \* what the note of a voice never struck holds
          MaxStrikes     \* bound: note-ons in a behaviour

ASSUME VoiceCountAssumption == VOICE_COUNT \in Nat /\ VOICE_COUNT >= 1
ASSUME StrikesAssumption == MaxStrikes \in Nat

VARIABLES s_voices,         \* the voice table
          s_alloc_seq,      \* strikes so far
          s_sustain_pedal,  \* CC 64 is down
          clock,            \* releases so far
          keys              \* note-ons without their note-off, by note

vars == <<s_voices, s_alloc_seq, s_sustain_pedal, clock, keys>>

Voices == 0 .. VOICE_COUNT - 1

Voice == [state : {"IDLE", "HELD", "RELEASING"}, note : Notes \union {NoNote},
          alloc_seq : Nat, released_at : Nat, sustained : BOOLEAN]

Fresh == [state |-> "IDLE", note |-> NoNote, alloc_seq |-> 0,
          released_at |-> 0, sustained |-> FALSE]

Struck(struck_note, seq) ==
  [state |-> "HELD", note |-> struck_note, alloc_seq |-> seq,
   released_at |-> 0, sustained |-> FALSE]

In(state) == {v \in Voices : s_voices[v].state = state}

(* The voices whose key a note-off of this note may be: held by the key.   *)
HeldByKey(note) == {v \in In("HELD") : s_voices[v].note = note
                                       /\ ~s_voices[v].sustained}

(* Mutant: the newest strike of the note, not the oldest, gets the key-up. *)
StruckFirst_newest(v, S) ==
  v \in S /\ \A w \in S : s_voices[v].alloc_seq >= s_voices[w].alloc_seq

(* v is the voice of S struck first, or the one released first: of equals, *)
(* the first in the table.                                                 *)
StruckFirst(v, S) ==
  /\ v \in S
  /\ \A w \in S : \/ s_voices[v].alloc_seq < s_voices[w].alloc_seq
                  \/ s_voices[v].alloc_seq = s_voices[w].alloc_seq /\ v <= w

ReleasedFirst(v, S) ==
  /\ v \in S
  /\ \A w \in S : \/ s_voices[v].released_at < s_voices[w].released_at
                  \/ s_voices[v].released_at = s_voices[w].released_at /\ v <= w

(* Mutant: round robin by age alone, silent voices not preferred.          *)
Pick_by_age(v) == StruckFirst(v, Voices)

(* v is the voice a note-on takes.                                         *)
Pick(v) ==
  \/ StruckFirst(v, In("IDLE"))
  \/ In("IDLE") = {} /\ ReleasedFirst(v, In("RELEASING"))
  \/ In("IDLE") = {} /\ In("RELEASING") = {} /\ StruckFirst(v, Voices)

(* release_voice for each voice of S, in the order of the table.           *)
Release(S) ==
  /\ s_voices' = [v \in Voices |->
       IF v \in S
       THEN [s_voices[v] EXCEPT
               !.state = "RELEASING", !.sustained = FALSE,
               !.released_at = clock + Cardinality({w \in S : w <= v})]
       ELSE s_voices[v]]
  /\ clock' = clock + Cardinality(S)

Init ==
  /\ s_voices = [v \in Voices |-> Fresh]
  /\ s_alloc_seq = 0
  /\ s_sustain_pedal = FALSE
  /\ clock = 0
  /\ keys = [n \in Notes |-> 0]

-----------------------------------------------------------------------------
note_on(note) ==
  /\ s_alloc_seq < MaxStrikes
  /\ keys' = [keys EXCEPT ![note] = @ + 1]
  /\ s_alloc_seq' = s_alloc_seq + 1
  /\ \E v \in Voices :
       /\ Pick(v)
       /\ s_voices' = [s_voices EXCEPT ![v] = Struck(note, s_alloc_seq + 1)]
  /\ UNCHANGED <<s_sustain_pedal, clock>>

(* Mutant: with the pedal down a key-up is ignored.                        *)
note_off_lost_under_pedal(note) ==
  /\ keys[note] > 0
  /\ keys' = [keys EXCEPT ![note] = @ - 1]
  /\ \/ /\ HeldByKey(note) = {} \/ s_sustain_pedal
        /\ UNCHANGED <<s_voices, clock>>
     \/ \E v \in Voices : /\ ~s_sustain_pedal
                          /\ StruckFirst(v, HeldByKey(note))
                          /\ Release({v})
  /\ UNCHANGED <<s_alloc_seq, s_sustain_pedal>>

(* One note-off for each note-on, which MIDI guarantees of a surface.      *)
note_off(note) ==
  /\ keys[note] > 0
  /\ keys' = [keys EXCEPT ![note] = @ - 1]
  /\ \/ /\ HeldByKey(note) = {}              \* the steal or a panic ate it
        /\ UNCHANGED <<s_voices, clock>>
     \/ \E v \in Voices :
          /\ StruckFirst(v, HeldByKey(note))
          /\ IF s_sustain_pedal
             THEN /\ s_voices' = [s_voices EXCEPT ![v].sustained = TRUE]
                  /\ UNCHANGED clock
             ELSE Release({v})
  /\ UNCHANGED <<s_alloc_seq, s_sustain_pedal>>

(* Mutant: the pedal's release forgets the voices it held.                 *)
sustain_pedal_update_forgets(down) ==
  /\ s_sustain_pedal' = down
  /\ UNCHANGED <<s_voices, clock, s_alloc_seq, keys>>

(* CC 64.                                                                  *)
sustain_pedal_update(down) ==
  /\ s_sustain_pedal' = down
  /\ IF down THEN UNCHANGED <<s_voices, clock>>
     ELSE Release({v \in In("HELD") : s_voices[v].sustained})
  /\ UNCHANGED <<s_alloc_seq, keys>>

(* CC 123.                                                                 *)
all_notes_off ==
  /\ s_sustain_pedal' = FALSE
  /\ Release(In("HELD"))
  /\ UNCHANGED <<s_alloc_seq, keys>>

(* CC 120.                                                                 *)
all_sound_off ==
  /\ s_sustain_pedal' = FALSE
  /\ s_voices' = [v \in Voices |->
       [s_voices[v] EXCEPT !.state = "IDLE", !.sustained =
          @ /\ s_voices[v].state = "IDLE"]]
  /\ UNCHANGED <<s_alloc_seq, clock, keys>>

Next ==
  \/ \E note \in Notes : note_on(note) \/ note_off(note)
  \/ \E down \in BOOLEAN : sustain_pedal_update(down)
  \/ all_notes_off
  \/ all_sound_off

Spec == Init /\ [][Next]_vars

-----------------------------------------------------------------------------
TypeOK ==
  /\ s_voices \in [Voices -> Voice]
  /\ s_alloc_seq \in Nat
  /\ s_sustain_pedal \in BOOLEAN
  /\ clock \in Nat
  /\ keys \in [Notes -> Nat]

(***************************************************************************)
(* No voice is held by a key that is up: the voices a note's keys hold     *)
(* never outnumber the keys of that note still down, whatever was stolen,  *)
(* sustained or silenced in between (note_off's pairing, :311-335).        *)
(***************************************************************************)
KeysHoldVoices ==
  \A n \in Notes : Cardinality(HeldByKey(n)) <= keys[n]

(***************************************************************************)
(* The pedal holds voices only while it is down, and only held ones: so    *)
(* with the keys up and the pedal up nothing is held (:337-349, :407-427). *)
(***************************************************************************)
PedalHoldsVoices ==
  \A v \in Voices : s_voices[v].sustained
                      => s_sustain_pedal /\ s_voices[v].state = "HELD"

NoStuckNote ==
  (\A n \in Notes : keys[n] = 0) /\ ~s_sustain_pedal => In("HELD") = {}

(***************************************************************************)
(* A held voice changes hands only when every voice is held: a strike      *)
(* never takes a held voice while a silent or a releasing one is left      *)
(* (note_on, :241-269).                                                    *)
(***************************************************************************)
StealsOnlyWhenAllHeld ==
  [][\A v \in In("HELD") :
       s_voices'[v].alloc_seq # s_voices[v].alloc_seq
         => In("HELD") = Voices]_vars
=============================================================================
