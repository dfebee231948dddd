-------------------------- MODULE VoiceAllocProofs --------------------------
(***************************************************************************)
(* For every number of voices, every set of notes and any number of        *)
(* strikes: no note is left sounding once its keys and the pedal are up,   *)
(* and a strike takes a held voice only when all are held.  Behind them,   *)
(* the theorem about the MIDI ports.                                       *)
(*                                                                         *)
(* NoStuckNote is not inductive.  It follows from two facts that are: the  *)
(* voices held by a note's keys never outnumber the keys (KeysHoldVoices), *)
(* and the pedal holds voices only while it is down (PedalHoldsVoices).    *)
(*                                                                         *)
(* The refinement of Keystrokes reads the table in the order of its ages.  *)
(* A set whose ages are apart has one order (OrderExists, OrderUnique); a  *)
(* strike, a release and a key-up each change it in one way.               *)
(***************************************************************************)
EXTENDS MCVoiceAlloc, MidiIn, SequenceTheorems, FiniteSetTheorems, WellFoundedInduction, TLAPS

LEMMA VoicesFinite == IsFiniteSet(Voices)
BY FS_Interval, VoiceCountAssumption DEF Voices

LEMMA SubsetFinite ==
  ASSUME NEW S \in SUBSET Voices
  PROVE  IsFiniteSet(S) /\ Cardinality(S) \in Nat
BY VoicesFinite, FS_Subset, FS_CardinalityType

(* What releasing a set of voices does, without its arithmetic of time.    *)
LEMMA ReleaseEffect ==
  ASSUME TypeOK, NEW S \in SUBSET Voices, Release(S)
  PROVE  /\ s_voices' \in [Voices -> Voice]
         /\ clock' \in Nat
         /\ \A v \in Voices :
              /\ v \in S => /\ s_voices'[v].state = "RELEASING"
                            /\ ~s_voices'[v].sustained
              /\ v \notin S => s_voices'[v] = s_voices[v]
              /\ s_voices'[v].alloc_seq = s_voices[v].alloc_seq
<1>1. \A v \in Voices : clock + Cardinality({w \in S : w <= v}) \in Nat
  <2> TAKE v \in Voices
  <2>1. {w \in S : w <= v} \in SUBSET Voices
    OBVIOUS
  <2> QED
    BY <2>1, SubsetFinite DEF TypeOK
<1>2. clock + Cardinality(S) \in Nat
  BY SubsetFinite DEF TypeOK
<1> QED
  BY <1>1, <1>2, ZenonT(40) DEF Release, TypeOK, Voice

(* What a strike does to the table.                                        *)
LEMMA StrikeEffect ==
  ASSUME TypeOK, NEW note \in Notes, note_on(note)
  PROVE  \E v \in Voices :
           /\ Pick(v)
           /\ s_voices' \in [Voices -> Voice]
           /\ s_voices'[v].state = "HELD" /\ s_voices'[v].note = note
           /\ ~s_voices'[v].sustained
           /\ s_voices'[v].alloc_seq = s_alloc_seq + 1
           /\ \A w \in Voices \ {v} : s_voices'[w] = s_voices[w]
<1>1. PICK v \in Voices :
        Pick(v) /\ s_voices' = [s_voices EXCEPT ![v] = Struck(note, s_alloc_seq + 1)]
  BY DEF note_on
<1>2. Struck(note, s_alloc_seq + 1) \in Voice
  BY DEF Struck, Voice, TypeOK
<1> QED
  BY <1>1, <1>2 DEF TypeOK, Struck

(* What a note-off does: nothing, or one of the note's voices lets go.     *)
LEMMA OffEffect ==
  ASSUME TypeOK, NEW note \in Notes, note_off(note)
  PROVE  \/ HeldByKey(note) = {} /\ UNCHANGED <<s_voices, clock>>
         \/ \E v \in HeldByKey(note) :
              /\ s_voices' \in [Voices -> Voice]
              /\ clock' \in Nat
              /\ \A w \in Voices \ {v} : s_voices'[w] = s_voices[w]
              /\ s_voices'[v].alloc_seq = s_voices[v].alloc_seq
              /\ \/ s_sustain_pedal /\ s_voices'[v].state = "HELD"
                                    /\ s_voices'[v].sustained
                 \/ s_voices'[v].state = "RELEASING"
                      /\ ~s_voices'[v].sustained
<1>1. CASE HeldByKey(note) = {} /\ UNCHANGED <<s_voices, clock>>
  BY <1>1
<1>2. ASSUME NEW v \in Voices, StruckFirst(v, HeldByKey(note)),
             s_sustain_pedal,
             s_voices' = [s_voices EXCEPT ![v].sustained = TRUE],
             UNCHANGED clock
      PROVE  \E u \in HeldByKey(note) :
              /\ s_voices' \in [Voices -> Voice]
              /\ clock' \in Nat
              /\ \A w \in Voices \ {u} : s_voices'[w] = s_voices[w]
              /\ s_voices'[u].alloc_seq = s_voices[u].alloc_seq
              /\ s_voices'[u].state = "HELD" /\ s_voices'[u].sustained
  <2>1. v \in HeldByKey(note) /\ s_voices[v].state = "HELD"
    BY <1>2 DEF StruckFirst, HeldByKey, In
  <2>2. [s_voices[v] EXCEPT !.sustained = TRUE] \in Voice
    BY <1>2 DEF TypeOK, Voice
  <2>3. s_voices' \in [Voices -> Voice]
    BY <1>2, <2>2 DEF TypeOK
  <2>4. s_voices'[v] = [s_voices[v] EXCEPT !.sustained = TRUE]
    BY <1>2 DEF TypeOK
  <2>5. \A w \in Voices \ {v} : s_voices'[w] = s_voices[w]
    BY <1>2 DEF TypeOK
  <2>6. /\ s_voices'[v].alloc_seq = s_voices[v].alloc_seq
        /\ s_voices'[v].state = "HELD" /\ s_voices'[v].sustained
    BY <2>1, <2>4 DEF TypeOK, Voice
  <2> QED
    BY <1>2, <2>1, <2>3, <2>5, <2>6 DEF TypeOK
<1>3. ASSUME NEW v \in Voices, StruckFirst(v, HeldByKey(note)), Release({v})
      PROVE  \E u \in HeldByKey(note) :
              /\ s_voices' \in [Voices -> Voice]
              /\ clock' \in Nat
              /\ \A w \in Voices \ {u} : s_voices'[w] = s_voices[w]
              /\ s_voices'[u].alloc_seq = s_voices[u].alloc_seq
              /\ s_voices'[u].state = "RELEASING" /\ ~s_voices'[u].sustained
  <2>1. v \in HeldByKey(note)
    BY <1>3 DEF StruckFirst
  <2>2. {v} \in SUBSET Voices
    OBVIOUS
  <2> QED
    BY <1>3, <2>1, <2>2, ReleaseEffect
<1> QED
  BY <1>1, <1>2, <1>3 DEF note_off

(* What a panic or the pedal coming up does.                               *)
LEMMA Silenced ==
  ASSUME TypeOK, all_sound_off
  PROVE  /\ s_voices' \in [Voices -> Voice]
         /\ \A v \in Voices :
              /\ s_voices'[v].state = "IDLE"
              /\ s_voices'[v].sustained => s_voices[v].sustained
                                           /\ s_voices[v].state = "IDLE"
              /\ s_voices'[v].alloc_seq = s_voices[v].alloc_seq
BY DEF TypeOK, Voice, all_sound_off

-----------------------------------------------------------------------------
LEMMA InitTypes == Init => TypeOK
<1> SUFFICES ASSUME Init PROVE TypeOK
  OBVIOUS
<1>1. Fresh \in Voice
  BY DEF Fresh, Voice
<1>2. s_voices \in [Voices -> Voice]
  BY <1>1 DEF Init
<1>3. keys \in [Notes -> Nat]
  BY DEF Init
<1> QED
  BY <1>2, <1>3 DEF Init, TypeOK

(***************************************************************************)
(* Type correctness of the voice table (voice_alloc.cpp:77-91).            *)
(***************************************************************************)
THEOREM TypeCorrect == Spec => []TypeOK
<1>1. Init => TypeOK
  BY InitTypes
<1>2. TypeOK /\ [Next]_vars => TypeOK'
  <2> SUFFICES ASSUME TypeOK, [Next]_vars PROVE TypeOK'
    OBVIOUS
  <2>1. ASSUME NEW note \in Notes, note_on(note) PROVE TypeOK'
    <3>1. s_voices' \in [Voices -> Voice]
      BY <2>1, StrikeEffect
    <3> QED
      BY <2>1, <3>1 DEF TypeOK, note_on
  <2>2. ASSUME NEW note \in Notes, note_off(note) PROVE TypeOK'
    <3>1. s_voices' \in [Voices -> Voice] /\ clock' \in Nat
      BY <2>2, OffEffect DEF TypeOK
    <3>2. keys' \in [Notes -> Nat]
      BY <2>2 DEF TypeOK, note_off
    <3> QED
      BY <2>2, <3>1, <3>2 DEF TypeOK, note_off
  <2>3. ASSUME NEW down \in BOOLEAN, sustain_pedal_update(down) PROVE TypeOK'
    <3>1. {v \in In("HELD") : s_voices[v].sustained} \in SUBSET Voices
      BY DEF In
    <3>2. s_voices' \in [Voices -> Voice] /\ clock' \in Nat
      BY <2>3, <3>1, ReleaseEffect DEF TypeOK, sustain_pedal_update
    <3> QED
      BY <2>3, <3>2 DEF TypeOK, sustain_pedal_update
  <2>4. CASE all_notes_off
    <3>1. In("HELD") \in SUBSET Voices
      BY DEF In
    <3> QED
      BY <2>4, <3>1, ReleaseEffect DEF TypeOK, all_notes_off
  <2>5. CASE all_sound_off
    BY <2>5, Silenced DEF TypeOK, all_sound_off
  <2>6. CASE UNCHANGED vars
    BY <2>6 DEF vars, TypeOK
  <2> QED
    BY <2>1, <2>2, <2>3, <2>4, <2>5, <2>6 DEF Next
<1> QED
  BY <1>1, <1>2, PTL DEF Spec

-----------------------------------------------------------------------------
LEMMA PedalStep ==
  ASSUME TypeOK, PedalHoldsVoices, [Next]_vars
  PROVE  PedalHoldsVoices'
<1> USE DEF PedalHoldsVoices
<1>1. ASSUME NEW note \in Notes, note_on(note) PROVE PedalHoldsVoices'
  BY <1>1, StrikeEffect, ZenonT(40) DEF note_on
<1>2. ASSUME NEW note \in Notes, note_off(note) PROVE PedalHoldsVoices'
  BY <1>2, OffEffect DEF note_off
<1>3. ASSUME NEW down \in BOOLEAN, sustain_pedal_update(down)
      PROVE  PedalHoldsVoices'
  <2>1. CASE down
    BY <1>3, <2>1 DEF sustain_pedal_update
  <2>2. CASE ~down
    <3>1. {v \in In("HELD") : s_voices[v].sustained} \in SUBSET Voices
      BY DEF In
    <3>2. \A v \in Voices : ~s_voices'[v].sustained
      BY <1>3, <2>2, <3>1, ReleaseEffect DEF sustain_pedal_update, In
    <3> QED
      BY <3>2
  <2> QED
    BY <2>1, <2>2
<1>4. CASE all_notes_off
  <2>1. In("HELD") \in SUBSET Voices
    BY DEF In
  <2>2. \A v \in Voices : ~s_voices'[v].sustained
    BY <1>4, <2>1, ReleaseEffect DEF all_notes_off, In
  <2> QED
    BY <2>2
<1>5. CASE all_sound_off
  BY <1>5, Silenced
<1>6. CASE UNCHANGED vars
  BY <1>6 DEF vars
<1> QED
  BY <1>1, <1>2, <1>3, <1>4, <1>5, <1>6 DEF Next

(***************************************************************************)
(* The pedal holds voices only while it is down (voice_alloc.cpp:337-349). *)
(***************************************************************************)
THEOREM PedalHolds == Spec => []PedalHoldsVoices
<1>1. Init => PedalHoldsVoices
  BY DEF Init, PedalHoldsVoices, Fresh
<1>2. TypeOK /\ PedalHoldsVoices /\ [Next]_vars => PedalHoldsVoices'
  BY PedalStep
<1> QED
  BY <1>1, <1>2, TypeCorrect, PTL DEF Spec

-----------------------------------------------------------------------------
(* A set of held voices that does not grow keeps its place under the keys. *)
LEMMA HeldShrinks ==
  ASSUME TypeOK, KeysHoldVoices, NEW note \in Notes,
         HeldByKey(note)' \subseteq HeldByKey(note)
  PROVE  Cardinality(HeldByKey(note)') <= keys[note]
<1>1. HeldByKey(note) \in SUBSET Voices
  BY DEF HeldByKey, In
<1>2. Cardinality(HeldByKey(note)') <= Cardinality(HeldByKey(note))
  BY <1>1, SubsetFinite, FS_Subset
<1>3. HeldByKey(note)' \in SUBSET Voices
  BY <1>1
<1> QED
  BY <1>1, <1>2, <1>3, SubsetFinite DEF KeysHoldVoices, TypeOK

LEMMA KeysStep ==
  ASSUME TypeOK, KeysHoldVoices, [Next]_vars
  PROVE  KeysHoldVoices'
<1> SUFFICES ASSUME NEW n \in Notes
             PROVE  Cardinality(HeldByKey(n)') <= keys'[n]
  BY DEF KeysHoldVoices
<1>1. ASSUME NEW note \in Notes, note_on(note)
      PROVE  Cardinality(HeldByKey(n)') <= keys'[n]
  <2>1. PICK v \in Voices :
          /\ s_voices'[v].state = "HELD" /\ s_voices'[v].note = note
          /\ \A w \in Voices \ {v} : s_voices'[w] = s_voices[w]
    BY <1>1, StrikeEffect
  <2>2. CASE n # note
    <3>1. HeldByKey(n)' \subseteq HeldByKey(n)
      BY <2>1, <2>2 DEF HeldByKey, In
    <3> QED
      BY <1>1, <2>2, <3>1, HeldShrinks DEF note_on, TypeOK
  <2>3. CASE n = note
    <3>1. HeldByKey(n)' \subseteq HeldByKey(n) \union {v}
      BY <2>1 DEF HeldByKey, In
    <3>2. HeldByKey(n) \in SUBSET Voices
      BY DEF HeldByKey, In
    <3>3. /\ IsFiniteSet(HeldByKey(n) \union {v})
          /\ Cardinality(HeldByKey(n) \union {v}) <= Cardinality(HeldByKey(n)) + 1
      <4>1. IsFiniteSet(HeldByKey(n)) /\ Cardinality(HeldByKey(n)) \in Nat
        BY <3>2, SubsetFinite
      <4>2. /\ IsFiniteSet(HeldByKey(n) \union {v})
            /\ \/ Cardinality(HeldByKey(n) \union {v}) = Cardinality(HeldByKey(n))
               \/ Cardinality(HeldByKey(n) \union {v}) = Cardinality(HeldByKey(n)) + 1
        BY <4>1, FS_AddElement, Zenon
      <4> QED
        BY <4>1, <4>2
    <3>4. Cardinality(HeldByKey(n)') <= Cardinality(HeldByKey(n) \union {v})
      BY <3>1, <3>3, FS_Subset
    <3>5. /\ Cardinality(HeldByKey(n)') \in Nat
          /\ Cardinality(HeldByKey(n) \union {v}) \in Nat
          /\ Cardinality(HeldByKey(n)) \in Nat
      <4>1. /\ HeldByKey(n) \union {v} \in SUBSET Voices
            /\ HeldByKey(n)' \in SUBSET Voices
        BY <3>1, <3>2
      <4> QED
        BY <3>2, <4>1, SubsetFinite
    <3>6. keys'[n] = keys[n] + 1 /\ keys[n] \in Nat
      BY <1>1, <2>3 DEF note_on, TypeOK
    <3> QED
      BY <3>3, <3>4, <3>5, <3>6 DEF KeysHoldVoices
  <2> QED
    BY <2>2, <2>3
<1>2. ASSUME NEW note \in Notes, note_off(note)
      PROVE  Cardinality(HeldByKey(n)') <= keys'[n]
  <2>1. keys' = [keys EXCEPT ![note] = @ - 1] /\ keys[note] > 0
    BY <1>2 DEF note_off
  <2>2. CASE n # note
    <3>1. HeldByKey(n)' \subseteq HeldByKey(n)
      BY <1>2, <2>2, OffEffect DEF HeldByKey, In
    <3> QED
      BY <2>1, <2>2, <3>1, HeldShrinks DEF TypeOK
  <2>3. CASE n = note /\ HeldByKey(note) = {}
    <3>1. HeldByKey(n)' = {}
      BY <1>2, <2>3, OffEffect DEF HeldByKey, In
    <3> QED
      BY <2>1, <2>3, <3>1, FS_EmptySet DEF TypeOK
  <2>4. CASE n = note /\ HeldByKey(note) # {}
    <3>1. PICK v \in HeldByKey(n) :
            HeldByKey(n)' \subseteq HeldByKey(n) \ {v}
      BY <1>2, <2>4, OffEffect DEF HeldByKey, In
    <3>2. HeldByKey(n) \in SUBSET Voices
      BY DEF HeldByKey, In
    <3>3. /\ IsFiniteSet(HeldByKey(n) \ {v})
          /\ Cardinality(HeldByKey(n) \ {v}) = Cardinality(HeldByKey(n)) - 1
      BY <3>1, <3>2, SubsetFinite, FS_RemoveElement
    <3>4. Cardinality(HeldByKey(n)') <= Cardinality(HeldByKey(n) \ {v})
      BY <3>1, <3>3, FS_Subset
    <3>5. Cardinality(HeldByKey(n)') \in Nat /\ Cardinality(HeldByKey(n)) \in Nat
      BY <3>1, <3>2, SubsetFinite
    <3>6. keys'[n] = keys[n] - 1 /\ keys[n] \in Nat
      BY <2>1, <2>4 DEF TypeOK
    <3> QED
      BY <3>3, <3>4, <3>5, <3>6 DEF KeysHoldVoices
  <2> QED
    BY <2>2, <2>3, <2>4
<1>3. ASSUME NEW down \in BOOLEAN, sustain_pedal_update(down)
      PROVE  Cardinality(HeldByKey(n)') <= keys'[n]
  <2>1. {v \in In("HELD") : s_voices[v].sustained} \in SUBSET Voices
    BY DEF In
  <2>2. HeldByKey(n)' \subseteq HeldByKey(n)
    BY <1>3, <2>1, ReleaseEffect DEF sustain_pedal_update, HeldByKey, In
  <2> QED
    BY <1>3, <2>2, HeldShrinks DEF sustain_pedal_update
<1>4. CASE all_notes_off
  <2>1. In("HELD") \in SUBSET Voices
    BY DEF In
  <2>2. HeldByKey(n)' \subseteq HeldByKey(n)
    BY <1>4, <2>1, ReleaseEffect DEF all_notes_off, HeldByKey, In
  <2> QED
    BY <1>4, <2>2, HeldShrinks DEF all_notes_off
<1>5. CASE all_sound_off
  <2>1. HeldByKey(n)' \subseteq HeldByKey(n)
    BY <1>5, Silenced DEF HeldByKey, In
  <2> QED
    BY <1>5, <2>1, HeldShrinks DEF all_sound_off
<1>6. CASE UNCHANGED vars
  <2>1. HeldByKey(n)' \subseteq HeldByKey(n)
    BY <1>6 DEF vars, HeldByKey, In
  <2> QED
    BY <1>6, <2>1, HeldShrinks DEF vars
<1> QED
  BY <1>1, <1>2, <1>3, <1>4, <1>5, <1>6 DEF Next

(***************************************************************************)
(* For every polyphony: the voices a note's keys hold never outnumber the  *)
(* keys down (voice_alloc.cpp:241-335).                                    *)
(***************************************************************************)
THEOREM KeysHold == Spec => []KeysHoldVoices
<1>1. Init => KeysHoldVoices
  <2> SUFFICES ASSUME Init, NEW n \in Notes
               PROVE  Cardinality(HeldByKey(n)) <= keys[n]
    BY DEF KeysHoldVoices
  <2>1. HeldByKey(n) = {}
    BY DEF Init, HeldByKey, In, Fresh
  <2> QED
    BY <2>1, FS_EmptySet DEF Init
<1>2. TypeOK /\ KeysHoldVoices /\ [Next]_vars => KeysHoldVoices'
  BY KeysStep
<1> QED
  BY <1>1, <1>2, TypeCorrect, PTL DEF Spec

(***************************************************************************)
(* Every held voice carries one of the notes.                              *)
(***************************************************************************)
HeldCarryNotes == \A v \in In("HELD") : s_voices[v].note \in Notes

LEMMA CarryStep ==
  ASSUME TypeOK, HeldCarryNotes, [Next]_vars
  PROVE  HeldCarryNotes'
<1> USE DEF HeldCarryNotes, In
<1>1. ASSUME NEW note \in Notes, note_on(note) PROVE HeldCarryNotes'
  BY <1>1, StrikeEffect
<1>2. ASSUME NEW note \in Notes, note_off(note) PROVE HeldCarryNotes'
  <2>1. ASSUME NEW v \in Voices, s_voices'[v].state = "HELD"
        PROVE  s_voices'[v].note \in Notes
    BY <1>2, <2>1, ZenonT(60) DEF note_off, Release, HeldByKey, StruckFirst, TypeOK, Voice
  <2> QED
    BY <2>1
<1>3. ASSUME NEW down \in BOOLEAN, sustain_pedal_update(down)
      PROVE  HeldCarryNotes'
  <2>1. {v \in In("HELD") : s_voices[v].sustained} \in SUBSET Voices
    BY DEF In
  <2> QED
    BY <1>3, <2>1, ReleaseEffect DEF sustain_pedal_update
<1>4. CASE all_notes_off
  <2>1. In("HELD") \in SUBSET Voices
    BY DEF In
  <2> QED
    BY <1>4, <2>1, ReleaseEffect DEF all_notes_off
<1>5. CASE all_sound_off
  BY <1>5, Silenced
<1>6. CASE UNCHANGED vars
  BY <1>6 DEF vars
<1> QED
  BY <1>1, <1>2, <1>3, <1>4, <1>5, <1>6 DEF Next

(***************************************************************************)
(* No stuck note: with every key up and the pedal up, no voice is held,    *)
(* for every polyphony and every history of strikes, steals and panics     *)
(* (voice_alloc.cpp:241-427).                                              *)
(***************************************************************************)
THEOREM NothingSticks == Spec => []NoStuckNote
<1>1. Init => HeldCarryNotes
  BY DEF Init, HeldCarryNotes, In, Fresh
<1>2. TypeOK /\ HeldCarryNotes /\ [Next]_vars => HeldCarryNotes'
  BY CarryStep
<1>3. TypeOK /\ HeldCarryNotes /\ KeysHoldVoices /\ PedalHoldsVoices
        => NoStuckNote
  <2> SUFFICES ASSUME TypeOK, HeldCarryNotes, KeysHoldVoices, PedalHoldsVoices,
                      \A n \in Notes : keys[n] = 0, ~s_sustain_pedal,
                      NEW v \in In("HELD")
               PROVE  FALSE
    BY DEF NoStuckNote
  <2> DEFINE n == s_voices[v].note
  <2>1. v \in Voices /\ ~s_voices[v].sustained /\ n \in Notes
    BY DEF PedalHoldsVoices, HeldCarryNotes, In
  <2>2. v \in HeldByKey(n)
    BY <2>1 DEF HeldByKey
  <2>3. HeldByKey(n) \in SUBSET Voices
    BY DEF HeldByKey, In
  <2>4. Cardinality(HeldByKey(n)) = 0
    BY <2>1, <2>3, SubsetFinite DEF KeysHoldVoices
  <2> QED
    BY <2>2, <2>3, <2>4, SubsetFinite, FS_EmptySet
<1> QED
  BY <1>1, <1>2, <1>3, TypeCorrect, KeysHold, PedalHolds, PTL DEF Spec

-----------------------------------------------------------------------------
(***************************************************************************)
(* A strike takes a held voice only when every voice is held, for every    *)
(* polyphony (voice_alloc.cpp:241-269).                                    *)
(***************************************************************************)
THEOREM StealsLast == Spec => StealsOnlyWhenAllHeld
<1>1. ASSUME TypeOK, [Next]_vars, NEW v \in In("HELD"),
             s_voices'[v].alloc_seq # s_voices[v].alloc_seq
      PROVE  In("HELD") = Voices
  <2>0. v \in Voices /\ s_voices[v].state = "HELD"
    BY DEF In
  <2>1. ASSUME NEW note \in Notes, note_on(note) PROVE In("HELD") = Voices
    <3>1. Pick(v)
      BY <1>1, <2>0, <2>1, StrikeEffect
    <3>2. In("IDLE") = {} /\ In("RELEASING") = {}
      BY <2>0, <3>1 DEF Pick, StruckFirst, ReleasedFirst, In
    <3>3. \A w \in Voices : s_voices[w].state \in {"IDLE", "HELD", "RELEASING"}
      BY <1>1 DEF TypeOK, Voice
    <3> QED
      BY <3>2, <3>3 DEF In
  <2>2. ASSUME NEW note \in Notes, note_off(note) PROVE FALSE
    BY <1>1, <2>0, <2>2, OffEffect DEF HeldByKey
  <2>3. ASSUME NEW down \in BOOLEAN, sustain_pedal_update(down) PROVE FALSE
    <3>1. {w \in In("HELD") : s_voices[w].sustained} \in SUBSET Voices
      BY DEF In
    <3> QED
      BY <1>1, <2>0, <2>3, <3>1, ReleaseEffect DEF sustain_pedal_update
  <2>4. CASE all_notes_off
    <3>1. In("HELD") \in SUBSET Voices
      BY DEF In
    <3> QED
      BY <1>1, <2>0, <2>4, <3>1, ReleaseEffect DEF all_notes_off
  <2>5. CASE all_sound_off
    BY <1>1, <2>0, <2>5, Silenced
  <2>6. CASE UNCHANGED vars
    BY <1>1, <2>6 DEF vars
  <2> QED
    BY <1>1, <2>1, <2>2, <2>3, <2>4, <2>5, <2>6 DEF Next
<1>2. TypeOK /\ [Next]_vars
        => [\A v \in In("HELD") :
              s_voices'[v].alloc_seq # s_voices[v].alloc_seq
                => In("HELD") = Voices]_vars
  BY <1>1
<1> QED
  BY <1>2, TypeCorrect, PTL DEF Spec, StealsOnlyWhenAllHeld

-----------------------------------------------------------------------------
(* A set in the order of its ages, and what is needed for there to be one. *)
Ordered(order, S, age) ==
  /\ order \in SetToSeqs(S)
  /\ \A i, j \in DOMAIN order : i < j => age[order[i]] < age[order[j]]

Apart(S, age) ==
  /\ IsFiniteSet(S)
  /\ \A x \in S : age[x] \in Nat
  /\ \A x, y \in S : age[x] = age[y] => x = y

Older(S, age, x) == {y \in S : age[y] < age[x]}

(* What is in an order of a set: each of its members, once.                *)
LEMMA OrderType ==
  ASSUME NEW S, IsFiniteSet(S), NEW order \in SetToSeqs(S)
  PROVE  /\ Cardinality(S) \in Nat /\ order \in [1 .. Cardinality(S) -> S]
         /\ DOMAIN order = 1 .. Cardinality(S) /\ Len(order) = Cardinality(S)
         /\ order \in Seq(S)
         /\ \A i, j \in 1 .. Cardinality(S) : order[i] = order[j] => i = j
         /\ \A x \in S : \E i \in 1 .. Cardinality(S) : order[i] = x
<1> DEFINE n == Cardinality(S)
           D == 1 .. n
<1>1. n \in Nat
  BY FS_CardinalityType
<1>2. /\ order \in [D -> S]
      /\ \A i, j \in D : i # j => order[i] # order[j]
  BY DEF SetToSeqs
<1>3. IsFiniteSet(D) /\ Cardinality(D) = n
  <2> HIDE DEF n
  <2> QED
    BY <1>1, FS_Interval
<1>4. order \in Injection(D, S)
  BY <1>2 DEF Injection, IsInjective
<1>5. order \in Surjection(D, S)
  BY <1>3, <1>4, FS_Injection
<1>6. \A x \in S : \E i \in D : order[i] = x
  BY <1>5 DEF Surjection
<1> HIDE DEF n
<1>7. DOMAIN order = D /\ Len(order) = n /\ order \in Seq(S)
  BY <1>1, <1>2
<1> QED
  BY <1>1, <1>2, <1>6, <1>7 DEF n

(* The n-th of an order has n - 1 before it.                               *)
LEMMA PlaceInOrder ==
  ASSUME NEW S, NEW age, Apart(S, age), NEW order, Ordered(order, S, age),
         NEW i \in 1 .. Cardinality(S)
  PROVE  Cardinality(Older(S, age, order[i])) = i - 1
<1> DEFINE n == Cardinality(S)
           before == 1 .. i - 1
           part == [j \in before |-> order[j]]
           T == Older(S, age, order[i])
<1>1. /\ n \in Nat /\ order \in [1 .. n -> S] /\ DOMAIN order = 1 .. n
      /\ \A j, k \in 1 .. n : order[j] = order[k] => j = k
      /\ \A x \in S : \E j \in 1 .. n : order[j] = x
  BY OrderType DEF Apart, Ordered
<1>2. \A j, k \in 1 .. n : j < k => age[order[j]] < age[order[k]]
  BY <1>1 DEF Ordered
<1>3. \A j \in 1 .. n : age[order[j]] \in Nat
  BY <1>1 DEF Apart
<1> HIDE DEF n
<1>4. i \in 1 .. n
  BY DEF n
<1>5. \A j \in 1 .. n : order[j] \in T <=> j \in before
  <2> TAKE j \in 1 .. n
  <2>1. order[j] \in S /\ age[order[j]] \in Nat /\ age[order[i]] \in Nat
    BY <1>1, <1>3, <1>4
  <2>2. CASE j < i
    BY <1>2, <1>4, <2>1, <2>2 DEF Older
  <2>3. CASE j = i
    BY <1>4, <2>1, <2>3 DEF Older
  <2>4. CASE j > i
    <3>1. age[order[i]] < age[order[j]]
      BY <1>2, <1>4, <2>4
    <3> QED
      BY <1>4, <2>1, <2>4, <3>1 DEF Older
  <2> QED
    BY <1>1, <1>4, <2>2, <2>3, <2>4
<1>6. before \subseteq 1 .. n
  BY <1>1, <1>4
<1>7. part \in [before -> T]
  BY <1>5, <1>6
<1>8. \A x \in T : \E j \in before : part[j] = x
  <2> TAKE x \in T
  <2>1. PICK j \in 1 .. n : order[j] = x
    BY <1>1 DEF Older
  <2> QED
    BY <1>5, <2>1
<1>9. part \in Bijection(before, T)
  <2>1. \A j, k \in before : part[j] = part[k] => j = k
    BY <1>1, <1>6
  <2> QED
    BY <1>7, <1>8, <2>1 DEF Bijection, Injection, Surjection, IsInjective
<1>10. IsFiniteSet(before) /\ Cardinality(before) = i - 1
  <2>1. i - 1 \in Int /\ 1 \in Int /\ i >= 1
    BY <1>1, <1>4
  <2>2. /\ IsFiniteSet(1 .. i - 1)
        /\ Cardinality(1 .. i - 1) = IF 1 > i - 1 THEN 0 ELSE (i - 1) - 1 + 1
    BY <2>1, FS_Interval
  <2> QED
    BY <2>1, <2>2
<1>11. ExistsBijection(before, T)
  BY <1>9 DEF ExistsBijection
<1> QED
  BY <1>10, <1>11, FS_Bijection

(* The older have fewer before them.                                       *)
LEMMA OlderFewer ==
  ASSUME NEW S, NEW age, Apart(S, age), NEW x \in S, NEW y \in S, age[x] < age[y]
  PROVE  Cardinality(Older(S, age, x)) < Cardinality(Older(S, age, y))
<1> DEFINE A == Older(S, age, x)
           B == Older(S, age, y)
<1>1. A \subseteq B /\ x \in B /\ x \notin A
  BY DEF Older, Apart
<1>2. IsFiniteSet(B) /\ IsFiniteSet(A)
  BY FS_Subset DEF Apart, Older
<1>3. /\ Cardinality(A) <= Cardinality(B)
      /\ Cardinality(A) # Cardinality(B)
  BY <1>1, <1>2, FS_Subset
<1>4. Cardinality(A) \in Nat /\ Cardinality(B) \in Nat
  BY <1>2, FS_CardinalityType
<1> HIDE DEF A, B
<1>5. Cardinality(A) < Cardinality(B)
  BY <1>3, <1>4
<1> QED
  BY <1>5 DEF A, B

(* There is one order of a set whose ages are apart...                     *)
LEMMA OrderExists ==
  ASSUME NEW S, NEW age, Apart(S, age)
  PROVE  \E order : Ordered(order, S, age)
<1> DEFINE n == Cardinality(S)
           place == [x \in S |-> Cardinality(Older(S, age, x)) + 1]
           order == [i \in 1 .. n |-> CHOOSE x \in S : place[x] = i]
<1>1. IsFiniteSet(S) /\ n \in Nat
  BY FS_CardinalityType DEF Apart
<1>2. ASSUME NEW x \in S
      PROVE  Cardinality(Older(S, age, x)) \in Nat /\ Cardinality(Older(S, age, x)) < n
  <2> DEFINE A == Older(S, age, x)
  <2>1. A \subseteq S /\ x \notin A
    BY DEF Older, Apart
  <2>2. IsFiniteSet(A) /\ Cardinality(A) \in Nat
    BY <1>1, <2>1, FS_Subset, FS_CardinalityType
  <2>3. Cardinality(A) <= n /\ Cardinality(A) # n
    BY <1>1, <2>1, FS_Subset
  <2> HIDE DEF A, n
  <2>4. Cardinality(A) < n
    BY <1>1, <2>2, <2>3
  <2> QED
    BY <2>2, <2>4 DEF A
<1>3. place \in [S -> 1 .. n]
  <2> SUFFICES ASSUME NEW x \in S PROVE Cardinality(Older(S, age, x)) + 1 \in 1 .. n
    OBVIOUS
  <2> HIDE DEF n
  <2> QED
    BY <1>1, <1>2
<1>4. \A x, y \in S : age[x] < age[y] => place[x] < place[y]
  <2> TAKE x, y \in S
  <2> HAVE age[x] < age[y]
  <2>1. Cardinality(Older(S, age, x)) < Cardinality(Older(S, age, y))
    BY OlderFewer
  <2>2. Cardinality(Older(S, age, x)) \in Nat /\ Cardinality(Older(S, age, y)) \in Nat
    BY <1>2
  <2>3. place[x] = Cardinality(Older(S, age, x)) + 1
        /\ place[y] = Cardinality(Older(S, age, y)) + 1
    OBVIOUS
  <2> QED
    BY <2>1, <2>2, <2>3
<1> HIDE DEF place, n
<1>5. \A x, y \in S : place[x] \in 1 .. n /\ place[y] \in 1 .. n
                      /\ (place[x] < place[y] => age[x] < age[y])
  <2> TAKE x, y \in S
  <2>1. age[x] \in Nat /\ age[y] \in Nat /\ (age[x] = age[y] => x = y)
    BY DEF Apart
  <2> QED
    BY <1>3, <1>4, <2>1
<1>6. place \in Injection(S, 1 .. n)
  <2>1. \A x, y \in S : place[x] = place[y] => x = y
    <3> TAKE x, y \in S
    <3>1. age[x] \in Nat /\ age[y] \in Nat /\ (age[x] = age[y] => x = y)
      BY DEF Apart
    <3> QED
      BY <1>3, <1>4, <3>1
  <2> QED
    BY <1>3, <2>1 DEF Injection, IsInjective
<1>7. place \in Surjection(S, 1 .. n)
  <2>1. IsFiniteSet(1 .. n) /\ Cardinality(1 .. n) = n
    BY <1>1, FS_Interval
  <2> QED
    BY <1>6, <2>1, FS_Injection DEF n
<1>8. \A i \in 1 .. n : order[i] \in S /\ place[order[i]] = i
  <2> TAKE i \in 1 .. n
  <2>1. \E x \in S : place[x] = i
    BY <1>7 DEF Surjection
  <2> QED
    BY <2>1
<1>9. order \in [1 .. n -> S]
  BY <1>8
<1> HIDE DEF order
<1>10. order \in SetToSeqs(S)
  BY <1>8, <1>9 DEF SetToSeqs, n
<1>11. \A i, j \in DOMAIN order : i < j => age[order[i]] < age[order[j]]
  BY <1>5, <1>8, <1>9
<1> QED
  BY <1>10, <1>11 DEF Ordered

(* ... and only one.                                                       *)
LEMMA OrderUnique ==
  ASSUME NEW S, NEW age, Apart(S, age),
         NEW one, Ordered(one, S, age), NEW other, Ordered(other, S, age)
  PROVE  one = other
<1> DEFINE n == Cardinality(S)
<1>1. /\ n \in Nat /\ one \in [1 .. n -> S] /\ other \in [1 .. n -> S]
  BY OrderType DEF Apart, Ordered
<1>2. ASSUME NEW i \in 1 .. n PROVE one[i] = other[i]
  <2> DEFINE x == one[i]
             y == other[i]
  <2>1. x \in S /\ y \in S
    BY <1>1, <1>2
  <2>2. Cardinality(Older(S, age, x)) = i - 1 /\ Cardinality(Older(S, age, y)) = i - 1
    BY <1>2, PlaceInOrder
  <2> HIDE DEF x, y
  <2>3. ~(age[x] < age[y]) /\ ~(age[y] < age[x])
    <3>1. age[x] < age[y] => Cardinality(Older(S, age, x)) < Cardinality(Older(S, age, y))
      BY <2>1, OlderFewer
    <3>2. age[y] < age[x] => Cardinality(Older(S, age, y)) < Cardinality(Older(S, age, x))
      BY <2>1, OlderFewer
    <3> QED
      BY <1>1, <1>2, <2>2, <3>1, <3>2
  <2>4. x = y
    BY <2>1, <2>3 DEF Apart
  <2> QED
    BY <2>4 DEF x, y
<1> QED
  BY <1>1, <1>2

LEMMA ByAgeIs ==
  ASSUME NEW S, NEW age, Apart(S, age)
  PROVE  /\ Ordered(ByAge(S, age), S, age)
         /\ \A order : Ordered(order, S, age) => ByAge(S, age) = order
<1>1. PICK order : Ordered(order, S, age)
  BY OrderExists
<1>2. Ordered(ByAge(S, age), S, age)
  BY <1>1 DEF Ordered, ByAge
<1> QED
  BY <1>2, OrderUnique

(* What makes an order, place by place.                                    *)
LEMMA MakesOrder ==
  ASSUME NEW S, NEW age, Apart(S, age), NEW order \in [1 .. Cardinality(S) -> S],
         \A i, j \in 1 .. Cardinality(S) : i < j => age[order[i]] < age[order[j]]
  PROVE  ByAge(S, age) = order
<1> DEFINE n == Cardinality(S)
<1>1. n \in Nat
  BY FS_CardinalityType DEF Apart
<1>2. \A i \in 1 .. n : age[order[i]] \in Nat
  BY DEF Apart
<1>3. \A i, j \in 1 .. n : i # j => order[i] # order[j]
  <2> HIDE DEF n
  <2> TAKE i, j \in 1 .. n
  <2>1. i < j => age[order[i]] < age[order[j]]
    BY DEF n
  <2>2. j < i => age[order[j]] < age[order[i]]
    BY DEF n
  <2> QED
    BY <1>1, <1>2, <2>1, <2>2
<1>4. order \in SetToSeqs(S)
  BY <1>3 DEF SetToSeqs
<1> QED
  BY <1>4, ByAgeIs DEF Ordered

LEMMA OrderOf ==
  ASSUME NEW S, NEW age, Apart(S, age)
  PROVE  /\ Cardinality(S) \in Nat /\ ByAge(S, age) \in [1 .. Cardinality(S) -> S]
         /\ ByAge(S, age) \in Seq(S) /\ Len(ByAge(S, age)) = Cardinality(S)
         /\ DOMAIN ByAge(S, age) = 1 .. Cardinality(S)
         /\ \A i, j \in 1 .. Cardinality(S) :
              /\ i < j => age[ByAge(S, age)[i]] < age[ByAge(S, age)[j]]
              /\ ByAge(S, age)[i] = ByAge(S, age)[j] => i = j
         /\ \A x \in S : \E i \in 1 .. Cardinality(S) : ByAge(S, age)[i] = x
<1> DEFINE order == ByAge(S, age)
<1>1. Ordered(order, S, age)
  BY ByAgeIs
<1> HIDE DEF order
<1>2. order \in SetToSeqs(S) /\ IsFiniteSet(S)
  BY <1>1 DEF Ordered, Apart
<1>3. /\ Cardinality(S) \in Nat /\ order \in [1 .. Cardinality(S) -> S]
      /\ order \in Seq(S) /\ Len(order) = Cardinality(S)
      /\ DOMAIN order = 1 .. Cardinality(S)
      /\ \A i, j \in 1 .. Cardinality(S) : order[i] = order[j] => i = j
      /\ \A x \in S : \E i \in 1 .. Cardinality(S) : order[i] = x
  BY <1>2, OrderType
<1>4. \A i, j \in 1 .. Cardinality(S) : i < j => age[order[i]] < age[order[j]]
  BY <1>1, <1>3 DEF Ordered
<1> QED
  BY <1>3, <1>4 DEF order

(* The ages of others do not matter.                                       *)
LEMMA OrderSame ==
  ASSUME NEW S, NEW age, NEW aged, Apart(S, age), \A x \in S : aged[x] = age[x]
  PROVE  Apart(S, aged) /\ ByAge(S, aged) = ByAge(S, age)
<1> DEFINE order == ByAge(S, age)
<1>1. Apart(S, aged)
  BY DEF Apart
<1>2. /\ order \in [1 .. Cardinality(S) -> S]
      /\ \A i, j \in 1 .. Cardinality(S) : i < j => age[order[i]] < age[order[j]]
  BY OrderOf
<1> HIDE DEF order
<1>3. \A i, j \in 1 .. Cardinality(S) : i < j => aged[order[i]] < aged[order[j]]
  BY <1>2
<1>4. ByAge(S, aged) = order
  BY ONLY <1>1, <1>2, <1>3, MakesOrder, Zenon
<1> QED
  BY <1>1, <1>4 DEF order

Joined(p, q) == p \o q

(* What is newer than a set comes behind it.                               *)
Newer(R, S, age, aged) ==
  /\ S \cap R = {} /\ \A x \in S : aged[x] = age[x]
  /\ \A x \in S, y \in R : aged[x] < aged[y]

LEMMA OrderAppends ==
  ASSUME NEW S, NEW R, NEW age, NEW aged, Apart(S, age), Apart(R, aged),
         Newer(R, S, age, aged)
  PROVE  /\ Apart(S \union R, aged)
         /\ ByAge(S \union R, aged) = Joined(ByAge(S, age), ByAge(R, aged))
<1> DEFINE n == Cardinality(S)
           m == Cardinality(R)
           p == ByAge(S, age)
           q == ByAge(R, aged)
           both == p \o q
<1>0. /\ S \cap R = {} /\ \A x \in S : aged[x] = age[x]
      /\ \A x \in S, y \in R : aged[x] < aged[y]
  BY DEF Newer
<1>1. /\ n \in Nat /\ p \in [1 .. n -> S] /\ p \in Seq(S) /\ Len(p) = n
      /\ \A i, j \in 1 .. n : i < j => age[p[i]] < age[p[j]]
  BY OrderOf
<1>2. /\ m \in Nat /\ q \in [1 .. m -> R] /\ q \in Seq(R) /\ Len(q) = m
      /\ \A i, j \in 1 .. m : i < j => aged[q[i]] < aged[q[j]]
  BY OrderOf
<1>3. Cardinality(S \union R) = n + m /\ IsFiniteSet(S \union R)
  <2>1. IsFiniteSet(S) /\ IsFiniteSet(R)
    BY DEF Apart
  <2>2. /\ IsFiniteSet(S \union R)
        /\ Cardinality(S \union R) = Cardinality(S) + Cardinality(R) - Cardinality(S \cap R)
    BY <2>1, FS_Union
  <2>3. Cardinality(S \cap R) = 0
    BY <1>0, FS_EmptySet
  <2> HIDE DEF n, m
  <2>4. Cardinality(S) + Cardinality(R) - 0 = n + m
    BY <1>1, <1>2 DEF n, m
  <2> QED
    BY <2>2, <2>3, <2>4
<1>4. Apart(S \union R, aged)
  <2>1. \A x \in S \union R : aged[x] \in Nat
    BY <1>0 DEF Apart
  <2>2. \A x, y \in S \union R : aged[x] = aged[y] => x = y
    <3> TAKE x, y \in S \union R
    <3> HAVE aged[x] = aged[y]
    <3>1. CASE x \in S /\ y \in S
      BY <1>0, <3>1 DEF Apart
    <3>2. CASE x \in R /\ y \in R
      BY <3>2 DEF Apart
    <3>3. CASE x \in S /\ y \in R
      BY <1>0, <2>1, <3>3
    <3>4. CASE x \in R /\ y \in S
      BY <1>0, <2>1, <3>4
    <3> QED
      BY <3>1, <3>2, <3>3, <3>4
  <2> QED
    BY <1>3, <2>1, <2>2 DEF Apart
<1> HIDE DEF n, m, p, q
<1>5. /\ both \in [1 .. n + m -> S \union R]
      /\ \A i \in 1 .. n + m : /\ i <= n => both[i] = p[i] /\ i \in 1 .. n
                               /\ i > n => both[i] = q[i - n] /\ i - n \in 1 .. m
  <2>1. both \in Seq(S \union R) /\ Len(both) = n + m
    BY <1>1, <1>2
  <2>2. \A i \in 1 .. n + m : both[i] = IF i <= n THEN p[i] ELSE q[i - n]
    BY <1>1, <1>2, SMTT(30)
  <2>3. both \in [1 .. n + m -> S \union R]
    <3> HIDE DEF both
    <3> QED
      BY <1>1, <1>2, <2>1
  <2>4. \A i \in 1 .. n + m : (i <= n => i \in 1 .. n) /\ (i > n => i - n \in 1 .. m)
    BY <1>1, <1>2
  <2> QED
    BY <1>1, <1>2, <2>2, <2>3, <2>4
<1> HIDE DEF both
<1>6. \A i, j \in 1 .. n + m : i < j => aged[both[i]] < aged[both[j]]
  <2> TAKE i, j \in 1 .. n + m
  <2> HAVE i < j
  <2>1. CASE j <= n
    <3>1. i \in 1 .. n /\ j \in 1 .. n
      BY <1>1, <1>2, <2>1
    <3>2. age[p[i]] < age[p[j]]
      BY <1>1, <3>1
    <3> QED
      BY <1>0, <1>1, <1>5, <2>1, <3>1, <3>2
  <2>2. CASE i <= n /\ j > n
    <3>1. i \in 1 .. n /\ j - n \in 1 .. m /\ both[i] = p[i] /\ both[j] = q[j - n]
      BY <1>5, <2>2
    <3> QED
      BY <1>0, <1>1, <1>2, <3>1
  <2>3. CASE i > n
    <3>1. j > n
      BY <1>1, <1>2, <2>3
    <3>2. /\ i - n \in 1 .. m /\ j - n \in 1 .. m
          /\ both[i] = q[i - n] /\ both[j] = q[j - n]
      BY <1>5, <2>3, <3>1
    <3>3. i - n < j - n
      BY <1>1, <1>2
    <3> QED
      BY <1>2, <3>2, <3>3
  <2> QED
    BY <1>1, <1>2, <2>1, <2>2, <2>3
<1>7. both \in [1 .. Cardinality(S \union R) -> S \union R]
  BY <1>3, <1>5
<1>8. \A i, j \in 1 .. Cardinality(S \union R) : i < j => aged[both[i]] < aged[both[j]]
  BY <1>3, <1>6
<1>9. ByAge(S \union R, aged) = both
  BY <1>4, <1>7, <1>8, MakesOrder
<1> QED
  BY <1>4, <1>9 DEF both, p, q, Joined

LEMMA OrderOfOne ==
  ASSUME NEW x, NEW age, age[x] \in Nat
  PROVE  Apart({x}, age) /\ ByAge({x}, age) = <<x>>
<1>1. IsFiniteSet({x}) /\ Cardinality({x}) = 1
  BY FS_Singleton
<1>2. Apart({x}, age)
  BY <1>1 DEF Apart
<1>3. <<x>> \in [1 .. 1 -> {x}]
  OBVIOUS
<1>4. \A i, j \in 1 .. 1 : i < j => FALSE
  OBVIOUS
<1> QED
  BY <1>1, <1>2, <1>3, <1>4, MakesOrder

(* Without the oldest the order is its tail.                               *)
LEMMA OrderWithoutFirst ==
  ASSUME NEW S, NEW age, Apart(S, age), NEW x \in S, \A y \in S : age[x] <= age[y]
  PROVE  /\ Apart(S \ {x}, age) /\ Len(ByAge(S, age)) > 0
         /\ ByAge(S, age)[1] = x /\ ByAge(S \ {x}, age) = Tail(ByAge(S, age))
<1> DEFINE n == Cardinality(S)
           p == ByAge(S, age)
           rest == Tail(p)
<1>1. /\ n \in Nat /\ p \in [1 .. n -> S] /\ p \in Seq(S) /\ Len(p) = n
      /\ \A i, j \in 1 .. n : i < j => age[p[i]] < age[p[j]]
      /\ \A i, j \in 1 .. n : p[i] = p[j] => i = j
      /\ \A y \in S : \E i \in 1 .. n : p[i] = y
  <2>1. n \in Nat /\ p \in [1 .. n -> S] /\ p \in Seq(S) /\ Len(p) = n
    BY OrderOf
  <2>2. \A i, j \in 1 .. n : /\ i < j => age[p[i]] < age[p[j]]
                             /\ p[i] = p[j] => i = j
    BY OrderOf
  <2>3. \A y \in S : \E i \in 1 .. n : p[i] = y
    BY OrderOf
  <2> HIDE DEF n, p
  <2> QED
    BY <2>1, <2>2, <2>3
<1>2. IsFiniteSet(S \ {x}) /\ Cardinality(S \ {x}) = n - 1
  BY FS_RemoveElement DEF Apart
<1>3. Apart(S \ {x}, age)
  BY <1>2 DEF Apart
<1>4. PICK k \in 1 .. n : p[k] = x
  BY <1>1
<1> HIDE DEF n, p
<1>5. k = 1 /\ n >= 1
  <2>1. n >= 1 /\ k >= 1 /\ 1 \in 1 .. n
    BY <1>1
  <2>2. age[p[1]] \in Nat /\ age[x] \in Nat /\ p[1] \in S
    BY <1>1, <2>1 DEF Apart
  <2>3. 1 < k => age[p[1]] < age[x]
    BY <1>1, <1>4, <2>1
  <2>4. age[x] <= age[p[1]]
    BY <2>2
  <2> QED
    BY <1>1, <2>1, <2>2, <2>3, <2>4
<1>6. /\ rest \in Seq(S) /\ Len(rest) = n - 1
      /\ \A i \in 1 .. n - 1 : rest[i] = p[i + 1] /\ i + 1 \in 1 .. n
  <2>1. p # <<>>
    BY <1>1, <1>5
  <2> QED
    BY <1>1, <1>5, <2>1
<1> HIDE DEF rest
<1>7. \A i \in 1 .. n - 1 : rest[i] \in S \ {x}
  <2> TAKE i \in 1 .. n - 1
  <2>1. rest[i] = p[i + 1] /\ i + 1 \in 1 .. n /\ i + 1 # 1
    BY <1>1, <1>6
  <2> QED
    BY <1>1, <1>4, <1>5, <2>1
<1>8. rest \in [1 .. n - 1 -> S \ {x}]
  BY <1>1, <1>5, <1>6, <1>7
<1>9. \A i, j \in 1 .. n - 1 : i < j => age[rest[i]] < age[rest[j]]
  <2> TAKE i, j \in 1 .. n - 1
  <2> HAVE i < j
  <2>1. i + 1 < j + 1
    BY <1>1
  <2>2. /\ i + 1 \in 1 .. n /\ j + 1 \in 1 .. n
        /\ rest[i] = p[i + 1] /\ rest[j] = p[j + 1]
    BY <1>6
  <2>3. age[p[i + 1]] < age[p[j + 1]]
    BY ONLY <1>1, <2>1, <2>2
  <2> QED
    BY <2>2, <2>3
<1>10. ByAge(S \ {x}, age) = rest
  BY <1>2, <1>3, <1>8, <1>9, MakesOrder
<1>11. Len(p) > 0 /\ p[1] = x
  BY <1>1, <1>4, <1>5
<1> QED
  BY <1>3, <1>10, <1>11 DEF rest, p

LEMMA SameOrders == \A S : Abstract!SetToSeqs(S) = SetToSeqs(S)
BY DEF Abstract!SetToSeqs, SetToSeqs, Abstract!Cardinality, Cardinality

(* What the members of an order are, one by one, and where some are.       *)
Along(order, what) == [i \in DOMAIN order |-> what[order[i]]]

Places(order, R) == {i \in DOMAIN order : order[i] \in R}

(* Without some of its members: the places of the rest, lowest first.      *)
LEMMA OrderWithout ==
  ASSUME NEW S, NEW age, Apart(S, age), NEW R \in SUBSET S
  PROVE  \E rest \in Abstract!Ascending(DOMAIN ByAge(S, age) \ Places(ByAge(S, age), R)) :
           ByAge(S \ R, age) = Along(rest, ByAge(S, age))
<1> DEFINE n == Cardinality(S)
           p == ByAge(S, age)
           P == DOMAIN p \ Places(p, R)
           place == [i \in 1 .. n |-> i]
<1>1. /\ n \in Nat /\ p \in [1 .. n -> S] /\ DOMAIN p = 1 .. n
      /\ \A i, j \in 1 .. n : i < j => age[p[i]] < age[p[j]]
      /\ \A i, j \in 1 .. n : p[i] = p[j] => i = j
      /\ \A y \in S : \E i \in 1 .. n : p[i] = y
  BY OrderOf
<1>2. Apart(S \ R, age)
  <2>1. IsFiniteSet(S \ R)
    BY FS_Subset DEF Apart
  <2> QED
    BY <2>1 DEF Apart
<1> HIDE DEF n, p
<1>3. P = {i \in 1 .. n : p[i] \notin R}
  BY <1>1 DEF Places
<1> HIDE DEF P
<1>4. Apart(P, place)
  <2>1. IsFiniteSet(1 .. n)
    BY <1>1, FS_Interval
  <2>2. IsFiniteSet(P)
    BY <1>3, <2>1, FS_Subset
  <2> QED
    BY <1>1, <1>3, <2>2 DEF Apart
<1>5. PICK rest : Ordered(rest, P, place)
  BY <1>4, OrderExists
<1>6. /\ rest \in [1 .. Cardinality(P) -> P] /\ DOMAIN rest = 1 .. Cardinality(P)
      /\ Cardinality(P) \in Nat /\ IsFiniteSet(P)
      /\ rest \in SetToSeqs(P)
  BY <1>4, <1>5, OrderType DEF Ordered, Apart
<1>7. \A i, j \in DOMAIN rest : i < j => rest[i] < rest[j]
  BY <1>3, <1>5, <1>6 DEF Ordered
<1>8. rest \in Abstract!Ascending(P)
  BY <1>6, <1>7, SameOrders DEF Abstract!Ascending
<1>9. Cardinality(S \ R) = Cardinality(P)
  <2> DEFINE f == [i \in P |-> p[i]]
  <2>1. f \in [P -> S \ R]
    BY <1>1, <1>3
  <2>2. \A i, j \in P : f[i] = f[j] => i = j
    BY <1>1, <1>3
  <2>3. \A y \in S \ R : \E i \in P : f[i] = y
    BY <1>1, <1>3
  <2>4. f \in Bijection(P, S \ R)
    BY <2>1, <2>2, <2>3 DEF Bijection, Injection, Surjection, IsInjective
  <2>5. ExistsBijection(P, S \ R)
    BY <2>4 DEF ExistsBijection
  <2> QED
    BY <1>6, <2>5, FS_Bijection
<1> DEFINE q == [i \in DOMAIN rest |-> p[rest[i]]]
<1>10. q \in [1 .. Cardinality(S \ R) -> S \ R]
  BY <1>1, <1>3, <1>6, <1>9
<1>11. \A i, j \in 1 .. Cardinality(S \ R) : i < j => age[q[i]] < age[q[j]]
  <2> TAKE i, j \in 1 .. Cardinality(S \ R)
  <2> HAVE i < j
  <2>1. i \in DOMAIN rest /\ j \in DOMAIN rest
    BY <1>6, <1>9
  <2>2. rest[i] \in 1 .. n /\ rest[j] \in 1 .. n /\ rest[i] < rest[j]
    BY <1>3, <1>6, <1>7, <2>1
  <2>3. q[i] = p[rest[i]] /\ q[j] = p[rest[j]]
    BY <2>1
  <2> QED
    BY <1>1, <2>2, <2>3
<1> HIDE DEF q
<1>12. ByAge(S \ R, age) = q
  BY ONLY <1>2, <1>10, <1>11, MakesOrder, Zenon
<1> QED
  BY <1>8, <1>12 DEF q, P, p, Along

(* The places of some members, in any order of theirs.                     *)
LEMMA PlacesOf ==
  ASSUME NEW S, NEW age, Apart(S, age), NEW R \in SUBSET S, NEW aged, Apart(R, aged)
  PROVE  \E order \in SetToSeqs(Places(ByAge(S, age), R)) :
           /\ DOMAIN order = DOMAIN ByAge(R, aged)
           /\ \A i \in DOMAIN order : /\ order[i] \in DOMAIN ByAge(S, age)
                                      /\ ByAge(S, age)[order[i]] = ByAge(R, aged)[i]
<1> DEFINE n == Cardinality(S)
           m == Cardinality(R)
           p == ByAge(S, age)
           q == ByAge(R, aged)
           P == Places(p, R)
           order == [i \in 1 .. m |-> CHOOSE k \in 1 .. n : p[k] = q[i]]
<1>1. /\ n \in Nat /\ p \in [1 .. n -> S] /\ DOMAIN p = 1 .. n
      /\ \A i, j \in 1 .. n : p[i] = p[j] => i = j
      /\ \A y \in S : \E i \in 1 .. n : p[i] = y
  <2>1. n \in Nat /\ p \in [1 .. n -> S] /\ DOMAIN p = 1 .. n
    BY OrderOf
  <2>2. \A i, j \in 1 .. n : p[i] = p[j] => i = j
    BY OrderOf
  <2>3. \A y \in S : \E i \in 1 .. n : p[i] = y
    BY OrderOf, SMTT(30)
  <2> QED
    BY <2>1, <2>2, <2>3
<1>2. /\ m \in Nat /\ q \in [1 .. m -> R] /\ DOMAIN q = 1 .. m
      /\ \A i, j \in 1 .. m : q[i] = q[j] => i = j
      /\ \A y \in R : \E i \in 1 .. m : q[i] = y
  BY OrderOf
<1> HIDE DEF n, m, p, q
<1>0. P = {i \in DOMAIN p : p[i] \in R}
  BY DEF Places
<1> HIDE DEF P
<1>3. \A i \in 1 .. m : order[i] \in 1 .. n /\ p[order[i]] = q[i]
  <2> TAKE i \in 1 .. m
  <2>1. \E k \in 1 .. n : p[k] = q[i]
    BY <1>1, <1>2
  <2> QED
    BY <2>1
<1>4. DOMAIN order = 1 .. m
  OBVIOUS
<1> HIDE DEF order
<1>5. \A i \in 1 .. m : order[i] \in P
  BY <1>0, <1>1, <1>2, <1>3
<1>6. order \in [1 .. m -> P]
  <2>1. order = [i \in 1 .. m |-> order[i]]
    BY DEF order
  <2> QED
    BY <1>5, <2>1
<1>7. \A i, j \in 1 .. m : i # j => order[i] # order[j]
  BY <1>2, <1>3
<1>8. Cardinality(P) = m
  <2>1. \A k \in P : \E i \in 1 .. m : order[i] = k
    <3> TAKE k \in P
    <3>1. k \in 1 .. n /\ p[k] \in R
      BY <1>0, <1>1
    <3>2. PICK i \in 1 .. m : q[i] = p[k]
      BY <1>2, <3>1
    <3> QED
      BY <1>1, <1>3, <3>1, <3>2
  <2>2. order \in Bijection(1 .. m, P)
    BY <1>6, <1>7, <2>1 DEF Bijection, Injection, Surjection, IsInjective
  <2>3. ExistsBijection(1 .. m, P)
    BY <2>2 DEF ExistsBijection
  <2>4. IsFiniteSet(1 .. m) /\ Cardinality(1 .. m) = m
    BY <1>2, FS_Interval
  <2> QED
    BY <2>3, <2>4, FS_Bijection
<1>9. order \in SetToSeqs(P)
  BY <1>6, <1>7, <1>8 DEF SetToSeqs
<1> QED
  BY <1>1, <1>2, <1>3, <1>4, <1>9 DEF P, p, q

-----------------------------------------------------------------------------
LEMMA AlongSame ==
  ASSUME NEW S, NEW order \in Seq(S), NEW what, NEW other,
         \A x \in S : what[x] = other[x]
  PROVE  Along(order, what) = Along(order, other)
<1>1. \A i \in DOMAIN order : order[i] \in S
  OBVIOUS
<1> QED
  BY <1>1 DEF Along

LEMMA AlongSeq ==
  ASSUME NEW S, NEW order \in Seq(S), NEW what, NEW W, \A x \in S : what[x] \in W
  PROVE  Along(order, what) \in Seq(W) /\ Len(Along(order, what)) = Len(order)
<1>1. \A i \in 1 .. Len(order) : order[i] \in S
  OBVIOUS
<1>2. Len(order) \in Nat /\ DOMAIN order = 1 .. Len(order)
  OBVIOUS
<1>3. Along(order, what) \in [1 .. Len(order) -> W]
  BY <1>1, <1>2 DEF Along
<1> HIDE DEF Along
<1> QED
  BY <1>2, <1>3

LEMMA AlongBoth ==
  ASSUME NEW S, NEW p \in Seq(S), NEW q \in Seq(S), NEW what
  PROVE  Along(Joined(p, q), what) = Joined(Along(p, what), Along(q, what))
<1> DEFINE W == {what[x] : x \in S}
           a == Along(p, what)
           b == Along(q, what)
<1>1. a \in Seq(W) /\ Len(a) = Len(p) /\ b \in Seq(W) /\ Len(b) = Len(q)
  <2>1. \A x \in S : what[x] \in W
    OBVIOUS
  <2> HIDE DEF W
  <2> QED
    BY <2>1, AlongSeq
<1>2. /\ \A i \in 1 .. Len(p) : a[i] = what[p[i]]
      /\ \A i \in 1 .. Len(q) : b[i] = what[q[i]]
  BY DEF Along
<1> HIDE DEF a, b, W
<1>3. /\ p \o q \in Seq(S) /\ Len(p \o q) = Len(p) + Len(q)
      /\ a \o b \in Seq(W) /\ Len(a \o b) = Len(p) + Len(q)
  BY <1>1
<1>4. ASSUME NEW i \in 1 .. Len(p) + Len(q) PROVE (a \o b)[i] = what[(p \o q)[i]]
  <2>1. CASE i <= Len(p)
    <3>1. i \in 1 .. Len(p) /\ (p \o q)[i] = p[i] /\ (a \o b)[i] = a[i]
      BY <1>1, <2>1
    <3> QED
      BY <1>2, <3>1
  <2>2. CASE i > Len(p)
    <3>1. /\ i - Len(p) \in 1 .. Len(q) /\ (p \o q)[i] = q[i - Len(p)]
          /\ (a \o b)[i] = b[i - Len(p)]
      BY <1>1, <2>2
    <3> QED
      BY <1>2, <3>1
  <2>3. i <= Len(p) \/ i > Len(p)
    OBVIOUS
  <2> QED
    BY <2>1, <2>2, <2>3
<1> DEFINE pq == p \o q
           ab == a \o b
<1>5. DOMAIN pq = 1 .. Len(p) + Len(q) /\ DOMAIN ab = 1 .. Len(p) + Len(q)
      /\ ab = [i \in DOMAIN ab |-> ab[i]]
  <2>1. pq \in Seq(S) /\ ab \in Seq(W) /\ Len(pq) = Len(p) + Len(q) /\ Len(ab) = Len(p) + Len(q)
    BY <1>3
  <2> HIDE DEF pq, ab
  <2> QED
    BY <2>1
<1>6. \A i \in 1 .. Len(p) + Len(q) : ab[i] = what[pq[i]]
  BY <1>4
<1> HIDE DEF pq, ab
<1>7. Along(pq, what) = ab
  BY <1>5, <1>6 DEF Along
<1> QED
  BY <1>7 DEF pq, ab, a, b, Joined

LEMMA AlongTail ==
  ASSUME NEW S, NEW p \in Seq(S), p # <<>>, NEW what
  PROVE  Along(p, what) # <<>> /\ Along(Tail(p), what) = Tail(Along(p, what))
<1> DEFINE W == {what[x] : x \in S}
           a == Along(p, what)
<1>1. a \in Seq(W) /\ Len(a) = Len(p) /\ Len(p) > 0
  <2>1. Len(p) > 0
    OBVIOUS
  <2> QED
    <3>1. \A x \in S : what[x] \in W
      OBVIOUS
    <3> HIDE DEF W
    <3> QED
      BY <2>1, <3>1, AlongSeq
<1>2. \A i \in 1 .. Len(p) : a[i] = what[p[i]]
  BY DEF Along
<1> HIDE DEF a, W
<1> DEFINE t == Tail(a)
           r == Tail(p)
<1>3. /\ a # <<>> /\ DOMAIN t = 1 .. Len(p) - 1 /\ t = [i \in DOMAIN t |-> t[i]]
      /\ DOMAIN r = 1 .. Len(p) - 1
      /\ \A i \in 1 .. Len(p) - 1 : t[i] = a[i + 1] /\ r[i] = p[i + 1]
  <2>1. a # <<>>
    BY <1>1
  <2>2. /\ t \in Seq(W) /\ Len(t) = Len(p) - 1 /\ r \in Seq(S) /\ Len(r) = Len(p) - 1
        /\ \A i \in 1 .. Len(p) - 1 : t[i] = a[i + 1] /\ r[i] = p[i + 1]
    BY <1>1, <2>1
  <2> HIDE DEF t, r
  <2>3. DOMAIN t = 1 .. Len(p) - 1 /\ t = [i \in DOMAIN t |-> t[i]] /\ DOMAIN r = 1 .. Len(p) - 1
    BY <2>2
  <2> QED
    BY <2>1, <2>2, <2>3
<1>4. \A i \in 1 .. Len(p) - 1 : t[i] = what[r[i]]
  BY <1>1, <1>2, <1>3
<1> HIDE DEF t, r
<1>5. Along(r, what) = t
  BY <1>3, <1>4 DEF Along
<1> QED
  BY <1>3, <1>5 DEF t, r, a

-----------------------------------------------------------------------------
(* The strikes of the held voices are apart, and so are the releases of    *)
(* the releasing: so each has its place.                                   *)
AgesApart ==
  /\ Apart(In("HELD"), Strikes) /\ Apart(In("RELEASING"), Releases)
  /\ \A v \in In("HELD") : Strikes[v] <= s_alloc_seq
  /\ \A v \in In("RELEASING") : Releases[v] <= clock

HeldOrder == ByAge(In("HELD"), Strikes)
TailOrder == ByAge(In("RELEASING"), Releases)
Entries == [v \in Voices |-> [note |-> s_voices[v].note,
                              sustained |-> s_voices[v].sustained]]
Tones == [v \in Voices |-> s_voices[v].note]

Entry == [note : Notes \union {NoNote}, sustained : BOOLEAN]
Tone == Notes \union {NoNote}

(* What the table is read as.                                              *)
LEMMA TableReads ==
  ASSUME TypeOK, AgesApart
  PROVE  /\ HeldOrder \in Seq(Voices) /\ TailOrder \in Seq(Voices)
         /\ HeldInOrder = Along(HeldOrder, Entries)
         /\ TailsInOrder = Along(TailOrder, Tones)
         /\ \A v \in Voices : Entries[v] \in Entry /\ Tones[v] \in Tone
<1>1. /\ HeldOrder \in Seq(In("HELD")) /\ TailOrder \in Seq(In("RELEASING"))
  BY OrderOf DEF AgesApart, HeldOrder, TailOrder
<1>2. In("HELD") \subseteq Voices /\ In("RELEASING") \subseteq Voices
  BY DEF In
<1> HIDE DEF HeldOrder, TailOrder
<1>3. HeldOrder \in Seq(Voices) /\ TailOrder \in Seq(Voices)
  BY <1>1, <1>2
<1>4. /\ \A i \in DOMAIN HeldOrder : HeldOrder[i] \in Voices
      /\ \A i \in DOMAIN TailOrder : TailOrder[i] \in Voices
  BY <1>3
<1>5. HeldInOrder = [i \in DOMAIN HeldOrder |->
                       [note |-> s_voices[HeldOrder[i]].note,
                        sustained |-> s_voices[HeldOrder[i]].sustained]]
  BY DEF HeldInOrder, HeldOrder
<1>6. TailsInOrder = [i \in DOMAIN TailOrder |-> s_voices[TailOrder[i]].note]
  BY DEF TailsInOrder, TailOrder
<1>7. HeldInOrder = Along(HeldOrder, Entries)
  BY <1>4, <1>5 DEF Along, Entries
<1>8. TailsInOrder = Along(TailOrder, Tones)
  BY <1>4, <1>6 DEF Along, Tones
<1>9. \A v \in Voices : Entries[v] \in Entry /\ Tones[v] \in Tone
  BY DEF Entries, Tones, Entry, Tone, TypeOK, Voice
<1> QED
  BY <1>3, <1>7, <1>8, <1>9

LEMMA TableReadsNext ==
  ASSUME TypeOK', AgesApart'
  PROVE  /\ HeldOrder' \in Seq(Voices) /\ TailOrder' \in Seq(Voices)
         /\ HeldInOrder' = Along(HeldOrder', Entries')
         /\ TailsInOrder' = Along(TailOrder', Tones')
         /\ \A v \in Voices : Entries'[v] \in Entry /\ Tones'[v] \in Tone
<1>1. /\ HeldOrder' \in Seq(In("HELD")') /\ TailOrder' \in Seq(In("RELEASING")')
  BY OrderOf DEF AgesApart, HeldOrder, TailOrder
<1>2. In("HELD")' \subseteq Voices /\ In("RELEASING")' \subseteq Voices
  BY DEF In
<1> HIDE DEF HeldOrder, TailOrder
<1>3. HeldOrder' \in Seq(Voices) /\ TailOrder' \in Seq(Voices)
  BY <1>1, <1>2
<1>4. /\ \A i \in DOMAIN HeldOrder' : HeldOrder'[i] \in Voices
      /\ \A i \in DOMAIN TailOrder' : TailOrder'[i] \in Voices
  BY <1>3
<1>5. HeldInOrder' = [i \in DOMAIN HeldOrder' |->
                       [note |-> s_voices'[HeldOrder'[i]].note,
                        sustained |-> s_voices'[HeldOrder'[i]].sustained]]
  BY DEF HeldInOrder, HeldOrder
<1>6. TailsInOrder' = [i \in DOMAIN TailOrder' |-> s_voices'[TailOrder'[i]].note]
  BY DEF TailsInOrder, TailOrder
<1>7. HeldInOrder' = Along(HeldOrder', Entries')
  BY <1>4, <1>5 DEF Along, Entries
<1>8. TailsInOrder' = Along(TailOrder', Tones')
  BY <1>4, <1>6 DEF Along, Tones
<1>9. \A v \in Voices : Entries'[v] \in Entry /\ Tones'[v] \in Tone
  BY DEF Entries, Tones, Entry, Tone, TypeOK, Voice
<1> QED
  BY <1>3, <1>7, <1>8, <1>9

(* When every voice sounds, and only then, the abstract synth is full.     *)
LEMMA FullWhenNoneIdle ==
  ASSUME TypeOK, AgesApart
  PROVE  /\ Len(HeldInOrder) = Cardinality(In("HELD"))
         /\ Len(TailsInOrder) = Cardinality(In("RELEASING"))
         /\ Len(HeldInOrder) + Len(TailsInOrder) = VOICE_COUNT <=> In("IDLE") = {}
         /\ TailsInOrder = <<>> <=> In("RELEASING") = {}
<1> DEFINE A == In("HELD")
           B == In("RELEASING")
           C == In("IDLE")
<1>1. /\ A \subseteq Voices /\ B \subseteq Voices /\ C \subseteq Voices
      /\ A \cap B = {} /\ (A \union B) \cap C = {} /\ (A \union B) \union C = Voices
  BY DEF In, TypeOK, Voice
<1>2. /\ Len(HeldInOrder) = Cardinality(A) /\ Len(TailsInOrder) = Cardinality(B)
      /\ TailsInOrder \in Seq(Tone)
  <2>1. Len(HeldOrder) = Cardinality(A) /\ Len(TailOrder) = Cardinality(B)
    BY OrderOf DEF AgesApart, HeldOrder, TailOrder
  <2> HIDE DEF A, B
  <2>2. Len(Along(HeldOrder, Entries)) = Len(HeldOrder)
    BY TableReads, AlongSeq
  <2>3. Len(Along(TailOrder, Tones)) = Len(TailOrder) /\ Along(TailOrder, Tones) \in Seq(Tone)
    BY TableReads, AlongSeq
  <2> QED
    BY <2>1, <2>2, <2>3, TableReads
<1>3. /\ IsFiniteSet(A) /\ IsFiniteSet(B) /\ IsFiniteSet(C)
      /\ Cardinality(A) \in Nat /\ Cardinality(B) \in Nat /\ Cardinality(C) \in Nat
  BY <1>1, SubsetFinite
<1>4. Cardinality(Voices) = VOICE_COUNT
  <2>1. Cardinality(0 .. VOICE_COUNT - 1) = (VOICE_COUNT - 1) - 0 + 1
    BY VoiceCountAssumption, FS_Interval
  <2> QED
    BY <2>1, VoiceCountAssumption DEF Voices
<1> HIDE DEF A, B, C
<1>5. Cardinality(A) + Cardinality(B) + Cardinality(C) = VOICE_COUNT
  <2>1. Cardinality({}) = 0
    BY FS_EmptySet
  <2>2. /\ IsFiniteSet(A \union B)
        /\ Cardinality(A \union B) = Cardinality(A) + Cardinality(B) - Cardinality(A \cap B)
    BY <1>3, FS_Union
  <2>3. Cardinality((A \union B) \union C)
          = Cardinality(A \union B) + Cardinality(C) - Cardinality((A \union B) \cap C)
    BY <1>3, <2>2, FS_Union
  <2>4. Cardinality(A \union B) = Cardinality(A) + Cardinality(B)
    <3>1. Cardinality(A \cap B) = 0
      BY <1>1, <2>1, Zenon
    <3>2. Cardinality(A) + Cardinality(B) - 0 = Cardinality(A) + Cardinality(B)
      BY <1>3
    <3> QED
      BY <2>2, <3>1, <3>2
  <2>5. VOICE_COUNT = Cardinality(A \union B) + Cardinality(C) - 0
    BY <1>1, <1>4, <2>1, <2>3
  <2> QED
    BY <1>3, <2>4, <2>5
<1>6. Cardinality(C) = 0 <=> C = {}
  BY <1>3, FS_EmptySet
<1>7. Cardinality(B) = 0 <=> B = {}
  BY <1>3, FS_EmptySet
<1>8. Len(HeldInOrder) + Len(TailsInOrder) = VOICE_COUNT <=> C = {}
  BY <1>2, <1>3, <1>5, <1>6, VoiceCountAssumption
<1>9. TailsInOrder = <<>> <=> B = {}
  BY <1>2, <1>7
<1> QED
  BY <1>2, <1>8, <1>9 DEF A, B, C

-----------------------------------------------------------------------------
(* A strike puts its voice behind the held ones.                           *)
LEMMA StrikeMoves ==
  ASSUME TypeOK, TypeOK', AgesApart, NEW v \in Voices,
         s_voices'[v].state = "HELD", s_voices'[v].alloc_seq = s_alloc_seq + 1,
         \A w \in Voices \ {v} : s_voices'[w] = s_voices[w],
         s_alloc_seq' = s_alloc_seq + 1, clock' = clock,
         v \in In("RELEASING") => \A w \in In("RELEASING") : Releases[v] <= Releases[w],
         v \in In("HELD") => \A w \in In("HELD") : Strikes[v] <= Strikes[w]
  PROVE  /\ AgesApart'
         /\ HeldOrder' = (IF v \in In("HELD") THEN Tail(HeldOrder) ELSE HeldOrder) \o <<v>>
         /\ TailOrder' = IF v \in In("RELEASING") THEN Tail(TailOrder) ELSE TailOrder
         /\ v \in In("HELD") => HeldOrder # <<>> /\ HeldOrder[1] = v
         /\ v \in In("RELEASING") => TailOrder # <<>> /\ TailOrder[1] = v
         /\ (IF v \in In("HELD") THEN Tail(HeldOrder) ELSE HeldOrder) \in Seq(Voices \ {v})
         /\ TailOrder' \in Seq(Voices \ {v})
<1> DEFINE S == In("HELD")
           R == In("RELEASING")
           S0 == S \ {v}
           R0 == R \ {v}
           p == ByAge(S0, Strikes)
<1>1. In("HELD")' = S0 \union {v} /\ In("RELEASING")' = R0
  BY DEF In
<1>2. /\ S \subseteq Voices /\ R \subseteq Voices
      /\ \A w \in Voices : Strikes[w] \in Nat /\ Strikes'[w] \in Nat
                           /\ Strikes[w] = s_voices[w].alloc_seq
                           /\ Strikes'[w] = s_voices'[w].alloc_seq
                           /\ Releases[w] = s_voices[w].released_at
                           /\ Releases'[w] = s_voices'[w].released_at
      /\ s_alloc_seq \in Nat
  BY DEF In, Strikes, Releases, TypeOK, Voice
<1>3. Apart(S, Strikes) /\ Apart(R, Releases)
  BY DEF AgesApart
<1>4. /\ \A w \in S : Strikes[w] <= s_alloc_seq
      /\ \A w \in R : Releases[w] <= clock
  BY DEF AgesApart
<1> HIDE DEF S, R
<1>5. Apart(S0, Strikes) /\ ByAge(S0, Strikes) = (IF v \in S THEN Tail(HeldOrder) ELSE HeldOrder)
      /\ (v \in S => HeldOrder # <<>> /\ HeldOrder[1] = v)
  <2>1. CASE v \in S
    <3>1. /\ Apart(S0, Strikes) /\ Len(ByAge(S, Strikes)) > 0
          /\ ByAge(S, Strikes)[1] = v /\ ByAge(S0, Strikes) = Tail(ByAge(S, Strikes))
      BY <1>3, <2>1, OrderWithoutFirst DEF S
    <3>2. HeldOrder = ByAge(S, Strikes)
      BY DEF HeldOrder, S
    <3> HIDE DEF S0
    <3>3. Len(HeldOrder) > 0 => HeldOrder # <<>>
      OBVIOUS
    <3> QED
      BY <2>1, <3>1, <3>2, <3>3
  <2>2. CASE v \notin S
    <3>1. S0 = S
      BY <2>2
    <3> QED
      BY <1>3, <2>2, <3>1 DEF HeldOrder, S
  <2> QED
    BY <2>1, <2>2
<1>6. Apart(R0, Releases) /\ ByAge(R0, Releases) = (IF v \in R THEN Tail(TailOrder) ELSE TailOrder)
      /\ (v \in R => TailOrder # <<>> /\ TailOrder[1] = v)
  <2>1. CASE v \in R
    <3>1. /\ Apart(R0, Releases) /\ Len(ByAge(R, Releases)) > 0
          /\ ByAge(R, Releases)[1] = v /\ ByAge(R0, Releases) = Tail(ByAge(R, Releases))
      BY <1>3, <2>1, OrderWithoutFirst DEF R
    <3>2. TailOrder = ByAge(R, Releases)
      BY DEF TailOrder, R
    <3> HIDE DEF R0
    <3>3. Len(TailOrder) > 0 => TailOrder # <<>>
      OBVIOUS
    <3> QED
      BY <2>1, <3>1, <3>2, <3>3
  <2>2. CASE v \notin R
    <3>1. R0 = R
      BY <2>2
    <3> QED
      BY <1>3, <2>2, <3>1 DEF TailOrder, R
  <2> QED
    BY <2>1, <2>2
<1>7. Apart({v}, Strikes') /\ ByAge({v}, Strikes') = <<v>>
  BY <1>2, OrderOfOne
<1>8. \A w \in S0 : Strikes'[w] = Strikes[w]
  BY <1>2
<1>9. \A w \in S0, u \in {v} : Strikes'[w] < Strikes'[u]
  BY <1>2, <1>4, <1>8
<1>10. /\ Apart(S0 \union {v}, Strikes')
       /\ ByAge(S0 \union {v}, Strikes') = p \o <<v>>
  <2>1. S0 \cap {v} = {}
    OBVIOUS
  <2> HIDE DEF S0
  <2> DEFINE new == {v}
  <2>2. new = {v}
    OBVIOUS
  <2> HIDE DEF new
  <2>3. /\ Apart(S0 \union new, Strikes')
        /\ ByAge(S0 \union new, Strikes') = Joined(ByAge(S0, Strikes), ByAge(new, Strikes'))
    <3>1. Newer(new, S0, Strikes, Strikes')
      BY <1>8, <1>9, <2>1, <2>2 DEF Newer
    <3>2. Apart(S0, Strikes) /\ Apart(new, Strikes')
      BY <1>5, <1>7, <2>2
    <3> QED
      BY ONLY <3>1, <3>2, OrderAppends
  <2> QED
    BY <1>7, <2>2, <2>3 DEF Joined
<1>11. Apart(R0, Releases') /\ ByAge(R0, Releases') = ByAge(R0, Releases)
  <2>1. \A w \in R0 : Releases'[w] = Releases[w]
    BY <1>2
  <2> HIDE DEF R0
  <2> QED
    BY <1>6, <2>1, OrderSame
<1>12. /\ \A w \in S0 \union {v} : Strikes'[w] <= s_alloc_seq'
       /\ \A w \in R0 : Releases'[w] <= clock'
  BY <1>2, <1>4
<1>13. AgesApart'
  BY <1>1, <1>10, <1>11, <1>12 DEF AgesApart
<1>14. HeldOrder' = p \o <<v>> /\ TailOrder' = ByAge(R0, Releases)
  BY <1>1, <1>10, <1>11 DEF HeldOrder, TailOrder
<1>15. p \in Seq(S0) /\ ByAge(R0, Releases) \in Seq(R0)
  BY <1>5, <1>6, OrderOf
<1>16. p \in Seq(Voices \ {v}) /\ ByAge(R0, Releases) \in Seq(Voices \ {v})
  <2>1. S0 \subseteq Voices \ {v} /\ R0 \subseteq Voices \ {v}
    BY <1>2
  <2> HIDE DEF S0, R0, p
  <2> QED
    BY <1>15, <2>1
<1> QED
  BY <1>5, <1>6, <1>13, <1>14, <1>16 DEF S, R

(* note_on: the first idle voice, the tail released first or the strike    *)
(* held longest makes room for the new one.                                *)
LEMMA StrikeIsNoteOn ==
  ASSUME TypeOK, TypeOK', AgesApart, NEW note \in Notes, note_on(note)
  PROVE  AgesApart' /\ Abstract!NoteOn(note)
<1>1. PICK v \in Voices :
        /\ Pick(v)
        /\ s_voices' \in [Voices -> Voice]
        /\ s_voices'[v].state = "HELD" /\ s_voices'[v].note = note
        /\ ~s_voices'[v].sustained
        /\ s_voices'[v].alloc_seq = s_alloc_seq + 1
        /\ \A w \in Voices \ {v} : s_voices'[w] = s_voices[w]
  BY StrikeEffect
<1>2. s_alloc_seq' = s_alloc_seq + 1 /\ clock' = clock /\ s_sustain_pedal' = s_sustain_pedal
  BY DEF note_on
<1>3. \A w \in Voices : /\ s_voices[w].state \in {"IDLE", "HELD", "RELEASING"}
                        /\ s_voices[w].alloc_seq \in Nat /\ s_voices[w].released_at \in Nat
                        /\ Strikes[w] = s_voices[w].alloc_seq
                        /\ Releases[w] = s_voices[w].released_at
  BY DEF TypeOK, Voice, Strikes, Releases
<1>4. /\ v \in In("RELEASING") => /\ In("IDLE") = {}
                                  /\ \A w \in In("RELEASING") : Releases[v] <= Releases[w]
      /\ v \in In("HELD") => /\ In("IDLE") = {} /\ In("RELEASING") = {}
                             /\ \A w \in In("HELD") : Strikes[v] <= Strikes[w]
      /\ v \notin In("HELD") /\ v \notin In("RELEASING") => In("IDLE") # {}
  <2>1. CASE StruckFirst(v, In("IDLE"))
    BY <2>1 DEF StruckFirst, In
  <2>2. CASE In("IDLE") = {} /\ ReleasedFirst(v, In("RELEASING"))
    <3>1. /\ v \in In("RELEASING") /\ v \notin In("HELD")
          /\ \A w \in In("RELEASING") : s_voices[v].released_at <= s_voices[w].released_at
      BY <1>3, <2>2 DEF ReleasedFirst, In
    <3> QED
      BY <1>3, <2>2, <3>1 DEF In
  <2>3. CASE In("IDLE") = {} /\ In("RELEASING") = {} /\ StruckFirst(v, Voices)
    <3>1. /\ v \in In("HELD") /\ v \notin In("RELEASING")
          /\ \A w \in Voices : s_voices[v].alloc_seq <= s_voices[w].alloc_seq
      BY <1>3, <2>3 DEF StruckFirst, In
    <3> QED
      BY <1>3, <2>3, <3>1 DEF In
  <2> QED
    BY <1>1, <2>1, <2>2, <2>3 DEF Pick
<1>5. /\ AgesApart'
      /\ HeldOrder' = (IF v \in In("HELD") THEN Tail(HeldOrder) ELSE HeldOrder) \o <<v>>
      /\ TailOrder' = IF v \in In("RELEASING") THEN Tail(TailOrder) ELSE TailOrder
      /\ v \in In("HELD") => HeldOrder # <<>> /\ HeldOrder[1] = v
      /\ v \in In("RELEASING") => TailOrder # <<>> /\ TailOrder[1] = v
      /\ (IF v \in In("HELD") THEN Tail(HeldOrder) ELSE HeldOrder) \in Seq(Voices \ {v})
      /\ TailOrder' \in Seq(Voices \ {v})
  BY <1>1, <1>2, <1>4, StrikeMoves
<1> DEFINE p == IF v \in In("HELD") THEN Tail(HeldOrder) ELSE HeldOrder
<1>6. /\ HeldOrder \in Seq(Voices) /\ TailOrder \in Seq(Voices)
      /\ HeldInOrder = Along(HeldOrder, Entries)
      /\ TailsInOrder = Along(TailOrder, Tones)
      /\ \A w \in Voices : Entries[w] \in Entry /\ Tones[w] \in Tone
      /\ HeldInOrder' = Along(HeldOrder', Entries')
      /\ TailsInOrder' = Along(TailOrder', Tones')
      /\ \A w \in Voices : Entries'[w] \in Entry /\ Tones'[w] \in Tone
  BY <1>5, TableReads, TableReadsNext
<1>7. /\ \A w \in Voices \ {v} : Entries'[w] = Entries[w] /\ Tones'[w] = Tones[w]
      /\ Entries'[v] = Abstract!Strike(note)
  <2>1. Entries'[v] = [note |-> note, sustained |-> FALSE]
    <3>1. s_voices'[v].sustained \in BOOLEAN /\ s_voices'[v].sustained = FALSE
      BY <1>1 DEF Voice
    <3> QED
      BY <1>1, <3>1 DEF Entries
  <2> QED
    BY <1>1, <2>1 DEF Entries, Tones, Abstract!Strike
<1>8. /\ p \in Seq(Voices \ {v}) /\ p \in Seq(Voices)
      /\ HeldOrder' = p \o <<v>> /\ <<v>> \in Seq(Voices)
  BY <1>5
<1>9. Along(p, Entries) = IF v \in In("HELD") THEN Tail(HeldInOrder) ELSE HeldInOrder
  <2>1. CASE v \in In("HELD")
    <3>1. HeldOrder # <<>>
      BY <1>5, <2>1
    <3>2. Along(Tail(HeldOrder), Entries) = Tail(Along(HeldOrder, Entries))
      BY <1>6, <3>1, AlongTail
    <3> QED
      BY <1>6, <2>1, <3>2
  <2>2. CASE v \notin In("HELD")
    BY <1>6, <2>2
  <2> QED
    BY <2>1, <2>2
<1>10. Along(TailOrder', Tones') =
         IF v \in In("RELEASING") THEN Tail(TailsInOrder) ELSE TailsInOrder
  <2>1. Along(TailOrder', Tones') = Along(TailOrder', Tones)
    BY <1>5, <1>7, AlongSame
  <2>2. CASE v \in In("RELEASING")
    <3>1. TailOrder' = Tail(TailOrder) /\ TailOrder # <<>>
      BY <1>5, <2>2
    <3>2. Along(Tail(TailOrder), Tones) = Tail(Along(TailOrder, Tones))
      BY <1>6, <3>1, AlongTail
    <3> QED
      BY <1>6, <2>1, <2>2, <3>1, <3>2
  <2>3. CASE v \notin In("RELEASING")
    BY <1>5, <1>6, <2>1, <2>3
  <2> QED
    BY <2>2, <2>3
<1> HIDE DEF p
<1>11. HeldInOrder' = Append(Along(p, Entries), Abstract!Strike(note))
  <2>1. Along(HeldOrder', Entries') = Along(p, Entries') \o Along(<<v>>, Entries')
    <3> DEFINE one == <<v>>
    <3> HIDE DEF one
    <3>1. p \in Seq(Voices) /\ one \in Seq(Voices)
      BY <1>8 DEF one
    <3>2. Along(Joined(p, one), Entries') = Joined(Along(p, Entries'), Along(one, Entries'))
      BY ONLY <3>1, AlongBoth
    <3> QED
      BY <1>8, <3>2 DEF one, Joined
  <2>2. Along(p, Entries') = Along(p, Entries)
    BY <1>7, <1>8, AlongSame
  <2>3. Along(<<v>>, Entries') = <<Abstract!Strike(note)>>
    BY <1>7 DEF Along
  <2>4. Along(p, Entries) \in Seq(Entry)
    BY <1>6, <1>8, AlongSeq
  <2>5. ASSUME NEW s \in Seq(Entry), NEW x PROVE s \o <<x>> = Append(s, x)
    OBVIOUS
  <2> QED
    BY <1>6, <2>1, <2>2, <2>3, <2>4, <2>5, Zenon
<1>12. TailsInOrder' = IF v \in In("RELEASING") THEN Tail(TailsInOrder) ELSE TailsInOrder
  BY <1>6, <1>10
<1>13. /\ Abstract!Full <=> In("IDLE") = {}
       /\ TailsInOrder = <<>> <=> In("RELEASING") = {}
  BY FullWhenNoneIdle DEF Abstract!Full
<1>14. /\ v \in In("RELEASING") <=> Abstract!Full /\ TailsInOrder # <<>>
       /\ v \in In("HELD") <=> Abstract!Full /\ TailsInOrder = <<>>
  <2>1. ~(v \in In("HELD") /\ v \in In("RELEASING"))
    BY DEF In
  <2>2. v \in In("RELEASING") => In("RELEASING") # {}
    OBVIOUS
  <2> QED
    BY <1>4, <1>13, <2>1, <2>2
<1> QED
  BY <1>2, <1>5, <1>9, <1>11, <1>12, <1>14 DEF Abstract!NoteOn

-----------------------------------------------------------------------------
(* A release is later than all before it and than those of the same set    *)
(* that come before it in the table.                                       *)
LEMMA ReleaseTimes ==
  ASSUME TypeOK, NEW R \in SUBSET Voices, Release(R)
  PROVE  /\ \A v \in R : /\ s_voices'[v].released_at \in Nat
                         /\ clock < s_voices'[v].released_at
                         /\ s_voices'[v].released_at <= clock'
         /\ \A v, w \in R : s_voices'[v].released_at = s_voices'[w].released_at => v = w
         /\ \A v \in Voices : s_voices'[v].note = s_voices[v].note
<1> DEFINE upto(v) == {w \in R : w <= v}
<1>1. \A v \in Voices : v \in Int
  BY VoiceCountAssumption DEF Voices
<1>2. clock \in Nat /\ IsFiniteSet(R) /\ Cardinality(R) \in Nat
  BY SubsetFinite DEF TypeOK
<1>3. ASSUME NEW v \in R
      PROVE  /\ IsFiniteSet(upto(v)) /\ Cardinality(upto(v)) \in Nat
             /\ 0 < Cardinality(upto(v)) /\ Cardinality(upto(v)) <= Cardinality(R)
  <2>1. upto(v) \in SUBSET R /\ v \in upto(v)
    BY <1>1
  <2>2. IsFiniteSet(upto(v)) /\ Cardinality(upto(v)) <= Cardinality(R)
    BY <1>2, <2>1, FS_Subset
  <2>3. Cardinality(upto(v)) \in Nat /\ Cardinality(upto(v)) # 0
    BY <2>1, <2>2, FS_CardinalityType, FS_EmptySet
  <2> HIDE DEF upto
  <2> QED
    BY <2>2, <2>3
<1>4. ASSUME NEW v \in R, NEW w \in R, v < w
      PROVE  Cardinality(upto(v)) < Cardinality(upto(w))
  <2>1. upto(v) \in SUBSET upto(w) /\ w \in upto(w) /\ w \notin upto(v)
    BY <1>1, <1>4
  <2>2. Cardinality(upto(v)) <= Cardinality(upto(w)) /\ Cardinality(upto(v)) # Cardinality(upto(w))
    BY <1>3, <2>1, FS_Subset
  <2>3. Cardinality(upto(v)) \in Nat /\ Cardinality(upto(w)) \in Nat
    BY <1>3
  <2> HIDE DEF upto
  <2> QED
    BY <2>2, <2>3
<1>5. \A v \in R : s_voices'[v].released_at = clock + Cardinality(upto(v))
  BY DEF Release, TypeOK, Voice
<1>6. clock' = clock + Cardinality(R) /\ \A v \in Voices : s_voices'[v].note = s_voices[v].note
  BY DEF Release, TypeOK, Voice
<1> HIDE DEF upto
<1>7. \A v \in R : /\ s_voices'[v].released_at \in Nat
                   /\ clock < s_voices'[v].released_at
                   /\ s_voices'[v].released_at <= clock'
  <2> TAKE v \in R
  <2>1. /\ Cardinality(upto(v)) \in Nat /\ 0 < Cardinality(upto(v))
        /\ Cardinality(upto(v)) <= Cardinality(R)
    BY <1>3
  <2> QED
    BY <1>2, <1>5, <1>6, <2>1
<1>8. ASSUME NEW v \in R, NEW w \in R, s_voices'[v].released_at = s_voices'[w].released_at
      PROVE  v = w
  <2>1. /\ clock + Cardinality(upto(v)) = clock + Cardinality(upto(w))
        /\ Cardinality(upto(v)) \in Nat /\ Cardinality(upto(w)) \in Nat
    BY <1>3, <1>5, <1>8
  <2>2. Cardinality(upto(v)) = Cardinality(upto(w))
    BY <1>2, <2>1
  <2>3. v \in Int /\ w \in Int
    BY <1>1
  <2>4. ~(v < w) /\ ~(w < v)
    BY <1>4, <2>1, <2>2
  <2> QED
    BY <2>3, <2>4
<1> QED
  BY <1>6, <1>7, <1>8

(* Released voices leave the held ones' order and come behind the tails.   *)
LEMMA ReleaseMoves ==
  ASSUME TypeOK, TypeOK', AgesApart, NEW R \in SUBSET In("HELD"), Release(R),
         s_alloc_seq' = s_alloc_seq
  PROVE  /\ AgesApart' /\ Apart(R, Releases')
         /\ HeldOrder' = ByAge(In("HELD") \ R, Strikes)
         /\ TailOrder' = Joined(TailOrder, ByAge(R, Releases'))
         /\ \A v \in Voices : Tones'[v] = Tones[v]
         /\ \A v \in Voices \ R : Entries'[v] = Entries[v]
<1> DEFINE S == In("HELD")
           T == In("RELEASING")
           S0 == S \ R
<1>1. R \in SUBSET Voices /\ S \subseteq Voices /\ T \subseteq Voices /\ T \cap R = {}
  BY DEF In
<1>2. /\ \A v \in Voices :
           /\ v \in R => s_voices'[v].state = "RELEASING"
           /\ v \notin R => s_voices'[v] = s_voices[v]
           /\ s_voices'[v].alloc_seq = s_voices[v].alloc_seq
           /\ s_voices'[v].note = s_voices[v].note
      /\ clock' \in Nat
  BY <1>1, ReleaseEffect, ReleaseTimes
<1>3. S' = S0 /\ T' = T \union R
  BY <1>1, <1>2 DEF In
<1>4. \A w \in Voices : /\ Strikes[w] = s_voices[w].alloc_seq
                        /\ Strikes'[w] = s_voices'[w].alloc_seq
                        /\ Releases[w] = s_voices[w].released_at
                        /\ Releases'[w] = s_voices'[w].released_at
                        /\ Releases[w] \in Nat
  BY DEF Strikes, Releases, TypeOK, Voice
<1>5. /\ Apart(S, Strikes) /\ Apart(T, Releases)
      /\ \A w \in S : Strikes[w] <= s_alloc_seq
      /\ \A w \in T : Releases[w] <= clock
  BY DEF AgesApart
<1>6. \A v \in R : Releases'[v] \in Nat /\ clock < Releases'[v] /\ Releases'[v] <= clock'
  BY <1>1, <1>4, ReleaseTimes
<1>7. Apart(R, Releases')
  <2>1. IsFiniteSet(R)
    BY <1>1, SubsetFinite
  <2>2. \A v, w \in R : Releases'[v] = Releases'[w] => v = w
    BY <1>1, <1>4, ReleaseTimes
  <2> QED
    BY <1>6, <2>1, <2>2 DEF Apart
<1> HIDE DEF S, T
<1>8. Newer(R, T, Releases, Releases')
  <2>1. \A w \in T : Releases'[w] = Releases[w] /\ Releases[w] <= clock /\ Releases[w] \in Nat
    BY <1>1, <1>2, <1>4, <1>5
  <2>2. clock \in Nat
    BY DEF TypeOK
  <2>3. \A w \in T, v \in R : Releases'[w] < Releases'[v]
    BY <1>6, <2>1, <2>2
  <2> QED
    BY <1>1, <2>1, <2>3 DEF Newer
<1>9. /\ Apart(T \union R, Releases')
      /\ ByAge(T \union R, Releases') = Joined(ByAge(T, Releases), ByAge(R, Releases'))
  BY ONLY <1>5, <1>7, <1>8, OrderAppends
<1>10. Apart(S0, Strikes') /\ ByAge(S0, Strikes') = ByAge(S0, Strikes)
  <2>1. Apart(S0, Strikes)
    <3>1. IsFiniteSet(S0)
      BY <1>5, FS_Subset DEF Apart
    <3> QED
      BY <1>5, <3>1 DEF Apart
  <2>2. \A w \in S0 : Strikes'[w] = Strikes[w]
    BY <1>1, <1>2, <1>4
  <2> HIDE DEF S0
  <2> QED
    BY <2>1, <2>2, OrderSame
<1>11. /\ \A w \in S0 : Strikes'[w] <= s_alloc_seq'
       /\ \A w \in T \union R : Releases'[w] <= clock'
  <2>1. \A w \in S0 : Strikes'[w] <= s_alloc_seq'
    BY <1>1, <1>2, <1>4, <1>5
  <2>2. \A w \in T : Releases'[w] <= clock'
    <3>1. clock' = clock + Cardinality(R) /\ Cardinality(R) \in Nat /\ clock \in Nat
      BY <1>1, SubsetFinite DEF Release, TypeOK
    <3> QED
      BY <1>1, <1>2, <1>4, <1>5, <3>1
  <2> QED
    BY <1>6, <2>1, <2>2
<1>12. AgesApart'
  BY <1>3, <1>9, <1>10, <1>11 DEF AgesApart, S, T
<1>13. HeldOrder' = ByAge(S0, Strikes) /\ TailOrder' = Joined(TailOrder, ByAge(R, Releases'))
  BY <1>3, <1>9, <1>10 DEF HeldOrder, TailOrder, S, T
<1>14. /\ \A v \in Voices : Tones'[v] = Tones[v]
       /\ \A v \in Voices \ R : Entries'[v] = Entries[v]
  BY <1>2 DEF Tones, Entries
<1> QED
  BY <1>7, <1>12, <1>13, <1>14 DEF S

LEMMA ReleaseIsReleaseAt ==
  ASSUME TypeOK, TypeOK', AgesApart, NEW R \in SUBSET In("HELD"), Release(R),
         s_alloc_seq' = s_alloc_seq
  PROVE  AgesApart' /\ Abstract!ReleaseAt(Places(HeldOrder, R))
<1> DEFINE P == Places(HeldOrder, R)
           q == ByAge(R, Releases')
<1>1. /\ AgesApart' /\ Apart(R, Releases')
      /\ HeldOrder' = ByAge(In("HELD") \ R, Strikes)
      /\ TailOrder' = Joined(TailOrder, q)
      /\ \A v \in Voices : Tones'[v] = Tones[v]
      /\ \A v \in Voices \ R : Entries'[v] = Entries[v]
  BY ReleaseMoves
<1>2. /\ HeldOrder \in Seq(Voices) /\ TailOrder \in Seq(Voices)
      /\ HeldInOrder = Along(HeldOrder, Entries)
      /\ TailsInOrder = Along(TailOrder, Tones)
      /\ HeldOrder' \in Seq(Voices) /\ TailOrder' \in Seq(Voices)
      /\ HeldInOrder' = Along(HeldOrder', Entries')
      /\ TailsInOrder' = Along(TailOrder', Tones')
  BY <1>1, TableReads, TableReadsNext
<1>3. Apart(In("HELD"), Strikes) /\ HeldOrder = ByAge(In("HELD"), Strikes)
      /\ In("HELD") \subseteq Voices
  BY DEF AgesApart, HeldOrder, In
<1>4. DOMAIN HeldInOrder = DOMAIN HeldOrder
      /\ \A i \in DOMAIN HeldOrder : HeldInOrder[i] = Entries[HeldOrder[i]]
  BY <1>2 DEF Along
<1> HIDE DEF HeldOrder, TailOrder
<1>5. \E rest \in Abstract!Ascending(DOMAIN HeldInOrder \ P) :
        HeldInOrder' = [i \in DOMAIN rest |-> HeldInOrder[rest[i]]]
  <2>1. PICK rest \in Abstract!Ascending(DOMAIN HeldOrder \ P) :
          ByAge(In("HELD") \ R, Strikes) = Along(rest, HeldOrder)
    BY <1>3, OrderWithout
  <2>2. /\ DOMAIN HeldOrder' = DOMAIN rest
        /\ \A i \in DOMAIN rest : HeldOrder'[i] = HeldOrder[rest[i]]
    BY <1>1, <2>1 DEF Along
  <2>3. \A i \in DOMAIN rest : rest[i] \in DOMAIN HeldOrder \ P
    <3> DEFINE N == DOMAIN HeldOrder \ P
    <3>1. rest \in SetToSeqs(N)
      BY <2>1, SameOrders DEF Abstract!Ascending
    <3> HIDE DEF N
    <3>2. rest \in [1 .. Cardinality(N) -> N]
      BY <3>1 DEF SetToSeqs
    <3>3. \A i \in DOMAIN rest : rest[i] \in N
      BY <3>2
    <3> QED
      BY <3>3 DEF N
  <2>4. \A i \in DOMAIN rest : /\ HeldOrder'[i] \in Voices \ R
                               /\ Entries'[HeldOrder'[i]] = HeldInOrder[rest[i]]
    <3> TAKE i \in DOMAIN rest
    <3>1. /\ HeldOrder'[i] = HeldOrder[rest[i]] /\ rest[i] \in DOMAIN HeldOrder
          /\ HeldOrder[rest[i]] \notin R
      BY <2>2, <2>3 DEF Places
    <3>2. HeldOrder[rest[i]] \in Voices
      BY <1>2, <3>1
    <3> QED
      BY <1>1, <1>4, <3>1, <3>2
  <2>5. HeldInOrder' = [i \in DOMAIN rest |-> HeldInOrder[rest[i]]]
    BY <1>2, <2>2, <2>4 DEF Along
  <2> QED
    BY <1>4, <2>1, <2>5
<1>6. \E order \in Abstract!SetToSeqs(P) :
        TailsInOrder' = TailsInOrder \o [i \in DOMAIN order |-> HeldInOrder[order[i]].note]
  <2>1. PICK order \in SetToSeqs(P) :
          /\ DOMAIN order = DOMAIN q
          /\ \A i \in DOMAIN order : /\ order[i] \in DOMAIN HeldOrder
                                     /\ HeldOrder[order[i]] = q[i]
    BY <1>1, <1>3, PlacesOf
  <2>2. q \in Seq(Voices)
    <3>1. q \in Seq(R)
      BY <1>1, OrderOf
    <3> HIDE DEF q
    <3> QED
      BY <1>3, <3>1
  <2> HIDE DEF q
  <2>3. TailsInOrder' = Joined(TailsInOrder, Along(q, Tones))
    <3>1. Along(TailOrder', Tones') = Along(TailOrder', Tones)
      BY <1>1, <1>2, AlongSame
    <3>2. Along(Joined(TailOrder, q), Tones) = Joined(Along(TailOrder, Tones), Along(q, Tones))
      BY <1>2, <2>2, AlongBoth
    <3> QED
      BY <1>1, <1>2, <3>1, <3>2
  <2>4. \A i \in DOMAIN q : Tones[q[i]] = HeldInOrder[order[i]].note
    <3> TAKE i \in DOMAIN q
    <3>1. order[i] \in DOMAIN HeldOrder /\ HeldOrder[order[i]] = q[i] /\ q[i] \in Voices
      BY <2>1, <2>2
    <3>2. HeldInOrder[order[i]] = Entries[q[i]]
      BY <1>4, <3>1
    <3> QED
      BY <3>1, <3>2 DEF Tones, Entries
  <2>5. Along(q, Tones) = [i \in DOMAIN order |-> HeldInOrder[order[i]].note]
    BY <2>1, <2>4 DEF Along
  <2> QED
    BY <2>1, <2>3, <2>5, SameOrders DEF Joined
<1> QED
  BY <1>1, <1>5, <1>6 DEF Abstract!ReleaseAt

(* What a voice is in its order.                                           *)
LEMMA HeldPlaces ==
  ASSUME TypeOK, AgesApart
  PROVE  /\ DOMAIN HeldInOrder = DOMAIN HeldOrder /\ DOMAIN HeldOrder \subseteq Nat
         /\ HeldInOrder = Along(HeldOrder, Entries)
         /\ \A i \in DOMAIN HeldOrder :
              /\ HeldOrder[i] \in In("HELD") /\ HeldOrder[i] \in Voices
              /\ HeldInOrder[i].note = s_voices[HeldOrder[i]].note
              /\ HeldInOrder[i].sustained = s_voices[HeldOrder[i]].sustained
         /\ \A i, j \in DOMAIN HeldOrder :
              /\ HeldOrder[i] = HeldOrder[j] => i = j
              /\ i < j => s_voices[HeldOrder[i]].alloc_seq < s_voices[HeldOrder[j]].alloc_seq
         /\ \A v \in In("HELD") : \E i \in DOMAIN HeldOrder : HeldOrder[i] = v
<1>1. /\ HeldOrder \in Seq(In("HELD"))
      /\ \A i, j \in DOMAIN HeldOrder :
           /\ HeldOrder[i] = HeldOrder[j] => i = j
           /\ i < j => Strikes[HeldOrder[i]] < Strikes[HeldOrder[j]]
      /\ \A v \in In("HELD") : \E i \in DOMAIN HeldOrder : HeldOrder[i] = v
  <2> DEFINE S == In("HELD")
             p == ByAge(S, Strikes)
  <2> HIDE DEF S
  <2>1. /\ p \in Seq(S) /\ DOMAIN p = 1 .. Cardinality(S)
        /\ \A i, j \in 1 .. Cardinality(S) :
             /\ i < j => Strikes[p[i]] < Strikes[p[j]]
             /\ p[i] = p[j] => i = j
        /\ \A v \in S : \E i \in 1 .. Cardinality(S) : p[i] = v
    BY OrderOf DEF AgesApart, S
  <2> HIDE DEF p
  <2>2. HeldOrder = p
    BY DEF HeldOrder, p, S
  <2> QED
    BY <2>1, <2>2 DEF S
<1>2. HeldInOrder = Along(HeldOrder, Entries)
  BY TableReads
<1>3. In("HELD") \subseteq Voices
  BY DEF In
<1> HIDE DEF HeldOrder
<1>4. /\ DOMAIN HeldOrder \subseteq Nat
      /\ \A i \in DOMAIN HeldOrder : HeldOrder[i] \in In("HELD") /\ HeldOrder[i] \in Voices
  BY <1>1, <1>3
<1>5. /\ DOMAIN HeldInOrder = DOMAIN HeldOrder
      /\ \A i \in DOMAIN HeldOrder : HeldInOrder[i] = Entries[HeldOrder[i]]
  BY <1>2 DEF Along
<1>6. \A i \in DOMAIN HeldOrder :
        /\ HeldInOrder[i].note = s_voices[HeldOrder[i]].note
        /\ HeldInOrder[i].sustained = s_voices[HeldOrder[i]].sustained
  <2>1. \A v \in Voices : /\ Entries[v].note = s_voices[v].note
                           /\ Entries[v].sustained = s_voices[v].sustained
    BY DEF Entries
  <2> QED
    BY <1>4, <1>5, <2>1
<1>7. \A v \in Voices : Strikes[v] = s_voices[v].alloc_seq
  BY DEF Strikes
<1> QED
  BY <1>1, <1>2, <1>4, <1>5, <1>6, <1>7

(* With the pedal down a key-up only marks its voice.                      *)
LEMMA MarkMoves ==
  ASSUME TypeOK, TypeOK', AgesApart, NEW v \in In("HELD"),
         s_voices' = [s_voices EXCEPT ![v].sustained = TRUE],
         UNCHANGED <<clock, s_alloc_seq>>
  PROVE  /\ AgesApart' /\ TailsInOrder' = TailsInOrder
         /\ \A i \in DOMAIN HeldOrder :
              HeldOrder[i] = v => HeldInOrder' = [HeldInOrder EXCEPT ![i].sustained = TRUE]
<1>1. v \in Voices
  BY DEF In
<1>2. \A w \in Voices :
        /\ s_voices'[w].state = s_voices[w].state /\ s_voices'[w].note = s_voices[w].note
        /\ s_voices'[w].alloc_seq = s_voices[w].alloc_seq
        /\ s_voices'[w].released_at = s_voices[w].released_at
        /\ s_voices'[w].sustained = IF w = v THEN TRUE ELSE s_voices[w].sustained
  BY <1>1 DEF TypeOK, Voice
<1>3. In("HELD")' = In("HELD") /\ In("RELEASING")' = In("RELEASING")
  BY <1>2 DEF In
<1>4. Strikes' = Strikes /\ Releases' = Releases /\ Tones' = Tones
  BY <1>2 DEF Strikes, Releases, Tones
<1>5. AgesApart'
  BY <1>3, <1>4 DEF AgesApart
<1>6. HeldOrder' = HeldOrder /\ TailOrder' = TailOrder
  BY <1>3, <1>4 DEF HeldOrder, TailOrder
<1>7. TailsInOrder' = TailsInOrder
  BY <1>4, <1>5, <1>6, TableReads, TableReadsNext
<1>8. ASSUME NEW i \in DOMAIN HeldOrder, HeldOrder[i] = v
      PROVE  HeldInOrder' = [HeldInOrder EXCEPT ![i].sustained = TRUE]
  <2>1. /\ DOMAIN HeldInOrder = DOMAIN HeldOrder
        /\ \A j \in DOMAIN HeldOrder : HeldOrder[j] \in Voices /\ (HeldOrder[j] = v => j = i)
    BY <1>8, HeldPlaces
  <2>2. HeldInOrder' = Along(HeldOrder, Entries') /\ HeldInOrder = Along(HeldOrder, Entries)
    BY <1>5, <1>6, TableReads, TableReadsNext
  <2>3. \A w \in Voices : Entries'[w] = IF w = v THEN [Entries[w] EXCEPT !.sustained = TRUE]
                                         ELSE Entries[w]
    <3>1. \A w \in Voices \ {v} : Entries'[w] = Entries[w]
      BY <1>2 DEF Entries
    <3> DEFINE x == Entries[v]
               y == [x EXCEPT !.sustained = TRUE]
               z == Entries'[v]
    <3>2. x \in Entry /\ z \in Entry
      BY <1>1, <1>5, TableReads, TableReadsNext
    <3>3. z.note = x.note /\ z.sustained = TRUE
      <4>1. /\ x = [note |-> s_voices[v].note, sustained |-> s_voices[v].sustained]
            /\ z = [note |-> s_voices'[v].note, sustained |-> s_voices'[v].sustained]
        BY <1>1 DEF Entries
      <4>2. s_voices'[v].note = s_voices[v].note /\ s_voices'[v].sustained = TRUE
        BY <1>1, <1>2
      <4> HIDE DEF x, z
      <4> QED
        BY <4>1, <4>2
    <3> HIDE DEF x, z
    <3>4. y \in Entry /\ y.note = x.note /\ y.sustained = TRUE
      BY <3>2 DEF Entry
    <3> HIDE DEF y
    <3>5. z = y
      BY <3>2, <3>3, <3>4 DEF Entry
    <3>6. Entries'[v] = [Entries[v] EXCEPT !.sustained = TRUE]
      BY <3>5 DEF x, y, z
    <3> QED
      BY <3>1, <3>6
  <2>4. HeldInOrder = [j \in DOMAIN HeldOrder |-> Entries[HeldOrder[j]]]
        /\ HeldInOrder' = [j \in DOMAIN HeldOrder |-> Entries'[HeldOrder[j]]]
    BY <2>2 DEF Along
  <2>5. \A j \in DOMAIN HeldOrder :
          Entries'[HeldOrder[j]] = IF j = i THEN [HeldInOrder[j] EXCEPT !.sustained = TRUE]
                                   ELSE HeldInOrder[j]
    BY <1>8, <2>1, <2>3, <2>4
  <2> HIDE DEF HeldOrder
  <2> DEFINE h == HeldInOrder
             next == HeldInOrder'
  <2>6. h = [j \in DOMAIN HeldOrder |-> h[j]]
    BY <2>4
  <2>7. next = [j \in DOMAIN HeldOrder |->
                  IF j = i THEN [h[j] EXCEPT !.sustained = TRUE] ELSE h[j]]
    BY <2>4, <2>5
  <2> HIDE DEF h, next
  <2>8. next = [h EXCEPT ![i].sustained = TRUE]
    BY <1>8, <2>6, <2>7
  <2> QED
    BY <2>8 DEF h, next
<1> QED
  BY <1>5, <1>7, <1>8

(* note_off: the oldest strike of the note that no key-up has reached.     *)
LEMMA OffIsNoteOff ==
  ASSUME TypeOK, TypeOK', AgesApart, NEW note \in Notes, note_off(note)
  PROVE  /\ AgesApart'
         /\ Abstract!NoteOff(note) \/ UNCHANGED <<HeldInOrder, TailsInOrder, s_sustain_pedal>>
<1>1. s_alloc_seq' = s_alloc_seq /\ s_sustain_pedal' = s_sustain_pedal
  BY DEF note_off
<1>2. CASE HeldByKey(note) = {} /\ UNCHANGED <<s_voices, clock>>
  <2>1. /\ In("HELD")' = In("HELD") /\ In("RELEASING")' = In("RELEASING")
        /\ Strikes' = Strikes /\ Releases' = Releases
    BY <1>2 DEF In, Strikes, Releases
  <2>2. AgesApart'
    BY <1>1, <1>2, <2>1 DEF AgesApart
  <2>3. UNCHANGED <<HeldInOrder, TailsInOrder>>
    BY <1>2, <2>1 DEF HeldInOrder, TailsInOrder
  <2> QED
    BY <1>1, <2>2, <2>3
<1>3. ASSUME NEW v \in Voices, StruckFirst(v, HeldByKey(note)),
             \/ s_sustain_pedal /\ s_voices' = [s_voices EXCEPT ![v].sustained = TRUE]
                                /\ UNCHANGED clock
             \/ ~s_sustain_pedal /\ Release({v})
      PROVE  AgesApart' /\ Abstract!NoteOff(note)
  <2>1. /\ v \in In("HELD") /\ s_voices[v].note = note /\ ~s_voices[v].sustained
        /\ \A w \in HeldByKey(note) : s_voices[v].alloc_seq <= s_voices[w].alloc_seq
    <3>1. \A w \in Voices : s_voices[w].alloc_seq \in Nat
      BY DEF TypeOK, Voice
    <3> QED
      BY <1>3, <3>1 DEF StruckFirst, HeldByKey, In
  <2>2. PICK i \in DOMAIN HeldOrder : HeldOrder[i] = v
    BY <2>1, HeldPlaces
  <2>3. i \in DOMAIN HeldInOrder /\ HeldInOrder[i].note = note /\ ~HeldInOrder[i].sustained
    BY <2>1, <2>2, HeldPlaces
  <2>4. \A j \in 1 .. i - 1 : HeldInOrder[j].note # note \/ HeldInOrder[j].sustained
    <3> SUFFICES ASSUME NEW j \in 1 .. i - 1, HeldInOrder[j].note = note,
                        ~HeldInOrder[j].sustained
                 PROVE  FALSE
      OBVIOUS
    <3>1. j \in DOMAIN HeldOrder /\ j < i
      <4>1. HeldOrder \in Seq(Voices)
        BY TableReads
      <4> HIDE DEF HeldOrder
      <4> QED
        BY <2>2, <4>1
    <3>2. HeldOrder[j] \in HeldByKey(note)
      BY <3>1, HeldPlaces DEF HeldByKey
    <3>3. s_voices[HeldOrder[j]].alloc_seq < s_voices[v].alloc_seq
      BY <2>2, <3>1, HeldPlaces
    <3>4. s_voices[v].alloc_seq \in Nat /\ s_voices[HeldOrder[j]].alloc_seq \in Nat
      BY <3>1, HeldPlaces DEF TypeOK, Voice
    <3> QED
      BY <2>1, <3>2, <3>3, <3>4
  <2>5. CASE s_sustain_pedal /\ s_voices' = [s_voices EXCEPT ![v].sustained = TRUE]
             /\ UNCHANGED clock
    <3>1. /\ AgesApart' /\ TailsInOrder' = TailsInOrder
          /\ HeldInOrder' = [HeldInOrder EXCEPT ![i].sustained = TRUE]
      BY <1>1, <2>1, <2>2, <2>5, MarkMoves
    <3> QED
      BY <1>1, <2>3, <2>4, <2>5, <3>1 DEF Abstract!NoteOff
  <2>6. CASE ~s_sustain_pedal /\ Release({v})
    <3>1. /\ AgesApart'
          /\ Abstract!ReleaseAt(Places(HeldOrder, {v}))
      BY <1>1, <2>1, <2>6, ReleaseIsReleaseAt
    <3>2. Places(HeldOrder, {v}) = {i}
      BY <2>2, HeldPlaces DEF Places
    <3>3. Abstract!ReleaseAt({i})
      BY <3>1, <3>2
    <3> QED
      BY <1>1, <2>3, <2>4, <2>6, <3>1, <3>3 DEF Abstract!NoteOff
  <2> QED
    BY <1>3, <2>5, <2>6
<1> QED
  BY <1>2, <1>3 DEF note_off

(* all_sound_off: nothing sounds.                                          *)
LEMMA SoundOffIsSilence ==
  ASSUME TypeOK, TypeOK', AgesApart, all_sound_off
  PROVE  AgesApart' /\ Abstract!AllSoundOff
<1>1. In("HELD")' = {} /\ In("RELEASING")' = {}
  BY Silenced DEF In
<1>2. AgesApart'
  BY <1>1, FS_EmptySet DEF AgesApart, Apart
<1>3. Len(HeldOrder') = 0 /\ Len(TailOrder') = 0
  <2>1. /\ Len(HeldOrder') = Cardinality(In("HELD")')
        /\ Len(TailOrder') = Cardinality(In("RELEASING")')
    BY <1>2, OrderOf DEF AgesApart, HeldOrder, TailOrder
  <2> QED
    BY <1>1, <2>1, FS_EmptySet
<1>4. HeldInOrder' = <<>> /\ TailsInOrder' = <<>>
  <2>1. HeldOrder' \in Seq(Voices) /\ TailOrder' \in Seq(Voices)
        /\ HeldInOrder' = Along(HeldOrder', Entries') /\ TailsInOrder' = Along(TailOrder', Tones')
    BY <1>2, TableReadsNext
  <2>2. HeldOrder' = <<>> /\ TailOrder' = <<>>
    BY <1>3, <2>1
  <2> QED
    BY <2>1, <2>2 DEF Along
<1> QED
  BY <1>2, <1>4 DEF all_sound_off, Abstract!AllSoundOff

LEMMA KeystrokesStep ==
  ASSUME TypeOK, TypeOK', AgesApart, [Next]_vars
  PROVE  AgesApart' /\ [Abstract!Next]_(Abstract!vars)
<1>1. ASSUME NEW note \in Notes, note_on(note) PROVE AgesApart' /\ Abstract!Next
  BY <1>1, StrikeIsNoteOn DEF Abstract!Next
<1>2. ASSUME NEW note \in Notes, note_off(note)
      PROVE  AgesApart' /\ [Abstract!Next]_(Abstract!vars)
  BY <1>2, OffIsNoteOff DEF Abstract!Next, Abstract!vars
<1>3. ASSUME sustain_pedal_update(TRUE) PROVE AgesApart' /\ Abstract!Next
  <2>1. UNCHANGED <<s_voices, clock, s_alloc_seq>> /\ s_sustain_pedal' = TRUE
    BY <1>3 DEF sustain_pedal_update
  <2>2. /\ In("HELD")' = In("HELD") /\ In("RELEASING")' = In("RELEASING")
        /\ Strikes' = Strikes /\ Releases' = Releases
    BY <2>1 DEF In, Strikes, Releases
  <2>3. AgesApart'
    BY <2>1, <2>2 DEF AgesApart
  <2>4. UNCHANGED <<HeldInOrder, TailsInOrder>>
    BY <2>1, <2>2 DEF HeldInOrder, TailsInOrder
  <2> QED
    BY <2>1, <2>3, <2>4 DEF Abstract!Next, Abstract!PedalDown
<1>4. ASSUME sustain_pedal_update(FALSE) PROVE AgesApart' /\ Abstract!Next
  <2> DEFINE R == {v \in In("HELD") : s_voices[v].sustained}
  <2>1. Release(R) /\ s_alloc_seq' = s_alloc_seq /\ s_sustain_pedal' = FALSE
    BY <1>4 DEF sustain_pedal_update
  <2>2. AgesApart' /\ Abstract!ReleaseAt(Places(HeldOrder, R))
    BY <2>1, ReleaseIsReleaseAt
  <2>3. Places(HeldOrder, R)
          = {i \in DOMAIN HeldInOrder : HeldInOrder[i].sustained}
    BY HeldPlaces DEF Places
  <2> QED
    BY <2>1, <2>2, <2>3 DEF Abstract!Next, Abstract!PedalUp
<1>5. CASE all_notes_off
  <2>1. Release(In("HELD")) /\ s_alloc_seq' = s_alloc_seq /\ s_sustain_pedal' = FALSE
    BY <1>5 DEF all_notes_off
  <2>2. AgesApart' /\ Abstract!ReleaseAt(Places(HeldOrder, In("HELD")))
    BY <2>1, ReleaseIsReleaseAt
  <2>3. Places(HeldOrder, In("HELD")) = DOMAIN HeldInOrder
    BY HeldPlaces DEF Places
  <2> QED
    BY <2>1, <2>2, <2>3 DEF Abstract!Next, Abstract!AllNotesOff
<1>6. CASE all_sound_off
  BY <1>6, SoundOffIsSilence DEF Abstract!Next
<1>7. CASE UNCHANGED vars
  <2>1. /\ In("HELD")' = In("HELD") /\ In("RELEASING")' = In("RELEASING")
        /\ Strikes' = Strikes /\ Releases' = Releases
    BY <1>7 DEF vars, In, Strikes, Releases
  <2>2. AgesApart'
    BY <1>7, <2>1 DEF vars, AgesApart
  <2>3. UNCHANGED <<HeldInOrder, TailsInOrder>>
    BY <1>7, <2>1 DEF vars, HeldInOrder, TailsInOrder
  <2> QED
    BY <1>7, <2>2, <2>3 DEF vars, Abstract!vars
<1> QED
  BY <1>1, <1>2, <1>3, <1>4, <1>5, <1>6, <1>7 DEF Next

(***************************************************************************)
(* The table of voices implements the keystrokes, for every polyphony: a   *)
(* strike beyond it costs the tail released first and only with no tail    *)
(* left the strike held longest, and a key-up reaches the oldest strike of *)
(* its note (voice_alloc.cpp:233-349, 404-427).                            *)
(***************************************************************************)
THEOREM TableImplementsKeystrokes == Spec => ImplementsKeystrokes
<1>1. Init => AgesApart /\ Abstract!Init
  <2> SUFFICES ASSUME Init PROVE AgesApart /\ Abstract!Init
    OBVIOUS
  <2>1. In("HELD") = {} /\ In("RELEASING") = {} /\ s_sustain_pedal = FALSE
    BY DEF Init, In, Fresh
  <2>2. AgesApart
    BY <2>1, FS_EmptySet DEF AgesApart, Apart
  <2>3. HeldInOrder = <<>> /\ TailsInOrder = <<>>
    <3>1. TypeOK
      BY InitTypes
    <3>2. Len(HeldInOrder) = 0 /\ Len(TailsInOrder) = 0
      BY <2>1, <2>2, <3>1, FullWhenNoneIdle, FS_EmptySet
    <3>3. HeldInOrder \in Seq(Entry) /\ TailsInOrder \in Seq(Tone)
      BY <2>2, <3>1, TableReads, AlongSeq
    <3> QED
      BY <3>2, <3>3
  <2> QED
    BY <2>1, <2>2, <2>3 DEF Abstract!Init
<1>2. TypeOK /\ TypeOK' /\ AgesApart /\ [Next]_vars
        => AgesApart' /\ [Abstract!Next]_(Abstract!vars)
  BY KeystrokesStep
<1> QED
  BY <1>1, <1>2, TypeCorrect, PTL DEF Spec, ImplementsKeystrokes, Abstract!Spec

-----------------------------------------------------------------------------
(***************************************************************************)
(* The ports the notes come from: for every set of data bytes, size of     *)
(* frame and number of silences, a port delivers what its wire completes.  *)
(*                                                                         *)
(* The invariant (PortInv) says of each thing the parser and the task hold *)
(* what it is on the wire.  Most of the proof is about the wire itself:    *)
(* what a byte or a silence more changes in the last position of a class,  *)
(* in the data bytes behind it and in their numbers, and in what was quiet.*)
(***************************************************************************)
Callback == {NotesOff} \union {Frame(bytes) : bytes \in Seq(DataBytes)}
              \union {Normalised(type, bytes) : type \in Types, bytes \in Seq(DataBytes)}

ParserTypes ==
  /\ running_status \in Types \union {NoStatus}
  /\ data \in Seq(DataBytes) /\ Len(data) <= 1
  /\ sysex \in Seq(DataBytes) /\ in_sysex \in BOOLEAN /\ sysex_overflow \in BOOLEAN
  /\ delivered \in Seq(Callback)

PortTypes ==
  /\ ParserTypes
  /\ wire \in Seq(Bytes \union {Gap})
  /\ sensing \in BOOLEAN /\ idle \in 0 .. SILENCES - 1

(* A link is alive when an FE has come and no silence of 500 ms since; then*)
(* the silences counted are those at the end of the wire.                  *)
Alive(n) == \E s \in 1 .. n : /\ wire[s].class = "sense"
                              /\ \A j \in s + 1 .. n : ~QuietAt(j)

LinkAsWired(n) ==
  /\ sensing <=> Alive(n)
  /\ sensing => /\ idle < n /\ ~IsGap(n - idle)
                /\ \A j \in n - idle + 1 .. n : IsGap(j)

(* The running status and the data bytes held are the wire's.              *)
MessageAsWired(n) ==
  LET at == DataAt(Since(n), n) IN
  /\ running_status = Running(n)
  /\ running_status = NoStatus => data = <<>>
  /\ running_status # NoStatus =>
       /\ Len(data) = Cardinality(at) % DataLen(running_status)
       /\ data # <<>> => data[1] = wire[Max(at)].value

(* The frame held is the wire's, as far as there is room.                  *)
FrameAsWired(n) ==
  LET open == Opening(n)
      at   == DataAt(open, n)
      held == Cardinality(at)
  IN  /\ in_sysex <=> open # 0 /\ wire[open].class = "sysex"
      /\ in_sysex =>
           /\ running_status = NoStatus
           /\ sysex_overflow <=> held > SYSEX_MAX
           /\ held > SYSEX_MAX => Len(sysex) = SYSEX_MAX
           /\ held <= SYSEX_MAX =>
                Len(sysex) = held /\ \A k \in 1 .. held : sysex[k] = wire[Nth(at, k)].value

PortInv ==
  /\ PortTypes
  /\ LinkAsWired(Len(wire)) /\ MessageAsWired(Len(wire)) /\ FrameAsWired(Len(wire))

-----------------------------------------------------------------------------
(* The least and the greatest of a set of positions are of the set.        *)
LEMMA LeastOf ==
  ASSUME NEW T \in SUBSET Nat, T # {}
  PROVE  Min(T) \in T /\ \A x \in T : Min(T) <= x
<1> DEFINE Less == {p \in Nat \X Nat : p[1] < p[2]}
<1>1. IsWellFoundedOn(Less, Nat)
  BY NatLessThanWellFounded, Zenon DEF OpToRel
<1>2. PICK d \in T : \A e \in T : ~ (<<e, d>> \in Less)
  <2> HIDE DEF Less
  <2> QED
    BY <1>1, WFMin
<1>3. \A e \in T : d <= e
  <2> SUFFICES ASSUME NEW e \in T, ~ (d <= e) PROVE FALSE
    OBVIOUS
  <2>1. e \in Nat /\ d \in Nat /\ e < d
    OBVIOUS
  <2>2. <<e, d>> \in Less
    BY <2>1
  <2> QED
    BY <1>2, <2>2
<1> QED
  BY <1>3 DEF Min

LEMMA GreatestOf ==
  ASSUME NEW n \in Nat, NEW T \in SUBSET (0 .. n), T # {}
  PROVE  Max(T) \in T /\ \A x \in T : Max(T) >= x
<1> DEFINE D == {n - x : x \in T}
<1>1. D \in SUBSET Nat /\ D # {}
  <2>1. \A x \in T : x \in 0 .. n /\ n - x \in Nat
    OBVIOUS
  <2> QED
    BY <2>1
<1>2. Min(D) \in D /\ \A d \in D : Min(D) <= d
  <2> HIDE DEF D
  <2> QED
    BY <1>1, LeastOf
<1>3. PICK m \in T : Min(D) = n - m
  BY <1>2
<1>4. \A x \in T : n - m <= n - x
  BY <1>2, <1>3
<1>5. \A x \in T : m >= x
  BY <1>4
<1> QED
  BY <1>5 DEF Max

-----------------------------------------------------------------------------
(***************************************************************************)
(* The wire grows by a byte or a silence.                                  *)
(***************************************************************************)
Grows(n, b) ==
  /\ PortTypes /\ n = Len(wire) /\ b \in Bytes \union {Gap}
  /\ wire' = Append(wire, b)

LEMMA WireGrows ==
  ASSUME NEW n, NEW b, Grows(n, b)
  PROVE  /\ n \in Nat /\ Len(wire') = n + 1 /\ wire'[n + 1] = b
         /\ \A k \in 1 .. n : wire'[k] = wire[k]
         /\ wire' \in Seq(Bytes \union {Gap})
  BY DEF Grows, PortTypes, ParserTypes

LEMMA ByteCarries ==
  ASSUME NEW b \in Bytes \union {Gap}
  PROVE  /\ b.class \in {"realtime", "sense", "reset", "sysex", "eox", "common",
                         "status", "data", "gap"}
         /\ b.class = "gap" <=> b \notin Bytes
         /\ b.class = "data" => b.value \in DataBytes
         /\ b.class = "status" => b.value \in Types
  BY DEF Bytes, PlainBytes, Gap, Plain, Status, Data

(* The last position of some classes.                                      *)
LEMMA LastIs ==
  ASSUME NEW to \in Nat, NEW classes
  PROVE  /\ LastOf(to, classes) \in 0 .. to
         /\ LastOf(to, classes) # 0 => wire[LastOf(to, classes)].class \in classes
         /\ \A k \in 1 .. to : wire[k].class \in classes => k <= LastOf(to, classes)
<1> DEFINE T == {0} \union {k \in 1 .. to : wire[k].class \in classes}
<1>1. T \in SUBSET (0 .. to) /\ T # {}
  OBVIOUS
<1>2. Max(T) \in T /\ \A x \in T : Max(T) >= x
  <2> HIDE DEF T
  <2> QED
    BY <1>1, GreatestOf
<1>3. LastOf(to, classes) = Max(T)
  BY DEF LastOf
<1> QED
  BY <1>2, <1>3

LEMMA LastGrows ==
  ASSUME NEW n, NEW b, Grows(n, b), NEW classes
  PROVE  /\ LastOf(n, classes)' = LastOf(n, classes)
         /\ LastOf(n + 1, classes)' = IF b.class \in classes THEN n + 1
                                                             ELSE LastOf(n, classes)
<1>1. /\ n \in Nat /\ wire'[n + 1] = b /\ \A k \in 1 .. n : wire'[k] = wire[k]
  BY WireGrows
<1> DEFINE T == {0} \union {k \in 1 .. n : wire[k].class \in classes}
           More == {0} \union {k \in 1 .. n + 1 : wire'[k].class \in classes}
<1>2. {0} \union {k \in 1 .. n : wire'[k].class \in classes} = T
  BY <1>1
<1>3. CASE b.class \in classes
  <2>1. n + 1 \in More /\ More \in SUBSET (0 .. n + 1) /\ n + 1 \in Nat
    BY <1>1, <1>3
  <2>2. Max(More) \in More /\ \A x \in More : Max(More) >= x
    <3> HIDE DEF More
    <3> QED
      BY <2>1, GreatestOf
  <2>3. Max(More) \in 0 .. n + 1 /\ Max(More) >= n + 1
    <3> HIDE DEF More
    <3> QED
      BY <2>1, <2>2
  <2>4. Max(More) = n + 1
    BY <1>1, <2>3
  <2> QED
    BY <1>2, <1>3, <2>4 DEF LastOf
<1>4. CASE b.class \notin classes
  <2>1. More = T
    BY <1>1, <1>4
  <2> QED
    BY <1>2, <1>4, <2>1 DEF LastOf
<1> QED
  BY <1>3, <1>4

(* The data bytes behind a position.                                       *)
LEMMA DataGrows ==
  ASSUME NEW n, NEW b, Grows(n, b), NEW from \in 0 .. n
  PROVE  /\ DataAt(from, n)' = DataAt(from, n)
         /\ DataAt(from, n + 1)' = DataAt(from, n) \union (IF b.class = "data" THEN {n + 1} ELSE {})
         /\ DataAt(n + 1, n + 1)' = {}
<1>1. /\ n \in Nat /\ wire'[n + 1] = b /\ \A k \in 1 .. n : wire'[k] = wire[k]
  BY WireGrows
<1> QED
  BY <1>1 DEF DataAt

LEMMA DataCount ==
  ASSUME NEW n \in Nat, NEW from \in Nat
  PROVE  /\ DataAt(from, n) \in SUBSET (1 .. n) /\ IsFiniteSet(DataAt(from, n))
         /\ Cardinality(DataAt(from, n)) \in Nat
<1>1. DataAt(from, n) \in SUBSET (1 .. n)
  BY DEF DataAt
<1>2. IsFiniteSet(1 .. n)
  BY FS_Interval
<1> HIDE DEF DataAt
<1> QED
  BY <1>1, <1>2, FS_Subset, FS_CardinalityType

(* A position behind them all is the last of them, and the others keep     *)
(* their numbers.                                                          *)
LEMMA NthGrows ==
  ASSUME NEW n \in Nat, NEW at \in SUBSET (1 .. n)
  PROVE  LET more == at \union {n + 1}
             held == Cardinality(at)
         IN  /\ Cardinality(more) = held + 1 /\ Max(more) = n + 1
             /\ \A k \in 1 .. held : Nth(more, k) = Nth(at, k)
             /\ Nth(more, held + 1) = n + 1
<1> DEFINE more == at \union {n + 1}
           held == Cardinality(at)
           Upto(S, k) == {j \in S : j <= k}
<1>1. IsFiniteSet(at) /\ held \in Nat
  <2>1. IsFiniteSet(1 .. n)
    BY FS_Interval
  <2>2. IsFiniteSet(at)
    BY <2>1, FS_Subset
  <2> QED
    BY <2>2, FS_CardinalityType
<1>2. Cardinality(more) = held + 1
  <2>1. n + 1 \notin at
    OBVIOUS
  <2> QED
    BY <1>1, <2>1, FS_AddElement
<1>3. Max(more) = n + 1
  <2>1. more \in SUBSET (0 .. n + 1) /\ more # {} /\ n + 1 \in Nat /\ n + 1 \in more
    OBVIOUS
  <2> HIDE DEF more
  <2>2. Max(more) \in more /\ Max(more) >= n + 1
    BY <2>1, GreatestOf
  <2>3. Max(more) \in 0 .. n + 1
    BY <2>1, <2>2
  <2> QED
    BY <2>2, <2>3
<1>4. \A k \in at : Upto(more, k) = Upto(at, k) /\ Cardinality(Upto(at, k)) <= held
  <2> TAKE k \in at
  <2>1. Upto(more, k) = Upto(at, k) /\ Upto(at, k) \in SUBSET at
    OBVIOUS
  <2> QED
    BY <1>1, <2>1, FS_Subset
<1>5. Upto(more, n + 1) = more
  <2>1. \A j \in more : j <= n + 1
    OBVIOUS
  <2> HIDE DEF more
  <2> QED
    BY <2>1
<1>6. \A k \in 1 .. held : Nth(more, k) = Nth(at, k)
  <2> TAKE k \in 1 .. held
  <2>1. {p \in more : Cardinality(Upto(more, p)) = k} = {p \in at : Cardinality(Upto(at, p)) = k}
    <3>1. Cardinality(Upto(more, n + 1)) # k
      BY <1>1, <1>2, <1>5
    <3> HIDE DEF Upto, held
    <3> QED
      BY <1>4, <3>1
  <2> QED
    BY <2>1 DEF Nth
<1>7. Nth(more, held + 1) = n + 1
  <2>1. {p \in more : Cardinality(Upto(more, p)) = held + 1} = {n + 1}
    <3>1. \A p \in at : Cardinality(Upto(more, p)) # held + 1
      <4> TAKE p \in at
      <4>1. Upto(at, p) \in SUBSET at /\ IsFiniteSet(Upto(at, p)) /\ Cardinality(Upto(at, p)) \in Nat
        <5>1. Upto(at, p) \in SUBSET at
          OBVIOUS
        <5> HIDE DEF Upto
        <5> QED
          BY <1>1, <5>1, FS_Subset, FS_CardinalityType
      <4> HIDE DEF Upto, held, more
      <4> QED
        BY <1>1, <1>4, <4>1
    <3> HIDE DEF Upto, held
    <3> QED
      BY <1>2, <1>5, <3>1
  <2>2. Min({n + 1}) = n + 1
    BY LeastOf
  <2> QED
    BY <2>1, <2>2 DEF Nth
<1> QED
  BY <1>2, <1>3, <1>6, <1>7

(* What was quiet, or broken, stays so; whether the new position is.       *)
LEMMA QuietStays ==
  ASSUME NEW n, NEW b, Grows(n, b)
  PROVE  \A k \in 1 .. n : (QuietAt(k)' <=> QuietAt(k)) /\ (BreaksAt(k)' <=> BreaksAt(k))
<1>0. /\ n \in Nat /\ \A k \in 1 .. n : wire'[k] = wire[k]
      /\ SILENCES \in Nat /\ SILENCES > 0
  BY WireGrows, WireAssumption
<1>1. \A k \in 1 .. n : QuietAt(k)' <=> QuietAt(k)
  <2> TAKE k \in 1 .. n
  <2>1. k > SILENCES => k - SILENCES \in 1 .. n
    BY <1>0
  <2>2. k > SILENCES => \A j \in k - SILENCES + 1 .. k : j \in 1 .. n
    BY <1>0
  <2> QED
    BY <1>0, <2>1, <2>2 DEF QuietAt, IsGap
<1>2. \A k \in 1 .. n : BreaksAt(k)' <=> BreaksAt(k)
  <2> TAKE k \in 1 .. n
  <2>1. \A s \in 1 .. k - 1 : s \in 1 .. n /\ wire'[s] = wire[s]
    BY <1>0
  <2>2. \A s \in 1 .. k - 1 : \A j \in s + 1 .. k - 1 : QuietAt(j)' <=> QuietAt(j)
    BY <1>0, <1>1
  <2> QED
    BY <1>1, <2>1, <2>2 DEF BreaksAt
<1> QED
  BY <1>1, <1>2

LEMMA QuietIs ==
  ASSUME NEW n, NEW b, Grows(n, b)
  PROVE  /\ QuietAt(n + 1)' => b.class = "gap"
         /\ BreaksAt(n + 1)' <=> QuietAt(n + 1)' /\ Alive(n)
         /\ Alive(n + 1)' <=> b.class = "sense" \/ (Alive(n) /\ ~QuietAt(n + 1)')
<1>0. /\ n \in Nat /\ \A k \in 1 .. n : wire'[k] = wire[k]
      /\ wire'[n + 1] = b /\ SILENCES \in Nat /\ SILENCES > 0
  BY WireGrows, WireAssumption
<1>1. \A k \in 1 .. n : QuietAt(k)' <=> QuietAt(k)
  BY QuietStays
<1>2. QuietAt(n + 1)' => b.class = "gap"
  <2>1. n + 1 \in n + 1 - SILENCES + 1 .. n + 1
    BY <1>0
  <2> QED
    BY <1>0, <2>1 DEF QuietAt, IsGap
<1>3. BreaksAt(n + 1)' <=> QuietAt(n + 1)' /\ Alive(n)
  <2>1. n + 1 - 1 = n
    BY <1>0
  <2>2. \A s \in 1 .. n : \A j \in s + 1 .. n : QuietAt(j)' <=> QuietAt(j)
    BY <1>0, <1>1
  <2> QED
    BY <1>0, <2>1, <2>2 DEF BreaksAt, Alive
<1>4. Alive(n + 1)' <=> b.class = "sense" \/ (Alive(n) /\ ~QuietAt(n + 1)')
  <2>1. ASSUME b.class = "sense" PROVE Alive(n + 1)'
    <3>1. n + 1 \in 1 .. n + 1 /\ n + 1 + 1 .. n + 1 = {}
      BY <1>0
    <3> QED
      BY <1>0, <2>1, <3>1 DEF Alive
  <2>2. ASSUME Alive(n), ~QuietAt(n + 1)' PROVE Alive(n + 1)'
    <3>1. PICK s \in 1 .. n : wire[s].class = "sense" /\ \A j \in s + 1 .. n : ~QuietAt(j)
      BY <2>2 DEF Alive
    <3>2. s \in 1 .. n + 1 /\ wire'[s].class = "sense"
      BY <1>0, <3>1
    <3>3. \A j \in s + 1 .. n + 1 : ~QuietAt(j)'
      <4> TAKE j \in s + 1 .. n + 1
      <4>1. CASE j = n + 1
        BY <2>2, <4>1
      <4>2. CASE j # n + 1
        BY <1>0, <1>1, <3>1, <4>2
      <4> QED
        BY <4>1, <4>2
    <3> QED
      BY <3>2, <3>3 DEF Alive
  <2>3. ASSUME Alive(n + 1)', b.class # "sense" PROVE Alive(n) /\ ~QuietAt(n + 1)'
    <3>1. PICK s \in 1 .. n + 1 : wire'[s].class = "sense" /\ \A j \in s + 1 .. n + 1 : ~QuietAt(j)'
      BY <2>3 DEF Alive
    <3>2. s \in 1 .. n /\ wire[s].class = "sense" /\ n + 1 \in s + 1 .. n + 1
      BY <1>0, <2>3, <3>1
    <3>3. \A j \in s + 1 .. n : ~QuietAt(j)
      BY <1>0, <1>1, <3>1
    <3> QED
      BY <3>1, <3>2, <3>3 DEF Alive
  <2> QED
    BY <2>1, <2>2, <2>3
<1> QED
  BY <1>2, <1>3, <1>4

-----------------------------------------------------------------------------
(* The link: a byte, and a silence.                                        *)
LEMMA LinkHears ==
  ASSUME NEW n, NEW b, Grows(n, b), b.class # "gap", LinkAsWired(n),
         sensing' = (sensing \/ b.class = "sense"), idle' = 0
  PROVE  LinkAsWired(n + 1)' /\ ~BreaksAt(n + 1)'
<1>0. /\ n \in Nat /\ wire'[n + 1] = b
  BY WireGrows
<1>1. ~QuietAt(n + 1)'
  BY QuietIs
<1>2. sensing' <=> Alive(n + 1)'
  BY <1>1, QuietIs DEF LinkAsWired
<1>3. /\ idle' < n + 1 /\ wire'[n + 1 - idle'].class # "gap"
      /\ \A j \in n + 1 - idle' + 1 .. n + 1 : wire'[j].class = "gap"
  BY <1>0
<1> QED
  BY <1>0, <1>1, <1>2, <1>3, QuietIs DEF LinkAsWired, IsGap

LEMMA LinkIsSilent ==
  ASSUME NEW n, NEW b, Grows(n, b), b.class = "gap", LinkAsWired(n),
         idle' = (idle + 1) % SILENCES,
         sensing' = (sensing /\ idle + 1 # SILENCES)
  PROVE  /\ LinkAsWired(n + 1)' /\ idle' \in 0 .. SILENCES - 1
         /\ BreaksAt(n + 1)' <=> idle + 1 = SILENCES /\ sensing
<1>0. /\ n \in Nat /\ wire'[n + 1] = b /\ \A k \in 1 .. n : wire'[k] = wire[k]
      /\ SILENCES \in Nat /\ SILENCES > 0 /\ idle \in 0 .. SILENCES - 1 /\ sensing \in BOOLEAN
  BY WireGrows, WireAssumption DEF Grows, PortTypes, ParserTypes
<1>1. /\ idle' \in 0 .. SILENCES - 1
      /\ idle + 1 # SILENCES => idle' = idle + 1
  <2>1. idle + 1 \in Nat
    BY <1>0
  <2> QED
    BY <1>0, <2>1
<1>2. CASE ~sensing
  <2>1. ~Alive(n) /\ ~BreaksAt(n + 1)' /\ ~Alive(n + 1)'
    BY <1>2, QuietIs DEF LinkAsWired
  <2> QED
    BY <1>1, <1>2, <2>1 DEF LinkAsWired
<1>3. CASE sensing
  <2>1. /\ Alive(n) /\ idle < n /\ ~IsGap(n - idle) /\ \A j \in n - idle + 1 .. n : IsGap(j)
    BY <1>3 DEF LinkAsWired
  <2>2. /\ n - idle \in 1 .. n /\ wire'[n - idle].class # "gap"
        /\ \A j \in n - idle + 1 .. n + 1 : wire'[j].class = "gap"
    <3>1. n - idle \in 1 .. n
      BY <1>0, <2>1
    <3>2. \A j \in n - idle + 1 .. n : wire'[j].class = "gap"
      BY <1>0, <2>1, <3>1 DEF IsGap
    <3>3. wire'[n + 1].class = "gap"
      BY <1>0
    <3> QED
      BY <1>0, <2>1, <3>1, <3>2, <3>3 DEF IsGap
  <2>3. CASE idle + 1 = SILENCES
    <3>1. n + 1 > SILENCES /\ n + 1 - SILENCES = n - idle
      BY <1>0, <2>2, <2>3
    <3>2. QuietAt(n + 1)'
      BY <1>0, <2>2, <3>1 DEF QuietAt, IsGap
    <3> QED
      BY <1>1, <1>3, <2>1, <2>3, <3>2, QuietIs DEF LinkAsWired
  <2>4. CASE idle + 1 # SILENCES
    <3>1. n - idle \in n + 1 - SILENCES + 1 .. n + 1
      BY <1>0, <2>2, <2>4
    <3>2. ~QuietAt(n + 1)'
      BY <1>0, <2>2, <3>1 DEF QuietAt, IsGap
    <3>3. n + 1 - idle' = n - idle /\ idle' < n + 1
      BY <1>0, <1>1, <2>1, <2>4
    <3>4. sensing' <=> Alive(n + 1)'
      BY <1>3, <2>1, <2>4, <3>2, QuietIs
    <3> QED
      BY <1>0, <1>1, <1>3, <2>1, <2>2, <2>4, <3>2, <3>3, <3>4, QuietIs DEF LinkAsWired, IsGap
  <2> QED
    BY <2>3, <2>4
<1> QED
  BY <1>0, <1>2, <1>3

(* The running status of the wire.                                         *)
LEMMA RunningGrows ==
  ASSUME NEW n, NEW b, Grows(n, b)
  PROVE  /\ Running(n)' = Running(n)
         /\ b.class = "status" => Running(n + 1)' = b.value
         /\ b.class \in {"reset", "sysex", "eox", "common"} => Running(n + 1)' = NoStatus
         /\ b.class \notin {"status", "reset", "sysex", "eox", "common"} =>
              Running(n + 1)' = IF BreaksAt(n + 1)' THEN NoStatus ELSE Running(n)
<1> DEFINE owner == Owner(n)
           Cancels == {"status", "reset", "sysex", "eox", "common"}
<1>0. /\ n \in Nat /\ wire'[n + 1] = b /\ \A k \in 1 .. n : wire'[k] = wire[k]
  BY WireGrows
<1>1. owner \in 0 .. n /\ Owner(n)' = owner
      /\ Owner(n + 1)' = IF b.class \in Cancels THEN n + 1 ELSE owner
  BY <1>0, LastIs, LastGrows DEF Owner
<1>2. owner # 0 => \A k \in owner .. n : BreaksAt(k)' <=> BreaksAt(k)
  BY <1>0, <1>1, QuietStays
<1>3. BreaksAt(n + 1)' => b.class = "gap"
  BY QuietIs
<1> HIDE DEF owner
<1>4. Running(n)' = Running(n)
  BY <1>0, <1>1, <1>2 DEF Running, owner
<1>5. CASE b.class \in Cancels
  <2>1. Owner(n + 1)' = n + 1 /\ n + 1 # 0 /\ n + 1 .. n + 1 = {n + 1}
    BY <1>0, <1>1, <1>5
  <2>2. ~BreaksAt(n + 1)'
    BY <1>3, <1>5
  <2> QED
    BY <1>0, <1>4, <1>5, <2>1, <2>2 DEF Running
<1>6. CASE b.class \notin Cancels
  <2>1. Owner(n + 1)' = owner
    BY <1>1, <1>6
  <2>2. owner # 0 => /\ wire'[owner] = wire[owner] /\ n + 1 \in owner .. n + 1
                     /\ \A k \in owner .. n + 1 : k = n + 1 \/ k \in owner .. n
                     /\ \A k \in owner .. n : k \in owner .. n + 1
    BY <1>0, <1>1
  <2>3. Running(n + 1)' = IF BreaksAt(n + 1)' THEN NoStatus ELSE Running(n)
    BY <1>2, <2>1, <2>2 DEF Running, owner
  <2> QED
    BY <1>4, <1>6, <2>3
<1> QED
  BY <1>5, <1>6

-----------------------------------------------------------------------------
(* A message: what the next byte completes, and what is then held.         *)
LEMMA MessageNeeds ==
  \A i \in Nat : MessageAt(i) # <<>> => wire[i].class = "data" /\ Running(i - 1) # NoStatus
<1> TAKE i \in Nat
<1> QED
  BY DEF MessageAt

LEMMA NoMessage ==
  ASSUME NEW n, NEW b, Grows(n, b), b.class # "data" \/ Running(n) = NoStatus
  PROVE  MessageAt(n + 1)' = <<>>
<1>1. n \in Nat /\ n + 1 - 1 = n /\ wire'[n + 1] = b
  BY WireGrows
<1>2. (\A i \in Nat : MessageAt(i) # <<>> => wire[i].class = "data" /\ Running(i - 1) # NoStatus)'
  BY MessageNeeds, PTL
<1>3. MessageAt(n + 1)' # <<>> => wire'[n + 1].class = "data" /\ Running(n + 1 - 1)' # NoStatus
  BY <1>1, <1>2
<1>4. Running(n + 1 - 1)' = Running(n)
  BY <1>1, RunningGrows
<1> QED
  BY <1>1, <1>3, <1>4

(* A status, or what ends one, and a silence: nothing is held any more.    *)
LEMMA MessageBegins ==
  ASSUME NEW n, NEW b, Grows(n, b), MessageAsWired(n),
         b.class \in {"status", "reset", "sysex", "eox", "common", "gap"},
         running_status' = Running(n + 1)', data' = <<>>
  PROVE  MessageAsWired(n + 1)' /\ MessageAt(n + 1)' = <<>>
<1>1. Since(n + 1)' = n + 1
  BY LastGrows DEF Since
<1>2. DataAt(Since(n + 1), n + 1)' = {}
  <2>1. n \in Nat
    BY WireGrows
  <2>2. DataAt(n + 1, n + 1)' = {}
    BY <2>1, DataGrows
  <2> QED
    BY <1>1, <2>2 DEF DataAt
<1>3. Cardinality({}) = 0 /\ \A type : DataLen(type) \in {1, 2}
  BY FS_EmptySet DEF DataLen
<1>4. MessageAsWired(n + 1)'
  <2>1. 0 % DataLen(running_status)' = 0 /\ Len(data') = 0
    BY <1>3 DEF DataLen
  <2> QED
    BY <1>2, <1>3, <2>1 DEF MessageAsWired
<1> QED
  BY <1>4, NoMessage

(* What is no part of a message leaves it as it was.                       *)
LEMMA MessageWaits ==
  ASSUME NEW n, NEW b, Grows(n, b), MessageAsWired(n),
         b.class \in {"realtime", "sense"} \/ (b.class = "data" /\ running_status = NoStatus),
         UNCHANGED <<running_status, data>>, ~BreaksAt(n + 1)'
  PROVE  MessageAsWired(n + 1)' /\ MessageAt(n + 1)' = <<>>
<1>0. n \in Nat /\ \A k \in 1 .. n : wire'[k] = wire[k]
  BY WireGrows
<1>1. Since(n) \in 0 .. n /\ Since(n + 1)' = Since(n) /\ Running(n + 1)' = Running(n)
  <2>1. Since(n) \in 0 .. n
    BY <1>0, LastIs DEF Since
  <2>2. Since(n + 1)' = Since(n)
    BY LastGrows DEF Since
  <2>3. Running(n + 1)' = Running(n)
    BY RunningGrows
  <2> QED
    BY <2>1, <2>2, <2>3
<1>2. running_status = Running(n) /\ (running_status = NoStatus => data = <<>>)
  BY DEF MessageAsWired
<1>3. MessageAt(n + 1)' = <<>>
  BY <1>2, NoMessage
<1>4. CASE running_status = NoStatus
  BY <1>1, <1>2, <1>3, <1>4 DEF MessageAsWired
<1>5. CASE running_status # NoStatus
  <2>1. PICK from \in 0 .. n : from = Since(n) /\ from = Since(n + 1)'
    BY <1>1
  <2> DEFINE at == DataAt(from, n)
  <2>2. DataAt(from, n + 1)' = at
    BY <1>5, DataGrows
  <2>3. /\ Len(data) = Cardinality(at) % DataLen(running_status)
        /\ data # <<>> => data[1] = wire[Max(at)].value
    BY <1>5, <2>1 DEF MessageAsWired
  <2>4. data # <<>> => wire'[Max(at)] = wire[Max(at)]
    <3> SUFFICES ASSUME data # <<>> PROVE wire'[Max(at)] = wire[Max(at)]
      OBVIOUS
    <3>1. at # {}
      <4> SUFFICES ASSUME at = {} PROVE FALSE
        OBVIOUS
      <4>1. Cardinality(at) = 0 /\ Len(data) # 0 /\ 0 % 1 = 0 /\ 0 % 2 = 0
        BY FS_EmptySet DEF Grows, PortTypes, ParserTypes
      <4> QED
        BY <2>3, <4>1 DEF DataLen
    <3>2. at \in SUBSET (1 .. n) /\ at \in SUBSET (0 .. n)
      BY <1>0 DEF DataAt
    <3>3. Max(at) \in at
      <4> HIDE DEF at
      <4> QED
        BY <1>0, <3>1, <3>2, GreatestOf
    <3> QED
      BY <1>0, <3>2, <3>3
  <2>5. DataAt(Since(n + 1), n + 1)' = at
    BY <2>1, <2>2 DEF DataAt
  <2> HIDE DEF at
  <2> QED
    BY <1>1, <1>2, <1>3, <1>5, <2>3, <2>4, <2>5 DEF MessageAsWired
<1> QED
  BY <1>3, <1>4, <1>5

(* A data byte of a message under way: the message's last, or its first of *)
(* two.                                                                    *)
LEMMA MessageGoesOn ==
  ASSUME NEW n, NEW b, Grows(n, b), MessageAsWired(n),
         b.class = "data", running_status # NoStatus, UNCHANGED running_status
  PROVE  LET bytes == Append(data, b.value)
             whole == Len(bytes) = DataLen(running_status)
         IN  /\ data' = (IF whole THEN <<>> ELSE bytes) => MessageAsWired(n + 1)'
             /\ MessageAt(n + 1)' = IF whole THEN <<Normalised(running_status, bytes)>> ELSE <<>>
<1> DEFINE bytes == Append(data, b.value)
           whole == Len(bytes) = DataLen(running_status)
           last  == DataLen(running_status)
<1>0. /\ n \in Nat /\ wire'[n + 1] = b /\ \A k \in 1 .. n : wire'[k] = wire[k]
      /\ data \in Seq(DataBytes) /\ b.value \in DataBytes
      /\ Len(data) \in {0, 1} /\ (Len(data) = 0 <=> data = <<>>)
      /\ bytes \in Seq(DataBytes) /\ Len(bytes) = Len(data) + 1
      /\ \A k \in 1 .. Len(data) : bytes[k] = data[k]
      /\ bytes[Len(data) + 1] = b.value
  <2>1. b.value \in DataBytes
    BY ByteCarries DEF Grows
  <2>2. data \in Seq(DataBytes) /\ Len(data) <= 1
    BY DEF Grows, PortTypes, ParserTypes
  <2>3. /\ bytes \in Seq(DataBytes) /\ Len(bytes) = Len(data) + 1
        /\ \A k \in 1 .. Len(data) : bytes[k] = data[k]
        /\ bytes[Len(data) + 1] = b.value
    BY <2>1, <2>2
  <2>4. Len(data) \in {0, 1} /\ (Len(data) = 0 <=> data = <<>>)
    BY <2>2
  <2> HIDE DEF bytes
  <2> QED
    BY <2>1, <2>2, <2>3, <2>4, WireGrows
<1>1. PICK from \in 0 .. n : from = Since(n) /\ from = Since(n)' /\ from = Since(n + 1)'
  BY <1>0, LastIs, LastGrows DEF Since
<1> DEFINE at == DataAt(from, n)
           held == Cardinality(at)
<1>2. /\ at \in SUBSET (1 .. n) /\ held \in Nat
      /\ DataAt(from, n)' = at /\ DataAt(from, n + 1)' = at \union {n + 1}
  <2>1. b.class = "data" /\ from \in Nat
    BY <1>0
  <2>2. DataAt(from, n)' = at /\ DataAt(from, n + 1)' = at \union {n + 1}
    BY <2>1, DataGrows
  <2>3. at \in SUBSET (1 .. n) /\ held \in Nat
    BY <1>0, <2>1, DataCount
  <2> QED
    BY <2>2, <2>3
<1>3. Cardinality(at \union {n + 1}) = held + 1 /\ Max(at \union {n + 1}) = n + 1
  <2> HIDE DEF at
  <2> QED
    BY <1>0, <1>2, NthGrows
<1>4. /\ Running(n)' = running_status /\ Running(n + 1)' = running_status
      /\ Len(data) = held % last /\ (data # <<>> => data[1] = wire[Max(at)].value)
  <2>1. ~BreaksAt(n + 1)'
    BY QuietIs
  <2> QED
    BY <1>1, <2>1, RunningGrows DEF MessageAsWired
<1>5. last = 1 \/ last = 2
  BY DEF DataLen
<1>6. /\ whole <=> (held + 1) % last = 0
      /\ ~whole => (held + 1) % last = 1 /\ Len(data) = 0 /\ last = 2
  <2> HIDE DEF bytes, held, last
  <2>1. CASE last = 1
    <3>1. held % 1 = 0 /\ (held + 1) % 1 = 0
      BY <1>2
    <3> QED
      BY <1>0, <1>4, <2>1, <3>1 DEF last
  <2>2. CASE last = 2
    <3>1. (held % 2 = 0 /\ (held + 1) % 2 = 1) \/ (held % 2 = 1 /\ (held + 1) % 2 = 0)
      BY <1>2
    <3> QED
      BY <1>0, <1>4, <2>2, <3>1 DEF last
  <2> QED
    BY <1>5, <2>1, <2>2
<1>7. data' = (IF whole THEN <<>> ELSE bytes) => MessageAsWired(n + 1)'
  <2> SUFFICES ASSUME data' = (IF whole THEN <<>> ELSE bytes) PROVE MessageAsWired(n + 1)'
    OBVIOUS
  <2>1. DataAt(Since(n + 1), n + 1)' = at \union {n + 1}
    BY <1>1, <1>2 DEF DataAt
  <2>2. Len(data') = (held + 1) % last
    BY <1>0, <1>6
  <2>3. data' # <<>> => data'[1] = b.value
    <3> SUFFICES ASSUME data' # <<>> PROVE data'[1] = b.value
      OBVIOUS
    <3>1. data' = bytes /\ Len(data) = 0
      BY <1>6
    <3> QED
      BY <1>0, <3>1
  <2>4. last' = last
    BY DEF DataLen
  <2> HIDE DEF at, held, last, bytes, whole
  <2>5. running_status' # NoStatus =>
          /\ Len(data') = Cardinality(at \union {n + 1}) % DataLen(running_status')
          /\ data' # <<>> => data'[1] = wire'[Max(at \union {n + 1})].value
    <3>1. DataLen(running_status') = last
      BY <2>4 DEF last
    <3> QED
      BY <1>0, <1>3, <2>2, <2>3, <3>1 DEF held
  <2> QED
    BY <1>4, <2>1, <2>5 DEF MessageAsWired
<1>8. MessageAt(n + 1)' = IF whole THEN <<Normalised(running_status, bytes)>> ELSE <<>>
  <2>1. n + 1 - 1 = n /\ DataAt(Since(n), n)' = at
    BY <1>0, <1>1, <1>2 DEF DataAt
  <2>2. whole => bytes = IF last = 1 THEN <<b.value>> ELSE <<wire'[Max(at)].value, b.value>>
    <3> SUFFICES ASSUME whole
                 PROVE  bytes = IF last = 1 THEN <<b.value>> ELSE <<wire'[Max(at)].value, b.value>>
      OBVIOUS
    <3>1. CASE last = 1
      <4>1. Len(data) = 0
        <5>1. Len(bytes) = last /\ Len(bytes) = Len(data) + 1 /\ Len(data) \in {0, 1}
          BY <1>0
        <5> HIDE DEF bytes, last
        <5> QED
          BY <3>1, <5>1
      <4>2. data = <<>>
        BY <1>0, <4>1
      <4> QED
        BY <3>1, <4>2
    <3>2. CASE last = 2
      <4>1. Len(data) = 1 /\ data # <<>>
        <5>1. Len(bytes) = last /\ Len(bytes) = Len(data) + 1 /\ Len(data) \in {0, 1}
          BY <1>0
        <5> HIDE DEF bytes, last
        <5> QED
          BY <1>0, <3>2, <5>1
      <4>2. at # {}
        <5> SUFFICES ASSUME at = {} PROVE FALSE
          OBVIOUS
        <5>1. held = 0 /\ 0 % 2 = 0
          BY FS_EmptySet
        <5> HIDE DEF held, last, at
        <5> QED
          BY <1>4, <3>2, <4>1, <5>1
      <4>3. Max(at) \in 1 .. n
        <5>1. at \in SUBSET (0 .. n)
          BY <1>2
        <5> HIDE DEF at
        <5> QED
          BY <1>0, <1>2, <4>2, <5>1, GreatestOf
      <4>4. wire'[Max(at)] = wire[Max(at)] /\ data[1] = wire[Max(at)].value
        BY <1>0, <1>4, <4>1, <4>3
      <4>5. bytes = <<data[1], b.value>>
        <5>1. bytes \in Seq(DataBytes) /\ Len(bytes) = 2 /\ bytes[1] = data[1] /\ bytes[2] = b.value
          <6> HIDE DEF bytes
          <6> QED
            BY <1>0, <4>1
        <5> HIDE DEF bytes
        <5> QED
          BY <5>1
      <4> HIDE DEF at, bytes, last
      <4> QED
        BY <3>2, <4>4, <4>5
    <3> QED
      BY <1>5, <3>1, <3>2
  <2> DEFINE type == Running(n)'
             parts == IF DataLen(type) = 1 THEN <<b.value>> ELSE <<wire'[Max(at)].value, b.value>>
  <2>3. MessageAt(n + 1)' = IF b.class = "data" /\ type # NoStatus /\ (held + 1) % DataLen(type) = 0
                            THEN <<Normalised(type, parts)>> ELSE <<>>
    <3> HIDE DEF at, held
    <3> QED
      BY <1>0, <2>1 DEF MessageAt, held, Normalised, Message, DataLen
  <2>4. type = running_status /\ DataLen(type) = last
    BY <1>4
  <2> HIDE DEF type, bytes, at, held, whole, last
  <2> QED
    BY <1>6, <2>2, <2>3, <2>4
<1> QED
  BY <1>7, <1>8

-----------------------------------------------------------------------------
(* There is an n-th of a set of positions, for every n up to its size.     *)
LEMMA NthOf ==
  ASSUME NEW n \in Nat, NEW at \in SUBSET (1 .. n), NEW k \in 1 .. Cardinality(at)
  PROVE  Nth(at, k) \in at
<1> DEFINE Upto(p) == {j \in at : j <= p}
           size(p) == Cardinality(Upto(p))
           enough  == {p \in at : size(p) >= k}
<1>0. at \in SUBSET Nat /\ at \in SUBSET (0 .. n)
  OBVIOUS
<1>1. IsFiniteSet(at) /\ Cardinality(at) \in Nat /\ at # {}
  <2>1. IsFiniteSet(1 .. n)
    BY FS_Interval
  <2>2. IsFiniteSet(at)
    BY <2>1, FS_Subset
  <2>3. at # {}
    BY FS_EmptySet
  <2> QED
    BY <2>2, <2>3, FS_CardinalityType
<1>2. \A p \in at : Upto(p) \in SUBSET at /\ IsFiniteSet(Upto(p)) /\ size(p) \in Nat /\ p \in Upto(p)
  <2> TAKE p \in at
  <2>1. p \in Nat /\ p <= p
    OBVIOUS
  <2>2. Upto(p) \in SUBSET at /\ p \in Upto(p)
    BY <2>1
  <2> HIDE DEF Upto
  <2> QED
    BY <1>1, <2>2, FS_Subset, FS_CardinalityType
<1>3. enough # {}
  <2>1. at \in SUBSET (0 .. n)
    OBVIOUS
  <2>2. Max(at) \in at /\ \A x \in at : Max(at) >= x
    BY <1>1, <2>1, GreatestOf
  <2>3. Upto(Max(at)) = at
    BY <2>2
  <2> HIDE DEF Upto
  <2> QED
    BY <1>1, <2>2, <2>3
<1>4. PICK p \in enough : \A q \in enough : p <= q
  <2>1. enough \in SUBSET Nat
    BY <1>0, Zenon
  <2>2. Min(enough) \in enough /\ \A q \in enough : Min(enough) <= q
    <3> HIDE DEF enough
    <3> QED
      BY <1>3, <2>1, LeastOf
  <2> QED
    BY <2>2
<1>5. size(p) = k
  <2> SUFFICES ASSUME size(p) > k PROVE FALSE
    BY <1>2
  <2> DEFINE before == Upto(p) \ {p}
  <2>1. /\ IsFiniteSet(before) /\ Cardinality(before) = size(p) - 1
        /\ before \in SUBSET (0 .. n) /\ before \in SUBSET at
    <3>1. p \in at /\ p \in Upto(p) /\ IsFiniteSet(Upto(p))
      BY <1>2
    <3>2. IsFiniteSet(before) /\ Cardinality(before) = size(p) - 1
      <4> HIDE DEF Upto
      <4> QED
        BY <3>1, FS_RemoveElement
    <3>3. before \in SUBSET at /\ before \in SUBSET (0 .. n)
      <4>1. \A j \in before : j \in at
        OBVIOUS
      <4> HIDE DEF before
      <4> QED
        BY <1>0, <4>1
    <3> QED
      BY <3>2, <3>3
  <2>2. before # {}
    <3>1. size(p) - 1 # 0
      BY <1>2
    <3> HIDE DEF before, size
    <3> QED
      BY <2>1, <3>1, FS_EmptySet
  <2>3. Max(before) \in before /\ \A x \in before : Max(before) >= x
    <3> HIDE DEF before
    <3> QED
      BY <2>1, <2>2, GreatestOf
  <2>4. PICK q \in before : \A x \in before : q >= x
    BY <2>3
  <2>5. q \in at /\ q < p /\ Upto(q) = before
    <3>1. q \in at /\ q < p
      BY <2>4
    <3>2. \A j \in at : j <= q <=> j <= p /\ j # p
      BY <2>4, <3>1
    <3> QED
      BY <3>1, <3>2
  <2>6. size(q) >= k
    <3> HIDE DEF Upto, before
    <3> QED
      BY <1>2, <2>1, <2>5
  <2>7. p <= q
    BY <1>4, <2>5, <2>6
  <2> QED
    BY <2>5, <2>7
<1>6. \E x \in at : size(x) = k
  BY <1>5
<1> DEFINE T == {x \in at : Cardinality({j \in at : j <= x}) = k}
<1>7. T # {} /\ T \in SUBSET Nat
  <2>1. T \in SUBSET Nat
    BY <1>0, Zenon
  <2>2. T # {}
    BY <1>6, Zenon
  <2> QED
    BY <2>1, <2>2
<1>8. Min(T) \in T
  <2> HIDE DEF T
  <2> QED
    BY <1>7, LeastOf
<1> QED
  BY <1>8 DEF Nth

(* The bytes of a frame stay as they came, and a data byte adds its own.   *)
LEMMA BytesGrow ==
  ASSUME NEW n, NEW b, Grows(n, b), NEW at \in SUBSET (1 .. n)
  PROVE  LET held == Cardinality(at)
             more == at \union {n + 1}
         IN  /\ held \in Nat
             /\ \A k \in 1 .. held : Nth(at, k) \in 1 .. n /\ wire'[Nth(at, k)] = wire[Nth(at, k)]
             /\ Cardinality(more) = held + 1
             /\ \A k \in 1 .. held : wire'[Nth(more, k)] = wire[Nth(at, k)]
             /\ wire'[Nth(more, held + 1)] = b
<1> DEFINE held == Cardinality(at)
           more == at \union {n + 1}
<1>0. /\ n \in Nat /\ wire'[n + 1] = b /\ \A k \in 1 .. n : wire'[k] = wire[k]
  BY WireGrows
<1>1. held \in Nat
  <2>1. IsFiniteSet(1 .. n)
    BY <1>0, FS_Interval
  <2> QED
    BY <2>1, FS_Subset, FS_CardinalityType
<1>2. \A k \in 1 .. held : Nth(at, k) \in at
  BY <1>0, NthOf
<1>3. \A k \in 1 .. held : Nth(at, k) \in 1 .. n
  BY <1>2
<1>4. /\ Cardinality(more) = held + 1
      /\ \A k \in 1 .. held : Nth(more, k) = Nth(at, k)
      /\ Nth(more, held + 1) = n + 1
  BY <1>0, NthGrows
<1> HIDE DEF held, more
<1>5. \A k \in 1 .. held : wire'[Nth(at, k)] = wire[Nth(at, k)] /\ wire'[Nth(more, k)] = wire[Nth(at, k)]
  BY <1>0, <1>3, <1>4
<1>6. wire'[Nth(more, held + 1)] = b
  BY <1>0, <1>4
<1> QED
  BY <1>1, <1>3, <1>4, <1>5, <1>6 DEF held, more

LEMMA OpeningGrows ==
  ASSUME NEW n, NEW b, Grows(n, b)
  PROVE  /\ Opening(n) \in 0 .. n /\ Opening(n)' = Opening(n)
         /\ Opening(n + 1)' = IF b.class \in {"status", "sysex", "eox", "common", "gap"}
                              THEN n + 1 ELSE Opening(n)
         /\ Opening(n) # 0 => wire'[Opening(n)] = wire[Opening(n)]
<1>1. n \in Nat /\ \A k \in 1 .. n : wire'[k] = wire[k]
  BY WireGrows
<1>2. Opening(n) \in 0 .. n
  BY <1>1, LastIs DEF Opening
<1>3. Opening(n)' = Opening(n)
  BY LastGrows DEF Opening
<1>4. Opening(n + 1)' = IF b.class \in {"status", "sysex", "eox", "common", "gap"}
                        THEN n + 1 ELSE Opening(n)
  BY LastGrows DEF Opening
<1> QED
  BY <1>1, <1>2, <1>3, <1>4

(* What opens, ends or cuts a frame: none is held but one just opened.     *)
LEMMA FrameBegins ==
  ASSUME NEW n, NEW b, Grows(n, b),
         b.class \in {"status", "sysex", "eox", "common", "gap"},
         in_sysex' <=> b.class = "sysex",
         b.class = "sysex" => running_status' = NoStatus /\ sysex_overflow' = FALSE /\ sysex' = <<>>
  PROVE  FrameAsWired(n + 1)'
<1>1. n \in Nat /\ n + 1 # 0 /\ wire'[n + 1] = b
  BY WireGrows
<1>2. PICK open \in Nat : open = n + 1
  BY <1>1
<1>3. Opening(n + 1)' = open
  BY <1>2, OpeningGrows
<1>4. DataAt(open, n + 1)' = {}
  BY <1>1, <1>2, DataGrows
<1>5. DataAt(Opening(n + 1), n + 1)' = {}
  BY <1>3, <1>4 DEF DataAt
<1>6. Cardinality({}) = 0 /\ SYSEX_MAX \in Nat
  BY FS_EmptySet, BytesAssumption
<1>7. in_sysex' <=> Opening(n + 1)' # 0 /\ wire'[Opening(n + 1)'].class = "sysex"
  BY <1>1, <1>2, <1>3
<1>8. in_sysex' => /\ running_status' = NoStatus /\ sysex_overflow' = FALSE /\ Len(sysex') = 0
  OBVIOUS
<1> DEFINE none == Cardinality(DataAt(Opening(n + 1), n + 1)')
<1>9. none = 0 /\ ~(none > SYSEX_MAX) /\ none <= SYSEX_MAX /\ 1 .. none = {}
  BY <1>5, <1>6
<1> QED
  BY <1>5, <1>7, <1>8, <1>9 DEF FrameAsWired

(* Real time leaves a frame as it was, and a message's bytes are none.     *)
LEMMA FrameWaits ==
  ASSUME NEW n, NEW b, Grows(n, b), FrameAsWired(n),
         b.class \in {"realtime", "sense", "reset"} \/ (b.class = "data" /\ ~in_sysex),
         UNCHANGED <<in_sysex, sysex_overflow, sysex>>,
         running_status' = running_status \/ running_status' = NoStatus
  PROVE  FrameAsWired(n + 1)'
<1>0. n \in Nat /\ SYSEX_MAX \in Nat
  BY WireGrows, BytesAssumption
<1>1. PICK open \in 0 .. n : open = Opening(n) /\ open = Opening(n + 1)'
  BY OpeningGrows
<1>2. open # 0 => wire'[open] = wire[open]
  BY <1>1, OpeningGrows
<1>3. in_sysex <=> open # 0 /\ wire[open].class = "sysex"
  BY <1>1 DEF FrameAsWired
<1>4. in_sysex' <=> Opening(n + 1)' # 0 /\ wire'[Opening(n + 1)'].class = "sysex"
  BY <1>1, <1>2, <1>3
<1>5. CASE ~in_sysex
  BY <1>4, <1>5 DEF FrameAsWired
<1>6. CASE in_sysex
  <2>1. PICK at \in SUBSET (1 .. n) : at = DataAt(open, n)
    <3>1. open \in Nat
      BY <1>0
    <3>2. DataAt(open, n) \in SUBSET (1 .. n)
      BY <1>0, <3>1, DataCount
    <3> QED
      BY <3>2
  <2>2. DataAt(open, n + 1)' = at
    BY <1>0, <1>6, <2>1, DataGrows
  <2>3. DataAt(Opening(n + 1), n + 1)' = at
    BY <1>1, <2>2 DEF DataAt
  <2> DEFINE held == Cardinality(at)
  <2>4. /\ running_status = NoStatus
        /\ sysex_overflow <=> held > SYSEX_MAX
        /\ held > SYSEX_MAX => Len(sysex) = SYSEX_MAX
        /\ held <= SYSEX_MAX => Len(sysex) = held /\ \A k \in 1 .. held : sysex[k] = wire[Nth(at, k)].value
    BY <1>1, <1>6, <2>1 DEF FrameAsWired
  <2>b. /\ Cardinality(at) \in Nat
        /\ \A k \in 1 .. Cardinality(at) :
             Nth(at, k) \in 1 .. n /\ wire'[Nth(at, k)] = wire[Nth(at, k)]
        /\ Cardinality(at \union {n + 1}) = Cardinality(at) + 1
        /\ \A k \in 1 .. Cardinality(at) :
             wire'[Nth(at \union {n + 1}, k)] = wire[Nth(at, k)]
        /\ wire'[Nth(at \union {n + 1}, Cardinality(at) + 1)] = b
    BY BytesGrow, ZenonT(40)
  <2>5. \A k \in 1 .. held : wire'[Nth(at, k)] = wire[Nth(at, k)]
    BY <2>b
  <2> HIDE DEF held
  <2>6. held <= SYSEX_MAX => Len(sysex') = held /\ \A k \in 1 .. held : sysex'[k] = wire'[Nth(at, k)].value
    BY <2>4, <2>5
  <2> QED
    BY <1>4, <2>3, <2>4, <2>6 DEF FrameAsWired, held
<1> QED
  BY <1>5, <1>6

(* A data byte of a frame: held, or one too many.                          *)
LEMMA FrameGoesOn ==
  ASSUME NEW n, NEW b, Grows(n, b), FrameAsWired(n), b.class = "data", in_sysex,
         UNCHANGED <<running_status, in_sysex>>,
         IF Len(sysex) < SYSEX_MAX
         THEN sysex' = Append(sysex, b.value) /\ UNCHANGED sysex_overflow
         ELSE sysex_overflow' = TRUE /\ UNCHANGED sysex
  PROVE  FrameAsWired(n + 1)'
<1>0. n \in Nat /\ SYSEX_MAX \in Nat /\ sysex \in Seq(DataBytes) /\ sysex_overflow \in BOOLEAN
      /\ b.value \in DataBytes
  BY WireGrows, ByteCarries, BytesAssumption DEF Grows, PortTypes, ParserTypes
<1>1. PICK open \in 0 .. n : open = Opening(n) /\ open = Opening(n + 1)'
  BY OpeningGrows
<1>2. open # 0 => wire'[open] = wire[open]
  BY <1>1, OpeningGrows
<1>3. in_sysex <=> open # 0 /\ wire[open].class = "sysex"
  BY <1>1 DEF FrameAsWired
<1>4. in_sysex' <=> Opening(n + 1)' # 0 /\ wire'[Opening(n + 1)'].class = "sysex"
  BY <1>1, <1>2, <1>3
<1>5. PICK at \in SUBSET (1 .. n) : at = DataAt(open, n)
  <2>1. open \in Nat
    BY <1>0
  <2>2. DataAt(open, n) \in SUBSET (1 .. n)
    BY <1>0, <2>1, DataCount
  <2> QED
    BY <2>2
<1>6. PICK more : more = at \union {n + 1}
  OBVIOUS
<1>7. DataAt(open, n + 1)' = more
  BY <1>0, <1>5, <1>6, DataGrows
<1>8. DataAt(Opening(n + 1), n + 1)' = more
  BY <1>1, <1>7 DEF DataAt
<1> DEFINE held == Cardinality(at)
<1>9. /\ running_status = NoStatus
      /\ sysex_overflow <=> held > SYSEX_MAX
      /\ held > SYSEX_MAX => Len(sysex) = SYSEX_MAX
      /\ held <= SYSEX_MAX => Len(sysex) = held /\ \A k \in 1 .. held : sysex[k] = wire[Nth(at, k)].value
  BY <1>1, <1>5 DEF FrameAsWired
<1>10. /\ held \in Nat /\ Cardinality(more) = held + 1
       /\ \A k \in 1 .. held : wire'[Nth(more, k)] = wire[Nth(at, k)]
       /\ wire'[Nth(more, held + 1)] = b
  <2>b. /\ Cardinality(at) \in Nat
        /\ \A k \in 1 .. Cardinality(at) :
             Nth(at, k) \in 1 .. n /\ wire'[Nth(at, k)] = wire[Nth(at, k)]
        /\ Cardinality(at \union {n + 1}) = Cardinality(at) + 1
        /\ \A k \in 1 .. Cardinality(at) :
             wire'[Nth(at \union {n + 1}, k)] = wire[Nth(at, k)]
        /\ wire'[Nth(at \union {n + 1}, Cardinality(at) + 1)] = b
    BY BytesGrow, ZenonT(40)
  <2>1. /\ held \in Nat /\ Cardinality(at \union {n + 1}) = held + 1
        /\ \A k \in 1 .. held : wire'[Nth(at \union {n + 1}, k)] = wire[Nth(at, k)]
        /\ wire'[Nth(at \union {n + 1}, held + 1)] = b
    BY <2>b
  <2> HIDE DEF held
  <2> QED
    BY <1>6, <2>1
<1> HIDE DEF held
<1>11. /\ sysex_overflow' <=> held + 1 > SYSEX_MAX
       /\ held + 1 > SYSEX_MAX => Len(sysex') = SYSEX_MAX
       /\ held + 1 <= SYSEX_MAX =>
            Len(sysex') = held + 1 /\ \A k \in 1 .. held + 1 : sysex'[k] = wire'[Nth(more, k)].value
  <2>1. CASE held < SYSEX_MAX
    <3>1. Len(sysex) = held /\ held <= SYSEX_MAX /\ \A k \in 1 .. held : sysex[k] = wire[Nth(at, k)].value
      BY <1>0, <1>9, <1>10, <2>1
    <3>2. sysex' = Append(sysex, b.value) /\ sysex_overflow' = sysex_overflow
      BY <2>1, <3>1
    <3>3. /\ Len(sysex') = held + 1 /\ sysex'[held + 1] = b.value
          /\ \A k \in 1 .. held : sysex'[k] = sysex[k]
      BY <1>0, <1>10, <3>1, <3>2
    <3>4. \A k \in 1 .. held + 1 : sysex'[k] = wire'[Nth(more, k)].value
      <4> TAKE k \in 1 .. held + 1
      <4>1. CASE k = held + 1
        BY <1>10, <3>3, <4>1
      <4>2. CASE k # held + 1
        <5>1. k \in 1 .. held
          BY <1>10, <4>2
        <5> QED
          BY <1>10, <3>1, <3>3, <5>1
      <4> QED
        BY <4>1, <4>2
    <3> QED
      BY <1>0, <1>9, <1>10, <2>1, <3>2, <3>3, <3>4
  <2>2. CASE ~(held < SYSEX_MAX)
    <3>1. Len(sysex) = SYSEX_MAX
      BY <1>0, <1>9, <1>10, <2>2
    <3>2. sysex' = sysex /\ sysex_overflow' = TRUE
      BY <1>0, <3>1
    <3> QED
      BY <1>0, <1>10, <2>2, <3>1, <3>2
  <2> QED
    BY <2>1, <2>2
<1> DEFINE size == Cardinality(DataAt(Opening(n + 1), n + 1)')
<1>12. size = held + 1
  BY <1>8, <1>10
<1> QED
  BY <1>4, <1>8, <1>9, <1>11, <1>12 DEF FrameAsWired

(* The frame an F7 would deliver.                                          *)
HeldFrame(n) ==
  LET open  == Opening(n)
      at    == DataAt(open, n)
      bytes == [k \in 1 .. Cardinality(at) |-> wire[Nth(at, k)].value]
  IN  IF /\ open # 0 /\ wire[open].class = "sysex"
         /\ Cardinality(at) <= SYSEX_MAX
      THEN <<Frame(bytes)>> ELSE <<>>

LEMMA FrameMeans ==
  \A i \in Nat : FrameAt(i) = IF wire[i].class = "eox" THEN HeldFrame(i - 1) ELSE <<>>
<1> TAKE i \in Nat
<1> QED
  BY Zenon DEF FrameAt, HeldFrame

LEMMA FrameEnds ==
  ASSUME NEW n, NEW b, Grows(n, b), FrameAsWired(n)
  PROVE  FrameAt(n + 1)' = IF b.class = "eox" /\ in_sysex /\ ~sysex_overflow
                           THEN <<Frame(sysex)>> ELSE <<>>
<1>0. /\ n \in Nat /\ n + 1 - 1 = n /\ wire'[n + 1] = b /\ SYSEX_MAX \in Nat
      /\ sysex \in Seq(DataBytes)
  BY WireGrows, BytesAssumption DEF Grows, PortTypes, ParserTypes
<1>1. (\A i \in Nat : FrameAt(i) = IF wire[i].class = "eox" THEN HeldFrame(i - 1) ELSE <<>>)'
  BY FrameMeans, PTL
<1>2. FrameAt(n + 1)' = IF b.class = "eox" THEN HeldFrame(n + 1 - 1)' ELSE <<>>
  BY <1>0, <1>1
<1>3. HeldFrame(n + 1 - 1)' = HeldFrame(n)'
  BY <1>0
<1>4. PICK open \in 0 .. n : open = Opening(n) /\ open = Opening(n)'
  BY OpeningGrows
<1>5. open # 0 => wire'[open] = wire[open]
  BY <1>4, OpeningGrows
<1>6. PICK at \in SUBSET (1 .. n) : at = DataAt(open, n) /\ at = DataAt(open, n)'
  <2>1. open \in Nat
    BY <1>0
  <2>2. DataAt(open, n) \in SUBSET (1 .. n) /\ DataAt(open, n)' = DataAt(open, n)
    BY <1>0, <2>1, DataCount, DataGrows
  <2> QED
    BY <2>2
<1> DEFINE held  == Cardinality(at)
           bytes == [k \in 1 .. held |-> wire'[Nth(at, k)].value]
<1>7. HeldFrame(n)' = IF in_sysex /\ held <= SYSEX_MAX THEN <<Frame(bytes)>> ELSE <<>>
  <2>1. DataAt(Opening(n), n)' = at
    BY <1>4, <1>6 DEF DataAt
  <2>2. in_sysex <=> Opening(n)' # 0 /\ wire'[Opening(n)'].class = "sysex"
    BY <1>4, <1>5 DEF FrameAsWired
  <2> QED
    BY <2>1, <2>2 DEF HeldFrame, Frame
<1>b. /\ Cardinality(at) \in Nat
      /\ \A k \in 1 .. Cardinality(at) :
           Nth(at, k) \in 1 .. n /\ wire'[Nth(at, k)] = wire[Nth(at, k)]
      /\ Cardinality(at \union {n + 1}) = Cardinality(at) + 1
      /\ \A k \in 1 .. Cardinality(at) :
           wire'[Nth(at \union {n + 1}, k)] = wire[Nth(at, k)]
      /\ wire'[Nth(at \union {n + 1}, Cardinality(at) + 1)] = b
  BY BytesGrow, SMTT(30)
<1>8. in_sysex => (sysex_overflow <=> ~(held <= SYSEX_MAX))
  <2>1. held \in Nat
    BY <1>b
  <2> QED
    BY <1>0, <1>4, <1>6, <2>1 DEF FrameAsWired
<1>9. in_sysex /\ held <= SYSEX_MAX => bytes = sysex
  <2> SUFFICES ASSUME in_sysex, held <= SYSEX_MAX PROVE bytes = sysex
    OBVIOUS
  <2>1. Len(sysex) = held /\ \A k \in 1 .. held : sysex[k] = wire[Nth(at, k)].value
    BY <1>4, <1>6 DEF FrameAsWired
  <2>2. \A k \in 1 .. held : wire'[Nth(at, k)] = wire[Nth(at, k)]
    BY <1>b
  <2>3. sysex = [k \in 1 .. held |-> sysex[k]]
    BY <1>0, <2>1
  <2> HIDE DEF held
  <2> QED
    BY <2>1, <2>2, <2>3
<1> HIDE DEF held, bytes
<1> QED
  BY <1>2, <1>3, <1>7, <1>8, <1>9

-----------------------------------------------------------------------------
(* The calls a byte makes, one at most, are what it completes.             *)
LEMMA Together ==
  ASSUME NEW s \in Seq(Callback), NEW x \in Callback
  PROVE  /\ s \o (<<>> \o <<>> \o <<>>) = s
         /\ s \o (<<x>> \o <<>> \o <<>>) = Append(s, x)
         /\ s \o (<<>> \o <<x>> \o <<>>) = Append(s, x)
         /\ s \o (<<>> \o <<>> \o <<x>>) = Append(s, x)
         /\ Append(s, x) \in Seq(Callback)
<1> HIDE DEF Callback
<1>1. <<>> \o <<>> \o <<>> = <<>> /\ <<x>> \o <<>> \o <<>> = <<x>>
      /\ <<>> \o <<x>> \o <<>> = <<x>> /\ <<>> \o <<>> \o <<x>> = <<x>>
  OBVIOUS
<1>2. s \o <<>> = s
  OBVIOUS
<1>3. s \o <<x>> = Append(s, x) /\ Append(s, x) \in Seq(Callback)
  OBVIOUS
<1> QED
  BY <1>1, <1>2, <1>3

LEMMA Callbacks ==
  /\ NotesOff \in Callback
  /\ \A bytes \in Seq(DataBytes) :
       /\ Frame(bytes) \in Callback
       /\ \A type \in Types : Normalised(type, bytes) \in Callback
  BY DEF Callback

(* A byte fed to the parser, step by step.                                 *)
Fed(n, b) ==
  /\ Grows(n, b) /\ MessageAsWired(n) /\ FrameAsWired(n)
  /\ b \in Bytes /\ b.class # "gap" /\ ~BreaksAt(n + 1)'

Answers(n) ==
  /\ ParserTypes' /\ MessageAsWired(n + 1)' /\ FrameAsWired(n + 1)'
  /\ delivered' = delivered \o (MessageAt(n + 1)' \o FrameAt(n + 1)' \o <<>>)

LEMMA FeedsRealTime ==
  ASSUME NEW n, NEW b, Fed(n, b), FeedRealTime(b)
  PROVE  Answers(n)
<1> USE DEF Fed
<1>0. /\ ParserTypes /\ running_status = Running(n)
      /\ b.class \in {"realtime", "sense", "reset"}
      /\ UNCHANGED <<in_sysex, sysex_overflow, sysex, delivered>>
  BY DEF Grows, PortTypes, MessageAsWired, FeedRealTime
<1>1. FrameAt(n + 1)' = <<>>
  BY <1>0, FrameEnds
<1>2. /\ MessageAsWired(n + 1)' /\ MessageAt(n + 1)' = <<>> /\ data' \in {data, <<>>}
      /\ running_status' = running_status \/ running_status' = NoStatus
  <2>1. CASE b.class = "reset"
    <3>1. running_status' = NoStatus /\ data' = <<>> /\ Running(n + 1)' = NoStatus
      BY <2>1, RunningGrows DEF FeedRealTime
    <3> QED
      BY <2>1, <3>1, MessageBegins
  <2>2. CASE b.class # "reset"
    <3>1. UNCHANGED <<running_status, data>>
      BY <2>2 DEF FeedRealTime
    <3> QED
      BY <1>0, <2>2, <3>1, MessageWaits
  <2> QED
    BY <2>1, <2>2
<1>3. FrameAsWired(n + 1)'
  BY <1>0, <1>2, FrameWaits
<1> HIDE DEF Fed
<1>4. ParserTypes'
  <2>1. data' \in Seq(DataBytes) /\ Len(data') <= 1
    <3>1. CASE data' = <<>>
      BY <3>1
    <3>2. CASE data' = data
      BY <1>0, <3>2 DEF ParserTypes
    <3> QED
      BY <1>2, <3>1, <3>2
  <2>2. running_status' \in Types \union {NoStatus}
    BY <1>0, <1>2 DEF ParserTypes
  <2>3. /\ sysex' \in Seq(DataBytes) /\ in_sysex' \in BOOLEAN /\ sysex_overflow' \in BOOLEAN
        /\ delivered' \in Seq(Callback)
    BY <1>0 DEF ParserTypes
  <2> QED
    BY <2>1, <2>2, <2>3 DEF ParserTypes
<1>5. delivered' = delivered \o (<<>> \o <<>> \o <<>>)
  BY <1>0, Together, Callbacks DEF ParserTypes
<1> QED
  BY <1>1, <1>2, <1>3, <1>4, <1>5 DEF Answers

LEMMA FeedsCommon ==
  ASSUME NEW n, NEW b, Fed(n, b), FeedCommon(b)
  PROVE  Answers(n)
<1>0. /\ Grows(n, b) /\ MessageAsWired(n) /\ FrameAsWired(n)
      /\ ParserTypes /\ b.class \in {"sysex", "eox", "common"}
      /\ running_status' = NoStatus /\ data' = <<>>
  BY DEF Fed, Grows, PortTypes, FeedCommon
<1>1. in_sysex' <=> b.class = "sysex"
  BY Zenon DEF FeedCommon
<1>2. in_sysex' \in BOOLEAN
  BY Zenon DEF FeedCommon
<1>3. /\ b.class = "sysex" => sysex_overflow' = FALSE /\ sysex' = <<>>
      /\ b.class # "sysex" => sysex_overflow' = sysex_overflow /\ sysex' = sysex
  BY Zenon DEF FeedCommon
<1>4. IF b.class = "eox" /\ in_sysex /\ ~sysex_overflow
      THEN delivered' = Append(delivered, Frame(sysex)) ELSE delivered' = delivered
  BY Zenon DEF FeedCommon, Deliver
<1>5. MessageAsWired(n + 1)' /\ MessageAt(n + 1)' = <<>>
  <2>1. Running(n + 1)' = NoStatus
    BY <1>0, RunningGrows
  <2> QED
    BY <1>0, <2>1, MessageBegins
<1>6. FrameAsWired(n + 1)'
  BY <1>0, <1>1, <1>3, FrameBegins
<1>7. FrameAt(n + 1)' = IF b.class = "eox" /\ in_sysex /\ ~sysex_overflow
                        THEN <<Frame(sysex)>> ELSE <<>>
  BY <1>0, FrameEnds
<1>8. sysex \in Seq(DataBytes) /\ delivered \in Seq(Callback) /\ Frame(sysex) \in Callback
  BY <1>0, Callbacks DEF ParserTypes
<1>9. /\ delivered' = delivered \o (MessageAt(n + 1)' \o FrameAt(n + 1)' \o <<>>)
      /\ delivered' \in Seq(Callback)
  <2>1. CASE b.class = "eox" /\ in_sysex /\ ~sysex_overflow
    <3>1. delivered' = Append(delivered, Frame(sysex)) /\ FrameAt(n + 1)' = <<Frame(sysex)>>
      BY <1>4, <1>7, <2>1
    <3> QED
      BY <1>5, <1>8, <3>1, Together
  <2>2. CASE ~(b.class = "eox" /\ in_sysex /\ ~sysex_overflow)
    <3>1. delivered' = delivered /\ FrameAt(n + 1)' = <<>>
      BY <1>4, <1>7, <2>2
    <3> QED
      BY <1>5, <1>8, <3>1, Together
  <2> QED
    BY <2>1, <2>2
<1>10. ParserTypes'
  <2>1. data' \in Seq(DataBytes) /\ Len(data') <= 1
    BY <1>0
  <2>2. sysex' \in Seq(DataBytes) /\ sysex_overflow' \in BOOLEAN
    <3>1. CASE b.class = "sysex"
      <4>1. sysex' = <<>> /\ sysex_overflow' = FALSE
        BY <1>3, <3>1
      <4>2. sysex' \in Seq(DataBytes)
        BY <4>1
      <4>3. sysex_overflow' \in BOOLEAN
        BY <4>1, Zenon
      <4> QED
        BY <4>2, <4>3
    <3>2. CASE b.class # "sysex"
      BY <1>0, <1>3, <3>2 DEF ParserTypes
    <3> QED
      BY <3>1, <3>2
  <2> QED
    BY <1>0, <1>2, <1>9, <2>1, <2>2 DEF ParserTypes
<1> QED
  BY <1>5, <1>6, <1>9, <1>10 DEF Answers

LEMMA FeedsSysexByte ==
  ASSUME NEW n, NEW b, Fed(n, b), FeedSysexByte(b)
  PROVE  Answers(n)
<1>0. /\ Grows(n, b) /\ MessageAsWired(n) /\ FrameAsWired(n) /\ ~BreaksAt(n + 1)'
      /\ ParserTypes /\ b \in Bytes \union {Gap}
  BY DEF Fed, Grows, PortTypes
<1>1. /\ b.class = "data" /\ in_sysex /\ UNCHANGED <<running_status, data, in_sysex, delivered>>
      /\ IF Len(sysex) < SYSEX_MAX
         THEN sysex' = Append(sysex, b.value) /\ UNCHANGED sysex_overflow
         ELSE sysex_overflow' = TRUE /\ UNCHANGED sysex
  BY DEF FeedSysexByte
<1>2. running_status = NoStatus
  BY <1>0, <1>1 DEF FrameAsWired
<1>3. MessageAsWired(n + 1)' /\ MessageAt(n + 1)' = <<>>
  BY <1>0, <1>1, <1>2, MessageWaits
<1>4. FrameAsWired(n + 1)'
  BY <1>0, <1>1, FrameGoesOn
<1>5. FrameAt(n + 1)' = <<>>
  BY <1>0, <1>1, FrameEnds
<1>6. delivered' = delivered \o (<<>> \o <<>> \o <<>>)
  BY <1>0, <1>1, Together, Callbacks DEF ParserTypes
<1>7. ParserTypes'
  <2>1. b.value \in DataBytes /\ sysex \in Seq(DataBytes) /\ sysex_overflow \in BOOLEAN
    BY <1>0, <1>1, ByteCarries DEF ParserTypes
  <2>2. sysex' \in Seq(DataBytes) /\ sysex_overflow' \in BOOLEAN
    <3>1. CASE Len(sysex) < SYSEX_MAX
      <4>1. sysex' = Append(sysex, b.value) /\ sysex_overflow' = sysex_overflow
        BY <1>1, <3>1
      <4> QED
        BY <2>1, <4>1
    <3>2. CASE ~(Len(sysex) < SYSEX_MAX)
      <4>1. sysex' = sysex /\ sysex_overflow' = TRUE
        BY <1>1, <3>2
      <4> QED
        BY <2>1, <4>1
    <3> QED
      BY <3>1, <3>2
  <2> QED
    BY <1>0, <1>1, <2>2 DEF ParserTypes
<1> QED
  BY <1>3, <1>4, <1>5, <1>6, <1>7 DEF Answers

LEMMA FeedsStatus ==
  ASSUME NEW n, NEW b, Fed(n, b), FeedStatus(b)
  PROVE  Answers(n)
<1>0. /\ Grows(n, b) /\ MessageAsWired(n) /\ FrameAsWired(n)
      /\ ParserTypes /\ b \in Bytes \union {Gap}
  BY DEF Fed, Grows, PortTypes
<1>1. /\ b.class = "status" /\ in_sysex' = FALSE
      /\ running_status' = b.value /\ data' = <<>>
      /\ UNCHANGED <<sysex_overflow, sysex, delivered>>
  BY DEF FeedStatus
<1>2. MessageAsWired(n + 1)' /\ MessageAt(n + 1)' = <<>>
  <2>1. Running(n + 1)' = b.value
    BY <1>0, <1>1, RunningGrows
  <2> QED
    BY <1>0, <1>1, <2>1, MessageBegins
<1>3. FrameAsWired(n + 1)'
  BY <1>0, <1>1, FrameBegins
<1>4. FrameAt(n + 1)' = <<>>
  BY <1>0, <1>1, FrameEnds
<1>5. delivered' = delivered \o (<<>> \o <<>> \o <<>>)
  BY <1>0, <1>1, Together, Callbacks DEF ParserTypes
<1>6. ParserTypes'
  <2>1. b.value \in Types
    BY <1>0, <1>1, ByteCarries
  <2>2. data' \in Seq(DataBytes) /\ Len(data') <= 1
    BY <1>1
  <2> QED
    BY <1>0, <1>1, <2>1, <2>2 DEF ParserTypes
<1> QED
  BY <1>2, <1>3, <1>4, <1>5, <1>6 DEF Answers

LEMMA FeedsData ==
  ASSUME NEW n, NEW b, Fed(n, b), FeedData(b)
  PROVE  Answers(n)
<1> DEFINE bytes == Append(data, b.value)
           whole == Len(bytes) = DataLen(running_status)
<1>0. /\ Grows(n, b) /\ MessageAsWired(n) /\ FrameAsWired(n) /\ ~BreaksAt(n + 1)'
      /\ ParserTypes /\ b \in Bytes \union {Gap}
  BY DEF Fed, Grows, PortTypes
<1>1. /\ b.class = "data" /\ ~in_sysex
      /\ UNCHANGED <<running_status, in_sysex, sysex_overflow, sysex>>
  BY DEF FeedData
<1>2. FrameAsWired(n + 1)'
  BY <1>0, <1>1, FrameWaits
<1>3. FrameAt(n + 1)' = <<>>
  BY <1>0, <1>1, FrameEnds
<1>4. /\ b.value \in DataBytes /\ data \in Seq(DataBytes) /\ Len(data) <= 1
      /\ delivered \in Seq(Callback)
  BY <1>0, <1>1, ByteCarries DEF ParserTypes
<1>5. /\ MessageAsWired(n + 1)'
      /\ data' \in Seq(DataBytes) /\ Len(data') <= 1 /\ delivered' \in Seq(Callback)
      /\ delivered' = delivered \o (MessageAt(n + 1)' \o <<>> \o <<>>)
  <2>1. CASE running_status = NoStatus
    <3>1. data' = data /\ delivered' = delivered
      BY <2>1, Zenon DEF FeedData
    <3>2. MessageAsWired(n + 1)' /\ MessageAt(n + 1)' = <<>>
      BY <1>0, <1>1, <2>1, <3>1, MessageWaits
    <3> QED
      BY <1>4, <3>1, <3>2, Together, Callbacks
  <2>2. CASE running_status # NoStatus
    <3>1. IF whole THEN delivered' = Append(delivered, Normalised(running_status, bytes)) /\ data' = <<>>
                   ELSE data' = bytes /\ delivered' = delivered
      BY <2>2, Zenon DEF FeedData, Deliver
    <3>2. /\ data' = (IF whole THEN <<>> ELSE bytes) => MessageAsWired(n + 1)'
          /\ MessageAt(n + 1)' = IF whole THEN <<Normalised(running_status, bytes)>> ELSE <<>>
      BY <1>0, <1>1, <2>2, MessageGoesOn
    <3>3. bytes \in Seq(DataBytes) /\ Len(bytes) = Len(data) + 1 /\ Len(bytes) \in {1, 2}
      BY <1>4
    <3>4. ~whole => Len(bytes) <= 1
      <4>1. Since(n) \in Nat /\ n \in Nat
        BY <1>0, WireGrows, LastIs DEF Since
      <4>2. PICK held \in Nat : Len(data) = held % DataLen(running_status)
        BY <1>0, <2>2, <4>1, DataCount DEF MessageAsWired
      <4> DEFINE last == DataLen(running_status)
      <4>3. last = 1 \/ last = 2
        BY DEF DataLen
      <4> HIDE DEF bytes, last
      <4>4. last = 1 => Len(data) = 0
        <5>1. held % 1 = 0
          OBVIOUS
        <5> QED
          BY <4>2, <5>1 DEF last
      <4> QED
        BY <3>3, <4>3, <4>4 DEF last
    <3>5. Normalised(running_status, bytes) \in Callback
      BY <1>0, <2>2, <3>3, Callbacks DEF ParserTypes
    <3> HIDE DEF whole, bytes
    <3>6. CASE whole
      <4>1. data' = <<>> /\ MessageAsWired(n + 1)' /\ MessageAt(n + 1)' = <<Normalised(running_status, bytes)>>
            /\ delivered' = Append(delivered, Normalised(running_status, bytes))
        BY <3>1, <3>2, <3>6
      <4> QED
        <5>1. delivered' = delivered \o (MessageAt(n + 1)' \o <<>> \o <<>>) /\ delivered' \in Seq(Callback)
          BY <1>4, <3>5, <4>1, Together
        <5>2. data' \in Seq(DataBytes) /\ Len(data') <= 1
          BY <4>1
        <5> QED
          BY <4>1, <5>1, <5>2
    <3>7. CASE ~whole
      <4>1. data' = bytes /\ MessageAsWired(n + 1)' /\ MessageAt(n + 1)' = <<>> /\ delivered' = delivered
        BY <3>1, <3>2, <3>7
      <4> QED
        BY <1>4, <3>3, <3>4, <3>5, <3>7, <4>1, Together
    <3> QED
      BY <3>6, <3>7
  <2> QED
    BY <2>1, <2>2
<1>6. ParserTypes'
  BY <1>0, <1>1, <1>5 DEF ParserTypes
<1> QED
  BY <1>2, <1>3, <1>5, <1>6 DEF Answers

-----------------------------------------------------------------------------
(* Every step of the task keeps the invariant and delivers what the wire   *)
(* has completed.                                                          *)
LEMMA PortReceives ==
  ASSUME PortInv, NEW b \in Bytes, Receive(b)
  PROVE  PortInv' /\ wire' # wire /\ delivered' = delivered \o Completed'
<1>1. PICK n : n = Len(wire)
  OBVIOUS
<1>2. /\ PortTypes /\ LinkAsWired(n) /\ MessageAsWired(n) /\ FrameAsWired(n)
      /\ wire' = Append(wire, b) /\ idle' = 0 /\ midi_parser_feed(b)
      /\ Grows(n, b) /\ b.class # "gap"
  <2>1. b.class # "gap"
    BY ByteCarries
  <2> QED
    BY <1>1, <2>1 DEF PortInv, Receive, Seen, Grows
<1>3. LinkAsWired(n + 1)' /\ ~BreaksAt(n + 1)'
  <2>1. sensing' = (sensing \/ b.class = "sense")
    BY Zenon DEF Receive
  <2> QED
    BY <1>2, <2>1, LinkHears
<1>4. Fed(n, b)
  BY <1>2, <1>3 DEF Fed
<1>5. Answers(n)
  BY <1>2, <1>4, FeedsRealTime, FeedsCommon, FeedsSysexByte, FeedsStatus, FeedsData
     DEF midi_parser_feed
<1>6. /\ n \in Nat /\ Len(wire') = n + 1 /\ wire' \in Seq(Bytes \union {Gap})
  BY <1>2, WireGrows
<1>7. PortInv'
  <2>1. sensing' \in BOOLEAN
    BY Zenon DEF Receive
  <2>2. idle' \in 0 .. SILENCES - 1
    BY <1>2, WireAssumption
  <2> QED
    BY <1>3, <1>5, <1>6, <2>1, <2>2 DEF PortInv, PortTypes, Answers
<1>8. NotesOffAt(n + 1)' = <<>>
  BY <1>3 DEF NotesOffAt
<1>9. Completed' = MessageAt(n + 1)' \o FrameAt(n + 1)' \o <<>>
  BY <1>6, <1>8 DEF Completed
<1> QED
  BY <1>1, <1>5, <1>6, <1>7, <1>9 DEF Answers

LEMMA PortTimesOut ==
  ASSUME PortInv, Silence
  PROVE  PortInv' /\ wire' # wire /\ delivered' = delivered \o Completed'
<1>1. PICK n : n = Len(wire)
  OBVIOUS
<1>2. PICK b : b = Gap /\ b.class = "gap"
  <2>1. Gap.class = "gap"
    BY DEF Gap, Plain
  <2> QED
    BY <2>1
<1>3. /\ PortTypes /\ LinkAsWired(n) /\ MessageAsWired(n) /\ FrameAsWired(n)
      /\ Grows(n, b) /\ idle' = (idle + 1) % SILENCES
      /\ data' = <<>> /\ in_sysex' = FALSE /\ UNCHANGED <<sysex_overflow, sysex>>
  BY <1>1, <1>2 DEF PortInv, Silence, Seen, Grows, midi_parser_reset, midi_parser_reset_partial
<1> DEFINE broken == idle + 1 = SILENCES /\ sensing
<1>4. IF broken THEN /\ running_status' = NoStatus /\ sensing' = FALSE
                     /\ delivered' = Append(delivered, NotesOff)
                ELSE UNCHANGED <<running_status, sensing, delivered>>
  BY Zenon DEF Silence, Deliver, midi_parser_reset, midi_parser_reset_partial
<1>5. /\ LinkAsWired(n + 1)' /\ idle' \in 0 .. SILENCES - 1
      /\ BreaksAt(n + 1)' <=> broken
  <2>1. sensing \in BOOLEAN
    BY <1>3 DEF PortTypes
  <2>2. sensing' = (sensing /\ idle + 1 # SILENCES)
    BY <1>4, <2>1
  <2> QED
    BY <1>2, <1>3, <2>2, LinkIsSilent
<1>6. MessageAsWired(n + 1)' /\ MessageAt(n + 1)' = <<>>
  <2>1. running_status = Running(n)
    BY <1>3 DEF MessageAsWired
  <2>2. Running(n + 1)' = IF BreaksAt(n + 1)' THEN NoStatus ELSE Running(n)
    BY <1>2, <1>3, RunningGrows
  <2>3. running_status' = Running(n + 1)'
    BY <1>4, <1>5, <2>1, <2>2
  <2> QED
    BY <1>2, <1>3, <2>3, MessageBegins
<1>7. FrameAsWired(n + 1)' /\ FrameAt(n + 1)' = <<>>
  BY <1>2, <1>3, FrameBegins, FrameEnds
<1>8. /\ n \in Nat /\ Len(wire') = n + 1 /\ wire' \in Seq(Bytes \union {Gap})
  BY <1>3, WireGrows
<1>9. NotesOffAt(n + 1)' = IF broken THEN <<NotesOff>> ELSE <<>>
  BY <1>5 DEF NotesOffAt, NotesOff
<1>10. Completed' = <<>> \o <<>> \o NotesOffAt(n + 1)'
  BY <1>6, <1>7, <1>8 DEF Completed
<1>11. delivered' = delivered \o Completed' /\ delivered' \in Seq(Callback)
  <2>1. delivered \in Seq(Callback) /\ NotesOff \in Callback
    BY <1>3, Callbacks DEF PortTypes, ParserTypes
  <2>2. CASE broken
    <3>1. delivered' = Append(delivered, NotesOff) /\ Completed' = <<>> \o <<>> \o <<NotesOff>>
      BY <1>4, <1>9, <1>10, <2>2
    <3> QED
      BY <2>1, <3>1, Together
  <2>3. CASE ~broken
    <3>1. delivered' = delivered /\ Completed' = <<>> \o <<>> \o <<>>
      BY <1>4, <1>9, <1>10, <2>3
    <3> QED
      BY <2>1, <3>1, Together
  <2> QED
    BY <2>2, <2>3
<1>12. PortInv'
  <2>1. data' \in Seq(DataBytes) /\ Len(data') <= 1
    BY <1>3
  <2>2. /\ running_status' \in Types \union {NoStatus} /\ sensing' \in BOOLEAN
    BY <1>3, <1>4 DEF PortTypes, ParserTypes
  <2>3. ParserTypes'
    BY <1>3, <1>11, <2>1, <2>2 DEF PortTypes, ParserTypes
  <2> QED
    BY <1>5, <1>6, <1>7, <1>8, <2>2, <2>3 DEF PortInv, PortTypes
<1> QED
  BY <1>1, <1>8, <1>11, <1>12

LEMMA PortStarts == MidiInit => PortInv
<1> SUFFICES ASSUME MidiInit PROVE PortInv
  OBVIOUS
<1>1. /\ running_status = NoStatus /\ data = <<>> /\ in_sysex = FALSE /\ sysex_overflow = FALSE
      /\ sysex = <<>> /\ delivered = <<>> /\ sensing = FALSE /\ idle = 0 /\ wire = <<>>
  BY DEF MidiInit, midi_parser_init
<1>2. Len(wire) = 0
  BY <1>1
<1>3. ParserTypes
  <2>1. in_sysex \in BOOLEAN /\ sysex_overflow \in BOOLEAN
    BY <1>1, Zenon
  <2>2. <<>> \in Seq(DataBytes) /\ Len(<<>>) <= 1 /\ <<>> \in Seq(Callback)
    <3> HIDE DEF Callback
    <3> QED
      OBVIOUS
  <2>3. /\ data \in Seq(DataBytes) /\ Len(data) <= 1 /\ sysex \in Seq(DataBytes)
        /\ delivered \in Seq(Callback)
    BY <1>1, <2>2
  <2> QED
    BY <1>1, <2>1, <2>3 DEF ParserTypes
<1>4. PortTypes
  <2>1. sensing \in BOOLEAN
    BY <1>1, Zenon
  <2>2. idle \in 0 .. SILENCES - 1
    BY <1>1, WireAssumption
  <2>3. wire \in Seq(Bytes \union {Gap})
    BY <1>1
  <2> QED
    BY <1>3, <2>1, <2>2, <2>3 DEF PortTypes
<1>5. LinkAsWired(0)
  BY <1>1 DEF LinkAsWired, Alive
<1>6. Running(0) = NoStatus
  <2>1. Owner(0) = 0
    BY LastIs DEF Owner
  <2> QED
    BY <2>1 DEF Running
<1>7. MessageAsWired(0)
  BY <1>1, <1>6 DEF MessageAsWired
<1>8. FrameAsWired(0)
  <2>1. Opening(0) = 0
    BY LastIs DEF Opening
  <2> QED
    BY <1>1, <2>1 DEF FrameAsWired
<1> QED
  BY <1>2, <1>4, <1>5, <1>7, <1>8 DEF PortInv

(* Nothing happens on the port.                                            *)
LEMMA PortIdles ==
  ASSUME PortInv, UNCHANGED midi_vars
  PROVE  PortInv'
<1>1. UNCHANGED <<running_status, data, in_sysex, sysex_overflow, sysex, delivered, sensing, idle, wire>>
  BY DEF midi_vars, parser_vars
<1>2. PICK n : n = Len(wire) /\ n = Len(wire)'
  BY <1>1
<1>3. PortTypes'
  BY <1>1 DEF PortInv, PortTypes, ParserTypes
<1>4. \A k : QuietAt(k)' <=> QuietAt(k)
  BY <1>1 DEF QuietAt, IsGap
<1>5. \A k : BreaksAt(k)' <=> BreaksAt(k)
  BY <1>1, <1>4, Zenon DEF BreaksAt
<1>6. Alive(n)' <=> Alive(n)
  BY <1>1, <1>4, Zenon DEF Alive
<1>7. \A classes : LastOf(n, classes)' = LastOf(n, classes)
  BY <1>1, Zenon DEF LastOf
<1>8. Owner(n)' = Owner(n) /\ Since(n)' = Since(n) /\ Opening(n)' = Opening(n)
  BY <1>7, Zenon DEF Owner, Since, Opening
<1>9. Running(n)' = Running(n)
  BY <1>1, <1>5, <1>8, Zenon DEF Running
<1>10. LinkAsWired(n)'
  BY <1>1, <1>2, <1>6 DEF PortInv, LinkAsWired, IsGap
<1>11. MessageAsWired(n)'
  <2>1. DataAt(Since(n), n)' = DataAt(Since(n), n)
    BY <1>1, <1>8, Zenon DEF DataAt
  <2> QED
    BY <1>1, <1>2, <1>9, <2>1 DEF PortInv, MessageAsWired, DataLen
<1>12. FrameAsWired(n)'
  <2>1. DataAt(Opening(n), n)' = DataAt(Opening(n), n)
    BY <1>1, <1>8, Zenon DEF DataAt
  <2> QED
    BY <1>1, <1>2, <1>8, <2>1 DEF PortInv, FrameAsWired
<1> QED
  BY <1>2, <1>3, <1>10, <1>11, <1>12 DEF PortInv

(* A MIDI port delivers exactly what its wire completes, in every          *)
(* behaviour and whatever the bytes and silences.                          *)
THEOREM WireIsDelivered == MidiSpec => DeliversTheWire
<1>1. ASSUME PortInv, [MidiNext]_midi_vars
      PROVE  PortInv' /\ [wire' # wire /\ delivered' = delivered \o Completed']_midi_vars
  <2>1. CASE Silence
    BY <1>1, <2>1, PortTimesOut
  <2>2. CASE \E b \in Bytes : Receive(b)
    BY <1>1, <2>2, PortReceives
  <2>3. CASE UNCHANGED midi_vars
    BY <1>1, <2>3, PortIdles
  <2> QED
    BY <1>1, <2>1, <2>2, <2>3 DEF MidiNext, midi_in_task
<1> QED
  BY <1>1, PortStarts, PTL DEF MidiSpec, DeliversTheWire
=============================================================================
