----------------------------- MODULE Keystrokes -----------------------------
(***************************************************************************)
(* What the voice allocator promises the player, without its table: the    *)
(* strikes that are held, in the order they were struck, and the tails, in *)
(* the order they were released.  At most Polyphony of both sound.  A new  *)
(* strike beyond that costs the oldest tail; with no tail left, the oldest *)
(* held strike.  A key-up goes to the oldest strike of its note that no    *)
(* key-up has reached yet.                                                 *)
(***************************************************************************)
EXTENDS Naturals, Sequences, SequencesExt

CONSTANTS Polyphony, Notes

VARIABLES held,    \* strikes, oldest first: [note, sustained]
          tails,   \* notes of the released strikes, first released first
          pedal    \* the sustain pedal is down

vars == <<held, tails, pedal>>

Strike(note) == [note |-> note, sustained |-> FALSE]

Full == Len(held) + Len(tails) = Polyphony

(* The positions of a set, lowest first.                                   *)
Ascending(S) ==
  {order \in SetToSeqs(S) :
     \A i, j \in DOMAIN order : i < j => order[i] < order[j]}

(***************************************************************************)
(* The strikes at the positions in S become tails.  Several at once, by    *)
(* the pedal or a panic, do so in any order.                               *)
(***************************************************************************)
ReleaseAt(S) ==
  /\ \E rest \in Ascending(DOMAIN held \ S) :
       held' = [i \in DOMAIN rest |-> held[rest[i]]]
  /\ \E order \in SetToSeqs(S) :
       tails' = tails \o [i \in DOMAIN order |-> held[order[i]].note]

Init == held = <<>> /\ tails = <<>> /\ pedal = FALSE

NoteOn(note) ==
  /\ tails' = IF Full /\ tails # <<>> THEN Tail(tails) ELSE tails
  /\ held' = Append(IF Full /\ tails = <<>> THEN Tail(held) ELSE held,
                    Strike(note))
  /\ UNCHANGED pedal

NoteOff(note) ==
  \E i \in DOMAIN held :
    /\ held[i].note = note /\ ~held[i].sustained
    /\ \A j \in 1 .. i - 1 : held[j].note # note \/ held[j].sustained
    /\ IF pedal
       THEN held' = [held EXCEPT ![i].sustained = TRUE] /\ UNCHANGED tails
       ELSE ReleaseAt({i})
    /\ UNCHANGED pedal

PedalDown == pedal' = TRUE /\ UNCHANGED <<held, tails>>

PedalUp ==
  /\ pedal' = FALSE
  /\ ReleaseAt({i \in DOMAIN held : held[i].sustained})

AllNotesOff == pedal' = FALSE /\ ReleaseAt(DOMAIN held)

AllSoundOff == pedal' = FALSE /\ held' = <<>> /\ tails' = <<>>

Next ==
  \/ \E note \in Notes : NoteOn(note) \/ NoteOff(note)
  \/ PedalDown \/ PedalUp \/ AllNotesOff \/ AllSoundOff

Spec == Init /\ [][Next]_vars
=============================================================================
