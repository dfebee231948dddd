---------------------------- MODULE PresetLoader ----------------------------
(***************************************************************************)
(* app/main/voice_alloc.cpp, the active preset: CC edits and their         *)
(* coalesced flush, Bank Select and Program Change, the loader task, and   *)
(* the hand-off of a preset between a task that has one and the voice task.*)
(*                                                                         *)
(* Tasks: the voice task, the loader and the console.  An event of s_queue *)
(* is a CC edit, a Program Change or a preset request; a request carries   *)
(* pointers into the frame of the task that made it, which is written here *)
(* as that task's name.  A preset is a value for each part of the sound;   *)
(* what the engine link has been sent of a part is `sounds`.               *)
(***************************************************************************)
EXTENDS Integers, Sequences, FiniteSets

CONSTANTS Parts,           \* parts of the sound, each with its dirty bit
          Programs,        \* programs a surface may ask for
          Missing,         \* those among them with no preset that reads
          Edited,          \* what a CC edit sets a part to
          Startup,         \* the preset at power-on, of no program
          Loads,           \* presets the console loads
          QUEUE_LENGTH,    \* s_queue (64)
          PROGRAM_QUEUE_LENGTH,  \* s_program_queue (4)
          MaxEvents        \* bound: MIDI events in a behaviour

ASSUME LoaderAssumption ==
  /\ {QUEUE_LENGTH, PROGRAM_QUEUE_LENGTH, MaxEvents} \subseteq Nat
  /\ Missing \subseteq Programs
  /\ Loads \subseteq {Edited, Startup}
  /\ {Edited, Startup} \cap Programs = {}

VARIABLES
  s_queue,           \* the voice task's events
  s_program_queue,   \* programs for the loader
  g_preset, s_pending, sounds,
  due,               \* 15 ms have passed since the last flush
  pc,                \* what the loader and the console are at
  frame,             \* the preset in each one's frame
  request,           \* the program the loader has in hand
  (* history *)
  events,            \* MIDI events so far
  asked,             \* the program of the last Program Change handled
  lost               \* that program was dropped or given up, or a preset
                     \* loaded from the console has come since

requesters == <<pc, frame, request>>
sound      == <<g_preset, s_pending, sounds, due>>
vars == <<s_queue, s_program_queue, sound, requesters, events, asked, lost>>

Tasks  == {"loader", "console"}
Values == Programs \union {Edited, Startup}
Preset == [Parts -> Values]
Of(p)  == [part \in Parts |-> p]      \* the preset stored for a program

Edit(part)        == [kind |-> "edit", part |-> part]
Change(program)   == [kind |-> "program", program |-> program]
Request(set, task) == [kind |-> "preset", set |-> set, task |-> task]

Init ==
  /\ s_queue = <<>> /\ s_program_queue = <<>>
  /\ g_preset = Of(Startup) /\ s_pending = {} /\ sounds = Of(Startup)
  /\ due = TRUE
  /\ pc = [t \in Tasks |-> "idle"]
  /\ frame = [t \in Tasks |-> Of(Startup)]
  /\ request = Startup
  /\ events = 0 /\ asked = Startup /\ lost = FALSE

-----------------------------------------------------------------------------
(* The event bus: an event that finds the queue full is dropped.           *)
event_bus_publish(event) ==
  /\ events < MaxEvents
  /\ events' = events + 1
  /\ s_queue' = IF Len(s_queue) < QUEUE_LENGTH THEN Append(s_queue, event)
                                               ELSE s_queue
  /\ UNCHANGED <<s_program_queue, sound, requesters, asked, lost>>

(* 15 ms pass.                                                             *)
FlushDue ==
  /\ ~due
  /\ due' = TRUE
  /\ UNCHANGED <<s_queue, s_program_queue, g_preset, s_pending, sounds,
                 requesters, events, asked, lost>>

-----------------------------------------------------------------------------
(***************************************************************************)
(* The voice task.  A turn handles an event, or finds none in 20 ms, and   *)
(* then flushes what is pending if a flush is due.                         *)
(***************************************************************************)
Flush(preset, pending, now_due) ==
  /\ g_preset' = preset
  /\ IF pending # {} /\ now_due
     THEN /\ sounds' = [part \in Parts |->
                          IF part \in pending THEN preset[part] ELSE sounds[part]]
          /\ s_pending' = {} /\ due' = FALSE
     ELSE /\ s_pending' = pending /\ due' = now_due /\ UNCHANGED sounds

Quiet == s_queue = <<>> /\ s_pending # {} /\ due
         /\ Flush(g_preset, s_pending, due)
         /\ UNCHANGED <<s_queue, s_program_queue, requesters, events, asked,
                        lost>>

(* Mutant: the edit's dirty bit replaces those still pending.              *)
HandleEdit_assigns(part) ==
  /\ s_queue # <<>> /\ Head(s_queue) = Edit(part)
  /\ s_queue' = Tail(s_queue)
  /\ Flush([g_preset EXCEPT ![part] = Edited], {part}, due)
  /\ UNCHANGED <<s_program_queue, requesters, events, asked, lost>>

HandleEdit(part) ==
  /\ s_queue # <<>> /\ Head(s_queue) = Edit(part)
  /\ s_queue' = Tail(s_queue)
  /\ Flush([g_preset EXCEPT ![part] = Edited], s_pending \union {part}, due)
  /\ UNCHANGED <<s_program_queue, requesters, events, asked, lost>>

(* program_change: to the loader's queue, or dropped if that is full.      *)
HandleProgram(program) ==
  /\ s_queue # <<>> /\ Head(s_queue) = Change(program)
  /\ s_queue' = Tail(s_queue)
  /\ s_program_queue' =
       IF Len(s_program_queue) < PROGRAM_QUEUE_LENGTH
       THEN Append(s_program_queue, program) ELSE s_program_queue
  /\ asked' = program
  /\ lost' = (Len(s_program_queue) = PROGRAM_QUEUE_LENGTH)
  /\ Flush(g_preset, s_pending, due)
  /\ UNCHANGED <<requesters, events>>

(* apply_preset marks every part and flushes at once (s_last_flush = 0).   *)
ApplyPreset(preset) == Flush(preset, Parts, TRUE)

(* Mutant: the semaphore is given for a set alone.                         *)
HandleRequest_silent_get(task, set) ==
  /\ s_queue # <<>> /\ Head(s_queue) = Request(set, task)
  /\ s_queue' = Tail(s_queue)
  /\ IF set
     THEN ApplyPreset(frame[task]) /\ UNCHANGED frame
     ELSE /\ frame' = [frame EXCEPT ![task] = g_preset]
          /\ Flush(g_preset, s_pending, due)
  /\ pc' = IF set THEN [pc EXCEPT ![task] = "done"] ELSE pc
  /\ UNCHANGED <<s_program_queue, request, events, asked, lost>>

HandleRequest(task, set) ==
  /\ s_queue # <<>> /\ Head(s_queue) = Request(set, task)
  /\ s_queue' = Tail(s_queue)
  /\ IF set
     THEN ApplyPreset(frame[task]) /\ UNCHANGED frame
     ELSE /\ frame' = [frame EXCEPT ![task] = g_preset]
          /\ Flush(g_preset, s_pending, due)
  /\ pc' = [pc EXCEPT ![task] = "done"]       \* the semaphore is given
  /\ lost' = (lost \/ (task = "console" /\ set))
  /\ UNCHANGED <<s_program_queue, request, events, asked>>

-----------------------------------------------------------------------------
(***************************************************************************)
(* preset_request, on the loader or the console.  It waits up to 500 ms    *)
(* for room in the queue and, once queued, for the answer however long.    *)
(***************************************************************************)
Queued(task, set) ==
  /\ pc[task] = "asking"
  /\ Len(s_queue) < QUEUE_LENGTH
  /\ s_queue' = Append(s_queue, Request(set, task))
  /\ pc' = [pc EXCEPT ![task] = "waiting"]
  /\ UNCHANGED <<s_program_queue, sound, frame, request, events, asked, lost>>

GivesUp(task) ==
  /\ pc[task] = "asking"
  /\ Len(s_queue) = QUEUE_LENGTH
  /\ pc' = [pc EXCEPT ![task] = "idle"]
  /\ lost' = (lost \/ (task = "loader" /\ s_program_queue = <<>>))
  /\ UNCHANGED <<s_queue, s_program_queue, sound, frame, request, events,
                 asked>>

(* Mutant: the wait for the answer is bounded too.                         *)
Answered_or_timeout(task) ==
  /\ pc[task] \in {"waiting", "done"}
  /\ pc' = [pc EXCEPT ![task] = "idle"]
  /\ UNCHANGED <<s_queue, s_program_queue, sound, frame, request, events,
                 asked, lost>>

Answered(task) ==
  /\ pc[task] = "done"
  /\ pc' = [pc EXCEPT ![task] = "idle"]
  /\ UNCHANGED <<s_queue, s_program_queue, sound, frame, request, events,
                 asked, lost>>

(* The console loads a preset, or reads the active one; "asking" to set or *)
(* to get is told apart by what it queues.                                 *)
ConsoleAsks(preset) ==
  /\ pc["console"] = "idle"
  /\ pc' = [pc EXCEPT !["console"] = "asking"]
  /\ frame' = [frame EXCEPT !["console"] = preset]
  /\ UNCHANGED <<s_queue, s_program_queue, sound, request, events, asked,
                 lost>>

(***************************************************************************)
(* The loader takes a program, then whatever else waits, keeping the last; *)
(* reads its preset; hands it over; or gives up on a program it cannot read*)
(***************************************************************************)
LoaderReceives ==
  /\ pc["loader"] = "idle" /\ s_program_queue # <<>>
  /\ request' = Head(s_program_queue)
  /\ s_program_queue' = Tail(s_program_queue)
  /\ pc' = [pc EXCEPT !["loader"] = "draining"]
  /\ UNCHANGED <<s_queue, sound, frame, events, asked, lost>>

(* Mutant: the first of a storm is kept, the rest thrown away.             *)
LoaderDrains_keeps_first ==
  /\ pc["loader"] = "draining" /\ s_program_queue # <<>>
  /\ s_program_queue' = Tail(s_program_queue)
  /\ UNCHANGED <<s_queue, sound, requesters, events, asked, lost>>

LoaderDrains ==
  /\ pc["loader"] = "draining" /\ s_program_queue # <<>>
  /\ request' = Head(s_program_queue)
  /\ s_program_queue' = Tail(s_program_queue)
  /\ UNCHANGED <<s_queue, sound, pc, frame, events, asked, lost>>

LoaderDrained ==
  /\ pc["loader"] = "draining" /\ s_program_queue = <<>>
  /\ pc' = [pc EXCEPT !["loader"] = "reading"]
  /\ UNCHANGED <<s_queue, s_program_queue, sound, frame, request, events,
                 asked, lost>>

LoaderReads ==
  /\ pc["loader"] = "reading"
  /\ IF request \in Missing
     THEN pc' = [pc EXCEPT !["loader"] = "idle"] /\ UNCHANGED frame
     ELSE /\ pc' = [pc EXCEPT !["loader"] = "asking"]
          /\ frame' = [frame EXCEPT !["loader"] = Of(request)]
  /\ UNCHANGED <<s_queue, s_program_queue, sound, request, events, asked,
                 lost>>

VoiceTask ==
  \/ Quiet
  \/ \E part \in Parts : HandleEdit(part)
  \/ \E program \in Programs : HandleProgram(program)
  \/ \E task \in Tasks, set \in BOOLEAN : HandleRequest(task, set)

LoaderTask ==
  \/ LoaderReceives \/ LoaderDrains \/ LoaderDrained \/ LoaderReads
  \/ Queued("loader", TRUE) \/ GivesUp("loader") \/ Answered("loader")

ConsoleTask ==
  \/ \E set \in BOOLEAN : Queued("console", set)
  \/ GivesUp("console") \/ Answered("console")

Next ==
  \/ \E part \in Parts : event_bus_publish(Edit(part))
  \/ \E program \in Programs : event_bus_publish(Change(program))
  \/ FlushDue
  \/ VoiceTask \/ LoaderTask \/ ConsoleTask
  \/ \E p \in Loads : ConsoleAsks(Of(p))

Spec == Init /\ [][Next]_vars

(***************************************************************************)
(* Every task that can run does: the scheduler is preemptive and the voice *)
(* task, above the loader and the console, blocks when its queue is empty  *)
(* and yields when it is not.  No one has to publish or to ask.            *)
(***************************************************************************)
FairSpec ==
  Spec /\ WF_vars(FlushDue) /\ WF_vars(VoiceTask) /\ WF_vars(LoaderTask)
       /\ WF_vars(ConsoleTask)

-----------------------------------------------------------------------------
TypeOK ==
  /\ s_queue \in Seq([kind : {"edit"}, part : Parts]
                     \union [kind : {"program"}, program : Programs]
                     \union [kind : {"preset"}, set : BOOLEAN, task : Tasks])
  /\ Len(s_queue) <= QUEUE_LENGTH
  /\ s_program_queue \in Seq(Programs)
  /\ Len(s_program_queue) <= PROGRAM_QUEUE_LENGTH
  /\ {g_preset, sounds} \subseteq Preset
  /\ s_pending \subseteq Parts
  /\ due \in BOOLEAN
  /\ pc \in [Tasks -> {"idle", "draining", "reading", "asking", "waiting", "done"}]
  /\ frame \in [Tasks -> Preset]
  /\ {request, asked} \subseteq Programs \union {Startup}
  /\ events \in 0 .. MaxEvents
  /\ lost \in BOOLEAN

(* Only the parts still marked dirty may differ between the active preset  *)
(* and what the engine sounds: an edit coalesced with others is never lost,*)
(* whatever presets are applied between the edit and its flush.            *)
SoundFollowsPreset ==
  \A part \in Parts \ s_pending : sounds[part] = g_preset[part]

(* A queued request points into a frame and at a semaphore: while it is in *)
(* the queue its task is still in preset_request, and has made no other.   *)
RequestsHaveWaiters ==
  \A i \in DOMAIN s_queue : s_queue[i].kind = "preset" =>
    /\ pc[s_queue[i].task] = "waiting"
    /\ \A j \in DOMAIN s_queue :
          s_queue[j].kind = "preset" /\ s_queue[j].task = s_queue[i].task => j = i

(* With every queue empty and the loader idle, the preset is that of the   *)
(* last Program Change handled, if there is one of that program, and edits *)
(* since: however changes, edits and the loader's reads fall, no earlier   *)
(* program comes out last; unless the change was lost on the way or the    *)
(* console has loaded over it.                                             *)
LoaderAtRest ==
  /\ s_queue = <<>> /\ s_program_queue = <<>> /\ pc["loader"] = "idle"
  /\ asked \notin Missing

OfLastProgram == \A part \in Parts : g_preset[part] \in {asked, Edited}

LastProgramWins == LoaderAtRest /\ ~lost => OfLastProgram

(* Whoever asks for a preset to be set or read gets back to its work: it   *)
(* is answered, or told that the queue had no room.                        *)
RequestersReturn ==
  \A task \in Tasks : pc[task] \in {"asking", "waiting"} ~> pc[task] = "idle"
=============================================================================
