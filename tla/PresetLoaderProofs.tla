------------------------- MODULE PresetLoaderProofs -------------------------
(***************************************************************************)
(* For every set of parts and programs, every length of the two queues and *)
(* any number of events: a queued request has a task that waits for it,    *)
(* what is not marked dirty sounds as the active preset says, and the      *)
(* program that comes out last is the last one asked for.  Behind them,    *)
(* the theorems about the console.                                         *)
(*                                                                         *)
(* SoundFollowsPreset and RequestsHaveWaiters are inductive with the types.*)
(* LastProgramWins is not: it says nothing of the program on its way.  What*)
(* is inductive is where that program is (OnItsWay): last in the loader's  *)
(* queue, in the loader's hand, in the frame it hands over, or in the      *)
(* active preset; with that, the loader's requests are all to set          *)
(* (LoaderSets) and its frame is the one it waits with                     *)
(* (RequestsHaveWaiters).                                                  *)
(***************************************************************************)
EXTENDS PresetLoader, Console, SequenceTheorems, WellFoundedInduction, TLAPS

Event == [kind : {"edit"}, part : Parts]
         \union [kind : {"program"}, program : Programs]
         \union [kind : {"preset"}, set : BOOLEAN, task : Tasks]

(* The loader never asks for the active preset, only to have one applied.  *)
LoaderSets ==
  \A i \in DOMAIN s_queue :
    s_queue[i].kind = "preset" /\ s_queue[i].task = "loader" => s_queue[i].set

(* Where the program of the last Program Change is.                        *)
OnItsWay ==
  \/ /\ s_program_queue # <<>>
     /\ s_program_queue[Len(s_program_queue)] = asked
  \/ /\ s_program_queue = <<>>
     /\ \/ pc["loader"] \in {"draining", "reading"} /\ request = asked
        \/ pc["loader"] \in {"asking", "waiting"} /\ frame["loader"] = Of(asked)
        \/ pc["loader"] \in {"done", "idle"} /\ (asked \in Missing \/ OfLastProgram)

NotLost == ~lost => OnItsWay

-----------------------------------------------------------------------------
(* What taking an event off the queue, and putting one on it, leave there. *)

LEMMA QueueTyped ==
  ASSUME TypeOK
  PROVE  s_queue \in Seq(Event) /\ DOMAIN s_queue = 1 .. Len(s_queue)
BY DEF TypeOK, Event

LEMMA EventTaken ==
  ASSUME TypeOK, s_queue # <<>>, s_queue' = Tail(s_queue)
  PROVE  /\ s_queue' \in Seq(Event)
         /\ Len(s_queue') <= QUEUE_LENGTH
         /\ 1 \in DOMAIN s_queue /\ Head(s_queue) = s_queue[1]
         /\ \A i \in DOMAIN s_queue' :
              /\ i + 1 \in DOMAIN s_queue /\ i + 1 # 1
              /\ s_queue'[i] = s_queue[i + 1]
<1>1. s_queue \in Seq(Event) /\ Len(s_queue) <= QUEUE_LENGTH
  BY DEF TypeOK, Event
<1> QED
  BY <1>1, LoaderAssumption

LEMMA EventAdded ==
  ASSUME TypeOK, Len(s_queue) < QUEUE_LENGTH, NEW event \in Event,
         s_queue' = Append(s_queue, event)
  PROVE  /\ s_queue' \in Seq(Event)
         /\ Len(s_queue') <= QUEUE_LENGTH
         /\ \A i \in DOMAIN s_queue' :
              \/ i \in DOMAIN s_queue /\ s_queue'[i] = s_queue[i]
              \/ i = Len(s_queue) + 1 /\ s_queue'[i] = event
         /\ Len(s_queue) + 1 \notin DOMAIN s_queue
<1>1. s_queue \in Seq(Event)
  BY DEF TypeOK, Event
<1> QED
  BY <1>1, LoaderAssumption

LEMMA EventsAre ==
  /\ \A part \in Parts : Edit(part) \in Event /\ Edit(part).kind # "preset"
  /\ \A program \in Programs :
       Change(program) \in Event /\ Change(program).kind # "preset"
  /\ \A task \in Tasks, set \in BOOLEAN :
       /\ Request(set, task) \in Event
       /\ Request(set, task).kind = "preset"
       /\ Request(set, task).set = set /\ Request(set, task).task = task
BY DEF Edit, Change, Request, Event

(* A publish leaves the queue alone, or adds an event that is no request.  *)
LEMMA Published ==
  ASSUME TypeOK, NEW event \in Event, event_bus_publish(event)
  PROVE  /\ s_queue' \in Seq(Event)
         /\ Len(s_queue') <= QUEUE_LENGTH
         /\ \A i \in DOMAIN s_queue' :
              \/ i \in DOMAIN s_queue /\ s_queue'[i] = s_queue[i]
              \/ s_queue'[i] = event
BY EventAdded, QueueTyped DEF event_bus_publish, TypeOK

(* The loader's queue, taken from and added to.                            *)
LEMMA ProgramTaken ==
  ASSUME TypeOK, s_program_queue # <<>>,
         s_program_queue' = Tail(s_program_queue)
  PROVE  /\ s_program_queue' \in Seq(Programs)
         /\ Len(s_program_queue') <= PROGRAM_QUEUE_LENGTH
         /\ Head(s_program_queue) \in Programs
         /\ IF s_program_queue' = <<>>
            THEN Head(s_program_queue) = s_program_queue[Len(s_program_queue)]
            ELSE s_program_queue'[Len(s_program_queue')]
                   = s_program_queue[Len(s_program_queue)]
<1>1. s_program_queue \in Seq(Programs) /\ Len(s_program_queue) <= PROGRAM_QUEUE_LENGTH
  BY DEF TypeOK
<1>2. /\ Head(s_program_queue) \in Programs
      /\ s_program_queue' \in Seq(Programs)
      /\ Len(s_program_queue') = Len(s_program_queue) - 1
      /\ \A i \in 1 .. Len(s_program_queue') :
           s_program_queue'[i] = s_program_queue[i + 1]
  BY <1>1, HeadTailProperties
<1>3. Len(s_program_queue') <= PROGRAM_QUEUE_LENGTH
  BY <1>1, <1>2, LoaderAssumption
<1>4. Head(s_program_queue) = s_program_queue[1]
  BY <1>1
<1>5. CASE s_program_queue' = <<>>
  <2>1. Len(s_program_queue') = 0
    BY <1>5, EmptySeq, Zenon
  <2>2. Len(s_program_queue) = 1
    BY ONLY <1>1, <1>2, <2>1
  <2> QED
    BY <1>2, <1>3, <1>4, <1>5, <2>2
<1>6. CASE s_program_queue' # <<>>
  <2>1. Len(s_program_queue') \in 1 .. Len(s_program_queue')
    BY <1>1, <1>2, <1>6
  <2>2. s_program_queue'[Len(s_program_queue')] = s_program_queue[Len(s_program_queue)]
    BY <1>1, <1>2, <2>1
  <2> QED
    BY <1>2, <1>3, <1>6, <2>2
<1> QED
  BY <1>5, <1>6

LEMMA ProgramAdded ==
  ASSUME TypeOK, Len(s_program_queue) < PROGRAM_QUEUE_LENGTH,
         NEW program \in Programs,
         s_program_queue' = Append(s_program_queue, program)
  PROVE  /\ s_program_queue' \in Seq(Programs)
         /\ Len(s_program_queue') <= PROGRAM_QUEUE_LENGTH
         /\ s_program_queue' # <<>>
         /\ s_program_queue'[Len(s_program_queue')] = program
<1>1. s_program_queue \in Seq(Programs)
  BY DEF TypeOK
<1> QED
  BY <1>1, LoaderAssumption

LEMMA PresetOf ==
  \A p \in Values : Of(p) \in Preset
BY DEF Of, Preset

LEMMA FlushTyped ==
  ASSUME TypeOK, NEW preset \in Preset, NEW pending \in SUBSET Parts,
         NEW now_due \in BOOLEAN, Flush(preset, pending, now_due)
  PROVE  /\ {g_preset', sounds'} \subseteq Preset
         /\ s_pending' \subseteq Parts /\ due' \in BOOLEAN
BY DEF Flush, TypeOK, Preset

-----------------------------------------------------------------------------
(***************************************************************************)
(* Type correctness of the active preset, the two queues and the tasks     *)
(* that ask for it (voice_alloc.cpp:95-140, 512-640).                      *)
(***************************************************************************)
THEOREM TypeCorrect == Spec => []TypeOK
<1>1. Init => TypeOK
  <2> SUFFICES ASSUME Init PROVE TypeOK
    OBVIOUS
  <2>1. Of(Startup) \in Preset
    BY PresetOf DEF Values
  <2>2. /\ s_queue \in Seq(Event) /\ Len(s_queue) <= QUEUE_LENGTH
        /\ s_program_queue \in Seq(Programs)
        /\ Len(s_program_queue) <= PROGRAM_QUEUE_LENGTH
        /\ events \in 0 .. MaxEvents
    BY LoaderAssumption DEF Init
  <2>3. /\ pc \in [Tasks -> {"idle", "draining", "reading", "asking", "waiting", "done"}]
        /\ frame \in [Tasks -> Preset]
    BY <2>1 DEF Init
  <2> QED
    BY <2>1, <2>2, <2>3 DEF Init, TypeOK, Event
<1>2. TypeOK /\ [Next]_vars => TypeOK'
  <2> SUFFICES ASSUME TypeOK, [Next]_vars PROVE TypeOK'
    OBVIOUS
  <2>1. ASSUME NEW event \in Event, event_bus_publish(event) PROVE TypeOK'
    <3>1. s_queue' \in Seq(Event) /\ Len(s_queue') <= QUEUE_LENGTH
      BY <2>1, Published
    <3>2. events' \in 0 .. MaxEvents
      BY <2>1, LoaderAssumption DEF event_bus_publish, TypeOK
    <3> QED
      BY <2>1, <3>1, <3>2 DEF event_bus_publish, TypeOK, Event, sound, requesters
  <2>2. CASE FlushDue
    BY <2>2 DEF FlushDue, TypeOK, requesters
  <2>3. CASE Quiet
    <3>1. {g_preset', sounds'} \subseteq Preset /\ s_pending' \subseteq Parts
          /\ due' \in BOOLEAN
      BY <2>3, FlushTyped DEF Quiet, TypeOK
    <3> QED
      BY <2>3, <3>1 DEF Quiet, TypeOK, requesters
  <2>4. ASSUME NEW part \in Parts, HandleEdit(part) PROVE TypeOK'
    <3>1. s_queue' \in Seq(Event) /\ Len(s_queue') <= QUEUE_LENGTH
      BY <2>4, EventTaken DEF HandleEdit
    <3>2. [g_preset EXCEPT ![part] = Edited] \in Preset
      BY DEF TypeOK, Preset, Values
    <3>3. {g_preset', sounds'} \subseteq Preset /\ s_pending' \subseteq Parts
          /\ due' \in BOOLEAN
      BY <2>4, <3>2, FlushTyped DEF HandleEdit, TypeOK
    <3> QED
      BY <2>4, <3>1, <3>3 DEF HandleEdit, TypeOK, Event, requesters
  <2>5. ASSUME NEW program \in Programs, HandleProgram(program) PROVE TypeOK'
    <3>1. s_queue' \in Seq(Event) /\ Len(s_queue') <= QUEUE_LENGTH
      BY <2>5, EventTaken DEF HandleProgram
    <3>2. /\ s_program_queue' \in Seq(Programs)
          /\ Len(s_program_queue') <= PROGRAM_QUEUE_LENGTH
      BY <2>5, ProgramAdded DEF HandleProgram, TypeOK
    <3>3. {g_preset', sounds'} \subseteq Preset /\ s_pending' \subseteq Parts
          /\ due' \in BOOLEAN
      BY <2>5, FlushTyped DEF HandleProgram, TypeOK
    <3> QED
      BY <2>5, <3>1, <3>2, <3>3 DEF HandleProgram, TypeOK, Event, requesters
  <2>6. ASSUME NEW task \in Tasks, NEW set \in BOOLEAN, HandleRequest(task, set)
        PROVE  TypeOK'
    <3>1. s_queue' \in Seq(Event) /\ Len(s_queue') <= QUEUE_LENGTH
      BY <2>6, EventTaken DEF HandleRequest
    <3>2. frame[task] \in Preset /\ g_preset \in Preset
      BY DEF TypeOK
    <3>3. /\ {g_preset', sounds'} \subseteq Preset /\ s_pending' \subseteq Parts
          /\ due' \in BOOLEAN
      BY <2>6, <3>2, FlushTyped DEF HandleRequest, ApplyPreset, TypeOK
    <3>4. frame' \in [Tasks -> Preset]
      BY <2>6, <3>2 DEF HandleRequest, TypeOK
    <3>5. pc' \in [Tasks -> {"idle", "draining", "reading", "asking", "waiting", "done"}]
      BY <2>6 DEF HandleRequest, TypeOK
    <3>6. lost' \in BOOLEAN
      BY <2>6 DEF HandleRequest, TypeOK
    <3> QED
      BY <2>6, <3>1, <3>3, <3>4, <3>5, <3>6 DEF HandleRequest, TypeOK, Event
  <2>7. ASSUME NEW task \in Tasks, NEW set \in BOOLEAN, Queued(task, set)
        PROVE  TypeOK'
    <3>1. s_queue' \in Seq(Event) /\ Len(s_queue') <= QUEUE_LENGTH
      BY <2>7, EventAdded, EventsAre DEF Queued
    <3> QED
      BY <2>7, <3>1 DEF Queued, TypeOK, Event, sound
  <2>8. ASSUME NEW task \in Tasks, GivesUp(task) PROVE TypeOK'
    BY <2>8 DEF GivesUp, TypeOK, sound
  <2>9. ASSUME NEW task \in Tasks, Answered(task) PROVE TypeOK'
    BY <2>9 DEF Answered, TypeOK, sound
  <2>10. ASSUME NEW p \in Loads, ConsoleAsks(Of(p)) PROVE TypeOK'
    <3>1. Of(p) \in Preset
      BY PresetOf, LoaderAssumption DEF Values
    <3> QED
      BY <2>10, <3>1 DEF ConsoleAsks, TypeOK, sound
  <2>11. CASE LoaderReceives \/ LoaderDrains
    <3>1. s_program_queue # <<>> /\ s_program_queue' = Tail(s_program_queue)
      BY <2>11 DEF LoaderReceives, LoaderDrains
    <3> QED
      BY <2>11, <3>1, ProgramTaken DEF LoaderReceives, LoaderDrains, TypeOK, sound
  <2>12. CASE LoaderDrained
    BY <2>12 DEF LoaderDrained, TypeOK, sound
  <2>13. CASE LoaderReads
    <3>1. Of(request) \in Preset
      BY PresetOf DEF TypeOK, Values
    <3> QED
      BY <2>13, <3>1 DEF LoaderReads, TypeOK, sound
  <2>14. CASE UNCHANGED vars
    BY <2>14 DEF vars, sound, requesters, TypeOK
  <2> QED
    BY <2>1, <2>2, <2>3, <2>4, <2>5, <2>6, <2>7, <2>8, <2>9, <2>10, <2>11,
       <2>12, <2>13, <2>14, EventsAre
    DEF Next, VoiceTask, LoaderTask, ConsoleTask, Tasks
<1> QED
  BY <1>1, <1>2, PTL DEF Spec

-----------------------------------------------------------------------------
(* A turn of the voice task that marks dirty what it changes keeps the     *)
(* sound and the preset together, whether it flushes or not.               *)
LEMMA FlushKeepsSound ==
  ASSUME TypeOK, SoundFollowsPreset, NEW preset \in Preset,
         NEW pending \in SUBSET Parts, NEW now_due \in BOOLEAN,
         s_pending \subseteq pending,
         \A part \in Parts \ pending : preset[part] = g_preset[part],
         Flush(preset, pending, now_due)
  PROVE  SoundFollowsPreset'
BY DEF Flush, SoundFollowsPreset, TypeOK, Preset

(***************************************************************************)
(* Only the parts still marked dirty may sound otherwise than the active   *)
(* preset says: no edit, preset or flush loses another's mark              *)
(* (voice_alloc.cpp: s_pending in cc_apply, apply_preset and the flush).   *)
(***************************************************************************)
THEOREM SoundIsKept == Spec => []SoundFollowsPreset
<1>1. Init => SoundFollowsPreset
  BY DEF Init, SoundFollowsPreset
<1>2. TypeOK /\ SoundFollowsPreset /\ [Next]_vars => SoundFollowsPreset'
  <2> SUFFICES ASSUME TypeOK, SoundFollowsPreset, [Next]_vars
               PROVE  SoundFollowsPreset'
    OBVIOUS
  <2>1. CASE UNCHANGED sound
    BY <2>1 DEF SoundFollowsPreset, sound
  <2>2. CASE FlushDue
    BY <2>2 DEF FlushDue, SoundFollowsPreset
  <2>3. CASE Quiet
    BY <2>3, FlushKeepsSound DEF Quiet, TypeOK
  <2>4. ASSUME NEW part \in Parts, HandleEdit(part) PROVE SoundFollowsPreset'
    <3>1. /\ [g_preset EXCEPT ![part] = Edited] \in Preset
          /\ \A other \in Parts \ (s_pending \union {part}) :
               [g_preset EXCEPT ![part] = Edited][other] = g_preset[other]
          /\ s_pending \union {part} \in SUBSET Parts
      BY DEF TypeOK, Preset, Values
    <3> QED
      BY <2>4, <3>1, FlushKeepsSound DEF HandleEdit, TypeOK
  <2>5. ASSUME NEW program \in Programs, HandleProgram(program)
        PROVE  SoundFollowsPreset'
    BY <2>5, FlushKeepsSound DEF HandleProgram, TypeOK
  <2>6. ASSUME NEW task \in Tasks, NEW set \in BOOLEAN, HandleRequest(task, set)
        PROVE  SoundFollowsPreset'
    <3>1. CASE set
      BY <2>6, <3>1, FlushKeepsSound DEF HandleRequest, ApplyPreset, TypeOK
    <3>2. CASE ~set
      BY <2>6, <3>2, FlushKeepsSound DEF HandleRequest, TypeOK
    <3> QED
      BY <3>1, <3>2
  <2> QED
    BY <2>1, <2>2, <2>3, <2>4, <2>5, <2>6
    DEF Next, VoiceTask, LoaderTask, ConsoleTask, vars, sound, requesters,
        event_bus_publish, Queued, GivesUp, Answered, ConsoleAsks,
        LoaderReceives, LoaderDrains, LoaderDrained, LoaderReads
<1> QED
  BY <1>1, <1>2, TypeCorrect, PTL DEF Spec

-----------------------------------------------------------------------------
(* A step that keeps the queue and every waiting task keeps the requests.  *)
LEMMA WaitersKept ==
  ASSUME TypeOK, RequestsHaveWaiters, UNCHANGED s_queue,
         \A task \in Tasks : pc[task] = "waiting" => pc'[task] = "waiting"
  PROVE  RequestsHaveWaiters'
<1>1. \A i \in DOMAIN s_queue : s_queue[i].kind = "preset" => s_queue[i].task \in Tasks
  BY QueueTyped, EventsAre DEF Event
<1> QED
  BY <1>1 DEF RequestsHaveWaiters

(* An event taken that is no request leaves the requests as they were.     *)
LEMMA WaitersKeptByEvent ==
  ASSUME TypeOK, RequestsHaveWaiters, s_queue # <<>>,
         s_queue' = Tail(s_queue), UNCHANGED pc
  PROVE  RequestsHaveWaiters'
<1>1. \A i \in DOMAIN s_queue' : i + 1 \in DOMAIN s_queue
                                 /\ s_queue'[i] = s_queue[i + 1]
  BY EventTaken
<1>2. DOMAIN s_queue' \subseteq Int
  BY EventTaken
<1>3. ASSUME NEW i \in DOMAIN s_queue', s_queue'[i].kind = "preset",
             NEW j \in DOMAIN s_queue', s_queue'[j].kind = "preset",
             s_queue'[j].task = s_queue'[i].task
      PROVE  j = i
  <2>1. j + 1 = i + 1
    BY <1>1, <1>3 DEF RequestsHaveWaiters
  <2> QED
    BY <1>2, <2>1
<1> QED
  BY <1>1, <1>3 DEF RequestsHaveWaiters

(***************************************************************************)
(* The request at the head answered, its task has no other in the queue;   *)
(* and a task that puts one in had none: while a request is queued its     *)
(* task waits, and it has made no other (preset_request, its timeout and   *)
(* its semaphore, voice_alloc.cpp).                                        *)
(***************************************************************************)
THEOREM RequestsAreWaitedFor == Spec => []RequestsHaveWaiters
<1>1. Init => RequestsHaveWaiters
  BY DEF Init, RequestsHaveWaiters
<1>2. TypeOK /\ RequestsHaveWaiters /\ [Next]_vars => RequestsHaveWaiters'
  <2> SUFFICES ASSUME TypeOK, RequestsHaveWaiters, [Next]_vars
               PROVE  RequestsHaveWaiters'
    OBVIOUS
  <2>1. ASSUME NEW event \in Event, event.kind # "preset", event_bus_publish(event)
        PROVE  RequestsHaveWaiters'
    <3>1. \A i \in DOMAIN s_queue' : s_queue'[i].kind = "preset" =>
            i \in DOMAIN s_queue /\ s_queue'[i] = s_queue[i]
      BY <2>1, Published
    <3>2. UNCHANGED pc
      BY <2>1 DEF event_bus_publish, requesters
    <3> QED
      BY <3>1, <3>2 DEF RequestsHaveWaiters
  <2>2. CASE UNCHANGED s_queue /\ UNCHANGED pc
    BY <2>2, WaitersKept
  <2>3. CASE s_queue # <<>> /\ s_queue' = Tail(s_queue) /\ UNCHANGED pc
    BY <2>3, WaitersKeptByEvent
  <2>4. ASSUME NEW task \in Tasks, NEW set \in BOOLEAN, HandleRequest(task, set)
        PROVE  RequestsHaveWaiters'
    <3>1. /\ 1 \in DOMAIN s_queue
          /\ s_queue[1].kind = "preset" /\ s_queue[1].task = task
      BY <2>4, EventTaken, EventsAre DEF HandleRequest
    <3>2. \A i \in DOMAIN s_queue' :
            /\ i + 1 \in DOMAIN s_queue /\ i + 1 # 1
            /\ s_queue'[i] = s_queue[i + 1]
      BY <2>4, EventTaken DEF HandleRequest
    <3>3. \A i \in DOMAIN s_queue' : s_queue'[i].kind = "preset" =>
            s_queue'[i].task # task
      BY <3>1, <3>2 DEF RequestsHaveWaiters
    <3>4. \A other \in Tasks \ {task} : pc'[other] = pc[other]
      BY <2>4 DEF HandleRequest, TypeOK
    <3>5. \A i \in DOMAIN s_queue' : s_queue'[i].kind = "preset" =>
            s_queue'[i].task \in Tasks
      BY <2>4, EventTaken DEF HandleRequest, Event
    <3>6. \A i \in DOMAIN s_queue' : s_queue'[i].kind = "preset" =>
            pc'[s_queue'[i].task] = "waiting"
      BY <3>2, <3>3, <3>4, <3>5 DEF RequestsHaveWaiters
    <3>7. DOMAIN s_queue' \subseteq Int
      BY <2>4, EventTaken DEF HandleRequest
    <3>8. ASSUME NEW i \in DOMAIN s_queue', s_queue'[i].kind = "preset",
                 NEW j \in DOMAIN s_queue', s_queue'[j].kind = "preset",
                 s_queue'[j].task = s_queue'[i].task
          PROVE  j = i
      <4>1. j + 1 = i + 1
        BY <3>2, <3>8 DEF RequestsHaveWaiters
      <4> QED
        BY <3>7, <4>1
    <3> QED
      BY <3>6, <3>8 DEF RequestsHaveWaiters
  <2>5. ASSUME NEW task \in Tasks, NEW set \in BOOLEAN, Queued(task, set)
        PROVE  RequestsHaveWaiters'
    <3>1. \A i \in DOMAIN s_queue' :
            \/ i \in DOMAIN s_queue /\ s_queue'[i] = s_queue[i]
            \/ i = Len(s_queue) + 1 /\ s_queue'[i] = Request(set, task)
      BY <2>5, EventAdded, EventsAre DEF Queued
    <3>2. \A i \in DOMAIN s_queue : s_queue[i].kind = "preset" =>
            s_queue[i].task \in Tasks \ {task}
      BY <2>5, QueueTyped DEF Queued, RequestsHaveWaiters, Event
    <3>3. pc'[task] = "waiting" /\ \A other \in Tasks \ {task} : pc'[other] = pc[other]
      BY <2>5 DEF Queued, TypeOK
    <3>4. Request(set, task).task = task
      BY EventsAre
    <3>5. ASSUME NEW i \in DOMAIN s_queue', s_queue'[i].kind = "preset"
          PROVE  pc'[s_queue'[i].task] = "waiting"
      BY <3>1, <3>2, <3>3, <3>4, <3>5 DEF RequestsHaveWaiters
    <3>6. ASSUME NEW i \in DOMAIN s_queue', s_queue'[i].kind = "preset",
                 NEW j \in DOMAIN s_queue', s_queue'[j].kind = "preset",
                 s_queue'[j].task = s_queue'[i].task
          PROVE  j = i
      BY <3>1, <3>2, <3>4, <3>6 DEF RequestsHaveWaiters
    <3> QED
      BY <3>5, <3>6 DEF RequestsHaveWaiters
  <2>6. ASSUME NEW task \in Tasks, UNCHANGED s_queue, pc[task] # "waiting",
               NEW to, pc' = [pc EXCEPT ![task] = to]
        PROVE  RequestsHaveWaiters'
    <3>1. \A other \in Tasks : pc[other] = "waiting" => pc'[other] = "waiting"
      BY <2>6 DEF TypeOK
    <3> QED
      BY <2>6, <3>1, WaitersKept
  <2>7. ASSUME NEW task \in Tasks, GivesUp(task) \/ Answered(task)
        PROVE  RequestsHaveWaiters'
    BY <2>6, <2>7 DEF GivesUp, Answered
  <2>8. ASSUME NEW p \in Loads, ConsoleAsks(Of(p)) PROVE RequestsHaveWaiters'
    BY <2>6, <2>8 DEF ConsoleAsks, Tasks
  <2>9. CASE LoaderReceives \/ LoaderDrained \/ LoaderReads
    BY <2>6, <2>9 DEF LoaderReceives, LoaderDrained, LoaderReads, Tasks
  <2>10. CASE VoiceTask
    BY <2>2, <2>3, <2>4, <2>10
    DEF VoiceTask, Quiet, HandleEdit, HandleProgram, requesters
  <2>11. CASE LoaderTask
    BY <2>2, <2>5, <2>7, <2>9, <2>11 DEF LoaderTask, LoaderDrains, Tasks
  <2>12. CASE ConsoleTask
    BY <2>5, <2>7, <2>12 DEF ConsoleTask, Tasks
  <2>13. CASE FlushDue \/ UNCHANGED vars
    BY <2>2, <2>13 DEF FlushDue, vars, requesters
  <2> QED
    BY <2>1, <2>8, <2>10, <2>11, <2>12, <2>13, EventsAre DEF Next
<1> QED
  BY <1>1, <1>2, TypeCorrect, PTL DEF Spec

-----------------------------------------------------------------------------
(***************************************************************************)
(* Every request of the loader in the voice task's queue is to apply its   *)
(* frame, never to read the active preset into it (the two callers of      *)
(* preset_request, voice_alloc.cpp).                                       *)
(***************************************************************************)
THEOREM LoaderOnlySets == Spec => []LoaderSets
<1>1. Init => LoaderSets
  BY DEF Init, LoaderSets
<1>2. TypeOK /\ LoaderSets /\ [Next]_vars => LoaderSets'
  <2> SUFFICES ASSUME TypeOK, LoaderSets, [Next]_vars PROVE LoaderSets'
    OBVIOUS
  <2>1. ASSUME NEW event \in Event, event.kind # "preset", event_bus_publish(event)
        PROVE  LoaderSets'
    BY <2>1, Published DEF LoaderSets
  <2>2. CASE UNCHANGED s_queue
    BY <2>2 DEF LoaderSets
  <2>3. CASE s_queue # <<>> /\ s_queue' = Tail(s_queue)
    BY <2>3, EventTaken DEF LoaderSets
  <2>4. ASSUME NEW task \in Tasks, NEW set \in BOOLEAN, Queued(task, set),
               task = "loader" => set
        PROVE  LoaderSets'
    <3>1. \A i \in DOMAIN s_queue' :
            \/ i \in DOMAIN s_queue /\ s_queue'[i] = s_queue[i]
            \/ s_queue'[i] = Request(set, task)
      BY <2>4, EventAdded, EventsAre DEF Queued
    <3>2. Request(set, task).task = task /\ Request(set, task).set = set
      BY EventsAre
    <3> QED
      BY <2>4, <3>1, <3>2 DEF LoaderSets
  <2> QED
    BY <2>1, <2>2, <2>3, <2>4, EventsAre
    DEF Next, VoiceTask, LoaderTask, ConsoleTask, vars, Tasks, FlushDue, Quiet,
        HandleEdit, HandleProgram, HandleRequest, GivesUp, Answered,
        ConsoleAsks, LoaderReceives, LoaderDrains, LoaderDrained, LoaderReads
<1> QED
  BY <1>1, <1>2, TypeCorrect, PTL DEF Spec

(* A step that touches nothing the program's way depends on.               *)
LEMMA WayKept ==
  /\ NotLost
  /\ UNCHANGED <<lost, asked, s_program_queue, request>>
  /\ \/ pc'["loader"] = pc["loader"]
     \/ pc["loader"] = "done" /\ pc'["loader"] = "idle"
  /\ frame'["loader"] = frame["loader"]
  /\ \A part \in Parts : g_preset'[part] \in {g_preset[part], Edited}
  => NotLost'
BY DEF NotLost, OnItsWay, OfLastProgram, Of

(***************************************************************************)
(* With the queues empty and the loader idle the preset is that of the     *)
(* last Program Change handled, and edits since, unless the change was     *)
(* dropped, given up or loaded over: however the changes, the edits, the   *)
(* loader's reads and the console's requests fall (program_change, the     *)
(* loader's drain and preset_request, voice_alloc.cpp).                    *)
(***************************************************************************)
THEOREM LastProgramComesOut == Spec => []LastProgramWins
<1>1. Init => NotLost
  BY DEF Init, NotLost, OnItsWay, OfLastProgram, Of, Tasks
<1>2. TypeOK /\ RequestsHaveWaiters /\ LoaderSets /\ NotLost /\ [Next]_vars => NotLost'
  <2> SUFFICES ASSUME TypeOK, RequestsHaveWaiters, LoaderSets, NotLost, [Next]_vars
               PROVE  NotLost'
    OBVIOUS
  <2>1. CASE UNCHANGED <<g_preset, s_program_queue, requesters, asked, lost>>
    BY <2>1, WayKept DEF requesters
  <2>2. ASSUME NEW part \in Parts, HandleEdit(part) PROVE NotLost'
    <3>1. \A other \in Parts : g_preset'[other] \in {g_preset[other], Edited}
      BY <2>2 DEF HandleEdit, Flush, TypeOK, Preset
    <3> QED
      BY <2>2, <3>1, WayKept DEF HandleEdit, requesters
  <2>3. ASSUME NEW program \in Programs, HandleProgram(program) PROVE NotLost'
    <3>1. CASE Len(s_program_queue) < PROGRAM_QUEUE_LENGTH
      BY <2>3, <3>1, ProgramAdded DEF HandleProgram, NotLost, OnItsWay
    <3>2. CASE ~(Len(s_program_queue) < PROGRAM_QUEUE_LENGTH)
      <4>1. Len(s_program_queue) = PROGRAM_QUEUE_LENGTH
        BY <3>2, LoaderAssumption, LenProperties DEF TypeOK
      <4> QED
        BY <2>3, <4>1 DEF HandleProgram, NotLost
    <3> QED
      BY <3>1, <3>2
  <2>4. ASSUME NEW set \in BOOLEAN, HandleRequest("loader", set) PROVE NotLost'
    <3>1. 1 \in DOMAIN s_queue /\ s_queue[1] = Request(set, "loader")
      BY <2>4, EventTaken DEF HandleRequest
    <3>2. set /\ pc["loader"] = "waiting"
      BY <3>1, EventsAre DEF Tasks, LoaderSets, RequestsHaveWaiters
    <3>3. /\ g_preset' = frame["loader"] /\ pc'["loader"] = "done"
          /\ UNCHANGED <<s_program_queue, asked>> /\ lost' = lost
      BY <2>4, <3>2 DEF HandleRequest, ApplyPreset, Flush, TypeOK, Tasks
    <3> QED
      BY <3>2, <3>3 DEF NotLost, OnItsWay, OfLastProgram, Of
  <2>5. ASSUME NEW set \in BOOLEAN, HandleRequest("console", set) PROVE NotLost'
    <3>1. CASE set
      BY <2>5, <3>1 DEF HandleRequest, NotLost
    <3>2. CASE ~set
      <4>1. /\ g_preset' = g_preset /\ lost' = lost /\ pc'["loader"] = pc["loader"]
            /\ frame'["loader"] = frame["loader"]
        BY <2>5, <3>2 DEF HandleRequest, Flush, TypeOK, Tasks
      <4> QED
        BY <2>5, <4>1, WayKept DEF HandleRequest
    <3> QED
      BY <3>1, <3>2
  <2>6. ASSUME NEW task \in Tasks, NEW set \in BOOLEAN, Queued(task, set)
        PROVE  NotLost'
    BY <2>6 DEF Queued, NotLost, OnItsWay, OfLastProgram, TypeOK, Tasks, sound
  <2>7. ASSUME NEW task \in Tasks, GivesUp(task) PROVE NotLost'
    BY <2>7 DEF GivesUp, NotLost, OnItsWay, OfLastProgram, TypeOK, Tasks, sound
  <2>8. ASSUME NEW task \in Tasks, Answered(task) PROVE NotLost'
    BY <2>8 DEF Answered, NotLost, OnItsWay, OfLastProgram, TypeOK, Tasks, sound
  <2>9. ASSUME NEW p \in Loads, ConsoleAsks(Of(p)) PROVE NotLost'
    <3>1. pc'["loader"] = pc["loader"] /\ frame'["loader"] = frame["loader"]
      BY <2>9 DEF ConsoleAsks, TypeOK, Tasks
    <3> QED
      BY <2>9, <3>1, WayKept DEF ConsoleAsks, sound
  <2>10. CASE LoaderReceives \/ LoaderDrains
    <3>1. s_program_queue # <<>> /\ s_program_queue' = Tail(s_program_queue)
          /\ request' = Head(s_program_queue) /\ pc'["loader"] = "draining"
          /\ UNCHANGED <<asked, lost>>
      BY <2>10 DEF LoaderReceives, LoaderDrains, TypeOK, Tasks
    <3> QED
      BY <3>1, ProgramTaken DEF NotLost, OnItsWay
  <2>11. CASE LoaderDrained
    BY <2>11 DEF LoaderDrained, NotLost, OnItsWay, TypeOK, Tasks
  <2>12. CASE LoaderReads
    BY <2>12 DEF LoaderReads, NotLost, OnItsWay, TypeOK, Tasks
  <2> QED
    BY <2>1, <2>2, <2>3, <2>4, <2>5, <2>6, <2>7, <2>8, <2>9, <2>10, <2>11, <2>12
    DEF Next, VoiceTask, LoaderTask, ConsoleTask, Tasks, vars, sound, requesters,
        event_bus_publish, FlushDue, Quiet, Flush
<1>3. NotLost => LastProgramWins
  BY DEF NotLost, OnItsWay, LastProgramWins, LoaderAtRest
<1> QED
  BY <1>1, <1>2, <1>3, TypeCorrect, RequestsAreWaitedFor, LoaderOnlySets, PTL DEF Spec

-----------------------------------------------------------------------------
(***************************************************************************)
(* The console, whose task is one of the loader's requesters, about sizes, *)
(* keys and texts of its own: what its terminal shows, where its cursor    *)
(* stands and what becomes of the lines printed to it.                     *)
(*                                                                         *)
(* ScreenMatchesView is inductive with the types of the state it reads     *)
(* (ViewInv).  CursorNeverInsideCharacter takes more (EditInv): neither    *)
(* the line nor one remembered begins with a continuation byte, and the    *)
(* rest of a character comes right behind its beginning, or the line is    *)
(* full and takes neither.  LinesAsPrinted takes the scrollback and the    *)
(* line being printed as one sequence of lines (PrintInv).                 *)
(***************************************************************************)
-----------------------------------------------------------------------------
(* The least and the greatest of a set of positions are of the set.        *)
LEMMA LeastOf ==
  ASSUME NEW T \in SUBSET Nat, T # {}
  PROVE  Min(T) \in T /\ \A x \in T : Min(T) <= x
<1> DEFINE Less == {p \in Nat \X Nat : p[1] < p[2]}
<1>1. IsWellFoundedOn(Less, Nat)
  BY NatLessThanWellFounded, Zenon DEF OpToRel
<1>2. PICK d \in T : \A e \in T : ~ (<<e, d>> \in Less)
  <2> HIDE DEF Less
  <2> QED
    BY <1>1, WFMin
<1>3. \A e \in T : d <= e
  <2> SUFFICES ASSUME NEW e \in T, ~ (d <= e) PROVE FALSE
    OBVIOUS
  <2>1. e \in Nat /\ d \in Nat /\ e < d
    OBVIOUS
  <2>2. <<e, d>> \in Less
    BY <2>1
  <2> QED
    BY <1>2, <2>2
<1> QED
  BY <1>3 DEF Min

LEMMA GreatestOf ==
  ASSUME NEW n \in Nat, NEW T \in SUBSET (0 .. n), T # {}
  PROVE  Max(T) \in T /\ \A x \in T : Max(T) >= x
<1> DEFINE D == {n - x : x \in T}
<1>1. D \in SUBSET Nat /\ D # {}
  <2>1. \A x \in T : x \in 0 .. n /\ n - x \in Nat
    OBVIOUS
  <2> QED
    BY <2>1
<1>2. Min(D) \in D /\ \A d \in D : Min(D) <= d
  <2> HIDE DEF D
  <2> QED
    BY <1>1, LeastOf
<1>3. PICK m \in T : Min(D) = n - m
  BY <1>2
<1>4. \A x \in T : n - m <= n - x
  BY <1>2, <1>3
<1>5. \A x \in T : m >= x
  BY <1>4
<1> QED
  BY <1>5 DEF Max

-----------------------------------------------------------------------------
(***************************************************************************)
(* The scrollback and the view.                                            *)
(***************************************************************************)
ViewTypes ==
  /\ sb \in Seq(Seq(Nat)) /\ out \in Seq(Nat) /\ printed \in Nat
  /\ dropped \in Nat /\ back \in Nat /\ shown \in Int /\ ahead \in Nat
  /\ rows \in Nat /\ params \in Nat

ViewInv == ViewTypes /\ ScreenMatchesView

(* The scrollback drops oldest lines to make room, and no others.          *)
LEMMA KeepsTheNewest ==
  ASSUME ViewTypes, NEW text
  PROVE  \E n \in 0 .. Len(sb) : Kept(text) = SubSeq(sb, n + 1, Len(sb))
<1> DEFINE Fits(n) == LET rest == SubSeq(sb, n + 1, Len(sb)) IN
                        /\ Len(rest) < SCROLLBACK_LINES
                        /\ sb_bytes(rest) + Len(text) + 1 <= SCROLLBACK_BYTES
           N == {n \in 0 .. Len(sb) : n = Len(sb) \/ Fits(n)}
<1>1. Kept(text) = SubSeq(sb, 1 + Min(N), Len(sb))
  BY DEF Kept
<1>2. N \in SUBSET Nat /\ Len(sb) \in N /\ N \subseteq 0 .. Len(sb)
  <2> HIDE DEF Fits
  <2> QED
    BY DEF ViewTypes
<1> HIDE DEF N
<1>3. Min(N) \in N
  BY <1>2, LeastOf
<1>4. Min(N) \in 0 .. Len(sb) /\ 1 + Min(N) = Min(N) + 1
  <2>1. Min(N) \in 0 .. Len(sb)
    BY <1>2, <1>3
  <2> QED
    BY <2>1 DEF ViewTypes
<1> QED
  BY <1>1, <1>4

(* A line that comes in leaves the screen as the console takes it to be,   *)
(* whether there is memory for it or not.                                  *)
LEMMA LineComesIn ==
  ASSUME ViewInv, NEW text \in Seq(Nat), emit_line(text)
  PROVE  /\ sb' \in Seq(Seq(Nat)) /\ dropped' \in Nat /\ back' \in Nat
         /\ shown' \in Int /\ ahead' \in Nat
         /\ ScreenMatchesView'
<1>1. PICK n \in 0 .. Len(sb) : Kept(text) = SubSeq(sb, n + 1, Len(sb))
  BY KeepsTheNewest DEF ViewInv
<1>2. /\ Kept(text) \in Seq(Seq(Nat))
      /\ Len(Kept(text)) = Len(sb) - n
  BY <1>1 DEF ViewInv, ViewTypes
<1>3. /\ dropped' = dropped + Len(sb) - Len(Kept(text))
      /\ shown' = IF back = 0 THEN shown + 1 ELSE shown
      /\ \/ /\ sb' = Append(Kept(text), text) /\ back' = sb_back(Len(sb'))
            /\ UNCHANGED ahead
         \/ /\ sb' = Kept(text) /\ ahead' = IF back = 0 THEN ahead + 1 ELSE ahead
            /\ UNCHANGED back
  BY DEF emit_line, sb_add
<1>4. /\ dropped' = dropped + n /\ n \in Nat /\ n <= Len(sb)
      /\ dropped \in Nat /\ Len(sb) \in Nat /\ back \in Nat /\ shown \in Int
      /\ ahead \in Nat
  BY <1>2, <1>3 DEF ViewInv, ViewTypes
<1>5. /\ \/ shown = dropped + Len(sb) - back + ahead
         \/ back # 0 /\ back >= Len(sb)
      /\ ahead # 0 => back = 0
  BY <1>4 DEF ViewInv, ScreenMatchesView, Total
<1>6. CASE sb' = Kept(text)
  <2>0. \A kept \in Seq(Seq(Nat)) : Len(Append(kept, text)) = Len(kept) + 1 /\ Len(kept) \in Nat
    OBVIOUS
  <2>1. sb' \in Seq(Seq(Nat)) /\ Len(sb') = Len(sb) - n
    BY <1>2, <1>6
  <2>2. /\ ahead' = IF back = 0 THEN ahead + 1 ELSE ahead
        /\ back' = back
        /\ shown' = IF back = 0 THEN shown + 1 ELSE shown
    <3>1. sb' # Append(Kept(text), text)
      <4>1. Len(Append(Kept(text), text)) = Len(Kept(text)) + 1 /\ Len(Kept(text)) \in Nat
        BY <1>2, <2>0, Zenon
      <4>2. Len(Kept(text)) # Len(Kept(text)) + 1
        BY <4>1
      <4> QED
        BY <1>6, <4>1, <4>2, Zenon
    <3> QED
      BY <1>3, <3>1
  <2>3. CASE back = 0
    BY <1>4, <1>5, <2>1, <2>2, <2>3 DEF ScreenMatchesView, Total
  <2>4. CASE back # 0
    <3>1. back' = back /\ shown' = shown /\ ahead' = 0 /\ ahead = 0 /\ Len(sb') \in Nat
      BY <1>4, <1>5, <2>1, <2>2, <2>4
    <3>2. CASE back >= Len(sb)
      <4>1. back' >= Len(sb') /\ back' # 0
        BY <1>4, <2>1, <2>4, <3>1, <3>2
      <4> QED
        BY <1>4, <2>1, <3>1, <4>1 DEF ScreenMatchesView
    <3>3. CASE shown = dropped + Len(sb) - back + ahead
      <4>1. shown' = dropped' + Len(sb') - back' + ahead'
        BY <1>4, <2>1, <3>1, <3>3
      <4> QED
        BY <1>4, <2>1, <3>1, <4>1 DEF ScreenMatchesView, Total
    <3> QED
      BY <1>5, <3>2, <3>3
  <2> QED
    BY <2>3, <2>4
<1>7. CASE /\ sb' = Append(Kept(text), text) /\ back' = sb_back(Len(sb'))
           /\ UNCHANGED ahead
  <2>0. \A kept \in Seq(Seq(Nat)) : /\ Append(kept, text) \in Seq(Seq(Nat))
                                    /\ Len(Append(kept, text)) = Len(kept) + 1
    OBVIOUS
  <2>1. sb' \in Seq(Seq(Nat)) /\ Len(sb') = Len(sb) - n + 1
    <3>1. sb' = Append(Kept(text), text)
      BY <1>7
    <3> QED
      BY <1>2, <2>0, <3>1
  <2>2. CASE back = 0
    <3>1. back' = 0 /\ shown' = shown + 1
      BY <1>3, <1>7, <2>2 DEF sb_back
    <3> QED
      BY <1>4, <1>5, <1>7, <2>1, <2>2, <3>1 DEF ScreenMatchesView, Total
  <2>3. CASE back # 0
    <3>1. back' = Min({back + 1, Len(sb')}) /\ shown' = shown /\ ahead' = 0
      BY <1>3, <1>5, <1>7, <2>3 DEF sb_back
    <3>2. back + 1 \in Nat /\ Len(sb') \in Nat /\ Len(sb') # 0
      BY <1>4, <2>1
    <3>3. {back + 1, Len(sb')} \in SUBSET Nat
      BY <3>2
    <3>4. /\ back' \in {back + 1, Len(sb')}
          /\ back' <= back + 1 /\ back' <= Len(sb')
      BY <3>1, <3>3, LeastOf
    <3>5. CASE back' = back + 1 /\ shown = dropped + Len(sb) - back + ahead
      BY <1>4, <1>5, <2>1, <2>3, <3>1, <3>5 DEF ScreenMatchesView, Total
    <3>6. CASE back' = back + 1 /\ back >= Len(sb)
      <4>1. back' # 0 /\ back' >= Len(sb')
        BY <1>4, <2>1, <3>6
      <4> QED
        BY <1>4, <2>1, <3>1, <3>4, <3>2, <4>1 DEF ScreenMatchesView, Total
    <3>7. CASE back' = Len(sb')
      BY <1>4, <2>1, <3>1, <3>2, <3>7 DEF ScreenMatchesView, Total
    <3> QED
      BY <1>5, <3>4, <3>5, <3>6, <3>7
  <2> QED
    BY <2>2, <2>3
<1> QED
  BY <1>3, <1>6, <1>7

(* Drawn anew, the screen is the view.                                     *)
LEMMA DrawnAnew ==
  ASSUME ViewInv, draw_output, UNCHANGED <<sb, dropped>>, back' \in Nat
  PROVE  shown' \in Int /\ ahead' \in Nat /\ ScreenMatchesView'
BY DEF ViewInv, ViewTypes, draw_output, ScreenMatchesView, Total

LEMMA PageStaysBack ==
  ASSUME ViewInv, NEW by \in Int, page(by)
  PROVE  back' \in Nat
<1> DEFINE most == Len(sb) - page_rows
           top == Max({0, most})
           new == Min({back + by, top})
<1>0. page_rows \in Int /\ Len(sb) \in Nat /\ back \in Nat
  BY DEF ViewInv, ViewTypes, page_rows
<1>1. \A a, b \in Int : Max({a, b}) \in {a, b} /\ Max({a, b}) >= a
  BY DEF Max
<1>2. \A a, b \in Int : Min({a, b}) \in {a, b}
  BY DEF Min
<1>3. top \in Int
  <2>1. most \in Int
    BY <1>0
  <2> HIDE DEF most
  <2> QED
    BY <1>1, <2>1
<1> HIDE DEF top
<1>4. new \in Int
  BY <1>0, <1>2, <1>3
<1>5. back' = Max({0, new})
  BY DEF page, top
<1> HIDE DEF new
<1> QED
  BY <1>1, <1>4, <1>5

-----------------------------------------------------------------------------
(***************************************************************************)
(* The line.  It, and each line of the history, begins with a character,   *)
(* and the cursor is between two.  The rest of a character comes behind    *)
(* its first byte, or finds the line as full as that did.                  *)
(***************************************************************************)
Chars == STRING \union {"cont", "space"}     \* the provers need the two named

Line(l) ==
  /\ l \in Seq(Chars) /\ Len(l) < LINE_MAX_BYTES
  /\ l # <<>> => l[1] # "cont"

Between(l, at) == at \in 0 .. Len(l) /\ (at < Len(l) => l[at + 1] # "cont")

EditInv ==
  /\ Line(line) /\ Between(line, pos)
  /\ hist \in Seq(Seq(Chars)) /\ \A k \in 1 .. Len(hist) : Line(hist[k])
  /\ hist_at \in 0 .. Len(hist)
  /\ owed \in BOOLEAN
  /\ owed => state = "NORMAL" /\ (pos > 0 \/ Len(line) + 1 >= LINE_MAX_BYTES)

(* Text in the place of what stood between two characters leaves the rest  *)
(* as it was, and the cursor behind it between two.                        *)
LEMMA Replaced ==
  ASSUME EditInv, NEW to, Between(line, to), NEW from \in 0 .. to,
         NEW text \in Seq(Chars),
         from = 0 /\ text # <<>> => text[1] # "cont",
         from + Len(text) + Len(line) - to < LINE_MAX_BYTES
  PROVE  LET l == Before(from) \o text \o Behind(to)
         IN  Line(l) /\ Between(l, from + Len(text))
<1> DEFINE a == Before(from)
           z == Behind(to)
           l == a \o text \o z
<1>0. line \in Seq(Chars) /\ Len(line) \in Nat /\ to \in 0 .. Len(line) /\ Len(text) \in Nat
  BY DEF EditInv, Line, Between
<1>1. /\ a \in Seq(Chars) /\ Len(a) = from
      /\ \A i \in 1 .. from : a[i] = line[i]
  BY <1>0 DEF Before
<1>2. /\ z \in Seq(Chars) /\ Len(z) = Len(line) - to
      /\ \A i \in 1 .. Len(line) - to : z[i] = line[to + i]
  BY <1>0 DEF Behind
<1> HIDE DEF a, z
<1>3. /\ l \in Seq(Chars) /\ Len(l) = from + Len(text) + Len(line) - to
      /\ \A i \in 1 .. Len(l) :
           l[i] = IF i <= from THEN a[i]
                  ELSE IF i <= from + Len(text) THEN text[i - from]
                  ELSE z[i - from - Len(text)]
  <2>1. /\ a \o text \in Seq(Chars) /\ Len(a \o text) = from + Len(text)
        /\ \A i \in 1 .. from + Len(text) :
             (a \o text)[i] = IF i <= from THEN a[i] ELSE text[i - from]
    BY <1>0, <1>1, ConcatProperties, ZenonT(40)
  <2>2. /\ l \in Seq(Chars) /\ Len(l) = (from + Len(text)) + (Len(line) - to)
        /\ \A i \in 1 .. (from + Len(text)) + (Len(line) - to) :
             l[i] = IF i <= from + Len(text) THEN (a \o text)[i]
                    ELSE z[i - (from + Len(text))]
    <3> DEFINE at == a \o text
    <3>1. at \in Seq(Chars) /\ Len(at) = from + Len(text) /\ l = at \o z
      BY <2>1
    <3> HIDE DEF at, l
    <3>2. /\ at \o z \in Seq(Chars) /\ Len(at \o z) = Len(at) + Len(z)
          /\ \A i \in 1 .. Len(at) + Len(z) :
               (at \o z)[i] = IF i <= Len(at) THEN at[i] ELSE z[i - Len(at)]
      <4>1. z \in Seq(Chars)
        BY <1>2
      <4>2. at \in Seq(Chars)
        BY <3>1
      <4> QED
        BY <4>1, <4>2, ConcatProperties
    <3> QED
      BY <1>2, <3>1, <3>2 DEF at
  <2> HIDE DEF l
  <2>3. /\ from \in Nat /\ Len(text) \in Nat
        /\ (from + Len(text)) + (Len(line) - to) = from + Len(text) + Len(line) - to
    BY <1>0
  <2>4. ASSUME NEW i \in 1 .. Len(l)
        PROVE  l[i] = IF i <= from THEN a[i]
                      ELSE IF i <= from + Len(text) THEN text[i - from]
                      ELSE z[i - from - Len(text)]
    <3>1. i - (from + Len(text)) = i - from - Len(text)
      BY <1>0, <2>2, <2>3
    <3>2. i <= from => i <= from + Len(text)
      BY <2>2, <2>3
    <3>3. i \in Nat /\ i >= 1
      BY <2>2, <2>3
    <3>4. CASE i <= from + Len(text)
      <4>1. i \in 1 .. from + Len(text)
        BY <2>3, <3>3, <3>4
      <4>2. i \in 1 .. (from + Len(text)) + (Len(line) - to)
        BY <2>2
      <4> QED
        BY <2>1, <2>2, <3>4, <4>1, <4>2
    <3>5. CASE ~(i <= from + Len(text))
      BY <2>2, <3>1, <3>2, <3>5
    <3> QED
      BY <3>4, <3>5
  <2> QED
    BY <2>2, <2>3, <2>4
<1> HIDE DEF l
<1>4. to < Len(line) => z[1] # "cont"
  BY <1>0, <1>2 DEF Between
<1>5. ASSUME l # <<>> PROVE l[1] # "cont"
  <2>0. 1 \in 1 .. Len(l)
    BY <1>3, <1>5
  <2>1. CASE from > 0
    <3>1. a[1] = line[1] /\ line # <<>>
      BY <1>0, <1>1, <2>1
    <3>2. l[1] = a[1]
      BY <1>3, <2>0, <2>1
    <3> QED
      BY <3>1, <3>2 DEF EditInv, Line
  <2>2. CASE from = 0 /\ text # <<>>
    <3>1. l[1] = text[1]
      BY <1>0, <1>3, <2>0, <2>2
    <3> QED
      BY <3>1, <2>2
  <2>3. CASE from = 0 /\ text = <<>>
    <3>1. l[1] = z[1]
      BY <1>0, <1>3, <2>0, <2>3
    <3>2. to < Len(line)
      BY <1>0, <1>3, <2>0, <2>3
    <3> QED
      BY <1>4, <3>1, <3>2
  <2> QED
    BY <1>0, <2>1, <2>2, <2>3
<1>6. ASSUME from + Len(text) < Len(l) PROVE l[from + Len(text) + 1] # "cont"
  <2>1. from + Len(text) + 1 \in 1 .. Len(l) /\ to < Len(line)
    BY <1>0, <1>3, <1>6
  <2>2. l[from + Len(text) + 1] = z[1]
    BY <1>0, <1>3, <2>1
  <2> QED
    BY <1>4, <2>1, <2>2
<1>7. Line(l)
  BY <1>0, <1>3, <1>5 DEF Line
<1>8. Between(l, from + Len(text))
  BY <1>0, <1>3, <1>6 DEF Between
<1> QED
  BY <1>7, <1>8 DEF l, a, z

(* The same with nothing in its place.                                     *)
LEMMA Deleted ==
  ASSUME EditInv, NEW to, Between(line, to), NEW from \in 0 .. to
  PROVE  LET l == Before(from) \o Behind(to)
         IN  Line(l) /\ Between(l, from)
<1>0. line \in Seq(Chars) /\ Len(line) \in Nat /\ to \in 0 .. Len(line)
      /\ Len(line) < LINE_MAX_BYTES /\ from \in Nat /\ from <= to
  BY DEF EditInv, Line, Between
<1>1. <<>> \in Seq(Chars) /\ Len(<<>>) = 0
  OBVIOUS
<1>2. Before(from) \in Seq(Chars)
  BY <1>0 DEF Before
<1>3. Before(from) \o <<>> = Before(from)
  BY <1>2, ConcatEmptySeq
<1>4. from + Len(<<>>) + Len(line) - to < LINE_MAX_BYTES
  BY <1>0, <1>1, ConsoleAssumption, SMTT(30) DEF EditInv
<1>5. from + Len(<<>>) = from
  BY <1>0, <1>1
<1> QED
  BY <1>1, <1>3, <1>4, <1>5, Replaced

(* A key that goes left or right stops between two characters.             *)
LEMMA LeftBetween ==
  ASSUME EditInv
  PROVE  cursor_left \in 0 .. pos /\ Between(line, cursor_left)
<1>0. line \in Seq(Chars) /\ Len(line) \in Nat /\ pos \in 0 .. Len(line)
      /\ (line # <<>> => line[1] # "cont")
  BY DEF EditInv, Line, Between
<1>1. Between(line, 0)
  BY <1>0 DEF Between
<1>2. CASE pos = 0
  BY <1>0, <1>1, <1>2 DEF cursor_left
<1>3. CASE pos # 0
  <2> DEFINE T == {0} \union {at \in 0 .. pos - 1 : line[at + 1] # "cont"}
  <2>1. T \in SUBSET (0 .. pos - 1) /\ T # {} /\ pos - 1 \in Nat
    BY <1>0, <1>3
  <2>2. cursor_left = Max(T)
    BY <1>3 DEF cursor_left
  <2>3. \A at \in T : at \in 0 .. pos /\ Between(line, at)
    BY <1>0, <1>1, <1>3 DEF Between
  <2> HIDE DEF T
  <2>4. Max(T) \in T
    BY <2>1, GreatestOf
  <2> QED
    BY <2>2, <2>3, <2>4
<1> QED
  BY <1>2, <1>3

LEMMA RightBetween ==
  ASSUME EditInv
  PROVE  cursor_right \in pos .. Len(line) /\ Between(line, cursor_right)
<1>0. line \in Seq(Chars) /\ Len(line) \in Nat /\ pos \in 0 .. Len(line)
  BY DEF EditInv, Line, Between
<1>1. Between(line, Len(line)) /\ Between(line, pos)
  BY <1>0 DEF Between, EditInv
<1>2. CASE pos = Len(line)
  BY <1>0, <1>1, <1>2 DEF cursor_right
<1>3. CASE pos # Len(line)
  <2> DEFINE T == {Len(line)} \union
                  {at \in pos + 1 .. Len(line) - 1 : line[at + 1] # "cont"}
  <2>1. T \in SUBSET Nat /\ T # {}
    BY <1>0
  <2>2. cursor_right = Min(T)
    BY <1>3 DEF cursor_right
  <2>3. \A at \in T : at \in pos .. Len(line) /\ Between(line, at)
    BY <1>0, <1>1 DEF Between
  <2> HIDE DEF T
  <2>4. Min(T) \in T
    BY <2>1, LeastOf
  <2> QED
    BY <2>2, <2>3, <2>4
<1> QED
  BY <1>2, <1>3

LEMMA WordStartsBefore ==
  ASSUME EditInv
  PROVE  word_start \in 0 .. pos
<1>0. pos \in Nat
  BY DEF EditInv, Line, Between
<1> DEFINE W == {0} \union {at \in 1 .. pos : line[at] # "space"}
           word == Max(W)
           S == {0} \union {at \in 1 .. word : line[at] = "space"}
<1>1. word \in 0 .. pos
  <2>1. 0 \in W /\ \A at \in W : at \in 0 .. pos
    BY <1>0
  <2> HIDE DEF W
  <2> QED
    BY <1>0, <2>1, GreatestOf
<1>2. word_start = Max(S)
  BY DEF word_start
<1> HIDE DEF word
<1>3. word \in Nat /\ 0 \in S /\ \A at \in S : at \in 0 .. word
  BY <1>0, <1>1
<1> HIDE DEF S
<1>4. Max(S) \in S
  BY <1>3, GreatestOf
<1> QED
  BY <1>0, <1>1, <1>2, <1>3, <1>4

LEMMA ArgumentBefore ==
  ASSUME EditInv
  PROVE  argument \in 0 .. pos
<1> DEFINE S == {0} \union {at \in 1 .. pos : line[at] = "space"}
<1>1. pos \in Nat /\ \A at \in S : at \in 0 .. pos
  BY DEF EditInv, Between
<1>2. argument = Max(S) /\ 0 \in S
  BY DEF argument
<1> HIDE DEF S
<1>3. Max(S) \in S
  BY <1>1, <1>2, GreatestOf
<1> QED
  BY <1>1, <1>2, <1>3

(* What is offered begins with a character, and so does what its parts     *)
(* have in common.                                                         *)
LEMMA CompletionBegins ==
  ASSUME EditInv, cand # {}
  PROVE  raw \in Seq(Chars) /\ (raw # <<>> => raw[1] # "cont")
<1> DEFINE T == texts
           C == cand
           text == T[Min(C)]
           N == {n \in 0 .. Len(text) :
                   \A k \in C : IsPrefix(SubSeq(text, 1, n), T[k])}
<1>1. T \in Seq(Seq(STRING))
      /\ \A k \in 1 .. Len(T) : T[k] # <<>> => T[k][1] # "cont"
  <2>1. T = Commands \/ T = Words \/ T = <<>>
    BY DEF texts
  <2> HIDE DEF T
  <2>2. CASE T \in {Commands, Words}
    <3>1. T \in Seq(Seq(STRING))
      BY <2>2, ConsoleAssumption
    <3>2. \A k \in DOMAIN T : T[k] # <<>> => T[k][1] # "cont"
      BY <2>2, ConsoleAssumption, Zenon
    <3>3. DOMAIN T = 1 .. Len(T)
      BY <3>1, LenProperties
    <3> QED
      BY <3>1, <3>2, <3>3
  <2>3. CASE T = <<>>
    BY <2>3
  <2> QED
    BY <2>1, <2>2, <2>3
<1>2. C # {} /\ \A k \in C : k \in DOMAIN T
  BY DEF cand
<1>3. \A k \in C : k \in Nat /\ k \in 1 .. Len(T) /\ T[k] \in Seq(Chars)
  <2> HIDE DEF T, C
  <2> QED
    <3>1. \A k \in C : k \in Nat /\ k \in 1 .. Len(T) /\ T[k] \in Seq(STRING)
      BY <1>1, <1>2
    <3>2. STRING \subseteq Chars
      BY DEF Chars
    <3> QED
      BY <3>1, <3>2, SeqMonotonic
<1>4. text \in Seq(Chars) /\ (text # <<>> => text[1] # "cont")
  <2> HIDE DEF T, C
  <2>1. Min(C) \in C
    BY <1>2, <1>3, LeastOf
  <2> QED
    BY <1>1, <1>3, <2>1
<1>5. 0 \in N
  <2> HIDE DEF T, C, text
  <2> SUFFICES ASSUME NEW k \in C
               PROVE  IsPrefix(SubSeq(text, 1, 0), T[k])
    BY <1>4
  <2>1. SubSeq(text, 1, 0) = <<>> /\ SubSeq(T[k], 1, 0) = <<>>
    BY SubSeqEmpty
  <2>2. Len(<<>>) = 0 /\ Len(T[k]) >= 0 /\ SubSeq(<<>>, 1, 0) = <<>>
    BY <1>3
  <2> QED
    BY <2>1, <2>2 DEF IsPrefix
<1>6. common = SubSeq(text, 1, Max(N))
  BY DEF common
<1>7. Max(N) \in 0 .. Len(text)
  <2> HIDE DEF T, C, text
  <2>1. N \in SUBSET (0 .. Len(text)) /\ N # {} /\ Len(text) \in Nat
    BY <1>4, <1>5
  <2> HIDE DEF N
  <2> QED
    BY <2>1, GreatestOf
<1> HIDE DEF T, C, text, N
<1>8. common \in Seq(Chars) /\ (common # <<>> => common[1] # "cont")
  BY <1>4, <1>6, <1>7
<1>9. raw = common \/ (common # <<>> /\ raw = common \o <<"space">>)
  <2>1. common \o <<>> = common
    BY <1>8, ConcatEmptySeq
  <2> QED
    BY <2>1 DEF raw
<1> DEFINE c == common
<1>10. c \in Seq(Chars) /\ (c # <<>> => c[1] # "cont")
  BY <1>8
<1> HIDE DEF c
<1>11. ASSUME c # <<>>
       PROVE  c \o <<"space">> \in Seq(Chars) /\ (c \o <<"space">>)[1] # "cont"
  <2>1. Len(c) \in Nat /\ Len(c) > 0 /\ <<"space">> \in Seq(Chars)
    <3>1. c \in Seq(Chars) /\ c # <<>>
      BY <1>10, <1>11
    <3>2. Len(c) \in Nat \ {0}
      BY <3>1, EmptySeq
    <3>3. <<"space">> \in Seq(Chars)
      BY DEF Chars
    <3> QED
      BY <3>2, <3>3
  <2>2. c \o <<"space">> \in Seq(Chars) /\ (c \o <<"space">>)[1] = c[1]
    BY <1>10, <2>1
  <2> QED
    BY <1>10, <1>11, <2>2
<1> QED
  BY <1>9, <1>10, <1>11 DEF c

(* What completes the argument stands between two characters, as the       *)
(* cursor did; or a list comes in above.                                   *)
LEMMA Completes ==
  ASSUME EditInv, complete
  PROVE  /\ Line(line') /\ Between(line', pos')
         /\ emit_line(list) \/ UNCHANGED out_vars
<1>0. line \in Seq(Chars) /\ Len(line) \in Nat /\ pos \in 0 .. Len(line)
      /\ Between(line, pos)
  BY DEF EditInv, Line, Between
<1>1. CASE Move(pos) /\ (emit_line(list) \/ UNCHANGED out_vars)
  BY <1>1 DEF Move, Text, EditInv
<1>2. CASE /\ cand # {} /\ UNCHANGED out_vars
           /\ replace_before_cursor(argument, raw)
  <2>1. CASE argument + Len(raw) + Len(line) - pos >= LINE_MAX_BYTES
    BY <1>1, <1>2, <2>1 DEF replace_before_cursor
  <2>2. CASE ~ (argument + Len(raw) + Len(line) - pos >= LINE_MAX_BYTES)
    <3> DEFINE a == argument
               r == raw
    <3>1. a \in 0 .. pos /\ r \in Seq(Chars) /\ (r # <<>> => r[1] # "cont")
      BY <1>2, ArgumentBefore, CompletionBegins
    <3>2. Text(Before(a) \o r \o Behind(pos), a + Len(r))
      BY <1>2, <2>2 DEF replace_before_cursor
    <3>3. ~ (a + Len(r) + Len(line) - pos >= LINE_MAX_BYTES)
      BY <2>2
    <3> HIDE DEF a, r
    <3>4. a + Len(r) + Len(line) - pos < LINE_MAX_BYTES
      <4>1. a \in Nat /\ Len(r) \in Nat /\ LINE_MAX_BYTES \in Nat /\ pos \in Nat
        BY <1>0, <3>1, ConsoleAssumption DEF EditInv
      <4> QED
        BY <1>0, <3>3, <4>1
    <3>5. /\ Line(Before(a) \o r \o Behind(pos))
          /\ Between(Before(a) \o r \o Behind(pos), a + Len(r))
      BY <1>0, <3>1, <3>4, Replaced
    <3> QED
      BY <1>2, <3>2, <3>5 DEF Text
  <2> QED
    BY <2>1, <2>2
<1> QED
  BY <1>1, <1>2 DEF complete

-----------------------------------------------------------------------------
(* The history is of lines, the newest first, the oldest dropped.          *)
LEMMA HistoryOfLines ==
  ASSUME EditInv, history_add(line)
  PROVE  hist' \in Seq(Seq(Chars)) /\ \A k \in 1 .. Len(hist') : Line(hist'[k])
<1> DEFINE all == <<line>> \o hist
           n == Min({Len(hist) + 1, HISTORY_LEN})
<1>1. /\ line \in Seq(Chars) /\ Line(line) /\ hist \in Seq(Seq(Chars))
      /\ Len(hist) \in Nat /\ \A k \in 1 .. Len(hist) : Line(hist[k])
      /\ HISTORY_LEN \in Nat
  BY ConsoleAssumption DEF EditInv, Line
<1>2. /\ all \in Seq(Seq(Chars)) /\ Len(all) = Len(hist) + 1
      /\ \A k \in 1 .. Len(hist) + 1 : all[k] = IF k = 1 THEN line ELSE hist[k - 1]
  BY <1>1
<1>3. \A k \in 1 .. Len(all) : Line(all[k])
  <2> SUFFICES ASSUME NEW k \in 1 .. Len(all) PROVE Line(all[k])
    OBVIOUS
  <2> HIDE DEF all
  <2>1. CASE k = 1
    BY <1>1, <1>2, <2>1
  <2>2. CASE k # 1
    <3>1. k - 1 \in 1 .. Len(hist) /\ all[k] = hist[k - 1]
      BY <1>1, <1>2, <2>2
    <3> QED
      BY <1>1, <3>1
  <2> QED
    BY <2>1, <2>2
<1>4. n \in 0 .. Len(all)
  <2>1. {Len(hist) + 1, HISTORY_LEN} \in SUBSET Nat
    BY <1>1
  <2>2. n \in Nat /\ n <= Len(hist) + 1
    BY <2>1, LeastOf
  <2> HIDE DEF n, all
  <2> QED
    BY <1>1, <1>2, <2>2
<1>5. hist' = hist \/ hist' = SubSeq(all, 1, n)
  BY DEF history_add
<1> HIDE DEF n, all
<1>6. ASSUME hist' = SubSeq(all, 1, n)
      PROVE  hist' \in Seq(Seq(Chars)) /\ \A k \in 1 .. Len(hist') : Line(hist'[k])
  <2>1. /\ SubSeq(all, 1, n) \in Seq(Seq(Chars)) /\ Len(SubSeq(all, 1, n)) = n
        /\ \A k \in 1 .. n : SubSeq(all, 1, n)[k] = all[k] /\ k \in 1 .. Len(all)
    BY <1>2, <1>4
  <2> QED
    BY <1>3, <1>6, <2>1
<1> QED
  BY <1>1, <1>5, <1>6

(* A key that is one byte: the rest of a character only behind its first.  *)
LEMMA KeyEdits ==
  ASSUME EditInv, NEW c, c = "cont" \/ c \in Keys, owed <=> c = "cont", byte(c)
  PROVE  /\ Line(line') /\ Between(line', pos')
         /\ hist' \in Seq(Seq(Chars)) /\ \A k \in 1 .. Len(hist') : Line(hist'[k])
         /\ hist_at' \in 0 .. Len(hist')
         /\ c = "lead" => pos' > 0 \/ Len(line') + 1 >= LINE_MAX_BYTES
         /\ \/ emit_line(list) \/ emit_line(echo)
            \/ UNCHANGED out_vars
<1>0. /\ line \in Seq(Chars) /\ Len(line) \in Nat /\ pos \in 0 .. Len(line)
      /\ Len(line) < LINE_MAX_BYTES /\ (line # <<>> => line[1] # "cont")
      /\ LINE_MAX_BYTES \in Nat /\ LINE_MAX_BYTES > 0
      /\ Between(line, pos) /\ c \in Chars /\ Line(line)
  <2>1. LINE_MAX_BYTES \in Nat /\ LINE_MAX_BYTES > 0 /\ Keys \subseteq Chars
    BY ConsoleAssumption DEF EditInv, Chars
  <2>2. c \in Chars
    <3>1. CASE c = "cont"
      BY <3>1 DEF Chars
    <3>2. CASE c \in Keys
      BY <2>1, <3>2
    <3> QED
      BY <3>1, <3>2
  <2> QED
    BY <2>1, <2>2 DEF EditInv, Line, Between
<1>1. Line(<<>>) /\ Between(<<>>, 0) /\ Between(line, 0) /\ Between(line, Len(line))
  BY <1>0 DEF Line, Between
<1> DEFINE Whole == Line(line') /\ Between(line', pos')
           Recalled == /\ hist' \in Seq(Seq(Chars)) /\ \A k \in 1 .. Len(hist') : Line(hist'[k])
                       /\ hist_at' \in 0 .. Len(hist')
<1>2. (UNCHANGED hist) /\ (hist_at' = 0 \/ UNCHANGED hist_at) => Recalled
  BY DEF EditInv
<1>3. CASE c = "enter"
  <2>1. enter
    BY <1>3 DEF byte
  <2>2. Whole /\ hist_at' = 0
    BY <1>1, <2>1 DEF enter, Text
  <2>3. CASE line = <<>>
    BY <1>2, <1>3, <2>1, <2>2, <2>3 DEF enter
  <2>4. CASE line # <<>>
    <3>1. history_add(line) /\ emit_line(echo)
      BY <2>1, <2>4 DEF enter
    <3>2. Recalled
      BY <2>2, <3>1, HistoryOfLines
    <3> QED
      BY <1>3, <2>2, <3>1, <3>2
  <2> QED
    BY <2>3, <2>4
<1>4. CASE c = "backspace"
  <2>1. delete_range(cursor_left, pos) /\ Still
    BY <1>4 DEF byte
  <2>2. Whole
    BY <1>0, <2>1, LeftBetween, Deleted DEF delete_range, Text
  <2> QED
    BY <1>2, <1>4, <2>1, <2>2 DEF Still
<1>5. CASE c = "tab"
  <2>1. complete /\ UNCHANGED <<hist, hist_at, running>>
    BY <1>5 DEF byte
  <2> QED
    BY <1>2, <1>5, <2>1, Completes
<1>6. CASE c = "ctrl_a" \/ c = "ctrl_e"
  <2>1. (Move(0) \/ Move(Len(line))) /\ Still
    BY <1>6 DEF byte
  <2> QED
    BY <1>0, <1>1, <1>2, <1>6, <2>1 DEF Move, Text, Still
<1>7. CASE c = "ctrl_c"
  <2>1. Text(<<>>, 0) /\ hist_at' = 0 /\ UNCHANGED <<hist, out_vars, running>>
    BY <1>7 DEF byte
  <2> QED
    BY <1>1, <1>2, <1>7, <2>1 DEF Text
<1>8. CASE c = "ctrl_u" \/ c = "ctrl_w"
  <2>1. (delete_range(0, pos) \/ delete_range(word_start, pos)) /\ Still
    BY <1>8 DEF byte
  <2>2. PICK from \in 0 .. pos : delete_range(from, pos)
    BY <1>0, <2>1, WordStartsBefore
  <2>3. Whole
    BY <1>0, <2>2, Deleted DEF delete_range, Text
  <2> QED
    BY <1>2, <1>8, <2>1, <2>3 DEF Still
<1>9. CASE c \notin {"enter", "backspace", "tab", "ctrl_a", "ctrl_e", "ctrl_c", "ctrl_u", "ctrl_w"}
  <2>1. insert(c) /\ Still
    BY <1>9 DEF byte
  <2>2. CASE Len(line) + 1 >= LINE_MAX_BYTES
    <3>1. UNCHANGED <<line, pos>>
      BY <2>1, <2>2 DEF insert, Move, Text
    <3> QED
      BY <1>0, <1>2, <2>1, <2>2, <3>1 DEF Still
  <2>3. CASE ~ (Len(line) + 1 >= LINE_MAX_BYTES)
    <3>1. line' = Before(pos) \o <<c>> \o Behind(pos) /\ pos' = pos + 1
      BY <2>1, <2>3 DEF insert, Text
    <3>2. <<c>> \in Seq(Chars) /\ Len(<<c>>) = 1 /\ <<c>>[1] = c
      BY <1>0
    <3>3. pos = 0 => c # "cont"
      BY <1>0, <2>3 DEF EditInv
    <3>4. pos + Len(<<c>>) + Len(line) - pos < LINE_MAX_BYTES /\ pos \in 0 .. pos
      BY <1>0, <2>3, <3>2
    <3>5. /\ Line(Before(pos) \o <<c>> \o Behind(pos))
          /\ Between(Before(pos) \o <<c>> \o Behind(pos), pos + Len(<<c>>))
      BY <1>0, <3>2, <3>3, <3>4, Replaced
    <3>6. Whole /\ pos' > 0
      BY <1>0, <3>1, <3>2, <3>5
    <3> QED
      BY <1>2, <2>1, <3>6 DEF Still
  <2> QED
    BY <2>2, <2>3
<1> QED
  BY <1>3, <1>4, <1>5, <1>6, <1>7, <1>8, <1>9

(* A sequence: the history, a move, the character under the cursor deleted *)
(* or a page of the view.                                                  *)
LEMMA SequenceEdits ==
  ASSUME EditInv, NEW a, NEW final, csi(a, final)
  PROVE  /\ Line(line') /\ Between(line', pos')
         /\ UNCHANGED hist /\ hist_at' \in 0 .. Len(hist)
         /\ \/ UNCHANGED out_vars
            \/ page(page_rows) \/ page(-page_rows)
<1>0. /\ line \in Seq(Chars) /\ Len(line) \in Nat /\ pos \in 0 .. Len(line)
      /\ Line(line) /\ Between(line, pos) /\ (line # <<>> => line[1] # "cont")
      /\ hist_at \in 0 .. Len(hist) /\ Len(hist) \in Nat
      /\ \A k \in 1 .. Len(hist) : Line(hist[k])
  BY DEF EditInv, Line, Between
<1>1. Line(<<>>) /\ Between(line, 0) /\ Between(line, Len(line))
  BY <1>0, ConsoleAssumption, SMTT(30) DEF Line, Between, EditInv
<1>2. \A l : Line(l) => Between(l, Len(l))
  BY DEF Line, Between
<1>3. ASSUME NEW at \in 0 .. Len(hist), history_show(at)
      PROVE  Line(line') /\ Between(line', pos') /\ UNCHANGED hist /\ hist_at' = at
  <2> DEFINE l == IF at = 0 THEN <<>> ELSE hist[at]
  <2>1. Line(l)
    BY <1>0, <1>1
  <2>2. line' = l /\ pos' = Len(l) /\ hist_at' = at /\ UNCHANGED hist
    BY <1>3 DEF history_show, Text
  <2> HIDE DEF l
  <2> QED
    BY <1>2, <2>1, <2>2
<1>4. ASSUME NEW at, Move(at), Between(line, at), UNCHANGED <<hist, hist_at>>
      PROVE  /\ Line(line') /\ Between(line', pos')
             /\ UNCHANGED hist /\ hist_at' \in 0 .. Len(hist)
  BY <1>0, <1>4 DEF Move, Text
<1>5. CASE final = "A" /\ hist_at < Len(hist)
  <2>1. history_show(hist_at + 1) /\ UNCHANGED out_vars
    BY <1>5 DEF csi
  <2>2. hist_at + 1 \in 0 .. Len(hist)
    BY <1>0, <1>5
  <2> QED
    BY <1>3, <2>1, <2>2
<1>6. CASE final = "B" /\ hist_at > 0
  <2>1. history_show(hist_at - 1) /\ UNCHANGED out_vars
    BY <1>6 DEF csi
  <2>2. hist_at - 1 \in 0 .. Len(hist)
    BY <1>0, <1>6
  <2> QED
    BY <1>3, <2>1, <2>2
<1>7. CASE final = "C" \/ final = "D"
  <2>1. /\ Move(cursor_right) \/ Move(cursor_left)
        /\ UNCHANGED <<hist, hist_at, out_vars>>
    BY <1>7 DEF csi
  <2> QED
    BY <1>4, <2>1, LeftBetween, RightBetween
<1>8. CASE final = "~" /\ a = 3 /\ pos < Len(line)
  <2>1. delete_range(pos, cursor_right) /\ UNCHANGED <<hist, hist_at, out_vars>>
    BY <1>8 DEF csi
  <2> DEFINE to == cursor_right
  <2>2. Between(line, to) /\ pos \in 0 .. to
    BY <1>0, RightBetween
  <2>3. line' = Before(pos) \o Behind(to) /\ pos' = pos
    BY <2>1 DEF delete_range, Text
  <2> HIDE DEF to
  <2> QED
    BY <1>0, <2>1, <2>2, <2>3, Deleted
<1>9. CASE final = "~" /\ a \in {5, 6}
  <2>1. (page(page_rows) \/ page(-page_rows)) /\ UNCHANGED edit_vars
    BY <1>9 DEF csi
  <2> QED
    BY <1>0, <2>1 DEF edit_vars
<1>10. CASE /\ ~(final = "A" /\ hist_at < Len(hist)) /\ ~(final = "B" /\ hist_at > 0)
            /\ final \notin {"C", "D"} /\ ~(final = "~" /\ a = 3 /\ pos < Len(line))
            /\ ~(final = "~" /\ a \in {5, 6})
  <2>1. /\ Move(0) \/ Move(Len(line)) \/ Move(pos)
        /\ UNCHANGED <<hist, hist_at, out_vars>>
    BY <1>10 DEF csi
  <2> QED
    BY <1>0, <1>1, <1>4, <2>1
<1> QED
  BY <1>5, <1>6, <1>7, <1>8, <1>9, <1>10

-----------------------------------------------------------------------------
(***************************************************************************)
(* What was printed: the scrollback's lines, of which some are the         *)
(* console's own, and the line being printed.                              *)
(***************************************************************************)
Found(log, c) ==
  \E i \in 1 .. Len(log) : \E k \in 1 .. Len(log[i]) : log[i][k] = c

(* It is in a line, or in one of those that found no memory.               *)
Held(log, c, un) == Found(log, c) \/ c \in un

(* The character at place k of line i, of p characters printed.            *)
InPlace(log, i, k, p, brk, un) ==
  LET c == log[i][k]
  IN  /\ log[i][1] > 0 /\ c = log[i][1] + k - 1 /\ c <= p
      /\ \A later \in c .. p : Held(log, later, un)
      /\ \A j \in i + 1 .. Len(log) : \A m \in 1 .. Len(log[j]) :
           log[j][m] = 0 \/ c < log[j][m]
      /\ k < Len(log[i]) => c \notin brk
      /\ k = Len(log[i]) /\ i < Len(log) => c \in brk \/ Len(log[i]) = OUT_LINE_BYTES

Texts == Seq(Nat)

LogOK(log, p, brk, un) ==
  /\ log \in Seq(Texts) /\ log # <<>> /\ p \in Nat /\ brk \subseteq 0 .. p
  /\ \A i \in 1 .. Len(log) : \A k \in 1 .. Len(log[i]) :
       log[i][1] > 0 \/ log[i][k] > 0 => InPlace(log, i, k, p, brk, un)
  /\ LET text == log[Len(log)] IN
       text # <<>> => text[1] > 0 /\ text[Len(text)] = p /\ p \notin brk

All(log, p, un) == \A c \in 1 .. p : Held(log, c, un)

PrintInv ==
  /\ LogOK(Append(sb, out), printed, breaks, unstored)
  /\ dropped = 0 => All(Append(sb, out), printed, unstored)

(* The oldest lines go: what is left is in its place.                      *)
LEMMA OldestGo ==
  ASSUME NEW log, NEW p, NEW brk, NEW un, LogOK(log, p, brk, un),
         NEW n \in 0 .. Len(log) - 1, NEW rest \in Seq(Texts),
         Len(rest) = Len(log) - n, \A i \in 1 .. Len(rest) : rest[i] = log[i + n]
  PROVE  LogOK(rest, p, brk, un)
<1>0. /\ log \in Seq(Texts) /\ Len(log) \in Nat /\ n \in Nat /\ n < Len(log)
      /\ p \in Nat /\ brk \subseteq 0 .. p /\ Len(rest) \in Nat /\ Len(rest) > 0
  BY DEF LogOK
<1>1. \A i \in 1 .. Len(rest) : i + n \in 1 .. Len(log) /\ log[i + n] \in Texts
  BY <1>0
<1>2. ASSUME NEW i \in 1 .. Len(rest), NEW k \in 1 .. Len(rest[i]),
             rest[i][1] > 0 \/ rest[i][k] > 0
      PROVE  InPlace(rest, i, k, p, brk, un)
  <2> DEFINE text == rest[i]
             c == text[k]
  <2>1. /\ i + n \in 1 .. Len(log) /\ text = log[i + n] /\ text \in Texts
        /\ InPlace(log, i + n, k, p, brk, un)
    BY <1>1, <1>2 DEF LogOK
  <2>2. /\ text[1] > 0 /\ c = text[1] + k - 1 /\ c <= p
        /\ \A later \in c .. p : Held(log, later, un)
        /\ \A j \in i + n + 1 .. Len(log) : \A m \in 1 .. Len(log[j]) :
             log[j][m] = 0 \/ c < log[j][m]
        /\ k < Len(text) => c \notin brk
        /\ k = Len(text) /\ i + n < Len(log) => c \in brk \/ Len(text) = OUT_LINE_BYTES
    BY <2>1 DEF InPlace
  <2>3. c \in Nat /\ c > 0
    <3>1. text \in Seq(Nat) /\ k \in 1 .. Len(text) /\ 1 \in 1 .. Len(text)
      BY <2>1 DEF Texts
    <3> HIDE DEF text
    <3>2. text[1] \in Nat /\ c \in Nat /\ k \in Nat /\ k >= 1
      BY <3>1, SMTT(30)
    <3> QED
      BY <2>2, <3>2
  <2> HIDE DEF c, text
  <2>4. ASSUME NEW later \in c .. p, later \notin un PROVE Found(rest, later)
    <3>1. later \in Nat /\ later > 0 /\ later >= c
      BY <1>0, <2>3
    <3>20. PICK j \in 1 .. Len(log) : \E m \in 1 .. Len(log[j]) : log[j][m] = later
      BY <2>2, <2>4 DEF Found, Held
    <3>2. PICK m \in 1 .. Len(log[j]) : log[j][m] = later
      BY <3>20
    <3>3. ASSUME j <= n PROVE FALSE
      <4>1. InPlace(log, j, m, p, brk, un)
        BY <3>1, <3>2 DEF LogOK
      <4>2. i + n \in j + 1 .. Len(log) /\ k \in 1 .. Len(log[i + n]) /\ log[i + n][k] = c
        BY <1>0, <2>1, <3>3 DEF c, text
      <4>3. \A x \in j + 1 .. Len(log) : \A y \in 1 .. Len(log[x]) :
              log[x][y] = 0 \/ log[j][m] < log[x][y]
        BY <4>1 DEF InPlace
      <4>4. c = 0 \/ log[j][m] < c
        BY <4>2, <4>3
      <4> QED
        BY <2>3, <3>1, <3>2, <4>4
    <3>4. j - n \in 1 .. Len(rest) /\ rest[j - n] = log[j]
      <4>1. j - n \in 1 .. Len(rest) /\ (j - n) + n = j
        BY <1>0, <3>3
      <4> QED
        BY <4>1
    <3> QED
      BY <3>2, <3>4 DEF Found
  <2>5. ASSUME NEW j \in i + 1 .. Len(rest), NEW m \in 1 .. Len(rest[j])
        PROVE  rest[j][m] = 0 \/ c < rest[j][m]
    <3>1. j \in 1 .. Len(rest) /\ j + n \in i + n + 1 .. Len(log)
      BY <1>0, SMTT(30)
    <3> QED
      BY <2>2, <3>1
  <2>6. i < Len(rest) => i + n < Len(log)
    BY <1>0
  <2> QED
    BY <2>2, <2>4, <2>5, <2>6 DEF InPlace, Held, c, text
<1>3. rest[Len(rest)] = log[Len(log)]
  <2>1. Len(rest) \in 1 .. Len(rest) /\ Len(rest) + n = Len(log)
    BY <1>0
  <2> QED
    BY <2>1
<1>4. rest # <<>>
  BY <1>0
<1> QED
  BY <1>0, <1>2, <1>3, <1>4 DEF LogOK

(* A line of the console's own, before the one being printed.              *)
LEMMA OwnLineComes ==
  ASSUME NEW log, NEW p, NEW brk, NEW un, LogOK(log, p, brk, un),
         NEW own \in Texts, \A k \in 1 .. Len(own) : own[k] = 0,
         NEW more \in Seq(Texts), Len(more) = Len(log) + 1,
         \A i \in 1 .. Len(log) - 1 : more[i] = log[i],
         more[Len(log)] = own, more[Len(log) + 1] = log[Len(log)]
  PROVE  LogOK(more, p, brk, un) /\ (All(log, p, un) => All(more, p, un))
<1> DEFINE L == Len(log)
           was(i) == IF i < L THEN i ELSE i - 1
           now(j) == IF j < L THEN j ELSE j + 1
<1>0. /\ log \in Seq(Texts) /\ L \in Nat /\ L > 0 /\ p \in Nat /\ brk \subseteq 0 .. p
      /\ Len(more) = L + 1 /\ Len(own) \in Nat
  <2>1. log \in Seq(Texts) /\ log # <<>> /\ p \in Nat /\ brk \subseteq 0 .. p
    BY DEF LogOK
  <2>2. L \in Nat /\ L > 0
    BY <2>1, EmptySeq, LenProperties
  <2>3. Len(own) \in Nat
    BY DEF Texts
  <2> QED
    BY <2>1, <2>2, <2>3
<1>1. \A i \in 1 .. L + 1 : i # L => was(i) \in 1 .. L /\ more[i] = log[was(i)]
  BY <1>0, SMTT(30)
<1>2. \A j \in 1 .. L : now(j) \in 1 .. L + 1 /\ more[now(j)] = log[j]
  BY <1>0
<1> HIDE DEF L
<1>3. ASSUME NEW x, Found(log, x) PROVE Found(more, x)
  <2>1. PICK j \in 1 .. L : \E m \in 1 .. Len(log[j]) : log[j][m] = x
    BY <1>3 DEF Found, L
  <2>2. now(j) \in 1 .. Len(more) /\ more[now(j)] = log[j]
    BY <1>0, <1>2
  <2> HIDE DEF now
  <2> QED
    BY <2>1, <2>2 DEF Found
<1>4. ASSUME NEW i \in 1 .. Len(more), NEW k \in 1 .. Len(more[i]),
             more[i][1] > 0 \/ more[i][k] > 0
      PROVE  InPlace(more, i, k, p, brk, un)
  <2>1. i # L
    <3> SUFFICES ASSUME i = L PROVE FALSE
      OBVIOUS
    <3>1. more[i] = own /\ 1 \in 1 .. Len(own)
      BY <1>0 DEF L
    <3>2. own[1] = 0 /\ own[k] = 0
      BY <3>1
    <3> QED
      BY <1>4, <3>1, <3>2
  <2> DEFINE text == more[i]
             c == text[k]
             h == was(i)
  <2>2. h \in 1 .. L /\ text = log[h]
    BY <1>0, <1>1, <2>1
  <2>3. InPlace(log, h, k, p, brk, un)
    BY <1>4, <2>2 DEF LogOK, L
  <2>4. /\ text[1] > 0 /\ c = text[1] + k - 1 /\ c <= p
        /\ \A later \in c .. p : Held(log, later, un)
        /\ \A j \in h + 1 .. L : \A m \in 1 .. Len(log[j]) :
             log[j][m] = 0 \/ c < log[j][m]
        /\ k < Len(text) => c \notin brk
        /\ k = Len(text) /\ h < L => c \in brk \/ Len(text) = OUT_LINE_BYTES
    BY <2>2, <2>3 DEF InPlace, L
  <2>5. ASSUME NEW j \in i + 1 .. Len(more), NEW m \in 1 .. Len(more[j])
        PROVE  more[j][m] = 0 \/ c < more[j][m]
    <3>1. CASE j = L
      BY <3>1 DEF L
    <3>2. CASE j # L
      <4>1. j \in 1 .. L + 1 /\ was(j) \in h + 1 .. L
        BY <1>0, <2>1, <3>2, SMTT(30)
      <4>2. more[j] = log[was(j)]
        BY <1>1, <3>2, <4>1
      <4> HIDE DEF was, c, h
      <4> QED
        BY <2>4, <4>1, <4>2
    <3> QED
      BY <3>1, <3>2
  <2>6. i < Len(more) => h < L
    BY <1>0, <2>1
  <2> HIDE DEF h
  <2> QED
    BY <1>3, <2>4, <2>5, <2>6 DEF InPlace, Held
<1>5. more[Len(more)] = log[L] /\ more # <<>>
  BY <1>0 DEF L
<1>6. LogOK(more, p, brk, un)
  BY <1>0, <1>4, <1>5 DEF LogOK, L
<1> QED
  BY <1>3, <1>6 DEF All, Held

(* A line ends, at a newline or because it is full.                        *)
LEMMA LineEnds ==
  ASSUME NEW log, NEW p, NEW brk, NEW un, LogOK(log, p, brk, un), NEW brk2,
         brk2 = brk \union {p} \/ (brk2 = brk /\ Len(log[Len(log)]) = OUT_LINE_BYTES)
  PROVE  /\ LogOK(Append(log, <<>>), p, brk2, un)
         /\ All(log, p, un) => All(Append(log, <<>>), p, un)
<1> DEFINE L == Len(log)
           more == Append(log, <<>>)
<1>0. /\ log \in Seq(Texts) /\ L \in Nat /\ L > 0 /\ p \in Nat
      /\ brk \subseteq 0 .. p /\ brk2 \subseteq 0 .. p
      /\ log[L] # <<>> => log[L][Len(log[L])] = p
  <2>1. /\ log \in Seq(Texts) /\ L \in Nat /\ L > 0 /\ p \in Nat /\ brk \subseteq 0 .. p
        /\ log[L] # <<>> => log[L][Len(log[L])] = p
    BY DEF LogOK
  <2>2. p \in 0 .. p
    BY <2>1
  <2> HIDE DEF L
  <2> QED
    BY <2>1, <2>2
<1>1. /\ more \in Seq(Texts) /\ Len(more) = L + 1 /\ more[L + 1] = <<>>
      /\ \A i \in 1 .. L : more[i] = log[i] /\ log[i] \in Seq(Nat)
  <2>1. <<>> \in Texts
    BY DEF Texts
  <2> QED
    BY <1>0, <2>1 DEF Texts
<1> HIDE DEF more, L
<1>2. ASSUME NEW x, Found(log, x) PROVE Found(more, x)
  <2>1. PICK j \in 1 .. L : \E m \in 1 .. Len(log[j]) : log[j][m] = x
    BY <1>2 DEF Found, L
  <2>2. j \in 1 .. Len(more) /\ more[j] = log[j]
    BY <1>0, <1>1
  <2> QED
    BY <2>1, <2>2 DEF Found
<1>3. ASSUME NEW i \in 1 .. Len(more), NEW k \in 1 .. Len(more[i]),
             more[i][1] > 0 \/ more[i][k] > 0
      PROVE  InPlace(more, i, k, p, brk2, un)
  <2>1. i \in 1 .. L
    BY <1>0, <1>1, <1>3
  <2> DEFINE text == log[i]
             c == text[k]
  <2>2. more[i] = text /\ text \in Seq(Nat) /\ k \in 1 .. Len(text) /\ Len(text) \in Nat
    BY <1>1, <2>1
  <2>3. InPlace(log, i, k, p, brk, un)
    BY <1>3, <2>1, <2>2 DEF LogOK, L
  <2>4. /\ text[1] > 0 /\ c = text[1] + k - 1 /\ c <= p
        /\ \A later \in c .. p : Held(log, later, un)
        /\ \A j \in i + 1 .. L : \A m \in 1 .. Len(log[j]) :
             log[j][m] = 0 \/ c < log[j][m]
        /\ k < Len(text) => c \notin brk
        /\ k = Len(text) /\ i < L => c \in brk \/ Len(text) = OUT_LINE_BYTES
    BY <2>3 DEF InPlace, L
  <2>5. text[1] \in Nat /\ c \in Nat
    <3>1. 1 \in 1 .. Len(text)
      BY <2>2
    <3> HIDE DEF text
    <3> QED
      BY <2>2, <3>1
  <2>6. ASSUME k < Len(text) PROVE c \notin brk2
    <3>1. Len(text) \in 1 .. Len(text)
      BY <2>2
    <3>2. InPlace(log, i, Len(text), p, brk, un)
      BY <2>1, <2>4, <3>1 DEF LogOK, L
    <3>3. text[Len(text)] = text[1] + Len(text) - 1 /\ text[Len(text)] <= p
      BY <3>2 DEF InPlace
    <3> HIDE DEF text
    <3>4. c < p
      BY <1>0, <2>2, <2>4, <2>5, <2>6, <3>3, SMTT(30)
    <3> QED
      BY <1>0, <2>4, <2>6, <3>4
  <2>7. ASSUME k = Len(text) PROVE c \in brk2 \/ Len(text) = OUT_LINE_BYTES
    <3>1. CASE i < L
      BY <2>4, <2>7, <3>1
    <3>2. CASE i = L
      <4>1. text # <<>> /\ c = p
        BY <1>0, <2>2, <2>7, <3>2
      <4> QED
        BY <3>2, <4>1 DEF L
    <3> QED
      BY <1>0, <2>1, <3>1, <3>2
  <2>8. ASSUME NEW j \in i + 1 .. Len(more), NEW m \in 1 .. Len(more[j])
        PROVE  more[j][m] = 0 \/ c < more[j][m]
    <3>1. j # L + 1
      BY <1>1
    <3>2. j \in i + 1 .. L /\ more[j] = log[j]
      BY <1>0, <1>1, <2>1, <3>1
    <3> HIDE DEF c
    <3> QED
      BY <2>4, <3>2
  <2> HIDE DEF c, text
  <2> QED
    BY <1>2, <2>2, <2>4, <2>6, <2>7, <2>8 DEF InPlace, Held, c
<1>4. more # <<>> /\ more[Len(more)] = <<>>
  BY <1>0, <1>1
<1>5. LogOK(more, p, brk2, un)
  BY <1>0, <1>1, <1>3, <1>4 DEF LogOK
<1> QED
  BY <1>2, <1>5 DEF All, Held, more

(* A character joins the line being printed.                               *)
LEMMA CharacterComes ==
  ASSUME NEW log, NEW p, NEW brk, NEW un, LogOK(log, p, brk, un),
         NEW more \in Seq(Texts), Len(more) = Len(log),
         \A i \in 1 .. Len(log) - 1 : more[i] = log[i],
         more[Len(log)] = Append(log[Len(log)], p + 1)
  PROVE  LogOK(more, p + 1, brk, un) /\ (All(log, p, un) => All(more, p + 1, un))
<1> DEFINE L == Len(log)
           last == log[L]
           n == Len(last)
<1>0. /\ log \in Seq(Texts) /\ L \in Nat /\ L > 0 /\ p \in Nat /\ brk \subseteq 0 .. p
      /\ last # <<>> => last[1] > 0 /\ last[n] = p /\ p \notin brk
  BY DEF LogOK
<1>1. last \in Seq(Nat) /\ n \in Nat
  BY <1>0 DEF Texts
<1>2. /\ more[L] \in Seq(Nat) /\ Len(more[L]) = n + 1 /\ more[L][n + 1] = p + 1
      /\ \A k \in 1 .. n : more[L][k] = last[k]
  <2> HIDE DEF last
  <2> QED
    BY <1>0, <1>1 DEF last
<1>3. \A i \in 1 .. L : i = L \/ more[i] = log[i]
  BY <1>0
<1>4. Len(more) = L
  OBVIOUS
<1> HIDE DEF L
<1>5. ASSUME NEW x, Found(log, x) PROVE Found(more, x)
  <2>1. PICK j \in 1 .. L : \E m \in 1 .. Len(log[j]) : log[j][m] = x
    BY <1>5 DEF Found, L
  <2>2. PICK m \in 1 .. Len(log[j]) : log[j][m] = x
    BY <2>1
  <2>3. m \in 1 .. Len(more[j]) /\ more[j][m] = x
    <3>1. CASE j = L
      <4>1. m \in 1 .. n /\ last[m] = x
        BY <2>2, <3>1
      <4>2. m \in 1 .. n + 1
        BY <1>1, <4>1
      <4> HIDE DEF last, n
      <4>3. m \in 1 .. Len(more[L]) /\ more[L][m] = x
        BY <1>2, <4>1, <4>2
      <4> QED
        BY <3>1, <4>3
    <3>2. CASE j # L
      BY <1>3, <2>2, <3>2
    <3> QED
      BY <3>1, <3>2
  <2> QED
    BY <1>4, <2>3 DEF Found
<1>6. Found(more, p + 1)
  <2>1. L \in 1 .. Len(more) /\ n + 1 \in 1 .. Len(more[L])
    BY <1>0, <1>1, <1>2, <1>4
  <2> QED
    BY <1>2, <2>1 DEF Found
<1>7. ASSUME NEW c \in Nat, \A later \in c .. p : Held(log, later, un),
             NEW later \in c .. p + 1
      PROVE  Held(more, later, un)
  BY <1>0, <1>5, <1>6, <1>7 DEF Held
<1>8. ASSUME NEW i \in 1 .. L, i # L, NEW k \in 1 .. Len(more[i]),
             more[i][1] > 0 \/ more[i][k] > 0
      PROVE  InPlace(more, i, k, p + 1, brk, un)
  <2> DEFINE text == log[i]
             c == text[k]
  <2>1. more[i] = text /\ text \in Seq(Nat) /\ i < L
    <3>1. more[i] = log[i] /\ log[i] \in Texts
      BY <1>0, <1>3, <1>8 DEF L
    <3>2. i < L
      BY <1>0, <1>8
    <3> QED
      BY <3>1, <3>2 DEF Texts
  <2>2. InPlace(log, i, k, p, brk, un)
    BY <1>8, <2>1 DEF LogOK, L
  <2>3. /\ text[1] > 0 /\ c = text[1] + k - 1 /\ c <= p
        /\ \A later \in c .. p : Held(log, later, un)
        /\ \A j \in i + 1 .. L : \A m \in 1 .. Len(log[j]) :
             log[j][m] = 0 \/ c < log[j][m]
        /\ k < Len(text) => c \notin brk
        /\ k = Len(text) => c \in brk \/ Len(text) = OUT_LINE_BYTES
    BY <2>1, <2>2 DEF InPlace, L
  <2>4. c \in Nat
    BY <1>8, <2>1, SMTT(30)
  <2> HIDE DEF c, text
  <2>5. ASSUME NEW j \in i + 1 .. L, NEW m \in 1 .. Len(more[j])
        PROVE  more[j][m] = 0 \/ c < more[j][m]
    <3>1. CASE j # L
      BY <1>0, <1>3, <2>3, <3>1, SMTT(30)
    <3>2. CASE j = L /\ m <= n
      <4>1. m \in 1 .. n /\ L \in i + 1 .. L
        BY <1>1, <1>2, <1>0, <2>1, <3>2
      <4>2. more[L][m] = last[m]
        BY <1>2, <4>1
      <4>3. last[m] = 0 \/ c < last[m]
        BY <2>3, <4>1
      <4> HIDE DEF last
      <4> QED
        BY <3>2, <4>2, <4>3
    <3>3. CASE j = L /\ ~(m <= n)
      <4>1. m = n + 1
        BY <1>1, <1>2, <3>3, SMTT(30)
      <4> QED
        BY <1>0, <1>2, <2>3, <2>4, <3>3, <4>1
    <3> QED
      BY <3>1, <3>2, <3>3
  <2>6. c <= p + 1
    BY <1>0, <2>3, <2>4
  <2> QED
    BY <1>4, <1>7, <2>1, <2>3, <2>4, <2>5, <2>6 DEF InPlace, c
<1>9. ASSUME NEW k \in 1 .. n + 1
      PROVE  InPlace(more, L, k, p + 1, brk, un)
  <2> DEFINE text == more[L]
             c == text[k]
  <2>1. CASE k <= n
    <3>1. k \in 1 .. n /\ 1 \in 1 .. n /\ last # <<>>
      BY <1>1, <1>9, <2>1
    <3>2. InPlace(log, L, k, p, brk, un)
      BY <1>0, <3>1 DEF LogOK, L
    <3>3. c = last[k] /\ text[1] = last[1] /\ c \in Nat
      <4> HIDE DEF last, n
      <4>1. last[k] \in Nat
        BY <1>1, <3>1 DEF n
      <4> QED
        BY <1>2, <3>1, <4>1
    <3>4. /\ text[1] > 0 /\ c = text[1] + k - 1 /\ c <= p
          /\ \A later \in c .. p : Held(log, later, un)
          /\ k < n => c \notin brk
      BY <3>2, <3>3 DEF InPlace, L
    <3>5. c \notin brk
      <4>1. CASE k = n
        BY <1>0, <3>1, <3>3, <4>1
      <4>2. CASE k # n
        BY <1>1, <3>1, <3>4, <4>2
      <4> QED
        BY <4>1, <4>2
    <3> HIDE DEF c, text
    <3>6. c <= p + 1
      BY <1>0, <3>3, <3>4
    <3>7. \A later \in c .. p + 1 : Held(more, later, un)
      BY <1>7, <3>3, <3>4
    <3>8. L + 1 .. Len(more) = {} /\ k # Len(more[L])
      BY <1>0, <1>1, <1>2, <1>4, <3>1, SMTT(30)
    <3>9. c = more[L][k] /\ text = more[L]
      BY DEF c, text
    <3> QED
      BY <3>4, <3>5, <3>6, <3>7, <3>8, <3>9 DEF InPlace
  <2>2. CASE k = n + 1
    <3>1. c = p + 1
      BY <1>2, <2>2
    <3>2. text[1] > 0 /\ c = text[1] + k - 1
      <4>1. CASE last = <<>>
        <5>1. n = 0
          BY <4>1
        <5> QED
          BY <1>0, <1>2, <2>2, <3>1, <5>1
      <4>2. CASE last # <<>>
        <5>1. n \in 1 .. n /\ 1 \in 1 .. n
          BY <1>1, <4>2
        <5>2. InPlace(log, L, n, p, brk, un)
          BY <1>0, <4>2, <5>1 DEF LogOK, L
        <5>3. p = last[1] + n - 1 /\ last[1] = text[1] /\ last[1] \in Nat /\ last[1] > 0
          <6>1. log[L][n] = log[L][1] + n - 1
            BY <5>2 DEF InPlace
          <6>2. last[n] = p /\ last[1] > 0
            BY <1>0, <4>2
          <6>3. p = last[1] + n - 1 /\ last[1] > 0
            BY <6>1, <6>2
          <6> HIDE DEF last, n
          <6>4. last[1] \in Nat
            BY <1>1, <5>1 DEF n
          <6> QED
            BY <1>2, <5>1, <6>3, <6>4
        <5>4. n \in Nat /\ k = n + 1
          BY <1>1, <2>2
        <5>5. \A first \in Nat : p = first + n - 1 => p + 1 = first + k - 1
          BY <5>4
        <5>6. text[1] \in Nat /\ text[1] > 0 /\ p = text[1] + n - 1
          BY <5>3
        <5>7. p + 1 = text[1] + k - 1
          BY <5>5, <5>6, Zenon
        <5> QED
          BY <3>1, <5>6, <5>7, Zenon
      <4> QED
        BY <4>1, <4>2
    <3>3. \A later \in c .. p + 1 : Held(more, later, un)
      BY <1>0, <1>6, <3>1 DEF Held
    <3> QED
      BY <1>0, <1>1, <1>2, <1>4, <2>2, <3>1, <3>2, <3>3 DEF InPlace
  <2> QED
    BY <1>1, <1>9, <2>1, <2>2
<1>10. \A i \in 1 .. Len(more) : \A k \in 1 .. Len(more[i]) :
         more[i][1] > 0 \/ more[i][k] > 0 => InPlace(more, i, k, p + 1, brk, un)
  BY <1>2, <1>4, <1>8, <1>9
<1>11. /\ more # <<>> /\ p + 1 \in Nat /\ brk \subseteq 0 .. p + 1 /\ p + 1 \notin brk
       /\ more[L][1] > 0
  <2>1. 1 \in 1 .. n + 1
    BY <1>1
  <2>2. more[L][1] > 0
    BY <1>9, <2>1 DEF InPlace
  <2> QED
    BY <1>0, <1>4, <2>2
<1>12. LogOK(more, p + 1, brk, un)
  BY <1>2, <1>4, <1>10, <1>11 DEF LogOK
<1> QED
  BY <1>0, <1>5, <1>6, <1>12 DEF All, Held

(* There is no memory for the line behind which a new one begins: the      *)
(* lines before it are in place without it.                                *)
LEMMA LineIsLost ==
  ASSUME NEW more, NEW p, NEW brk, NEW un, LogOK(more, p, brk, un),
         NEW text \in Texts, NEW log \in Seq(Texts), Len(more) = Len(log) + 1,
         Len(log) > 0, \A i \in 1 .. Len(log) - 1 : log[i] = more[i],
         more[Len(log)] = text, more[Len(log) + 1] = <<>>, log[Len(log)] = <<>>
  PROVE  /\ LogOK(log, p, brk, un \union Range(text))
         /\ All(more, p, un) => All(log, p, un \union Range(text))
<1> DEFINE L == Len(log)
           gone == un \union Range(text)
<1>0. /\ more \in Seq(Texts) /\ L \in Nat /\ L > 0 /\ p \in Nat /\ brk \subseteq 0 .. p
      /\ Len(more) = L + 1 /\ log # <<>>
  BY DEF LogOK
<1>1. /\ \A i \in 1 .. L : i = L \/ log[i] = more[i]
      /\ log[L] = <<>> /\ more[L] = text /\ more[L + 1] = <<>>
  BY <1>0
<1> HIDE DEF L
<1>2. ASSUME NEW x, Held(more, x, un) PROVE Held(log, x, gone)
  <2>1. CASE x \in un
    BY <2>1 DEF Held
  <2>2. CASE Found(more, x)
    <3>1. PICK j \in 1 .. L + 1 : \E m \in 1 .. Len(more[j]) : more[j][m] = x
      BY <1>0, <2>2 DEF Found
    <3>2. PICK m \in 1 .. Len(more[j]) : more[j][m] = x
      BY <3>1
    <3>3. CASE j = L + 1
      BY <1>1, <3>2, <3>3
    <3>4. CASE j = L
      <4>1. m \in DOMAIN text /\ text[m] = x
        BY <1>1, <3>2, <3>4 DEF Texts
      <4>2. x \in Range(text)
        BY <4>1 DEF Range
      <4> QED
        BY <4>2 DEF Held
    <3>5. CASE j # L /\ j # L + 1
      <4>1. j \in 1 .. L /\ log[j] = more[j]
        BY <1>0, <1>1, <3>5
      <4> QED
        BY <3>2, <4>1 DEF Held, Found, L
    <3> QED
      BY <3>3, <3>4, <3>5
  <2> QED
    BY <1>2, <2>1, <2>2 DEF Held
<1> HIDE DEF gone
<1>3. ASSUME NEW i \in 1 .. L, NEW k \in 1 .. Len(log[i]),
             log[i][1] > 0 \/ log[i][k] > 0
      PROVE  InPlace(log, i, k, p, brk, gone)
  <2>1. i # L /\ i < L
    <3>1. i # L
      BY <1>1
    <3> QED
      BY <1>0, <3>1
  <2>2. log[i] = more[i] /\ i \in 1 .. Len(more) /\ i < Len(more)
    BY <1>0, <1>1, <2>1
  <2>3. InPlace(more, i, k, p, brk, un)
    BY <1>3, <2>2 DEF LogOK
  <2> DEFINE c == log[i][k]
  <2>4. /\ log[i][1] > 0 /\ c = log[i][1] + k - 1 /\ c <= p
        /\ \A later \in c .. p : Held(more, later, un)
        /\ \A j \in i + 1 .. L + 1 : \A m \in 1 .. Len(more[j]) :
             more[j][m] = 0 \/ c < more[j][m]
        /\ k < Len(log[i]) => c \notin brk
        /\ k = Len(log[i]) => c \in brk \/ Len(log[i]) = OUT_LINE_BYTES
    BY <1>0, <2>2, <2>3 DEF InPlace
  <2> HIDE DEF c
  <2>5. ASSUME NEW j \in i + 1 .. L, NEW m \in 1 .. Len(log[j])
        PROVE  log[j][m] = 0 \/ c < log[j][m]
    <3>1. j # L
      BY <1>1
    <3>2. j \in i + 1 .. L + 1 /\ j \in 1 .. L
      BY <1>0
    <3> QED
      BY <1>1, <2>4, <3>1, <3>2
  <2> QED
    BY <1>2, <2>4, <2>5 DEF InPlace, c, L
<1>4. LogOK(log, p, brk, gone)
  BY <1>0, <1>1, <1>3 DEF LogOK, L
<1> QED
  BY <1>2, <1>4 DEF All, gone

(* More lines that found no memory leave every line in its place.          *)
LEMMA MoreLost ==
  ASSUME NEW log, NEW p, NEW brk, NEW un, NEW gone, un \subseteq gone
  PROVE  /\ LogOK(log, p, brk, un) => LogOK(log, p, brk, gone)
         /\ All(log, p, un) => All(log, p, gone)
<1>1. \A x : Held(log, x, un) => Held(log, x, gone)
  BY DEF Held
<1>2. \A i, k : InPlace(log, i, k, p, brk, un) => InPlace(log, i, k, p, brk, gone)
  BY <1>1, Zenon DEF InPlace
<1> QED
  BY <1>1, <1>2, Zenon DEF LogOK, All

-----------------------------------------------------------------------------
(* The steps.                                                              *)
LEMMA ViewStep ==
  ASSUME ViewInv, EditInv, [ConsoleNext]_console_vars
  PROVE  ViewInv'
<1> DEFINE Lines == /\ sb' \in Seq(Seq(Nat)) /\ dropped' \in Nat
                    /\ back' \in Nat /\ shown' \in Int /\ ahead' \in Nat
                    /\ ScreenMatchesView'
<1>0. Params \subseteq Nat
  BY ConsoleAssumption
<1>1. ASSUME Lines, out' \in Seq(Nat), printed' \in Nat, rows' \in Nat, params' \in Nat
      PROVE  ViewInv'
  BY <1>0, <1>1 DEF ViewInv, ViewTypes
<1>2. ASSUME UNCHANGED out_vars PROVE Lines
  BY <1>2 DEF ViewInv, ViewTypes, out_vars, ScreenMatchesView, Total
<1>3. ASSUME emit_line(echo) \/ emit_line(list) PROVE Lines
  <2>1. echo \in Seq(Nat) /\ list \in Seq(Nat)
    BY DEF echo, list
  <2> QED
    BY <1>3, <2>1, LineComesIn
<1>4. ASSUME UNCHANGED <<print_vars, rows, params>>
      PROVE  out' \in Seq(Nat) /\ printed' \in Nat /\ rows' \in Nat /\ params' \in Nat
  BY <1>4 DEF ViewInv, ViewTypes, print_vars
<1>5. CASE PrintCharacter
  <2>1. PICK newline \in BOOLEAN : console_print(newline)
    BY <1>5 DEF PrintCharacter
  <2>2. out \in Seq(Nat) /\ printed \in Nat /\ rows' \in Nat /\ params' \in Nat
    BY <1>5 DEF ViewInv, ViewTypes, PrintCharacter
  <2>3. emit_line(out) \/ UNCHANGED out_vars
    BY <2>1 DEF console_print
  <2>4. Lines
    BY <1>2, <2>2, <2>3, LineComesIn
  <2>5. CASE newline
    <3>1. out' = <<>> /\ printed' = printed
      BY <2>1, <2>5 DEF console_print
    <3> QED
      BY <1>1, <2>2, <2>4, <3>1
  <2>6. CASE ~newline
    <3>1. /\ printed' = printed + 1
          /\ out' = Append(<<>>, printed + 1) \/ out' = Append(out, printed + 1)
      BY <2>1, <2>6 DEF console_print
    <3>2. printed' \in Nat /\ out' \in Seq(Nat)
      <4>1. printed + 1 \in Nat
        BY <2>2
      <4>2. Append(<<>>, printed + 1) \in Seq(Nat) /\ Append(out, printed + 1) \in Seq(Nat)
        BY <2>2, <4>1
      <4> QED
        BY <3>1, <4>1, <4>2
    <3> QED
      BY <1>1, <2>2, <2>4, <3>2
  <2> QED
    BY <2>5, <2>6
<1>6. CASE Time
  BY <1>1, <1>2, <1>4, <1>6 DEF Time
<1>7. CASE NothingRead
  <2>1. /\ UNCHANGED <<sb, back, dropped>> /\ draw_output
        /\ UNCHANGED <<print_vars, rows, params>>
    BY <1>7 DEF NothingRead
  <2>2. Lines
    BY <2>1, DrawnAnew DEF ViewInv, ViewTypes
  <2> QED
    BY <1>1, <1>4, <2>1, <2>2
<1>8. CASE Key
  <2>1. PICK c \in IF owed THEN {"cont"} ELSE Keys : byte(c)
    BY <1>8 DEF Key
  <2>2. (c = "cont" \/ c \in Keys) /\ (owed <=> c = "cont")
    BY <2>1, ConsoleAssumption DEF EditInv
  <2>3. Lines
    BY <1>2, <1>3, <2>1, <2>2, KeyEdits
  <2> QED
    BY <1>1, <1>4, <1>8, <2>3 DEF Key
<1>9. CASE Escape
  <2>1. UNCHANGED <<out_vars, print_vars, rows>> /\ params' = 0
    BY <1>9 DEF Escape
  <2> QED
    BY <1>1, <1>2, <2>1 DEF ViewInv, ViewTypes, print_vars
<1>10. CASE Introduce
  BY <1>1, <1>2, <1>4, <1>10 DEF Introduce
<1>11. CASE Parameter
  <2>1. UNCHANGED <<out_vars, print_vars, rows>> /\ params' \in Nat
    BY <1>0, <1>11 DEF Parameter
  <2> QED
    BY <1>1, <1>2, <2>1 DEF ViewInv, ViewTypes, print_vars
<1>12. CASE Final
  <2>1. UNCHANGED print_vars /\ params' = 0
    BY <1>12 DEF Final
  <2>2. out' \in Seq(Nat) /\ printed' \in Nat /\ params' \in Nat
    BY <2>1 DEF ViewInv, ViewTypes, print_vars
  <2>3. CASE \E final \in {"A", "B", "C", "D", "H", "F", "~"} : csi(params, final)
    <3>1. PICK final : csi(params, final)
      BY <2>3
    <3>2. rows' \in Nat
      BY <3>1 DEF csi, ViewInv, ViewTypes
    <3>3. CASE UNCHANGED out_vars
      BY <1>1, <1>2, <2>2, <3>2, <3>3
    <3>4. ASSUME NEW by \in Int, page(by) PROVE Lines
      <4>1. UNCHANGED <<sb, dropped>> /\ draw_output
        BY <3>4 DEF page
      <4>2. back' \in Nat
        BY <3>4, PageStaysBack
      <4> QED
        BY <4>1, <4>2, DrawnAnew DEF ViewInv, ViewTypes
    <3>5. page_rows \in Int /\ -page_rows \in Int
      BY DEF page_rows, ViewInv, ViewTypes
    <3> QED
      BY <1>1, <2>2, <3>1, <3>2, <3>3, <3>4, <3>5, SequenceEdits
  <2>4. CASE size_answer(params)
    <3>1. CASE query = "sent" /\ params >= MIN_ROWS
      <4>1. /\ UNCHANGED <<sb, dropped>> /\ draw_output /\ back' = 0
            /\ rows' = params
        BY <2>4, <3>1 DEF size_answer
      <4>2. Lines
        BY <4>1, DrawnAnew DEF ViewInv, ViewTypes
      <4> QED
        BY <1>1, <2>2, <4>1, <4>2 DEF ViewInv, ViewTypes
    <3>2. CASE ~(query = "sent" /\ params >= MIN_ROWS)
      <4>1. UNCHANGED <<rows, out_vars>>
        BY <2>4, <3>2 DEF size_answer
      <4> QED
        BY <1>1, <1>2, <2>2, <4>1 DEF ViewInv, ViewTypes
    <3> QED
      BY <3>1, <3>2
  <2> QED
    BY <1>12, <2>3, <2>4 DEF Final
<1>13. CASE CommandEnds
  BY <1>1, <1>2, <1>4, <1>13 DEF CommandEnds
<1>14. CASE UNCHANGED console_vars
  BY <1>1, <1>2, <1>4, <1>14 DEF console_vars
<1> QED
  BY <1>5, <1>6, <1>7, <1>8, <1>9, <1>10, <1>11, <1>12, <1>13, <1>14 DEF ConsoleNext

(* A line goes to the scrollback, which may have no memory for it: those   *)
(* it makes room for are the oldest, and what is left, with what is being  *)
(* printed, is in its place.                                               *)
Goes(rest, text) ==
  \/ sb' = Append(rest, text) /\ UNCHANGED unstored
  \/ sb' = rest /\ unstored' = unstored \union Range(text)

LEMMA LineGoesOut ==
  ASSUME ViewInv, PrintInv, NEW text \in Texts, emit_line(text)
  PROVE  \E rest \in Seq(Texts) :
           /\ Goes(rest, text)
           /\ LogOK(Append(rest, out), printed, breaks, unstored)
           /\ dropped' = 0 => All(Append(rest, out), printed, unstored)
<1> DEFINE log == Append(sb, out)
<1>1. PICK n \in 0 .. Len(sb) : Kept(text) = SubSeq(sb, n + 1, Len(sb))
  BY KeepsTheNewest DEF ViewInv
<1> DEFINE rest == SubSeq(sb, n + 1, Len(sb))
           left == Append(rest, out)
<1>2. /\ sb \in Seq(Texts) /\ Len(sb) \in Nat /\ out \in Texts /\ dropped \in Nat
  BY DEF ViewInv, ViewTypes, Texts
<1>3. /\ rest \in Seq(Texts) /\ Len(rest) = Len(sb) - n
      /\ \A i \in 1 .. Len(rest) : rest[i] = sb[i + n]
  BY <1>2
<1>4. /\ log \in Seq(Texts) /\ Len(log) = Len(sb) + 1 /\ log[Len(sb) + 1] = out
      /\ \A i \in 1 .. Len(sb) : log[i] = sb[i]
  BY <1>2
<1>5. Goes(rest, text) /\ dropped' = dropped + n
  <2>1. /\ Goes(Kept(text), text)
        /\ dropped' = dropped + Len(sb) - Len(Kept(text))
    BY DEF emit_line, sb_add, Goes
  <2>2. Kept(text) = rest
    BY <1>1
  <2>3. Len(Kept(text)) = Len(sb) - n
    BY <1>3, <2>2
  <2>4. dropped' = dropped + n
    <3> HIDE DEF rest
    <3>1. dropped' = dropped + Len(sb) - (Len(sb) - n) /\ n \in Nat
      BY <2>1, <2>3
    <3> QED
      BY <1>2, <3>1
  <2> QED
    BY <2>1, <2>2, <2>4
<1> HIDE DEF rest, log
<1>6. /\ left \in Seq(Texts) /\ Len(left) = Len(log) - n
      /\ \A i \in 1 .. Len(left) : left[i] = log[i + n]
  <2>1. /\ left \in Seq(Texts) /\ Len(left) = Len(rest) + 1 /\ left[Len(rest) + 1] = out
        /\ \A i \in 1 .. Len(rest) : left[i] = rest[i]
    BY <1>2, <1>3
  <2> HIDE DEF left
  <2>2. ASSUME NEW i \in 1 .. Len(left) PROVE left[i] = log[i + n]
    <3>1. CASE i = Len(rest) + 1
      <4>1. i + n = Len(sb) + 1
        BY <1>2, <1>3, <3>1
      <4> QED
        BY <1>4, <2>1, <3>1, <4>1
    <3>2. CASE i # Len(rest) + 1
      <4>1. i \in 1 .. Len(rest) /\ i + n \in 1 .. Len(sb)
        BY <1>2, <1>3, <2>1, <3>2
      <4> QED
        BY <1>3, <1>4, <2>1, <4>1
    <3> QED
      BY <3>1, <3>2
  <2> QED
    BY <1>2, <1>3, <1>4, <2>1, <2>2
<1>7. n \in 0 .. Len(log) - 1
  BY <1>2, <1>4
<1>8. LogOK(log, printed, breaks, unstored) /\ (dropped = 0 => All(log, printed, unstored))
  BY DEF PrintInv, log
<1>9. LogOK(left, printed, breaks, unstored)
  <2> HIDE DEF left
  <2> QED
    BY <1>6, <1>7, <1>8, OldestGo
<1>10. ASSUME dropped' = 0 PROVE All(left, printed, unstored)
  <2>1. n = 0 /\ dropped = 0
    BY <1>2, <1>5, <1>10
  <2>2. rest = sb
    BY <1>2, <2>1, SubSeqFull DEF rest
  <2> QED
    BY <1>8, <2>1, <2>2 DEF log
<1> QED
  BY <1>3, <1>5, <1>9, <1>10

LEMMA PrintStep ==
  ASSUME ViewInv, EditInv, PrintInv, [ConsoleNext]_console_vars
  PROVE  PrintInv'
<1>0. /\ sb \in Seq(Texts) /\ Len(sb) \in Nat /\ out \in Texts /\ dropped \in Nat
      /\ printed \in Nat
  BY DEF ViewInv, ViewTypes, Texts
<1>1. ASSUME UNCHANGED <<sb, dropped, unstored, print_vars>> PROVE PrintInv'
  BY <1>1 DEF PrintInv, print_vars
<1>2. ASSUME emit_line(echo) \/ emit_line(list), UNCHANGED print_vars
      PROVE  PrintInv'
  <2>1. PICK own \in Texts : emit_line(own) /\ \A k \in 1 .. Len(own) : own[k] = 0
    <3>1. echo \in Texts /\ \A k \in 1 .. Len(echo) : echo[k] = 0
      BY DEF echo, Texts
    <3>2. list \in Texts /\ \A k \in 1 .. Len(list) : list[k] = 0
      BY DEF list, Texts
    <3> QED
      BY <1>2, <3>1, <3>2
  <2>2. PICK rest \in Seq(Texts) :
           /\ Goes(rest, own)
           /\ LogOK(Append(rest, out), printed, breaks, unstored)
           /\ dropped' = 0 => All(Append(rest, out), printed, unstored)
    BY <2>1, LineGoesOut
  <2> DEFINE log == Append(rest, out)
             more == Append(Append(rest, own), out)
  <2>3. /\ log \in Seq(Texts) /\ Len(log) = Len(rest) + 1 /\ Len(rest) \in Nat
        /\ log[Len(rest) + 1] = out /\ \A i \in 1 .. Len(rest) : log[i] = rest[i]
    BY <1>0
  <2>4. Append(rest, own) \in Seq(Texts) /\ Len(Append(rest, own)) = Len(rest) + 1
        /\ Append(rest, own)[Len(rest) + 1] = own
        /\ \A i \in 1 .. Len(rest) : Append(rest, own)[i] = rest[i]
    OBVIOUS
  <2>5. /\ more \in Seq(Texts) /\ Len(more) = Len(rest) + 2
        /\ more[Len(rest) + 2] = out /\ more[Len(rest) + 1] = own
        /\ \A i \in 1 .. Len(rest) : more[i] = rest[i]
    BY <1>0, <2>3, <2>4
  <2> HIDE DEF log, more
  <2>6. /\ Len(more) = Len(log) + 1 /\ \A i \in 1 .. Len(log) - 1 : more[i] = log[i]
        /\ more[Len(log)] = own /\ more[Len(log) + 1] = log[Len(log)]
    BY <2>3, <2>5
  <2>7. LogOK(log, printed, breaks, unstored)
    BY <2>2 DEF log
  <2>8. LogOK(more, printed, breaks, unstored)
        /\ (All(log, printed, unstored) => All(more, printed, unstored))
    BY <2>1, <2>5, <2>6, <2>7, OwnLineComes
  <2>9. printed' = printed /\ breaks' = breaks /\ out' = out
    BY <1>2 DEF print_vars
  <2>10. CASE sb' = Append(rest, own) /\ UNCHANGED unstored
    <3>1. Append(sb', out') = more
      BY <2>9, <2>10 DEF more
    <3> QED
      BY <2>2, <2>8, <2>9, <2>10, <3>1 DEF PrintInv, log
  <2>11. CASE sb' = rest /\ unstored' = unstored \union Range(own)
    <3>1. Append(sb', out') = log /\ unstored \subseteq unstored'
      BY <2>9, <2>11 DEF log
    <3>2. /\ LogOK(log, printed, breaks, unstored')
          /\ All(log, printed, unstored) => All(log, printed, unstored')
      BY <2>7, <3>1, MoreLost
    <3> QED
      BY <2>2, <2>9, <3>1, <3>2 DEF PrintInv, log
  <2> QED
    BY <2>2, <2>10, <2>11 DEF Goes
<1>3. CASE PrintCharacter
  <2>1. PICK newline \in BOOLEAN : console_print(newline)
    BY <1>3 DEF PrintCharacter
  <2>2. CASE newline \/ Len(out) = OUT_LINE_BYTES
    <3>1. emit_line(out)
      BY <2>1, <2>2 DEF console_print
    <3>2. PICK rest \in Seq(Texts) :
             /\ Goes(rest, out)
             /\ LogOK(Append(rest, out), printed, breaks, unstored)
             /\ dropped' = 0 => All(Append(rest, out), printed, unstored)
      BY <1>0, <3>1, LineGoesOut
    <3>3. sb' \in Seq(Texts) /\ Len(sb') \in Nat
      BY <1>0, <3>2 DEF Goes
    <3>6. ASSUME NEW brk2,
                 brk2 = breaks \union {printed} \/ (brk2 = breaks /\ Len(out) = OUT_LINE_BYTES)
          PROVE  /\ LogOK(Append(sb', <<>>), printed, brk2, unstored')
                 /\ dropped' = 0 => All(Append(sb', <<>>), printed, unstored')
      <4> DEFINE base == Append(rest, out)
                 more == Append(base, <<>>)
                 log  == Append(rest, <<>>)
      <4>0. <<>> \in Texts
        BY DEF Texts
      <4>1. /\ base \in Seq(Texts) /\ Len(base) = Len(rest) + 1 /\ Len(rest) \in Nat
            /\ base[Len(rest) + 1] = out /\ \A i \in 1 .. Len(rest) : base[i] = rest[i]
        BY <1>0
      <4>2. /\ log \in Seq(Texts) /\ Len(log) = Len(rest) + 1 /\ log[Len(rest) + 1] = <<>>
            /\ \A i \in 1 .. Len(rest) : log[i] = rest[i]
        BY <4>0
      <4>3. LogOK(base, printed, breaks, unstored)
            /\ (dropped' = 0 => All(base, printed, unstored))
        BY <3>2
      <4> HIDE DEF base
      <4>4. /\ Len(more) = Len(base) + 1 /\ more[Len(base) + 1] = <<>>
            /\ \A i \in 1 .. Len(base) : more[i] = base[i]
        BY <4>0, <4>1
      <4>5. base[Len(base)] = out
        BY <4>1
      <4>6. /\ LogOK(more, printed, brk2, unstored)
            /\ dropped' = 0 => All(more, printed, unstored)
        BY <3>6, <4>3, <4>5, LineEnds
      <4>7. CASE sb' = Append(rest, out) /\ UNCHANGED unstored
        BY <4>6, <4>7 DEF base
      <4>8. CASE sb' = rest /\ unstored' = unstored \union Range(out)
        <5>1. /\ Len(more) = Len(log) + 1 /\ Len(log) > 0
              /\ \A i \in 1 .. Len(log) - 1 : log[i] = more[i]
              /\ more[Len(log)] = out /\ more[Len(log) + 1] = <<>> /\ log[Len(log)] = <<>>
          <6> HIDE DEF more, log
          <6> QED
            BY <4>1, <4>2, <4>4
        <5> HIDE DEF more, log
        <5>2. /\ LogOK(log, printed, brk2, unstored')
              /\ All(more, printed, unstored) => All(log, printed, unstored')
          BY <1>0, <4>2, <4>6, <4>8, <5>1, LineIsLost
        <5> QED
          BY <4>6, <4>8, <5>2 DEF log
      <4> QED
        BY <3>2, <4>7, <4>8 DEF Goes
    <3>4. CASE newline
      <4>1. out' = <<>> /\ breaks' = breaks \union {printed} /\ printed' = printed
        BY <2>1, <3>4 DEF console_print
      <4> QED
        BY <3>4, <3>6, <4>1 DEF PrintInv
    <3>5. CASE ~newline
      <4>1. /\ out' = Append(<<>>, printed + 1) /\ breaks' = breaks
            /\ printed' = printed + 1
        BY <2>1, <2>2, <3>5 DEF console_print
      <4> DEFINE log == Append(sb', <<>>)
                 more == Append(sb', Append(<<>>, printed + 1))
      <4>3. LogOK(log, printed, breaks, unstored')
            /\ (dropped' = 0 => All(log, printed, unstored'))
        BY <2>2, <3>5, <3>6
      <4>4. <<>> \in Texts /\ Append(<<>>, printed + 1) \in Texts
        BY <1>0 DEF Texts
      <4>5. /\ more \in Seq(Texts) /\ Len(more) = Len(log)
            /\ \A i \in 1 .. Len(log) - 1 : more[i] = log[i]
            /\ more[Len(log)] = Append(log[Len(log)], printed + 1)
        <5> DEFINE next == Append(<<>>, printed + 1)
        <5>1. /\ log \in Seq(Texts) /\ Len(log) = Len(sb') + 1 /\ log[Len(sb') + 1] = <<>>
              /\ \A i \in 1 .. Len(sb') : log[i] = sb'[i]
          BY <3>3, <4>4
        <5> HIDE DEF log, next
        <5>2. /\ Append(sb', next) \in Seq(Texts) /\ Len(Append(sb', next)) = Len(sb') + 1
              /\ Append(sb', next)[Len(sb') + 1] = next
              /\ \A i \in 1 .. Len(sb') : Append(sb', next)[i] = sb'[i]
          BY <3>3, <4>4 DEF next
        <5>3. more = Append(sb', next) /\ Len(sb') \in Nat
          BY <3>3 DEF next
        <5>4. next = Append(log[Len(log)], printed + 1)
          BY <5>1 DEF next
        <5> HIDE DEF more
        <5>5. more \in Seq(Texts) /\ Len(more) = Len(log)
          BY <5>1, <5>2, <5>3
        <5>6. \A i \in 1 .. Len(log) - 1 : more[i] = log[i]
          <6>1. \A i \in 1 .. Len(log) - 1 : i \in 1 .. Len(sb')
            BY <5>1, <5>3
          <6> QED
            BY <5>1, <5>2, <5>3, <6>1
        <5>7. more[Len(log)] = Append(log[Len(log)], printed + 1)
          BY <5>1, <5>2, <5>3, <5>4
        <5> QED
          BY <5>5, <5>6, <5>7
      <4> HIDE DEF log, more
      <4>6. LogOK(more, printed + 1, breaks, unstored')
            /\ (All(log, printed, unstored') => All(more, printed + 1, unstored'))
        BY <4>3, <4>5, CharacterComes
      <4> QED
        BY <4>1, <4>3, <4>6 DEF PrintInv, more
    <3> QED
      BY <3>4, <3>5
  <2>3. CASE ~newline /\ Len(out) # OUT_LINE_BYTES
    <3>1. /\ UNCHANGED out_vars /\ out' = Append(out, printed + 1)
          /\ breaks' = breaks /\ printed' = printed + 1
      BY <2>1, <2>3 DEF console_print
    <3> DEFINE log == Append(sb, out)
               more == Append(sb, Append(out, printed + 1))
    <3>2. Append(out, printed + 1) \in Texts
      BY <1>0 DEF Texts
    <3>3. /\ more \in Seq(Texts) /\ Len(more) = Len(log)
          /\ \A i \in 1 .. Len(log) - 1 : more[i] = log[i]
          /\ more[Len(log)] = Append(log[Len(log)], printed + 1)
      BY <1>0, <3>2
    <3>4. LogOK(log, printed, breaks, unstored)
          /\ (dropped = 0 => All(log, printed, unstored))
      BY DEF PrintInv
    <3> HIDE DEF log, more
    <3>5. LogOK(more, printed + 1, breaks, unstored)
          /\ (All(log, printed, unstored) => All(more, printed + 1, unstored))
      BY <3>3, <3>4, CharacterComes
    <3>6. sb' = sb /\ dropped' = dropped /\ unstored' = unstored
      BY <3>1 DEF out_vars
    <3> QED
      BY <3>1, <3>4, <3>5, <3>6 DEF PrintInv, more
  <2> QED
    BY <2>2, <2>3
<1>4. CASE Time \/ NothingRead \/ Escape \/ Introduce \/ Parameter
           \/ CommandEnds
  BY <1>1, <1>4
  DEF Time, NothingRead, Escape, Introduce, Parameter,
      CommandEnds, out_vars
<1>5. CASE Key
  <2>1. PICK c \in IF owed THEN {"cont"} ELSE Keys : byte(c)
    BY <1>5 DEF Key
  <2>2. (c = "cont" \/ c \in Keys) /\ (owed <=> c = "cont")
    BY <2>1, ConsoleAssumption DEF EditInv
  <2>3. \/ emit_line(list) \/ emit_line(echo)
        \/ UNCHANGED out_vars
    BY <2>1, <2>2, KeyEdits
  <2>4. UNCHANGED print_vars
    BY <1>5 DEF Key
  <2> QED
    BY <1>1, <1>2, <2>3, <2>4 DEF out_vars
<1>6. CASE Final
  <2>1. UNCHANGED print_vars
    BY <1>6 DEF Final
  <2>2. CASE \E final \in {"A", "B", "C", "D", "H", "F", "~"} : csi(params, final)
    <3>1. PICK final : csi(params, final)
      BY <2>2
    <3>2. UNCHANGED <<sb, dropped, unstored>>
      BY <3>1, SequenceEdits DEF out_vars, page
    <3> QED
      BY <1>1, <2>1, <3>2
  <2>3. CASE size_answer(params)
    <3>1. UNCHANGED <<sb, dropped, unstored>>
      BY <2>3 DEF size_answer, out_vars
    <3> QED
      BY <1>1, <2>1, <3>1
  <2> QED
    BY <1>6, <2>2, <2>3 DEF Final
<1>7. CASE UNCHANGED console_vars
  BY <1>1, <1>7 DEF console_vars, out_vars
<1> QED
  BY <1>3, <1>4, <1>5, <1>6, <1>7 DEF ConsoleNext

LEMMA EditStep ==
  ASSUME EditInv, [ConsoleNext]_console_vars
  PROVE  EditInv'
<1>0. /\ Line(line) /\ Between(line, pos)
      /\ hist \in Seq(Seq(Chars)) /\ \A k \in 1 .. Len(hist) : Line(hist[k])
      /\ hist_at \in 0 .. Len(hist) /\ owed \in BOOLEAN
  BY DEF EditInv
<1>1. ASSUME UNCHANGED <<edit_vars, state, owed>> PROVE EditInv'
  BY <1>1 DEF EditInv, Line, Between, edit_vars
<1>2. ASSUME Line(line'), Between(line', pos'), hist' \in Seq(Seq(Chars)),
             \A k \in 1 .. Len(hist') : Line(hist'[k]), hist_at' \in 0 .. Len(hist'),
             owed' \in BOOLEAN,
             owed' => state' = "NORMAL" /\ (pos' > 0 \/ Len(line') + 1 >= LINE_MAX_BYTES)
      PROVE  EditInv'
  BY <1>0, <1>2 DEF EditInv, Line, Between
<1>3. ASSUME UNCHANGED <<edit_vars, owed>>, ~owed PROVE EditInv'
  BY <1>0, <1>2, <1>3 DEF edit_vars
<1>4. CASE Key
  <2>1. PICK c \in IF owed THEN {"cont"} ELSE Keys : byte(c) /\ owed' = (c = "lead")
    BY <1>4 DEF Key
  <2>2. (c = "cont" \/ c \in Keys) /\ (owed <=> c = "cont")
    BY <1>0, <2>1, ConsoleAssumption
  <2>3. UNCHANGED state /\ state = "NORMAL"
    BY <1>4 DEF Key
  <2> QED
    BY <1>2, <2>1, <2>2, <2>3, KeyEdits
<1>5. CASE Final
  <2>1. ~owed /\ UNCHANGED owed
    BY <1>5 DEF Final, EditInv
  <2>2. CASE \E final \in {"A", "B", "C", "D", "H", "F", "~"} : csi(params, final)
    <3>1. PICK final : csi(params, final)
      BY <2>2
    <3>2. /\ Line(line') /\ Between(line', pos')
          /\ UNCHANGED hist /\ hist_at' \in 0 .. Len(hist)
      BY <3>1, SequenceEdits
    <3> QED
      BY <1>0, <1>2, <2>1, <3>2
  <2>3. CASE UNCHANGED edit_vars
    BY <1>3, <2>1, <2>3
  <2> QED
    BY <1>5, <2>2, <2>3 DEF Final
<1>6. CASE PrintCharacter \/ Time \/ NothingRead \/ CommandEnds
  BY <1>1, <1>6 DEF PrintCharacter, Time, NothingRead, CommandEnds
<1>7. CASE Escape \/ Introduce \/ Parameter
  <2>1. ~owed
    BY <1>7 DEF Escape, Introduce, Parameter, EditInv
  <2> QED
    BY <1>3, <1>7, <2>1 DEF Escape, Introduce, Parameter
<1>8. CASE UNCHANGED console_vars
  BY <1>1, <1>8 DEF console_vars
<1> QED
  BY <1>4, <1>5, <1>6, <1>7, <1>8 DEF ConsoleNext

LEMMA ConsoleHolds == ConsoleSpec => [](ViewInv /\ EditInv /\ PrintInv)
<1>1. ConsoleInit => ViewInv /\ EditInv /\ PrintInv
  <2> SUFFICES ASSUME ConsoleInit PROVE ViewInv /\ EditInv /\ PrintInv
    OBVIOUS
  <2>1. ROWS \in Nat /\ LINE_MAX_BYTES \in Nat /\ LINE_MAX_BYTES > 0
    BY ConsoleAssumption
  <2>2. ViewInv
    BY <2>1 DEF ConsoleInit, ViewInv, ViewTypes, ScreenMatchesView, Total
  <2>3. <<>> \in Seq(Chars) /\ <<>> \in Seq(Seq(Chars)) /\ Len(<<>>) = 0
    OBVIOUS
  <2>4. Line(line) /\ Between(line, pos)
    BY <2>1, <2>3 DEF ConsoleInit, Line, Between
  <2>5. /\ hist \in Seq(Seq(Chars)) /\ \A k \in 1 .. Len(hist) : Line(hist[k])
        /\ hist_at \in 0 .. Len(hist)
    BY <2>3 DEF ConsoleInit
  <2>6. EditInv
    BY <2>4, <2>5 DEF ConsoleInit, EditInv
  <2> DEFINE log == Append(sb, out)
  <2>7. log \in Seq(Texts) /\ Len(log) = 1 /\ log[1] = <<>>
    BY DEF ConsoleInit, Texts
  <2>8. printed = 0 /\ breaks = {}
    BY DEF ConsoleInit
  <2> HIDE DEF log
  <2>9. LogOK(log, printed, breaks, unstored) /\ All(log, printed, unstored)
    BY <2>7, <2>8 DEF LogOK, All
  <2> QED
    BY <2>2, <2>6, <2>9 DEF PrintInv, log
<1>2. ViewInv /\ EditInv /\ PrintInv /\ [ConsoleNext]_console_vars => (ViewInv /\ EditInv /\ PrintInv)'
  BY ViewStep, EditStep, PrintStep
<1> QED
  BY <1>1, <1>2, PTL DEF ConsoleSpec

(* The cursor is never inside a character and the line never longer than   *)
(* its buffer, whatever is typed, recalled, deleted and completed, for any *)
(* commands whose texts begin with a character.                            *)
THEOREM CursorBetweenCharacters == ConsoleSpec => []CursorNeverInsideCharacter
<1>1. EditInv => CursorNeverInsideCharacter
  BY DEF EditInv, Line, Between, CursorNeverInsideCharacter
<1> QED
  BY <1>1, ConsoleHolds, PTL

(* The screen shows the lines the console takes it to, however the view is *)
(* scrolled, lines come in and the scrollback drops them or has no memory  *)
(* for them, for any sizes.                                                *)
THEOREM ScreenIsTheView == ConsoleSpec => []ScreenMatchesView
<1>1. ViewInv => ScreenMatchesView
  BY DEF ViewInv
<1> QED
  BY <1>1, ConsoleHolds, PTL

(* The lines are the characters printed, in order and none lost but with   *)
(* the oldest lines or a line there was no memory for, however lines of    *)
(* the console's own come between, for any sizes of lines and scrollback.  *)
THEOREM LinesAreWhatWasPrinted == ConsoleSpec => []LinesAsPrinted
<1>1. ViewInv /\ PrintInv => LinesAsPrinted
  <2> SUFFICES ASSUME ViewInv, PrintInv PROVE LinesAsPrinted
    OBVIOUS
  <2> DEFINE log == Append(sb, out)
  <2>1. log \in Seq(Seq(Nat)) /\ LogOK(log, printed, breaks, unstored)
        /\ (dropped = 0 => All(log, printed, unstored))
    BY DEF ViewInv, ViewTypes, PrintInv
  <2> HIDE DEF log
  <2>2. DOMAIN log = 1 .. Len(log) /\ \A i \in 1 .. Len(log) : DOMAIN log[i] = 1 .. Len(log[i])
    BY <2>1
  <2>3. \A i \in 1 .. Len(log) : \A k \in 1 .. Len(log[i]) :
          log[i][1] > 0 \/ log[i][k] > 0 => InPlace(log, i, k, printed, breaks, unstored)
    BY <2>1 DEF LogOK
  <2>4. \A c : Held(log, c, unstored) <=>
                 \/ c \in unstored
                 \/ \E i \in DOMAIN log : \E k \in DOMAIN log[i] : log[i][k] = c
    BY <2>2 DEF Held, Found
  <2>5. ASSUME NEW i \in DOMAIN log, NEW k \in DOMAIN log[i],
               log[i][1] > 0 \/ log[i][k] > 0
        PROVE  /\ log[i][1] > 0 /\ log[i][k] = log[i][1] + k - 1 /\ log[i][k] <= printed
               /\ \A later \in log[i][k] .. printed : Held(log, later, unstored)
               /\ \A j \in i + 1 .. Len(log) : \A m \in DOMAIN log[j] :
                    log[j][m] = 0 \/ log[i][k] < log[j][m]
               /\ k < Len(log[i]) => log[i][k] \notin breaks
               /\ k = Len(log[i]) /\ i < Len(log) =>
                    log[i][k] \in breaks \/ Len(log[i]) = OUT_LINE_BYTES
    <3>1. i \in 1 .. Len(log) /\ k \in 1 .. Len(log[i])
      BY <2>2
    <3>2. InPlace(log, i, k, printed, breaks, unstored)
      BY <2>3, <2>5, <3>1
    <3>3. \A j \in i + 1 .. Len(log) : DOMAIN log[j] = 1 .. Len(log[j])
      <4>1. \A j \in i + 1 .. Len(log) : j \in 1 .. Len(log)
        BY <3>1
      <4> QED
        BY <2>2, <4>1
    <3> QED
      BY <3>2, <3>3 DEF InPlace
  <2>6. dropped = 0 => \A c \in 1 .. printed : Held(log, c, unstored)
    BY <2>1 DEF All
  <2> QED
    BY <2>4, <2>5, <2>6 DEF LinesAsPrinted, log
<1> QED
  BY <1>1, ConsoleHolds, PTL
=============================================================================
