-------------------------- MODULE EngineBootProofs --------------------------
(***************************************************************************)
(* The link's users and what the chip gets of them, for every register set,*)
(* queue depth, number of attempts and of losses.                          *)
(*                                                                         *)
(* First, who is on the link (LinkInv): the tick and the voice task hold   *)
(* the lock for as long as their transaction lasts and run only once the   *)
(* boot has released the processor; the main task is on the link with a    *)
(* transaction at the head of its script, and holds the lock if that one   *)
(* takes it.                                                               *)
(*                                                                         *)
(* Then, what the chip holds at each step of the main task's script        *)
(* (EngineInv).  The boot is in one of four stretches - to the end of the  *)
(* self-test (BootTests), the clearing (BootClears), the load (BootLoads), *)
(* the image (BootSends) - and the console at some step of one of its      *)
(* commands (RunInv): one that neither pauses the tick for good nor loads a*)
(* program of the firmware's own (RunsQuietly: a lab's rows, ROM, words and*)
(* release are such), the self-test (RunsTest) or a hold (RunsHold).       *)
(***************************************************************************)
EXTENDS EngineBoot, SequenceTheorems, FiniteSetTheorems, WellFoundedInduction, TLAPS
LockTypes ==
  /\ lock \in {"free", "main", "tick", "voice"}
  /\ bus \subseteq {"main", "tick", "voice"}

(* On the link is who is between the two steps of a transaction.           *)
InTransaction ==
  /\ "tick" \in bus <=> tick # "idle"
  /\ "voice" \in bus <=> voice # "idle"
  /\ "main" \in bus => script # <<>> /\ next.op \in OnBus

TasksLock ==
  /\ "tick" \in bus <=> lock = "tick"
  /\ "voice" \in bus <=> lock = "voice"
  /\ "main" \in bus => (next.locked <=> lock = "main")
  /\ lock = "main" => "main" \in bus

OnlyOnceRunning ==
  /\ running \in BOOLEAN
  /\ "tick" \in bus \/ "voice" \in bus => running

LinkInv == LockTypes /\ InTransaction /\ TasksLock /\ OnlyOnceRunning

-----------------------------------------------------------------------------
(* No task is on the link before the boot.                                 *)
LEMMA InitLink == Init => LinkInv
BY DEF Init, LinkInv, LockTypes, InTransaction, TasksLock, OnlyOnceRunning

(* The steps that leave the link, its lock and the head of the script.     *)
LEMMA LinkKept ==
  LinkInv /\ UNCHANGED <<lock, bus, script, tick, voice, running>> => LinkInv'
BY DEF LinkInv, LockTypes, InTransaction, TasksLock, OnlyOnceRunning, next

(* Steps of a main task that is off the link: its script changes.          *)
LEMMA ScriptMoves ==
  LinkInv /\ "main" \notin bus /\ UNCHANGED <<lock, bus, tick, voice, running>>
    => LinkInv'
BY DEF LinkInv, LockTypes, InTransaction, TasksLock, OnlyOnceRunning

LEMMA MainStep == LinkInv /\ MainTask => LinkInv'
<1> SUFFICES ASSUME LinkInv, MainTask PROVE LinkInv'
  OBVIOUS
<1>1. CASE MainBegins
  BY <1>1 DEF MainBegins, LinkInv, LockTypes, InTransaction, TasksLock,
              OnlyOnceRunning, link, next
<1>2. CASE MainEnds
  <2>1. /\ bus' = bus \ {"main"} /\ lock' = IF lock = "main" THEN "free" ELSE lock
        /\ UNCHANGED <<tick, voice>>
    BY <1>2 DEF MainEnds, Leaves, MainRest
  <2>2. running' = running \/ running' = TRUE
    BY <1>2 DEF MainEnds, QueuesOne, ClearsOne, SendsHeld, link
  <2> QED
    BY <2>1, <2>2 DEF LinkInv, LockTypes, InTransaction, TasksLock, OnlyOnceRunning
<1>3. ASSUME next.op \notin OnBus PROVE "main" \notin bus
  BY <1>3 DEF LinkInv, InTransaction
<1>4. CASE MainWaits
  BY <1>3, <1>4, ScriptMoves DEF MainWaits, OnBus, link
<1>5. CASE MainPauses
  BY <1>3, <1>5, ScriptMoves DEF MainPauses, OnBus
<1>6. CASE MainSetsUp
  BY <1>3, <1>6, ScriptMoves DEF MainSetsUp, OnBus
<1>7. CASE MainResends
  BY <1>3, <1>7, ScriptMoves DEF MainResends, OnBus
<1>8. CASE MainWrites
  BY <1>3, <1>8, ScriptMoves DEF MainWrites, OnBus
<1>9. CASE MainVerifies
  BY <1>3, <1>9, ScriptMoves DEF MainVerifies, OnBus
<1>10. CASE Console
  <2>1. "main" \notin bus
    BY <1>10 DEF Console, LinkInv, InTransaction
  <2> QED
    BY <1>10, <2>1, ScriptMoves DEF Console, link
<1> QED
  BY <1>1, <1>2, <1>4, <1>5, <1>6, <1>7, <1>8, <1>9, <1>10 DEF MainTask

LEMMA TickStep == LinkInv /\ engine_task => LinkInv'
<1> SUFFICES ASSUME LinkInv, engine_task PROVE LinkInv'
  OBVIOUS
<1> USE DEF LinkInv, LockTypes, InTransaction, TasksLock, OnlyOnceRunning
<1>1. CASE TickBegins
  BY <1>1 DEF TickBegins, link, next
<1>2. CASE TickEnds
  <2>1. /\ tick # "idle" /\ tick' = "idle" /\ UNCHANGED <<script, voice>>
        /\ bus' = bus \ {"tick"} /\ lock' = IF lock = "tick" THEN "free" ELSE lock
    BY <1>2 DEF TickEnds, Leaves
  <2>2. running' = running
    BY <1>2 DEF TickEnds, check_gateware_health, link
  <2> QED
    BY <2>1, <2>2 DEF next
<1> QED
  BY <1>1, <1>2 DEF engine_task

LEMMA VoiceStep == LinkInv /\ VoiceTask => LinkInv'
<1> SUFFICES ASSUME LinkInv, VoiceTask PROVE LinkInv'
  OBVIOUS
<1>1. CASE VoiceBegins
  BY <1>1 DEF VoiceBegins, LinkInv, LockTypes, InTransaction, TasksLock,
              OnlyOnceRunning, link, next
<1>2. CASE VoiceEnds
  <2>1. /\ voice # "idle" /\ voice' = "idle" /\ UNCHANGED <<script, tick, running>>
        /\ bus' = bus \ {"voice"} /\ lock' = IF lock = "voice" THEN "free" ELSE lock
    BY <1>2 DEF VoiceEnds, Leaves, link
  <2> QED
    BY <2>1 DEF LinkInv, LockTypes, InTransaction, TasksLock, OnlyOnceRunning, next
<1>3. CASE VoiceWrites
  BY <1>3, LinkKept DEF VoiceWrites, tasks
<1> QED
  BY <1>1, <1>2, <1>3 DEF VoiceTask

LEMMA LinkStep == LinkInv /\ [Next]_vars => LinkInv'
<1> SUFFICES ASSUME LinkInv, [Next]_vars PROVE LinkInv'
  OBVIOUS
<1>1. CASE Pass
  BY <1>1, LinkKept DEF Pass, link, tasks
<1>2. CASE Restart
  BY <1>2 DEF Restart, LinkInv, LockTypes, InTransaction, TasksLock, OnlyOnceRunning
<1>3. CASE UNCHANGED vars
  BY <1>3, LinkKept DEF vars, link, tasks
<1> QED
  BY <1>1, <1>2, <1>3, MainStep, TickStep, VoiceStep DEF Next

-----------------------------------------------------------------------------
(* Two at once are the main task, out of the lock, and one other that holds*)
(* it: the tick and the voice task cannot both.                            *)
LEMMA LinkInvExcludes == LinkInv => OneTransaction
<1> SUFFICES ASSUME LinkInv, Cardinality(bus) > 1
             PROVE  running /\ script # <<>> /\ ~next.locked
  BY DEF OneTransaction
<1>1. ASSUME NEW t, bus \in SUBSET {t} PROVE FALSE
  <2>1. IsFiniteSet({t}) /\ Cardinality({t}) = 1
    BY FS_Singleton
  <2>2. IsFiniteSet(bus) /\ Cardinality(bus) <= Cardinality({t})
    BY ONLY <1>1, <2>1, FS_Subset
  <2>3. Cardinality(bus) \in Nat
    BY <2>2, FS_CardinalityType
  <2> QED
    BY <2>1, <2>2, <2>3
<1> USE DEF LinkInv, LockTypes, InTransaction, TasksLock, OnlyOnceRunning
<1>2. "main" \in bus
  <2>1. ASSUME "main" \notin bus PROVE bus \in SUBSET {"tick"} \/ bus \in SUBSET {"voice"}
    BY <2>1
  <2> QED
    BY <2>1, <1>1
<1>3. "tick" \in bus \/ "voice" \in bus
  <2>1. ASSUME "tick" \notin bus, "voice" \notin bus PROVE bus \in SUBSET {"main"}
    BY <2>1
  <2> QED
    BY <2>1, <1>1
<1> QED
  BY <1>2, <1>3

(* The link has one user at a time (engine_link.cpp's mutex, taken for each*)
(* transaction), but while the console runs the self-test, whose calls go  *)
(* past the lock (engine_link.cpp:531).                                    *)
THEOREM OneOnTheLink == Spec => []OneTransaction
<1>1. LinkInv /\ [Next]_vars => LinkInv'
  BY LinkStep
<1> QED
  BY InitLink, <1>1, LinkInvExcludes, PTL DEF Spec

-----------------------------------------------------------------------------
(***************************************************************************)
(* Scripts: what is left of one, and the steps of the boot and of each     *)
(* command.                                                                *)
(***************************************************************************)
(* Steps that load nothing but a lab's, and take the hold off by "free" only.*)
Quiet(step) ==
  /\ step.op \in {"ctrl", "free", "queue", "rows", "rom", "touch", "wait", "pause",
                  "write", "resend"}
  /\ step.op = "ctrl" => "hold" \in step.arg
  /\ step.op = "queue" => step.arg = <<Counter, "lab">>
  /\ step.op \in {"rows", "rom"} => step.arg = "lab"

(* A transaction that holds the processor, from one end to the other.      *)
LockedHold(step) == step.op = "ctrl" /\ "hold" \in step.arg /\ step.locked

QuietFrom(full, k) ==
  \A i \in k .. Len(full) :
    /\ Quiet(full[i])
    /\ full[i].op = "pause" => i < Len(full) /\ LockedHold(full[i + 1])

Suffix(full, k) == SubSeq(full, k, Len(full))
LEMMA SuffixStep ==
  ASSUME NEW S, NEW full \in Seq(S), NEW k \in 1 .. Len(full) + 1
  PROVE  /\ Suffix(full, k) \in Seq(S) /\ Len(Suffix(full, k)) = Len(full) + 1 - k
         /\ (k = Len(full) + 1 <=> Suffix(full, k) = <<>>)
         /\ k <= Len(full) => /\ Head(Suffix(full, k)) = full[k]
                              /\ Tail(Suffix(full, k)) = Suffix(full, k + 1)
<1>1. /\ Suffix(full, k) \in Seq(S) /\ Len(Suffix(full, k)) = Len(full) + 1 - k
      /\ \A i \in 1 .. Len(full) + 1 - k : Suffix(full, k)[i] = full[k + i - 1]
  BY SubSeqProperties DEF Suffix
<1>2. k = Len(full) + 1 <=> Suffix(full, k) = <<>>
  BY <1>1, EmptySeq
<1>3. ASSUME k <= Len(full)
      PROVE  /\ Head(Suffix(full, k)) = full[k]
             /\ Tail(Suffix(full, k)) = Suffix(full, k + 1)
  <2>1. Suffix(full, k) # <<>>
    BY <1>2, <1>3
  <2>2. Head(Suffix(full, k)) = full[k]
    BY <1>1, <1>3, <2>1
  <2>3. /\ Suffix(full, k + 1) \in Seq(S) /\ Len(Suffix(full, k + 1)) = Len(full) - k
        /\ \A i \in 1 .. Len(full) - k : Suffix(full, k + 1)[i] = full[k + i]
    BY <1>3, SubSeqProperties DEF Suffix
  <2>4. /\ Tail(Suffix(full, k)) \in Seq(S) /\ Len(Tail(Suffix(full, k))) = Len(full) - k
        /\ \A i \in 1 .. Len(full) - k : Tail(Suffix(full, k))[i] = full[k + i]
    BY <1>1, <1>3, <2>1
  <2>5. Tail(Suffix(full, k)) = Suffix(full, k + 1)
    <3> DEFINE a == Tail(Suffix(full, k))
               b == Suffix(full, k + 1)
    <3>1. /\ a \in Seq(S) /\ b \in Seq(S) /\ Len(a) = Len(b)
          /\ \A i \in 1 .. Len(a) : a[i] = b[i]
      BY <2>3, <2>4
    <3> HIDE DEF a, b
    <3>2. a = b
      BY <3>1, SeqEqual
    <3> QED
      BY <3>2 DEF a, b
  <2> QED
    BY <2>2, <2>5
<1> QED
  BY <1>1, <1>2, <1>3

Args ==
  {0, "none", "control", "test", "lab", <<Counter, "zero">>, <<Counter, "lab">>,
   [left |-> Regs, since_commit |-> 0]}
  \union SUBSET {"hold", "swap"}
Ops ==
  OnBus \union {"wait", "pause", "setup", "verify", "write", "resend"}
Steps == [op : Ops, arg : Args, locked : BOOLEAN]

(* What a script's steps are.                                              *)
LEMMA StepType == ASSUME NEW op \in Ops, NEW arg \in Args PROVE Step(op, arg) \in Steps
BY DEF Steps, Step

LEMMA ArgTypes ==
  /\ 0 \in Args /\ "none" \in Args /\ "control" \in Args /\ "test" \in Args /\ "lab" \in Args
  /\ <<Counter, "zero">> \in Args /\ <<Counter, "lab">> \in Args
  /\ [left |-> Regs, since_commit |-> 0] \in Args
  /\ {} \in Args /\ {"hold"} \in Args /\ {"hold", "swap"} \in Args
<1>1. \A bits \in SUBSET {"hold", "swap"} : bits \in Args
  BY DEF Args
<1> QED
  BY <1>1 DEF Args

LEMMA StepTypes ==
  /\ Touch \in Steps /\ Wait \in Steps /\ Pause \in Steps /\ Step("check", 0) \in Steps
  /\ Step("setup", 0) \in Steps /\ Step("send", 0) \in Steps /\ Step("verify", 0) \in Steps
  /\ Step("release", {}) \in Steps /\ Clear(Regs, 0) \in Steps
  /\ Ctrl({}) \in Steps /\ Ctrl({"hold"}) \in Steps /\ Ctrl({"hold", "swap"}) \in Steps
  /\ \A p \in {"none", "control", "test", "lab"} : Rows(p) \in Steps /\ Rom(p) \in Steps
  /\ \A v \in {"zero", "lab"} : Queue(Counter, v) \in Steps
  /\ Release \in Steps /\ Step("write", 0) \in Steps /\ Step("resend", 0) \in Steps
<1> USE DEF Ops, OnBus
<1>1. Touch \in Steps /\ Wait \in Steps /\ Pause \in Steps /\ Step("check", 0) \in Steps
  BY StepType, ArgTypes DEF Touch, Wait, Pause
<1>2. /\ Step("setup", 0) \in Steps /\ Step("send", 0) \in Steps /\ Step("verify", 0) \in Steps
      /\ Step("release", {}) \in Steps /\ Clear(Regs, 0) \in Steps
  BY StepType, ArgTypes DEF Clear
<1>3. Ctrl({}) \in Steps /\ Ctrl({"hold"}) \in Steps /\ Ctrl({"hold", "swap"}) \in Steps
  BY StepType, ArgTypes DEF Ctrl
<1>4. \A p \in {"none", "control", "test", "lab"} : Rows(p) \in Steps /\ Rom(p) \in Steps
  BY StepType, ArgTypes DEF Rows, Rom
<1>5. \A v \in {"zero", "lab"} : Queue(Counter, v) \in Steps
  BY StepType, ArgTypes DEF Queue
<1>6. Release \in Steps /\ Step("write", 0) \in Steps /\ Step("resend", 0) \in Steps
  BY StepType, ArgTypes DEF Release
<1> QED
  BY <1>1, <1>2, <1>3, <1>4, <1>5, <1>6

(* Locked changes only who may come between.                               *)
LEMMA LockedType ==
  ASSUME NEW s \in Seq(Steps)
  PROVE  /\ Locked(s) \in Seq(Steps) /\ Len(Locked(s)) = Len(s)
         /\ \A i \in 1 .. Len(s) :
              /\ Locked(s)[i].op = s[i].op /\ Locked(s)[i].arg = s[i].arg
              /\ s[i].op \notin {"wait", "pause"} => Locked(s)[i].locked
<1>1. Locked(s) = [i \in 1 .. Len(s) |-> [s[i] EXCEPT !.locked = @ \/
                             s[i].op \notin {"wait", "pause"}]]
  BY DEF Locked
<1>2. ASSUME NEW e \in Steps, NEW v \in BOOLEAN
      PROVE  /\ [e EXCEPT !.locked = v] \in Steps
             /\ [e EXCEPT !.locked = v].op = e.op /\ [e EXCEPT !.locked = v].arg = e.arg
             /\ [e EXCEPT !.locked = v].locked = v
  BY DEF Steps
<1>3. ASSUME NEW e \in Steps PROVE (e.locked \/ e.op \notin {"wait", "pause"}) \in BOOLEAN
  BY DEF Steps
<1>4. ASSUME NEW i \in 1 .. Len(s)
      PROVE  /\ Locked(s)[i] \in Steps
             /\ Locked(s)[i].op = s[i].op /\ Locked(s)[i].arg = s[i].arg
             /\ s[i].op \notin {"wait", "pause"} => Locked(s)[i].locked
  <2> DEFINE v == s[i].locked \/ s[i].op \notin {"wait", "pause"}
  <2>1. s[i] \in Steps
    OBVIOUS
  <2>2. v \in BOOLEAN
    BY <2>1, <1>3
  <2>3. Locked(s)[i] = [s[i] EXCEPT !.locked = v]
    BY <1>1
  <2>4. s[i].op \notin {"wait", "pause"} => v
    OBVIOUS
  <2> HIDE DEF v
  <2> QED
    BY <2>1, <2>2, <2>3, <2>4, <1>2
<1>5. Locked(s) \in [1 .. Len(s) -> Steps]
  BY <1>1, <1>4
<1>6. Locked(s) \in Seq(Steps) /\ Len(Locked(s)) = Len(s)
  BY <1>5
<1> QED
  BY <1>4, <1>6

LEMMA ConcatType ==
  ASSUME NEW s \in Seq(Steps), NEW t \in Seq(Steps)
  PROVE  /\ s \o t \in Seq(Steps) /\ Len(s \o t) = Len(s) + Len(t)
         /\ \A i \in 1 .. Len(s) : (s \o t)[i] = s[i]
         /\ \A i \in 1 .. Len(t) : (s \o t)[Len(s) + i] = t[i]
BY ConcatProperties

LEMMA TestType == ASSUME NEW b \in BOOLEAN PROVE SelfTest(b) \in Seq(Steps)
<1> DEFINE load == <<Ctrl({"hold"}), Rows("test"), Rom("test"), Queue(Counter, "zero"),
                     Ctrl({"hold", "swap"}), Wait, Ctrl({}), Wait>>
           pair == <<Touch, Wait, Step("check", 0)>>
           last == IF b THEN <<>> ELSE <<Ctrl({"hold"})>>
<1>1. load \in Seq(Steps) /\ pair \in Seq(Steps) /\ last \in Seq(Steps)
  BY StepTypes
<1>2. SelfTest(b) = (load \o Locked(pair)) \o last
  BY DEF SelfTest, probe_pair
<1> HIDE DEF load, pair, last
<1> QED
  BY <1>1, <1>2, LockedType, ConcatType

LEMMA CmdTestType == ASSUME NEW b \in BOOLEAN PROVE cmd_selftest(b) \in Seq(Steps)
<1>1. <<Step("pause_hold", {"hold"})>> \in Seq(Steps)
  <2>1. Step("pause_hold", {"hold"}) \in Steps
    BY StepType, ArgTypes DEF Ops, OnBus
  <2> QED
    BY <2>1
<1> QED
  BY <1>1, TestType, LockedType, ConcatType DEF cmd_selftest, engine_link_selftest

LEMMA HoldType == cmd_hold \in Seq(Steps)
<1>1. <<Pause>> \in Seq(Steps) /\
      <<Ctrl({"hold"}), Ctrl({"hold", "swap"}), Wait, Rows("none"), Rom("none")>>
        \in Seq(Steps)
  BY StepTypes
<1> QED
  BY <1>1, LockedType, ConcatType DEF cmd_hold

LEMMA AppMainType == app_main \in Seq(Steps)
<1>1. /\ <<Touch, Touch>> \in Seq(Steps) /\ <<Ctrl({"hold"})>> \in Seq(Steps)
      /\ Drain \in Seq(Steps) /\ clear_registers \in Seq(Steps) /\ load_program \in Seq(Steps)
      /\ <<Step("setup", 0), Step("send", 0), Step("verify", 0), Step("release", {})>>
           \in Seq(Steps)
  BY StepTypes DEF Drain, clear_registers, load_program
<1>2. SelfTest(FALSE) \in Seq(Steps)
  BY TestType
<1> QED
  BY <1>1, <1>2, ConcatType DEF app_main, spi_link_boot_check, engine_link_init

(* The boot's 24 steps, spi_link_boot_check and engine_link_init.          *)
LEMMA AppMainSteps ==
  /\ Len(app_main) = 24
  /\ app_main[1] = Touch /\ app_main[2] = Touch
  /\ app_main[3] = Ctrl({"hold"}) /\ app_main[4] = Ctrl({"hold", "swap"})
  /\ app_main[5] = Wait /\ app_main[6] = Ctrl({"hold"})
  /\ app_main[7] = Rows("test") /\ app_main[8] = Rom("test")
  /\ app_main[9] = Queue(Counter, "zero") /\ app_main[10] = Ctrl({"hold", "swap"})
  /\ app_main[11] = Wait /\ app_main[12] = Ctrl({}) /\ app_main[13] = Wait
  /\ app_main[14].op = "touch" /\ app_main[15].op = "wait" /\ app_main[16].op = "check"
  /\ app_main[17] = Ctrl({"hold"}) /\ app_main[18] = Clear(Regs, 0)
  /\ app_main[19] = Rows("control") /\ app_main[20] = Rom("control")
  /\ app_main[21] = Step("setup", 0) /\ app_main[22] = Step("send", 0)
  /\ app_main[23] = Step("verify", 0) /\ app_main[24] = Step("release", {})
<1> USE DEF app_main, spi_link_boot_check, engine_link_init, Drain, SelfTest,
            clear_registers, load_program, probe_pair, Locked
<1>1. /\ Len(app_main) = 24
      /\ app_main[1] = Touch /\ app_main[2] = Touch
      /\ app_main[3] = Ctrl({"hold"}) /\ app_main[4] = Ctrl({"hold", "swap"})
      /\ app_main[5] = Wait
  OBVIOUS
<1>2. /\ app_main[6] = Ctrl({"hold"})
      /\ app_main[7] = Rows("test") /\ app_main[8] = Rom("test")
      /\ app_main[9] = Queue(Counter, "zero") /\ app_main[10] = Ctrl({"hold", "swap"})
      /\ app_main[11] = Wait /\ app_main[12] = Ctrl({}) /\ app_main[13] = Wait
  OBVIOUS
<1>3. app_main[14].op = "touch" /\ app_main[15].op = "wait" /\ app_main[16].op = "check"
  BY DEF Step, Touch, Wait
<1>4. /\ app_main[17] = Ctrl({"hold"}) /\ app_main[18] = Clear(Regs, 0)
      /\ app_main[19] = Rows("control") /\ app_main[20] = Rom("control")
  OBVIOUS
<1>5. /\ app_main[21] = Step("setup", 0) /\ app_main[22] = Step("send", 0)
      /\ app_main[23] = Step("verify", 0) /\ app_main[24] = Step("release", {})
  OBVIOUS
<1> QED
  BY ONLY <1>1, <1>2, <1>3, <1>4, <1>5

TestCommands == {cmd_selftest(TRUE), cmd_selftest(FALSE)}

(* The self-test as a command: its steps from the second are the boot's.   *)
LEMMA SelfTestSteps ==
  ASSUME NEW b \in BOOLEAN
  PROVE  LET s == cmd_selftest(b) IN
         /\ Len(s) = (IF b THEN 12 ELSE 13)
         /\ s[1].op = "pause_hold" /\ s[1].arg = {"hold"}
         /\ s[2] = Ctrl({"hold"}) /\ s[3] = Rows("test") /\ s[4] = Rom("test")
         /\ s[5] = Queue(Counter, "zero") /\ s[6] = Ctrl({"hold", "swap"}) /\ s[7] = Wait
         /\ s[8] = Ctrl({}) /\ s[9] = Wait
         /\ s[10].op = "touch" /\ s[11].op = "wait" /\ s[12].op = "check"
         /\ ~b => s[13] = Ctrl({"hold"})
BY DEF cmd_selftest, engine_link_selftest, SelfTest, probe_pair, Locked, Step, Touch, Wait

LEMMA AppMainLen == app_main \in Seq(Steps) /\ Len(app_main) = 24
<1>1. Len(app_main) = 24
  BY ONLY AppMainSteps
<1> QED
  BY <1>1, AppMainType

LEMMA SelfTestLocked == ASSUME NEW b \in BOOLEAN PROVE cmd_selftest(b)[1].locked
<1> DEFINE e == Step("pause_hold", {"hold"})
           one == <<e>>
<1>1. e \in Steps /\ e.op = "pause_hold"
  <2>1. e \in Steps
    BY StepType, ArgTypes DEF Ops, OnBus
  <2> QED
    BY <2>1 DEF Step
<1>2. one \in Seq(Steps) /\ Len(one) = 1 /\ one[1] = e
  BY <1>1
<1>3. SelfTest(b) \in Seq(Steps) /\ cmd_selftest(b) = Locked(one) \o SelfTest(b)
  BY TestType DEF cmd_selftest, engine_link_selftest
<1> HIDE DEF one, e
<1>4. Locked(one) \in Seq(Steps) /\ Len(Locked(one)) = 1 /\ Locked(one)[1].locked
  BY <1>1, <1>2, LockedType
<1>5. cmd_selftest(b)[1] = Locked(one)[1]
  <2>1. \A i \in 1 .. Len(Locked(one)) : (Locked(one) \o SelfTest(b))[i] = Locked(one)[i]
    BY ONLY <1>3, <1>4, ConcatType
  <2> QED
    BY <1>3, <1>4, <2>1
<1> QED
  BY <1>4, <1>5

(* A hold.                                                                 *)
LEMMA HoldSteps ==
  /\ Len(cmd_hold) = 6 /\ cmd_hold[1] = Pause
  /\ LockedHold(cmd_hold[2]) /\ cmd_hold[2].arg = {"hold"}
  /\ cmd_hold[3].op = "ctrl" /\ cmd_hold[3].arg = {"hold", "swap"}
  /\ cmd_hold[4].op = "wait"
  /\ cmd_hold[5].op = "rows" /\ cmd_hold[5].arg = "none"
  /\ cmd_hold[6].op = "rom" /\ cmd_hold[6].arg = "none"
<1> DEFINE steps == <<Ctrl({"hold"}), Ctrl({"hold", "swap"}), Wait, Rows("none"), Rom("none")>>
<1>1. /\ steps \in Seq(Steps) /\ Len(steps) = 5
      /\ steps[1] = Ctrl({"hold"}) /\ steps[2] = Ctrl({"hold", "swap"})
      /\ steps[3] = Wait /\ steps[4] = Rows("none") /\ steps[5] = Rom("none")
  BY StepTypes
<1> HIDE DEF steps
<1>2. /\ Locked(steps) \in Seq(Steps) /\ Len(Locked(steps)) = 5
      /\ \A i \in 1 .. 5 :
            /\ Locked(steps)[i].op = steps[i].op /\ Locked(steps)[i].arg = steps[i].arg
            /\ steps[i].op \notin {"wait", "pause"} => Locked(steps)[i].locked
  BY <1>1, LockedType
<1>3. cmd_hold = <<Pause>> \o Locked(steps)
  BY DEF cmd_hold, steps
<1>4. <<Pause>> \in Seq(Steps) /\ Len(<<Pause>>) = 1 /\ <<Pause>>[1] = Pause
  BY StepTypes
<1> DEFINE first == <<Pause>>
<1> HIDE DEF first
<1>5. /\ Len(cmd_hold) = Len(first) + Len(Locked(steps))
      /\ \A i \in 1 .. Len(first) : cmd_hold[i] = first[i]
      /\ \A i \in 1 .. Len(Locked(steps)) : cmd_hold[Len(first) + i] = Locked(steps)[i]
  <2>1. first \in Seq(Steps) /\ Locked(steps) \in Seq(Steps) /\ cmd_hold = first \o Locked(steps)
    BY <1>2, <1>3, <1>4 DEF first
  <2> QED
    BY ONLY <2>1, ConcatType
<1>6. /\ Len(cmd_hold) = 6 /\ cmd_hold[1] = Pause
      /\ \A i \in 1 .. 5 : cmd_hold[1 + i] = Locked(steps)[i]
  BY ONLY <1>2, <1>4, <1>5 DEF first
<1> QED
  BY <1>1, <1>2, <1>6 DEF LockedHold, Ctrl, Wait, Rows, Rom, Step

(* The quiet steps but the pause of the tick, which needs what follows it. *)
Calm == {step \in Steps : Quiet(step) /\ step.op # "pause"}

LEMMA CalmIsQuiet ==
  ASSUME NEW s \in Seq(Calm) PROVE s \in Seq(Steps) /\ QuietFrom(s, 1)
<1>1. \A e \in Calm : e \in Steps /\ Quiet(e) /\ e.op # "pause"
  BY DEF Calm
<1>2. \A i \in 1 .. Len(s) : s[i] \in Calm
  OBVIOUS
<1> QED
  BY <1>1, <1>2 DEF QuietFrom

LEMMA CalmSteps ==
  /\ Touch \in Calm /\ Wait \in Calm /\ Release \in Calm
  /\ Step("write", 0) \in Calm /\ Step("resend", 0) \in Calm
  /\ Ctrl({"hold"}) \in Calm /\ Ctrl({"hold", "swap"}) \in Calm
  /\ Rows("lab") \in Calm /\ Rom("lab") \in Calm /\ Queue(Counter, "lab") \in Calm
<1>1. Touch \in Calm /\ Wait \in Calm /\ Release \in Calm
  BY StepTypes DEF Calm, Quiet, Touch, Wait, Release, Step
<1>2. Step("write", 0) \in Calm /\ Step("resend", 0) \in Calm
  BY StepTypes DEF Calm, Quiet, Step
<1>3. Ctrl({"hold"}) \in Calm /\ Ctrl({"hold", "swap"}) \in Calm
  BY StepTypes DEF Calm, Quiet, Ctrl, Step
<1>4. Rows("lab") \in Calm /\ Rom("lab") \in Calm /\ Queue(Counter, "lab") \in Calm
  BY StepTypes DEF Calm, Quiet, Rows, Rom, Queue, Step
<1> QED
  BY <1>1, <1>2, <1>3, <1>4

LEMMA LockedCalm == ASSUME NEW s \in Seq(Calm) PROVE Locked(s) \in Seq(Calm)
<1>1. s \in Seq(Steps)
  BY CalmIsQuiet
<1>2. /\ Locked(s) \in Seq(Steps) /\ Len(Locked(s)) = Len(s)
      /\ \A i \in 1 .. Len(s) : Locked(s)[i].op = s[i].op /\ Locked(s)[i].arg = s[i].arg
  BY <1>1, LockedType
<1>3. ASSUME NEW i \in 1 .. Len(s) PROVE Locked(s)[i] \in Calm
  <2>1. /\ s[i] \in Calm /\ Locked(s)[i] \in Steps
        /\ Locked(s)[i].op = s[i].op /\ Locked(s)[i].arg = s[i].arg
    BY <1>2
  <2> QED
    BY <2>1 DEF Calm, Quiet
<1>4. Locked(s) \in [1 .. Len(s) -> Calm]
  BY <1>2, <1>3
<1> QED
  BY <1>4

LEMMA CalmConcat ==
  ASSUME NEW s \in Seq(Calm), NEW t \in Seq(Calm) PROVE s \o t \in Seq(Calm)
BY ConcatProperties

CalmCommands ==
  {cmd_thaw, cmd_step, cmd_row, cmd_rom, cmd_const, cmd_go, cmd_burst, cmd_peek, cmd_dump,
   cmd_pairwatch, cmd_verify, cmd_poke, cmd_raw, cmd_diag, cmd_trap(TRUE), cmd_trap(FALSE),
   cmd_spitest, cmd_spiclk, cmd_stream, cmd_resend}

LEMMA CalmCommandSteps == ASSUME NEW s \in CalmCommands PROVE s \in Seq(Calm)
<1>1. /\ <<Release>> \in Seq(Calm) /\ <<Touch, Wait, Touch>> \in Seq(Calm)
      /\ <<Touch>> \in Seq(Calm) /\ <<Touch, Touch>> \in Seq(Calm)
      /\ <<Touch, Release, Wait, Ctrl({"hold"}), Touch, Wait>> \in Seq(Calm)
      /\ <<Step("write", 0)>> \in Seq(Calm) /\ <<Step("resend", 0)>> \in Seq(Calm)
  BY CalmSteps
<1>2. /\ <<Rows("lab")>> \in Seq(Calm) /\ <<Rom("lab")>> \in Seq(Calm)
      /\ <<Queue(Counter, "lab")>> \in Seq(Calm)
      /\ <<Ctrl({"hold", "swap"}), Wait, Release>> \in Seq(Calm)
      /\ <<Queue(Counter, "lab"), Ctrl({"hold", "swap"}), Wait>> \in Seq(Calm)
  BY CalmSteps
<1>3. engine_link_peek \in Seq(Calm) /\ engine_link_peek \o engine_link_peek \in Seq(Calm)
  BY <1>1, LockedCalm, CalmConcat DEF engine_link_peek, probe_pair
<1>4. cmd_thaw \in Seq(Calm) /\ cmd_step \in Seq(Calm)
  BY <1>1, LockedCalm DEF cmd_thaw, cmd_step
<1>5. /\ cmd_row \in Seq(Calm) /\ cmd_rom \in Seq(Calm) /\ cmd_const \in Seq(Calm)
      /\ cmd_go \in Seq(Calm) /\ cmd_burst \in Seq(Calm)
  BY <1>2, LockedCalm DEF cmd_row, cmd_rom, cmd_const, cmd_go, cmd_burst
<1>6. /\ cmd_peek \in Seq(Calm) /\ cmd_dump \in Seq(Calm)
      /\ cmd_pairwatch \in Seq(Calm) /\ cmd_verify \in Seq(Calm)
  BY <1>3 DEF cmd_peek, cmd_dump, cmd_pairwatch, cmd_verify
<1>7. /\ cmd_poke \in Seq(Calm) /\ cmd_raw \in Seq(Calm) /\ cmd_diag \in Seq(Calm)
      /\ cmd_trap(TRUE) \in Seq(Calm) /\ cmd_trap(FALSE) \in Seq(Calm)
  BY <1>1, LockedCalm DEF cmd_poke, cmd_raw, cmd_diag, cmd_trap
<1>8. /\ cmd_spitest \in Seq(Calm) /\ cmd_spiclk \in Seq(Calm) /\ cmd_stream \in Seq(Calm)
      /\ cmd_resend \in Seq(Calm)
  BY <1>1, LockedCalm DEF cmd_spitest, cmd_spiclk, engine_link_spi_frequency, cmd_stream,
                          engine_link_data_stream, cmd_resend
<1> QED
  BY <1>4, <1>5, <1>6, <1>7, <1>8 DEF CalmCommands

(* The freeze: the tick paused, then the processor held.                   *)
LEMMA FreezeSteps == cmd_freeze \in Seq(Steps) /\ QuietFrom(cmd_freeze, 1)
<1> DEFINE first == <<Pause>>
           steps == <<Ctrl({"hold"}), Wait>>
<1>1. /\ first \in Seq(Steps) /\ Len(first) = 1 /\ first[1] = Pause
      /\ steps \in Seq(Steps) /\ Len(steps) = 2
      /\ steps[1] = Ctrl({"hold"}) /\ steps[2] = Wait
  BY StepTypes
<1>2. cmd_freeze = first \o Locked(steps)
  BY DEF cmd_freeze
<1> HIDE DEF first, steps
<1>3. /\ Locked(steps) \in Seq(Steps) /\ Len(Locked(steps)) = 2
      /\ \A i \in 1 .. 2 :
            /\ Locked(steps)[i].op = steps[i].op /\ Locked(steps)[i].arg = steps[i].arg
            /\ steps[i].op \notin {"wait", "pause"} => Locked(steps)[i].locked
  BY <1>1, LockedType
<1>4. /\ cmd_freeze \in Seq(Steps) /\ Len(cmd_freeze) = 3
      /\ cmd_freeze[1] = Pause /\ \A i \in 1 .. 2 : cmd_freeze[1 + i] = Locked(steps)[i]
  <2>1. /\ first \o Locked(steps) \in Seq(Steps)
        /\ Len(first \o Locked(steps)) = Len(first) + Len(Locked(steps))
        /\ \A i \in 1 .. Len(first) : (first \o Locked(steps))[i] = first[i]
        /\ \A i \in 1 .. Len(Locked(steps)) :
             (first \o Locked(steps))[Len(first) + i] = Locked(steps)[i]
    BY ONLY <1>1, <1>3, ConcatType
  <2> QED
    BY <1>1, <1>2, <1>3, <2>1
<1>5. /\ cmd_freeze[1].op = "pause" /\ LockedHold(cmd_freeze[2])
      /\ cmd_freeze[3].op = "wait"
  BY <1>1, <1>3, <1>4 DEF LockedHold, Pause, Ctrl, Wait, Step
<1>6. ASSUME NEW i \in 1 .. 3
      PROVE  /\ Quiet(cmd_freeze[i])
             /\ cmd_freeze[i].op = "pause" => i < 3 /\ LockedHold(cmd_freeze[i + 1])
  BY <1>5 DEF Quiet, LockedHold
<1> QED
  BY <1>4, <1>6 DEF QuietFrom

(* Each command is one of these three kinds.                               *)
LEMMA CommandSteps ==
  ASSUME NEW full \in Commands
  PROVE  /\ full \in Seq(Steps)
         /\ \/ QuietFrom(full, 1)
            \/ full \in TestCommands
            \/ full = cmd_hold
<1>1. CASE full \in CalmCommands
  BY <1>1, CalmCommandSteps, CalmIsQuiet
<1>2. CASE full = cmd_freeze
  BY <1>2, FreezeSteps
<1>3. CASE full = cmd_hold
  BY <1>3, HoldType
<1>4. CASE full \in TestCommands
  BY <1>4, CmdTestType DEF TestCommands
<1> QED
  BY <1>1, <1>2, <1>3, <1>4 DEF Commands, CalmCommands, TestCommands

-----------------------------------------------------------------------------
(***************************************************************************)
(* The chip's types, and what applying and queueing words does to them.    *)
(***************************************************************************)
Values == {"old", "zero", "test", "image", "lab", "unset"}
Words == Regs \X Values
Pasts == [freed : BOOLEAN, complained : BOOLEAN, spoilt : BOOLEAN, unclear : SUBSET Regs]
ChipTypes ==
  /\ fifo \in Seq(Words) /\ committed \in 0 .. Len(fifo)
  /\ regs \in [Regs -> Values] /\ image \in [Regs -> Values] /\ pending \subseteq Regs
  /\ hold \in BOOLEAN /\ paused \in BOOLEAN /\ past \in Pasts

Below == {p \in Nat \X Nat : p[1] < p[2]}

LEMMA BelowWellFounded == IsWellFoundedOn(Below, Nat)
BY NatLessThanWellFounded, Zenon DEF Below, OpToRel

(* The largest of a set of positions is one of them.                       *)
LEMMA MaxOf ==
  ASSUME NEW n \in Nat, NEW T \in SUBSET (1 .. n), T # {}
  PROVE  Max(T) \in T /\ \A y \in T : Max(T) >= y
<1> DEFINE D == {d \in Nat : n - d \in T}
<1>1. D # {}
  <2>1. PICK x \in T : TRUE
    OBVIOUS
  <2>2. n - x \in D
    BY <2>1
  <2> QED
    BY <2>2
<1>2. PICK d \in D : \A e \in D : ~ (<<e, d>> \in Below)
  <2>1. IsWellFoundedOn(Below, Nat)
    BY BelowWellFounded
  <2>2. D \subseteq Nat
    OBVIOUS
  <2> HIDE DEF D
  <2> QED
    BY <1>1, <2>1, <2>2, WFMin
<1>3. ASSUME NEW e \in D PROVE d <= e
  <2>1. e \in Nat /\ d \in Nat
    OBVIOUS
  <2>2. e < d => <<e, d>> \in Below
    BY <2>1 DEF Below
  <2> QED
    BY <1>2, <2>1, <2>2
<1>4. n - d \in T
  OBVIOUS
<1>5. \A y \in T : n - d >= y
  <2> TAKE y \in T
  <2>1. n - y \in D /\ y \in Nat /\ n - y \in Nat
    OBVIOUS
  <2>2. d <= n - y /\ d \in Nat
    BY <1>3, <2>1
  <2> QED
    BY <2>1, <2>2
<1> QED
  BY <1>4, <1>5 DEF Max

(* A register no word names is as before; another has one of its words,    *)
(* that of the last word the last.                                         *)
LEMMA AppliedWords ==
  ASSUME NEW file \in [Regs -> Values], NEW words \in Seq(Words)
  PROVE  /\ Applied(file, words) \in [Regs -> Values]
         /\ \A r \in Regs :
              \/ /\ \A i \in 1 .. Len(words) : words[i][1] # r
                 /\ Applied(file, words)[r] = file[r]
              \/ \E i \in 1 .. Len(words) :
                   words[i][1] = r /\ Applied(file, words)[r] = words[i][2]
         /\ Len(words) > 0 =>
              Applied(file, words)[words[Len(words)][1]] = words[Len(words)][2]
<1> DEFINE Of(r) == {i \in 1 .. Len(words) : words[i][1] = r}
<1>1. Applied(file, words) =
        [r \in Regs |-> IF Of(r) = {} THEN file[r] ELSE words[Max(Of(r))][2]]
  <2>1. DOMAIN words = 1 .. Len(words)
    OBVIOUS
  <2> QED
    BY <2>1 DEF Applied
<1>2. ASSUME NEW r \in Regs, Of(r) # {}
      PROVE  \E i \in 1 .. Len(words) : words[i][1] = r /\ i = Max(Of(r))
  <2>1. Len(words) \in Nat /\ Of(r) \in SUBSET (1 .. Len(words))
    OBVIOUS
  <2>2. Max(Of(r)) \in Of(r)
    BY ONLY <1>2, <2>1, MaxOf
  <2> QED
    BY <2>2
<1>3. ASSUME NEW i \in 1 .. Len(words) PROVE words[i][2] \in Values
  BY DEF Words
<1>4. ASSUME NEW r \in Regs
      PROVE  /\ Applied(file, words)[r] \in Values
             /\ \/ /\ \A i \in 1 .. Len(words) : words[i][1] # r
                   /\ Applied(file, words)[r] = file[r]
                \/ \E i \in 1 .. Len(words) :
                     words[i][1] = r /\ Applied(file, words)[r] = words[i][2]
  <2>1. CASE Of(r) = {}
    BY <1>1, <2>1
  <2>2. CASE Of(r) # {}
    <3>1. PICK i \in 1 .. Len(words) : words[i][1] = r /\ i = Max(Of(r))
      BY <1>2, <2>2
    <3>2. Applied(file, words)[r] = words[i][2]
      BY <1>1, <2>2, <3>1
    <3> QED
      BY <1>3, <3>1, <3>2
  <2> QED
    BY <2>1, <2>2
<1>5. Applied(file, words) \in [Regs -> Values]
  <2>1. DOMAIN Applied(file, words) = Regs /\
        Applied(file, words) = [r \in Regs |-> Applied(file, words)[r]]
    BY <1>1
  <2> QED
    BY <1>4, <2>1
<1>6. ASSUME Len(words) > 0
      PROVE  Applied(file, words)[words[Len(words)][1]] = words[Len(words)][2]
  <2> DEFINE n == Len(words)
             r == words[n][1]
  <2>1. n \in Nat /\ n \in 1 .. n /\ words[n] \in Words
    BY <1>6
  <2>2. r \in Regs /\ n \in Of(r) /\ Of(r) \in SUBSET (1 .. n)
    BY <2>1 DEF Words
  <2> HIDE DEF n, r
  <2>3. Of(r) # {}
    BY <2>2
  <2>4. Max(Of(r)) \in Of(r) /\ Max(Of(r)) >= n
    BY ONLY <2>1, <2>2, <2>3, MaxOf
  <2>5. Max(Of(r)) = n
    BY <2>1, <2>2, <2>4
  <2> QED
    BY <1>1, <2>2, <2>3, <2>5 DEF n, r
<1> QED
  BY <1>4, <1>5, <1>6

(* The first words of a sequence.                                          *)
LEMMA FirstOfWords ==
  ASSUME NEW S, NEW words \in Seq(S), NEW n \in Int
  PROVE  /\ FirstOf(words, n) \in Seq(S) /\ Len(FirstOf(words, n)) <= Len(words)
         /\ \A i \in 1 .. Len(FirstOf(words, n)) : FirstOf(words, n)[i] = words[i]
         /\ n >= Len(words) => Len(FirstOf(words, n)) = Len(words)
<1> DEFINE m == IF n < Len(words) THEN n ELSE Len(words)
<1>1. Len(words) \in Nat /\ m \in Int /\ m <= Len(words) /\ (n >= Len(words) => m = Len(words))
  OBVIOUS
<1>2. FirstOf(words, n) = SubSeq(words, 1, m)
  BY DEF FirstOf
<1>3. \A i \in 1 .. m : words[i] \in S
  BY <1>1
<1> HIDE DEF m
<1>4. /\ SubSeq(words, 1, m) \in Seq(S)
      /\ Len(SubSeq(words, 1, m)) = IF 1 <= m THEN m - 1 + 1 ELSE 0
      /\ \A i \in 1 .. m - 1 + 1 : SubSeq(words, 1, m)[i] = words[1 + i - 1]
  BY <1>1, <1>3, SubSeqProperties
<1> QED
  BY <1>1, <1>2, <1>4

(* The queue gets as many of the words, in order, as it has room for.      *)
LEMMA QueuedWords ==
  ASSUME ChipTypes, NEW words \in Seq(Words)
  PROVE  /\ Queued(words) \in Seq(Words) /\ Len(fifo) <= Len(Queued(words))
         /\ \A i \in 1 .. Len(fifo) : Queued(words)[i] = fifo[i]
         /\ \A i \in 1 .. Len(Queued(words)) :
              \/ i <= Len(fifo)
              \/ i - Len(fifo) \in 1 .. Len(words) /\ Queued(words)[i] = words[i - Len(fifo)]
         /\ CAPACITY - Len(fifo) >= Len(words) =>
              Len(Queued(words)) = Len(fifo) + Len(words)
<1> DEFINE first == FirstOf(words, CAPACITY - Len(fifo))
<1>1. fifo \in Seq(Words) /\ CAPACITY - Len(fifo) \in Int
  BY BootAssumption DEF ChipTypes
<1>2. /\ first \in Seq(Words) /\ Len(first) <= Len(words)
      /\ \A i \in 1 .. Len(first) : first[i] = words[i]
      /\ CAPACITY - Len(fifo) >= Len(words) => Len(first) = Len(words)
  BY <1>1, FirstOfWords
<1>3. Queued(words) = fifo \o first
  BY DEF Queued
<1> HIDE DEF first
<1>4. /\ Queued(words) \in Seq(Words) /\ Len(Queued(words)) = Len(fifo) + Len(first)
      /\ \A i \in 1 .. Len(fifo) + Len(first) : Queued(words)[i] =
            IF i <= Len(fifo) THEN fifo[i] ELSE first[i - Len(fifo)]
  BY <1>1, <1>2, <1>3, ConcatProperties
<1>5. Len(fifo) \in Nat /\ Len(first) \in Nat
  BY <1>1, <1>2
<1>6. ASSUME NEW i \in 1 .. Len(Queued(words)), ~(i <= Len(fifo))
      PROVE  i - Len(fifo) \in 1 .. Len(words) /\ Queued(words)[i] = words[i - Len(fifo)]
  <2>1. i - Len(fifo) \in 1 .. Len(first)
    BY <1>4, <1>5, <1>6
  <2>2. Queued(words)[i] = first[i - Len(fifo)]
    BY <1>4, <1>6
  <2>3. Len(words) \in Nat
    OBVIOUS
  <2> QED
    BY <1>2, <1>5, <2>1, <2>2, <2>3
<1>7. \A i \in 1 .. Len(fifo) : Queued(words)[i] = fifo[i]
  BY <1>4, <1>5
<1>8. Len(fifo) <= Len(Queued(words))
  BY <1>4, <1>5
<1>9. CAPACITY - Len(fifo) >= Len(words) => Len(Queued(words)) = Len(fifo) + Len(words)
  BY <1>2, <1>4
<1> QED
  BY <1>4, <1>6, <1>7, <1>8, <1>9

LEMMA QueuedNothing == ASSUME ChipTypes PROVE Queued(<<>>) = fifo
<1>1. <<>> \in Seq(Words) /\ fifo \in Seq(Words)
  BY DEF ChipTypes
<1>2. /\ Queued(<<>>) \in Seq(Words) /\ Len(fifo) <= Len(Queued(<<>>))
      /\ \A i \in 1 .. Len(fifo) : Queued(<<>>)[i] = fifo[i]
      /\ \A i \in 1 .. Len(Queued(<<>>)) : i <= Len(fifo) \/ i - Len(fifo) \in 1 .. 0
  BY <1>1, QueuedWords
<1>3. Len(Queued(<<>>)) = Len(fifo)
  BY <1>1, <1>2
<1> DEFINE q == Queued(<<>>)
<1> HIDE DEF q
<1>4. q = fifo
  BY <1>1, <1>2, <1>3, SeqEqual DEF q
<1> QED
  BY <1>4 DEF q

-----------------------------------------------------------------------------
(***************************************************************************)
(* What each task's step, and a pass, does to the chip.                    *)
(***************************************************************************)
QueueEmpty   == fifo = <<>> /\ committed = 0
AllCommitted == committed = Len(fifo)
Loaded(program) == rows = program /\ rom = program
Held == hold \/ past.freed

(* The processor has one program, or is kept held, but for what freed it.  *)
WholeSoFar == rows = rom \/ past.freed \/ (hold /\ paused /\ tick # "send")

LEMMA InOrderType ==
  ASSUME NEW S, IsFiniteSet(S), NEW s \in InOrder(S)
  PROVE  s \in Seq(S)
<1>1. Cardinality(S) \in Nat /\ s \in [1 .. Cardinality(S) -> S]
  BY FS_CardinalityType DEF InOrder
<1> QED
  BY <1>1

LEMMA FiniteRegs == IsFiniteSet(Regs)
BY BootAssumption, FS_AddElement DEF Regs

(* Words that go out are the image's of pending registers.                 *)
LEMMA WordsOutAre ==
  ASSUME ChipTypes, NEW limit \in Int, NEW words \in WordsOut(limit)
  PROVE  /\ words \in Seq(Words)
         /\ \A i \in 1 .. Len(words) :
              words[i][1] \in pending /\ words[i][2] = image[words[i][1]]
<1>1. PICK order \in InOrder(pending) :
        words = [i \in DOMAIN FirstOf(order, limit) |->
                   <<FirstOf(order, limit)[i], image[FirstOf(order, limit)[i]]>>]
  BY DEF WordsOut
<1>2. order \in Seq(pending)
  <2>1. IsFiniteSet(pending)
    BY FiniteRegs, FS_Subset DEF ChipTypes
  <2> QED
    BY <2>1, InOrderType
<1> DEFINE first == FirstOf(order, limit)
<1>3. first \in Seq(pending)
  BY <1>2, FirstOfWords
<1> HIDE DEF first
<1>4. words = [i \in 1 .. Len(first) |-> <<first[i], image[first[i]]>>]
  <2>1. DOMAIN first = 1 .. Len(first)
    BY <1>3
  <2> QED
    BY <1>1, <2>1 DEF first
<1>5. ASSUME NEW i \in 1 .. Len(first)
      PROVE  /\ words[i] \in Words /\ words[i][1] \in pending
             /\ words[i][2] = image[words[i][1]]
  <2>1. first[i] \in pending /\ first[i] \in Regs /\ image[first[i]] \in Values
    BY <1>3 DEF ChipTypes
  <2> QED
    BY <1>4, <2>1 DEF Words
<1>6. Len(first) \in Nat /\ words \in [1 .. Len(first) -> Words]
  BY <1>3, <1>4, <1>5
<1>7. words \in Seq(Words) /\ Len(words) = Len(first)
  BY <1>6
<1> QED
  BY <1>5, <1>7

(* A loss leaves words that were sent.                                     *)
LEMMA LossyWords ==
  ASSUME NEW words \in Seq(Words), NEW kept \in Lossy(words)
  PROVE  /\ kept \in Seq(Words)
         /\ \A i \in 1 .. Len(kept) : \E j \in 1 .. Len(words) : kept[i] = words[j]
<1>0. PICK at \in UNION {InOrder(DOMAIN words \ lost) :
                        lost \in {l \in SUBSET DOMAIN words : Cardinality(l) <= losses}} :
        kept = [i \in DOMAIN at |-> words[at[i]]]
  BY Zenon DEF Lossy
<1>1. PICK lost \in SUBSET DOMAIN words : at \in InOrder(DOMAIN words \ lost)
  BY <1>0
<1>2. DOMAIN words = 1 .. Len(words) /\ Len(words) \in Nat
  OBVIOUS
<1>3. at \in Seq(1 .. Len(words))
  <2>1. IsFiniteSet(DOMAIN words \ lost)
    <3>1. IsFiniteSet(1 .. Len(words))
      BY <1>2, FS_Interval
    <3>2. DOMAIN words \ lost \in SUBSET (1 .. Len(words))
      BY <1>2
    <3> QED
      BY <3>1, <3>2, FS_Subset
  <2>2. at \in Seq(DOMAIN words \ lost)
    BY <1>1, <2>1, InOrderType
  <2>3. \A i \in 1 .. Len(at) : at[i] \in 1 .. Len(words)
    BY <1>2, <2>2
  <2> QED
    BY <2>2, <2>3
<1>4. kept = [i \in 1 .. Len(at) |-> words[at[i]]]
  BY <1>0, <1>3
<1>5. \A i \in 1 .. Len(at) : at[i] \in 1 .. Len(words) /\ words[at[i]] \in Words
  BY <1>3
<1>6. kept \in [1 .. Len(at) -> Words] /\ Len(at) \in Nat
  BY <1>3, <1>4, <1>5
<1>7. kept \in Seq(Words) /\ Len(kept) = Len(at)
  BY <1>6
<1> QED
  BY <1>4, <1>5, <1>7

LEMMA LossyOne ==
  ASSUME NEW word, NEW kept \in Lossy(<<word>>)
  PROVE  kept = <<>> \/ kept = <<word>>
<1>0. PICK at \in UNION {InOrder(DOMAIN <<word>> \ lost) :
                        lost \in {l \in SUBSET DOMAIN <<word>> : Cardinality(l) <= losses}} :
        kept = [i \in DOMAIN at |-> <<word>>[at[i]]]
  BY Zenon DEF Lossy
<1>1. PICK left \in SUBSET {1} : at \in InOrder(left)
  <2>1. DOMAIN <<word>> = {1}
    OBVIOUS
  <2> QED
    BY <1>0, <2>1
<1>2. left = {} \/ left = {1}
  BY <1>1
<1>3. Cardinality({}) = 0 /\ Cardinality({1}) = 1
  BY FS_EmptySet, FS_Singleton
<1>4. CASE left = {}
  <2>1. at \in [1 .. 0 -> {}]
    BY <1>1, <1>3, <1>4 DEF InOrder
  <2>2. DOMAIN at = {}
    BY <2>1
  <2>3. kept = [i \in {} |-> <<word>>[at[i]]]
    BY <1>0, <2>2
  <2> QED
    BY <2>3
<1>5. CASE left = {1}
  <2>1. at \in [1 .. 1 -> {1}]
    BY <1>1, <1>3, <1>5 DEF InOrder
  <2>2. DOMAIN at = 1 .. 1 /\ at[1] = 1
    BY <2>1
  <2>3. kept = [i \in 1 .. 1 |-> word]
    BY <1>0, <2>1, <2>2
  <2> QED
    BY <2>3
<1> QED
  BY <1>2, <1>4, <1>5

-----------------------------------------------------------------------------
(* What the step at the head of the script does, once it is not only begun.*)
Taken == UNCHANGED <<chip, link, script, attempts, tick, past>>

LEMMA MainTakes ==
  ASSUME LinkInv, MainTask, script # <<>>, ~Taken
  PROVE  /\ UNCHANGED tick
         /\ next.op \in Ops
         /\ next.op \in OnBus => "main" \in bus
         /\ next.op = "wait" =>
              committed = 0 /\ Goes /\ UNCHANGED <<chip, link, attempts, past>>
         /\ next.op \in {"touch", "check"} => Goes /\ UNCHANGED <<chip, link, attempts, past>>
         /\ next.op \in {"ctrl", "pause_hold"} =>
              /\ WriteCtrl(next.arg, <<>>) /\ Goes
              /\ paused' = (paused \/ next.op = "pause_hold")
              /\ UNCHANGED <<image, pending, running, attempts, past>>
         /\ next.op = "free" =>
              WriteCtrl({}, <<>>) /\ Releases /\ Goes /\ UNCHANGED <<link, attempts>>
         /\ next.op = "queue" => QueuesOne /\ UNCHANGED attempts
         /\ next.op = "rows" =>
              /\ committed = 0 /\ rows' = next.arg /\ LoadsOnto(next.arg) /\ Goes
              /\ UNCHANGED <<hold, rom, regs, fifo, committed, link, attempts>>
         /\ next.op = "rom" =>
              /\ committed = 0 /\ rom' = next.arg /\ LoadsOnto(next.arg) /\ Goes
              /\ UNCHANGED <<hold, rows, regs, fifo, committed, link, attempts>>
         /\ next.op = "clear" => ClearsOne /\ UNCHANGED attempts
         /\ next.op = "send" => SendsHeld /\ UNCHANGED attempts
         /\ next.op = "release" =>
              /\ WriteCtrl({}, <<>>) /\ Goes /\ running' = TRUE
              /\ past' = Nothing
              /\ UNCHANGED <<image, pending, paused>>
         /\ next.op = "pause" =>
              /\ paused' = TRUE /\ Goes
              /\ UNCHANGED <<chip, image, pending, running, attempts, past>>
         /\ next.op = "setup" => MainSetsUp
         /\ next.op = "resend" => resend_all /\ Goes /\
              UNCHANGED <<chip, image, paused, running, attempts, past>>
         /\ next.op = "write" =>
              /\ \E r \in Regs : /\ image' = [image EXCEPT ![r] = "image"]
                                 /\ pending' = pending \union {r}
              /\ Goes /\ UNCHANGED <<chip, paused, running, attempts, past>>
         /\ next.op = "verify" => MainVerifies
<1>1. CASE MainBegins
  BY <1>1 DEF MainBegins, Taken
<1>2. CASE MainEnds
  BY <1>2 DEF MainEnds, MainRest, QueuesOne, ClearsOne, SendsHeld, Ops, OnBus
<1>3. CASE MainWaits
  BY <1>3 DEF MainWaits, Ops, OnBus
<1>4. CASE MainPauses
  BY <1>4 DEF MainPauses, Ops, OnBus
<1>5. CASE MainSetsUp
  BY <1>5 DEF MainSetsUp, Ops, OnBus
<1>6. CASE MainResends
  BY <1>6 DEF MainResends, Ops, OnBus
<1>7. CASE MainWrites
  BY <1>7 DEF MainWrites, Ops, OnBus
<1>8. CASE MainVerifies
  BY <1>8 DEF MainVerifies, Ops, OnBus
<1>9. CASE Console
  BY <1>9 DEF Console
<1> QED
  BY <1>1, <1>2, <1>3, <1>4, <1>5, <1>6, <1>7, <1>8, <1>9 DEF MainTask

(* Words queued and committed keep the chip's types.                       *)
LEMMA CtrlWritten ==
  ASSUME ChipTypes, NEW words \in Seq(Words), NEW bits, WriteCtrl(bits, words)
  PROVE  /\ fifo' \in Seq(Words) /\ committed' \in 0 .. Len(fifo') /\ hold' \in BOOLEAN
         /\ AllCommitted /\ words = <<>> => AllCommitted'
         /\ "swap" \in bits => AllCommitted'
         /\ words = <<>> => fifo' = fifo
<1>1. /\ fifo' \in Seq(Words) /\ Len(fifo) <= Len(fifo')
      /\ committed' = IF "swap" \in bits THEN Len(fifo') ELSE committed
      /\ hold' = ("hold" \in bits)
  BY QueuedWords DEF WriteCtrl
<1>2. words = <<>> => fifo' = fifo
  BY QueuedNothing DEF WriteCtrl
<1>3. Len(fifo) \in Nat /\ Len(fifo') \in Nat /\ committed \in 0 .. Len(fifo)
  BY <1>1 DEF ChipTypes
<1> QED
  BY <1>1, <1>2, <1>3 DEF AllCommitted

(* What the tick and the voice task do to what the main task relies on:    *)
(* a tick that was not paused sends and releases; the test tone releases.  *)
LEMMA OthersTake ==
  ASSUME LinkInv, ChipTypes, engine_task \/ VoiceTask
  PROVE  /\ running /\ ChipTypes'
         /\ UNCHANGED <<rows, rom, paused, running, script, attempts>>
         /\ past'.spoilt = past.spoilt /\ (past.freed => past'.freed)
         /\ AllCommitted => AllCommitted'
         /\ tick # "send" =>
              /\ UNCHANGED <<fifo, committed, regs>> /\ (Held => Held')
              /\ paused => tick' # "send"
<1>1. CASE TickBegins
  <2>1. /\ running /\ UNCHANGED <<chip, link, script, attempts, past>>
        /\ paused => tick' # "send"
    BY <1>1 DEF TickBegins
  <2> QED
    BY <2>1 DEF ChipTypes, chip, link, AllCommitted, Held
<1>2. CASE TickEnds
  <2>1. /\ running /\ tick # "idle" /\ tick' = "idle" /\ UNCHANGED <<script, attempts, past>>
    BY <1>2 DEF TickEnds, LinkInv, InTransaction, OnlyOnceRunning
  <2>2. CASE tick = "send"
    <3>1. PICK words \in WordsOut(CAPACITY) :
            WriteCtrl({"swap"}, words) /\ pending' = pending \ Sent(words)
      BY <1>2, <2>2 DEF TickEnds
    <3>2. UNCHANGED <<image, paused, running>>
      BY <1>2, <2>2 DEF TickEnds
    <3>3. words \in Seq(Words)
      BY WordsOutAre, BootAssumption
    <3>4. /\ fifo' \in Seq(Words) /\ committed' \in 0 .. Len(fifo') /\ hold' \in BOOLEAN
          /\ AllCommitted'
      BY <3>1, <3>3, CtrlWritten
    <3>5. UNCHANGED <<rows, rom, regs>> /\ pending' \subseteq pending
      BY <3>1 DEF WriteCtrl
    <3> QED
      BY <2>1, <2>2, <3>2, <3>4, <3>5 DEF ChipTypes
  <2>3. CASE tick # "send"
    <3>1. UNCHANGED <<chip, link>>
      BY <1>2, <2>3 DEF TickEnds, check_gateware_health
    <3> QED
      BY <2>1, <3>1 DEF ChipTypes, chip, link, AllCommitted, Held
  <2> QED
    BY <2>2, <2>3
<1>3. CASE VoiceBegins
  <2>1. running /\ UNCHANGED <<chip, link, script, attempts, past, tick>>
    BY <1>3 DEF VoiceBegins
  <2> QED
    BY <2>1 DEF ChipTypes, chip, link, AllCommitted, Held
<1>4. CASE VoiceEnds
  <2>1. running /\ voice # "idle" /\ UNCHANGED <<link, script, attempts, tick>>
    BY <1>4 DEF VoiceEnds, LinkInv, InTransaction, OnlyOnceRunning
  <2>2. CASE engine_link_test_tone
    <3>1. WriteCtrl({}, <<>>) /\ past' = [past EXCEPT !.freed = @ \/ hold]
      BY <2>2 DEF engine_link_test_tone
    <3>2. /\ fifo' \in Seq(Words) /\ committed' \in 0 .. Len(fifo') /\ hold' \in BOOLEAN
          /\ (AllCommitted => AllCommitted') /\ fifo' = fifo
      <4>1. <<>> \in Seq(Words)
        OBVIOUS
      <4> QED
        BY <3>1, <4>1, CtrlWritten
    <3>3. UNCHANGED <<rows, rom, regs, committed>>
      BY <3>1 DEF WriteCtrl
    <3>4. /\ past' \in Pasts /\ (Held => past'.freed)
          /\ past'.spoilt = past.spoilt /\ (past.freed => past'.freed)
      BY <3>1 DEF ChipTypes, Held, Pasts
    <3> QED
      BY <2>1, <3>2, <3>3, <3>4 DEF ChipTypes, link, Held
  <2>3. CASE engine_link_point
    <3>1. UNCHANGED <<chip, past>>
      BY <2>3 DEF engine_link_point
    <3> QED
      BY <2>1, <3>1 DEF ChipTypes, chip, link, AllCommitted, Held
  <2> QED
    BY <1>4, <2>2, <2>3 DEF VoiceEnds
<1>5. CASE VoiceWrites
  <2>1. /\ running /\ UNCHANGED <<chip, image, paused, running, script, attempts, tick, past>>
        /\ pending' \subseteq Regs
    BY <1>5 DEF VoiceWrites, tasks, ChipTypes, Regs
  <2> QED
    BY <2>1 DEF ChipTypes, chip, AllCommitted, Held
<1> QED
  BY <1>1, <1>2, <1>3, <1>4, <1>5 DEF engine_task, VoiceTask

(* A pass applies what is committed, and changes nothing else but the      *)
(* self-test's counters, when that program runs.                           *)
LEMMA PassTakes ==
  ASSUME LinkInv, ChipTypes, Pass
  PROVE  /\ ChipTypes' /\ committed' = 0
         /\ UNCHANGED <<hold, rows, rom, link, script, attempts, tick, past>>
         /\ AllCommitted => QueueEmpty'
         /\ committed = 0 => fifo' = fifo /\ ~hold
         /\ \A i \in 1 .. Len(fifo') : fifo'[i] = fifo[committed + i]
         /\ Len(fifo') = Len(fifo) - committed
         /\ \A r \in Regs :
              \/ /\ regs'[r] = regs[r] \/ (~hold /\ Loaded("test") /\ r = Counter /\ regs'[r] = "test")
                 /\ \A i \in 1 .. committed : fifo[i][1] # r
              \/ \E i \in 1 .. committed : fifo[i] = <<r, regs'[r]>>
         /\ committed > 0 => regs'[fifo[committed][1]] = fifo[committed][2]
<1>1. /\ ~hold \/ committed > 0
      /\ regs' = Applied(Computed, SubSeq(fifo, 1, committed))
      /\ fifo' = SubSeq(fifo, committed + 1, Len(fifo)) /\ committed' = 0
      /\ UNCHANGED <<hold, rows, rom, link, script, attempts, tick, past>>
  BY DEF Pass, tasks
<1>2. fifo \in Seq(Words) /\ Len(fifo) \in Nat /\ committed \in 0 .. Len(fifo)
  BY DEF ChipTypes
<1>3. /\ fifo' \in Seq(Words) /\ Len(fifo') = Len(fifo) - committed
      /\ \A i \in 1 .. Len(fifo') : fifo'[i] = fifo[committed + i]
  <2>1. /\ fifo' \in Seq(Words)
        /\ Len(fifo') = IF committed + 1 <= Len(fifo)
                        THEN Len(fifo) - (committed + 1) + 1 ELSE 0
        /\ \A i \in 1 .. Len(fifo) - (committed + 1) + 1 : fifo'[i] = fifo[committed + 1 + i - 1]
    BY <1>1, <1>2, SubSeqProperties
  <2> QED
    BY <1>2, <2>1
<1> DEFINE words == SubSeq(fifo, 1, committed)
<1>4. words \in Seq(Words) /\ Len(words) = committed /\ \A i \in 1 .. committed : words[i] = fifo[i]
  <2>1. /\ words \in Seq(Words)
        /\ Len(words) = IF 1 <= committed THEN committed - 1 + 1 ELSE 0
        /\ \A i \in 1 .. committed - 1 + 1 : words[i] = fifo[1 + i - 1]
    BY <1>2, SubSeqProperties
  <2> QED
    BY <1>2, <2>1
<1>5. /\ Computed \in [Regs -> Values]
      /\ \A r \in Regs : \/ Computed[r] = regs[r]
                         \/ ~hold /\ Loaded("test") /\ r = Counter /\ Computed[r] = "test"
  <2>1. regs \in [Regs -> Values] /\ "test" \in Values /\ Counter \in Regs
    BY DEF ChipTypes, Values, Regs
  <2>2. CASE ~hold /\ rows = "test" /\ rom = "test"
    <3>1. Computed = [regs EXCEPT ![Counter] = "test"]
      BY <2>2 DEF Computed
    <3> QED
      BY <2>1, <2>2, <3>1 DEF Loaded
  <2>3. CASE hold \/ ~(rows = "test" /\ rom = "test")
    <3>1. Computed = regs
      BY <2>3 DEF Computed
    <3> QED
      BY <2>1, <3>1
  <2> QED
    BY <2>2, <2>3
<1> HIDE DEF words
<1>6. /\ regs' \in [Regs -> Values]
      /\ \A r \in Regs :
           \/ (\A i \in 1 .. Len(words) : words[i][1] # r) /\ regs'[r] = Computed[r]
           \/ \E i \in 1 .. Len(words) : words[i][1] = r /\ regs'[r] = words[i][2]
      /\ Len(words) > 0 => regs'[words[Len(words)][1]] = words[Len(words)][2]
  <2>1. regs' = Applied(Computed, words)
    BY <1>1 DEF words
  <2>2. Computed \in [Regs -> Values] /\ words \in Seq(Words)
    BY <1>4, <1>5
  <2>3. /\ Applied(Computed, words) \in [Regs -> Values]
        /\ \A r \in Regs :
             \/ /\ \A i \in 1 .. Len(words) : words[i][1] # r
                /\ Applied(Computed, words)[r] = Computed[r]
             \/ \E i \in 1 .. Len(words) :
                  words[i][1] = r /\ Applied(Computed, words)[r] = words[i][2]
        /\ Len(words) > 0 =>
             Applied(Computed, words)[words[Len(words)][1]] = words[Len(words)][2]
    BY <2>2, AppliedWords, Zenon
  <2> QED
    BY ONLY <2>1, <2>3, Zenon
<1>7. ASSUME NEW r \in Regs
      PROVE  \/ /\ \/ regs'[r] = regs[r]
                   \/ ~hold /\ Loaded("test") /\ r = Counter /\ regs'[r] = "test"
                /\ \A i \in 1 .. committed : fifo[i][1] # r
             \/ \E i \in 1 .. committed : fifo[i] = <<r, regs'[r]>>
  <2>1. ASSUME NEW i \in 1 .. committed, words[i][1] = r, regs'[r] = words[i][2]
        PROVE  fifo[i] = <<r, regs'[r]>>
    <3>1. words[i] = fifo[i] /\ fifo[i] \in Words
      BY <1>2, <1>4
    <3> QED
      BY <2>1, <3>1 DEF Words
  <2> QED
    BY <1>4, <1>5, <1>6, <2>1
<1>8. AllCommitted => QueueEmpty'
  BY <1>1, <1>2, <1>3 DEF AllCommitted, QueueEmpty
<1>9. committed = 0 => fifo' = fifo /\ ~hold
  <2>1. ASSUME committed = 0 PROVE fifo' = fifo
    <3>1. Len(fifo') = Len(fifo) /\ \A i \in 1 .. Len(fifo') : fifo'[i] = fifo[i]
      BY <1>2, <1>3, <2>1
    <3> QED
      BY <1>2, <1>3, <3>1, SeqEqual
  <2> QED
    BY <1>1, <1>2, <2>1
<1>10. ChipTypes'
  BY <1>1, <1>3, <1>6 DEF ChipTypes, link
<1>11. committed > 0 => regs'[fifo[committed][1]] = fifo[committed][2]
  BY <1>2, <1>4, <1>6
<1> QED
  BY <1>1, <1>3, <1>7, <1>8, <1>9, <1>10, <1>11

-----------------------------------------------------------------------------
(***************************************************************************)
(* The self-test, at the boot (engine_link_init) or as a command.          *)
(***************************************************************************)
(* Before the self-test's step at k of app_main.  The zeros it queues come  *)
(* last, and are applied last, if they get there; in the boot they are all *)
(* there is.                                                               *)
ZerosLast == Len(fifo) > 0 /\ fifo[Len(fifo)] = <<Counter, "zero">>
CountersOwn == regs[Counter] \in {"zero", "test"}

Testing(k) ==
  /\ k \in 6 .. 7 => running \/ AllCommitted
  /\ k \in 8 .. 10 => committed = 0
  /\ k \in 8 .. 9 => running \/ QueueEmpty
  /\ k = 8 => rows = "test"
  /\ k \in 9 .. 17 => Loaded("test")
  /\ k = 10 => past.spoilt \/ ZerosLast
  /\ k = 11 => \/ AllCommitted /\ (past.spoilt \/ ZerosLast)
               \/ QueueEmpty /\ (past.spoilt \/ CountersOwn)
  /\ k \in 12 .. 17 => QueueEmpty /\ (past.spoilt \/ CountersOwn)

(* The self-test needs nothing but these.                                  *)
LEMMA TestingKept ==
  ASSUME NEW k \in 6 .. 17, Testing(k),
         UNCHANGED <<fifo, committed, regs, rows, rom, running>>, past'.spoilt = past.spoilt
  PROVE  Testing(k)'
BY DEF Testing, AllCommitted, QueueEmpty, Loaded, ZerosLast, CountersOwn

(* A pass between two of its steps, even with its program already running. *)
LEMMA TestingPass ==
  ASSUME LinkInv, ChipTypes, Pass, NEW k \in 6 .. 17, Testing(k)
  PROVE  Testing(k)'
<1>1. /\ committed' = 0 /\ UNCHANGED <<rows, rom, running, past>>
      /\ AllCommitted => QueueEmpty'
      /\ committed = 0 => fifo' = fifo
      /\ committed > 0 => regs'[fifo[committed][1]] = fifo[committed][2]
      /\ \/ regs'[Counter] = regs[Counter] \/ regs'[Counter] = "test"
         \/ \E i \in 1 .. committed : fifo[i] = <<Counter, regs'[Counter]>>
  BY PassTakes DEF Regs, link
<1>2. QueueEmpty => QueueEmpty' /\ (CountersOwn => CountersOwn')
  BY <1>1 DEF QueueEmpty, CountersOwn
<1>3. QueueEmpty' => AllCommitted'
  BY DEF QueueEmpty, AllCommitted
<1>4. CASE k \in 6 .. 10 \/ k \in 12 .. 17
  BY <1>1, <1>2, <1>3, <1>4 DEF Testing, Loaded, ZerosLast
<1>5. CASE k = 11
  <2>1. CASE AllCommitted /\ (past.spoilt \/ ZerosLast)
    <3>1. ZerosLast => CountersOwn'
      BY <1>1, <2>1 DEF ZerosLast, CountersOwn, AllCommitted
    <3> QED
      BY <1>1, <1>5, <2>1, <3>1 DEF Testing, Loaded
  <2>2. CASE QueueEmpty /\ (past.spoilt \/ CountersOwn)
    BY <1>1, <1>2, <1>5, <2>2 DEF Testing, Loaded
  <2> QED
    BY <1>5, <2>1, <2>2 DEF Testing
<1> QED
  BY <1>4, <1>5

(* A CTRL dword on its own.                                                *)
LEMMA CtrlAlone ==
  ASSUME ChipTypes, NEW bits, WriteCtrl(bits, <<>>)
  PROVE  /\ fifo' = fifo /\ hold' = ("hold" \in bits) /\ hold' \in BOOLEAN
         /\ committed' = (IF "swap" \in bits THEN Len(fifo) ELSE committed)
         /\ committed' \in 0 .. Len(fifo) /\ UNCHANGED <<rows, rom, regs>>
<1>1. Len(fifo) \in Nat /\ committed \in 0 .. Len(fifo)
  BY DEF ChipTypes
<1> QED
  BY <1>1, QueuedNothing DEF WriteCtrl

(* One word queued.                                                        *)
LEMMA QueuedOne ==
  ASSUME ChipTypes, NEW word \in Words, WriteWords(<<word>>)
  PROVE  /\ fifo' \in Seq(Words) /\ committed \in 0 .. Len(fifo')
         /\ UNCHANGED <<hold, rows, rom, regs, committed>>
         /\ Len(fifo) < CAPACITY =>
              /\ Len(fifo') = Len(fifo) + 1 /\ fifo'[Len(fifo) + 1] = word
              /\ \A i \in 1 .. Len(fifo) : fifo'[i] = fifo[i]
<1> DEFINE one == <<word>>
<1>1. one \in Seq(Words) /\ Len(one) = 1 /\ one[1] = word
  OBVIOUS
<1>2. fifo' = Queued(one) /\ UNCHANGED <<hold, rows, rom, regs, committed>>
  BY DEF WriteWords
<1>3. Len(fifo) \in Nat /\ committed \in 0 .. Len(fifo) /\ CAPACITY \in Nat
  BY BootAssumption DEF ChipTypes
<1> HIDE DEF one
<1>4. /\ fifo' \in Seq(Words) /\ Len(fifo) <= Len(fifo')
      /\ \A i \in 1 .. Len(fifo) : fifo'[i] = fifo[i]
      /\ \A i \in 1 .. Len(fifo') :
           \/ i <= Len(fifo)
           \/ i - Len(fifo) \in 1 .. Len(one) /\ fifo'[i] = one[i - Len(fifo)]
      /\ CAPACITY - Len(fifo) >= Len(one) => Len(fifo') = Len(fifo) + Len(one)
  BY <1>1, <1>2, QueuedWords
<1>5. committed \in 0 .. Len(fifo')
  BY <1>3, <1>4
<1>6. ASSUME Len(fifo) < CAPACITY
      PROVE  Len(fifo') = Len(fifo) + 1 /\ fifo'[Len(fifo) + 1] = word
  <2>1. Len(fifo') = Len(fifo) + 1
    BY <1>1, <1>3, <1>4, <1>6
  <2>2. Len(fifo) + 1 \in 1 .. Len(fifo') /\ ~(Len(fifo) + 1 <= Len(fifo))
    BY <1>3, <2>1
  <2>3. fifo'[Len(fifo) + 1] = one[Len(fifo) + 1 - Len(fifo)]
    BY <1>4, <2>2
  <2>4. Len(fifo) + 1 - Len(fifo) = 1
    BY <1>3
  <2> QED
    BY <1>1, <2>1, <2>3, <2>4
<1> QED
  BY <1>2, <1>4, <1>5, <1>6

(* One step of the self-test.                                              *)
LEMMA TestingStep ==
  ASSUME LinkInv, ChipTypes, MainTask, script # <<>>, ~Taken,
         NEW k \in 6 .. 16, Testing(k),
         next.op = app_main[k].op, k <= 12 => next.arg = app_main[k].arg
  PROVE  /\ Testing(k + 1)' /\ ChipTypes' /\ Goes
         /\ UNCHANGED <<attempts, tick, running, paused>>
         /\ past' \in Pasts /\ past'.freed = past.freed /\ (k # 9 => past' = past)
         /\ k \in 6 .. 11 => (hold => hold') /\ (Held => Held')
<1>0. past \in Pasts
  BY DEF ChipTypes
<1>1. CASE k \in {6, 10, 12}
  <2>1. /\ next.op = "ctrl"
        /\ k = 6 => next.arg = {"hold"}
        /\ k = 10 => next.arg = {"hold", "swap"}
        /\ k = 12 => next.arg = {}
    <3>1. next.op = app_main[k].op /\ next.arg = app_main[k].arg
      BY <1>1
    <3>2. /\ app_main[6].op = "ctrl" /\ app_main[6].arg = {"hold"}
          /\ app_main[10].op = "ctrl" /\ app_main[10].arg = {"hold", "swap"}
          /\ app_main[12].op = "ctrl" /\ app_main[12].arg = {}
      BY AppMainSteps DEF Ctrl, Step
    <3> QED
      BY <1>1, <3>1, <3>2
  <2>2. /\ WriteCtrl(next.arg, <<>>) /\ Goes /\ paused' = paused
        /\ UNCHANGED <<image, pending, running, attempts, past, tick>>
    BY <2>1, MainTakes DEF ChipTypes
  <2>3. /\ fifo' = fifo /\ hold' = ("hold" \in next.arg) /\ hold' \in BOOLEAN
        /\ committed' = (IF "swap" \in next.arg THEN Len(fifo) ELSE committed)
        /\ committed' \in 0 .. Len(fifo) /\ UNCHANGED <<rows, rom, regs>>
    BY <2>2, CtrlAlone
  <2>4. ChipTypes'
    BY <2>2, <2>3 DEF ChipTypes
  <2>5. k \in {6, 10} => hold'
    BY <2>1, <2>3
  <2>6. CASE k = 6
    BY <1>0, <2>1, <2>2, <2>3, <2>4, <2>5, <2>6 DEF Testing, AllCommitted, Held
  <2>7. CASE k = 10
    <3>1. committed' = Len(fifo)
      BY <2>1, <2>3, <2>7
    <3> QED
      BY <1>0, <2>2, <2>3, <2>4, <2>5, <2>7, <3>1
      DEF Testing, Held, Loaded, AllCommitted, ZerosLast
  <2>8. CASE k = 12
    BY <1>0, <2>1, <2>2, <2>3, <2>4, <2>8 DEF Testing, QueueEmpty, Loaded, CountersOwn
  <2> QED
    BY <1>1, <2>6, <2>7, <2>8
<1>2. CASE k = 7
  <2>1. next.op = "rows" /\ next.arg = "test"
    BY <1>2, AppMainSteps DEF Rows, Step
  <2>2. /\ committed = 0 /\ rows' = "test" /\ Goes
        /\ UNCHANGED <<hold, rom, regs, fifo, committed, link, attempts, past, tick>>
    BY <2>1, MainTakes DEF LoadsOnto
  <2>3. running \/ QueueEmpty
    <3>1. AllCommitted => fifo \in Seq(Words) /\ Len(fifo) = 0
      BY <2>2 DEF AllCommitted, ChipTypes
    <3> QED
      BY <1>2, <2>2, <3>1 DEF Testing, QueueEmpty
  <2> QED
    BY <1>0, <1>2, <2>2, <2>3 DEF Testing, QueueEmpty, ChipTypes, link, Held
<1>3. CASE k = 8
  <2>1. next.op = "rom" /\ next.arg = "test"
    BY <1>3, AppMainSteps DEF Rom, Step
  <2>2. /\ committed = 0 /\ rom' = "test" /\ Goes
        /\ UNCHANGED <<hold, rows, regs, fifo, committed, link, attempts, past, tick>>
    BY <2>1, MainTakes DEF LoadsOnto
  <2> QED
    BY <1>0, <1>3, <2>2 DEF Testing, QueueEmpty, ChipTypes, link, Loaded, Held
<1>4. CASE k = 9
  <2>1. next.op = "queue" /\ next.arg = <<Counter, "zero">>
    BY <1>4, AppMainSteps, SMTT(30) DEF Queue, Step
  <2>2. QueuesOne /\ UNCHANGED <<attempts, tick>>
    BY <2>1, MainTakes
  <2>3. PICK kept \in Lossy(<<next.arg>>) :
          /\ WriteWords(kept)
          /\ past' = [past EXCEPT !.spoilt = (kept = <<>>) \/ (running /\ Len(fifo) >= CAPACITY)]
    BY <2>2 DEF QueuesOne
  <2>4. kept = <<>> \/ kept = <<next.arg>>
    BY LossyOne
  <2>5. Goes /\ UNCHANGED <<image, pending, paused, running>>
    BY <2>2 DEF QueuesOne, link
  <2>6. next.arg \in Words /\ next.arg = <<Counter, "zero">>
    BY <2>1 DEF Words, Regs, Values
  <2>7. committed = 0 /\ (running \/ Len(fifo) = 0) /\ Len(fifo) \in Nat /\ Loaded("test")
    BY <1>4 DEF Testing, QueueEmpty, ChipTypes
  <2>8. /\ past' \in Pasts /\ past'.freed = past.freed
        /\ past'.spoilt = ((kept = <<>>) \/ (running /\ Len(fifo) >= CAPACITY))
    BY <1>0, <2>3 DEF Pasts
  <2>9. CASE kept = <<>>
    <3>1. fifo' = fifo /\ UNCHANGED <<hold, rows, rom, regs, committed>>
      BY <2>3, <2>9, QueuedNothing DEF WriteWords
    <3>2. ChipTypes'
      BY <2>5, <2>8, <3>1 DEF ChipTypes
    <3>3. Testing(k + 1)'
      <4>1. past'.spoilt
        BY <2>8, <2>9
      <4> QED
        BY <1>4, <2>7, <3>1, <4>1 DEF Testing, Loaded
    <3> QED
      BY <1>4, <2>2, <2>5, <2>8, <3>1, <3>2, <3>3 DEF Held
  <2>10. CASE kept = <<next.arg>>
    <3> DEFINE word == next.arg
    <3>1. word \in Words /\ WriteWords(<<word>>)
      BY <2>3, <2>6, <2>10
    <3> HIDE DEF word
    <3>2. /\ fifo' \in Seq(Words) /\ committed \in 0 .. Len(fifo')
          /\ UNCHANGED <<hold, rows, rom, regs, committed>>
          /\ Len(fifo) < CAPACITY =>
               Len(fifo') = Len(fifo) + 1 /\ fifo'[Len(fifo) + 1] = word
      BY <3>1, QueuedOne
    <3>3. past'.spoilt \/ Len(fifo) < CAPACITY
      <4>1. CAPACITY \in Nat /\ 0 < CAPACITY
        BY BootAssumption
      <4>2. CASE Len(fifo) >= CAPACITY
        <5>1. Len(fifo) # 0
          BY <4>1, <4>2
        <5> QED
          BY <2>7, <2>8, <4>2, <5>1
      <4>3. CASE ~(Len(fifo) >= CAPACITY)
        BY <2>7, <4>1, <4>3
      <4> QED
        BY <4>2, <4>3
    <3>4. past'.spoilt \/ ZerosLast'
      BY <2>6, <2>7, <3>2, <3>3 DEF ZerosLast, word
    <3>5. ChipTypes'
      BY <2>5, <2>8, <3>2 DEF ChipTypes
    <3>6. Testing(k + 1)'
      BY <1>4, <2>7, <3>2, <3>4 DEF Testing, Loaded
    <3> QED
      BY <1>4, <2>2, <2>5, <2>8, <3>2, <3>5, <3>6 DEF Held
  <2> QED
    BY <2>4, <2>9, <2>10
<1>5. CASE k \in {11, 13, 15}
  <2>1. next.op = "wait"
    <3>1. app_main[11].op = "wait" /\ app_main[13].op = "wait" /\ app_main[15].op = "wait"
      BY AppMainSteps DEF Wait, Step
    <3> QED
      BY <1>5, <3>1
  <2>2. committed = 0 /\ Goes /\ UNCHANGED <<chip, link, attempts, past, tick>>
    BY <2>1, MainTakes
  <2>3. QueueEmpty /\ (past.spoilt \/ CountersOwn) /\ Loaded("test")
    <3>1. committed = 0 /\ AllCommitted /\ ~ZerosLast => QueueEmpty
      BY DEF AllCommitted, QueueEmpty, ZerosLast, ChipTypes
    <3>2. committed = 0 /\ AllCommitted => ~ZerosLast
      BY DEF AllCommitted, ZerosLast
    <3> QED
      BY <1>5, <2>2, <3>1, <3>2 DEF Testing
  <2>4. QueueEmpty' /\ (past'.spoilt \/ CountersOwn') /\ Loaded("test")'
    BY <2>2, <2>3 DEF QueueEmpty, Loaded, CountersOwn, chip
  <2>5. Testing(k + 1)'
    BY <1>5, <2>4 DEF Testing
  <2>6. UNCHANGED <<hold, fifo, committed, regs, image, pending, paused, running>>
    BY <2>2 DEF chip, link
  <2> QED
    BY <1>0, <2>2, <2>5, <2>6 DEF ChipTypes, Held
<1>6. CASE k \in {14, 16}
  <2>1. next.op \in {"touch", "check"}
    BY <1>6, AppMainSteps
  <2>2. Goes /\ UNCHANGED <<chip, link, attempts, past, tick>>
    BY <2>1, MainTakes
  <2>3. UNCHANGED <<hold, fifo, committed, regs, rows, rom, image, pending, paused, running>>
    BY <2>2 DEF chip, link
  <2>4. Testing(k + 1)'
    BY <1>6, <2>2, <2>3 DEF Testing, QueueEmpty, Loaded, CountersOwn
  <2>5. ChipTypes'
    BY <2>2, <2>3 DEF ChipTypes
  <2>6. UNCHANGED <<paused, running>>
    BY <2>3
  <2> QED
    <3>1. k \notin 6 .. 11
      BY <1>6
    <3>2. Goes /\ UNCHANGED <<attempts, tick, past>>
      BY <2>2
    <3> QED
      BY ONLY <1>0, <2>4, <2>5, <2>6, <3>1, <3>2
<1> QED
  BY <1>1, <1>2, <1>3, <1>4, <1>5, <1>6

-----------------------------------------------------------------------------
(***************************************************************************)
(* The boot up to the clearing, and the clearing.                          *)
(***************************************************************************)
LEMMA SuffixCons ==
  ASSUME NEW S, NEW full \in Seq(S), NEW k \in 1 .. Len(full)
  PROVE  Suffix(full, k) = <<full[k]>> \o Suffix(full, k + 1)
<1> DEFINE s == Suffix(full, k)
           one == <<full[k]>>
           rest == Suffix(full, k + 1)
           t == one \o rest
<1>1. /\ s \in Seq(S) /\ Len(s) = Len(full) + 1 - k
      /\ \A i \in 1 .. Len(full) - k + 1 : s[i] = full[k + i - 1]
  BY SubSeqProperties DEF Suffix
<1>2. /\ rest \in Seq(S) /\ Len(rest) = Len(full) - k
      /\ \A i \in 1 .. Len(full) - (k + 1) + 1 : rest[i] = full[k + 1 + i - 1]
  BY SubSeqProperties DEF Suffix
<1>3. one \in Seq(S) /\ Len(one) = 1 /\ one[1] = full[k]
  OBVIOUS
<1> HIDE DEF s, one, rest
<1>4. /\ t \in Seq(S) /\ Len(t) = Len(one) + Len(rest)
      /\ \A i \in 1 .. Len(one) + Len(rest) :
           t[i] = IF i <= Len(one) THEN one[i] ELSE rest[i - Len(one)]
  BY ONLY <1>2, <1>3, ConcatProperties
<1> HIDE DEF t
<1>5. Len(s) = Len(t)
  BY <1>1, <1>2, <1>3, <1>4
<1>6. ASSUME NEW i \in 1 .. Len(s) PROVE s[i] = t[i]
  <2>1. i \in 1 .. Len(full) - k + 1 /\ Len(full) \in Nat
    BY <1>1
  <2>2. CASE i = 1
    BY <1>1, <1>2, <1>3, <1>4, <2>1, <2>2, SMTT(60)
  <2>3. CASE i > 1
    <3>1. t[i] = rest[i - 1]
      BY <1>2, <1>3, <1>4, <2>1, <2>3
    <3>2. rest[i - 1] = full[k + 1 + (i - 1) - 1] /\ k + 1 + (i - 1) - 1 = k + i - 1
      BY <1>2, <2>1, <2>3, SMTT(30)
    <3> QED
      BY <1>1, <2>1, <3>1, <3>2
  <2> QED
    BY <2>1, <2>2, <2>3
<1>7. s = t
  BY <1>1, <1>4, <1>5, <1>6, SeqEqual
<1> QED
  BY <1>7 DEF s, t, one, rest

(* The boot's step at k.                                                   *)
LEMMA AppMainAt ==
  ASSUME NEW k \in 1 .. 24, script = Suffix(app_main, k)
  PROVE  script # <<>> /\ next = app_main[k] /\ (Goes => script' = Suffix(app_main, k + 1))
<1>1. app_main \in Seq(Steps) /\ Len(app_main) = 24
  BY AppMainLen
<1>2. k \in 1 .. Len(app_main) + 1 /\ k <= Len(app_main) /\ k # Len(app_main) + 1
  BY <1>1
<1>3. /\ Suffix(app_main, k) # <<>>
      /\ Head(Suffix(app_main, k)) = app_main[k]
      /\ Tail(Suffix(app_main, k)) = Suffix(app_main, k + 1)
  BY ONLY <1>1, <1>2, SuffixStep, ZenonT(60)
<1> QED
  BY <1>3 DEF next, Goes

LEMMA AppMainCons ==
  /\ \A k \in 1 .. 24 : Suffix(app_main, k) = <<app_main[k]>> \o Suffix(app_main, k + 1)
  /\ \A k \in 1 .. 25 : Suffix(app_main, k) \in Seq(Steps)
  /\ Suffix(app_main, 25) = <<>>
<1>1. app_main \in Seq(Steps) /\ Len(app_main) = 24
  BY AppMainLen
<1>2. ASSUME NEW k \in 1 .. 24
      PROVE  Suffix(app_main, k) = <<app_main[k]>> \o Suffix(app_main, k + 1)
  <2>1. k \in 1 .. Len(app_main)
    BY <1>1
  <2> QED
    BY ONLY <1>1, <2>1, SuffixCons
<1>3. ASSUME NEW k \in 1 .. 25
      PROVE Suffix(app_main, k) \in Seq(Steps) /\ (k = 25 => Suffix(app_main, k) = <<>>)
  <2>1. k \in 1 .. Len(app_main) + 1 /\ (k = 25 => k = Len(app_main) + 1)
    BY <1>1
  <2> QED
    BY ONLY <1>1, <2>1, SuffixStep
<1>4. 25 \in 1 .. 25
  OBVIOUS
<1>5. Suffix(app_main, 25) = <<>>
  BY <1>3, <1>4
<1> QED
  BY <1>2, <1>3, <1>5

(* The boot up to the clearing: before the step at k.                      *)
TestsAt(k) ==
  /\ script = Suffix(app_main, k) /\ attempts = 0
  /\ k \in 1 .. 3 => RunsWholeProgram
  /\ k \in 4 .. 12 => hold
  /\ k = 5 => AllCommitted
  /\ k \in 6 .. 17 => Testing(k)

BootTests == \E k \in 1 .. 17 : TestsAt(k)

(* Of the registers not left to clear each is zero, or its zero is queued, *)
(* or was lost.                                                            *)
Cleared(left) ==
  /\ \A i \in 1 .. Len(fifo) : fifo[i][2] = "zero"
  /\ \A r \in Regs \ left :
       \/ regs[r] = "zero" \/ \E i \in 1 .. Len(fifo) : fifo[i][1] = r
       \/ r \in past.unclear

ClearsThen(left, since_commit) ==
  IF left = {} THEN Suffix(app_main, 19)
  ELSE <<Clear(left, since_commit)>> \o Suffix(app_main, 19)

(* The clearing: words of zero for the registers done, which the queue has *)
(* room for.                                                               *)
ClearsAt(left) ==
  \/ /\ left # {} /\ committed = 0
     /\ \E since_commit \in Nat :
          /\ script = ClearsThen(left, since_commit) /\ Len(fifo) <= since_commit
          /\ since_commit = 0 \/ since_commit < CAPACITY \div 2
  \/ script = Drain \o ClearsThen(left, 0)
  \/ script = <<Wait>> \o ClearsThen(left, 0) /\ AllCommitted

BootClears ==
  hold /\ attempts = 0 /\ \E left \in SUBSET Regs : Cleared(left) /\ ClearsAt(left)

(* The boot up to the clearing: a pass, a step only begun, a step taken.   *)
LEMMA BootTestsPass ==
  ASSUME LinkInv, ChipTypes, BootTests, Pass PROVE BootTests'
<1>1. PICK k \in 1 .. 17 :
        /\ script = Suffix(app_main, k) /\ attempts = 0
        /\ k \in 1 .. 3 => RunsWholeProgram
        /\ k \in 4 .. 12 => hold
        /\ k = 5 => AllCommitted
        /\ k \in 6 .. 17 => Testing(k)
  BY DEF BootTests, TestsAt
<1>2. /\ UNCHANGED <<hold, rows, rom, script, attempts, past>>
      /\ AllCommitted => QueueEmpty'
  BY PassTakes
<1>3. AllCommitted => AllCommitted'
  BY <1>2 DEF AllCommitted, QueueEmpty
<1>4. k \in 6 .. 17 => Testing(k)'
  BY <1>1, TestingPass
<1> QED
  BY <1>1, <1>2, <1>3, <1>4 DEF BootTests, TestsAt, RunsWholeProgram

LEMMA BootTestsKept ==
  ASSUME BootTests, Taken PROVE BootTests'
<1>1. UNCHANGED <<hold, rows, rom, script, attempts, past, committed, fifo, regs, running>>
  BY DEF Taken, chip, link
<1>2. PICK k \in 1 .. 17 :
        /\ script = Suffix(app_main, k) /\ attempts = 0
        /\ k \in 1 .. 3 => RunsWholeProgram
        /\ k \in 4 .. 12 => hold
        /\ k = 5 => AllCommitted
        /\ k \in 6 .. 17 => Testing(k)
  BY DEF BootTests, TestsAt
<1>3. k \in 6 .. 17 => Testing(k)'
  BY <1>1, <1>2, TestingKept
<1> QED
  BY <1>1, <1>2, <1>3 DEF BootTests, TestsAt, RunsWholeProgram, AllCommitted

LEMMA BootTestsMain ==
  ASSUME LinkInv, ChipTypes, BootTests, MainTask, ~Taken
  PROVE  (BootTests \/ BootClears)' /\ ChipTypes' /\ running' = running
<1>1. PICK k \in 1 .. 17 :
        /\ script = Suffix(app_main, k) /\ attempts = 0
        /\ k \in 1 .. 3 => RunsWholeProgram
        /\ k \in 4 .. 12 => hold
        /\ k = 5 => AllCommitted
        /\ k \in 6 .. 17 => Testing(k)
  BY DEF BootTests, TestsAt
<1>2. script # <<>> /\ next = app_main[k] /\ (Goes => script' = Suffix(app_main, k + 1))
  <2>1. k \in 1 .. 24
    OBVIOUS
  <2> QED
    BY <1>1, <2>1, AppMainAt
<1>3. CASE k \in {1, 2}
  <2>1. next.op = "touch"
    <3>1. app_main[1].op = "touch" /\ app_main[2].op = "touch"
      BY AppMainSteps DEF Touch, Step
    <3> QED
      BY <1>2, <1>3, <3>1
  <2>2. Goes /\ UNCHANGED <<chip, link, attempts, past>>
    BY <1>2, <2>1, MainTakes
  <2>3. k + 1 \in 1 .. 3 /\ RunsWholeProgram'
    BY <1>1, <1>3, <2>2 DEF RunsWholeProgram, chip
  <2>4. BootTests'
    BY <1>1, <1>2, <2>2, <2>3 DEF BootTests, TestsAt
  <2> QED
    BY <2>2, <2>4 DEF ChipTypes, chip, link
<1>4. CASE k \in {3, 4, 17}
  <2>1. /\ next.op = "ctrl" 
        /\ k # 4 => next.arg = {"hold"}
        /\ k = 4 => next.arg = {"hold", "swap"}
    <3>1. /\ app_main[3].op = "ctrl" /\ app_main[3].arg = {"hold"}
          /\ app_main[4].op = "ctrl" /\ app_main[4].arg = {"hold", "swap"}
          /\ app_main[17].op = "ctrl" /\ app_main[17].arg = {"hold"}
      BY AppMainSteps DEF Ctrl, Step
    <3> QED
      BY <1>2, <1>4, <3>1
  <2>2. /\ WriteCtrl(next.arg, <<>>) /\ Goes /\ paused' = paused
        /\ UNCHANGED <<image, pending, running, attempts, past, tick>>
    BY <1>2, <2>1, MainTakes DEF ChipTypes
  <2>3. /\ fifo' = fifo /\ hold' = ("hold" \in next.arg) /\ hold' \in BOOLEAN
        /\ committed' = (IF "swap" \in next.arg THEN Len(fifo) ELSE committed)
        /\ committed' \in 0 .. Len(fifo) /\ UNCHANGED <<rows, rom, regs>>
    BY <2>2, CtrlAlone
  <2>4. ChipTypes' /\ running' = running
    BY <2>2, <2>3 DEF ChipTypes
  <2>5. hold' = TRUE
    BY <1>4, <2>1, <2>3
  <2>6. CASE k = 3
    BY <1>1, <1>2, <2>2, <2>4, <2>5, <2>6 DEF BootTests, TestsAt
  <2>7. CASE k = 4
    <3>1. AllCommitted'
      BY <2>1, <2>3, <2>7 DEF AllCommitted
    <3> QED
      BY <1>1, <1>2, <2>2, <2>4, <2>5, <2>7, <3>1 DEF BootTests, TestsAt
  <2>8. CASE k = 17
    <3>1. script' = ClearsThen(Regs, 0)
      <4>1. script' = Suffix(app_main, 18)
        BY <1>2, <2>2, <2>8
      <4>2. Suffix(app_main, 18) = <<Clear(Regs, 0)>> \o Suffix(app_main, 19)
        <5>1. 18 \in 1 .. 24 /\ 18 + 1 = 19
          OBVIOUS
        <5>2. Suffix(app_main, 18) = <<app_main[18]>> \o Suffix(app_main, 18 + 1)
          BY <5>1, AppMainCons
        <5> QED
          BY <5>1, <5>2, AppMainSteps
      <4>3. Regs # {}
        BY DEF Regs
      <4> QED
        BY <4>1, <4>2, <4>3 DEF ClearsThen
    <3>2. fifo' = <<>> /\ committed' = 0 /\ Len(fifo') = 0
      BY <1>1, <2>1, <2>3, <2>8 DEF Testing, QueueEmpty
    <3>3. Cleared(Regs)'
      BY <3>2 DEF Cleared
    <3>4. Regs # {}
      BY DEF Regs
    <3>5. BootClears'
      BY <1>1, <2>2, <2>5, <3>1, <3>2, <3>3, <3>4 DEF BootClears, ClearsAt
    <3> QED
      BY <2>4, <3>5
  <2> QED
    BY <1>4, <2>6, <2>7, <2>8
<1>5. CASE k = 5
  <2>1. next.op = "wait"
    BY <1>2, <1>5, AppMainSteps DEF Wait, Step
  <2>2. committed = 0 /\ Goes /\ UNCHANGED <<chip, link, attempts, past>>
    BY <1>2, <2>1, MainTakes
  <2>3. AllCommitted' /\ hold'
    BY <1>1, <1>5, <2>2 DEF AllCommitted, chip
  <2>4. Testing(6)'
    BY <2>3 DEF Testing
  <2>5. BootTests'
    BY <1>1, <1>2, <1>5, <2>2, <2>3, <2>4 DEF BootTests, TestsAt
  <2> QED
    BY <2>2, <2>5 DEF ChipTypes, chip, link
<1>6. CASE k \in 6 .. 16
  <2>1. /\ Testing(k + 1)' /\ ChipTypes' /\ Goes
        /\ UNCHANGED <<attempts, running>>
        /\ k \in 6 .. 11 => (hold => hold')
    BY <1>1, <1>2, <1>6, TestingStep, SMTT(30)
  <2>2. k + 1 \in 7 .. 17
    BY <1>6
  <2>3. k + 1 \in 4 .. 12 => hold'
    BY <1>1, <1>6, <2>1
  <2>4. BootTests'
    BY <1>1, <1>2, <2>1, <2>2, <2>3 DEF BootTests, TestsAt
  <2> QED
    BY <2>1, <2>4
<1> QED
  BY <1>3, <1>4, <1>5, <1>6

-----------------------------------------------------------------------------
BootLoads ==
  \E k \in 19 .. 21 :
    /\ script = Suffix(app_main, k) /\ attempts = 0
    /\ hold /\ QueueEmpty /\ \A r \in Regs : regs[r] = "zero" \/ r \in past.unclear
    /\ k = 20 => rows = "control"
    /\ k = 21 => Loaded("control")

(* Two steps before a script are one and then the other.                   *)
LEMMA ConsTwo ==
  ASSUME NEW S, NEW s \in Seq(S), NEW a \in S, NEW b \in S
  PROVE  <<a, b>> \o s = <<a>> \o (<<b>> \o s)
<1> DEFINE one == <<a>>
           two == <<b>>
           both == <<a, b>>
<1>1. /\ one \in Seq(S) /\ Len(one) = 1 /\ one[1] = a
      /\ two \in Seq(S) /\ Len(two) = 1 /\ two[1] = b
      /\ both \in Seq(S) /\ Len(both) = 2 /\ both[1] = a /\ both[2] = b
  OBVIOUS
<1> HIDE DEF one, two, both
<1>2. /\ one \o two \in Seq(S) /\ Len(one \o two) = Len(one) + Len(two)
      /\ \A i \in 1 .. Len(one) + Len(two) : (one \o two)[i] =
           IF i <= Len(one) THEN one[i] ELSE two[i - Len(one)]
  BY <1>1, ConcatProperties
<1> DEFINE pair == one \o two
<1> HIDE DEF pair
<1>3. pair \in Seq(S) /\ Len(pair) = 2 /\ pair[1] = a /\ pair[2] = b
  BY <1>1, <1>2 DEF pair
<1>4. pair = both
  <2>1. \A i \in 1 .. Len(pair) : pair[i] = both[i]
    BY <1>1, <1>3
  <2> QED
    BY <1>1, <1>3, <2>1, SeqEqual
<1>5. (one \o two) \o s = one \o (two \o s)
  <2> HIDE DEF pair
  <2>1. s \in Seq(S) /\ one \in Seq(S) /\ two \in Seq(S)
    BY <1>1
  <2> QED
    BY ONLY <2>1, ConcatAssociative, SMTT(60)
<1> QED
  BY <1>4, <1>5 DEF pair, one, two, both

(* The heads and tails of the clearing's scripts.                          *)
LEMMA ClearScripts ==
  ASSUME NEW left, NEW n
  PROVE  LET more == ClearsThen(left, n)
             S == {Clear(left, n)} \union Steps IN
         /\ more \in Seq(S)
         /\ left # {} => /\ more # <<>> /\ Head(more) = Clear(left, n)
                         /\ Tail(more) = Suffix(app_main, 19)
         /\ <<Wait>> \o more # <<>> /\ Head(<<Wait>> \o more) = Wait
         /\ Tail(<<Wait>> \o more) = more
         /\ Drain \o more # <<>> /\ Head(Drain \o more) = Ctrl({"hold", "swap"})
         /\ Tail(Drain \o more) = <<Wait>> \o more
<1> DEFINE e == Clear(left, n)
           S == {e} \union Steps
           rest == Suffix(app_main, 19)
           more == ClearsThen(left, n)
<1>1. rest \in Seq(Steps)
  BY AppMainCons
<1>2. rest \in Seq(S)
  BY <1>1
<1>3. more \in Seq(S) /\ (left = {} => more = rest) /\ (left # {} => more = <<e>> \o rest)
  <2>1. <<e>> \o rest \in Seq(S)
    BY <1>2
  <2> QED
    BY <1>2, <2>1 DEF ClearsThen
<1>4. left # {} => more # <<>> /\ Head(more) = e /\ Tail(more) = rest
  <2>1. e \in S
    OBVIOUS
  <2> HIDE DEF e, rest, more, S
  <2>2. <<e>> \o rest # <<>> /\ Head(<<e>> \o rest) = e /\ Tail(<<e>> \o rest) = rest
    BY <1>2, <2>1
  <2> QED
    BY <1>3, <2>2
<1>5. Wait \in S /\ Ctrl({"hold", "swap"}) \in S
  BY StepTypes
<1> HIDE DEF e, rest, more, S
<1>6. /\ <<Wait>> \o more # <<>> /\ Head(<<Wait>> \o more) = Wait
      /\ Tail(<<Wait>> \o more) = more /\ <<Wait>> \o more \in Seq(S)
  BY <1>3, <1>5
<1>7. Drain \o more = <<Ctrl({"hold", "swap"})>> \o (<<Wait>> \o more)
  BY <1>3, <1>5, ConsTwo DEF Drain
<1> DEFINE c == Ctrl({"hold", "swap"})
           waits == <<Wait>> \o more
<1> HIDE DEF c, waits
<1>8. c \in S /\ waits \in Seq(S)
  BY <1>5, <1>6 DEF c, waits
<1>9. <<c>> \o waits # <<>> /\ Head(<<c>> \o waits) = c /\ Tail(<<c>> \o waits) = waits
  BY <1>8
<1> QED
  BY <1>3, <1>4, <1>6, <1>7, <1>9 DEF c, waits, e, rest, more, S

(* What a pass applies of the clearing's words.                            *)
LEMMA ClearedPass ==
  ASSUME LinkInv, ChipTypes, hold, NEW left \in SUBSET Regs, Cleared(left), Pass
  PROVE  Cleared(left)'
<1>1. /\ \A i \in 1 .. Len(fifo') : fifo'[i] = fifo[committed + i]
      /\ Len(fifo') = Len(fifo) - committed /\ past' = past
      /\ \A r \in Regs :
           \/ regs'[r] = regs[r] /\ \A i \in 1 .. committed : fifo[i][1] # r
           \/ \E i \in 1 .. committed : fifo[i] = <<r, regs'[r]>>
  BY PassTakes
<1>2. Len(fifo) \in Nat /\ committed \in 0 .. Len(fifo)
  BY DEF ChipTypes
<1>3. ASSUME NEW i \in 1 .. Len(fifo') PROVE fifo'[i][2] = "zero"
  <2>1. committed + i \in 1 .. Len(fifo)
    BY <1>1, <1>2
  <2> QED
    BY <1>1, <2>1 DEF Cleared
<1>4. ASSUME NEW r \in Regs \ left
      PROVE  \/ regs'[r] = "zero" \/ \E i \in 1 .. Len(fifo') : fifo'[i][1] = r
             \/ r \in past'.unclear
  <2>1. CASE \E i \in 1 .. committed : fifo[i] = <<r, regs'[r]>>
    <3>1. PICK i \in 1 .. committed : fifo[i] = <<r, regs'[r]>>
      BY <2>1
    <3>2. i \in 1 .. Len(fifo) /\ fifo[i][2] = regs'[r]
      BY <1>2, <3>1
    <3> QED
      BY <3>2 DEF Cleared
  <2>2. CASE regs'[r] = regs[r] /\ \A i \in 1 .. committed : fifo[i][1] # r
    <3>1. CASE regs[r] = "zero" \/ r \in past.unclear
      BY <1>1, <2>2, <3>1
    <3>2. CASE ~(regs[r] = "zero" \/ r \in past.unclear)
      <4>1. PICK i \in 1 .. Len(fifo) : fifo[i][1] = r
        BY <3>2 DEF Cleared
      <4>2. i \notin 1 .. committed
        BY <2>2, <4>1
      <4>3. i - committed \in 1 .. Len(fifo') /\ committed + (i - committed) = i
        BY <1>1, <1>2, <4>2
      <4>4. fifo'[i - committed] = fifo[i]
        BY <1>1, <4>3
      <4> QED
        BY <4>1, <4>3, <4>4
    <3> QED
      BY <3>1, <3>2
  <2> QED
    BY <1>1, <2>1, <2>2
<1> QED
  BY <1>3, <1>4 DEF Cleared

LEMMA BootClearsPass ==
  ASSUME LinkInv, ChipTypes, BootClears, Pass PROVE BootClears'
<1>1. PICK left \in SUBSET Regs : hold /\ attempts = 0 /\ Cleared(left) /\ ClearsAt(left)
  BY DEF BootClears
<1>2. UNCHANGED <<hold, script, attempts>> /\ committed # 0 /\ (AllCommitted => AllCommitted')
  BY <1>1, PassTakes DEF AllCommitted, QueueEmpty
<1>3. Cleared(left)'
  BY <1>1, ClearedPass
<1>4. \/ script' = Drain \o ClearsThen(left, 0)
      \/ script' = <<Wait>> \o ClearsThen(left, 0) /\ AllCommitted'
  BY <1>1, <1>2 DEF ClearsAt
<1> QED
  BY <1>1, <1>2, <1>3, <1>4 DEF BootClears, ClearsAt

LEMMA BootClearsKept == ASSUME BootClears, Taken PROVE BootClears'
<1>1. UNCHANGED <<hold, regs, fifo, committed, script, attempts, past>>
  BY DEF Taken, chip
<1> QED
  BY <1>1 DEF BootClears, ClearsAt, Cleared, AllCommitted

(* A register more is cleared.                                             *)
LEMMA ClearsOneMore ==
  ASSUME ChipTypes, NEW left \in SUBSET Regs, Cleared(left), left # {}, committed = 0,
         NEW n \in Nat, script = ClearsThen(left, n), Len(fifo) <= n,
         n = 0 \/ n < CAPACITY \div 2, ClearsOne
  PROVE  /\ ChipTypes' /\ UNCHANGED <<hold, running>>
         /\ \E more \in SUBSET Regs : Cleared(more)' /\ ClearsAt(more)'
<1>1. next = Clear(left, n) /\ Tail(script) = Suffix(app_main, 19)
  BY ClearScripts DEF next
<1>2. next.arg.left = left /\ next.arg.since_commit = n
  BY <1>1 DEF Clear, Step
<1>3. PICK r \in left :
        LET now == left \ {r}
            commits == now = {} \/ n + 1 >= CAPACITY \div 2
        IN  /\ \E kept \in Lossy(<<<<r, "zero">>>>) :
                 /\ WriteWords(kept)
                 /\ past' = IF kept = <<>>
                            THEN [past EXCEPT !.unclear = @ \union {r}] ELSE past
            /\ script' = (IF commits THEN Drain ELSE <<>>)
                         \o (IF now = {} THEN <<>>
                             ELSE <<Clear(now, IF commits THEN 0 ELSE n + 1)>>)
                         \o Suffix(app_main, 19)
  BY <1>1, <1>2 DEF ClearsOne
<1> DEFINE now == left \ {r}
           commits == now = {} \/ n + 1 >= CAPACITY \div 2
           word == <<r, "zero">>
           rest == Suffix(app_main, 19)
<1>4. /\ word \in Words /\ word[1] = r /\ word[2] = "zero" /\ r \in Regs
      /\ past \in Pasts /\ fifo \in Seq(Words) /\ Len(fifo) \in Nat
  BY DEF Words, Values, ChipTypes
<1>5. Len(fifo) < CAPACITY
  BY <1>4, BootAssumption
<1> HIDE DEF word
<1>6. PICK kept \in Lossy(<<word>>) :
        /\ WriteWords(kept)
        /\ past' = IF kept = <<>> THEN [past EXCEPT !.unclear = @ \union {r}] ELSE past
  BY <1>3 DEF word
<1>7. /\ UNCHANGED <<hold, rows, rom, regs, committed, image, pending, paused, running>>
      /\ past' \in Pasts /\ past.unclear \subseteq past'.unclear
      /\ kept = <<>> => r \in past'.unclear
  BY <1>4, <1>6 DEF WriteWords, ClearsOne, link, Pasts
<1>8. /\ ChipTypes' /\ UNCHANGED <<hold, running>>
      /\ Cleared(now)' /\ Len(fifo') <= n + 1
  <2>1. ASSUME NEW q \in Regs \ left
        PROVE  \/ regs[q] = "zero" \/ \E i \in 1 .. Len(fifo) : fifo[i][1] = q
               \/ q \in past.unclear
    BY DEF Cleared
  <2>2. \A i \in 1 .. Len(fifo) : fifo[i][2] = "zero"
    BY DEF Cleared
  <2>3. CASE kept = <<>>
    <3>1. fifo' = fifo
      BY <1>6, <2>3, QueuedNothing DEF WriteWords
    <3>2. ChipTypes'
      BY <1>7, <3>1 DEF ChipTypes
    <3>3. Cleared(now)'
      BY <1>7, <2>1, <2>2, <2>3, <3>1 DEF Cleared
    <3> QED
      BY <1>4, <1>7, <3>1, <3>2, <3>3
  <2>4. CASE kept = <<word>>
    <3>1. /\ fifo' \in Seq(Words) /\ committed \in 0 .. Len(fifo')
          /\ Len(fifo') = Len(fifo) + 1 /\ fifo'[Len(fifo) + 1] = word
          /\ \A i \in 1 .. Len(fifo) : fifo'[i] = fifo[i]
      BY <1>4, <1>5, <1>6, <2>4, QueuedOne
    <3>2. ChipTypes'
      BY <1>7, <3>1 DEF ChipTypes
    <3>3. \A i \in 1 .. Len(fifo') : fifo'[i][2] = "zero"
      BY <1>4, <2>2, <3>1
    <3>4. ASSUME NEW q \in Regs \ now
          PROVE  \/ regs'[q] = "zero" \/ \E i \in 1 .. Len(fifo') : fifo'[i][1] = q
                 \/ q \in past'.unclear
      <4>1. CASE q = r
        <5>1. Len(fifo) + 1 \in 1 .. Len(fifo') /\ fifo'[Len(fifo) + 1][1] = q
          BY <1>4, <3>1, <4>1
        <5> QED
          BY <5>1
      <4>2. CASE q # r
        <5>1. ASSUME NEW i \in 1 .. Len(fifo), fifo[i][1] = q
              PROVE  i \in 1 .. Len(fifo') /\ fifo'[i][1] = q
          BY <1>4, <3>1, <5>1
        <5> QED
          BY <1>7, <2>1, <4>2, <5>1
      <4> QED
        BY <4>1, <4>2
    <3>5. Cleared(now)'
      BY <3>3, <3>4 DEF Cleared
    <3> QED
      BY <1>4, <1>7, <3>1, <3>2, <3>5
  <2> QED
    BY <2>3, <2>4, LossyOne
<1>9. ClearsAt(now)'
  <2>1. rest \in Seq(Steps)
    BY AppMainCons
  <2> HIDE DEF rest
  <2>2. CASE now = {}
    <3>1. script' = (Drain \o <<>>) \o rest
      BY <1>3, <2>2 DEF rest
    <3>2. Drain \in Seq(Steps)
      BY StepTypes DEF Drain
    <3>3. Drain \o <<>> = Drain
      BY <3>2, ConcatEmptySeq
    <3> QED
      BY <2>2, <3>1, <3>3 DEF ClearsAt, ClearsThen, rest
  <2>3. CASE now # {} /\ commits
    <3> DEFINE e == Clear(now, 0)
               S == {e} \union Steps
    <3>1. script' = (Drain \o <<e>>) \o rest
      BY <1>3, <2>3 DEF rest
    <3>2. Drain \in Seq(S) /\ <<e>> \in Seq(S) /\ rest \in Seq(S)
      BY <2>1, StepTypes DEF Drain
    <3> HIDE DEF e, S
    <3>3. (Drain \o <<e>>) \o rest = Drain \o (<<e>> \o rest)
      BY <3>2, ConcatAssociative
    <3> QED
      BY <2>3, <3>1, <3>3 DEF ClearsAt, ClearsThen, rest, e
  <2>4. CASE ~commits
    <3> DEFINE e == Clear(now, n + 1)
    <3>1. script' = (<<>> \o <<e>>) \o rest
      BY <1>3, <2>4 DEF rest
    <3> HIDE DEF e
    <3>2. <<e>> \in Seq({e})
      OBVIOUS
    <3>3. <<>> \o <<e>> = <<e>>
      BY <3>2, ConcatEmptySeq
    <3>4. script' = ClearsThen(now, n + 1) /\ now # {}
      BY <2>4, <3>1, <3>3 DEF ClearsThen, rest, e
    <3>5. n + 1 \in Nat /\ n + 1 < CAPACITY \div 2 /\ Len(fifo') <= n + 1 /\ committed' = 0
      <4>1. CAPACITY \div 2 \in Int /\ ~(n + 1 >= CAPACITY \div 2)
        BY <2>4, BootAssumption
      <4> QED
        BY <1>7, <1>8, <4>1
    <3> QED
      BY <3>4, <3>5 DEF ClearsAt
  <2> QED
    BY <2>2, <2>3, <2>4
<1> QED
  BY <1>8, <1>9

-----------------------------------------------------------------------------
(***************************************************************************)
(* The load and the image.                                                 *)
(***************************************************************************)
LEMMA BootClearsMain ==
  ASSUME LinkInv, ChipTypes, BootClears, MainTask, ~Taken
  PROVE  (BootClears \/ BootLoads)' /\ ChipTypes' /\ running' = running
<1>1. PICK left \in SUBSET Regs : hold /\ attempts = 0 /\ Cleared(left) /\ ClearsAt(left)
  BY DEF BootClears
<1>2. CASE left # {} /\ committed = 0 /\
           \E n \in Nat :
             /\ script = ClearsThen(left, n) /\ Len(fifo) <= n
             /\ n = 0 \/ n < CAPACITY \div 2
  <2>1. PICK n \in Nat : /\ script = ClearsThen(left, n) /\ Len(fifo) <= n
                         /\ n = 0 \/ n < CAPACITY \div 2
    BY <1>2
  <2>2. script # <<>> /\ next.op = "clear"
    <3>1. script # <<>> /\ next = Clear(left, n)
      BY <1>2, <2>1, ClearScripts DEF next
    <3> QED
      BY <3>1 DEF Clear, Step
  <2>3. ClearsOne /\ UNCHANGED attempts
    BY <2>2, MainTakes
  <2>4. /\ ChipTypes' /\ UNCHANGED <<hold, running>>
        /\ \E more \in SUBSET Regs : Cleared(more)' /\ ClearsAt(more)'
    BY <1>1, <1>2, <2>1, <2>3, ClearsOneMore
  <2>5. BootClears'
    BY <1>1, <2>3, <2>4 DEF BootClears
  <2> QED
    BY <2>4, <2>5
<1>3. CASE script = Drain \o ClearsThen(left, 0)
  <2>1. /\ script # <<>> /\ next = Ctrl({"hold", "swap"})
        /\ Tail(script) = <<Wait>> \o ClearsThen(left, 0)
    BY <1>3, ClearScripts DEF next
  <2>2. next.op = "ctrl" /\ next.arg = {"hold", "swap"}
    BY <2>1 DEF Ctrl, Step
  <2>3. /\ WriteCtrl(next.arg, <<>>) /\ Goes /\ paused' = paused
        /\ UNCHANGED <<image, pending, running, attempts, past, tick>>
    BY <2>1, <2>2, MainTakes DEF ChipTypes
  <2>4. /\ fifo' = fifo /\ hold' = ("hold" \in next.arg) /\ hold' \in BOOLEAN
        /\ committed' = (IF "swap" \in next.arg THEN Len(fifo) ELSE committed)
        /\ committed' \in 0 .. Len(fifo) /\ UNCHANGED <<rows, rom, regs>>
    BY <2>3, CtrlAlone
  <2>5. ChipTypes' /\ running' = running
    BY <2>3, <2>4 DEF ChipTypes
  <2>6. AllCommitted' /\ Cleared(left)' /\ hold'
    BY <1>1, <2>2, <2>3, <2>4 DEF AllCommitted, Cleared
  <2>7. script' = <<Wait>> \o ClearsThen(left, 0)
    BY <2>1, <2>3 DEF Goes
  <2>8. BootClears'
    BY <1>1, <2>3, <2>6, <2>7 DEF BootClears, ClearsAt
  <2> QED
    BY <2>5, <2>8
<1>4. CASE script = <<Wait>> \o ClearsThen(left, 0) /\ AllCommitted
  <2>1. script # <<>> /\ next = Wait /\ Tail(script) = ClearsThen(left, 0)
    BY <1>4, ClearScripts DEF next
  <2>2. committed = 0 /\ Goes /\ UNCHANGED <<chip, link, attempts, past>>
    BY <2>1, MainTakes DEF Wait, Step
  <2>3. script' = ClearsThen(left, 0) /\ UNCHANGED <<hold, rows, rom, regs, fifo, committed>>
    BY <2>1, <2>2 DEF Goes, chip
  <2>4. Len(fifo) = 0 /\ fifo = <<>>
    <3>1. fifo \in Seq(Words) /\ 0 = Len(fifo)
      BY <1>4, <2>2 DEF AllCommitted, ChipTypes
    <3> QED
      BY ONLY <3>1, EmptySeq
  <2>5. ChipTypes' /\ running' = running
    BY <2>2, <2>3 DEF ChipTypes, link
  <2>6. CASE left # {}
    <3>1. Cleared(left)'
      BY <1>1, <2>2, <2>3 DEF Cleared
    <3>2. ClearsAt(left)'
      BY <2>2, <2>3, <2>4, <2>6 DEF ClearsAt
    <3>3. BootClears'
      BY <1>1, <2>2, <2>3, <3>1, <3>2 DEF BootClears, ClearsAt
    <3> QED
      BY <2>5, <3>3
  <2>7. CASE left = {}
    <3>1. script' = Suffix(app_main, 19)
      BY <2>3, <2>7 DEF ClearsThen
    <3>2. \A r \in Regs : regs'[r] = "zero" \/ r \in past'.unclear
      BY <1>1, <2>2, <2>3, <2>4, <2>7 DEF Cleared
    <3>3. BootLoads'
      BY <1>1, <2>2, <2>3, <2>4, <3>1, <3>2 DEF BootLoads, QueueEmpty
    <3> QED
      BY <2>5, <3>3
  <2> QED
    BY <2>6, <2>7
<1> QED
  BY <1>1, <1>2, <1>3, <1>4 DEF ClearsAt

-----------------------------------------------------------------------------
Send == Step("send", 0)

SetUp ==
  /\ image = [r \in Regs |-> IF r \in Set THEN "image" ELSE "unset"]
  /\ pending \subseteq Set
  /\ \A i \in 1 .. Len(fifo) : fifo[i][1] \in Set
  /\ \A r \in Regs \ Set : regs[r] = "zero" \/ r \in past.unclear

AsSent == \A r \in Regs : Known(r) => regs[r] = image[r]
SendsAt(k) ==
  /\ k = 23 => attempts \in 0 .. ATTEMPTS - 1
  /\ \/ /\ \/ script = <<Send>> \o Suffix(app_main, k) /\ QueueEmpty
           \/ script = <<Wait>> \o (<<Send>> \o Suffix(app_main, k)) /\ AllCommitted
           \/ script = <<Wait>> \o Suffix(app_main, k) /\ AllCommitted /\ pending = {}
        /\ k = 24 => past.complained
     \/ /\ script = Suffix(app_main, k) /\ QueueEmpty /\ pending = {}
        /\ k = 24 => past.complained \/ AsSent

BootSends ==
  /\ hold /\ Loaded("control") /\ SetUp
  /\ \E k \in 23 .. 24 : SendsAt(k)

(* With the queue empty and the processor held there is no pass.           *)
LEMMA NoPass == ASSUME LinkInv, ChipTypes, hold, QueueEmpty, Pass PROVE FALSE
BY PassTakes DEF QueueEmpty

LEMMA BootLoadsKept == ASSUME BootLoads, Taken PROVE BootLoads'
<1>1. UNCHANGED <<hold, rows, rom, regs, fifo, committed, script, attempts, past>>
  BY DEF Taken, chip
<1> QED
  BY <1>1 DEF BootLoads, QueueEmpty, Loaded

(* The load, and render::setup.                                            *)
LEMMA BootLoadsMain ==
  ASSUME LinkInv, ChipTypes, BootLoads, MainTask, ~Taken
  PROVE  (BootLoads \/ BootSends)' /\ ChipTypes' /\ running' = running
<1>1. PICK k \in 19 .. 21 :
        /\ script = Suffix(app_main, k) /\ attempts = 0
        /\ hold /\ QueueEmpty /\ \A r \in Regs : regs[r] = "zero" \/ r \in past.unclear
        /\ k = 20 => rows = "control"
        /\ k = 21 => Loaded("control")
  BY DEF BootLoads
<1>2. script # <<>> /\ next = app_main[k] /\ (Goes => script' = Suffix(app_main, k + 1))
  <2>1. k \in 1 .. 24
    OBVIOUS
  <2> QED
    BY <1>1, <2>1, AppMainAt
<1>3. CASE k = 19
  <2>1. next.op = "rows" /\ next.arg = "control"
    BY <1>2, <1>3, AppMainSteps DEF Rows, Step
  <2>2. /\ rows' = "control" /\ Goes
        /\ UNCHANGED <<hold, rom, regs, fifo, committed, link, attempts, past>>
    BY <1>2, <2>1, MainTakes DEF LoadsOnto
  <2>3. BootLoads'
    BY <1>1, <1>2, <1>3, <2>2 DEF BootLoads, QueueEmpty
  <2> QED
    BY <2>2, <2>3 DEF ChipTypes, link
<1>4. CASE k = 20
  <2>1. next.op = "rom" /\ next.arg = "control"
    BY <1>2, <1>4, AppMainSteps DEF Rom, Step
  <2>2. /\ rom' = "control" /\ Goes
        /\ UNCHANGED <<hold, rows, regs, fifo, committed, link, attempts, past>>
    BY <1>2, <2>1, MainTakes DEF LoadsOnto
  <2>3. BootLoads'
    BY <1>1, <1>2, <1>4, <2>2 DEF BootLoads, QueueEmpty, Loaded
  <2> QED
    BY <2>2, <2>3 DEF ChipTypes, link
<1>5. CASE k = 21
  <2>1. next.op = "setup"
    BY <1>2, <1>5, AppMainSteps DEF Step
  <2>2. MainSetsUp
    BY <1>2, <2>1, MainTakes
  <2>3. /\ Goes /\ image' = [r \in Regs |-> IF r \in Set THEN "image" ELSE "unset"]
        /\ pending' = Set
        /\ UNCHANGED <<hold, rows, rom, regs, fifo, committed, paused, running, attempts, past>>
    BY <2>2 DEF MainSetsUp, chip
  <2>4. ChipTypes' /\ running' = running
    <3>1. image' \in [Regs -> Values]
      BY <2>3 DEF Values
    <3>2. pending' \subseteq Regs
      BY <2>3 DEF Regs
    <3> QED
      BY <2>3, <3>1, <3>2 DEF ChipTypes
  <2>5. fifo' = <<>> /\ Len(fifo') = 0 /\ committed' = 0 /\ QueueEmpty'
    BY <1>1, <2>3 DEF QueueEmpty
  <2>6. SetUp'
    BY <1>1, <2>3, <2>5 DEF SetUp
  <2>7. script' = <<Send>> \o Suffix(app_main, 23)
    <3>1. 22 \in 1 .. 24 /\ 22 + 1 = 23 /\ 21 + 1 = 22
      OBVIOUS
    <3>2. Suffix(app_main, 22) = <<app_main[22]>> \o Suffix(app_main, 22 + 1)
      BY <3>1, AppMainCons
    <3> QED
      BY <1>2, <1>5, <2>3, <3>1, <3>2, AppMainSteps DEF Send
  <2>8. SendsAt(23)'
    <3>1. attempts' \in 0 .. ATTEMPTS - 1
      BY <1>1, <2>3, BootAssumption
    <3> QED
      BY <2>5, <2>7, <3>1 DEF SendsAt
  <2>9. BootSends'
    BY <1>1, <1>5, <2>3, <2>6, <2>8 DEF BootSends, Loaded
  <2> QED
    BY <2>4, <2>9
<1> QED
  BY <1>3, <1>4, <1>5

LEMMA AppMainTail ==
  ASSUME NEW k \in 1 .. 24 PROVE Tail(Suffix(app_main, k)) = Suffix(app_main, k + 1)
<1>1. app_main \in Seq(Steps) /\ k \in 1 .. Len(app_main) + 1 /\ k <= Len(app_main)
  BY AppMainLen
<1> QED
  BY ONLY <1>1, SuffixStep

(* The heads and tails of the sending's scripts.                           *)
LEMMA SendScripts ==
  ASSUME NEW k \in 23 .. 24
  PROVE  LET rest == Suffix(app_main, k) IN
         /\ <<Send>> \o rest # <<>> /\ Head(<<Send>> \o rest) = Send
         /\ Tail(<<Send>> \o rest) = rest
         /\ <<Wait>> \o rest # <<>> /\ Head(<<Wait>> \o rest) = Wait
         /\ Tail(<<Wait>> \o rest) = rest
         /\ <<Wait>> \o (<<Send>> \o rest) # <<>>
         /\ Head(<<Wait>> \o (<<Send>> \o rest)) = Wait
         /\ Tail(<<Wait>> \o (<<Send>> \o rest)) = <<Send>> \o rest
<1> DEFINE rest == Suffix(app_main, k)
           sends == <<Send>> \o rest
<1>1. rest \in Seq(Steps) /\ Send \in Steps /\ Wait \in Steps
  <2>1. k \in 1 .. 25
    OBVIOUS
  <2> QED
    BY <2>1, AppMainCons, StepTypes DEF Send
<1> HIDE DEF rest
<1>2. sends \in Seq(Steps) /\ sends # <<>> /\ Head(sends) = Send /\ Tail(sends) = rest
  BY <1>1
<1> HIDE DEF sends
<1>3. /\ <<Wait>> \o rest # <<>> /\ Head(<<Wait>> \o rest) = Wait
      /\ Tail(<<Wait>> \o rest) = rest
  BY <1>1
<1>4. /\ <<Wait>> \o sends # <<>> /\ Head(<<Wait>> \o sends) = Wait
      /\ Tail(<<Wait>> \o sends) = sends
  BY <1>1, <1>2
<1> QED
  BY <1>2, <1>3, <1>4 DEF sends, rest

LEMMA SendsKept == ASSUME BootSends, Taken PROVE BootSends'
<1>1. UNCHANGED <<hold, rows, rom, regs, fifo, committed, image, pending, script, attempts,
                  past>>
  BY DEF Taken, chip, link
<1> QED
  BY <1>1 DEF BootSends, SendsAt, SetUp, Loaded, QueueEmpty, AllCommitted, AsSent, Known

(* What a pass applies of the image's words.                               *)
LEMMA SetUpPass ==
  ASSUME LinkInv, ChipTypes, hold, SetUp, Pass PROVE SetUp'
<1>1. /\ \A i \in 1 .. Len(fifo') : fifo'[i] = fifo[committed + i]
      /\ Len(fifo') = Len(fifo) - committed /\ UNCHANGED <<image, pending, past>>
      /\ \A r \in Regs :
           \/ regs'[r] = regs[r] /\ \A i \in 1 .. committed : fifo[i][1] # r
           \/ \E i \in 1 .. committed : fifo[i] = <<r, regs'[r]>>
  BY PassTakes DEF link
<1>2. Len(fifo) \in Nat /\ committed \in 0 .. Len(fifo)
  BY DEF ChipTypes
<1>3. ASSUME NEW i \in 1 .. Len(fifo') PROVE fifo'[i][1] \in Set
  <2>1. committed + i \in 1 .. Len(fifo)
    BY <1>1, <1>2
  <2> QED
    BY <1>1, <2>1 DEF SetUp
<1>4. ASSUME NEW r \in Regs \ Set PROVE regs'[r] = "zero" \/ r \in past'.unclear
  <2>1. ASSUME NEW i \in 1 .. committed, fifo[i] = <<r, regs'[r]>> PROVE FALSE
    <3>1. i \in 1 .. Len(fifo) /\ fifo[i][1] = r
      BY <1>2, <2>1
    <3> QED
      BY <3>1 DEF SetUp
  <2> QED
    BY <1>1, <2>1 DEF SetUp
<1> QED
  BY <1>1, <1>3, <1>4 DEF SetUp

LEMMA BootSendsPass ==
  ASSUME LinkInv, ChipTypes, BootSends, Pass PROVE BootSends'
<1>1. PICK k \in 23 .. 24 : SendsAt(k)
  BY DEF BootSends
<1>2. hold /\ Loaded("control") /\ SetUp
  BY DEF BootSends
<1>3. ~QueueEmpty
  BY <1>2, NoPass
<1>4. /\ UNCHANGED <<hold, rows, rom, image, pending, script, attempts, past>>
      /\ AllCommitted => AllCommitted'
  BY PassTakes DEF AllCommitted, QueueEmpty, link
<1>5. SetUp'
  BY <1>2, SetUpPass
<1>7. SendsAt(k)'
  BY <1>1, <1>3, <1>4 DEF SendsAt
<1> QED
  BY <1>2, <1>4, <1>5, <1>7 DEF BootSends, Loaded

(* The image's chunks, the waits between them, and verify_boot_image.      *)
LEMMA BootSendsMain ==
  ASSUME LinkInv, ChipTypes, BootSends, MainTask, ~Taken, next.op # "release"
  PROVE  BootSends' /\ ChipTypes' /\ running' = running
<1>1. PICK k \in 23 .. 24 : SendsAt(k)
  BY DEF BootSends
<1>2. hold /\ Loaded("control") /\ SetUp
  BY DEF BootSends
<1> DEFINE rest == Suffix(app_main, k)
<1>3. CASE script = <<Send>> \o rest /\ QueueEmpty /\ (k = 24 => past.complained)
  <2>1. script # <<>> /\ next = Send /\ Tail(script) = rest
    BY <1>3, SendScripts DEF next
  <2>2. SendsHeld /\ UNCHANGED attempts
    BY <2>1, MainTakes DEF Send, Step
  <2>3. PICK words \in WordsOut(CAPACITY \div 2) :
          /\ \E kept \in Lossy(words) : WriteCtrl({"hold", "swap"}, kept)
          /\ pending' = pending \ Sent(words)
    BY <2>2 DEF SendsHeld
  <2>4. PICK kept \in Lossy(words) : WriteCtrl({"hold", "swap"}, kept)
    BY <2>3
  <2>5. /\ script' = <<Wait>> \o (IF pending' = {} THEN rest ELSE script)
        /\ UNCHANGED <<image, paused, running, past>>
    BY <2>1, <2>2 DEF SendsHeld
  <2>6. CAPACITY \div 2 \in Int
    BY BootAssumption
  <2>7. /\ words \in Seq(Words)
        /\ \A i \in 1 .. Len(words) : words[i][1] \in pending
    BY <2>6, WordsOutAre
  <2>8. /\ kept \in Seq(Words)
        /\ \A i \in 1 .. Len(kept) : kept[i][1] \in pending
    BY <2>7, LossyWords
  <2>9. /\ fifo' \in Seq(Words) /\ committed' \in 0 .. Len(fifo') /\ hold' \in BOOLEAN
        /\ AllCommitted'
    BY <2>4, <2>8, CtrlWritten
  <2>10. UNCHANGED <<rows, rom, regs>> /\ hold' /\ fifo' = Queued(kept)
    BY <2>4 DEF WriteCtrl
  <2>11. ChipTypes'
    BY <2>3, <2>5, <2>9, <2>10 DEF ChipTypes
  <2>12. \A i \in 1 .. Len(fifo') : fifo'[i][1] \in Set
    <3> TAKE i \in 1 .. Len(fifo')
    <3>1. Len(fifo) = 0
      BY <1>3 DEF QueueEmpty
    <3>2. \/ i <= Len(fifo)
          \/ i - Len(fifo) \in 1 .. Len(kept) /\ fifo'[i] = kept[i - Len(fifo)]
      BY <2>8, <2>10, QueuedWords
    <3>3. i - Len(fifo) \in 1 .. Len(kept) /\ fifo'[i] = kept[i - Len(fifo)]
      BY <3>1, <3>2
    <3> QED
      BY <1>2, <2>8, <3>3 DEF SetUp
  <2>13. SetUp'
    BY <1>2, <2>3, <2>5, <2>10, <2>12 DEF SetUp
  <2>14. SendsAt(k)'
    BY <1>1, <1>3, <2>2, <2>5, <2>9 DEF SendsAt
  <2>15. BootSends'
    BY <1>2, <2>10, <2>13, <2>14 DEF BootSends, Loaded
  <2> QED
    BY <2>5, <2>11, <2>15
<1>4. CASE /\ script \in {<<Wait>> \o (<<Send>> \o rest), <<Wait>> \o rest} /\ AllCommitted
           /\ script = <<Wait>> \o rest => pending = {}
           /\ k = 24 => past.complained
  <2>1. /\ script # <<>> /\ next = Wait
        /\ \/ Tail(script) = rest /\ pending = {} 
           \/ Tail(script) = <<Send>> \o rest
    BY <1>4, SendScripts DEF next
  <2>2. committed = 0 /\ Goes /\ UNCHANGED <<chip, link, attempts, past>>
    BY <2>1, MainTakes DEF Wait, Step
  <2>3. UNCHANGED <<hold, rows, rom, regs, fifo, committed, image, pending, paused, running>>
    BY <2>2 DEF chip, link
  <2>4. QueueEmpty'
    <3>1. fifo \in Seq(Words) /\ 0 = Len(fifo)
      BY <1>4, <2>2 DEF AllCommitted, ChipTypes
    <3>2. fifo = <<>>
      BY ONLY <3>1, EmptySeq
    <3> QED
      BY <2>2, <2>3, <3>2 DEF QueueEmpty
  <2>5. SendsAt(k)'
    BY <1>1, <1>4, <2>1, <2>2, <2>3, <2>4 DEF SendsAt, Goes
  <2>6. BootSends'
    BY <1>2, <2>2, <2>3, <2>5 DEF BootSends, Loaded, SetUp
  <2> QED
    BY <2>2, <2>3, <2>6 DEF ChipTypes
<1>5. CASE script = rest /\ QueueEmpty /\ pending = {} /\ k = 23
  <2>1. script # <<>> /\ next = Step("verify", 0) /\ Tail(script) = Suffix(app_main, 24)
    <3>1. 23 \in 1 .. 24 /\ 23 + 1 = 24
      OBVIOUS
    <3>2. script # <<>> /\ next = app_main[23] /\ (Goes => script' = Suffix(app_main, 23 + 1))
      BY <1>5, <3>1, AppMainAt
    <3>3. Tail(script) = Suffix(app_main, 24)
      BY <1>5, <3>1, AppMainTail
    <3> QED
      BY <3>2, <3>3, AppMainSteps
  <2>2. MainVerifies
    BY <2>1, MainTakes DEF Step
  <2>3. UNCHANGED <<hold, rows, rom, regs, fifo, committed, image, paused, running>>
    BY <2>2 DEF MainVerifies, chip
  <2>4. QueueEmpty' /\ Loaded("control")' /\ hold'
    BY <1>2, <1>5, <2>3 DEF QueueEmpty, Loaded
  <2>5. CASE verify_image = {}
    <3>1. script' = Suffix(app_main, 24) /\ UNCHANGED <<pending, past>>
      BY <2>1, <2>2, <2>5 DEF MainVerifies, Goes
    <3>2. AsSent'
      BY <2>3, <2>5, <3>1 DEF AsSent, Known, verify_image
    <3>3. SendsAt(24)'
      BY <1>5, <2>4, <3>1, <3>2 DEF SendsAt
    <3>4. SetUp'
      BY <1>2, <2>3, <3>1 DEF SetUp
    <3>5. BootSends'
      BY <2>4, <3>3, <3>4 DEF BootSends
    <3> QED
      BY <2>3, <3>1, <3>5 DEF ChipTypes
  <2>6. CASE verify_image # {}
    <3> DEFINE last == attempts + 1 = ATTEMPTS
    <3>1. /\ attempts' = (IF last THEN 0 ELSE attempts + 1) /\ resend_all
          /\ script' = <<Send>> \o (IF last THEN Tail(script) ELSE script)
          /\ past' = [past EXCEPT !.complained = last]
      BY <2>2, <2>6 DEF MainVerifies, Send
    <3>2. attempts \in 0 .. ATTEMPTS - 1 /\ ATTEMPTS \in Nat
      BY <1>1, <1>5, BootAssumption DEF SendsAt
    <3>3. pending' \subseteq Set
      BY <1>2, <3>1 DEF resend_all, SetUp
    <3>4. past' \in Pasts /\ past'.complained = last /\ past'.unclear = past.unclear
      BY <3>1 DEF ChipTypes, Pasts
    <3>5. SetUp'
      BY <1>2, <2>3, <3>3, <3>4 DEF SetUp
    <3>6. CASE ~last
      <4>1. attempts' \in 0 .. ATTEMPTS - 1
        BY <3>1, <3>2, <3>6
      <4>2. SendsAt(23)'
        BY <1>5, <2>4, <3>1, <3>6, <4>1 DEF SendsAt
      <4>3. BootSends'
        BY <2>4, <3>5, <4>2 DEF BootSends
      <4> QED
        BY <2>3, <3>3, <3>4, <4>3 DEF ChipTypes, Regs
    <3>7. CASE last
      <4>1. past'.complained
        BY <3>4, <3>7
      <4>2. SendsAt(24)'
        <5>1. script' = <<Send>> \o Suffix(app_main, 24)
          BY <2>1, <3>1, <3>7
        <5>2. QueueEmpty' /\ 24 # 23
          BY <2>4
        <5> QED
          BY ONLY <4>1, <5>1, <5>2 DEF SendsAt
      <4>3. BootSends'
        BY <2>4, <3>5, <4>2 DEF BootSends
      <4> QED
        BY <2>3, <3>3, <3>4, <4>3 DEF ChipTypes, Regs
    <3> QED
      BY <3>6, <3>7
  <2> QED
    BY <2>5, <2>6
<1>6. CASE script = rest /\ k = 24
  <2>1. 24 \in 1 .. 24
    OBVIOUS
  <2>2. next = app_main[24]
    BY <1>6, <2>1, AppMainAt
  <2>3. next.op = "release"
    BY <2>2, AppMainSteps DEF Step
  <2> QED
    BY <2>3
<1>7. k = 23 \/ k = 24
  OBVIOUS
<1> QED
  BY <1>1, <1>3, <1>4, <1>5, <1>6, <1>7 DEF SendsAt

-----------------------------------------------------------------------------
(***************************************************************************)
(* The console.                                                            *)
(***************************************************************************)
(* Once the link runs the main task is at the step at k of a command.  A   *)
(* tick that was sending when the console paused it ends before the hold   *)
(* that comes next, which takes the lock.                                  *)
TickAway == paused => tick # "send"

RunsQuietly(full, k) ==
  /\ QuietFrom(full, k) /\ WholeSoFar
  /\ TickAway \/ (k <= Len(full) /\ LockedHold(full[k]))

RunsTest(full, k) ==
  /\ full \in TestCommands /\ k \in 1 .. 12
  /\ k = 1 => WholeSoFar /\ TickAway
  /\ k \in 2 .. 12 => Testing(k + 4) /\ paused /\ tick # "send"
  /\ k \in 2 .. 8 => Held

RunsHold(full, k) ==
  /\ full = cmd_hold /\ k \in 1 .. 6
  /\ k \in 1 .. 2 => WholeSoFar
  /\ k = 1 => TickAway
  /\ k = 2 => paused
  /\ k \in 3 .. 6 => paused /\ tick # "send" /\ Held
  /\ k = 6 => rows = "none"

RunInv ==
  running =>
    \E full \in Commands : \E k \in 1 .. Len(full) + 1 :
      /\ script = Suffix(full, k)
      /\ RunsQuietly(full, k) \/ RunsTest(full, k) \/ RunsHold(full, k)

(* The command's step at k.                                                *)
LEMMA CommandAt ==
  ASSUME NEW full \in Commands, NEW k \in 1 .. Len(full) + 1, script = Suffix(full, k)
  PROVE  /\ full \in Seq(Steps) /\ Len(full) \in Nat
         /\ k = Len(full) + 1 <=> script = <<>>
         /\ k <= Len(full) =>
              /\ script # <<>> /\ next = full[k] /\ next \in Steps
              /\ Goes => script' = Suffix(full, k + 1)
              /\ k + 1 \in 1 .. Len(full) + 1
<1>1. full \in Seq(Steps)
  BY CommandSteps
<1>2. Len(full) \in Nat /\ (k <= Len(full) => full[k] \in Steps /\ k + 1 \in 1 .. Len(full) + 1)
  BY <1>1
<1>3. /\ k = Len(full) + 1 <=> Suffix(full, k) = <<>>
      /\ k <= Len(full) => /\ Head(Suffix(full, k)) = full[k]
                           /\ Tail(Suffix(full, k)) = Suffix(full, k + 1)
  BY <1>1, SuffixStep
<1>4. k <= Len(full) => k # Len(full) + 1
  BY <1>2
<1> QED
  BY <1>1, <1>2, <1>3, <1>4 DEF next, Goes

LEMMA SuffixAll == ASSUME NEW S, NEW s \in Seq(S) PROVE Suffix(s, 1) = s
<1> DEFINE all == Suffix(s, 1)
<1>1. /\ all \in Seq(S) /\ Len(all) = Len(s)
      /\ \A i \in 1 .. Len(s) : all[i] = s[i]
  <2>1. /\ all \in Seq(S)
        /\ Len(all) = IF 1 <= Len(s) THEN Len(s) - 1 + 1 ELSE 0
        /\ \A i \in 1 .. Len(s) - 1 + 1 : all[i] = s[1 + i - 1]
    BY SubSeqProperties DEF Suffix
  <2>2. Len(s) \in Nat
    OBVIOUS
  <2> QED
    BY <2>1, <2>2
<1> HIDE DEF all
<1>2. all = s
  BY <1>1, SeqEqual
<1> QED
  BY <1>2 DEF all

(* A pass while the link runs.                                             *)
LEMMA RunPass ==
  ASSUME LinkInv, ChipTypes, running, RunInv, Pass PROVE RunInv'
<1>1. UNCHANGED <<hold, rows, rom, paused, running, script, tick, past>>
  BY PassTakes DEF link
<1>2. PICK full \in Commands : \E k \in 1 .. Len(full) + 1 :
        /\ script = Suffix(full, k)
        /\ RunsQuietly(full, k) \/ RunsTest(full, k) \/ RunsHold(full, k)
  BY DEF RunInv
<1>3. PICK k \in 1 .. Len(full) + 1 :
        /\ script = Suffix(full, k)
        /\ RunsQuietly(full, k) \/ RunsTest(full, k) \/ RunsHold(full, k)
  BY <1>2
<1>4. RunsQuietly(full, k) => RunsQuietly(full, k)'
  BY <1>1 DEF RunsQuietly, WholeSoFar, TickAway
<1>5. ASSUME RunsTest(full, k) PROVE RunsTest(full, k)'
  <2>1. k \in 1 .. 12
    BY <1>5 DEF RunsTest
  <2>2. k \in 2 .. 12 => k + 4 \in 6 .. 17
    BY <2>1
  <2>3. k \in 2 .. 12 => Testing(k + 4)'
    BY <1>5, <2>2, TestingPass DEF RunsTest
  <2> QED
    BY <1>1, <1>5, <2>3 DEF RunsTest, Held, WholeSoFar, TickAway
<1>6. RunsHold(full, k) => RunsHold(full, k)'
  BY <1>1 DEF RunsHold, Held, WholeSoFar, TickAway
<1> QED
  BY <1>1, <1>3, <1>4, <1>5, <1>6 DEF RunInv

(* Steps that change nothing the main task relies on.                      *)
LEMMA RunFrame ==
  ASSUME RunInv, running' => running, UNCHANGED <<rows, rom, script, paused>>,
         past'.spoilt = past.spoilt, WholeSoFar => WholeSoFar',
         tick # "send" => /\ UNCHANGED <<fifo, committed, regs>> /\ (Held => Held')
                          /\ paused => tick' # "send"
  PROVE  RunInv'
<1> SUFFICES ASSUME running' PROVE RunInv'
  BY DEF RunInv
<1>1. PICK full \in Commands : \E k \in 1 .. Len(full) + 1 :
        /\ script = Suffix(full, k)
        /\ RunsQuietly(full, k) \/ RunsTest(full, k) \/ RunsHold(full, k)
  BY DEF RunInv
<1>2. PICK k \in 1 .. Len(full) + 1 :
        /\ script = Suffix(full, k)
        /\ RunsQuietly(full, k) \/ RunsTest(full, k) \/ RunsHold(full, k)
  BY <1>1
<1>3. TickAway => TickAway'
  BY DEF TickAway
<1>4. RunsQuietly(full, k) => RunsQuietly(full, k)'
  BY <1>3 DEF RunsQuietly
<1>5. ASSUME RunsTest(full, k) PROVE RunsTest(full, k)'
  <2>1. k \in 1 .. 12
    BY <1>5 DEF RunsTest
  <2>2. k \in 2 .. 12 => k + 4 \in 6 .. 17
    BY <2>1
  <2>3. k \in 2 .. 12 => Testing(k + 4)'
    BY <1>5, <2>2, TestingKept DEF RunsTest
  <2>4. k \in 2 .. 8 => k \in 2 .. 12
    OBVIOUS
  <2> QED
    BY <1>3, <1>5, <2>3, <2>4 DEF RunsTest
<1>6. RunsHold(full, k) => RunsHold(full, k)'
  BY <1>3 DEF RunsHold
<1> QED
  BY <1>2, <1>4, <1>5, <1>6 DEF RunInv

LEMMA RunKept == ASSUME RunInv, Taken PROVE RunInv'
<1>1. UNCHANGED <<hold, rows, rom, regs, fifo, committed, paused, running, script, tick, past>>
  BY DEF Taken, chip, link
<1> QED
  BY <1>1, RunFrame DEF Held, WholeSoFar

LEMMA RunOthers ==
  ASSUME LinkInv, ChipTypes, RunInv, engine_task \/ VoiceTask PROVE RunInv'
<1>1. WholeSoFar => WholeSoFar'
  <2>1. CASE tick # "send"
    BY <2>1, OthersTake DEF WholeSoFar, Held
  <2>2. CASE tick = "send"
    BY <2>2, OthersTake DEF WholeSoFar
  <2> QED
    BY <2>1, <2>2
<1> QED
  BY <1>1, OthersTake, RunFrame

(* In a locked transaction of the main task the tick is on no other.       *)
LEMMA TickIdle ==
  ASSUME LinkInv, "main" \in bus, next.locked PROVE tick # "send"
BY DEF LinkInv, LockTypes, InTransaction, TasksLock

(* The step of a command that pauses the tick or loads a lab's program, or *)
(* does neither.                                                           *)
LEMMA RunMainQuiet ==
  ASSUME LinkInv, ChipTypes, running, MainTask, ~Taken,
         NEW full \in Commands, NEW k \in 1 .. Len(full), script = Suffix(full, k),
         RunsQuietly(full, k)
  PROVE  RunInv' /\ ChipTypes' /\ next.op \notin {"release", "check"}
<1>1. /\ full \in Seq(Steps) /\ Len(full) \in Nat /\ script # <<>> /\ next = full[k]
      /\ next \in Steps
      /\ Goes => script' = Suffix(full, k + 1)
      /\ k + 1 \in 1 .. Len(full) + 1
  BY CommandAt
<1>2. /\ Quiet(next) /\ QuietFrom(full, k + 1)
      /\ next.op = "pause" => k + 1 <= Len(full) /\ LockedHold(full[k + 1])
  BY <1>1 DEF RunsQuietly, QuietFrom
<1>3. WholeSoFar /\ (TickAway \/ LockedHold(next)) /\ past \in Pasts
  BY <1>1 DEF RunsQuietly, ChipTypes
<1>4. UNCHANGED tick /\ (next.op \in OnBus => "main" \in bus)
  BY <1>1, MainTakes
<1>5. LockedHold(next) => tick # "send"
  BY <1>4, TickIdle DEF LockedHold, OnBus
<1>6. TickAway
  BY <1>3, <1>5 DEF TickAway
<1>7. ASSUME Goes, running', WholeSoFar', next.op = "pause" \/ paused' = paused
      PROVE RunInv'
  <2>1. TickAway' \/ (k + 1 <= Len(full) /\ LockedHold(full[k + 1]))
    BY <1>2, <1>4, <1>6, <1>7 DEF TickAway
  <2>2. RunsQuietly(full, k + 1)'
    BY <1>2, <1>7, <2>1 DEF RunsQuietly
  <2> QED
    BY <1>1, <1>7, <2>2 DEF RunInv
<1>8. CASE next.op = "ctrl"
  <2>1. /\ WriteCtrl(next.arg, <<>>) /\ Goes /\ paused' = (paused \/ next.op = "pause_hold")
        /\ UNCHANGED <<image, pending, running, past>> /\ "hold" \in next.arg
    BY <1>1, <1>2, <1>8, MainTakes DEF Quiet
  <2>2. /\ fifo' = fifo /\ hold' = TRUE
        /\ committed' \in 0 .. Len(fifo) /\ UNCHANGED <<rows, rom, regs>>
    BY <2>1, CtrlAlone
  <2>3. ChipTypes' /\ paused' = paused
    BY <1>8, <2>1, <2>2 DEF ChipTypes
  <2>4. WholeSoFar'
    BY <1>3, <1>4, <2>1, <2>2, <2>3 DEF WholeSoFar
  <2> QED
    BY <1>7, <1>8, <2>1, <2>3, <2>4
<1>9. CASE next.op = "free"
  <2>1. WriteCtrl({}, <<>>) /\ Releases /\ Goes /\ UNCHANGED link
    BY <1>1, <1>9, MainTakes
  <2>2. /\ fifo' = fifo /\ hold' \in BOOLEAN
        /\ committed' \in 0 .. Len(fifo) /\ UNCHANGED <<rows, rom, regs>>
    BY <2>1, CtrlAlone
  <2>3. past' \in Pasts /\ past'.freed = (past.freed \/ rows # rom)
    BY <1>3, <2>1 DEF Releases, Pasts
  <2>4. ChipTypes' /\ running' /\ paused' = paused
    BY <2>1, <2>2, <2>3 DEF ChipTypes, link
  <2>5. WholeSoFar'
    BY <2>2, <2>3 DEF WholeSoFar
  <2> QED
    BY <1>7, <1>9, <2>1, <2>4, <2>5
<1>10. CASE next.op = "queue"
  <2>1. QueuesOne
    BY <1>1, <1>10, MainTakes
  <2>2. PICK kept \in Lossy(<<next.arg>>) :
          /\ WriteWords(kept)
          /\ past' = [past EXCEPT !.spoilt = (kept = <<>>) \/ (running /\ Len(fifo) >= CAPACITY)]
    BY <2>1 DEF QueuesOne
  <2>3. Goes /\ UNCHANGED <<image, pending, paused, running>>
    BY <2>1 DEF QueuesOne, link
  <2>4. next.arg \in Words
    <3>1. next.arg = <<Counter, "lab">>
      BY <1>2, <1>10 DEF Quiet
    <3>2. <<Counter, "lab">> \in Words
      BY DEF Words, Regs, Values
    <3> QED
      BY ONLY <3>1, <3>2
  <2>5. kept \in Seq(Words)
    <3> DEFINE word == next.arg
    <3>1. word \in Words /\ (kept = <<>> \/ kept = <<word>>)
      BY <2>4, LossyOne
    <3> HIDE DEF word
    <3>2. <<>> \in Seq(Words) /\ <<word>> \in Seq(Words)
      BY <3>1
    <3> QED
      BY <3>1, <3>2
  <2>6. /\ fifo' \in Seq(Words) /\ committed \in 0 .. Len(fifo')
        /\ UNCHANGED <<hold, rows, rom, regs, committed>>
    <3>1. fifo' = Queued(kept) /\ UNCHANGED <<hold, rows, rom, regs, committed>>
      BY <2>2 DEF WriteWords
    <3>2. fifo' \in Seq(Words) /\ Len(fifo) <= Len(fifo')
      BY <2>5, <3>1, QueuedWords
    <3>3. Len(fifo) \in Nat /\ Len(fifo') \in Nat /\ committed \in 0 .. Len(fifo)
      BY <3>2 DEF ChipTypes
    <3> QED
      BY ONLY <3>1, <3>2, <3>3
  <2>7. past' \in Pasts /\ past'.freed = past.freed
    BY <1>3, <2>2 DEF Pasts
  <2>8. ChipTypes'
    BY <2>3, <2>6, <2>7 DEF ChipTypes
  <2>9. WholeSoFar'
    BY <1>3, <1>4, <2>3, <2>6, <2>7 DEF WholeSoFar
  <2> QED
    BY <1>7, <1>10, <2>3, <2>8, <2>9
<1>11. CASE next.op \in {"rows", "rom"}
  <2>1. next.arg = "lab"
    BY <1>2, <1>11 DEF Quiet
  <2>2. /\ LoadsOnto("lab") /\ Goes
        /\ UNCHANGED <<hold, regs, fifo, committed, link>>
    BY <1>1, <1>11, <2>1, MainTakes
  <2>3. /\ past' \in Pasts
        /\ ~(hold /\ paused) => past'.freed
    BY <1>3, <2>2 DEF LoadsOnto, Pasts
  <2>4. ChipTypes' /\ running' /\ paused' = paused
    BY <2>2, <2>3 DEF ChipTypes, link
  <2>5. WholeSoFar'
    BY <1>4, <1>6, <2>2, <2>3, <2>4 DEF WholeSoFar, TickAway
  <2> QED
    BY <1>7, <1>11, <2>2, <2>4, <2>5
<1>12. CASE next.op \in {"touch", "wait", "pause", "write", "resend"}
  <2>1. /\ Goes /\ UNCHANGED <<chip, running, past>>
        /\ paused' = (paused \/ next.op = "pause")
    BY <1>1, <1>12, MainTakes DEF link, ChipTypes
  <2>2. image' \in [Regs -> Values] /\ pending' \subseteq Regs
    <3>1. CASE next.op = "write"
      <4>1. PICK r \in Regs : /\ image' = [image EXCEPT ![r] = "image"]
                              /\ pending' = pending \union {r}
        BY <1>1, <3>1, MainTakes
      <4> QED
        BY <4>1 DEF ChipTypes, Values
    <3>2. CASE next.op = "resend"
      BY <1>1, <3>2, MainTakes DEF ChipTypes, resend_all
    <3>3. CASE next.op \in {"touch", "wait", "pause"}
      BY <1>1, <3>3, MainTakes DEF ChipTypes, link
    <3> QED
      BY <1>12, <3>1, <3>2, <3>3
  <2>3. UNCHANGED <<hold, rows, rom, regs, fifo, committed>>
    BY <2>1 DEF chip
  <2>4. ChipTypes'
    BY <2>1, <2>2, <2>3 DEF ChipTypes
  <2>5. WholeSoFar'
    BY <1>3, <1>4, <2>1, <2>3 DEF WholeSoFar
  <2>6. next.op = "pause" \/ paused' = paused
    BY <2>1 DEF ChipTypes
  <2> QED
    BY <1>7, <1>12, <2>1, <2>4, <2>5, <2>6
<1> QED
  BY <1>2, <1>8, <1>9, <1>10, <1>11, <1>12 DEF Quiet

(* The self-test's step: its lock keeps the tick away, then the pause does.*)
LEMMA RunMainTest ==
  ASSUME LinkInv, ChipTypes, running, MainTask, ~Taken,
         NEW full \in Commands, NEW k \in 1 .. Len(full), script = Suffix(full, k),
         RunsTest(full, k)
  PROVE  RunInv' /\ ChipTypes'
<1>1. /\ Len(full) \in Nat /\ script # <<>> /\ next = full[k]
      /\ Goes => script' = Suffix(full, k + 1)
      /\ k + 1 \in 1 .. Len(full) + 1
  BY CommandAt
<1>2. PICK b \in BOOLEAN : full = cmd_selftest(b)
  BY DEF RunsTest, TestCommands
<1>3. k \in 1 .. 12 /\ full \in TestCommands
  BY DEF RunsTest
<1>4. CASE k = 1
  <2>1. next.op = "pause_hold" /\ next.arg = {"hold"} /\ next.locked
    BY <1>1, <1>2, <1>4, SelfTestSteps, SelfTestLocked
  <2>2. /\ "main" \in bus /\ UNCHANGED tick
        /\ WriteCtrl({"hold"}, <<>>) /\ Goes /\ paused' = TRUE
        /\ UNCHANGED <<image, pending, running, past>>
    BY <1>1, <2>1, MainTakes DEF OnBus
  <2>3. tick' # "send"
    BY <2>1, <2>2, TickIdle
  <2>4. /\ fifo' = fifo /\ hold' = TRUE /\ committed' = committed
        /\ UNCHANGED <<rows, rom, regs>>
    BY <2>2, CtrlAlone
  <2>6. ChipTypes'
    BY <2>2, <2>4 DEF ChipTypes
  <2>7. Testing(2 + 4)'
    BY <2>2 DEF Testing
  <2>8. RunsTest(full, 2)'
    <3>1. Held'
      BY <2>4 DEF Held
    <3> QED
      BY ONLY <1>3, <2>2, <2>3, <2>7, <3>1 DEF RunsTest
  <2> QED
    BY <1>1, <1>4, <2>2, <2>6, <2>8 DEF RunInv
<1>5. CASE k \in 2 .. 12
  <2>1. /\ k + 4 \in 6 .. 16 /\ Testing(k + 4) /\ paused /\ tick # "send"
        /\ k \in 2 .. 8 => Held
    BY <1>5 DEF RunsTest
  <2>2. /\ next.op = app_main[k + 4].op
        /\ k + 4 <= 12 => next.arg = app_main[k + 4].arg
    <3>1. /\ full[2] = app_main[6] /\ full[3] = app_main[7] /\ full[4] = app_main[8]
          /\ full[5] = app_main[9] /\ full[6] = app_main[10] /\ full[7] = app_main[11]
          /\ full[8] = app_main[12] /\ full[9] = app_main[13]
          /\ full[10].op = app_main[14].op /\ full[11].op = app_main[15].op
          /\ full[12].op = app_main[16].op
      <4>1. /\ full[2] = Ctrl({"hold"}) /\ full[3] = Rows("test") /\ full[4] = Rom("test")
            /\ full[5] = Queue(Counter, "zero") /\ full[6] = Ctrl({"hold", "swap"})
            /\ full[7] = Wait /\ full[8] = Ctrl({}) /\ full[9] = Wait
            /\ full[10].op = "touch" /\ full[11].op = "wait" /\ full[12].op = "check"
        BY <1>2, SelfTestSteps
      <4>2. /\ app_main[6] = Ctrl({"hold"}) /\ app_main[7] = Rows("test")
            /\ app_main[8] = Rom("test") /\ app_main[9] = Queue(Counter, "zero")
            /\ app_main[10] = Ctrl({"hold", "swap"}) /\ app_main[11] = Wait
            /\ app_main[12] = Ctrl({}) /\ app_main[13] = Wait
            /\ app_main[14].op = "touch" /\ app_main[15].op = "wait"
            /\ app_main[16].op = "check"
        BY AppMainSteps
      <4> QED
        BY ONLY <4>1, <4>2
    <3>2. next = full[k]
      BY <1>1
    <3>3. CASE k = 2
      <4>1. k + 4 = 6
        BY ONLY <3>3
      <4> QED
        BY ONLY <3>1, <3>2, <3>3, <4>1
    <3>4. CASE k = 3
      <4>1. k + 4 = 7
        BY ONLY <3>4
      <4> QED
        BY ONLY <3>1, <3>2, <3>4, <4>1
    <3>5. CASE k = 4
      <4>1. k + 4 = 8
        BY ONLY <3>5
      <4> QED
        BY ONLY <3>1, <3>2, <3>5, <4>1
    <3>6. CASE k = 5
      <4>1. k + 4 = 9
        BY ONLY <3>6
      <4> QED
        BY ONLY <3>1, <3>2, <3>6, <4>1
    <3>7. CASE k = 6
      <4>1. k + 4 = 10
        BY ONLY <3>7
      <4> QED
        BY ONLY <3>1, <3>2, <3>7, <4>1
    <3>8. CASE k = 7
      <4>1. k + 4 = 11
        BY ONLY <3>8
      <4> QED
        BY ONLY <3>1, <3>2, <3>8, <4>1
    <3>9. CASE k = 8
      <4>1. k + 4 = 12
        BY ONLY <3>9
      <4> QED
        BY ONLY <3>1, <3>2, <3>9, <4>1
    <3>10. CASE k = 9
      <4>1. k + 4 = 13
        BY ONLY <3>10
      <4> QED
        BY ONLY <3>1, <3>2, <3>10, <4>1
    <3>11. CASE k = 10
      <4>1. k + 4 = 14
        BY ONLY <3>11
      <4> QED
        BY ONLY <3>1, <3>2, <3>11, <4>1
    <3>12. CASE k = 11
      <4>1. k + 4 = 15
        BY ONLY <3>12
      <4> QED
        BY ONLY <3>1, <3>2, <3>12, <4>1
    <3>13. CASE k = 12
      <4>1. k + 4 = 16
        BY ONLY <3>13
      <4> QED
        BY ONLY <3>1, <3>2, <3>13, <4>1
    <3> QED
      BY <1>5, <3>3, <3>4, <3>5, <3>6, <3>7, <3>8, <3>9, <3>10, <3>11, <3>12, <3>13
  <2>3. /\ Testing(k + 4 + 1)' /\ ChipTypes' /\ Goes
        /\ UNCHANGED <<tick, running, paused>>
        /\ k + 4 \in 6 .. 11 => (Held => Held')
    BY <1>1, <2>1, <2>2, TestingStep
  <2>4. k + 4 + 1 = k + 1 + 4 /\ Testing(k + 1 + 4)'
    BY <2>1, <2>3
  <2>6. CASE k \in 2 .. 11
    <3>1. RunsTest(full, k + 1)'
      <4>1. k + 1 \in 2 .. 12 /\ (k + 1 \in 2 .. 8 => k \in 2 .. 8 /\ k + 4 \in 6 .. 11)
        BY <2>6
      <4> QED
        <5>1. /\ Testing(k + 1 + 4)' /\ paused' /\ tick' # "send"
              /\ k + 1 \in 2 .. 8 => Held'
          BY <2>1, <2>3, <2>4, <4>1
        <5> QED
          <6> DEFINE n == k + 1
          <6>1. /\ n \in 2 .. 12 /\ Testing(n + 4)' /\ paused' /\ tick' # "send"
                /\ n \in 2 .. 8 => Held'
            BY ONLY <4>1, <5>1
          <6> HIDE DEF n
          <6>2. RunsTest(full, n)'
            BY ONLY <1>3, <6>1 DEF RunsTest
          <6> QED
            BY <6>2 DEF n
    <3> QED
      BY <1>1, <2>3, <3>1 DEF RunInv
  <2>7. CASE k = 12
    <3>1. WholeSoFar' /\ TickAway'
      <4>1. (rows = rom)'
        BY <2>4, <2>7 DEF Testing, Loaded
      <4> QED
        BY <2>1, <2>3, <4>1 DEF WholeSoFar, TickAway
    <3>2. QuietFrom(full, 13)
      <4>1. Len(full) = (IF b THEN 12 ELSE 13) /\ (~b => full[13] = Ctrl({"hold"}))
        BY <1>2, SelfTestSteps
      <4>2. \A i \in 13 .. Len(full) : i = 13 /\ ~b
        BY <4>1
      <4> QED
        BY <4>1, <4>2 DEF QuietFrom, Quiet, Ctrl, Step
    <3>3. RunsQuietly(full, k + 1)'
      BY <2>7, <3>1, <3>2 DEF RunsQuietly
    <3> QED
      BY <1>1, <2>3, <3>3 DEF RunInv
  <2> QED
    BY <1>5, <2>3, <2>6, <2>7
<1> QED
  BY <1>3, <1>4, <1>5

(* The hold's step.                                                        *)
LEMMA RunMainHold ==
  ASSUME LinkInv, ChipTypes, running, MainTask, ~Taken,
         NEW full \in Commands, NEW k \in 1 .. Len(full), script = Suffix(full, k),
         RunsHold(full, k)
  PROVE  RunInv' /\ ChipTypes' /\ next.op \notin {"release", "check"}
<1>1. /\ Len(full) \in Nat /\ script # <<>> /\ next = full[k]
      /\ Goes => script' = Suffix(full, k + 1)
      /\ k + 1 \in 1 .. Len(full) + 1
  BY CommandAt
<1>2. full = cmd_hold /\ k \in 1 .. 6 /\ Len(full) = 6
  BY HoldSteps DEF RunsHold
<1>3. CASE k = 1
  <2>1. next.op = "pause"
    BY <1>1, <1>2, <1>3, HoldSteps DEF Pause, Step
  <2>2. /\ paused' = TRUE /\ Goes /\ UNCHANGED <<chip, image, pending, running, past, tick>>
    BY <1>1, <2>1, MainTakes
  <2>3. ChipTypes' /\ WholeSoFar'
    BY <1>3, <2>2 DEF ChipTypes, chip, RunsHold, WholeSoFar
  <2>4. RunsHold(full, 2)'
    BY <1>2, <2>2, <2>3 DEF RunsHold
  <2> QED
    BY <1>1, <1>3, <2>1, <2>2, <2>3, <2>4 DEF RunInv
<1>4. CASE k \in {2, 3}
  <2>1. next.op = "ctrl" /\ "hold" \in next.arg /\ (k = 2 => next.locked)
    <3>1. CASE k = 2
      BY <1>1, <1>2, <3>1, HoldSteps DEF LockedHold
    <3>2. CASE k = 3
      BY <1>1, <1>2, <3>2, HoldSteps
    <3> QED
      BY <1>4, <3>1, <3>2
  <2>2. /\ WriteCtrl(next.arg, <<>>) /\ Goes /\ paused' = paused /\ "main" \in bus
        /\ UNCHANGED <<image, pending, running, past, tick>>
    BY <1>1, <2>1, MainTakes DEF ChipTypes, OnBus
  <2>3. tick' # "send" /\ paused'
    BY <1>4, <2>1, <2>2, TickIdle DEF RunsHold
  <2>4. /\ fifo' = fifo /\ hold' = TRUE /\ hold' \in BOOLEAN
        /\ committed' \in 0 .. Len(fifo) /\ UNCHANGED <<rows, rom, regs>>
    BY <2>1, <2>2, CtrlAlone
  <2>5. ChipTypes'
    BY <2>2, <2>4 DEF ChipTypes
  <2>6. RunsHold(full, k + 1)'
    BY <1>2, <1>4, <2>3, <2>4 DEF RunsHold, Held
  <2> QED
    BY <1>1, <2>1, <2>2, <2>5, <2>6 DEF RunInv
<1>5. CASE k = 4
  <2>1. next.op = "wait"
    BY <1>1, <1>2, <1>5, HoldSteps
  <2>2. Goes /\ UNCHANGED <<chip, link, past, tick>>
    BY <1>1, <2>1, MainTakes
  <2>3. ChipTypes'
    BY <2>2 DEF ChipTypes, chip, link
  <2>4. RunsHold(full, 5)'
    BY <1>2, <1>5, <2>2 DEF RunsHold, Held, chip, link
  <2> QED
    BY <1>1, <1>5, <2>1, <2>2, <2>3, <2>4 DEF RunInv, link
<1>6. CASE k = 5
  <2>1. next.op = "rows" /\ next.arg = "none"
    BY <1>1, <1>2, <1>6, HoldSteps
  <2>2. /\ rows' = "none" /\ Goes
        /\ UNCHANGED <<hold, rom, regs, fifo, committed, link, past, tick>>
    BY <1>1, <2>1, MainTakes DEF LoadsOnto
  <2>3. ChipTypes'
    BY <2>2 DEF ChipTypes, link
  <2>4. RunsHold(full, 6)'
    BY <1>2, <1>6, <2>2 DEF RunsHold, Held, link
  <2> QED
    BY <1>1, <1>6, <2>1, <2>2, <2>3, <2>4 DEF RunInv, link
<1>7. CASE k = 6
  <2>1. next.op = "rom" /\ next.arg = "none" /\ rows = "none" /\ paused /\ tick # "send"
    BY <1>1, <1>2, <1>7, HoldSteps DEF RunsHold
  <2>2. /\ rom' = "none" /\ Goes
        /\ UNCHANGED <<hold, rows, regs, fifo, committed, link, past, tick>>
    BY <1>1, <2>1, MainTakes DEF LoadsOnto
  <2>3. ChipTypes'
    BY <2>2 DEF ChipTypes, link
  <2>4. WholeSoFar' /\ TickAway'
    BY <2>1, <2>2 DEF WholeSoFar, TickAway
  <2>5. QuietFrom(full, 7)
    BY <1>2 DEF QuietFrom
  <2>6. RunsQuietly(full, 7)'
    BY <2>4, <2>5 DEF RunsQuietly
  <2> QED
    BY <1>1, <1>7, <2>1, <2>2, <2>3, <2>6 DEF RunInv, link
<1> QED
  BY <1>2, <1>3, <1>4, <1>5, <1>6, <1>7

-----------------------------------------------------------------------------
(***************************************************************************)
(* All of it.                                                              *)
(***************************************************************************)
BootInv == ~running => BootTests \/ BootClears \/ BootLoads \/ BootSends

EngineInv == ChipTypes /\ BootInv /\ RunInv

(* Any command may start when the processor has a whole program, or is kept*)
(* held for a lab's, and no paused tick still sends.                       *)
LEMMA CommandStarts ==
  ASSUME NEW full \in Commands, script' = full, WholeSoFar', TickAway', running'
  PROVE  RunInv'
<1>1. full \in Seq(Steps) /\ Suffix(full, 1) = full /\ 1 \in 1 .. Len(full) + 1
  BY CommandSteps, SuffixAll
<1>2. CASE QuietFrom(full, 1)
  <2>1. RunsQuietly(full, 1)'
    BY <1>2 DEF RunsQuietly
  <2> QED
    BY <1>1, <2>1 DEF RunInv
<1>3. CASE full \in TestCommands
  <2>1. RunsTest(full, 1)'
    BY <1>3 DEF RunsTest
  <2> QED
    BY <1>1, <2>1 DEF RunInv
<1>4. CASE full = cmd_hold
  <2>1. RunsHold(full, 1)'
    BY <1>4 DEF RunsHold
  <2> QED
    BY <1>1, <2>1 DEF RunInv
<1> QED
  BY <1>2, <1>3, <1>4, CommandSteps

(* A step of the console.                                                  *)
LEMMA RunMain ==
  ASSUME LinkInv, ChipTypes, running, RunInv, MainTask, ~Taken
  PROVE  RunInv' /\ ChipTypes'
<1>1. PICK full \in Commands : \E k \in 1 .. Len(full) + 1 :
        /\ script = Suffix(full, k)
        /\ RunsQuietly(full, k) \/ RunsTest(full, k) \/ RunsHold(full, k)
  BY DEF RunInv
<1>2. PICK k \in 1 .. Len(full) + 1 :
        /\ script = Suffix(full, k)
        /\ RunsQuietly(full, k) \/ RunsTest(full, k) \/ RunsHold(full, k)
  BY <1>1
<1>3. /\ full \in Seq(Steps) /\ Len(full) \in Nat
      /\ k = Len(full) + 1 <=> script = <<>>
  BY <1>2, CommandAt
<1>4. CASE script = <<>>
  <2>1. Console
    BY <1>4 DEF MainTask, MainBegins, MainEnds, MainWaits, MainPauses, MainSetsUp, MainResends,
                MainWrites, MainVerifies, LinkInv, InTransaction
  <2>2. script' \in Commands /\ UNCHANGED <<chip, link, past, tick>>
    BY <2>1 DEF Console
  <2>3. WholeSoFar /\ TickAway
    <3>1. ~RunsHold(full, k)
      <4>1. ASSUME RunsHold(full, k) PROVE FALSE
        <5>1. full = cmd_hold /\ k \in 1 .. 6
          BY <4>1 DEF RunsHold
        <5>2. Len(full) = 6
          BY <5>1, HoldSteps
        <5> QED
          BY <1>3, <1>4, <5>1, <5>2
      <4> QED
        BY <4>1
    <3>2. ~RunsTest(full, k)
      <4>1. ASSUME RunsTest(full, k) PROVE FALSE
        <5>1. PICK b \in BOOLEAN : full = cmd_selftest(b)
          BY <4>1 DEF RunsTest, TestCommands
        <5>2. Len(full) >= 12
          BY <5>1, SelfTestSteps
        <5> QED
          BY <1>3, <1>4, <4>1, <5>2 DEF RunsTest
      <4> QED
        BY <4>1
    <3>3. ~(k <= Len(full))
      BY <1>3, <1>4
    <3> QED
      BY <1>2, <3>1, <3>2, <3>3 DEF RunsQuietly
  <2>4. WholeSoFar' /\ TickAway' /\ running' /\ ChipTypes'
    BY <2>2, <2>3 DEF chip, link, WholeSoFar, TickAway, ChipTypes
  <2>5. RunInv'
    <3> DEFINE s == script'
    <3>1. s \in Commands /\ script' = s
      BY <2>2
    <3> HIDE DEF s
    <3> QED
      BY <2>4, <3>1, CommandStarts
  <2> QED
    BY <2>4, <2>5
<1>5. CASE script # <<>>
  <2>1. k \in 1 .. Len(full)
    BY <1>3, <1>5
  <2> QED
    BY <1>2, <2>1, RunMainQuiet, RunMainTest, RunMainHold
<1> QED
  BY <1>4, <1>5

(* The release: the console's from here.                                   *)
LEMMA BootReleases ==
  ASSUME LinkInv, ChipTypes, ~running, BootSends, MainTask, ~Taken, next.op = "release",
         script # <<>>
  PROVE  RunInv' /\ ChipTypes' /\ running'
<1>1. PICK k \in 23 .. 24 : SendsAt(k)
  BY DEF BootSends
<1>2. hold /\ Loaded("control") /\ SetUp
  BY DEF BootSends
<1>3. k = 24 /\ script = Suffix(app_main, 24) /\ QueueEmpty
  <2>1. CASE Head(script) \in {Send, Wait}
    BY <2>1 DEF next, Send, Wait, Step
  <2>2. CASE script = Suffix(app_main, k) /\ QueueEmpty
    <3>1. k \in 1 .. 24
      OBVIOUS
    <3>2. next = app_main[k]
      BY <2>2, <3>1, AppMainAt
    <3>3. k # 23
      <4>1. app_main[23].op = "verify"
        BY AppMainSteps DEF Step
      <4> QED
        BY <3>2, <4>1
    <3>4. k = 24
      BY <3>3
    <3> QED
      BY <2>2, <3>4
  <2> QED
    BY <1>1, <2>1, <2>2, SendScripts DEF SendsAt
<1>4. /\ WriteCtrl({}, <<>>) /\ Goes /\ running' = TRUE
      /\ past' = Nothing /\ UNCHANGED <<image, pending, paused, tick>>
  BY MainTakes
<1>5. /\ fifo' = fifo /\ hold' \in BOOLEAN /\ committed' = committed
      /\ UNCHANGED <<rows, rom, regs>>
  BY <1>4, CtrlAlone
<1>6. script' = <<>>
  <2>1. 24 \in 1 .. 24 /\ 24 + 1 = 25
    OBVIOUS
  <2>2. Tail(Suffix(app_main, 24)) = Suffix(app_main, 24 + 1)
    BY <2>1, AppMainTail
  <2> QED
    BY <1>3, <1>4, <2>1, <2>2, AppMainCons DEF Goes
<1>7. ChipTypes'
  <2>1. Nothing \in Pasts
    BY DEF Nothing, Pasts
  <2> QED
    BY <1>4, <1>5, <2>1 DEF ChipTypes
<1>8. WholeSoFar' /\ TickAway'
  <2>1. tick = "idle"
    BY DEF LinkInv, InTransaction, OnlyOnceRunning
  <2> QED
    BY <1>2, <1>4, <1>5, <2>1 DEF WholeSoFar, TickAway, Loaded
<1>9. RunInv'
  <2> DEFINE full == cmd_burst
             last == Len(full) + 1
  <2>1. full \in Seq(Steps) /\ full \in Commands
    BY CommandSteps DEF Commands
  <2>2. last \in 1 .. Len(full) + 1 /\ Suffix(full, last) = <<>>
    <3> HIDE DEF full
    <3>1. last \in 1 .. Len(full) + 1
      BY <2>1
    <3> QED
      BY <2>1, <3>1, SuffixStep
  <2> HIDE DEF full
  <2>3. QuietFrom(full, last)
    BY <2>1 DEF QuietFrom
  <2>4. RunsQuietly(full, last)'
    BY <1>8, <2>3 DEF RunsQuietly
  <2> HIDE DEF last
  <2> QED
    BY <1>6, <2>1, <2>2, <2>4 DEF RunInv
<1> QED
  BY <1>4, <1>7, <1>9

(* Nothing but the firmware's start is needed of a restart, but that a     *)
(* processor left to run has a whole program.                              *)
LEMMA EngineStarts ==
  ASSUME script' = app_main, attempts' = 0, RunsWholeProgram', running' = FALSE, ChipTypes'
  PROVE  EngineInv'
<1>1. script' = Suffix(app_main, 1)
  <2> DEFINE s == app_main
  <2>1. s \in Seq(Steps)
    BY AppMainType
  <2> HIDE DEF s
  <2>2. Suffix(s, 1) = s
    BY <2>1, SuffixAll
  <2> QED
    BY <2>2 DEF s
<1>2. BootTests'
  BY <1>1 DEF BootTests, TestsAt
<1> QED
  BY <1>2 DEF EngineInv, BootInv, RunInv

LEMMA InitEngine == Init => EngineInv
<1> SUFFICES ASSUME Init PROVE EngineInv
  OBVIOUS
<1>1. script = Suffix(app_main, 1)
  <2> DEFINE s == app_main
  <2>1. s \in Seq(Steps) /\ script = s
    BY AppMainType DEF Init
  <2> HIDE DEF s
  <2>2. Suffix(s, 1) = s
    BY <2>1, SuffixAll
  <2> QED
    BY <2>1, <2>2 DEF s
<1>2. BootTests
  BY <1>1 DEF BootTests, TestsAt, Init, RunsWholeProgram
<1>3. ChipTypes
  <2>1. PICK n \in 0 .. CAPACITY : fifo = [i \in 1 .. n |-> <<Counter, "old">>]
    BY DEF Init
  <2>2. n \in Nat /\ <<Counter, "old">> \in Words
    BY BootAssumption DEF Words, Regs, Values
  <2>3. fifo \in Seq(Words) /\ Len(fifo) = n
    BY <2>1, <2>2
  <2>4. regs \in [Regs -> Values] /\ image \in [Regs -> Values]
    BY DEF Init, Values
  <2>5. committed \in 0 .. Len(fifo)
    BY <2>2, <2>3 DEF Init
  <2>6. /\ hold \in BOOLEAN /\ paused \in BOOLEAN /\ pending \subseteq Regs
        /\ past \in Pasts
    BY DEF Init, Nothing, Pasts
  <2> QED
    BY <2>3, <2>4, <2>5, <2>6 DEF ChipTypes
<1> QED
  BY <1>2, <1>3 DEF EngineInv, BootInv, RunInv, Init

(* A processor that runs has a whole program.                              *)
LEMMA EngineWhole == EngineInv => RunsWholeProgram
<1> SUFFICES ASSUME EngineInv PROVE RunsWholeProgram
  OBVIOUS
<1>1. CASE running
  <2>1. PICK full \in Commands : \E k \in 1 .. Len(full) + 1 :
        RunsQuietly(full, k) \/ RunsTest(full, k) \/ RunsHold(full, k)
    BY <1>1 DEF EngineInv, RunInv
  <2>2. PICK k \in 1 .. Len(full) + 1 :
        RunsQuietly(full, k) \/ RunsTest(full, k) \/ RunsHold(full, k)
    BY <2>1
  <2>3. CASE RunsTest(full, k)
    <3>1. CASE k \in 1 .. 8
      BY <2>3, <3>1 DEF RunsTest, RunsWholeProgram, WholeSoFar, Held
    <3>2. CASE k \in 9 .. 12
      <4> DEFINE n == k + 4
      <4>1. n \in 9 .. 17 /\ Testing(n)
        BY <2>3, <3>2 DEF RunsTest
      <4> HIDE DEF n
      <4> QED
        BY <4>1 DEF Testing, Loaded, RunsWholeProgram
    <3> QED
      BY <2>3, <3>1, <3>2 DEF RunsTest
  <2> QED
    BY <2>2, <2>3 DEF RunsQuietly, RunsHold, RunsWholeProgram, WholeSoFar, Held
<1>2. CASE ~running
  <2>1. ASSUME BootTests PROVE RunsWholeProgram
    <3>1. PICK k \in 1 .. 17 :
            /\ k \in 1 .. 3 => RunsWholeProgram
            /\ k \in 4 .. 12 => hold
            /\ k \in 6 .. 17 => Testing(k)
      BY <2>1 DEF BootTests, TestsAt
    <3>2. k \in 13 .. 17 => Loaded("test")
      BY <3>1 DEF Testing
    <3> QED
      BY <3>1, <3>2 DEF RunsWholeProgram, Loaded
  <2> QED
    BY <1>2, <2>1 DEF EngineInv, BootInv, BootClears, BootLoads, BootSends, RunsWholeProgram
<1> QED
  BY <1>1, <1>2

(* Every step keeps it, a restart wherever it comes included.              *)
LEMMA EngineStep == LinkInv /\ EngineInv /\ [Next]_vars => EngineInv'
<1> SUFFICES ASSUME LinkInv, EngineInv, [Next]_vars PROVE EngineInv'
  OBVIOUS
<1> USE DEF EngineInv
<1>1. CASE Taken
  <2>1. UNCHANGED running
    BY <1>1 DEF Taken, link
  <2>2. ChipTypes'
    BY <1>1 DEF Taken, chip, link, ChipTypes
  <2>3. BootInv'
    BY <1>1, <2>1, BootTestsKept, BootClearsKept, BootLoadsKept, SendsKept DEF BootInv
  <2> QED
    BY <1>1, <2>2, <2>3, RunKept
<1>2. CASE Pass
  <2>1. UNCHANGED running /\ ChipTypes'
    BY <1>2, PassTakes DEF link
  <2>2. CASE running
    BY <1>2, <2>1, <2>2, RunPass DEF BootInv
  <2>3. CASE ~running
    <3>1. ~BootLoads
      <4>1. BootLoads => hold /\ QueueEmpty
        BY DEF BootLoads
      <4> QED
        BY <1>2, <4>1, NoPass
    <3> QED
      BY <1>2, <2>1, <2>3, <3>1, BootTestsPass, BootClearsPass, BootSendsPass DEF BootInv, RunInv
  <2> QED
    BY <2>2, <2>3
<1>3. CASE MainTask /\ ~Taken
  <2>1. CASE running
    <3>1. RunInv' /\ ChipTypes'
      BY <1>3, <2>1, RunMain
    <3>2. running'
      BY <1>3, <2>1 DEF MainTask, MainBegins, MainEnds, MainWaits, MainPauses, MainSetsUp,
           MainResends, MainWrites, MainVerifies, Console, QueuesOne, ClearsOne, SendsHeld, link
    <3> QED
      BY <3>1, <3>2 DEF BootInv
  <2>2. CASE ~running /\ BootTests
    BY <1>3, <2>2, BootTestsMain DEF BootInv, RunInv
  <2>3. CASE ~running /\ BootClears
    BY <1>3, <2>3, BootClearsMain DEF BootInv, RunInv
  <2>4. CASE ~running /\ BootLoads
    BY <1>3, <2>4, BootLoadsMain DEF BootInv, RunInv
  <2>5. CASE ~running /\ BootSends
    <3>1. CASE next.op = "release"
      <4>1. script # <<>>
        BY <1>3, <2>5 DEF MainTask, MainBegins, MainEnds, MainWaits, MainPauses, MainSetsUp,
           MainResends, MainWrites, MainVerifies, Console, LinkInv, InTransaction
      <4> QED
        BY <1>3, <2>5, <3>1, <4>1, BootReleases DEF BootInv
    <3>2. CASE next.op # "release"
      BY <1>3, <2>5, <3>2, BootSendsMain DEF BootInv, RunInv
    <3> QED
      BY <3>1, <3>2
  <2> QED
    BY <2>1, <2>2, <2>3, <2>4, <2>5 DEF BootInv
<1>4. CASE engine_task \/ VoiceTask
  BY <1>4, OthersTake, RunOthers DEF BootInv
<1>5. CASE Restart
  <2>1. /\ script' = app_main /\ attempts' = 0 /\ running' = FALSE
        /\ UNCHANGED <<hold, rows, rom, regs, fifo, committed>>
        /\ image' = [r \in Regs |-> "unset"] /\ pending' = {} /\ paused' = FALSE
        /\ past' = [past EXCEPT !.complained = FALSE, !.spoilt = FALSE, !.unclear = {}]
    BY <1>5 DEF Restart, chip
  <2>2. image' \in [Regs -> Values]
    BY <2>1 DEF Values
  <2>3. past' \in Pasts /\ past'.freed = past.freed
    BY <2>1 DEF ChipTypes, Pasts
  <2>4. ChipTypes'
    BY <2>1, <2>2, <2>3 DEF ChipTypes
  <2>5. RunsWholeProgram'
    BY <2>1, <2>3, EngineWhole DEF RunsWholeProgram
  <2> QED
    BY <2>1, <2>4, <2>5, EngineStarts
<1>6. CASE UNCHANGED vars
  BY <1>1, <1>6 DEF vars, tasks, Taken
<1> QED
  BY <1>1, <1>2, <1>3, <1>4, <1>5, <1>6 DEF Next

-----------------------------------------------------------------------------
(* Where the next step is the release, or the self-test's look at its      *)
(* counters.                                                               *)
LEMMA BootAt ==
  ASSUME ChipTypes, BootTests \/ BootClears \/ BootLoads \/ BootSends
  PROVE  /\ Releasing => /\ QueueEmpty /\ Loaded("control") /\ SetUp /\ pending = {}
                         /\ past.complained \/ AsSent
         /\ script # <<>> /\ next.op = "check" =>
              QueueEmpty /\ (past.spoilt \/ CountersOwn)
<1>1. ASSUME NEW k \in 1 .. 21, script = Suffix(app_main, k)
      PROVE  /\ next.op # "release"
             /\ next.op = "check" => k = 16
  <2>1. k \in 1 .. 24
    OBVIOUS
  <2>2. next = app_main[k]
    BY <1>1, <2>1, AppMainAt
  <2>3. CASE k \in 1 .. 8
    BY <2>2, <2>3, AppMainSteps DEF Touch, Ctrl, Wait, Rows, Rom, Step
  <2>4. CASE k \in 9 .. 15
    BY <2>2, <2>4, AppMainSteps DEF Ctrl, Wait, Queue, Step
  <2>5. CASE k \in 16 .. 21
    BY <2>2, <2>5, AppMainSteps DEF Ctrl, Clear, Rows, Rom, Step
  <2> QED
    BY <2>3, <2>4, <2>5
<1>2. CASE BootTests
  <2>1. PICK k \in 1 .. 17 :
          script = Suffix(app_main, k) /\ (k \in 6 .. 17 => Testing(k))
    BY <1>2 DEF BootTests, TestsAt
  <2>2. next.op # "release" /\ (next.op = "check" => k = 16)
    BY <1>1, <2>1
  <2>3. k = 16 => QueueEmpty /\ (past.spoilt \/ CountersOwn)
    BY <2>1 DEF Testing
  <2> QED
    BY <2>2, <2>3 DEF Releasing
<1>3. CASE BootClears
  <2>1. PICK left \in SUBSET Regs : ClearsAt(left)
    BY <1>3 DEF BootClears
  <2>2. next.op \in {"clear", "ctrl", "wait"}
    <3>1. CASE left # {} /\ \E n \in Nat : script = ClearsThen(left, n)
      <4>1. PICK n \in Nat : script = ClearsThen(left, n)
        BY <3>1
      <4>2. next = Clear(left, n)
        BY <3>1, <4>1, ClearScripts DEF next
      <4> QED
        BY <4>2 DEF Clear, Step
    <3>2. CASE script = Drain \o ClearsThen(left, 0)
      <4>1. next = Ctrl({"hold", "swap"})
        BY <3>2, ClearScripts DEF next
      <4> QED
        BY <4>1 DEF Ctrl, Step
    <3>3. CASE script = <<Wait>> \o ClearsThen(left, 0)
      <4>1. next = Wait
        BY <3>3, ClearScripts DEF next
      <4> QED
        BY <4>1 DEF Wait, Step
    <3> QED
      BY <2>1, <3>1, <3>2, <3>3 DEF ClearsAt
  <2> QED
    BY <2>2 DEF Releasing
<1>4. CASE BootLoads
  <2>1. PICK k \in 19 .. 21 : script = Suffix(app_main, k)
    BY <1>4 DEF BootLoads
  <2> QED
    BY <1>1, <2>1, SMTT(30) DEF Releasing
<1>5. CASE BootSends
  <2>1. PICK k \in 23 .. 24 : SendsAt(k)
    BY <1>5 DEF BootSends
  <2>2. CASE next \in {Send, Wait}
    BY <2>2 DEF Send, Wait, Step, Releasing
  <2>3. CASE /\ script = Suffix(app_main, k) /\ QueueEmpty /\ pending = {}
             /\ k = 24 => past.complained \/ AsSent
    <3>1. k \in 1 .. 24
      OBVIOUS
    <3>2. next = app_main[k]
      BY <2>3, <3>1, AppMainAt
    <3>3. next.op # "check" /\ (next.op = "release" => k = 24)
      BY <3>2, AppMainSteps DEF Step
    <3> QED
      BY <1>5, <2>3, <3>3 DEF Releasing, BootSends
  <2> QED
    BY <2>1, <2>2, <2>3, SendScripts DEF SendsAt, next
<1> QED
  BY <1>2, <1>3, <1>4, <1>5

(* The console releases nothing this way, and checks as the boot does.     *)
LEMMA RunAt ==
  ASSUME running, RunInv
  PROVE  /\ ~Releasing
         /\ script # <<>> /\ next.op = "check" =>
              QueueEmpty /\ (past.spoilt \/ CountersOwn)
<1>1. PICK full \in Commands : \E k \in 1 .. Len(full) + 1 :
        /\ script = Suffix(full, k)
        /\ RunsQuietly(full, k) \/ RunsTest(full, k) \/ RunsHold(full, k)
  BY DEF RunInv
<1>2. PICK k \in 1 .. Len(full) + 1 :
        /\ script = Suffix(full, k)
        /\ RunsQuietly(full, k) \/ RunsTest(full, k) \/ RunsHold(full, k)
  BY <1>1
<1> SUFFICES ASSUME script # <<>>
             PROVE  /\ next.op # "release"
                    /\ next.op = "check" => QueueEmpty /\ (past.spoilt \/ CountersOwn)
  BY DEF Releasing
<1>3. k \in 1 .. Len(full) /\ next = full[k]
  BY <1>2, CommandAt
<1>4. CASE RunsQuietly(full, k)
  BY <1>3, <1>4 DEF RunsQuietly, QuietFrom, Quiet
<1>5. CASE RunsTest(full, k)
  <2>1. PICK b \in BOOLEAN : full = cmd_selftest(b)
    BY <1>5 DEF RunsTest, TestCommands
  <2>2. /\ full[1].op = "pause_hold" /\ full[2].op = "ctrl" /\ full[3].op = "rows"
        /\ full[4].op = "rom" /\ full[5].op = "queue" /\ full[6].op = "ctrl"
        /\ full[7].op = "wait" /\ full[8].op = "ctrl" /\ full[9].op = "wait"
        /\ full[10].op = "touch" /\ full[11].op = "wait" /\ full[12].op = "check"
    BY <2>1, SelfTestSteps DEF Ctrl, Rows, Rom, Queue, Wait, Step
  <2>3. k \in 1 .. 12
    BY <1>5 DEF RunsTest
  <2>4. next.op # "release" /\ (next.op = "check" => k = 12)
    <3>1. CASE k \in 1 .. 6
      BY <1>3, <2>2, <3>1, SMTT(30)
    <3>2. CASE k \in 7 .. 12
      BY <1>3, <2>2, <3>2
    <3> QED
      BY <2>3, <3>1, <3>2
  <2>5. k = 12 => QueueEmpty /\ (past.spoilt \/ CountersOwn)
    <3> DEFINE n == k + 4
    <3>1. k = 12 => n = 16 /\ Testing(n)
      BY <1>5 DEF RunsTest
    <3> HIDE DEF n
    <3> QED
      BY <3>1 DEF Testing
  <2> QED
    BY <2>4, <2>5
<1>6. CASE RunsHold(full, k)
  <2>1. full = cmd_hold /\ k \in 1 .. 6
    BY <1>6 DEF RunsHold
  <2>2. /\ full[1].op = "pause" /\ full[2].op = "ctrl" /\ full[3].op = "ctrl"
        /\ full[4].op = "wait" /\ full[5].op = "rows" /\ full[6].op = "rom"
    BY <2>1, HoldSteps DEF LockedHold, Pause, Step
  <2> QED
    BY <1>3, <2>1, <2>2
<1> QED
  BY <1>2, <1>4, <1>5, <1>6

LEMMA EngineSafe ==
  EngineInv => ReleasedAsSent /\ NothingLeftOver /\ SelfTestIsItsOwn
<1> SUFFICES ASSUME EngineInv PROVE ReleasedAsSent /\ NothingLeftOver /\ SelfTestIsItsOwn
  OBVIOUS
<1>1. CASE running
  BY <1>1, RunAt DEF EngineInv, ReleasedAsSent, NothingLeftOver, SelfTestIsItsOwn, QueueEmpty,
                     CountersOwn
<1>2. CASE ~running
  <2>1. /\ Releasing => /\ QueueEmpty /\ Loaded("control") /\ SetUp /\ pending = {}
                        /\ past.complained \/ AsSent
        /\ script # <<>> /\ next.op = "check" =>
             QueueEmpty /\ (past.spoilt \/ CountersOwn)
    BY <1>2, BootAt DEF EngineInv, BootInv
  <2>2. SetUp => \A r \in Regs :
                   image[r] = "unset" => regs[r] = "zero" \/ r \in past.unclear
    BY DEF SetUp
  <2> QED
    BY <2>1, <2>2 DEF ReleasedAsSent, NothingLeftOver, SelfTestIsItsOwn, QueueEmpty, Loaded,
                      AsSent, CountersOwn
<1> QED
  BY <1>1, <1>2

(* A processor that runs has the rows and the ROM of one program.  The     *)
(* tick, the boot, the self-test and csp-hold release it in the middle of  *)
(* no load, whatever console commands come between and wherever the        *)
(* firmware restarts.  Named in past.freed are those that may: the test    *)
(* tone's CC, whose CTRL word has no hold, csp-stream, -thaw, -step and -go*)
(* between two of a lab's rows, and a row typed into a program that is not *)
(* held with the tick paused.                                              *)
THEOREM ProgramIsWhole == Spec => []RunsWholeProgram
<1>1. LinkInv /\ EngineInv /\ [Next]_vars => (LinkInv /\ EngineInv)'
  BY LinkStep, EngineStep
<1> QED
  BY InitLink, InitEngine, <1>1, EngineWhole, PTL DEF Spec

(* The boot releases the processor with each register as the image says,   *)
(* whatever the queue lost, or after its complaint (verify_boot_image).    *)
THEOREM BootSendsImage == Spec => []ReleasedAsSent
<1>1. LinkInv /\ EngineInv /\ [Next]_vars => (LinkInv /\ EngineInv)'
  BY LinkStep, EngineStep
<1> QED
  BY InitLink, InitEngine, <1>1, EngineSafe, PTL DEF Spec

(* And with what the image does not set zero, and the queue empty: the     *)
(* drain comes before the self-test and the clearing after it.  But for a  *)
(* register whose zero the queue lost: no one reads it back (verify_image  *)
(* reads what the image knows).                                            *)
THEOREM BootLeavesNothing == Spec => []NothingLeftOver
<1>1. LinkInv /\ EngineInv /\ [Next]_vars => (LinkInv /\ EngineInv)'
  BY LinkStep, EngineStep
<1> QED
  BY InitLink, InitEngine, <1>1, EngineSafe, PTL DEF Spec

(* When the self-test looks at its counters nothing is queued for them, and*)
(* they are what it and its program wrote, at the boot and as a command,   *)
(* unless the zeros it queues were lost or found the queue full.           *)
THEOREM TestCountsItsOwn == Spec => []SelfTestIsItsOwn
<1>1. LinkInv /\ EngineInv /\ [Next]_vars => (LinkInv /\ EngineInv)'
  BY LinkStep, EngineStep
<1> QED
  BY InitLink, InitEngine, <1>1, EngineSafe, PTL DEF Spec
=============================================================================
