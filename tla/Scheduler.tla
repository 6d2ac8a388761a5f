------------------------------ MODULE Scheduler ------------------------------
(***************************************************************************)
(* Kernel threads of RoninOS: sched/thread.c and sched/switch.S, with the  *)
(* two interrupt handlers that call into them (pit.c; input/keyboard.c and *)
(* the shell commands of apps/app_sched.c) and the interrupt machinery     *)
(* they depend on (isr.c, isr_stubs.s, pic.c).                             *)
(*                                                                         *)
(* There is one CPU.  Its state is the stack %esp points into (sp), the    *)
(* interrupt flag IF (iflag) and the frames on that stack; the last frame is the *)
(* executing one and its pc says what it does next.  The scheduler takes   *)
(* no lock and never executes cli, so every step below that touches a      *)
(* scheduler variable is a step of its own: wherever IF is set, an         *)
(* interrupt may come between two of them.                                 *)
(***************************************************************************)
EXTENDS Integers, Sequences, FiniteSets

CONSTANTS THREAD_MAX,   \* size of g_threads
          Entries       \* what the entry functions passed to thread_create do

EntryKinds ==
    {"worker",      \* worker_entry: calls thread_yield forever
     "returning",   \* yields any number of times, then returns to thread_bootstrap
     "busy"}        \* computes forever and never calls the scheduler

ASSUME ThreadMaxAssumption == THREAD_MAX \in Nat \ {0}
ASSUME EntriesAssumption == Entries \subseteq EntryKinds

VARIABLES
    threadState,         \* g_threads[t].state
    esp,                 \* g_threads[t].esp: which stack it points into, and how deep
    entry,               \* g_threads[t].entry
    g_thread_count,
    g_current_tid,
    g_preempt_enabled,
    stack,               \* the frames each thread's stack holds, outermost first
    sp,                  \* the thread on whose stack the CPU executes
    iflag,               \* IF, the interrupt flag of EFLAGS
    irr,                 \* interrupt requests latched in the PIC
    isr                  \* interrupts in service in the PIC (no EOI yet)

table == <<threadState, esp, entry, g_thread_count>>
cpu   == <<stack, sp>>
pic   == <<irr, isr>>
vars  == <<threadState, esp, entry, g_thread_count, g_current_tid,
           g_preempt_enabled, stack, sp, iflag, irr, isr>>

Tid      == 0 .. THREAD_MAX - 1
Irq      == {0, 1}
RUNNABLE == "RUNNABLE"
RUNNING  == "RUNNING"
ZOMBIE   == "ZOMBIE"
NoThread == -1

YieldLabels == {"yield", "demote", "promote", "set_current", "switch", "resumed"}
ExitLabels  == {"exit", "exit_find", "exit_promote", "exit_set_current",
                "exit_switch", "panic"}
IrqLabels   == {"irq0", "irq0_preempt", "irq1", "spawn", "spawn_publish",
                "irq1_eoi", "iret"}
Labels      == {"hlt", "bootstrap"} \cup EntryKinds \cup IrqLabels
                  \cup YieldLabels \cup ExitLabels

\* prev and next are the locals prev_tid / dead_tid and next_tid.
Frame   == [pc : Labels, prev : Tid, next : Tid \cup {NoThread}]
Context == [stk : Tid, depth : Nat]

At0(pc) == [pc |-> pc, prev |-> 0, next |-> 0]

-----------------------------------------------------------------------------
(* The executing frame, and what a step does to the stack it is on.        *)

Top     == stack[sp][Len(stack[sp])]
At(pc)  == stack[sp] # <<>> /\ Top.pc = pc

Caller     == SubSeq(stack[sp], 1, Len(stack[sp]) - 1)
Become(f)  == stack' = [stack EXCEPT ![sp] = Append(Caller, f)]
Goto(pc)   == Become(At0(pc))
Return     == stack' = [stack EXCEPT ![sp] = Caller]
Enter(f)   == stack' = [stack EXCEPT ![sp] = Append(@, f)]
\* Call pc; when it returns, execution goes on at ret.
Call(pc, ret) ==
    stack' = [stack EXCEPT ![sp] = Append(Append(Caller, At0(ret)), At0(pc))]

-----------------------------------------------------------------------------
Init ==
    /\ threadState = [t \in Tid |-> IF t = 0 THEN RUNNING ELSE RUNNABLE]
    /\ esp = [t \in Tid |-> [stk |-> 0, depth |-> 0]]
    /\ entry = [t \in Tid |-> "none"]
    /\ g_thread_count = 1
    /\ g_current_tid = 0
    /\ g_preempt_enabled = FALSE
    /\ stack = [t \in Tid |-> IF t = 0 THEN <<At0("hlt")>> ELSE <<>>]
    /\ sp = 0
    /\ iflag = TRUE
    /\ irr = {}
    /\ isr = {}

-----------------------------------------------------------------------------
(* The interrupt controller and the CPU's interrupt entry and exit.        *)

\* The timer or the keyboard raises its line; one request per line is latched.
RaiseIrq(n) ==
    /\ n \notin irr
    /\ irr' = irr \cup {n}
    /\ UNCHANGED <<table, cpu, g_current_tid, g_preempt_enabled, iflag, isr>>

\* IF after entry through a gate.  Type 0x8E is an interrupt gate: cleared.
TrapGate == TRUE                        \* broken: type 0x8F leaves IF set
GateFlag == FALSE

\* The lower line wins; a line in service blocks itself and the higher ones.
AcceptIrq(n) ==
    /\ iflag
    /\ n \in irr
    /\ \A m \in irr : n <= m
    /\ \A m \in isr : n < m
    /\ irr' = irr \ {n}
    /\ isr' = isr \cup {n}
    /\ iflag' = GateFlag
    /\ Enter(At0(IF n = 0 THEN "irq0" ELSE "irq1"))
    /\ UNCHANGED <<table, sp, g_current_tid, g_preempt_enabled>>

\* pic_send_eoi is a non-specific EOI: it ends the service of the lowest line.
Eoi == isr' = {n \in isr : \E m \in isr : m < n}

\* Interrupts are only accepted with IF set, so iret pops an EFLAGS with IF set.
Iret ==
    /\ At("iret")
    /\ Return
    /\ iflag' = TRUE
    /\ UNCHANGED <<table, sp, g_current_tid, g_preempt_enabled, pic>>

-----------------------------------------------------------------------------
(* IRQ 0, the timer: pit_irq_handler.                                      *)

NoEoi ==                                \* broken: the EOI is forgotten
    /\ At("irq0")
    /\ Goto("irq0_preempt")
    /\ UNCHANGED <<table, sp, g_current_tid, g_preempt_enabled, iflag, pic>>

\* g_ticks++ (not modelled), then the EOI, before anything may switch away.
Irq0Tick ==
    /\ At("irq0")
    /\ Eoi
    /\ Goto("irq0_preempt")
    /\ UNCHANGED <<table, sp, g_current_tid, g_preempt_enabled, iflag, irr>>

Irq0Preempt ==
    /\ At("irq0_preempt")
    /\ IF g_preempt_enabled THEN Call("yield", "iret") ELSE Goto("iret")
    /\ UNCHANGED <<table, sp, g_current_tid, g_preempt_enabled, iflag, pic>>

-----------------------------------------------------------------------------
(* IRQ 1, the keyboard: keyboard_isr runs the shell, and on Enter the      *)
(* whole command, before it sends the EOI.                                 *)

\* A key that is no Enter, or a command that is none of the scheduler's.
KeyOther ==
    /\ At("irq1")
    /\ Goto("irq1_eoi")
    /\ UNCHANGED <<table, sp, g_current_tid, g_preempt_enabled, iflag, pic>>

CommandYield ==
    /\ At("irq1")
    /\ Call("yield", "irq1_eoi")
    /\ UNCHANGED <<table, sp, g_current_tid, g_preempt_enabled, iflag, pic>>

CommandPreempt(on) ==
    /\ At("irq1")
    /\ g_preempt_enabled' = on
    /\ Goto("irq1_eoi")
    /\ UNCHANGED <<table, sp, g_current_tid, iflag, pic>>

CommandSpawn ==
    /\ At("irq1")
    /\ Goto("spawn")
    /\ UNCHANGED <<table, sp, g_current_tid, g_preempt_enabled, iflag, pic>>

SpawnOneTooMany ==                      \* broken: the bound of the table is off by one
    /\ At("spawn")
    /\ g_thread_count <= THREAD_MAX
    /\ Goto("spawn_publish")
    /\ UNCHANGED <<table, sp, g_current_tid, g_preempt_enabled, iflag, pic>>

\* thread_create as far as the slot behind the last thread; not yet counted.
SpawnFill ==
    /\ At("spawn")
    /\ g_thread_count < THREAD_MAX
    /\ \E e \in Entries : entry' = [entry EXCEPT ![g_thread_count] = e]
    /\ esp' = [esp EXCEPT ![g_thread_count] = [stk |-> g_thread_count, depth |-> 1]]
    /\ threadState' = [threadState EXCEPT ![g_thread_count] = RUNNABLE]
    /\ stack' = [stack EXCEPT
                   ![sp] = Append(Caller, At0("spawn_publish")),
                   ![g_thread_count] = <<At0("bootstrap")>>]
    /\ UNCHANGED <<g_thread_count, sp, g_current_tid, g_preempt_enabled, iflag, pic>>

SpawnPublish ==
    /\ At("spawn_publish")
    /\ g_thread_count' = g_thread_count + 1
    /\ Goto("spawn")
    /\ UNCHANGED <<threadState, esp, entry, sp, g_current_tid,
                   g_preempt_enabled, iflag, pic>>

\* All the threads asked for exist, or the table or the heap is full.
SpawnEnd ==
    /\ At("spawn")
    /\ Goto("irq1_eoi")
    /\ UNCHANGED <<table, sp, g_current_tid, g_preempt_enabled, iflag, pic>>

Irq1Eoi ==
    /\ At("irq1_eoi")
    /\ Eoi
    /\ Goto("iret")
    /\ UNCHANGED <<table, sp, g_current_tid, g_preempt_enabled, iflag, irr>>

-----------------------------------------------------------------------------
(* thread_yield, thread_exit and thread_switch.                            *)

\* The distances at which the scan of find_next_runnable finds a thread.
RunnableAt(from, i) ==
    LET tid == (from + i) % g_thread_count
    IN  tid # from /\ threadState[tid] = RUNNABLE

Distances(from) == {i \in 1 .. g_thread_count : RunnableAt(from, i)}

Nearest(D) == CHOOSE i \in D : \A j \in D : i <= j

\* broken: the scan starts at tid 0 instead of behind from
FindFirstRunnable(from) ==
    LET S == {t \in 0 .. g_thread_count - 1 : t # from /\ threadState[t] = RUNNABLE}
    IN  IF S = {} THEN NoThread ELSE Nearest(S)

\* broken: the scan takes whatever is not RUNNING
FindNotRunning(from) ==
    LET D == {i \in 1 .. g_thread_count :
                threadState[(from + i) % g_thread_count] # RUNNING
                /\ (from + i) % g_thread_count # from}
    IN  IF D = {} THEN NoThread ELSE (from + Nearest(D)) % g_thread_count

\* broken: the scan wraps to the first worker and passes main over
FindNextWorker(from) ==
    LET D == {i \in Distances(from) : (from + i) % g_thread_count # 0}
    IN  IF D = {} THEN NoThread ELSE (from + Nearest(D)) % g_thread_count

FindNextRunnable(from) ==
    IF Distances(from) = {} THEN NoThread
    ELSE (from + Nearest(Distances(from))) % g_thread_count

\* thread_switch(&from->esp, to->esp).  The frame is left at pc; IF is not saved.
Switch(from, to, pc) ==
    LET left == [stack EXCEPT ![sp] = Append(Caller, At0(pc))]
        ctx  == esp[to]
    IN  /\ esp' = [esp EXCEPT ![from] = [stk |-> sp, depth |-> Len(stack[sp])]]
        /\ sp' = ctx.stk
        /\ stack' = [left EXCEPT ![ctx.stk] = SubSeq(@, 1, ctx.depth)]

YieldNone ==
    /\ At("yield")
    /\ FindNextRunnable(g_current_tid) = NoThread
    /\ Return
    /\ UNCHANGED <<table, sp, g_current_tid, g_preempt_enabled, iflag, pic>>

YieldFind ==
    /\ At("yield")
    /\ FindNextRunnable(g_current_tid) # NoThread
    /\ Become([pc |-> "demote", prev |-> g_current_tid,
               next |-> FindNextRunnable(g_current_tid)])
    /\ UNCHANGED <<table, sp, g_current_tid, g_preempt_enabled, iflag, pic>>

NoDemote ==                             \* broken: prev keeps the state RUNNING
    /\ At("demote")
    /\ Become([Top EXCEPT !.pc = "promote"])
    /\ UNCHANGED <<table, sp, g_current_tid, g_preempt_enabled, iflag, pic>>

YieldDemote ==
    /\ At("demote")
    /\ threadState' = [threadState EXCEPT
                         ![Top.prev] = IF @ = RUNNING THEN RUNNABLE ELSE @]
    /\ Become([Top EXCEPT !.pc = "promote"])
    /\ UNCHANGED <<esp, entry, g_thread_count, sp, g_current_tid,
                   g_preempt_enabled, iflag, pic>>

NoPromote ==                            \* broken: next keeps the state RUNNABLE
    /\ At("promote")
    /\ Become([Top EXCEPT !.pc = "set_current"])
    /\ UNCHANGED <<table, sp, g_current_tid, g_preempt_enabled, iflag, pic>>

YieldPromote ==
    /\ At("promote")
    /\ threadState' = [threadState EXCEPT ![Top.next] = RUNNING]
    /\ Become([Top EXCEPT !.pc = "set_current"])
    /\ UNCHANGED <<esp, entry, g_thread_count, sp, g_current_tid,
                   g_preempt_enabled, iflag, pic>>

YieldSetCurrent ==
    /\ At("set_current")
    /\ g_current_tid' = Top.next
    /\ Become([Top EXCEPT !.pc = "switch"])
    /\ UNCHANGED <<table, sp, g_preempt_enabled, iflag, pic>>

YieldSwitch ==
    /\ At("switch")
    /\ Switch(Top.prev, Top.next, "resumed")
    /\ UNCHANGED <<threadState, entry, g_thread_count, g_current_tid,
                   g_preempt_enabled, iflag, pic>>

YieldReturn ==
    /\ At("resumed")
    /\ Return
    /\ UNCHANGED <<table, sp, g_current_tid, g_preempt_enabled, iflag, pic>>

ExitMark ==
    /\ At("exit")
    /\ threadState' = [threadState EXCEPT ![g_current_tid] = ZOMBIE]
    /\ Become([pc |-> "exit_find", prev |-> g_current_tid, next |-> NoThread])
    /\ UNCHANGED <<esp, entry, g_thread_count, sp, g_current_tid,
                   g_preempt_enabled, iflag, pic>>

\* With nobody to switch to, panic() stops the machine.
ExitFind ==
    /\ At("exit_find")
    /\ LET next == FindNextRunnable(Top.prev)
       IN  Become([pc |-> IF next = NoThread THEN "panic" ELSE "exit_promote",
                   prev |-> Top.prev, next |-> next])
    /\ UNCHANGED <<table, sp, g_current_tid, g_preempt_enabled, iflag, pic>>

ExitPromote ==
    /\ At("exit_promote")
    /\ threadState' = [threadState EXCEPT ![Top.next] = RUNNING]
    /\ Become([Top EXCEPT !.pc = "exit_set_current"])
    /\ UNCHANGED <<esp, entry, g_thread_count, sp, g_current_tid,
                   g_preempt_enabled, iflag, pic>>

ExitSetCurrent ==
    /\ At("exit_set_current")
    /\ g_current_tid' = Top.next
    /\ Become([Top EXCEPT !.pc = "exit_switch"])
    /\ UNCHANGED <<table, sp, g_preempt_enabled, iflag, pic>>

\* Were the dead thread ever resumed, it would go on with the second panic().
ExitSwitch ==
    /\ At("exit_switch")
    /\ Switch(Top.prev, Top.next, "panic")
    /\ UNCHANGED <<threadState, entry, g_thread_count, g_current_tid,
                   g_preempt_enabled, iflag, pic>>

-----------------------------------------------------------------------------
(* What the threads themselves do.                                         *)

BootstrapSti ==                         \* broken: a new thread starts with sti
    /\ At("bootstrap")
    /\ Call(entry[g_current_tid], "exit")
    /\ iflag' = TRUE
    /\ UNCHANGED <<table, sp, g_current_tid, g_preempt_enabled, pic>>

\* thread_bootstrap calls the entry of the current thread, then thread_exit.
Bootstrap ==
    /\ At("bootstrap")
    /\ Call(entry[g_current_tid], "exit")
    /\ UNCHANGED <<table, sp, g_current_tid, g_preempt_enabled, iflag, pic>>

EntryYield ==
    /\ \E e \in {"worker", "returning"} : At(e) /\ Call("yield", e)
    /\ UNCHANGED <<table, sp, g_current_tid, g_preempt_enabled, iflag, pic>>

EntryReturn ==
    /\ At("returning")
    /\ Return
    /\ UNCHANGED <<table, sp, g_current_tid, g_preempt_enabled, iflag, pic>>

-----------------------------------------------------------------------------
Yield  == YieldNone \/ YieldFind \/ YieldDemote \/ YieldPromote
             \/ YieldSetCurrent \/ YieldSwitch \/ YieldReturn
Exit   == ExitMark \/ ExitFind \/ ExitPromote \/ ExitSetCurrent \/ ExitSwitch
Thread == Bootstrap \/ EntryYield \/ EntryReturn
Irq0   == Irq0Tick \/ Irq0Preempt
Irq1   == \/ KeyOther \/ CommandYield \/ CommandSpawn
          \/ \E on \in BOOLEAN : CommandPreempt(on)
          \/ SpawnFill \/ SpawnPublish \/ SpawnEnd \/ Irq1Eoi

\* A step of the instruction stream, as opposed to one of the devices.
Execute == Yield \/ Exit \/ Thread \/ Irq0 \/ Irq1 \/ Iret

Next == Execute \/ \E n \in Irq : RaiseIrq(n) \/ AcceptIrq(n)

Spec == Init /\ [][Next]_vars

\* The CPU executes, the timer ticks, and a pending interrupt is taken when
\* nothing blocks it; a spawn loop ends; no key need ever be pressed.
Fairness ==
    /\ WF_vars(Execute)
    /\ WF_vars(RaiseIrq(0))
    /\ \A n \in Irq : WF_vars(AcceptIrq(n))

FairSpec == Spec /\ Fairness
=============================================================================
