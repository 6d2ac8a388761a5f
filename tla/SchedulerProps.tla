--------------------------- MODULE SchedulerProps ---------------------------
(***************************************************************************)
(* What must hold of the kernel threads of Scheduler.tla.                  *)
(***************************************************************************)
EXTENDS Scheduler

TypeOK ==
    /\ threadState \in [Tid -> {RUNNABLE, RUNNING, ZOMBIE}]
    /\ esp \in [Tid -> Context]
    /\ entry \in [Tid -> Entries \cup {"none"}]
    /\ g_thread_count \in 1 .. THREAD_MAX
    /\ g_current_tid \in Tid
    /\ g_preempt_enabled \in BOOLEAN
    /\ stack \in [Tid -> Seq(Frame)]
    /\ sp \in Tid
    /\ iflag \in BOOLEAN
    /\ irr \subseteq Irq
    /\ isr \subseteq Irq

Created == 0 .. g_thread_count - 1
Live    == {t \in Created : threadState[t] # ZOMBIE}

\* The executing frame is past the scan of a hand-over and before its switch.
HandingOver ==
    Top.pc \in {"demote", "promote", "set_current", "switch",
                "exit_find", "exit_promote", "exit_set_current", "exit_switch"}

(***************************************************************************)
(* The scheduler's variables are shared between threads and interrupt      *)
(* handlers without a lock.  What protects them is nowhere written down:   *)
(* interrupts are only ever open while main sits in kmain's hlt loop, with *)
(* no handler, no shell command and no worker unfinished on the CPU.       *)
(***************************************************************************)
InterruptsOnlyInMain ==
    iflag => /\ sp = 0
             /\ g_current_tid = 0
             /\ stack[0] = <<At0("hlt")>>
             /\ isr = {}

(***************************************************************************)
(* thread_switch saves and loads %esp through g_threads: outside a switch  *)
(* every live thread that does not execute has a saved %esp that points    *)
(* into its own stack, at the innermost frame of it.  A stale or foreign   *)
(* esp would run one thread on another one's stack.                        *)
(***************************************************************************)
ContextIntegrity ==
    \A t \in Live \ {sp} :
        /\ esp[t] = [stk |-> t, depth |-> Len(stack[t])]
        /\ stack[t] # <<>>

(***************************************************************************)
(* Whenever no hand-over is in progress, g_current_tid names the thread    *)
(* whose stack the CPU is on, that thread alone is RUNNING, and every      *)
(* other live thread is RUNNABLE: no thread is lost to the scan.           *)
(***************************************************************************)
OneRunning ==
    ~HandingOver =>
        /\ g_current_tid = sp
        /\ \A t \in Live : threadState[t] = IF t = sp THEN RUNNING ELSE RUNNABLE

(***************************************************************************)
(* Neither panic of thread_exit is ever reached: a dying thread finds at   *)
(* least main RUNNABLE, and nobody switches back to a dead thread.         *)
(***************************************************************************)
NeverPanics == ~At("panic")

(***************************************************************************)
(* IRQ 1 stays in service for as long as main has not finished the handler *)
(* (the workers run in that time when the command was yield), IRQ 0 only   *)
(* up to its early EOI: a non-specific EOI never ends the wrong service,   *)
(* and no line stays blocked once main is back in its loop.                *)
(***************************************************************************)
ServiceMatchesHandler ==
    LET open(n) == \E i \in 1 .. Len(stack[0]) :
                      stack[0][i].pc \in
                         IF n = 0 THEN {"irq0"}
                         ELSE {"irq1", "spawn", "spawn_publish", "irq1_eoi"}
    IN  isr = {n \in Irq : open(n)}

(***************************************************************************)
(* A thread that called thread_exit stays a zombie, and once the CPU has   *)
(* left its stack it never executes on it again.                           *)
(***************************************************************************)
ZombiesStayDead ==
    [][\A t \in Created \ Live : t \in Created' \ Live' /\ (sp' = t => sp = t)]_vars

-----------------------------------------------------------------------------
(***************************************************************************)
(* The five-step hand-overs implement the indivisible one of RoundRobin:   *)
(* every change of stack goes to the next live thread in cyclic order.     *)
(***************************************************************************)
RR == INSTANCE RoundRobin WITH
        born <- g_thread_count,
        dead <- {t \in Created : threadState[t] = ZOMBIE},
        cur  <- sp

ImplementsRoundRobin == RR!Spec

-----------------------------------------------------------------------------
(***************************************************************************)
(* Round robin starves nobody: with the preempt switch left on, every      *)
(* thread keeps getting the CPU until it exits.                            *)
(***************************************************************************)
NobodyStarves ==
    <>[]g_preempt_enabled =>
        \A t \in Tid : t \in Live ~> (sp = t \/ threadState[t] = ZOMBIE)

(***************************************************************************)
(* Whatever the shell commands do, main gets back to its hlt loop again    *)
(* and again, where the timer and the keyboard are listened to.            *)
(***************************************************************************)
InterruptsReopen == []<>iflag

(***************************************************************************)
(* docs/scheduler.md promises that "preempt on" switches threads by the    *)
(* timer, without manual yields: a thread that never gives up the CPU must *)
(* not keep the other ones off it.                                         *)
(***************************************************************************)
TimerPreempts ==
    <>[]g_preempt_enabled =>
        \A t \in Tid : (sp = t /\ Live # {t}) ~> (sp # t \/ Live = {t})
=============================================================================
