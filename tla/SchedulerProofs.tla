--------------------------- MODULE SchedulerProofs ---------------------------
(***************************************************************************)
(* Proofs, for every size of the thread table, that the steps of           *)
(* Scheduler.tla keep the properties of SchedulerProps.tla, and that its   *)
(* five-step hand-overs implement the indivisible ones of RoundRobin.tla.  *)
(***************************************************************************)
EXTENDS SchedulerProps, SequenceTheorems, WellFoundedInduction, TLAPS

-----------------------------------------------------------------------------
(* The inductive invariant: what every stack looks like, and what each     *)
(* step of a hand-over has done to the thread table so far.                *)

\* kmain's loop, at most one interrupt handler, and below its last call, or
\* below the yield command, thread_yield.
MainStack(s) ==
    /\ Len(s) \in 1 .. 3
    /\ s[1] = At0("hlt")
    /\ Len(s) >= 2 => \E l \in IrqLabels : s[2] = At0(l)
    /\ Len(s) = 3 => s[2].pc \in {"iret", "irq1_eoi"} /\ s[3].pc \in YieldLabels

\* thread_bootstrap on its way to thread_exit, the entry function, thread_yield.
WorkerStack(s) ==
    /\ Len(s) \in 1 .. 3
    /\ Len(s) = 1 => s[1] = At0("bootstrap") \/ s[1].pc \in ExitLabels
    /\ Len(s) >= 2 => s[1] = At0("exit") /\ \E e \in EntryKinds : s[2] = At0(e)
    /\ Len(s) = 3 => s[3].pc \in YieldLabels

Shapes ==
    /\ MainStack(stack[0])
    /\ \A t \in Created \ {0} : WorkerStack(stack[t]) /\ entry[t] \in Entries

\* Main is alive, and so is whoever executes until it has marked itself.
Alive == 0 \in Live /\ sp \in Created

\* A live thread that does not execute is in thread_switch, or not started.
Parked ==
    \A t \in Live \ {sp} :
        /\ esp[t] = [stk |-> t, depth |-> Len(stack[t])]
        /\ stack[t][Len(stack[t])].pc \in {"resumed", "bootstrap"}

YieldSteps == {"demote", "promote", "set_current", "switch"}
ExitSteps  == {"exit_find", "exit_promote", "exit_set_current", "exit_switch"}
Promoted   == Top.pc \in {"set_current", "switch", "exit_set_current", "exit_switch"}

OwnState ==
    IF Top.pc \in ExitSteps THEN ZOMBIE
    ELSE IF Top.pc \in YieldSteps \ {"demote"} THEN RUNNABLE ELSE RUNNING

States ==
    /\ threadState[sp] = OwnState
    /\ \A t \in Live \ {sp} :
          threadState[t] = IF Promoted /\ t = Top.next THEN RUNNING ELSE RUNNABLE
    /\ g_current_tid = IF Top.pc \in {"switch", "exit_switch"} THEN Top.next ELSE sp
    /\ Top.pc \in YieldSteps \cup ExitSteps => Top.prev = sp
    /\ Top.pc \in (YieldSteps \cup ExitSteps) \ {"exit_find"} =>
          Top.next \in Live \ {sp} /\ Top.next = RR!Successor(sp)
    /\ Top.pc # "panic"

Flag == iflag <=> Top.pc = "hlt"

\* The line a handler at pc still has in service.
ServiceOf(pc) ==
    IF pc = "irq0" THEN {0}
    ELSE IF pc \in {"irq1", "spawn", "spawn_publish", "irq1_eoi"} THEN {1} ELSE {}

Service ==
    isr = IF Len(stack[0]) = 1 THEN {} ELSE ServiceOf(stack[0][2].pc)

\* The slot thread_create has filled but not counted yet.
Filled ==
    Len(stack[0]) = 2 /\ stack[0][2].pc = "spawn_publish" =>
        /\ g_thread_count < THREAD_MAX
        /\ stack[g_thread_count] = <<At0("bootstrap")>>
        /\ esp[g_thread_count] = [stk |-> g_thread_count, depth |-> 1]
        /\ threadState[g_thread_count] = RUNNABLE
        /\ entry[g_thread_count] \in Entries

IInv == TypeOK /\ Shapes /\ Alive /\ Parked /\ States /\ Flag /\ Service /\ Filled

-----------------------------------------------------------------------------
(* What the stack operations do to a sequence of frames.                   *)

LEMMA DropLast ==
    ASSUME NEW S, NEW s \in Seq(S), s # <<>>
    PROVE  LET r == SubSeq(s, 1, Len(s) - 1)
           IN  /\ r \in Seq(S)
               /\ Len(r) = Len(s) - 1
               /\ \A i \in 1 .. Len(s) - 1 : r[i] = s[i]
<1>1. PICK n \in Nat : Len(s) = n + 1
  <2>1. Len(s) \in Nat /\ Len(s) # 0
    BY EmptySeq, LenProperties
  <2>2. Len(s) - 1 \in Nat /\ Len(s) = (Len(s) - 1) + 1
    BY <2>1
  <2>3. QED
    BY <2>2
<1>2. \A i \in 1 .. n : s[i] \in S
  BY <1>1, ElementOfSeq
<1> DEFINE r == SubSeq(s, 1, n)
<1>3. /\ r \in Seq(S)
      /\ Len(r) = IF 1 <= n THEN n - 1 + 1 ELSE 0
      /\ \A i \in 1 .. n - 1 + 1 : r[i] = s[1 + i - 1]
  BY <1>2, SubSeqProperties
<1> HIDE DEF r
<1>4. r \in Seq(S) /\ Len(r) = n /\ \A i \in 1 .. n : r[i] = s[i]
  <2>1. \A k : k = (IF 1 <= n THEN n - 1 + 1 ELSE 0) => k = n
    OBVIOUS
  <2>2. \A i \in 1 .. n : i \in 1 .. n - 1 + 1 /\ 1 + i - 1 = i
    OBVIOUS
  <2>3. Len(r) = n
    BY <1>3, <2>1, Zenon
  <2>4. QED
    BY <1>3, <2>2, <2>3
<1>5. n = Len(s) - 1
  BY <1>1
<1>6. QED
  BY <1>4, <1>5, Zenon DEF r

LEMMA ReplaceLast ==
    ASSUME NEW S, NEW s \in Seq(S), s # <<>>, NEW f \in S
    PROVE  LET r == Append(SubSeq(s, 1, Len(s) - 1), f)
           IN  /\ r \in Seq(S)
               /\ Len(r) = Len(s)
               /\ r[Len(s)] = f
               /\ \A i \in 1 .. Len(s) - 1 : r[i] = s[i]
<1>1. Len(s) \in Nat \ {0}
  BY EmptySeq, LenProperties
<1>2. QED
  BY <1>1, DropLast, AppendProperties

LEMMA PushLast ==
    ASSUME NEW S, NEW s \in Seq(S), NEW f \in S
    PROVE  LET r == Append(s, f)
           IN  /\ r \in Seq(S)
               /\ Len(r) = Len(s) + 1
               /\ r[Len(s) + 1] = f
               /\ \A i \in 1 .. Len(s) : r[i] = s[i]
  BY AppendProperties

LEMMA LeastExists ==
    ASSUME NEW D \in SUBSET Nat, D # {}
    PROVE  \E m \in D : \A n \in D : m <= n
<1>0. IsWellFoundedOn(OpToRel(<, Nat), Nat)
  BY NatLessThanWellFounded
<1> DEFINE R == OpToRel(<, Nat)
<1>1. \A x \in Nat, y \in Nat : x < y => <<x, y>> \in R
  BY Zenon DEF OpToRel
<1>2. IsWellFoundedOn(R, Nat)
  BY <1>0, Zenon
<1> HIDE DEF R
<1>3. PICK m \in D : \A n \in D : ~ (<<n, m>> \in R)
  BY <1>2, WFMin
<1>4. m \in Nat /\ D \subseteq Nat
  OBVIOUS
<1>5. \A n \in D : ~ (n < m)
  BY <1>1, <1>3, <1>4, Zenon
<1>6. QED
  BY <1>4, <1>5

-----------------------------------------------------------------------------
(* What a step does to the stack of the executing thread.                  *)

LEMMA At0IsFrame == \A l \in Labels : At0(l) \in Frame
<1>1. 0 \in Tid
  BY ThreadMaxAssumption DEF Tid
<1>2. QED
  BY <1>1 DEF Frame, At0

LEMMA Executing ==
    ASSUME IInv
    PROVE  /\ sp \in Tid /\ stack[sp] \in Seq(Frame) /\ stack[sp] # <<>>
           /\ Len(stack[sp]) \in 1 .. 3
           /\ Top \in Frame
<1>1. sp \in Tid /\ stack[sp] \in Seq(Frame)
  BY DEF IInv, TypeOK
<1>2. Len(stack[sp]) \in 1 .. 3
  BY DEF IInv, Shapes, MainStack, WorkerStack, Alive
<1>3. stack[sp] # <<>>
  <2>1. Len(<<>>) = 0
    BY EmptySeq
  <2>2. QED
    BY <1>2, <2>1
<1>4. Top \in Frame
  BY <1>1, <1>2, ElementOfSeq DEF Top
<1>5. QED
  BY <1>1, <1>2, <1>3, <1>4

\* The frames above the executing one, and the other stacks, stay as they are.
Kept(n) ==
    /\ \A i \in 1 .. n : stack'[sp][i] = stack[sp][i]
    /\ \A t \in Tid \ {sp} : stack'[t] = stack[t]

LEMMA BecomeEffect ==
    ASSUME IInv, NEW f \in Frame, Become(f)
    PROVE  /\ stack' \in [Tid -> Seq(Frame)]
           /\ Len(stack'[sp]) = Len(stack[sp])
           /\ stack'[sp][Len(stack[sp])] = f
           /\ Kept(Len(stack[sp]) - 1)
<1>1. stack \in [Tid -> Seq(Frame)]
  BY DEF IInv, TypeOK
<1> DEFINE r == Append(Caller, f)
<1>2. /\ r \in Seq(Frame) /\ Len(r) = Len(stack[sp]) /\ r[Len(stack[sp])] = f
      /\ \A i \in 1 .. Len(stack[sp]) - 1 : r[i] = stack[sp][i]
  BY Executing, ReplaceLast DEF Caller
<1>3. stack' = [stack EXCEPT ![sp] = r]
  BY DEF Become
<1> HIDE DEF r
<1>4. stack' \in [Tid -> Seq(Frame)] /\ stack'[sp] = r
       /\ \A t \in Tid \ {sp} : stack'[t] = stack[t]
  BY <1>1, <1>2, <1>3, Executing
<1>5. QED
  BY <1>2, <1>4 DEF Kept

LEMMA PopEffect ==
    ASSUME IInv, Return
    PROVE  /\ stack' \in [Tid -> Seq(Frame)]
           /\ Len(stack'[sp]) = Len(stack[sp]) - 1
           /\ Kept(Len(stack[sp]) - 1)
<1>1. stack \in [Tid -> Seq(Frame)]
  BY DEF IInv, TypeOK
<1> DEFINE r == Caller
<1>2. /\ r \in Seq(Frame) /\ Len(r) = Len(stack[sp]) - 1
      /\ \A i \in 1 .. Len(stack[sp]) - 1 : r[i] = stack[sp][i]
  BY Executing, DropLast DEF Caller
<1>3. stack' = [stack EXCEPT ![sp] = r]
  BY DEF Return
<1> HIDE DEF r
<1>4. stack' \in [Tid -> Seq(Frame)] /\ stack'[sp] = r
       /\ \A t \in Tid \ {sp} : stack'[t] = stack[t]
  BY <1>1, <1>2, <1>3, Executing
<1>5. QED
  BY <1>2, <1>4 DEF Kept

LEMMA EnterEffect ==
    ASSUME IInv, NEW f \in Frame, Enter(f)
    PROVE  /\ stack' \in [Tid -> Seq(Frame)]
           /\ Len(stack'[sp]) = Len(stack[sp]) + 1
           /\ stack'[sp][Len(stack[sp]) + 1] = f
           /\ Kept(Len(stack[sp]))
<1>1. stack \in [Tid -> Seq(Frame)]
  BY DEF IInv, TypeOK
<1> DEFINE r == Append(stack[sp], f)
<1>2. /\ r \in Seq(Frame) /\ Len(r) = Len(stack[sp]) + 1 /\ r[Len(stack[sp]) + 1] = f
      /\ \A i \in 1 .. Len(stack[sp]) : r[i] = stack[sp][i]
  BY Executing, PushLast
<1>3. stack' = [stack EXCEPT ![sp] = r]
  BY DEF Enter
<1> HIDE DEF r
<1>4. stack' \in [Tid -> Seq(Frame)] /\ stack'[sp] = r
       /\ \A t \in Tid \ {sp} : stack'[t] = stack[t]
  BY <1>1, <1>2, <1>3, Executing
<1>5. QED
  BY <1>2, <1>4 DEF Kept

LEMMA CallEffect ==
    ASSUME IInv, NEW pc \in Labels, NEW ret \in Labels, Call(pc, ret)
    PROVE  /\ stack' \in [Tid -> Seq(Frame)]
           /\ Len(stack'[sp]) = Len(stack[sp]) + 1
           /\ stack'[sp][Len(stack[sp])] = At0(ret)
           /\ stack'[sp][Len(stack[sp]) + 1] = At0(pc)
           /\ Kept(Len(stack[sp]) - 1)
<1>1. stack \in [Tid -> Seq(Frame)] /\ At0(pc) \in Frame /\ At0(ret) \in Frame
  BY At0IsFrame DEF IInv, TypeOK
<1> DEFINE q == Append(Caller, At0(ret))
           r == Append(q, At0(pc))
<1>2. /\ q \in Seq(Frame) /\ Len(q) = Len(stack[sp]) /\ q[Len(stack[sp])] = At0(ret)
      /\ \A i \in 1 .. Len(stack[sp]) - 1 : q[i] = stack[sp][i]
  BY <1>1, Executing, ReplaceLast DEF Caller
<1> HIDE DEF q
<1>3. /\ r \in Seq(Frame) /\ Len(r) = Len(q) + 1 /\ r[Len(q) + 1] = At0(pc)
      /\ \A i \in 1 .. Len(q) : r[i] = q[i]
  BY <1>1, <1>2, PushLast
<1>4. stack' = [stack EXCEPT ![sp] = r]
  BY DEF Call, q
<1> HIDE DEF r
<1>5. stack' \in [Tid -> Seq(Frame)] /\ stack'[sp] = r
       /\ \A t \in Tid \ {sp} : stack'[t] = stack[t]
  BY <1>1, <1>3, <1>4, Executing
<1>6. QED
  BY <1>2, <1>3, <1>5, Executing DEF Kept

-----------------------------------------------------------------------------
(* Where the executing frame can be, by its label.                         *)

LEMMA Ranges ==
    ASSUME TypeOK
    PROVE  /\ g_thread_count \in Nat /\ 1 <= g_thread_count
           /\ 0 \in Created /\ Created \subseteq Tid /\ Live \subseteq Created
<1>1. g_thread_count \in Nat /\ 1 <= g_thread_count /\ g_thread_count <= THREAD_MAX
  BY ThreadMaxAssumption DEF TypeOK
<1>2. 0 \in Created /\ Created \subseteq Tid
  BY <1>1, ThreadMaxAssumption DEF Created, Tid
<1>3. QED
  BY <1>1, <1>2 DEF Live

LEMMA Places ==
    ASSUME IInv
    PROVE  /\ Top.pc \in YieldLabels => Len(stack[sp]) = 3
           /\ Top.pc \in IrqLabels => sp = 0 /\ Len(stack[sp]) = 2
           /\ Top.pc \in ExitLabels => sp # 0 /\ Len(stack[sp]) = 1
           /\ Top.pc = "hlt" => sp = 0 /\ Len(stack[sp]) = 1
           /\ Top.pc = "bootstrap" => sp # 0 /\ Len(stack[sp]) = 1
           /\ Top.pc \in EntryKinds => sp # 0 /\ Len(stack[sp]) = 2
<1>1. CASE sp = 0
  <2>1. Len(stack[sp]) = 1 => Top.pc = "hlt"
    BY <1>1 DEF IInv, Shapes, MainStack, Top, At0
  <2>2. ASSUME Len(stack[sp]) = 2 PROVE Top.pc \in IrqLabels
    <3>1. PICK l \in IrqLabels : stack[sp][2] = At0(l)
      BY <1>1, <2>2 DEF IInv, Shapes, MainStack
    <3>2. QED
      BY <2>2, <3>1 DEF Top, At0
  <2>3. Len(stack[sp]) = 3 => Top.pc \in YieldLabels
    BY <1>1 DEF IInv, Shapes, MainStack, Top
  <2>4. QED
    BY <1>1, <2>1, <2>2, <2>3, Executing
       DEF YieldLabels, IrqLabels, ExitLabels, EntryKinds
<1>2. CASE sp # 0
  <2>1. WorkerStack(stack[sp])
    BY <1>2 DEF IInv, Shapes, Alive
  <2>2. Len(stack[sp]) = 1 => Top.pc \in ExitLabels \cup {"bootstrap"}
    BY <2>1 DEF WorkerStack, Top, At0
  <2>3. ASSUME Len(stack[sp]) = 2 PROVE Top.pc \in EntryKinds
    <3>1. PICK e \in EntryKinds : stack[sp][2] = At0(e)
      BY <2>1, <2>3 DEF WorkerStack
    <3>2. QED
      BY <2>3, <3>1 DEF Top, At0
  <2>4. Len(stack[sp]) = 3 => Top.pc \in YieldLabels
    BY <2>1 DEF WorkerStack, Top
  <2>5. QED
    BY <1>2, <2>2, <2>3, <2>4, Executing
       DEF YieldLabels, IrqLabels, ExitLabels, EntryKinds
<1>3. QED
  BY <1>1, <1>2

-----------------------------------------------------------------------------
(* The scan of find_next_runnable: when every other live thread is         *)
(* RUNNABLE it finds the thread whose turn it is in round-robin order.     *)

LEMMA ModStep ==
    ASSUME NEW n \in Nat \ {0}, NEW a \in 0 .. n - 1, NEW i \in 1 .. n
    PROVE  /\ (a + i) % n = IF a + i < n THEN a + i ELSE a + i - n
           /\ (a + i) % n \in 0 .. n - 1
  BY SMT

LEMMA LeastIs ==
    ASSUME NEW S \in SUBSET Nat, NEW r \in S, \A u \in S : r <= u
    PROVE  RR!Least(S) = r
<1>1. \A t \in S : (\A u \in S : t <= u) => t = r
  OBVIOUS
<1>2. QED
  BY <1>1 DEF RR!Least

LEMMA NearestIs ==
    ASSUME NEW D \in SUBSET Nat, D # {}
    PROVE  Nearest(D) \in D /\ \A j \in D : Nearest(D) <= j
  BY LeastExists DEF Nearest

LEMMA FindsSuccessor ==
    ASSUME TypeOK, NEW c \in Created,
           \A t \in Live \ {c} : threadState[t] = RUNNABLE
    PROVE  LET next == FindNextRunnable(c)
           IN  /\ Live \ {c} = {} => next = NoThread
               /\ Live \ {c} # {} => next \in Live \ {c} /\ next = RR!Successor(c)
<1> DEFINE n == g_thread_count
           D == Distances(c)
           others == Live \ {c}
<1>1. n \in Nat \ {0} /\ c \in 0 .. n - 1 /\ Live \in SUBSET (0 .. n - 1)
  BY Ranges DEF Created, Live
<1>2. ASSUME NEW i \in 1 .. n
      PROVE  i \in D <=> (c + i) % n \in others
  <2>1. (c + i) % n \in Created
    BY <1>1, ModStep DEF Created
  <2>2. QED
    BY <2>1 DEF Distances, RunnableAt, Live, RUNNABLE, ZOMBIE
<1>3. ASSUME NEW t \in others
      PROVE  /\ t > c => t - c \in D
             /\ t < c => t - c + n \in D
  <2>1. t \in 0 .. n - 1 /\ t # c
    BY <1>1
  <2> HIDE DEF D
  <2>2. CASE t > c
    <3>1. PICK i \in 1 .. n : i = t - c /\ c + i = t
      BY <1>1, <2>1, <2>2
    <3>2. (c + i) % n = t
      <4>1. (c + i) % n = IF c + i < n THEN c + i ELSE c + i - n
        BY <1>1, ModStep
      <4>2. QED
        BY <1>1, <2>1, <3>1, <4>1
    <3>3. t - c \in D
      BY <1>2, <3>1, <3>2
    <3>4. QED
      BY <1>1, <2>1, <2>2, <3>3
  <2>3. CASE t < c
    <3>1. PICK i \in 1 .. n : i = t - c + n /\ c + i = t + n
      BY <1>1, <2>1, <2>3
    <3>2. (c + i) % n = t
      <4>1. (c + i) % n = IF c + i < n THEN c + i ELSE c + i - n
        BY <1>1, ModStep
      <4>2. QED
        BY <1>1, <2>1, <3>1, <4>1
    <3>3. t - c + n \in D
      BY <1>2, <3>1, <3>2
    <3>4. QED
      BY <1>1, <2>1, <2>3, <3>3
  <2>4. QED
    BY <1>1, <2>1, <2>2, <2>3
<1>4. ASSUME others = {} PROVE FindNextRunnable(c) = NoThread
  <2>1. D = {}
    BY <1>2, <1>4 DEF Distances
  <2>2. QED
    BY <2>1 DEF FindNextRunnable
<1>5. ASSUME others # {}
      PROVE  FindNextRunnable(c) \in others /\ FindNextRunnable(c) = RR!Successor(c)
  <2>1. PICK t0 \in others : TRUE
    BY <1>5
  <2>2. t0 > c \/ t0 < c
    BY <1>1, <2>1
  <2>3. D # {} /\ D \in SUBSET (1 .. n)
    BY <1>3, <2>1, <2>2 DEF Distances
  <2> DEFINE m == Nearest(D)
             r == (c + m) % n
  <2>4. m \in 1 .. n /\ m \in D /\ \A j \in D : m <= j
    BY <1>1, <2>3, NearestIs
  <2>5. FindNextRunnable(c) = r
    BY <2>3 DEF FindNextRunnable
  <2> HIDE DEF m, D
  <2>6. r \in others
    BY <1>2, <2>4
  <2>7. r = IF c + m < n THEN c + m ELSE c + m - n
    BY <1>1, <2>4, ModStep
  <2> HIDE DEF r
  <2> DEFINE above == {t \in Live : t > c}
  <2>8. RR!Live = Live
    BY DEF RR!Live, Live, Created
  <2>9. CASE above # {}
    <3>1. PICK u0 \in above : TRUE
      BY <2>9
    <3>2. ASSUME NEW u \in above PROVE c + m <= u
      <4>1. u \in others /\ u > c /\ u - c \in D
        BY <1>1, <1>3
      <4>2. m <= u - c
        BY <2>4, <4>1
      <4>3. QED
        BY <1>1, <2>4, <4>1, <4>2
    <3>3. c + m < n /\ r = c + m
      BY <1>1, <2>4, <2>7, <3>1, <3>2
    <3>4. r \in above /\ \A u \in above : r <= u
      BY <1>1, <2>4, <2>6, <3>2, <3>3
    <3>5. above \in SUBSET Nat
      <4>1. Live \in SUBSET Nat
        BY <1>1
      <4>2. QED
        BY <4>1
    <3>6. RR!Least(above) = r
      BY <3>4, <3>5, LeastIs
    <3>7. QED
      BY <2>5, <2>6, <2>8, <2>9, <3>6 DEF RR!Successor
  <2>10. CASE above = {}
    <3>1. r < c /\ r \in Live
      BY <1>1, <2>6, <2>10
    <3>2. r = c + m - n
      BY <1>1, <2>4, <2>7, <3>1
    <3>3. ASSUME NEW u \in Live PROVE r <= u
      <4>1. CASE u = c
        BY <1>1, <3>1, <4>1
      <4>2. CASE u # c
        <5>1. u \in others /\ u < c
          BY <1>1, <2>10, <4>2
        <5>2. m <= u - c + n
          BY <1>3, <2>4, <5>1
        <5>3. QED
          BY <1>1, <2>4, <3>2, <5>1, <5>2
      <4>3. QED
        BY <4>1, <4>2
    <3>4. Live \in SUBSET Nat
      BY <1>1
    <3>5. RR!Least(Live) = r
      BY <3>1, <3>3, <3>4, LeastIs
    <3>6. QED
      BY <2>5, <2>6, <2>8, <2>10, <3>5 DEF RR!Successor
  <2>11. QED
    BY <2>9, <2>10
<1>6. QED
  BY <1>4, <1>5

-----------------------------------------------------------------------------
(* Steps that stay on the executing thread's stack.                        *)

\* Nothing that the other threads' part of the invariant speaks of changes.
LEMMA SameThreads ==
    ASSUME IInv, UNCHANGED <<g_thread_count, esp, entry, sp>>,
           \A t \in Tid \ {sp} : threadState'[t] = ZOMBIE <=> threadState[t] = ZOMBIE,
           \A t \in Tid \ {sp} : stack'[t] = stack[t]
    PROVE  /\ Created' = Created /\ (Live \ {sp})' = Live \ {sp} /\ Parked'
           /\ (threadState'[sp] = ZOMBIE <=> threadState[sp] = ZOMBIE) =>
                Live' = Live /\ Alive' /\ RR!Successor(sp)' = RR!Successor(sp)
<1>1. Created' = Created
  BY DEF Created
<1>2. Created \subseteq Tid /\ Live \subseteq Tid
  BY Ranges DEF IInv
<1>3. (Live \ {sp})' = Live \ {sp}
  BY <1>1, <1>2 DEF Live
<1>4. Parked'
  BY <1>2, <1>3 DEF Parked, IInv
<1>5. ASSUME threadState'[sp] = ZOMBIE <=> threadState[sp] = ZOMBIE
      PROVE  Live' = Live /\ Alive' /\ RR!Successor(sp)' = RR!Successor(sp)
  <2>1. Live' = Live
    BY <1>1, <1>2, <1>5 DEF Live
  <2>2. Alive'
    BY <1>1, <2>1 DEF Alive, IInv
  <2>3. {t \in Created : threadState[t] = ZOMBIE}' = {t \in Created : threadState[t] = ZOMBIE}
    BY <1>1, <1>2, <1>5
  <2>4. RR!Live' = RR!Live
    BY <2>3 DEF RR!Live
  <2>5. RR!Successor(sp)' = RR!Successor(sp)
    BY <2>4 DEF RR!Successor, RR!Least
  <2>6. QED
    BY <2>1, <2>2, <2>5
<1>6. QED
  BY <1>1, <1>3, <1>4, <1>5

LEMMA InPlace ==
    ASSUME IInv, NEW f \in Frame, Become(f),
           \/ Top.pc \in YieldLabels /\ f.pc \in YieldLabels
           \/ Top.pc \in ExitLabels /\ f.pc \in ExitLabels,
           UNCHANGED <<g_thread_count, esp, entry, sp, isr>>,
           threadState' \in [Tid -> {RUNNABLE, RUNNING, ZOMBIE}],
           \A t \in Tid \ {sp} : threadState'[t] = ZOMBIE <=> threadState[t] = ZOMBIE
    PROVE  /\ stack' \in [Tid -> Seq(Frame)] /\ Top' = f
           /\ Created' = Created /\ (Live \ {sp})' = Live \ {sp} /\ Parked'
           /\ (threadState'[sp] = ZOMBIE <=> threadState[sp] = ZOMBIE) =>
                Live' = Live /\ Alive' /\ RR!Successor(sp)' = RR!Successor(sp)
           /\ Shapes' /\ Service' /\ Filled'
<1>1. /\ stack' \in [Tid -> Seq(Frame)]
      /\ Len(stack'[sp]) = Len(stack[sp])
      /\ stack'[sp][Len(stack[sp])] = f
      /\ Kept(Len(stack[sp]) - 1)
  BY BecomeEffect
<1>2. Top' = f
  BY <1>1 DEF Top
<1>3. /\ Created' = Created /\ (Live \ {sp})' = Live \ {sp} /\ Parked'
      /\ (threadState'[sp] = ZOMBIE <=> threadState[sp] = ZOMBIE) =>
           Live' = Live /\ Alive' /\ RR!Successor(sp)' = RR!Successor(sp)
  BY <1>1, SameThreads DEF Kept
<1>4. \/ Len(stack[sp]) = 3 /\ f.pc \in YieldLabels
      \/ Len(stack[sp]) = 1 /\ f.pc \in ExitLabels /\ sp # 0
  BY Places
<1>5. 0 \in Tid /\ Created \subseteq Tid
  BY Ranges DEF IInv
<1>6. MainStack(stack'[0])
  <2>1. CASE sp = 0
    BY <2>1, <1>1, <1>4 DEF Kept, IInv, Shapes, MainStack
  <2>2. CASE sp # 0
    BY <2>2, <1>1, <1>5 DEF Kept, IInv, Shapes
  <2>3. QED
    BY <2>1, <2>2
<1>7. ASSUME NEW t \in Created \ {0} PROVE WorkerStack(stack'[t]) /\ entry'[t] \in Entries
  <2>0. WorkerStack(stack[t]) /\ entry[t] \in Entries
    BY DEF IInv, Shapes
  <2>1. CASE sp = t
    <3>1. CASE Len(stack[sp]) = 1
      BY <3>1, <2>0, <2>1, <1>1, <1>4 DEF WorkerStack
    <3>2. CASE Len(stack[sp]) = 3 /\ f.pc \in YieldLabels
      <4>1. stack'[t][1] = stack[t][1] /\ stack'[t][2] = stack[t][2]
        BY <3>2, <2>1, <1>1 DEF Kept
      <4>2. QED
        BY <3>2, <4>1, <2>0, <2>1, <1>1 DEF WorkerStack
    <3>3. QED
      BY <3>1, <3>2, <1>4
  <2>2. CASE sp # t
    BY <2>0, <2>2, <1>1, <1>5 DEF Kept
  <2>3. QED
    BY <2>1, <2>2
<1>8. Shapes'
  BY <1>3, <1>6, <1>7 DEF Shapes
<1>9. Len(stack'[0]) = Len(stack[0]) /\ (Len(stack[0]) # 1 => stack'[0][2] = stack[0][2])
  BY <1>1, <1>4, <1>5 DEF Kept, IInv, Shapes, MainStack
<1>10. Service'
  BY <1>9 DEF Service, IInv
<1>11. Filled'
  <2>1. SUFFICES ASSUME Len(stack[0]) = 2, stack[0][2].pc = "spawn_publish"
                 PROVE  Filled'
    BY <1>9 DEF Filled
  <2>2. sp # 0
    BY <2>1, <1>4
  <2>3. 0 \in Live \ {sp}
    BY <2>2 DEF IInv, Alive
  <2>4. stack[0][2].pc \in {"resumed", "bootstrap"}
    BY <2>1, <2>3 DEF IInv, Parked
  <2>5. QED
    BY <2>1, <2>4
<1>12. QED
  BY <1>1, <1>2, <1>3, <1>8, <1>10, <1>11

\* A step of a hand-over, once States is known to hold after it.
LEMMA HandOverStep ==
    ASSUME IInv, NEW f \in Frame, Become(f),
           \/ Top.pc \in YieldLabels /\ f.pc \in YieldLabels
           \/ Top.pc \in ExitLabels /\ f.pc \in ExitLabels,
           UNCHANGED <<esp, entry, g_thread_count, sp, g_preempt_enabled, iflag, pic>>,
           threadState' \in [Tid -> {RUNNABLE, RUNNING, ZOMBIE}],
           \A t \in Tid \ {sp} : threadState'[t] = ZOMBIE <=> threadState[t] = ZOMBIE,
           threadState'[sp] = ZOMBIE => threadState[sp] = ZOMBIE \/ sp # 0,
           threadState[sp] = ZOMBIE => threadState'[sp] = ZOMBIE,
           g_current_tid' \in Tid,
           States'
    PROVE  IInv'
<1>1. UNCHANGED <<irr, isr>>
  BY DEF pic
<1>2. /\ stack' \in [Tid -> Seq(Frame)] /\ Top' = f
      /\ Created' = Created /\ (Live \ {sp})' = Live \ {sp} /\ Parked'
      /\ (threadState'[sp] = ZOMBIE <=> threadState[sp] = ZOMBIE) =>
           Live' = Live /\ Alive' /\ RR!Successor(sp)' = RR!Successor(sp)
      /\ Shapes' /\ Service' /\ Filled'
  BY <1>1, InPlace
<1>3. TypeOK'
  BY <1>1, <1>2 DEF IInv, TypeOK
<1>4. Alive'
  <2>1. CASE threadState'[sp] = ZOMBIE <=> threadState[sp] = ZOMBIE
    BY <2>1, <1>2
  <2>2. CASE sp # 0
    BY <2>2, <1>2 DEF Alive, IInv
  <2>3. QED
    BY <2>1, <2>2
<1>5. Flag'
  BY <1>2 DEF Flag, IInv, YieldLabels, ExitLabels
<1>6. QED
  BY <1>2, <1>3, <1>4, <1>5 DEF IInv

LEMMA YieldFindStep == IInv /\ YieldFind => IInv'
<1> SUFFICES ASSUME IInv, YieldFind PROVE IInv'
  OBVIOUS
<1> DEFINE next == FindNextRunnable(g_current_tid)
           f == [pc |-> "demote", prev |-> g_current_tid, next |-> next]
<1>1. Top.pc = "yield" /\ Become(f) /\ next # NoThread
  BY DEF YieldFind, At
<1>2. g_current_tid = sp /\ sp \in Live
      /\ \A t \in Live \ {sp} : threadState[t] = RUNNABLE
  BY <1>1 DEF IInv, Alive, Live, States, OwnState, YieldSteps, ExitSteps, Promoted,
              RUNNING, ZOMBIE
<1>3. next \in Live \ {sp} /\ next = RR!Successor(sp)
  BY <1>1, <1>2, FindsSuccessor, Ranges DEF IInv
<1>4. f \in Frame
  BY <1>2, <1>3, Ranges DEF Frame, Labels, YieldLabels, IInv
<1> HIDE DEF next
<1>5. f.pc = "demote" /\ f.prev = sp /\ f.next = next
  BY <1>2
<1> HIDE DEF f
<1>6. UNCHANGED <<threadState, esp, entry, g_thread_count, sp, g_current_tid,
                  g_preempt_enabled, iflag, pic, isr>>
  BY DEF YieldFind, table, pic
<1>7. Top' = f /\ Live' = Live /\ RR!Successor(sp)' = RR!Successor(sp)
  BY <1>1, <1>4, <1>5, <1>6, InPlace DEF IInv, TypeOK, YieldLabels
<1>8. States'
  BY <1>1, <1>2, <1>3, <1>5, <1>6, <1>7
     DEF IInv, States, OwnState, YieldSteps, ExitSteps, Promoted
<1>9. QED
  BY <1>1, <1>4, <1>5, <1>6, <1>8, HandOverStep DEF IInv, TypeOK, YieldLabels

LEMMA YieldDemoteStep == IInv /\ YieldDemote => IInv'
<1> SUFFICES ASSUME IInv, YieldDemote PROVE IInv'
  OBVIOUS
<1> DEFINE f == [Top EXCEPT !.pc = "promote"]
<1>1. f \in Frame /\ f.pc = "promote" /\ f.prev = Top.prev /\ f.next = Top.next
  BY Executing DEF Frame, Labels, YieldLabels
<1>2. Top.pc = "demote" /\ Top.prev = sp /\ Become(f)
  BY DEF YieldDemote, At, IInv, States, YieldSteps
<1> HIDE DEF f
<1>3. threadState' = [threadState EXCEPT ![sp] = RUNNABLE] /\ sp \in Tid
  BY <1>2 DEF YieldDemote, IInv, TypeOK, States, OwnState, YieldSteps, ExitSteps
<1>4. threadState' \in [Tid -> {RUNNABLE, RUNNING, ZOMBIE}]
  BY <1>3 DEF IInv, TypeOK
<1>5. \A t \in Tid : threadState'[t] = ZOMBIE <=> threadState[t] = ZOMBIE
  BY <1>2, <1>3 DEF IInv, States, OwnState, YieldSteps, ExitSteps, TypeOK,
                    RUNNABLE, RUNNING, ZOMBIE
<1>6. UNCHANGED <<esp, entry, g_thread_count, sp, g_current_tid,
                  g_preempt_enabled, iflag, pic, isr>>
  BY DEF YieldDemote, pic
<1>7. Top' = f /\ Live' = Live /\ RR!Successor(sp)' = RR!Successor(sp)
  BY <1>1, <1>2, <1>3, <1>4, <1>5, <1>6, InPlace DEF YieldLabels
<1>8. States'
  BY <1>1, <1>2, <1>3, <1>6, <1>7, Ranges
     DEF States, OwnState, YieldSteps, ExitSteps, Promoted, IInv, TypeOK
<1>9. QED
  BY <1>1, <1>2, <1>3, <1>4, <1>5, <1>6, <1>8, HandOverStep
     DEF IInv, TypeOK, YieldLabels

LEMMA PromoteStep == IInv /\ (YieldPromote \/ ExitPromote) => IInv'
<1> SUFFICES ASSUME IInv, YieldPromote \/ ExitPromote PROVE IInv'
  OBVIOUS
<1> DEFINE f == [Top EXCEPT !.pc = IF Top.pc = "promote" THEN "set_current"
                                   ELSE "exit_set_current"]
<1>1. /\ f \in Frame /\ f.prev = Top.prev /\ f.next = Top.next
      /\ f.pc = IF Top.pc = "promote" THEN "set_current" ELSE "exit_set_current"
  BY Executing DEF Frame, Labels, YieldLabels, ExitLabels
<1>2. Top.pc \in {"promote", "exit_promote"} /\ Become(f)
  BY DEF YieldPromote, ExitPromote, At
<1> HIDE DEF f
<1>3. Top.next \in Live \ {sp} /\ Top.next \in Tid /\ sp \in Tid /\ Top.prev = sp
  BY <1>2, Ranges DEF IInv, TypeOK, States, YieldSteps, ExitSteps
<1>4. threadState' = [threadState EXCEPT ![Top.next] = RUNNING]
  BY DEF YieldPromote, ExitPromote
<1>5. threadState' \in [Tid -> {RUNNABLE, RUNNING, ZOMBIE}]
  BY <1>4 DEF IInv, TypeOK
<1>6. /\ \A t \in Tid : threadState'[t] = ZOMBIE <=> threadState[t] = ZOMBIE
      /\ threadState'[sp] = threadState[sp]
  BY <1>3, <1>4 DEF IInv, TypeOK, Live, RUNNABLE, RUNNING, ZOMBIE
<1>7. UNCHANGED <<esp, entry, g_thread_count, sp, g_current_tid,
                  g_preempt_enabled, iflag, pic, isr>>
  BY DEF YieldPromote, ExitPromote, pic
<1>8. Top' = f /\ Live' = Live /\ RR!Successor(sp)' = RR!Successor(sp)
  BY <1>1, <1>2, <1>5, <1>6, <1>7, InPlace DEF YieldLabels, ExitLabels
<1>9. States'
  BY <1>1, <1>2, <1>3, <1>4, <1>6, <1>7, <1>8, Ranges
     DEF States, OwnState, YieldSteps, ExitSteps, Promoted, IInv, TypeOK
<1>10. QED
  BY <1>1, <1>2, <1>5, <1>6, <1>7, <1>9, HandOverStep
     DEF IInv, TypeOK, YieldLabels, ExitLabels

LEMMA SetCurrentStep == IInv /\ (YieldSetCurrent \/ ExitSetCurrent) => IInv'
<1> SUFFICES ASSUME IInv, YieldSetCurrent \/ ExitSetCurrent PROVE IInv'
  OBVIOUS
<1> DEFINE f == [Top EXCEPT !.pc = IF Top.pc = "set_current" THEN "switch"
                                   ELSE "exit_switch"]
<1>1. /\ f \in Frame /\ f.prev = Top.prev /\ f.next = Top.next
      /\ f.pc = IF Top.pc = "set_current" THEN "switch" ELSE "exit_switch"
  BY Executing DEF Frame, Labels, YieldLabels, ExitLabels
<1>2. Top.pc \in {"set_current", "exit_set_current"} /\ Become(f)
  BY DEF YieldSetCurrent, ExitSetCurrent, At
<1> HIDE DEF f
<1>3. Top.next \in Live \ {sp} /\ Top.next \in Tid /\ sp \in Tid /\ Top.prev = sp
  BY <1>2, Ranges DEF IInv, TypeOK, States, YieldSteps, ExitSteps
<1>4. g_current_tid' = Top.next
  BY DEF YieldSetCurrent, ExitSetCurrent
<1>5. UNCHANGED <<threadState, esp, entry, g_thread_count, sp,
                  g_preempt_enabled, iflag, pic, isr>>
  BY DEF YieldSetCurrent, ExitSetCurrent, table, pic
<1>6. Top' = f /\ Live' = Live /\ RR!Successor(sp)' = RR!Successor(sp)
  BY <1>1, <1>2, <1>5, InPlace DEF IInv, TypeOK, YieldLabels, ExitLabels
<1>7. States'
  BY <1>1, <1>2, <1>3, <1>4, <1>5, <1>6
     DEF States, OwnState, YieldSteps, ExitSteps, Promoted, IInv
<1>8. QED
  BY <1>1, <1>2, <1>3, <1>4, <1>5, <1>7, HandOverStep
     DEF IInv, TypeOK, YieldLabels, ExitLabels

LEMMA ExitMarkStep == IInv /\ ExitMark => IInv'
<1> SUFFICES ASSUME IInv, ExitMark PROVE IInv'
  OBVIOUS
<1> DEFINE f == [pc |-> "exit_find", prev |-> g_current_tid, next |-> NoThread]
<1>1. /\ f \in Frame /\ f.pc = "exit_find" /\ f.prev = g_current_tid
      /\ f.next = NoThread
  BY DEF Frame, Labels, ExitLabels, IInv, TypeOK
<1>2. Top.pc = "exit" /\ Become(f)
  BY DEF ExitMark, At
<1> HIDE DEF f
<1>3. sp # 0 /\ sp \in Tid
  BY <1>2, Places DEF ExitLabels, IInv, TypeOK
<1>4. g_current_tid = sp /\ threadState[sp] = RUNNING
      /\ \A t \in Live \ {sp} : threadState[t] = RUNNABLE
  BY <1>2 DEF IInv, States, OwnState, YieldSteps, ExitSteps, Promoted
<1>5. threadState' = [threadState EXCEPT ![sp] = ZOMBIE]
  BY <1>4 DEF ExitMark
<1>6. /\ threadState' \in [Tid -> {RUNNABLE, RUNNING, ZOMBIE}]
      /\ \A t \in Tid \ {sp} : threadState'[t] = threadState[t]
      /\ threadState'[sp] = ZOMBIE
  BY <1>3, <1>5 DEF IInv, TypeOK
<1>7. UNCHANGED <<esp, entry, g_thread_count, sp, g_current_tid,
                  g_preempt_enabled, iflag, pic, isr>>
  BY DEF ExitMark, pic
<1>8. Top' = f /\ (Live \ {sp})' = Live \ {sp}
  BY <1>1, <1>2, <1>6, <1>7, InPlace DEF ExitLabels
<1>9. States'
  BY <1>1, <1>4, <1>6, <1>7, <1>8, Ranges
     DEF States, OwnState, YieldSteps, ExitSteps, Promoted, IInv
<1>10. QED
  BY <1>1, <1>2, <1>3, <1>4, <1>6, <1>7, <1>9, HandOverStep
     DEF IInv, TypeOK, ExitLabels, RUNNING, ZOMBIE

LEMMA ExitFindStep == IInv /\ ExitFind => IInv'
<1> SUFFICES ASSUME IInv, ExitFind PROVE IInv'
  OBVIOUS
<1> DEFINE next == FindNextRunnable(Top.prev)
           f == [pc |-> IF next = NoThread THEN "panic" ELSE "exit_promote",
                 prev |-> Top.prev, next |-> next]
<1>1. Top.pc = "exit_find" /\ Become(f)
  BY DEF ExitFind, At
<1>2. sp # 0 /\ Top.prev = sp /\ sp \in Created
      /\ g_current_tid = sp /\ threadState[sp] = ZOMBIE
      /\ \A t \in Live \ {sp} : threadState[t] = RUNNABLE
  BY <1>1, Places DEF IInv, Alive, States, OwnState, YieldSteps, ExitSteps, Promoted,
                      ExitLabels
<1>3. next \in Live \ {sp} /\ next = RR!Successor(sp) /\ next # NoThread
  <2>1. Live \ {sp} # {}
    BY <1>2 DEF IInv, Alive
  <2>2. next \in Live \ {sp} /\ next = RR!Successor(sp)
    BY <1>2, <2>1, FindsSuccessor DEF IInv
  <2>3. next \in Nat
    BY <2>2, Ranges DEF IInv, Live, Created
  <2>4. QED
    BY <2>2, <2>3 DEF NoThread
<1>4. f \in Frame
  BY <1>2, <1>3, Ranges DEF Frame, Labels, ExitLabels, IInv
<1>5. f.pc = "exit_promote" /\ f.prev = sp /\ f.next = next
  BY <1>2, <1>3
<1> HIDE DEF f, next
<1>6. UNCHANGED <<threadState, esp, entry, g_thread_count, sp, g_current_tid,
                  g_preempt_enabled, iflag, pic, isr>>
  BY DEF ExitFind, table, pic
<1>7. Top' = f /\ Live' = Live /\ RR!Successor(sp)' = RR!Successor(sp)
  BY <1>1, <1>4, <1>5, <1>6, InPlace DEF IInv, TypeOK, ExitLabels
<1>8. Top'.pc = "exit_promote" /\ Top'.prev = sp /\ Top'.next = next
  BY <1>5, <1>7
<1>9. States'
  BY <1>2, <1>3, <1>6, <1>7, <1>8
     DEF States, OwnState, YieldSteps, ExitSteps, Promoted
<1>10. QED
  BY <1>1, <1>4, <1>5, <1>6, <1>9, HandOverStep DEF IInv, TypeOK, ExitLabels

-----------------------------------------------------------------------------
(* Steps outside a hand-over.                                              *)

Quiet(pc) == pc \notin YieldSteps \cup ExitSteps \cup {"panic"}

LEMMA QuietStep ==
    ASSUME IInv,
           stack' \in [Tid -> Seq(Frame)],
           \A t \in Tid \ {sp} : stack'[t] = stack[t],
           UNCHANGED <<table, sp, g_current_tid>>,
           g_preempt_enabled' \in BOOLEAN, iflag' \in BOOLEAN,
           irr' \subseteq Irq, isr' \subseteq Irq,
           Quiet(Top.pc), Quiet(Top'.pc), Top'.pc # "spawn_publish",
           sp = 0 => MainStack(stack'[0]) /\ Service',
           sp # 0 => WorkerStack(stack'[sp]) /\ UNCHANGED isr,
           Flag'
    PROVE  IInv'
<1>1. UNCHANGED <<threadState, esp, entry, g_thread_count, sp, g_current_tid>>
  BY DEF table
<1>2. TypeOK'
  BY <1>1 DEF IInv, TypeOK
<1>3. Created' = Created /\ Live' = Live /\ Alive' /\ Parked'
  BY <1>1, SameThreads
<1>4. 0 \in Tid /\ Created \subseteq Tid
  BY Ranges DEF IInv
<1>5. Shapes'
  <2>1. MainStack(stack'[0])
    BY <1>4 DEF IInv, Shapes
  <2>2. \A t \in Created \ {0} : WorkerStack(stack'[t]) /\ entry'[t] \in Entries
    BY <1>1, <1>4 DEF IInv, Shapes
  <2>3. QED
    BY <1>3, <2>1, <2>2 DEF Shapes
<1>6. States'
  BY <1>1, <1>3 DEF IInv, States, OwnState, Promoted, YieldSteps, ExitSteps, Quiet
<1>7. Service'
  BY <1>4 DEF IInv, Service
<1>8. Filled'
  <2>1. CASE sp = 0
    BY <2>1, <1>1 DEF Filled, Top
  <2>2. CASE sp # 0
    <3>1. Len(stack[0]) = 2 => stack[0][2].pc \in {"resumed", "bootstrap"}
      BY <2>2 DEF IInv, Alive, Parked
    <3>2. QED
      BY <2>2, <1>4, <3>1 DEF Filled
  <2>3. QED
    BY <2>1, <2>2
<1>9. QED
  BY <1>2, <1>3, <1>5, <1>6, <1>7, <1>8 DEF IInv

\* Inside an interrupt handler, where only main's stack can be.
LEMMA HandlerGoto ==
    ASSUME IInv, Top.pc \in IrqLabels, NEW l \in IrqLabels, Goto(l)
    PROVE  /\ sp = 0 /\ Len(stack[0]) = 2 /\ stack[0][2] = At0(Top.pc)
           /\ stack' \in [Tid -> Seq(Frame)]
           /\ \A t \in Tid \ {sp} : stack'[t] = stack[t]
           /\ Len(stack'[0]) = 2 /\ stack'[0][2] = At0(l)
           /\ MainStack(stack'[0])
           /\ sp' = sp => Top'.pc = l
           /\ Quiet(Top.pc) /\ Quiet(l) /\ l # "hlt"
<1>1. sp = 0 /\ Len(stack[0]) = 2
  BY Places
<1>2. PICK k \in IrqLabels : stack[0][2] = At0(k)
  BY <1>1 DEF IInv, Shapes, MainStack
<1>3. stack[0][2] = At0(Top.pc)
  BY <1>1, <1>2 DEF Top, At0
<1>4. l \in Labels
  BY DEF Labels
<1>5. Become(At0(l)) /\ At0(l) \in Frame
  BY <1>4, At0IsFrame DEF Goto
<1>6. /\ stack' \in [Tid -> Seq(Frame)]
      /\ Len(stack'[0]) = 2
      /\ stack'[0][2] = At0(l)
      /\ Kept(1)
  BY <1>1, <1>5, BecomeEffect
<1>7. MainStack(stack'[0])
  BY <1>1, <1>6 DEF Kept, IInv, Shapes, MainStack
<1>8. sp' = sp => Top'.pc = l
  BY <1>1, <1>6 DEF Top, At0
<1>9. Quiet(Top.pc) /\ Quiet(l) /\ l # "hlt"
  BY DEF Quiet, IrqLabels, YieldSteps, ExitSteps
<1>10. QED
  BY <1>1, <1>3, <1>6, <1>7, <1>8, <1>9 DEF Kept

LEMMA HandlerStep ==
    ASSUME IInv, Top.pc \in IrqLabels,
           NEW l \in IrqLabels \ {"spawn_publish"}, Goto(l),
           UNCHANGED <<table, sp, g_current_tid, iflag, irr>>,
           g_preempt_enabled' \in BOOLEAN,
           isr' = ServiceOf(l)
    PROVE  IInv'
<1>1. /\ sp = 0 /\ Len(stack[0]) = 2 /\ stack[0][2] = At0(Top.pc)
      /\ stack' \in [Tid -> Seq(Frame)]
      /\ \A t \in Tid \ {sp} : stack'[t] = stack[t]
      /\ Len(stack'[0]) = 2 /\ stack'[0][2] = At0(l)
      /\ MainStack(stack'[0]) /\ Top'.pc = l
      /\ Quiet(Top.pc) /\ Quiet(l) /\ l # "hlt"
  BY HandlerGoto
<1>2. Service'
  BY <1>1 DEF Service, At0
<1>3. Flag'
  BY <1>1 DEF Flag, IInv, IrqLabels
<1>4. isr' \subseteq Irq
  BY DEF ServiceOf, Irq
<1>5. QED
  BY <1>1, <1>2, <1>3, <1>4, QuietStep DEF IInv, TypeOK

\* What is in service while the handler at the executing frame runs.
LEMMA InService ==
    ASSUME IInv, Top.pc \in IrqLabels
    PROVE  isr = ServiceOf(Top.pc)
<1>1. sp = 0 /\ Len(stack[0]) = 2
  BY Places
<1>2. QED
  BY <1>1 DEF IInv, Service, Top

LEMMA HandlerSteps ==
    IInv /\ (Irq0Tick \/ KeyOther \/ CommandSpawn \/ SpawnEnd \/ Irq1Eoi
               \/ \E on \in BOOLEAN : CommandPreempt(on)) => IInv'
<1> SUFFICES ASSUME IInv PROVE
      /\ Irq0Tick => IInv'
      /\ KeyOther => IInv'
      /\ CommandSpawn => IInv'
      /\ SpawnEnd => IInv'
      /\ Irq1Eoi => IInv'
      /\ \A on \in BOOLEAN : CommandPreempt(on) => IInv'
  OBVIOUS
<1>1. ASSUME Irq0Tick PROVE IInv'
  <2>1. Top.pc = "irq0" /\ isr = {0}
    BY <1>1, InService DEF Irq0Tick, At, IrqLabels, ServiceOf
  <2>2. isr' = {}
    BY <1>1, <2>1 DEF Irq0Tick, Eoi
  <2>3. QED
    BY <1>1, <2>1, <2>2, HandlerStep DEF Irq0Tick, IrqLabels, ServiceOf, IInv, TypeOK
<1>2. ASSUME KeyOther PROVE IInv'
  <2>1. Top.pc = "irq1" /\ isr = {1}
    BY <1>2, InService DEF KeyOther, At, IrqLabels, ServiceOf
  <2>2. QED
    BY <1>2, <2>1, HandlerStep DEF KeyOther, IrqLabels, ServiceOf, IInv, TypeOK, pic
<1>3. ASSUME CommandSpawn PROVE IInv'
  <2>1. Top.pc = "irq1" /\ isr = {1}
    BY <1>3, InService DEF CommandSpawn, At, IrqLabels, ServiceOf
  <2>2. QED
    BY <1>3, <2>1, HandlerStep DEF CommandSpawn, IrqLabels, ServiceOf, IInv, TypeOK, pic
<1>4. ASSUME SpawnEnd PROVE IInv'
  <2>1. Top.pc = "spawn" /\ isr = {1}
    BY <1>4, InService DEF SpawnEnd, At, IrqLabels, ServiceOf
  <2>2. QED
    BY <1>4, <2>1, HandlerStep DEF SpawnEnd, IrqLabels, ServiceOf, IInv, TypeOK, pic
<1>5. ASSUME Irq1Eoi PROVE IInv'
  <2>1. Top.pc = "irq1_eoi" /\ isr = {1}
    BY <1>5, InService DEF Irq1Eoi, At, IrqLabels, ServiceOf
  <2>2. isr' = {}
    BY <1>5, <2>1 DEF Irq1Eoi, Eoi
  <2>3. QED
    BY <1>5, <2>1, <2>2, HandlerStep DEF Irq1Eoi, IrqLabels, ServiceOf, IInv, TypeOK
<1>6. ASSUME NEW on \in BOOLEAN, CommandPreempt(on) PROVE IInv'
  <2>1. Top.pc = "irq1" /\ isr = {1}
    BY <1>6, InService DEF CommandPreempt, At, IrqLabels, ServiceOf
  <2>2. QED
    BY <1>6, <2>1, HandlerStep DEF CommandPreempt, IrqLabels, ServiceOf, IInv, TypeOK, pic
<1>7. QED
  BY <1>1, <1>2, <1>3, <1>4, <1>5, <1>6

\* thread_yield is called by a handler's last step or by an entry function.
LEMMA CallYieldStep ==
    ASSUME IInv, NEW ret \in Labels, Call("yield", ret),
           \/ /\ Top.pc \in IrqLabels /\ ret \in {"iret", "irq1_eoi"}
              /\ ServiceOf(ret) = ServiceOf(Top.pc)
           \/ Top.pc \in EntryKinds /\ ret = Top.pc,
           UNCHANGED <<table, sp, g_current_tid, g_preempt_enabled, iflag, irr, isr>>
    PROVE  IInv'
<1>1. "yield" \in Labels
  BY DEF Labels, YieldLabels
<1>2. \/ sp = 0 /\ ret \in {"iret", "irq1_eoi"} /\ isr = ServiceOf(ret)
      \/ sp # 0 /\ ret \in EntryKinds
  BY Places, InService
<1>3. Len(stack[sp]) = 2
  BY Places
<1>4. /\ stack' \in [Tid -> Seq(Frame)]
      /\ Len(stack'[sp]) = 3
      /\ stack'[sp][1] = stack[sp][1]
      /\ stack'[sp][2] = At0(ret)
      /\ stack'[sp][3] = At0("yield")
      /\ \A t \in Tid \ {sp} : stack'[t] = stack[t]
  BY <1>1, <1>3, CallEffect DEF Kept
<1>5. Top'.pc = "yield"
  BY <1>4 DEF Top, At0
<1>6. Quiet(Top.pc) /\ Quiet("yield") /\ Top.pc # "hlt"
  BY DEF Quiet, IrqLabels, EntryKinds, YieldSteps, ExitSteps
<1>7. ASSUME sp = 0 PROVE MainStack(stack'[0]) /\ Service'
  <2>1. ret \in {"iret", "irq1_eoi"} /\ ret \in IrqLabels /\ isr' = ServiceOf(ret)
    BY <1>2, <1>7 DEF IrqLabels
  <2>2. stack'[0][1] = At0("hlt") /\ At0(ret).pc = ret /\ At0("yield").pc = "yield"
    BY <1>4, <1>7 DEF IInv, Shapes, MainStack, At0
  <2>3. MainStack(stack'[0])
    BY <1>4, <1>7, <2>1, <2>2 DEF MainStack, YieldLabels
  <2>4. Service'
    BY <1>4, <1>7, <2>1, <2>2 DEF Service
  <2>5. QED
    BY <2>3, <2>4
<1>8. ASSUME sp # 0 PROVE WorkerStack(stack'[sp])
  <2>1. WorkerStack(stack[sp])
    BY <1>8 DEF IInv, Shapes, Alive
  <2>2. QED
    BY <1>2, <1>3, <1>4, <1>8, <2>1 DEF WorkerStack, At0, YieldLabels
<1>9. Flag'
  BY <1>5, <1>6 DEF Flag, IInv
<1>10. QED
  BY <1>4, <1>5, <1>6, <1>7, <1>8, <1>9, QuietStep DEF IInv, TypeOK

LEMMA CallSteps == IInv /\ (Irq0Preempt \/ CommandYield \/ EntryYield) => IInv'
<1> SUFFICES ASSUME IInv PROVE
      /\ Irq0Preempt => IInv'
      /\ CommandYield => IInv'
      /\ EntryYield => IInv'
  OBVIOUS
<1>1. ASSUME Irq0Preempt PROVE IInv'
  <2>1. Top.pc = "irq0_preempt" /\ isr = {}
    BY <1>1, InService DEF Irq0Preempt, At, IrqLabels, ServiceOf
  <2>2. CASE g_preempt_enabled
    BY <1>1, <2>1, <2>2, CallYieldStep
       DEF Irq0Preempt, Labels, IrqLabels, ServiceOf, pic
  <2>3. CASE ~ g_preempt_enabled
    BY <1>1, <2>1, <2>3, HandlerStep
       DEF Irq0Preempt, IrqLabels, ServiceOf, IInv, TypeOK, pic
  <2>4. QED
    BY <2>2, <2>3
<1>2. ASSUME CommandYield PROVE IInv'
  BY <1>2, CallYieldStep DEF CommandYield, At, Labels, IrqLabels, ServiceOf, pic
<1>3. ASSUME EntryYield PROVE IInv'
  BY <1>3, CallYieldStep DEF EntryYield, At, Labels, EntryKinds, pic
<1>4. QED
  BY <1>1, <1>2, <1>3

\* A call returns: to its caller, or out of the interrupt.
LEMMA ReturnStep ==
    ASSUME IInv, Return, Len(stack[sp]) # 1, Top.pc # "irq0",
           Top.pc \in IrqLabels => ServiceOf(Top.pc) = {},
           Quiet(Top.pc),
           iflag' = IF Top.pc \in IrqLabels THEN TRUE ELSE iflag,
           UNCHANGED <<table, sp, g_current_tid, g_preempt_enabled, irr, isr>>
    PROVE  IInv'
<1>0. Len(stack[sp]) = 2 \/ Len(stack[sp]) = 3
  <2>1. Len(stack[sp]) \in 1 .. 3
    BY Executing
  <2>2. QED
    BY <2>1
<1>1. /\ stack' \in [Tid -> Seq(Frame)]
      /\ Len(stack'[sp]) = Len(stack[sp]) - 1
      /\ \A i \in 1 .. Len(stack[sp]) - 1 : stack'[sp][i] = stack[sp][i]
      /\ \A t \in Tid \ {sp} : stack'[t] = stack[t]
  BY PopEffect DEF Kept
<1>2. CASE sp = 0
  <2>1. CASE Len(stack[sp]) = 2
    <3>1. Top.pc \in IrqLabels
      <4>1. PICK l \in IrqLabels : stack[0][2] = At0(l)
        BY <1>2, <2>1 DEF IInv, Shapes, MainStack
      <4>2. QED
        BY <1>2, <2>1, <4>1 DEF Top, At0
    <3>2. Len(stack'[0]) = 1 /\ stack'[0][1] = At0("hlt")
      BY <1>1, <1>2, <2>1 DEF IInv, Shapes, MainStack
    <3>3. Top'.pc = "hlt" /\ MainStack(stack'[0])
      BY <1>2, <3>2 DEF Top, At0, MainStack
    <3>4. Service' /\ Flag'
      BY <1>2, <3>1, <3>2, <3>3, InService DEF Service, Flag
    <3>5. Quiet(Top'.pc) /\ Top'.pc # "spawn_publish"
      BY <3>3 DEF Quiet, YieldSteps, ExitSteps
    <3>6. QED
      BY <1>1, <1>2, <3>1, <3>3, <3>4, <3>5, QuietStep DEF IInv, TypeOK
  <2>2. CASE Len(stack[sp]) = 3
    <3>1. Top.pc \in YieldLabels /\ stack[0][2].pc \in {"iret", "irq1_eoi"}
      BY <1>2, <2>2 DEF IInv, Shapes, MainStack, Top
    <3>2. /\ Len(stack'[0]) = 2 /\ stack'[0][1] = stack[0][1]
          /\ stack'[0][2] = stack[0][2]
      BY <1>1, <1>2, <2>2
    <3>3. MainStack(stack'[0])
      BY <1>2, <2>2, <3>2 DEF IInv, Shapes, MainStack
    <3>4. Top'.pc \in {"iret", "irq1_eoi"}
      BY <1>2, <3>1, <3>2 DEF Top
    <3>5. Top.pc \notin IrqLabels /\ Top.pc # "hlt"
      BY <3>1 DEF YieldLabels, IrqLabels
    <3>6. Service' /\ Flag'
      BY <1>2, <2>2, <3>2, <3>4, <3>5 DEF Service, Flag, IInv
    <3>7. Quiet(Top'.pc) /\ Top'.pc # "spawn_publish"
      BY <3>4 DEF Quiet, YieldSteps, ExitSteps
    <3>8. /\ iflag' \in BOOLEAN /\ g_preempt_enabled' \in BOOLEAN
          /\ irr' \subseteq Irq /\ isr' \subseteq Irq
      BY <3>5 DEF IInv, TypeOK
    <3>9. QED
      BY <1>1, <1>2, <3>3, <3>6, <3>7, <3>8, QuietStep
  <2>3. QED
    BY <1>0, <2>1, <2>2
<1>3. CASE sp # 0
  <2>1. WorkerStack(stack[sp])
    BY <1>3 DEF IInv, Shapes, Alive
  <2>2. PICK e \in EntryKinds : stack[sp][1] = At0("exit") /\ stack[sp][2] = At0(e)
    BY <2>1, Executing DEF WorkerStack
  <2>3. \/ Len(stack'[sp]) = 1 /\ stack'[sp][1] = At0("exit")
        \/ Len(stack'[sp]) = 2 /\ stack'[sp][1] = At0("exit") /\ stack'[sp][2] = At0(e)
    <3>1. CASE Len(stack[sp]) = 2
      BY <1>1, <2>2, <3>1
    <3>2. CASE Len(stack[sp]) = 3
      <4>1. Len(stack'[sp]) = 2
        BY <1>1, <3>2
      <4>2. stack'[sp][1] = stack[sp][1] /\ stack'[sp][2] = stack[sp][2]
        BY <1>1, <3>2
      <4>3. QED
        BY <2>2, <4>1, <4>2
    <3>3. QED
      BY <1>0, <3>1, <3>2
  <2>4. WorkerStack(stack'[sp])
    BY <2>3 DEF WorkerStack, ExitLabels, At0
  <2>5. Top'.pc \in EntryKinds \cup {"exit"}
    BY <2>3 DEF Top, At0
  <2>6. Quiet(Top'.pc) /\ Top'.pc # "spawn_publish" /\ Top'.pc # "hlt"
    BY <2>5 DEF Quiet, YieldSteps, ExitSteps, EntryKinds
  <2>7. Top.pc \notin IrqLabels /\ Top.pc # "hlt"
    BY <1>3, Places
  <2>8. Flag'
    BY <2>6, <2>7 DEF Flag, IInv
  <2>9. QED
    BY <1>1, <1>3, <2>4, <2>6, <2>7, <2>8, QuietStep DEF IInv, TypeOK
<1>4. QED
  BY <1>2, <1>3

LEMMA ReturnSteps == IInv /\ (YieldNone \/ YieldReturn \/ EntryReturn \/ Iret) => IInv'
<1> SUFFICES ASSUME IInv, YieldNone \/ YieldReturn \/ EntryReturn \/ Iret PROVE IInv'
  OBVIOUS
<1>1. /\ Return /\ Top.pc \in {"yield", "resumed", "returning", "iret"}
      /\ iflag' = IF Top.pc = "iret" THEN TRUE ELSE iflag
      /\ UNCHANGED <<table, sp, g_current_tid, g_preempt_enabled, irr, isr>>
  BY DEF YieldNone, YieldReturn, EntryReturn, Iret, At, pic
<1>2. Len(stack[sp]) # 1
  <2>1. Top.pc = "iret" => Len(stack[sp]) = 2
    BY Places DEF IrqLabels
  <2>2. Top.pc \in {"yield", "resumed"} => Len(stack[sp]) = 3
    BY Places DEF YieldLabels
  <2>3. Top.pc = "returning" => Len(stack[sp]) = 2
    BY Places DEF EntryKinds
  <2>4. QED
    BY <1>1, <2>1, <2>2, <2>3
<1>3. /\ Quiet(Top.pc) /\ Top.pc # "irq0"
      /\ Top.pc \in IrqLabels => Top.pc = "iret" /\ ServiceOf(Top.pc) = {}
      /\ Top.pc = "iret" => Top.pc \in IrqLabels
  BY <1>1 DEF Quiet, YieldSteps, ExitSteps, IrqLabels, ServiceOf
<1>4. iflag' = IF Top.pc \in IrqLabels THEN TRUE ELSE iflag
  BY <1>1, <1>3
<1>5. QED
  BY <1>1, <1>2, <1>3, <1>4, ReturnStep

LEMMA BootstrapStep == IInv /\ Bootstrap => IInv'
<1> SUFFICES ASSUME IInv, Bootstrap PROVE IInv'
  OBVIOUS
<1>1. Top.pc = "bootstrap" /\ Call(entry[g_current_tid], "exit")
  BY DEF Bootstrap, At
<1>2. sp # 0 /\ Len(stack[sp]) = 1 /\ sp \in Created \ {0}
  BY <1>1, Places DEF IInv, Alive
<1>3. g_current_tid = sp
  BY <1>1 DEF IInv, States, YieldSteps, ExitSteps
<1> DEFINE e == entry[sp]
<1>4. e \in EntryKinds
  BY <1>2, EntriesAssumption DEF IInv, Shapes
<1> HIDE DEF e
<1>5. e \in Labels /\ "exit" \in Labels
  BY <1>4 DEF Labels, ExitLabels
<1>6. /\ stack' \in [Tid -> Seq(Frame)]
      /\ Len(stack'[sp]) = 2
      /\ stack'[sp][1] = At0("exit") /\ stack'[sp][2] = At0(e)
      /\ \A t \in Tid \ {sp} : stack'[t] = stack[t]
  BY <1>1, <1>2, <1>3, <1>5, CallEffect DEF Kept, e
<1>7. WorkerStack(stack'[sp])
  BY <1>4, <1>6 DEF WorkerStack
<1>8. UNCHANGED <<table, sp, g_current_tid, g_preempt_enabled, iflag, irr, isr>>
  BY DEF Bootstrap, pic
<1>9. Top'.pc = e
  BY <1>6, <1>8 DEF Top, At0
<1>10. Quiet(Top.pc) /\ Quiet(Top'.pc) /\ Top'.pc \notin {"spawn_publish", "hlt"}
  BY <1>1, <1>4, <1>9 DEF Quiet, YieldSteps, ExitSteps, EntryKinds
<1>11. Flag'
  BY <1>1, <1>8, <1>10 DEF Flag, IInv
<1>12. QED
  BY <1>2, <1>6, <1>7, <1>8, <1>10, <1>11, QuietStep DEF IInv, TypeOK

LEMMA AcceptStep == ASSUME NEW n \in Irq PROVE IInv /\ AcceptIrq(n) => IInv'
<1> SUFFICES ASSUME IInv, AcceptIrq(n) PROVE IInv'
  OBVIOUS
<1> DEFINE l == IF n = 0 THEN "irq0" ELSE "irq1"
<1>1. Enter(At0(l)) /\ l \in IrqLabels /\ l \in Labels
  BY DEF AcceptIrq, IrqLabels, Labels
<1>2. Top.pc = "hlt" /\ sp = 0 /\ Len(stack[0]) = 1
  BY Places DEF AcceptIrq, IInv, Flag
<1>3. isr = {} /\ isr' = {n}
  BY <1>2 DEF AcceptIrq, IInv, Service
<1>4. ServiceOf(l) = {n}
  BY DEF ServiceOf, Irq
<1> HIDE DEF l
<1>5. /\ stack' \in [Tid -> Seq(Frame)]
      /\ Len(stack'[0]) = 2
      /\ stack'[0][1] = stack[0][1] /\ stack'[0][2] = At0(l)
      /\ \A t \in Tid \ {sp} : stack'[t] = stack[t]
  BY <1>1, <1>2, At0IsFrame, EnterEffect DEF Kept
<1>6. MainStack(stack'[0])
  BY <1>1, <1>2, <1>5 DEF IInv, Shapes, MainStack
<1>7. /\ UNCHANGED <<table, sp, g_current_tid, g_preempt_enabled>>
      /\ iflag' = FALSE /\ irr' = irr \ {n}
  BY DEF AcceptIrq, GateFlag
<1>8. Top'.pc = l
  BY <1>2, <1>5, <1>7 DEF Top, At0
<1>9. Service'
  BY <1>3, <1>4, <1>5 DEF Service, At0
<1>10. Quiet(Top.pc) /\ Quiet(l) /\ l \notin {"spawn_publish", "hlt"}
  BY <1>2 DEF Quiet, YieldSteps, ExitSteps, l
<1>11. Flag'
  BY <1>7, <1>8, <1>10 DEF Flag
<1>12. QED
  BY <1>2, <1>3, <1>5, <1>6, <1>7, <1>8, <1>9, <1>10, <1>11, QuietStep DEF IInv, TypeOK

LEMMA RaiseStep == ASSUME NEW n \in Irq PROVE IInv /\ RaiseIrq(n) => IInv'
<1> SUFFICES ASSUME IInv, RaiseIrq(n) PROVE IInv'
  OBVIOUS
<1>1. /\ UNCHANGED <<threadState, esp, entry, g_thread_count, stack, sp, g_current_tid,
                     g_preempt_enabled, iflag, isr>>
      /\ irr' \subseteq Irq
  BY DEF RaiseIrq, table, cpu, IInv, TypeOK
<1>2. TypeOK'
  BY <1>1 DEF IInv, TypeOK
<1>3. Created' = Created /\ Live' = Live /\ Alive' /\ Parked'
      /\ RR!Successor(sp)' = RR!Successor(sp)
  BY <1>1, SameThreads
<1>4. Top' = Top
  BY <1>1 DEF Top
<1>5. Shapes'
  BY <1>1, <1>3 DEF IInv, Shapes
<1>6. States'
  BY <1>1, <1>3, <1>4 DEF IInv, States, OwnState, Promoted
<1>7. Flag' /\ Service' /\ Filled'
  BY <1>1, <1>4 DEF IInv, Flag, Service, Filled
<1>8. QED
  BY <1>2, <1>3, <1>5, <1>6, <1>7 DEF IInv

LEMMA StutterStep == IInv /\ UNCHANGED vars => IInv'
<1> SUFFICES ASSUME IInv, UNCHANGED vars PROVE IInv'
  OBVIOUS
<1>1. UNCHANGED <<threadState, esp, entry, g_thread_count, stack, sp, g_current_tid,
                  g_preempt_enabled, iflag, isr, irr>>
  BY DEF vars
<1>2. TypeOK'
  BY <1>1 DEF IInv, TypeOK
<1>3. Created' = Created /\ Live' = Live /\ Alive' /\ Parked'
      /\ RR!Successor(sp)' = RR!Successor(sp)
  BY <1>1, SameThreads
<1>4. Top' = Top
  BY <1>1 DEF Top
<1>5. Shapes'
  BY <1>1, <1>3 DEF IInv, Shapes
<1>6. States'
  BY <1>1, <1>3, <1>4 DEF IInv, States, OwnState, Promoted
<1>7. Flag' /\ Service' /\ Filled'
  BY <1>1, <1>4 DEF IInv, Flag, Service, Filled
<1>8. QED
  BY <1>2, <1>3, <1>5, <1>6, <1>7 DEF IInv

-----------------------------------------------------------------------------
(* Thread creation.                                                        *)

LEMMA SpawnFillStep == IInv /\ SpawnFill => IInv'
<1> SUFFICES ASSUME IInv, SpawnFill PROVE IInv'
  OBVIOUS
<1> DEFINE k == g_thread_count
           r == Append(Caller, At0("spawn_publish"))
<1>1. Top.pc = "spawn" /\ isr = {1}
  BY InService DEF SpawnFill, At, IrqLabels, ServiceOf
<1>2. sp = 0 /\ Len(stack[0]) = 2
  BY <1>1, Places DEF IrqLabels
<1>3. /\ k \in Tid /\ k # 0 /\ k \notin Created /\ k < THREAD_MAX
      /\ 0 \in Tid /\ Created \subseteq Tid
  BY Ranges, ThreadMaxAssumption DEF SpawnFill, Tid, IInv, Created
<1>4. At0("spawn_publish") \in Frame /\ At0("bootstrap") \in Frame
  BY At0IsFrame DEF Labels, IrqLabels
<1>5. /\ r \in Seq(Frame) /\ Len(r) = 2 /\ r[2] = At0("spawn_publish")
      /\ r[1] = stack[0][1]
  BY <1>2, <1>4, Executing, ReplaceLast DEF Caller
<1> HIDE DEF r
<1>6. stack' = [stack EXCEPT ![sp] = r, ![k] = <<At0("bootstrap")>>]
  BY DEF SpawnFill, r
<1>7. <<At0("bootstrap")>> \in Seq(Frame)
  BY <1>4
<1>8. /\ stack' \in [Tid -> Seq(Frame)]
      /\ stack'[0] = r /\ stack'[k] = <<At0("bootstrap")>>
      /\ \A t \in Created \ {0} : stack'[t] = stack[t]
  BY <1>2, <1>3, <1>5, <1>6, <1>7 DEF IInv, TypeOK
<1>9. UNCHANGED <<g_thread_count, sp, g_current_tid, g_preempt_enabled, iflag, irr, isr>>
  BY DEF SpawnFill, pic
<1>10. /\ esp' = [esp EXCEPT ![k] = [stk |-> k, depth |-> 1]]
       /\ threadState' = [threadState EXCEPT ![k] = RUNNABLE]
       /\ \E e \in Entries : entry' = [entry EXCEPT ![k] = e]
  BY DEF SpawnFill
<1>11. /\ \A t \in Created : /\ threadState'[t] = threadState[t] /\ esp'[t] = esp[t]
                             /\ entry'[t] = entry[t]
       /\ threadState'[k] = RUNNABLE /\ esp'[k] = [stk |-> k, depth |-> 1]
       /\ entry'[k] \in Entries
  BY <1>3, <1>10 DEF IInv, TypeOK
<1>12. TypeOK'
  <2>1. [stk |-> k, depth |-> 1] \in Context
    BY <1>3 DEF Context
  <2>2. QED
    BY <1>3, <1>8, <1>9, <1>10, <2>1 DEF IInv, TypeOK
<1>13. Created' = Created /\ Live' = Live /\ 0 \in Live /\ 0 \in Created
  BY <1>9, <1>11, Ranges DEF Created, Live, IInv, Alive
<1>14. Alive' /\ Parked'
  <2>1. Alive'
    BY <1>2, <1>9, <1>13 DEF Alive
  <2>2. \A t \in Live \ {0} : t \in Created \ {0}
    BY Ranges DEF IInv
  <2>3. Parked'
    BY <1>2, <1>8, <1>9, <1>11, <1>13, <2>2 DEF IInv, Parked
  <2>4. QED
    BY <2>1, <2>3
<1>15. Top'.pc = "spawn_publish"
  <2>1. Top' = r[2]
    BY <1>2, <1>5, <1>8, <1>9 DEF Top
  <2>2. QED
    BY <1>5, <2>1 DEF At0
<1>16. Shapes'
  <2>1. MainStack(r)
    BY <1>2, <1>5 DEF IInv, Shapes, MainStack, IrqLabels
  <2>2. QED
    BY <1>8, <1>11, <1>13, <2>1 DEF IInv, Shapes
<1>17. States'
  <2>1. \A t \in Live : t \in Created
    BY Ranges DEF IInv
  <2>2. QED
    BY <1>1, <1>2, <1>9, <1>11, <1>13, <1>15, <2>1
       DEF IInv, States, OwnState, YieldSteps, ExitSteps, Promoted
<1>18. Flag' /\ Service'
  <2>1. Flag'
    BY <1>1, <1>9, <1>15 DEF IInv, Flag
  <2>2. r[2].pc = "spawn_publish"
    BY <1>5 DEF At0
  <2>3. Service'
    BY <1>1, <1>5, <1>8, <1>9, <2>2 DEF Service, ServiceOf
  <2>4. QED
    BY <2>1, <2>3
<1>19. Filled'
  BY <1>3, <1>8, <1>9, <1>11 DEF Filled
<1>20. QED
  BY <1>12, <1>14, <1>16, <1>17, <1>18, <1>19 DEF IInv

LEMMA SpawnPublishStep == IInv /\ SpawnPublish => IInv'
<1> SUFFICES ASSUME IInv, SpawnPublish PROVE IInv'
  OBVIOUS
<1> DEFINE k == g_thread_count
<1>1. Top.pc = "spawn_publish" /\ isr = {1} /\ Goto("spawn")
  BY InService DEF SpawnPublish, At, IrqLabels, ServiceOf
<1>2. UNCHANGED <<threadState, esp, entry, sp, g_current_tid, g_preempt_enabled,
                  iflag, irr, isr>>
  BY DEF SpawnPublish, pic
<1>3. /\ sp = 0 /\ Len(stack[0]) = 2 /\ stack[0][2] = At0(Top.pc)
      /\ stack' \in [Tid -> Seq(Frame)]
      /\ \A t \in Tid \ {sp} : stack'[t] = stack[t]
      /\ Len(stack'[0]) = 2 /\ stack'[0][2] = At0("spawn")
      /\ MainStack(stack'[0]) /\ Top'.pc = "spawn"
  BY <1>1, <1>2, HandlerGoto DEF IrqLabels
<1>4. /\ k < THREAD_MAX /\ stack[k] = <<At0("bootstrap")>>
      /\ esp[k] = [stk |-> k, depth |-> 1]
      /\ threadState[k] = RUNNABLE /\ entry[k] \in Entries
  BY <1>1, <1>3 DEF IInv, Filled, At0
<1>5. k' = k + 1 /\ k \in Nat /\ 1 <= k /\ k \in Tid /\ k # 0
  BY <1>4, Ranges, ThreadMaxAssumption DEF SpawnPublish, IInv, Tid
<1>6. Created' = Created \cup {k} /\ k \notin Created /\ Created \subseteq Tid
  BY <1>5, Ranges DEF Created, IInv
<1>7. Live' = Live \cup {k} /\ Live \subseteq Created
  BY <1>2, <1>4, <1>6 DEF Live, RUNNABLE, ZOMBIE
<1>8. TypeOK'
  BY <1>2, <1>3, <1>4, <1>5, ThreadMaxAssumption DEF IInv, TypeOK
<1>9. Alive'
  BY <1>2, <1>6, <1>7 DEF IInv, Alive
<1>10. stack'[k] = <<At0("bootstrap")>> /\ Len(stack'[k]) = 1
       /\ stack'[k][1] = At0("bootstrap") /\ At0("bootstrap").pc = "bootstrap"
  <2>1. stack'[k] = <<At0("bootstrap")>>
    BY <1>3, <1>4, <1>5
  <2>2. At0("bootstrap").pc = "bootstrap"
    BY DEF At0
  <2>3. QED
    BY <2>1, <2>2
<1>11. Parked'
  <2>1. ASSUME NEW t \in Live' \ {0}
        PROVE  /\ esp'[t] = [stk |-> t, depth |-> Len(stack'[t])]
               /\ stack'[t][Len(stack'[t])].pc \in {"resumed", "bootstrap"}
    <3>1. CASE t = k
      BY <1>2, <1>4, <1>10, <3>1
    <3>2. CASE t # k
      BY <1>2, <1>3, <1>6, <1>7, <2>1, <3>2 DEF IInv, Parked
    <3>3. QED
      BY <3>1, <3>2
  <2>2. QED
    BY <1>2, <1>3, <2>1 DEF Parked
<1>12. Shapes'
  <2>1. WorkerStack(stack'[k])
    BY <1>10 DEF WorkerStack
  <2>2. \A t \in Created \ {0} : WorkerStack(stack'[t]) /\ entry'[t] \in Entries
    BY <1>2, <1>3, <1>6 DEF IInv, Shapes
  <2>3. QED
    BY <1>2, <1>3, <1>4, <1>6, <2>1, <2>2 DEF Shapes
<1>13. States'
  BY <1>1, <1>2, <1>3, <1>4, <1>6, <1>7
     DEF IInv, States, OwnState, YieldSteps, ExitSteps, Promoted
<1>14. Flag' /\ Service' /\ Filled'
  BY <1>1, <1>2, <1>3 DEF IInv, Flag, Service, ServiceOf, Filled, At0
<1>15. QED
  BY <1>8, <1>9, <1>11, <1>12, <1>13, <1>14 DEF IInv

-----------------------------------------------------------------------------
(* The switch itself.                                                      *)

LEMMA SwitchEffect ==
    ASSUME IInv, Top.pc \in {"switch", "exit_switch"}, NEW pc \in Labels,
           Switch(Top.prev, Top.next, pc)
    PROVE  /\ Top.prev = sp /\ Top.next \in Live \ {sp}
           /\ sp' = Top.next
           /\ esp' = [esp EXCEPT ![sp] = [stk |-> sp, depth |-> Len(stack[sp])]]
           /\ stack' \in [Tid -> Seq(Frame)]
           /\ Len(stack'[sp]) = Len(stack[sp])
           /\ stack'[sp][Len(stack[sp])] = At0(pc)
           /\ Kept(Len(stack[sp]) - 1)
           /\ Top' = stack[Top.next][Len(stack[Top.next])]
           /\ Top'.pc \in {"resumed", "bootstrap"}
<1> DEFINE n == Top.next
           r == Append(Caller, At0(pc))
<1>1. Top.prev = sp /\ n \in Live \ {sp} /\ n \in Tid /\ sp \in Tid
  BY Ranges DEF IInv, States, YieldSteps, ExitSteps, TypeOK
<1>2. /\ esp[n] = [stk |-> n, depth |-> Len(stack[n])]
      /\ stack[n][Len(stack[n])].pc \in {"resumed", "bootstrap"}
  BY <1>1 DEF IInv, Parked
<1>3. At0(pc) \in Frame
  BY At0IsFrame
<1>4. /\ r \in Seq(Frame) /\ Len(r) = Len(stack[sp]) /\ r[Len(stack[sp])] = At0(pc)
      /\ \A i \in 1 .. Len(stack[sp]) - 1 : r[i] = stack[sp][i]
  BY <1>3, Executing, ReplaceLast DEF Caller
<1> HIDE DEF r
<1> DEFINE left == [stack EXCEPT ![sp] = r]
<1>5. /\ left \in [Tid -> Seq(Frame)] /\ left[n] = stack[n] /\ left[sp] = r
      /\ stack[n] \in Seq(Frame)
  BY <1>1, <1>4 DEF IInv, TypeOK
<1>6. SubSeq(stack[n], 1, Len(stack[n])) = stack[n]
  BY <1>5, SubSeqFull
<1>7. /\ esp' = [esp EXCEPT ![sp] = [stk |-> sp, depth |-> Len(stack[sp])]]
      /\ sp' = n
      /\ stack' = [left EXCEPT ![n] = SubSeq(@, 1, Len(stack[n]))]
  BY <1>1, <1>2 DEF Switch, r
<1>8. stack' = left
  BY <1>5, <1>6, <1>7
<1>9. Top' = stack[n][Len(stack[n])]
  BY <1>5, <1>7, <1>8 DEF Top
<1>10. \A t \in Tid \ {sp} : stack'[t] = stack[t]
  BY <1>5, <1>8 DEF IInv, TypeOK
<1>11. QED
  BY <1>1, <1>2, <1>4, <1>5, <1>7, <1>8, <1>9, <1>10 DEF Kept

LEMMA SwitchStep == IInv /\ (YieldSwitch \/ ExitSwitch) => IInv'
<1> SUFFICES ASSUME IInv, YieldSwitch \/ ExitSwitch PROVE IInv'
  OBVIOUS
<1> DEFINE n == Top.next
           pc == IF Top.pc = "switch" THEN "resumed" ELSE "panic"
<1>1. Top.pc \in {"switch", "exit_switch"} /\ pc \in Labels
      /\ Switch(Top.prev, Top.next, pc)
  BY DEF YieldSwitch, ExitSwitch, At, Labels, YieldLabels, ExitLabels
<1>2. UNCHANGED <<threadState, entry, g_thread_count, g_current_tid,
                  g_preempt_enabled, iflag, irr, isr>>
  BY DEF YieldSwitch, ExitSwitch, pic
<1> HIDE DEF pc
<1>3. /\ Top.prev = sp /\ n \in Live \ {sp}
      /\ sp' = n
      /\ esp' = [esp EXCEPT ![sp] = [stk |-> sp, depth |-> Len(stack[sp])]]
      /\ stack' \in [Tid -> Seq(Frame)]
      /\ Len(stack'[sp]) = Len(stack[sp])
      /\ stack'[sp][Len(stack[sp])] = At0(pc)
      /\ Kept(Len(stack[sp]) - 1)
      /\ Top' = stack[n][Len(stack[n])]
      /\ Top'.pc \in {"resumed", "bootstrap"}
  BY <1>1, SwitchEffect
<1>4. /\ \/ Top.pc = "switch" /\ pc = "resumed" /\ Len(stack[sp]) = 3
         \/ Top.pc = "exit_switch" /\ pc = "panic" /\ Len(stack[sp]) = 1 /\ sp # 0
      /\ sp \in Tid /\ n \in Tid /\ n # sp /\ 0 \in Tid
      /\ Created \subseteq Tid /\ Live \subseteq Created
  BY <1>1, <1>3, Places, Ranges DEF IInv, TypeOK, YieldLabels, ExitLabels, pc
<1>5. Created' = Created /\ Live' = Live
  BY <1>2 DEF Created, Live
<1>6. /\ threadState[sp] = IF Top.pc = "switch" THEN RUNNABLE ELSE ZOMBIE
      /\ \A t \in Live \ {sp} : threadState[t] = IF t = n THEN RUNNING ELSE RUNNABLE
      /\ g_current_tid = n
  BY <1>1 DEF IInv, States, OwnState, YieldSteps, ExitSteps, Promoted
<1>7. TypeOK'
  <2>1. [stk |-> sp, depth |-> Len(stack[sp])] \in Context
    BY <1>4 DEF Context
  <2>2. QED
    BY <1>2, <1>3, <1>4, <2>1 DEF IInv, TypeOK
<1>8. Alive'
  BY <1>3, <1>4, <1>5 DEF IInv, Alive
<1>9. \A t \in Tid \ {sp} : stack'[t] = stack[t]
  BY <1>3 DEF Kept
<1>10. Shapes'
  <2>1. ASSUME sp = 0 PROVE MainStack(stack'[0])
    <3>1. stack'[0][1] = stack[0][1] /\ stack'[0][2] = stack[0][2]
      <4>1. Len(stack[sp]) = 3
        BY <1>4, <2>1
      <4>2. \A i \in 1 .. 2 : stack'[sp][i] = stack[sp][i]
        BY <1>3, <4>1 DEF Kept
      <4>3. QED
        BY <2>1, <4>2
    <3>2. At0(pc).pc \in YieldLabels
      BY <1>4, <2>1 DEF At0, YieldLabels
    <3>3. QED
      BY <1>3, <1>4, <2>1, <3>1, <3>2 DEF IInv, Shapes, MainStack
  <2>2. ASSUME sp # 0 PROVE WorkerStack(stack'[sp])
    <3>1. WorkerStack(stack[sp])
      BY <2>2 DEF IInv, Shapes, Alive
    <3>2. CASE Len(stack[sp]) = 1 /\ pc = "panic"
      BY <1>3, <3>2 DEF WorkerStack, At0, ExitLabels
    <3>3. CASE Len(stack[sp]) = 3 /\ pc = "resumed"
      <4>1. stack'[sp][1] = stack[sp][1] /\ stack'[sp][2] = stack[sp][2]
        BY <1>3, <3>3 DEF Kept
      <4>2. At0(pc).pc \in YieldLabels
        BY <3>3 DEF At0, YieldLabels
      <4>3. QED
        BY <1>3, <3>1, <3>3, <4>1, <4>2 DEF WorkerStack
    <3>4. QED
      BY <1>4, <3>2, <3>3
  <2>3. MainStack(stack'[0])
    BY <1>4, <1>9, <2>1 DEF IInv, Shapes
  <2>4. \A t \in Created \ {0} : WorkerStack(stack'[t]) /\ entry'[t] \in Entries
    BY <1>2, <1>4, <1>9, <2>2 DEF IInv, Shapes
  <2>5. QED
    BY <1>5, <2>3, <2>4 DEF Shapes
<1>11. Parked'
  <2>1. ASSUME NEW t \in Live \ {n}
        PROVE  /\ esp'[t] = [stk |-> t, depth |-> Len(stack'[t])]
               /\ stack'[t][Len(stack'[t])].pc \in {"resumed", "bootstrap"}
    <3>1. CASE t = sp
      <4>1. Top.pc = "switch" /\ pc = "resumed"
        BY <1>4, <1>6, <2>1, <3>1 DEF Live
      <4>2. At0(pc).pc = "resumed"
        BY <4>1 DEF At0
      <4>3. QED
        BY <1>3, <1>4, <3>1, <4>2 DEF IInv, TypeOK
    <3>2. CASE t # sp
      BY <1>3, <1>4, <1>9, <2>1, <3>2 DEF IInv, Parked, TypeOK
    <3>3. QED
      BY <3>1, <3>2
  <2>2. QED
    BY <1>3, <1>5, <2>1 DEF Parked
<1>12. States'
  <2>1. OwnState' = RUNNING /\ ~ Promoted'
    BY <1>3 DEF OwnState, Promoted, YieldSteps, ExitSteps
  <2>2. \A t \in Live \ {n} : threadState[t] = RUNNABLE
    BY <1>4, <1>6 DEF Live
  <2>3. QED
    BY <1>2, <1>3, <1>5, <1>6, <2>1, <2>2 DEF States, YieldSteps, ExitSteps
<1>13. Flag'
  BY <1>1, <1>2, <1>3 DEF IInv, Flag
<1>14. /\ Len(stack'[0]) = Len(stack[0])
       /\ Len(stack[0]) # 1 => stack'[0][2] = stack[0][2]
  <2>1. CASE sp = 0
    <3>1. Len(stack[sp]) = 3
      BY <1>4, <2>1
    <3>2. Len(stack'[sp]) = 3
      BY <1>3, <3>1
    <3>3. \A i \in 1 .. 2 : stack'[sp][i] = stack[sp][i]
      BY <1>3, <3>1 DEF Kept
    <3>4. QED
      BY <2>1, <3>1, <3>2, <3>3
  <2>2. CASE sp # 0
    BY <1>4, <1>9, <2>2
  <2>3. QED
    BY <2>1, <2>2
<1>15. Service'
  BY <1>2, <1>14 DEF IInv, Service
<1>16. Filled'
  <2>1. ~ (Len(stack[0]) = 2 /\ stack[0][2].pc = "spawn_publish")
    <3>1. CASE sp = 0
      BY <1>4, <3>1
    <3>2. CASE sp # 0
      BY <3>2 DEF IInv, Alive, Parked
    <3>3. QED
      BY <3>1, <3>2
  <2>2. QED
    BY <1>14, <2>1 DEF Filled
<1>17. QED
  BY <1>7, <1>8, <1>10, <1>11, <1>12, <1>13, <1>15, <1>16 DEF IInv

-----------------------------------------------------------------------------
(* The invariant, and what follows from it.                                *)

LEMMA InitInv == Init => IInv
<1> SUFFICES ASSUME Init PROVE IInv
  OBVIOUS
<1>1. 0 \in Tid /\ 1 \in 1 .. THREAD_MAX
  BY ThreadMaxAssumption DEF Tid
<1>2. At0("hlt") \in Frame
  BY At0IsFrame DEF Labels
<1>3. /\ stack[0] = <<At0("hlt")>> /\ Len(stack[0]) = 1 /\ stack[0][1] = At0("hlt")
  BY <1>1 DEF Init
<1>4. Created = {0} /\ Live = {0}
  BY <1>1 DEF Init, Created, Live, RUNNING, ZOMBIE
<1>5. Top.pc = "hlt"
  BY <1>3 DEF Init, Top, At0
<1>6. TypeOK
  <2>1. [stk |-> 0, depth |-> 0] \in Context
    BY <1>1 DEF Context
  <2>2. <<At0("hlt")>> \in Seq(Frame) /\ <<>> \in Seq(Frame)
    BY <1>2
  <2>3. QED
    BY <1>1, <2>1, <2>2 DEF Init, TypeOK
<1>7. Shapes /\ Alive /\ Parked
  BY <1>3, <1>4 DEF Init, Shapes, MainStack, Alive, Parked
<1>8. States
  BY <1>1, <1>4, <1>5 DEF Init, States, OwnState, YieldSteps, ExitSteps, Promoted
<1>9. Flag /\ Service /\ Filled
  BY <1>3, <1>5 DEF Init, Flag, Service, Filled
<1>10. QED
  BY <1>6, <1>7, <1>8, <1>9 DEF IInv

LEMMA NextInv == IInv /\ [Next]_vars => IInv'
<1> SUFFICES ASSUME IInv, [Next]_vars PROVE IInv'
  OBVIOUS
<1>1. ASSUME Yield PROVE IInv'
  BY <1>1, ReturnSteps, YieldFindStep, YieldDemoteStep, PromoteStep, SetCurrentStep,
     SwitchStep DEF Yield
<1>2. ASSUME Exit PROVE IInv'
  BY <1>2, ExitMarkStep, ExitFindStep, PromoteStep, SetCurrentStep, SwitchStep DEF Exit
<1>3. ASSUME Thread PROVE IInv'
  BY <1>3, BootstrapStep, CallSteps, ReturnSteps DEF Thread
<1>4. ASSUME Irq0 PROVE IInv'
  BY <1>4, HandlerSteps, CallSteps DEF Irq0
<1>5. ASSUME Irq1 PROVE IInv'
  BY <1>5, HandlerSteps, CallSteps, SpawnFillStep, SpawnPublishStep DEF Irq1
<1>6. ASSUME Iret PROVE IInv'
  BY <1>6, ReturnSteps
<1>7. ASSUME NEW n \in Irq, RaiseIrq(n) \/ AcceptIrq(n) PROVE IInv'
  BY <1>7, RaiseStep, AcceptStep
<1>8. ASSUME UNCHANGED vars PROVE IInv'
  BY <1>8, StutterStep
<1>9. QED
  BY <1>1, <1>2, <1>3, <1>4, <1>5, <1>6, <1>7, <1>8 DEF Next, Execute

(***************************************************************************)
(* The inductive invariant holds in every reachable state.                 *)
(***************************************************************************)
THEOREM Invariance == Spec => []IInv
<1>1. Init => IInv
  BY InitInv
<1>2. IInv /\ [Next]_vars => IInv'
  BY NextInv
<1>3. QED
  BY <1>1, <1>2, PTL DEF Spec

(***************************************************************************)
(* Every scheduler variable, saved context and stack frame has its type.   *)
(***************************************************************************)
THEOREM TypeCorrect == Spec => []TypeOK
<1>1. IInv => TypeOK
  BY DEF IInv
<1>2. QED
  BY <1>1, Invariance, PTL

-----------------------------------------------------------------------------
(* State properties.                                                       *)

LEMMA StackLengths ==
    ASSUME IInv
    PROVE  /\ Len(stack[0]) \in 1 .. 3
           /\ \A t \in Created \ {0} : Len(stack[t]) \in 1 .. 3
  BY DEF IInv, Shapes, MainStack, WorkerStack

LEMMA MainLoopStack ==
    ASSUME IInv, Top.pc = "hlt"
    PROVE  sp = 0 /\ stack[0] = <<At0("hlt")>>
<1>1. sp = 0 /\ Len(stack[0]) = 1 /\ stack[0][1] = At0("hlt")
  BY Places DEF IInv, Shapes, MainStack
<1>2. stack[0] \in Seq(Frame)
  BY Ranges DEF IInv, TypeOK
<1>3. QED
  BY <1>1, <1>2

(***************************************************************************)
(* Interrupts are open only in kmain's hlt loop, with nothing unfinished.  *)
(***************************************************************************)
THEOREM Exclusion == Spec => []InterruptsOnlyInMain
<1>1. ASSUME IInv, iflag PROVE /\ sp = 0 /\ g_current_tid = 0
                               /\ stack[0] = <<At0("hlt")>> /\ isr = {}
  <2>1. Top.pc = "hlt"
    BY <1>1 DEF IInv, Flag
  <2>2. sp = 0 /\ stack[0] = <<At0("hlt")>> /\ Len(stack[0]) = 1
    BY <1>1, <2>1, MainLoopStack
  <2>3. QED
    BY <1>1, <2>1, <2>2 DEF IInv, States, Service
<1>2. IInv => InterruptsOnlyInMain
  BY <1>1 DEF InterruptsOnlyInMain
<1>3. QED
  BY <1>2, Invariance, PTL

(***************************************************************************)
(* Every saved %esp points at the innermost frame of its thread's stack.   *)
(***************************************************************************)
THEOREM Contexts == Spec => []ContextIntegrity
<1>1. ASSUME IInv, NEW t \in Live \ {sp}
      PROVE  esp[t] = [stk |-> t, depth |-> Len(stack[t])] /\ stack[t] # <<>>
  <2>1. esp[t] = [stk |-> t, depth |-> Len(stack[t])]
    BY <1>1 DEF IInv, Parked
  <2>2. Len(stack[t]) \in 1 .. 3
    BY <1>1, StackLengths DEF Live
  <2>3. Len(<<>>) = 0
    OBVIOUS
  <2>4. stack[t] # <<>>
    BY <2>2, <2>3
  <2>5. QED
    BY <2>1, <2>4
<1>2. IInv => ContextIntegrity
  BY <1>1 DEF ContextIntegrity
<1>3. QED
  BY <1>2, Invariance, PTL

(***************************************************************************)
(* Between hand-overs exactly the executing thread is current and RUNNING. *)
(***************************************************************************)
THEOREM RunningThread == Spec => []OneRunning
<1>1. ASSUME IInv, ~HandingOver
      PROVE  /\ g_current_tid = sp
             /\ \A t \in Live : threadState[t] = IF t = sp THEN RUNNING ELSE RUNNABLE
  <2>1. Top.pc \notin YieldSteps \cup ExitSteps
    BY <1>1 DEF HandingOver, YieldSteps, ExitSteps
  <2>2. QED
    BY <1>1, <2>1 DEF IInv, States, OwnState, Promoted, YieldSteps, ExitSteps
<1>2. IInv => OneRunning
  BY <1>1 DEF OneRunning
<1>3. QED
  BY <1>2, Invariance, PTL

(***************************************************************************)
(* Neither panic of thread_exit is reachable, however many threads die.    *)
(***************************************************************************)
THEOREM NoPanic == Spec => []NeverPanics
<1>1. IInv => NeverPanics
  BY DEF IInv, States, NeverPanics, At
<1>2. QED
  BY <1>1, Invariance, PTL

(***************************************************************************)
(* The PIC has in service exactly the line whose handler main has not      *)
(* finished up to its EOI.                                                 *)
(***************************************************************************)
THEOREM ServiceCorrect == Spec => []ServiceMatchesHandler
<1> DEFINE s == stack[0]
           open(n) == \E i \in 1 .. Len(s) :
                         s[i].pc \in IF n = 0 THEN {"irq0"}
                                     ELSE {"irq1", "spawn", "spawn_publish", "irq1_eoi"}
<1>1. ASSUME IInv, NEW n \in Irq PROVE n \in isr <=> open(n)
  <2>1. s[1].pc = "hlt"
    BY <1>1 DEF IInv, Shapes, MainStack, At0
  <2>2. Len(s) = 1 \/ Len(s) = 2 \/ Len(s) = 3
    BY <1>1, StackLengths
  <2>3. CASE Len(s) = 1
    BY <1>1, <2>1, <2>3 DEF IInv, Service
  <2>4. CASE Len(s) = 2
    <3>1. isr = ServiceOf(s[2].pc)
      BY <1>1, <2>4 DEF IInv, Service
    <3>2. open(n) <=> s[2].pc \in IF n = 0 THEN {"irq0"}
                                  ELSE {"irq1", "spawn", "spawn_publish", "irq1_eoi"}
      BY <2>1, <2>4
    <3>3. QED
      BY <3>1, <3>2 DEF ServiceOf, Irq
  <2>5. CASE Len(s) = 3
    <3>1. isr = ServiceOf(s[2].pc)
      BY <1>1, <2>5 DEF IInv, Service
    <3>2. s[2].pc \in {"iret", "irq1_eoi"} /\ s[3].pc \in YieldLabels
      BY <1>1, <2>5 DEF IInv, Shapes, MainStack
    <3>3. open(n) <=> n # 0 /\ s[2].pc = "irq1_eoi"
      BY <2>1, <2>5, <3>2 DEF YieldLabels
    <3>4. QED
      BY <3>1, <3>2, <3>3 DEF ServiceOf, Irq
  <2>6. QED
    BY <2>2, <2>3, <2>4, <2>5
<1>2. IInv => ServiceMatchesHandler
  <2>1. SUFFICES ASSUME IInv PROVE ServiceMatchesHandler
    OBVIOUS
  <2>2. isr \subseteq Irq /\ \A n \in Irq : n \in isr <=> open(n)
    BY <1>1, <2>1 DEF IInv, TypeOK
  <2>3. QED
    BY <2>2 DEF ServiceMatchesHandler
<1>3. QED
  BY <1>2, Invariance, PTL

-----------------------------------------------------------------------------
(* How a step changes the set of zombies and the executing thread.         *)

Dead == {t \in Created : threadState[t] = ZOMBIE}

LEMMA AbstractLive == RR!Live = Live
  BY DEF RR!Live, Live, Created

\* Every step but three leaves the abstract state alone.
LEMMA SilentSteps ==
    ASSUME IInv, [Next]_vars, ~SpawnPublish, ~ExitMark, ~YieldSwitch, ~ExitSwitch
    PROVE  /\ UNCHANGED <<g_thread_count, sp>>
           /\ Dead' = Dead
<1>0. /\ Created \subseteq Tid /\ Live \subseteq Created
      /\ threadState \in [Tid -> {RUNNABLE, RUNNING, ZOMBIE}]
  BY Ranges DEF IInv, TypeOK
<1>1. CASE YieldDemote
  <2>1. UNCHANGED <<g_thread_count, sp>>
    BY <1>1 DEF YieldDemote
  <2>2. \A t \in Tid : threadState'[t] = ZOMBIE <=> threadState[t] = ZOMBIE
    BY <1>0, <1>1 DEF YieldDemote, RUNNABLE, RUNNING, ZOMBIE
  <2>3. QED
    BY <1>0, <2>1, <2>2 DEF Dead, Created
<1>2. CASE YieldPromote \/ ExitPromote
  <2>1. UNCHANGED <<g_thread_count, sp>>
    BY <1>2 DEF YieldPromote, ExitPromote
  <2>2. threadState' = [threadState EXCEPT ![Top.next] = RUNNING]
    BY <1>2 DEF YieldPromote, ExitPromote
  <2>3. Top.pc \in {"promote", "exit_promote"}
    BY <1>2 DEF YieldPromote, ExitPromote, At
  <2>4. Top.next \in Live
    BY <2>3 DEF IInv, States, YieldSteps, ExitSteps
  <2>5. \A t \in Tid : threadState'[t] = ZOMBIE <=> threadState[t] = ZOMBIE
    BY <1>0, <2>2, <2>4 DEF Live, RUNNABLE, RUNNING, ZOMBIE
  <2>6. QED
    BY <1>0, <2>1, <2>5 DEF Dead, Created
<1>3. CASE SpawnFill
  <2>1. UNCHANGED <<g_thread_count, sp>>
    BY <1>3 DEF SpawnFill
  <2>2. g_thread_count \notin Created
    BY Ranges DEF IInv, Created
  <2>3. \A t \in Created : threadState'[t] = threadState[t]
    BY <1>0, <1>3, <2>2 DEF SpawnFill
  <2>4. QED
    BY <2>1, <2>3 DEF Dead, Created
<1>4. CASE UNCHANGED <<threadState, g_thread_count, sp>>
  BY <1>4 DEF Dead, Created
<1> DEFINE Keeps == UNCHANGED <<threadState, g_thread_count, sp>>
<1>5. \/ Keeps \/ YieldDemote \/ YieldPromote \/ ExitPromote \/ SpawnFill
  <2>1. Yield => Keeps \/ YieldDemote \/ YieldPromote
    BY DEF Yield, YieldNone, YieldFind, YieldSetCurrent, YieldReturn, table
  <2>2. Exit => Keeps \/ ExitPromote
    BY DEF Exit, ExitFind, ExitSetCurrent, table
  <2>3. Thread \/ Iret => Keeps
    BY DEF Thread, Bootstrap, EntryYield, EntryReturn, Iret, table
  <2>4. Irq0 => Keeps
    BY DEF Irq0, Irq0Tick, Irq0Preempt, table
  <2>5. Irq1 => Keeps \/ SpawnFill
    BY DEF Irq1, KeyOther, CommandYield, CommandSpawn, CommandPreempt, SpawnEnd,
           Irq1Eoi, table
  <2>6. \A n \in Irq : RaiseIrq(n) \/ AcceptIrq(n) => Keeps
    BY DEF RaiseIrq, AcceptIrq, table, cpu
  <2>7. UNCHANGED vars => Keeps
    BY DEF vars
  <2>8. QED
    BY <2>1, <2>2, <2>3, <2>4, <2>5, <2>6, <2>7 DEF Next, Execute
<1>6. QED
  BY <1>1, <1>2, <1>3, <1>4, <1>5

\* thread_create has counted the new thread: the abstract Spawn.
LEMMA PublishIsSpawn ==
    ASSUME IInv, SpawnPublish
    PROVE  RR!Spawn /\ Dead' = Dead /\ sp' = sp
<1>1. Top.pc = "spawn_publish" /\ g_thread_count' = g_thread_count + 1
      /\ UNCHANGED <<threadState, sp>>
  BY DEF SpawnPublish, At
<1>2. sp = 0 /\ Len(stack[0]) = 2
  BY <1>1, Places DEF IrqLabels
<1>3. stack[0][2].pc = "spawn_publish"
  BY <1>1, <1>2 DEF Top
<1>4. g_thread_count < THREAD_MAX /\ threadState[g_thread_count] = RUNNABLE
  BY <1>2, <1>3 DEF IInv, Filled
<1>5. Created' = Created \cup {g_thread_count}
  BY <1>1, Ranges DEF Created, IInv
<1>6. Dead' = Dead
  BY <1>1, <1>4, <1>5 DEF Dead, RUNNABLE, ZOMBIE
<1>7. QED
  BY <1>1, <1>2, <1>4, <1>6 DEF RR!Spawn, Dead

\* thread_exit has marked the thread: the abstract Die.
LEMMA MarkIsDie ==
    ASSUME IInv, ExitMark
    PROVE  RR!Die /\ Dead' = Dead \cup {sp} /\ sp' = sp
<1>1. Top.pc = "exit"
      /\ threadState' = [threadState EXCEPT ![g_current_tid] = ZOMBIE]
      /\ UNCHANGED <<g_thread_count, sp>>
  BY DEF ExitMark, At
<1>2. sp # 0 /\ sp \in Created /\ Created \subseteq Tid
  BY <1>1, Places, Ranges DEF ExitLabels, IInv, Alive
<1>3. g_current_tid = sp /\ threadState[sp] = RUNNING
  BY <1>1 DEF IInv, States, OwnState, YieldSteps, ExitSteps
<1>4. Dead' = Dead \cup {sp} /\ sp \notin Dead
  BY <1>1, <1>2, <1>3 DEF Dead, Created, IInv, TypeOK, RUNNING, ZOMBIE
<1>5. QED
  BY <1>1, <1>2, <1>4 DEF RR!Die, Dead

\* thread_switch: the abstract HandOver.
LEMMA SwitchIsHandOver ==
    ASSUME IInv, YieldSwitch \/ ExitSwitch
    PROVE  RR!HandOver /\ Dead' = Dead /\ sp' \in Live
<1> DEFINE pc == IF Top.pc = "switch" THEN "resumed" ELSE "panic"
<1>1. Top.pc \in {"switch", "exit_switch"} /\ pc \in Labels
      /\ Switch(Top.prev, Top.next, pc)
  BY DEF YieldSwitch, ExitSwitch, At, Labels, YieldLabels, ExitLabels
<1>2. UNCHANGED <<threadState, g_thread_count>>
  BY DEF YieldSwitch, ExitSwitch
<1> HIDE DEF pc
<1>3. sp' = Top.next /\ Top.next \in Live \ {sp}
  BY <1>1, SwitchEffect
<1>4. Top.next = RR!Successor(sp)
  BY <1>1 DEF IInv, States, YieldSteps, ExitSteps
<1>5. Dead' = Dead
  BY <1>2 DEF Dead, Created
<1>6. QED
  BY <1>2, <1>3, <1>4, <1>5, AbstractLive DEF RR!HandOver, Dead

-----------------------------------------------------------------------------
(***************************************************************************)
(* A thread that called thread_exit stays dead, and the CPU never comes    *)
(* back to its stack.                                                      *)
(***************************************************************************)
THEOREM DeadForGood == Spec => ZombiesStayDead
<1> DEFINE Step == \A t \in Created \ Live :
                     t \in Created' \ Live' /\ (sp' = t => sp = t)
<1>1. ASSUME IInv, [Next]_vars PROVE Step
  <2>1. Created \ Live = Dead /\ (Created \ Live)' = Dead'
    BY DEF Dead, Live
  <2>2. CASE SpawnPublish
    BY <1>1, <2>1, <2>2, PublishIsSpawn
  <2>3. CASE ExitMark
    BY <1>1, <2>1, <2>3, MarkIsDie
  <2>4. CASE YieldSwitch \/ ExitSwitch
    BY <1>1, <2>1, <2>4, SwitchIsHandOver
  <2>5. CASE ~(SpawnPublish \/ ExitMark \/ YieldSwitch \/ ExitSwitch)
    BY <1>1, <2>1, <2>5, SilentSteps
  <2>6. QED
    BY <2>2, <2>3, <2>4, <2>5
<1>2. ASSUME IInv, [Next]_vars PROVE [Step]_vars
  BY <1>1, <1>2
<1>3. QED
  BY <1>2, Invariance, PTL DEF Spec, ZombiesStayDead

(***************************************************************************)
(* The scheduler implements round robin: its steps either leave the        *)
(* abstract state alone or are one step of RoundRobin.tla.                 *)
(***************************************************************************)
THEOREM Refinement == Spec => ImplementsRoundRobin
<1>1. Init => RR!Init
  <2>1. SUFFICES ASSUME Init PROVE RR!Init
    OBVIOUS
  <2>2. 0 \in Tid
    BY ThreadMaxAssumption DEF Tid
  <2>3. Dead = {}
    BY <2>1, <2>2 DEF Init, Dead, Created, RUNNING, ZOMBIE
  <2>4. QED
    BY <2>1, <2>3 DEF Init, RR!Init, Dead
<1>2. ASSUME IInv, [Next]_vars PROVE [RR!Next]_(RR!vars)
  <2>1. CASE SpawnPublish
    BY <1>2, <2>1, PublishIsSpawn DEF RR!Next
  <2>2. CASE ExitMark
    BY <1>2, <2>2, MarkIsDie DEF RR!Next
  <2>3. CASE YieldSwitch \/ ExitSwitch
    BY <1>2, <2>3, SwitchIsHandOver DEF RR!Next
  <2>4. CASE ~(SpawnPublish \/ ExitMark \/ YieldSwitch \/ ExitSwitch)
    BY <1>2, <2>4, SilentSteps DEF RR!vars, Dead
  <2>5. QED
    BY <2>1, <2>2, <2>3, <2>4
<1>3. QED
  BY <1>1, <1>2, Invariance, PTL DEF Spec, ImplementsRoundRobin, RR!Spec
=============================================================================
