--------------------------- MODULE IntEntryProofs ---------------------------
(***************************************************************************)
(* Theorems about IntEntry for any set of vectors whose error codes are    *)
(* those the table no_err_code lists: whatever interrupts what, and        *)
(* wherever, the handler finds one form of frame, the interrupted code     *)
(* gets everything back, and so does the caller of a system call.          *)
(*                                                                         *)
(* The invariant describes the stack of activations: code of the base      *)
(* level (user code or a system call), which an interrupt or an exception  *)
(* may have interrupted, whose trampoline interrupt 0x40 may have          *)
(* interrupted in turn.  An activation owns the words above its base.      *)
(***************************************************************************)
EXTENDS IntEntry, SequenceTheorems, TLAPS

USE VectorAssumption DEF At, Goto

\* no_err_code knows which vectors come with an error code.
TableRight == ErrorVector = {v \in Vector : PushedErrorCode(v)}

Value == {Garbage, UserRip, <<"rflags", TRUE>>}
         \cup {<<w, r>> : w \in {"user", "kern"}, r \in Reg}
         \cup {<<"vector", v>> : v \in Vector}

\* The base level: memory m, registers r, stack pointer p, label l, privilege q.
SyscallRegs == [Of("user") EXCEPT !["rcx"] = UserRip, !["r11"] = <<"rflags", TRUE>>]
BodyRegs    == [Of("kern") EXCEPT !["rbx"] = <<"user", "rbx">>]
SysretRegs  == [BodyRegs EXCEPT !["r11"] = <<"rflags", TRUE>>, !["rcx"] = UserRip, !["rbp"] = <<"user", "rbp">>]
SyscallFrame(m) == /\ m[1] = <<"rsp", UserTop>> /\ m[2] = <<"user", "rbp">>
                   /\ m[3] = UserRip /\ m[4] = <<"rflags", TRUE>>
AtBase(m, r, p, l, q, u) ==
  \/ l = UserPC /\ q = "user" /\ p = UserTop /\ r = Of("user")
  \/ l = <<"sc_save", 0>> /\ q = "kern" /\ p = UserTop /\ r = SyscallRegs
  \/ l = <<"sc_switch", 0>> /\ q = "kern" /\ p = UserTop /\ r = SyscallRegs /\ u = UserTop
  \/ l = <<"sc_push", 0>> /\ q = "kern" /\ p = Top /\ r = SyscallRegs /\ u = UserTop
  \/ l = <<"sc_body", 0>> /\ q = "kern" /\ p = 4 /\ r = BodyRegs /\ SyscallFrame(m)
  \/ l = <<"sysret", 0>> /\ q = "kern" /\ p = UserTop /\ r = SysretRegs

\* The stack of the handler of an interruption of ctx starts above this word.
Base(ctx) == IF ctx.cpl = "user" THEN Top ELSE ctx.rsp + (ctx.rsp % 2)

Early == {"push_rax", "load_vector", "swap_vector", "cli"}

\* A handler that has interrupted ctx with vector v; b is its base, n is what the processor
\* has pushed.
Frame(m, b, ctx, v) ==
  /\ m[b + 1] = <<"ss", ctx.cpl>> /\ m[b + 2] = <<"rsp", ctx.rsp>> /\ m[b + 3] = <<"rflags", ctx.if>>
  /\ m[b + 4] = <<"cs", ctx.cpl>> /\ m[b + 5] = <<"rip", ctx.pc>>
  /\ v \in ErrorVector => m[b + 6] = <<"error", v>>
Numbered(m, b, v) ==
  /\ m[b + 6] = <<"error", IF v \in ErrorVector THEN v ELSE Dead>>
  /\ m[b + 7] = <<"vector", v>>
Spilled(m, b, ctx) == \A i \in 1..9 : m[b + 7 + i] = ctx.reg[SavedRegs[i]]
InTrampoline(m, r, p, l, b, n, ctx, v) ==
  \/ l = <<"push_rax", v>> /\ p = b + n /\ r = ctx.reg
  \/ l = <<"load_vector", v>> /\ p = b + n + 1 /\ m[p] = ctx.reg["rax"] /\ r = ctx.reg
  \/ /\ l = <<"swap_vector", 0>> /\ p = b + n + 1 /\ m[p] = ctx.reg["rax"]
     /\ r = [ctx.reg EXCEPT !["rax"] = <<"vector", v>>]
  \/ l = <<"cli", 0>> /\ p = b + n + 1 /\ m[p] = <<"vector", v>> /\ r = ctx.reg
InEntry(m, r, p, l, b, n, ctx, v) ==
  \/ l = <<"look_up", 0>> /\ p = b + n + 1 /\ m[p] = <<"vector", v>> /\ r = ctx.reg
  \/ /\ l = <<"spill_rax", 0>> /\ n = 5 /\ p = b + 6 /\ m[p] = <<"vector", v>>
     /\ r = ctx.reg /\ m[b + 8] = r["rbx"]
  \/ /\ l = <<"take_vector", 0>> /\ n = 5 /\ p = b + 6 /\ m[p] = <<"vector", v>>
     /\ m[b + 8] = ctx.reg["rax"] /\ r = [ctx.reg EXCEPT !["rax"] = ctx.reg["rbx"]]
  \/ /\ l = <<"put_dead", 0>> /\ n = 5 /\ p = b + 6 /\ m[b + 8] = ctx.reg["rax"]
     /\ r = [ctx.reg EXCEPT !["rax"] = <<"vector", v>>]
  \/ /\ l = <<"unspill_rax", 0>> /\ n = 5 /\ p = b + 7 /\ Numbered(m, b, v)
     /\ m[b + 8] = ctx.reg["rax"] /\ r = [ctx.reg EXCEPT !["rax"] = <<"vector", v>>]
  \/ l = <<"save", 0>> /\ p = b + 7 /\ Numbered(m, b, v) /\ r = ctx.reg
InC(m, r, p, l, b, ctx, v) ==
  \/ l = <<"handler", 0>> /\ p = b + 16 /\ Numbered(m, b, v) /\ Spilled(m, b, ctx) /\ r = ctx.reg
  \/ /\ l \in {<<"halted", 0>>, <<"hlt", 0>>, <<"restore", 0>>} /\ p = b + 16 /\ Spilled(m, b, ctx)
     /\ r = [x \in Reg |-> IF x \in CallerSaved THEN Garbage ELSE ctx.reg[x]]
  \/ l = <<"drop", 0>> /\ p = b + 7 /\ r = ctx.reg
  \/ l = <<"iretq", 0>> /\ p = b + 5 /\ r = ctx.reg
Pushed(v) == IF v \in ErrorVector THEN 6 ELSE 5
InHandler(m, r, p, l, ctx, v) ==
  /\ Frame(m, Base(ctx), ctx, v)
  /\ \/ InTrampoline(m, r, p, l, Base(ctx), Pushed(v), ctx, v)
     \/ InEntry(m, r, p, l, Base(ctx), Pushed(v), ctx, v)
     \/ InC(m, r, p, l, Base(ctx), ctx, v)

\* The contexts that are interrupted: those of the base level, and trampolines above them.
BaseContext(m, u, ctx) ==
  /\ ctx = [reg |-> ctx.reg, rsp |-> ctx.rsp, if |-> TRUE, cpl |-> ctx.cpl, pc |-> ctx.pc]
  /\ AtBase(m, ctx.reg, ctx.rsp, ctx.pc, ctx.cpl, u)
TrampolineContext(m, ctx, under) ==
  /\ ctx = [reg |-> ctx.reg, rsp |-> ctx.rsp, if |-> TRUE, cpl |-> "kern", pc |-> ctx.pc]
  /\ \E v \in Vector : /\ Frame(m, Base(under), under, v)
                       /\ InTrampoline(m, ctx.reg, ctx.rsp, ctx.pc, Base(under), Pushed(v), under, v)

Level0 == saved = <<>> /\ IF_ = TRUE /\ AtBase(mem, reg, rsp, pc, cpl, user_rsp_slot)
Level1 == /\ Len(saved) = 1 /\ saved = <<saved[1]>> /\ BaseContext(mem, user_rsp_slot, saved[1])
          /\ cpl = "kern" /\ (pc[1] \notin Early => IF_ = FALSE)
          /\ \E v \in Vector : InHandler(mem, reg, rsp, pc, saved[1], v)
Level2 == /\ Len(saved) = 2 /\ saved = <<saved[1], saved[2]>>
          /\ BaseContext(mem, user_rsp_slot, saved[2])
          /\ TrampolineContext(mem, saved[1], saved[2])
          /\ cpl = "kern" /\ IF_ = FALSE
          /\ IPI \in Vector /\ InHandler(mem, reg, rsp, pc, saved[1], IPI)

Memory(m) == m = [k \in Slot |-> m[k]]
EntryType == /\ Memory(mem) /\ IF_ \in BOOLEAN /\ user_rsp_slot \in {Top, UserTop}
             /\ apic \in [irr : BOOLEAN, isr : BOOLEAN] /\ (apic.irr => IPI \in Vector)

EntryInv == EntryType /\ (Level0 \/ Level1 \/ Level2)

-----------------------------------------------------------------------------
(* Words of the stacks                                                     *)

\* Where a handler's stack may start.
Bases == 0..12 \cup 100..110
SameBelow(b, m, n) == \A k \in Slot : k <= b => n[k] = m[k]

LEMMA PushedWords ==
  ASSUME NEW p \in Int, NEW n \in Nat, NEW vs, DOMAIN vs = 1..n
  PROVE  /\ Memory(Push(p, vs))
         /\ \A k \in Slot : Push(p, vs)[k] = IF p < k /\ k <= p + n THEN vs[k - p] ELSE mem[k]
<1>1. \A k \in Slot : k \in Int
  BY DEF Slot, UserTop
<1> QED
  BY <1>1 DEF Push, Memory

LEMMA SavedRegsAre ==
  /\ SavedRegs[1] = "rax" /\ SavedRegs[2] = "rcx" /\ SavedRegs[3] = "rdx" /\ SavedRegs[4] = "rsi"
  /\ SavedRegs[5] = "rdi" /\ SavedRegs[6] = "r8" /\ SavedRegs[7] = "r9" /\ SavedRegs[8] = "r10"
  /\ SavedRegs[9] = "r11" /\ DOMAIN SavedRegs = 1..9
  /\ \A i \in 1..9 : SavedRegs[i] \in CallerSaved
  BY DEF SavedRegs, CallerSaved

\* The registers are popped in the reverse order.
LEMMA RestoreOrder ==
  ASSUME NEW j \in 1..9
  PROVE  (CHOOSE i \in 1..9 : Restored[i] = SavedRegs[j]) = 10 - j
<1>1. Restored[10 - j] = SavedRegs[j] /\ 10 - j \in 1..9
  BY DEF Restored, SavedRegs
<1>2. \A i \in 1..9 : Restored[i] = SavedRegs[j] => i = 10 - j
  BY DEF Restored, SavedRegs
<1> QED
  BY <1>1, <1>2

-----------------------------------------------------------------------------
(* The code of a handler, up to iretq.                                     *)

\* What such a step must show.
Goes(ctx, v) == /\ Memory(mem') /\ InHandler(mem', reg', rsp', pc', ctx, v)
                /\ SameBelow(Base(ctx), mem, mem')

\* A frame is kept by what is written above it.
LEMMA FrameKept ==
  ASSUME NEW m, NEW w, NEW ctx, NEW v, Base(ctx) \in Bases, Frame(m, Base(ctx), ctx, v),
         \A k \in Slot : k <= Base(ctx) + Pushed(v) => w[k] = m[k]
  PROVE  Frame(w, Base(ctx), ctx, v) /\ SameBelow(Base(ctx), m, w)
<1> DEFINE b == Base(ctx)
<1>1. b \in Bases /\ \A k \in Slot : k <= b + Pushed(v) => w[k] = m[k]
  OBVIOUS
<1>2. Frame(m, b, ctx, v)
  OBVIOUS
<1> HIDE DEF b
<1>3. \A i \in 1..6 : b + i \in Slot
  BY <1>1 DEF Bases, Slot, UserTop
<1>4. \A i \in 1..5 : w[b + i] = m[b + i]
  BY <1>1, <1>3 DEF Pushed, Bases
<1>5. v \in ErrorVector => w[b + 6] = m[b + 6]
  BY <1>1, <1>3 DEF Pushed, Bases
<1>6. Frame(w, b, ctx, v)
  BY <1>2, <1>4, <1>5 DEF Frame
<1>7. \A k \in Slot : k <= b => w[k] = m[k]
  BY <1>1 DEF Pushed, Bases, Slot, UserTop
<1> QED
  BY <1>6, <1>7 DEF b, SameBelow

LEMMA PushOne ==
  ASSUME NEW p \in Int, NEW x
  PROVE  /\ Memory(Push(p, <<x>>))
         /\ \A k \in Slot : Push(p, <<x>>)[k] = IF k = p + 1 THEN x ELSE mem[k]
<1>1. DOMAIN <<x>> = 1..1 /\ <<x>>[1] = x
  OBVIOUS
<1>2. \A k \in Slot : k \in Int
  BY DEF Slot, UserTop
<1>3. /\ Memory(Push(p, <<x>>))
      /\ \A k \in Slot : Push(p, <<x>>)[k] = IF p < k /\ k <= p + 1 THEN <<x>>[k - p] ELSE mem[k]
  BY <1>1, PushedWords
<1> QED
  BY <1>1, <1>2, <1>3

LEMMA PushTwo ==
  ASSUME NEW p \in Int, NEW x, NEW y
  PROVE  /\ Memory(Push(p, <<x, y>>))
         /\ \A k \in Slot : Push(p, <<x, y>>)[k] = IF k = p + 1 THEN x ELSE IF k = p + 2 THEN y ELSE mem[k]
<1>1. DOMAIN <<x, y>> = 1..2 /\ <<x, y>>[1] = x /\ <<x, y>>[2] = y
  OBVIOUS
<1>2. \A k \in Slot : k \in Int
  BY DEF Slot, UserTop
<1>3. /\ Memory(Push(p, <<x, y>>))
      /\ \A k \in Slot : Push(p, <<x, y>>)[k] = IF p < k /\ k <= p + 2 THEN <<x, y>>[k - p] ELSE mem[k]
  BY <1>1, PushedWords
<1> QED
  BY <1>1, <1>2, <1>3

LEMMA TrampolineStep ==
  ASSUME Memory(mem), NEW ctx, ctx.reg \in [Reg -> Value], Base(ctx) \in Bases, NEW v \in Vector,
         InHandler(mem, reg, rsp, pc, ctx, v), Trampoline
  PROVE  Goes(ctx, v)
<1> DEFINE b == Base(ctx)
<1> DEFINE n == Pushed(v)
<1>b. /\ b \in Bases /\ n \in {5, 6} /\ b + n \in Int /\ b + n + 1 \in Slot
      /\ \A k \in Slot : k <= b + n => k # b + n + 1
  BY DEF Pushed, Bases, Slot, UserTop
<1>m. /\ Frame(mem, b, ctx, v)
      /\ pc[1] \in {"push_rax", "load_vector", "swap_vector"} => InTrampoline(mem, reg, rsp, pc, b, n, ctx, v)
  BY DEF InHandler, InEntry, InC
<1>g. ASSUME \A k \in Slot : k <= b + n => mem'[k] = mem[k], Memory(mem'),
             InTrampoline(mem', reg', rsp', pc', b, n, ctx, v)
      PROVE  Goes(ctx, v)
  BY <1>b, <1>m, <1>g, FrameKept DEF Goes, InHandler
<1> HIDE DEF b, n
<1>1. CASE PushRax
  <2>1. pc = <<"push_rax", v>> /\ rsp = b + n /\ reg = ctx.reg
    BY <1>1, <1>m DEF PushRax, InTrampoline
  <2>2. /\ mem' = Push(b + n, <<ctx.reg["rax"]>>) /\ rsp' = b + n + 1 /\ reg' = ctx.reg
        /\ pc' = <<"load_vector", v>>
    BY <1>1, <2>1 DEF PushRax
  <2>3. /\ Memory(mem')
        /\ \A k \in Slot : mem'[k] = IF k = b + n + 1 THEN ctx.reg["rax"] ELSE mem[k]
    BY <1>b, <2>2, PushOne
  <2>4. InTrampoline(mem', reg', rsp', pc', b, n, ctx, v)
    BY <1>b, <2>2, <2>3 DEF InTrampoline
  <2> QED
    BY <1>b, <1>g, <2>3, <2>4
<1>2. CASE LoadVector
  <2>1. pc = <<"load_vector", v>> /\ rsp = b + n + 1 /\ mem[rsp] = ctx.reg["rax"] /\ reg = ctx.reg
    BY <1>2, <1>m DEF LoadVector, InTrampoline
  <2>2. /\ mem' = mem /\ rsp' = rsp /\ reg' = [ctx.reg EXCEPT !["rax"] = <<"vector", v>>]
        /\ pc' = <<"swap_vector", 0>>
    BY <1>2, <2>1 DEF LoadVector
  <2>4. InTrampoline(mem', reg', rsp', pc', b, n, ctx, v)
    BY <2>1, <2>2 DEF InTrampoline
  <2> QED
    BY <1>g, <2>2, <2>4
<1>3. CASE SwapVector
  <2>1. /\ rsp = b + n + 1 /\ mem[rsp] = ctx.reg["rax"]
        /\ reg = [ctx.reg EXCEPT !["rax"] = <<"vector", v>>]
    BY <1>3, <1>m DEF SwapVector, InTrampoline
  <2>2. /\ mem' = [mem EXCEPT ![b + n + 1] = <<"vector", v>>] /\ rsp' = rsp /\ pc' = <<"cli", 0>>
        /\ reg' = [reg EXCEPT !["rax"] = ctx.reg["rax"]]
    <3>1. reg["rax"] = <<"vector", v>>
      BY <2>1 DEF Reg, CallerSaved, SavedRegs
    <3> QED
      BY <1>3, <2>1, <3>1 DEF SwapVector
  <2>3. reg' = ctx.reg
    BY <2>1, <2>2
  <2>4. mem'[b + n + 1] = <<"vector", v>> /\ Memory(mem')
        /\ \A k \in Slot : k <= b + n => mem'[k] = mem[k]
    BY <1>b, <2>2 DEF Memory
  <2>5. InTrampoline(mem', reg', rsp', pc', b, n, ctx, v)
    BY <2>1, <2>2, <2>3, <2>4 DEF InTrampoline
  <2> QED
    BY <1>g, <2>4, <2>5
<1> QED
  BY <1>1, <1>2, <1>3 DEF Trampoline

LEMMA EntryStep ==
  ASSUME TableRight, Memory(mem), NEW ctx, ctx.reg \in [Reg -> Value], Base(ctx) \in Bases,
         NEW v \in Vector, InHandler(mem, reg, rsp, pc, ctx, v),
         Cli \/ LookUp \/ SpillRax \/ TakeVector \/ PutDead \/ UnspillRax
  PROVE  Goes(ctx, v)
<1> DEFINE b == Base(ctx)
<1> DEFINE n == Pushed(v)
<1>b. /\ b \in Bases /\ n \in {5, 6} /\ b + n \in Int
      /\ b + n + 1 \in Slot /\ b + 6 \in Slot /\ b + 7 \in Slot /\ b + 8 \in Slot
      /\ \A k \in Slot : k \in Int
  BY DEF Pushed, Bases, Slot, UserTop
<1>r. {"rax", "rbx"} \subseteq Reg
  BY DEF Reg, CallerSaved, SavedRegs
<1>m. /\ Frame(mem, b, ctx, v)
      /\ pc[1] = "cli" => InTrampoline(mem, reg, rsp, pc, b, n, ctx, v)
      /\ pc[1] \in {"look_up", "spill_rax", "take_vector", "put_dead", "unspill_rax"} =>
           InEntry(mem, reg, rsp, pc, b, n, ctx, v)
  BY DEF InHandler, InTrampoline, InEntry, InC
<1>g. ASSUME \A k \in Slot : k <= b + n => mem'[k] = mem[k], Memory(mem'),
             InEntry(mem', reg', rsp', pc', b, n, ctx, v)
      PROVE  Goes(ctx, v)
  BY <1>b, <1>m, <1>g, FrameKept DEF Goes, InHandler
<1>e. v \in ErrorVector <=> PushedErrorCode(v)
  BY DEF TableRight
<1>n. n = IF v \in ErrorVector THEN 6 ELSE 5
  BY DEF Pushed
<1> HIDE DEF b, n
<1>1. CASE Cli
  <2>1. rsp = b + n + 1 /\ mem[rsp] = <<"vector", v>> /\ reg = ctx.reg
    BY <1>1, <1>m DEF Cli, InTrampoline
  <2>2. mem' = mem /\ rsp' = rsp /\ reg' = reg /\ pc' = <<"look_up", 0>>
    BY <1>1 DEF Cli
  <2>3. InEntry(mem', reg', rsp', pc', b, n, ctx, v)
    BY <2>1, <2>2 DEF InEntry
  <2> QED
    BY <1>g, <2>2, <2>3
<1>2. CASE LookUp
  <2>1. rsp = b + n + 1 /\ mem[rsp] = <<"vector", v>> /\ reg = ctx.reg
    BY <1>2, <1>m DEF LookUp, InEntry
  <2>2. /\ mem' = Push(b + n + 1, <<ctx.reg["rax"], ctx.reg["rbx"]>>) /\ rsp' = rsp /\ reg' = reg
        /\ pc' = IF PushedErrorCode(v) THEN <<"save", 0>> ELSE <<"spill_rax", 0>>
    BY <1>2, <2>1 DEF LookUp
  <2>3. /\ Memory(mem')
        /\ \A k \in Slot : mem'[k] = IF k = b + n + 1 + 1 THEN ctx.reg["rax"]
                                     ELSE IF k = b + n + 1 + 2 THEN ctx.reg["rbx"] ELSE mem[k]
    BY <1>b, <2>2, PushTwo
  <2>4. \A k \in Slot : k <= b + n + 1 => mem'[k] = mem[k]
    BY <1>b, <2>3
  <2>5. CASE v \in ErrorVector
    <3>1. n = 6 /\ mem[b + 6] = <<"error", v>>
      BY <1>m, <1>n, <2>5 DEF Frame
    <3>2. mem'[b + 6] = <<"error", v>> /\ mem'[b + 7] = <<"vector", v>>
      BY <1>b, <2>1, <2>4, <3>1 DEF Bases
    <3>3. InEntry(mem', reg', rsp', pc', b, n, ctx, v)
      BY <1>b, <1>e, <2>1, <2>2, <2>5, <3>1, <3>2 DEF InEntry, Numbered, Bases
    <3> QED
      BY <1>b, <1>g, <2>3, <2>4, <3>3
  <2>6. CASE v \notin ErrorVector
    <3>1. n = 5
      BY <1>n, <2>6
    <3>2. mem'[b + 6] = <<"vector", v>> /\ mem'[b + 8] = ctx.reg["rbx"]
      BY <1>b, <2>1, <2>3, <3>1 DEF Bases
    <3>3. InEntry(mem', reg', rsp', pc', b, n, ctx, v)
      BY <1>b, <1>e, <2>1, <2>2, <2>6, <3>1, <3>2 DEF InEntry, Bases
    <3> QED
      BY <1>b, <1>g, <2>3, <2>4, <3>3
  <2> QED
    BY <2>5, <2>6
<1>3. CASE SpillRax
  <2>1. /\ n = 5 /\ rsp = b + 6 /\ mem[rsp] = <<"vector", v>> /\ reg = ctx.reg
        /\ mem[b + 8] = ctx.reg["rbx"]
    BY <1>3, <1>m DEF SpillRax, InEntry
  <2>2. rsp + 2 = b + 8
    BY <1>b, <2>1 DEF Bases
  <2>3. /\ mem' = [mem EXCEPT ![b + 8] = ctx.reg["rax"]] /\ rsp' = rsp /\ pc' = <<"take_vector", 0>>
        /\ reg' = [ctx.reg EXCEPT !["rax"] = ctx.reg["rbx"]]
    BY <1>3, <2>1, <2>2 DEF SpillRax
  <2>4. /\ Memory(mem') /\ mem'[b + 8] = ctx.reg["rax"]
        /\ \A k \in Slot : k # b + 8 => mem'[k] = mem[k]
    BY <1>b, <2>3 DEF Memory
  <2>5. mem'[b + 6] = <<"vector", v>>
    BY <1>b, <2>1, <2>4 DEF Bases
  <2>6. InEntry(mem', reg', rsp', pc', b, n, ctx, v)
    BY <2>1, <2>3, <2>4, <2>5 DEF InEntry
  <2> QED
    BY <1>b, <1>g, <2>4, <2>6 DEF Bases
<1>4. CASE TakeVector
  <2>1. /\ n = 5 /\ rsp = b + 6 /\ mem[rsp] = <<"vector", v>> /\ mem[b + 8] = ctx.reg["rax"]
        /\ reg = [ctx.reg EXCEPT !["rax"] = ctx.reg["rbx"]]
    BY <1>4, <1>m DEF TakeVector, InEntry
  <2>2. mem' = mem /\ rsp' = rsp /\ reg' = [reg EXCEPT !["rax"] = <<"vector", v>>] /\ pc' = <<"put_dead", 0>>
    BY <1>4, <2>1 DEF TakeVector
  <2>3. reg' = [ctx.reg EXCEPT !["rax"] = <<"vector", v>>]
    BY <2>1, <2>2
  <2>4. InEntry(mem', reg', rsp', pc', b, n, ctx, v)
    BY <2>1, <2>2, <2>3 DEF InEntry
  <2> QED
    BY <1>g, <2>2, <2>4
<1>5. CASE PutDead
  <2>1. /\ n = 5 /\ rsp = b + 6 /\ mem[b + 8] = ctx.reg["rax"]
        /\ reg = [ctx.reg EXCEPT !["rax"] = <<"vector", v>>]
    BY <1>5, <1>m DEF PutDead, InEntry
  <2>2. reg["rax"] = <<"vector", v>> /\ rsp - 1 = b + 5 /\ rsp + 1 = b + 7
    BY <1>b, <1>r, <2>1 DEF Bases
  <2>3. /\ mem' = Push(b + 5, <<<<"error", Dead>>, <<"vector", v>>>>) /\ rsp' = b + 7 /\ reg' = reg
        /\ pc' = <<"unspill_rax", 0>>
    BY <1>5, <2>2 DEF PutDead
  <2>4. /\ Memory(mem')
        /\ \A k \in Slot : mem'[k] = IF k = b + 5 + 1 THEN <<"error", Dead>>
                                     ELSE IF k = b + 5 + 2 THEN <<"vector", v>> ELSE mem[k]
    BY <1>b, <2>1, <2>3, PushTwo
  <2>5. /\ mem'[b + 6] = <<"error", Dead>> /\ mem'[b + 7] = <<"vector", v>> /\ mem'[b + 8] = mem[b + 8]
        /\ \A k \in Slot : k <= b + 5 => mem'[k] = mem[k]
    BY <1>b, <2>4 DEF Bases
  <2>6. v \notin ErrorVector
    BY <1>n, <2>1
  <2>7. InEntry(mem', reg', rsp', pc', b, n, ctx, v)
    BY <2>1, <2>3, <2>5, <2>6 DEF InEntry, Numbered
  <2> QED
    BY <1>g, <2>1, <2>4, <2>5, <2>7
<1>6. CASE UnspillRax
  <2>1. /\ n = 5 /\ rsp = b + 7 /\ Numbered(mem, b, v) /\ mem[b + 8] = ctx.reg["rax"]
        /\ reg = [ctx.reg EXCEPT !["rax"] = <<"vector", v>>]
    BY <1>6, <1>m DEF UnspillRax, InEntry
  <2>2. rsp + 1 = b + 8
    BY <1>b, <2>1 DEF Bases
  <2>3. /\ mem' = [mem EXCEPT ![b + 8] = reg["rax"]] /\ rsp' = rsp /\ pc' = <<"save", 0>>
        /\ reg' = [reg EXCEPT !["rax"] = ctx.reg["rax"]]
    BY <1>6, <2>1, <2>2 DEF UnspillRax
  <2>4. reg' = ctx.reg
    BY <2>1, <2>3
  <2>5. Memory(mem') /\ \A k \in Slot : k # b + 8 => mem'[k] = mem[k]
    BY <1>b, <2>3 DEF Memory
  <2>6. Numbered(mem', b, v)
    BY <1>b, <2>1, <2>5 DEF Numbered, Bases
  <2>7. InEntry(mem', reg', rsp', pc', b, n, ctx, v)
    BY <2>1, <2>3, <2>4, <2>6 DEF InEntry
  <2> QED
    BY <1>b, <1>g, <2>1, <2>5, <2>7 DEF Bases
<1> QED
  BY <1>1, <1>2, <1>3, <1>4, <1>5, <1>6

LEMMA HandlerStep ==
  ASSUME Memory(mem), NEW ctx, ctx.reg \in [Reg -> Value], Base(ctx) \in Bases,
         NEW v \in Vector, InHandler(mem, reg, rsp, pc, ctx, v),
         SaveContext \/ HandleKick \/ HandleException \/ Resume \/ RestoreContext \/ Drop
  PROVE  Goes(ctx, v)
<1> DEFINE b == Base(ctx)
<1> DEFINE n == Pushed(v)
<1>b. b \in Bases /\ n \in {5, 6} /\ \A k \in Slot : k \in Int
  BY DEF Pushed, Bases, Slot, UserTop
<1>s. \A i \in 1..9 : b + 7 + i \in Slot
  BY <1>b DEF Bases, Slot, UserTop
<1>m. /\ Frame(mem, b, ctx, v)
      /\ pc[1] = "save" => InEntry(mem, reg, rsp, pc, b, n, ctx, v)
      /\ pc[1] \in {"handler", "halted", "restore", "drop"} => InC(mem, reg, rsp, pc, b, ctx, v)
  BY DEF InHandler, InTrampoline, InEntry, InC
<1>g. ASSUME \A k \in Slot : k <= b + n => mem'[k] = mem[k], Memory(mem'),
             InC(mem', reg', rsp', pc', b, ctx, v)
      PROVE  Goes(ctx, v)
  BY <1>b, <1>m, <1>g, FrameKept DEF Goes, InHandler
<1> HIDE DEF b, n
<1>1. CASE SaveContext
  <2>1. rsp = b + 7 /\ Numbered(mem, b, v) /\ reg = ctx.reg
    BY <1>1, <1>m DEF SaveContext, InEntry
  <2> DEFINE vs == [i \in 1..9 |-> ctx.reg[SavedRegs[i]]]
  <2>2. mem' = Push(b + 7, vs) /\ rsp' = b + 7 + 9 /\ reg' = reg /\ pc' = <<"handler", 0>>
    BY <1>1, <2>1 DEF SaveContext
  <2>3. /\ Memory(mem')
        /\ \A k \in Slot : mem'[k] = IF b + 7 < k /\ k <= b + 7 + 9 THEN vs[k - (b + 7)] ELSE mem[k]
    <3>1. DOMAIN vs = 1..9 /\ b + 7 \in Int
      BY <1>b DEF Bases
    <3> HIDE DEF vs
    <3> QED
      BY ZenonT(60), <2>2, <3>1, PushedWords
  <2>4. \A i \in 1..9 : mem'[b + 7 + i] = vs[i]
    <3> HIDE DEF vs
    <3> TAKE i \in 1..9
    <3>1. b + 7 + i \in Slot /\ b + 7 < b + 7 + i /\ b + 7 + i <= b + 7 + 9 /\ b + 7 + i - (b + 7) = i
      BY <1>b, <1>s DEF Bases
    <3>2. mem'[b + 7 + i] = vs[b + 7 + i - (b + 7)]
      BY <1>b, <2>3, <3>1 DEF Bases
    <3> QED
      BY <3>1, <3>2
  <2>5. \A k \in Slot : k <= b + 7 => mem'[k] = mem[k]
    <3> HIDE DEF vs
    <3> QED
      BY <1>b, <2>3 DEF Bases
  <2>6. Spilled(mem', b, ctx)
    BY <2>4 DEF Spilled
  <2>7. Numbered(mem', b, v)
    <3>1. b + 6 \in Slot /\ b + 7 \in Slot /\ b + 6 <= b + 7 /\ b + 7 <= b + 7
      BY <1>b DEF Bases, Slot, UserTop
    <3>2. mem'[b + 6] = mem[b + 6] /\ mem'[b + 7] = mem[b + 7]
      BY <2>5, <3>1
    <3> QED
      BY <2>1, <3>2 DEF Numbered
  <2>8. b + 7 + 9 = b + 16
    BY <1>b DEF Bases
  <2>9. InC(mem', reg', rsp', pc', b, ctx, v)
    BY <2>1, <2>2, <2>6, <2>7, <2>8 DEF InC
  <2>10. \A k \in Slot : k <= b + n => mem'[k] = mem[k]
    BY <1>b, <2>5 DEF Bases
  <2> QED
    BY <1>g, <2>3, <2>9, <2>10
<1>2. CASE HandleKick \/ HandleException
  <2>1. rsp = b + 16 /\ Spilled(mem, b, ctx) /\ reg = ctx.reg
    BY <1>2, <1>m DEF HandleKick, HandleException, InC
  <2>2. /\ mem' = mem /\ rsp' = rsp /\ reg' = [x \in Reg |-> IF x \in CallerSaved THEN Garbage ELSE ctx.reg[x]]
        /\ pc' \in {<<"halted", 0>>, <<"hlt", 0>>, <<"restore", 0>>}
    BY <1>2, <2>1 DEF HandleKick, HandleException, Clobbered
  <2>3. InC(mem', reg', rsp', pc', b, ctx, v)
    BY <2>1, <2>2 DEF InC
  <2> QED
    BY <1>g, <2>2, <2>3
<1>3. CASE Resume
  <2>1. /\ rsp = b + 16 /\ Spilled(mem, b, ctx)
        /\ reg = [x \in Reg |-> IF x \in CallerSaved THEN Garbage ELSE ctx.reg[x]]
    BY <1>3, <1>m DEF Resume, InC
  <2>2. mem' = mem /\ rsp' = rsp /\ reg' = reg /\ pc' = <<"restore", 0>>
    BY <1>3 DEF Resume
  <2>3. InC(mem', reg', rsp', pc', b, ctx, v)
    BY <2>1, <2>2 DEF InC
  <2> QED
    BY <1>g, <2>2, <2>3
<1>4. CASE RestoreContext
  <2>1. /\ rsp = b + 16 /\ Spilled(mem, b, ctx)
        /\ reg = [x \in Reg |-> IF x \in CallerSaved THEN Garbage ELSE ctx.reg[x]]
    BY <1>4, <1>m DEF RestoreContext, InC
  <2> DEFINE at(x) == CHOOSE i \in 1..9 : Restored[i] = x
  <2>2. /\ mem' = mem /\ rsp' = rsp - 9 /\ pc' = <<"drop", 0>>
        /\ reg' = [x \in Reg |-> IF x \in CallerSaved THEN mem[rsp + 1 - at(x)] ELSE reg[x]]
    BY <1>4 DEF RestoreContext
  <2>3. \A x \in CallerSaved : mem[rsp + 1 - at(x)] = ctx.reg[x]
    <3> SUFFICES ASSUME NEW x \in CallerSaved PROVE mem[rsp + 1 - at(x)] = ctx.reg[x]
      OBVIOUS
    <3>1. PICK j \in 1..9 : x = SavedRegs[j]
      BY SavedRegsAre DEF CallerSaved
    <3>2. at(x) = 10 - j
      BY <3>1, RestoreOrder
    <3> HIDE DEF at
    <3>3. rsp + 1 - at(x) = b + 7 + j
      BY <1>b, <2>1, <3>2 DEF Bases
    <3> QED
      BY <2>1, <3>1, <3>3 DEF Spilled
  <2> HIDE DEF at
  <2>4. reg' = ctx.reg
    <3>1. \A x \in Reg : reg'[x] = ctx.reg[x]
      BY <2>1, <2>2, <2>3
    <3> QED
      BY <2>2, <3>1
  <2>5. rsp - 9 = b + 7
    BY <1>b, <2>1 DEF Bases
  <2>6. InC(mem', reg', rsp', pc', b, ctx, v)
    BY <2>2, <2>4, <2>5 DEF InC
  <2> QED
    BY <1>g, <2>2, <2>6
<1>5. CASE Drop
  <2>1. rsp = b + 7 /\ reg = ctx.reg
    BY <1>5, <1>m DEF Drop, InC
  <2>2. mem' = mem /\ rsp' = rsp - 2 /\ reg' = reg /\ pc' = <<"iretq", 0>>
    BY <1>5 DEF Drop
  <2>3. rsp - 2 = b + 5
    BY <1>b, <2>1 DEF Bases
  <2>4. InC(mem', reg', rsp', pc', b, ctx, v)
    BY <2>1, <2>2, <2>3 DEF InC
  <2> QED
    BY <1>g, <2>2, <2>4
<1> QED
  BY <1>1, <1>2, <1>3, <1>4, <1>5

-----------------------------------------------------------------------------
(* Interruptions                                                           *)

LEMMA PushedFrame ==
  ASSUME NEW a, NEW b, NEW c, NEW d, NEW e, NEW f
  PROVE  /\ <<a, b, c, d, e>> \o <<>> = <<a, b, c, d, e>>
         /\ <<a, b, c, d, e>> \o <<f>> = <<a, b, c, d, e, f>>
<1> DEFINE S == {a, b, c, d, e, f}
<1> DEFINE s == <<a, b, c, d, e>>
<1> DEFINE t == <<a, b, c, d, e, f>>
<1>1. s \in Seq(S) /\ <<f>> \in Seq(S) /\ t \in Seq(S)
  OBVIOUS
<1>2. <<a, b, c, d, e>> \o <<>> = <<a, b, c, d, e>>
  BY <1>1, ConcatEmptySeq
<1>3. s \o <<f>> = t
  <2>1. /\ s \o <<f>> \in Seq(S) /\ Len(s \o <<f>>) = 6
        /\ \A i \in 1..6 : (s \o <<f>>)[i] = IF i <= 5 THEN s[i] ELSE <<f>>[i - 5]
    <3>1. Len(s) = 5 /\ Len(<<f>>) = 1
      OBVIOUS
    <3> HIDE DEF s, S
    <3>2. s \o <<f>> \in Seq(S) /\ Len(s \o <<f>>) = Len(s) + Len(<<f>>)
      BY <1>1, ConcatProperties
    <3>3. \A i \in 1..Len(s) + Len(<<f>>) : (s \o <<f>>)[i] = IF i <= Len(s) THEN s[i] ELSE <<f>>[i - Len(s)]
      BY <1>1, ConcatProperties, Zenon
    <3> QED
      BY <3>1, <3>2, <3>3
  <2>2. \A i \in 1..6 : (s \o <<f>>)[i] = t[i]
    BY <2>1
  <2>3. Len(t) = 6
    OBVIOUS
  <2> HIDE DEF s, t, S
  <2> QED
    BY <1>1, <2>1, <2>2, <2>3, SeqEqual
<1> QED
  BY <1>2, <1>3

LEMMA Saved ==
  ASSUME NEW x, NEW y
  PROVE  /\ <<x>> \o <<>> = <<x>> /\ <<x>> \o <<y>> = <<x, y>>
         /\ Tail(<<x>>) = <<>> /\ Tail(<<x, y>>) = <<y>>
         /\ Len(<<x>>) = 1 /\ Len(<<x, y>>) = 2
<1>1. <<x>> \in Seq({x, y}) /\ <<y>> \in Seq({x, y})
  OBVIOUS
<1>2. <<x>> \o <<>> = <<x>>
  BY <1>1, ConcatEmptySeq
<1>4. <<x>> \o <<y>> = <<x, y>>
  <2>1. /\ <<x>> \o <<y>> \in Seq({x, y}) /\ Len(<<x>> \o <<y>>) = 2
        /\ \A i \in 1..2 : (<<x>> \o <<y>>)[i] = IF i <= 1 THEN <<x>>[i] ELSE <<y>>[i - 1]
    <3>1. Len(<<x>>) = 1 /\ Len(<<y>>) = 1
      OBVIOUS
    <3> QED
      BY <1>1, <3>1, ConcatProperties
  <2>2. \A i \in 1..2 : (<<x>> \o <<y>>)[i] = <<x, y>>[i]
    BY <2>1
  <2>3. <<x, y>> \in Seq({x, y}) /\ Len(<<x, y>>) = 2
    OBVIOUS
  <2> QED
    BY <2>1, <2>2, <2>3, SeqEqual
<1>3. Tail(<<x>>) = <<>> /\ Tail(<<x, y>>) = <<y>>
  OBVIOUS
<1> QED
  BY <1>2, <1>3, <1>4

\* The processor puts a frame above the base, and the trampoline starts.
LEMMA DeliverStep ==
  ASSUME Memory(mem), NEW v \in Vector, NEW ctx, ctx = Context, Base(ctx) \in Bases, Deliver(v)
  PROVE  Goes(ctx, v) /\ InTrampoline(mem', reg', rsp', pc', Base(ctx), Pushed(v), ctx, v)
<1> DEFINE b == Base(ctx)
<1> DEFINE five == <<<<"ss", cpl>>, <<"rsp", rsp>>, <<"rflags", IF_>>, <<"cs", cpl>>, <<"rip", pc>>>>
<1> DEFINE six == <<<<"ss", cpl>>, <<"rsp", rsp>>, <<"rflags", IF_>>, <<"cs", cpl>>, <<"rip", pc>>, <<"error", v>>>>
<1> DEFINE frame == IF v \in ErrorVector THEN six ELSE five
<1>c. ctx.reg = reg /\ ctx.rsp = rsp /\ ctx.if = IF_ /\ ctx.cpl = cpl /\ ctx.pc = pc
  BY DEF Context
<1>1. /\ frame[1] = <<"ss", ctx.cpl>> /\ frame[2] = <<"rsp", ctx.rsp>> /\ frame[3] = <<"rflags", ctx.if>>
      /\ frame[4] = <<"cs", ctx.cpl>> /\ frame[5] = <<"rip", ctx.pc>>
      /\ v \in ErrorVector => frame[6] = <<"error", v>>
      /\ Len(frame) = Pushed(v) /\ DOMAIN frame = 1..Pushed(v)
  <2>1. CASE v \in ErrorVector
    BY <1>c, <2>1 DEF Pushed
  <2>2. CASE v \notin ErrorVector
    BY <1>c, <2>2 DEF Pushed
  <2> QED
    BY <2>1, <2>2
<1>2. frame = five \o (IF v \in ErrorVector THEN <<<<"error", v>>>> ELSE <<>>)
  BY PushedFrame
<1>3. b = IF cpl = "user" THEN Top ELSE rsp + (rsp % 2)
  BY <1>c DEF Base
<1> HIDE DEF b, frame
<1>4. mem' = Push(b, frame) /\ rsp' = b + Len(frame) /\ reg' = reg /\ pc' = <<"push_rax", v>>
  BY <1>2, <1>3 DEF Deliver
<1>5. b \in Bases /\ b \in Int /\ Pushed(v) \in {5, 6}
  BY DEF b, Bases, Pushed
<1>6. /\ Memory(mem')
      /\ \A k \in Slot : mem'[k] = IF b < k /\ k <= b + Pushed(v) THEN frame[k - b] ELSE mem[k]
  BY <1>1, <1>4, <1>5, PushedWords
<1>7. \A i \in 1..Pushed(v) : mem'[b + i] = frame[i]
  <2> TAKE i \in 1..Pushed(v)
  <2>1. b + i \in Slot /\ b < b + i /\ b + i <= b + Pushed(v) /\ b + i - b = i
    BY <1>5 DEF Bases, Slot, UserTop
  <2>2. mem'[b + i] = frame[b + i - b]
    BY <1>5, <1>6, <2>1
  <2> QED
    BY <2>1, <2>2
<1>8. Frame(mem', b, ctx, v)
  <2>1. \A i \in 1..5 : mem'[b + i] = frame[i]
    BY <1>5, <1>7
  <2>2. v \in ErrorVector => mem'[b + 6] = frame[6]
    BY <1>7 DEF Pushed
  <2> QED
    BY <1>1, <2>1, <2>2 DEF Frame
<1>9. InTrampoline(mem', reg', rsp', pc', b, Pushed(v), ctx, v)
  BY <1>1, <1>4, <1>c DEF InTrampoline
<1>10. SameBelow(b, mem, mem')
  BY SMTT(30), <1>5, <1>6 DEF SameBelow, Slot, UserTop
<1> QED
  BY <1>6, <1>8, <1>9, <1>10 DEF b, Goes, InHandler

-----------------------------------------------------------------------------
(* The activations below the current one                                   *)

LEMMA BaseRegs ==
  /\ Of("user") \in [Reg -> Value] /\ SyscallRegs \in [Reg -> Value]
  /\ BodyRegs \in [Reg -> Value] /\ SysretRegs \in [Reg -> Value]
<1>1. Of("user") \in [Reg -> Value] /\ Of("kern") \in [Reg -> Value]
  BY DEF Of, Value
<1>2. UserRip \in Value
  BY DEF Value
<1>3. <<"user", "rbx">> \in Value /\ <<"user", "rbp">> \in Value
  BY DEF Value, Reg
<1>4. <<"rflags", TRUE>> \in Value
  BY DEF Value
<1> QED
  BY <1>1, <1>2, <1>3, <1>4 DEF SyscallRegs, BodyRegs, SysretRegs

LEMMA BaseOf ==
  ASSUME NEW m, NEW u, NEW ctx, BaseContext(m, u, ctx)
  PROVE  /\ Base(ctx) \in {0, 4, 100} /\ ctx.reg \in [Reg -> Value]
         /\ ctx.pc[1] = "sc_body" => Base(ctx) = 4
  BY BaseRegs DEF BaseContext, AtBase, Base, Top, UserTop, UserPC

LEMMA TrampolineOf ==
  ASSUME NEW m, NEW u, NEW ctx, NEW under, BaseContext(m, u, under), TrampolineContext(m, ctx, under)
  PROVE  /\ Base(ctx) \in Bases /\ ctx.reg \in [Reg -> Value]
         /\ Base(under) < ctx.rsp /\ ctx.rsp <= Base(ctx) /\ ctx.rsp \in Nat
<1>1. PICK v \in Vector : InTrampoline(m, ctx.reg, ctx.rsp, ctx.pc, Base(under), Pushed(v), under, v)
  BY DEF TrampolineContext
<1>2. Base(under) \in {0, 4, 100} /\ under.reg \in [Reg -> Value]
  BY BaseOf
<1>3. ctx.rsp \in {Base(under) + 5, Base(under) + 6, Base(under) + 7}
  BY <1>1, <1>2 DEF InTrampoline, Pushed
<1>4. ctx.reg \in [Reg -> Value]
  <2>1. <<"vector", v>> \in Value
    BY DEF Value
  <2>2. ctx.reg = under.reg \/ ctx.reg = [under.reg EXCEPT !["rax"] = <<"vector", v>>]
    BY <1>1 DEF InTrampoline
  <2> QED
    BY <1>2, <2>1, <2>2
<1>5. Base(ctx) = ctx.rsp + (ctx.rsp % 2)
  BY DEF TrampolineContext, Base
<1> QED
  BY <1>2, <1>3, <1>4, <1>5 DEF Bases

LEMMA BaseKept ==
  ASSUME NEW m, NEW w, NEW u, NEW ctx, NEW b \in Int, BaseContext(m, u, ctx),
         Base(ctx) <= b, SameBelow(b, m, w)
  PROVE  BaseContext(w, u, ctx)
<1>1. CASE ctx.pc[1] = "sc_body"
  <2>1. 4 <= b
    BY <1>1, BaseOf
  <2>2. \A k \in 1..4 : k \in Slot /\ w[k] = m[k]
    BY <2>1 DEF SameBelow, Slot, UserTop
  <2>3. w[1] = m[1] /\ w[2] = m[2] /\ w[3] = m[3] /\ w[4] = m[4]
    BY <2>2
  <2>4. SyscallFrame(m) => SyscallFrame(w)
    BY <2>3 DEF SyscallFrame
  <2> QED
    BY <2>4 DEF BaseContext, AtBase
<1>2. CASE ctx.pc[1] # "sc_body"
  BY <1>2 DEF BaseContext, AtBase, UserPC
<1> QED
  BY <1>1, <1>2

LEMMA TrampolineKept ==
  ASSUME NEW m, NEW w, NEW u, NEW ctx, NEW under, BaseContext(m, u, under),
         TrampolineContext(m, ctx, under), SameBelow(Base(ctx), m, w)
  PROVE  TrampolineContext(w, ctx, under)
<1>1. PICK v \in Vector : /\ Frame(m, Base(under), under, v)
                          /\ InTrampoline(m, ctx.reg, ctx.rsp, ctx.pc, Base(under), Pushed(v), under, v)
  BY DEF TrampolineContext
<1>2. /\ Base(under) \in {0, 4, 100} /\ Base(ctx) \in Bases /\ ctx.rsp \in Nat /\ ctx.rsp <= Base(ctx)
  BY BaseOf, TrampolineOf
<1>3. ctx.rsp \in {Base(under) + Pushed(v), Base(under) + Pushed(v) + 1}
  BY <1>1 DEF InTrampoline
<1>4. Frame(w, Base(under), under, v)
  <2>1. \A k \in Slot : k <= Base(under) + Pushed(v) => w[k] = m[k]
    BY <1>2, <1>3 DEF SameBelow, Pushed, Bases, Slot, UserTop
  <2> QED
    BY <1>1, <1>2, <2>1, FrameKept DEF Bases
<1>5. InTrampoline(w, ctx.reg, ctx.rsp, ctx.pc, Base(under), Pushed(v), under, v)
  <2>1. ctx.rsp \in Slot
    BY <1>2, <1>3 DEF Pushed, Slot, UserTop
  <2>2. w[ctx.rsp] = m[ctx.rsp]
    BY <1>2, <2>1 DEF SameBelow
  <2> QED
    BY <1>1, <2>2 DEF InTrampoline
<1> QED
  BY <1>4, <1>5 DEF TrampolineContext

-----------------------------------------------------------------------------
(* The invariant                                                           *)

HandlerCode == \/ PushRax \/ LoadVector \/ SwapVector
               \/ Cli \/ LookUp \/ SpillRax \/ TakeVector \/ PutDead \/ UnspillRax
               \/ SaveContext \/ HandleKick \/ HandleException \/ Resume \/ RestoreContext \/ Drop

BaseLabels == {"user", "sc_save", "sc_switch", "sc_push", "sc_body", "sysret"}

LEMMA Labels ==
  /\ Level0 => pc[1] \in BaseLabels
  /\ Level1 \/ Level2 => pc[1] \notin BaseLabels
<1>1. Level0 => pc[1] \in BaseLabels
  BY DEF Level0, AtBase, UserPC, BaseLabels
<1>2. ASSUME NEW ctx, NEW v, InHandler(mem, reg, rsp, pc, ctx, v)
      PROVE  pc[1] \notin BaseLabels
  BY <1>2 DEF InHandler, InTrampoline, InEntry, InC, BaseLabels
<1>3. Level1 => pc[1] \notin BaseLabels
  BY <1>2 DEF Level1
<1>4. Level2 => pc[1] \notin BaseLabels
  BY <1>2 DEF Level2
<1> QED
  BY <1>1, <1>3, <1>4

LEMMA HandlerCodeStep ==
  ASSUME TableRight, EntryInv, HandlerCode
  PROVE  EntryInv'
<1>1. /\ saved' = saved /\ cpl' = cpl /\ user_rsp_slot' = user_rsp_slot
      /\ IF_' = IF_ \/ IF_' = FALSE
      /\ pc'[1] \in Early \/ IF_' = FALSE \/ (pc[1] \notin Early /\ IF_' = IF_)
  <2>1. CASE Trampoline
    BY <2>1 DEF Trampoline, PushRax, LoadVector, SwapVector, Early
  <2>2. CASE Cli \/ LookUp \/ SpillRax \/ TakeVector \/ PutDead \/ UnspillRax
    BY <2>2 DEF Cli, LookUp, SpillRax, TakeVector, PutDead, UnspillRax, Early
  <2>3. CASE SaveContext \/ HandleKick \/ HandleException \/ Resume \/ RestoreContext \/ Drop
    BY <2>3 DEF SaveContext, HandleKick, HandleException, Resume, RestoreContext, Drop, Early
  <2> QED
    BY <2>1, <2>2, <2>3 DEF HandlerCode, Trampoline
<1>2. pc[1] \notin BaseLabels
  BY DEF HandlerCode, PushRax, LoadVector, SwapVector, Cli, LookUp, SpillRax, TakeVector, PutDead,
     UnspillRax, SaveContext, HandleKick, HandleException, Resume, RestoreContext, Drop, BaseLabels
<1>3. apic' \in [irr : BOOLEAN, isr : BOOLEAN] /\ (apic'.irr => IPI \in Vector)
  <2>1. apic' = apic \/ apic' = [apic EXCEPT !.isr = FALSE]
    BY DEF HandlerCode, PushRax, LoadVector, SwapVector, Cli, LookUp, SpillRax, TakeVector, PutDead,
       UnspillRax, SaveContext, HandleKick, HandleException, Resume, RestoreContext, Drop
  <2> QED
    BY <2>1 DEF EntryInv, EntryType
<1>4. Memory(mem)
  BY DEF EntryInv, EntryType
<1>5. ASSUME NEW ctx, NEW v \in Vector, ctx.reg \in [Reg -> Value], Base(ctx) \in Bases,
             InHandler(mem, reg, rsp, pc, ctx, v)
      PROVE  Goes(ctx, v)
  BY <1>4, <1>5, TrampolineStep, EntryStep, HandlerStep DEF HandlerCode, Trampoline
<1>6. CASE Level1
  <2>1. PICK v \in Vector : InHandler(mem, reg, rsp, pc, saved[1], v)
    BY <1>6 DEF Level1
  <2>2. /\ BaseContext(mem, user_rsp_slot, saved[1]) /\ Base(saved[1]) \in Bases
        /\ Base(saved[1]) \in Int /\ saved[1].reg \in [Reg -> Value]
    BY <1>6, BaseOf DEF Level1, Bases
  <2>3. Goes(saved[1], v)
    BY <1>5, <2>1, <2>2
  <2>4. BaseContext(mem', user_rsp_slot, saved[1])
    BY <2>2, <2>3, BaseKept DEF Goes
  <2>5. Level1'
    BY <1>1, <1>6, <2>3, <2>4 DEF Level1, Goes
  <2> QED
    BY <1>1, <1>3, <2>3, <2>5 DEF EntryInv, EntryType, Goes
<1>7. CASE Level2
  <2>1. /\ BaseContext(mem, user_rsp_slot, saved[2]) /\ TrampolineContext(mem, saved[1], saved[2])
        /\ IPI \in Vector /\ InHandler(mem, reg, rsp, pc, saved[1], IPI)
    BY <1>7 DEF Level2
  <2>2. /\ Base(saved[1]) \in Bases /\ saved[1].reg \in [Reg -> Value]
        /\ Base(saved[2]) <= Base(saved[1]) /\ Base(saved[1]) \in Int
    BY <2>1, BaseOf, TrampolineOf DEF Bases
  <2>3. Goes(saved[1], IPI)
    BY <1>5, <2>1, <2>2
  <2>4. BaseContext(mem', user_rsp_slot, saved[2])
    BY <2>1, <2>2, <2>3, BaseKept DEF Goes
  <2>5. TrampolineContext(mem', saved[1], saved[2])
    BY <2>1, <2>3, TrampolineKept DEF Goes
  <2>6. IF_' = FALSE
    BY <1>1, <1>7 DEF Level2
  <2>7. Level2'
    BY <1>1, <1>7, <2>1, <2>3, <2>4, <2>5, <2>6 DEF Level2, Goes
  <2> QED
    BY <1>1, <1>3, <2>3, <2>7 DEF EntryInv, EntryType, Goes
<1> QED
  BY <1>2, <1>6, <1>7, Labels DEF EntryInv

LEMMA IretqStep == ASSUME EntryInv, Iretq PROVE EntryInv'
<1>t. EntryType
  BY DEF EntryInv
<1>1. /\ mem' = mem /\ reg' = reg /\ user_rsp_slot' = user_rsp_slot /\ apic' = apic
      /\ saved' = Tail(saved) /\ pc[1] = "iretq" /\ pc[1] \notin BaseLabels
  BY DEF Iretq, BaseLabels
<1>2. ASSUME NEW ctx, NEW v, InHandler(mem, reg, rsp, pc, ctx, v), Base(ctx) \in Bases
      PROVE  /\ pc' = ctx.pc /\ cpl' = ctx.cpl /\ IF_' = ctx.if /\ rsp' = ctx.rsp
             /\ reg' = ctx.reg
  <2> DEFINE b == Base(ctx)
  <2>1. rsp = b + 5 /\ reg = ctx.reg /\ Frame(mem, b, ctx, v)
    BY <1>1, <1>2 DEF InHandler, InTrampoline, InEntry, InC
  <2> HIDE DEF b
  <2>2. rsp - 1 = b + 4 /\ rsp - 2 = b + 3 /\ rsp - 3 = b + 2
    BY <1>2, <2>1 DEF b, Bases
  <2>3. /\ mem[rsp] = <<"rip", ctx.pc>> /\ mem[rsp - 1] = <<"cs", ctx.cpl>>
        /\ mem[rsp - 2] = <<"rflags", ctx.if>> /\ mem[rsp - 3] = <<"rsp", ctx.rsp>>
    BY <2>1, <2>2 DEF Frame
  <2> QED
    BY <1>1, <2>1, <2>3 DEF Iretq
<1>3. CASE Level1
  <2>1. /\ BaseContext(mem, user_rsp_slot, saved[1]) /\ Base(saved[1]) \in Bases
        /\ \E v \in Vector : InHandler(mem, reg, rsp, pc, saved[1], v)
    BY <1>3, BaseOf DEF Level1, Bases
  <2>2. /\ pc' = saved[1].pc /\ cpl' = saved[1].cpl /\ IF_' = saved[1].if /\ rsp' = saved[1].rsp
        /\ reg' = saved[1].reg
    BY <1>2, <2>1
  <2>3. saved[1].if = TRUE
    BY <2>1 DEF BaseContext
  <2>4. AtBase(mem, saved[1].reg, saved[1].rsp, saved[1].pc, saved[1].cpl, user_rsp_slot)
    BY <2>1 DEF BaseContext
  <2>5. saved' = <<>>
    BY <1>1, <1>3, Saved DEF Level1
  <2>6. Level0'
    BY <1>1, <2>2, <2>3, <2>4, <2>5 DEF Level0
  <2>7. IF_' \in BOOLEAN
    BY <2>2, <2>3
  <2> QED
    BY <1>1, <1>t, <2>6, <2>7 DEF EntryInv, EntryType
<1>4. CASE Level2
  <2>1. /\ BaseContext(mem, user_rsp_slot, saved[2]) /\ TrampolineContext(mem, saved[1], saved[2])
        /\ InHandler(mem, reg, rsp, pc, saved[1], IPI) /\ saved = <<saved[1], saved[2]>>
    BY <1>4 DEF Level2
  <2>2. Base(saved[1]) \in Bases
    BY <2>1, TrampolineOf
  <2>3. /\ pc' = saved[1].pc /\ cpl' = saved[1].cpl /\ IF_' = saved[1].if /\ rsp' = saved[1].rsp
        /\ reg' = saved[1].reg
    BY <1>2, <2>1, <2>2
  <2>4. saved[1].if = TRUE /\ saved[1].cpl = "kern"
    BY <2>1 DEF TrampolineContext
  <2>5. saved' = <<saved[2]>> /\ Len(saved') = 1
    <3>1. ASSUME NEW x, NEW y, saved = <<x, y>> PROVE saved' = <<y>> /\ Len(saved') = 1
      BY <1>1, <3>1, Saved
    <3> QED
      BY <2>1, <3>1
  <2>6. saved'[1] = saved[2]
    BY <2>5
  <2>7. PICK v \in Vector :
          /\ Frame(mem, Base(saved[2]), saved[2], v)
          /\ InTrampoline(mem, saved[1].reg, saved[1].rsp, saved[1].pc, Base(saved[2]), Pushed(v), saved[2], v)
    BY <2>1 DEF TrampolineContext
  <2>8. InHandler(mem', reg', rsp', pc', saved'[1], v)
    BY <1>1, <2>3, <2>6, <2>7 DEF InHandler
  <2>9. pc'[1] \in Early
    BY <2>3, <2>7 DEF InTrampoline, Early
  <2>10. Level1'
    BY <1>1, <2>1, <2>3, <2>4, <2>5, <2>6, <2>8, <2>9 DEF Level1
  <2>11. IF_' \in BOOLEAN
    BY <2>3, <2>4
  <2> QED
    BY <1>1, <1>t, <2>10, <2>11 DEF EntryInv, EntryType
<1> QED
  BY <1>1, <1>3, <1>4, Labels DEF EntryInv

\* Interrupts and exceptions: at the base level, and interrupts in the trampolines.
LEMMA InterruptionStep ==
  ASSUME EntryInv, NEW v \in Vector, Deliver(v), IF_ = TRUE, v # IPI => pc[1] \in BaseLabels,
         apic' \in [irr : BOOLEAN, isr : BOOLEAN], apic'.irr => IPI \in Vector
  PROVE  EntryInv'
<1>t. EntryType
  BY DEF EntryInv
<1>1. /\ saved' = <<Context>> \o saved /\ cpl' = "kern" /\ user_rsp_slot' = user_rsp_slot
      /\ IF_' = (IF_ /\ v < 20) /\ pc' = <<"push_rax", v>> /\ reg' = reg
  BY DEF Deliver
<1>2. IF_' \in BOOLEAN /\ (v = IPI => IF_' = FALSE)
  <2>1. CASE v < 20
    <3>1. v # IPI
      BY <2>1 DEF IPI
    <3>2. IF_' = TRUE
      BY <1>1, <2>1, Zenon
    <3> QED
      BY <3>1, <3>2
  <2>2. CASE ~(v < 20)
    <3>1. IF_' = FALSE
      BY <1>1, <2>2, Zenon
    <3> QED
      BY <3>1
  <2> QED
    BY <2>1, <2>2
<1>3. CASE Level0
  <2>1. BaseContext(mem, user_rsp_slot, Context)
    BY <1>3 DEF BaseContext, Context, Level0
  <2>2. Base(Context) \in Bases /\ Base(Context) \in Int
    BY <2>1, BaseOf DEF Bases
  <2>3. Goes(Context, v)
    BY <1>t, <2>2, DeliverStep DEF EntryType
  <2>4. BaseContext(mem', user_rsp_slot, Context)
    BY <2>1, <2>2, <2>3, BaseKept DEF Goes
  <2>5. saved' = <<Context>> /\ Len(saved') = 1 /\ saved'[1] = Context
    BY <1>1, <1>3, Saved DEF Level0
  <2>6. Level1'
    BY <1>1, <2>3, <2>4, <2>5 DEF Level1, Goes, Early
  <2> QED
    BY <1>1, <1>2, <1>t, <2>3, <2>6 DEF EntryInv, EntryType, Goes
<1>4. CASE Level1
  <2>1. v = IPI /\ IPI \in Vector
    BY <1>4, Labels
  <2>2. /\ BaseContext(mem, user_rsp_slot, saved[1]) /\ cpl = "kern"
        /\ pc[1] \in Early /\ saved = <<saved[1]>>
    BY <1>4 DEF Level1
  <2>3. PICK w \in Vector : InHandler(mem, reg, rsp, pc, saved[1], w)
    BY <1>4 DEF Level1
  <2>4. TrampolineContext(mem, Context, saved[1])
    <3>1. /\ Frame(mem, Base(saved[1]), saved[1], w)
          /\ InTrampoline(mem, reg, rsp, pc, Base(saved[1]), Pushed(w), saved[1], w)
      BY <2>2, <2>3 DEF InHandler, InEntry, InC, Early
    <3> QED
      BY <2>2, <3>1 DEF TrampolineContext, Context
  <2>5. Base(Context) \in Bases /\ Base(Context) \in Int /\ Base(saved[1]) <= Base(Context)
    BY <2>2, <2>4, BaseOf, TrampolineOf DEF Bases
  <2>6. Goes(Context, v)
    BY <1>t, <2>5, DeliverStep DEF EntryType
  <2>7. BaseContext(mem', user_rsp_slot, saved[1])
    BY <2>2, <2>5, <2>6, BaseKept DEF Goes
  <2>8. TrampolineContext(mem', Context, saved[1])
    BY <2>2, <2>4, <2>6, TrampolineKept DEF Goes
  <2>9. saved' = <<Context, saved[1]>> /\ Len(saved') = 2
    <3>1. ASSUME NEW x, saved = <<x>> PROVE saved' = <<Context, x>> /\ Len(saved') = 2
      BY <1>1, <3>1, Saved
    <3> QED
      BY <2>2, <3>1
  <2>10. saved'[1] = Context /\ saved'[2] = saved[1]
    BY <2>9
  <2>11. Level2'
    BY <1>1, <1>2, <2>1, <2>6, <2>7, <2>8, <2>9, <2>10 DEF Level2, Goes
  <2> QED
    BY <1>1, <1>2, <1>t, <2>6, <2>11 DEF EntryInv, EntryType, Goes
<1>5. CASE Level2
  BY <1>5 DEF Level2
<1> QED
  BY <1>3, <1>4, <1>5 DEF EntryInv

LEMMA PushFour ==
  ASSUME NEW p \in Int, NEW vs, DOMAIN vs = 1..4
  PROVE  /\ Memory(Push(p, vs))
         /\ \A k \in Slot : Push(p, vs)[k] = IF p < k /\ k <= p + 4 THEN vs[k - p] ELSE mem[k]
  BY ZenonT(60), PushedWords

\* System calls are code of the base level.
LEMMA SyscallStep == ASSUME EntryInv, SyscallCode PROVE EntryInv'
<1>t. EntryType
  BY DEF EntryInv
<1>1. pc[1] \in BaseLabels
  BY DEF SyscallCode, Syscall, SyscallSaveRsp, SyscallSwitchStack, SyscallPush, SyscallPop, Sysret,
     JumpUsermode, BaseLabels
<1>2. Level0
  BY <1>1, Labels DEF EntryInv
<1>3. saved = <<>> /\ IF_ = TRUE /\ AtBase(mem, reg, rsp, pc, cpl, user_rsp_slot)
  BY <1>2 DEF Level0
<1>4. saved' = <<>> /\ apic' = apic
  BY <1>3 DEF SyscallCode, Syscall, SyscallSaveRsp, SyscallSwitchStack, SyscallPush, SyscallPop, Sysret,
     JumpUsermode
<1>r. {"rax", "rbx", "rbp", "rcx", "r11"} \subseteq Reg
  BY DEF Reg, CallerSaved, SavedRegs
<1>g. ASSUME Memory(mem'), IF_' = TRUE, user_rsp_slot' \in {Top, UserTop},
             AtBase(mem', reg', rsp', pc', cpl', user_rsp_slot')
      PROVE  EntryInv'
  <2>1. Level0'
    BY <1>4, <1>g DEF Level0
  <2> QED
    BY <1>4, <1>t, <1>g, <2>1 DEF EntryInv, EntryType
<1>5. CASE Syscall
  <2>1. reg = Of("user") /\ rsp = UserTop
    BY <1>3, <1>5 DEF Syscall, AtBase, UserPC
  <2>2. /\ mem' = mem /\ rsp' = UserTop /\ IF_' = TRUE /\ user_rsp_slot' = user_rsp_slot
        /\ cpl' = "kern" /\ pc' = <<"sc_save", 0>> /\ reg' = SyscallRegs
    BY <1>3, <1>5, <2>1 DEF Syscall, SyscallRegs
  <2> QED
    BY <1>g, <1>t, <2>2 DEF AtBase, EntryType
<1>6. CASE SyscallSaveRsp
  <2>1. reg = SyscallRegs /\ rsp = UserTop /\ cpl = "kern"
    BY <1>3, <1>6 DEF SyscallSaveRsp, AtBase, UserPC
  <2>2. /\ mem' = mem /\ rsp' = UserTop /\ IF_' = TRUE /\ user_rsp_slot' = UserTop
        /\ cpl' = "kern" /\ pc' = <<"sc_switch", 0>> /\ reg' = SyscallRegs
    BY <1>3, <1>6, <2>1 DEF SyscallSaveRsp
  <2> QED
    BY <1>g, <1>t, <2>2 DEF AtBase, EntryType
<1>7. CASE SyscallSwitchStack
  <2>1. reg = SyscallRegs /\ user_rsp_slot = UserTop /\ cpl = "kern"
    BY <1>3, <1>7 DEF SyscallSwitchStack, AtBase, UserPC
  <2>2. /\ mem' = mem /\ rsp' = Top /\ IF_' = TRUE /\ user_rsp_slot' = UserTop
        /\ cpl' = "kern" /\ pc' = <<"sc_push", 0>> /\ reg' = SyscallRegs
    BY <1>3, <1>7, <2>1 DEF SyscallSwitchStack
  <2> QED
    BY <1>g, <1>t, <2>2 DEF AtBase, EntryType
<1>8. CASE SyscallPush
  <2>1. reg = SyscallRegs /\ user_rsp_slot = UserTop /\ cpl = "kern" /\ rsp = 0 /\ rsp \in Int
    BY <1>3, <1>8 DEF SyscallPush, AtBase, UserPC, Top
  <2>2. /\ reg["rbp"] = <<"user", "rbp">> /\ reg["rcx"] = UserRip /\ reg["r11"] = <<"rflags", TRUE>>
        /\ reg["rbx"] = <<"user", "rbx">>
    BY <1>r, <2>1 DEF SyscallRegs, Of
  <2> DEFINE words == <<<<"rsp", UserTop>>, <<"user", "rbp">>, UserRip, <<"rflags", TRUE>>>>
  <2>3. DOMAIN words = 1..4
    OBVIOUS
  <2>4. /\ words[1] = <<"rsp", UserTop>> /\ words[2] = <<"user", "rbp">>
        /\ words[3] = UserRip /\ words[4] = <<"rflags", TRUE>>
    OBVIOUS
  <2>5. mem' = Push(rsp, words)
    BY <1>8, <2>1, <2>2 DEF SyscallPush
  <2>6. /\ rsp' = 4 /\ IF_' = TRUE /\ user_rsp_slot' = UserTop
        /\ cpl' = "kern" /\ pc' = <<"sc_body", 0>> /\ reg' = BodyRegs
    BY <1>3, <1>8, <2>1, <2>2 DEF SyscallPush, BodyRegs
  <2> HIDE DEF words
  <2>7. /\ Memory(mem')
        /\ \A k \in Slot : mem'[k] = IF rsp < k /\ k <= rsp + 4 THEN words[k - rsp] ELSE mem[k]
    <3>1. rsp \in Int
      BY <2>1
    <3> QED
      BY <2>3, <2>5, <3>1, PushFour
  <2>8. \A k \in 1..4 : mem'[k] = words[k]
    BY <2>1, <2>7 DEF Slot
  <2>9. SyscallFrame(mem')
    <3>1. mem'[1] = words[1] /\ mem'[2] = words[2] /\ mem'[3] = words[3] /\ mem'[4] = words[4]
      BY <2>8
    <3> QED
      BY <2>4, <3>1 DEF SyscallFrame
  <2> QED
    BY <1>g, <2>6, <2>7, <2>9 DEF AtBase
<1>9. CASE SyscallPop
  <2>1. reg = BodyRegs /\ rsp = 4 /\ cpl = "kern" /\ SyscallFrame(mem)
    BY <1>3, <1>9 DEF SyscallPop, AtBase, UserPC
  <2>2. /\ mem[rsp] = <<"rflags", TRUE>> /\ mem[rsp - 1] = UserRip /\ mem[rsp - 2] = <<"user", "rbp">>
        /\ mem[rsp - 3] = <<"rsp", UserTop>>
    BY <2>1 DEF SyscallFrame
  <2>3. /\ mem' = mem /\ rsp' = UserTop /\ IF_' = TRUE /\ user_rsp_slot' = user_rsp_slot
        /\ cpl' = "kern" /\ pc' = <<"sysret", 0>>
    BY <1>3, <1>9, <2>1, <2>2 DEF SyscallPop
  <2>4. reg' = SysretRegs
    BY <1>9, <2>1, <2>2 DEF SyscallPop, SysretRegs
  <2> QED
    BY <1>g, <1>t, <2>3, <2>4 DEF AtBase, EntryType
<1>10. CASE Sysret
  <2>1. reg = SysretRegs /\ rsp = UserTop
    BY <1>3, <1>10 DEF Sysret, AtBase, UserPC
  <2>2. /\ reg["rbp"] = <<"user", "rbp">> /\ reg["rcx"] = UserRip /\ reg["r11"] = <<"rflags", TRUE>>
        /\ reg["rbx"] = <<"user", "rbx">>
    BY <1>r, <2>1 DEF SysretRegs, BodyRegs, Of
  <2>3. reg' = Of("user")
    BY <1>10, <1>r, <2>2 DEF Sysret, Of
  <2>4. /\ mem' = mem /\ rsp' = UserTop /\ user_rsp_slot' = user_rsp_slot
        /\ cpl' = "user" /\ pc' = UserPC
    BY <1>10, <2>1, <2>2 DEF Sysret, UserRip
  <2>5. IF_' = TRUE
    BY <1>10, <2>2 DEF Sysret
  <2> QED
    BY <1>g, <1>t, <2>3, <2>4, <2>5 DEF AtBase, EntryType
<1>11. CASE JumpUsermode
  <2>4. Memory(mem')
    BY <1>11 DEF JumpUsermode, Push, Memory
  <2>5. /\ rsp' = UserTop /\ IF_' = TRUE /\ user_rsp_slot' = user_rsp_slot
        /\ cpl' = "user" /\ pc' = UserPC /\ reg' = Of("user")
    BY <1>11 DEF JumpUsermode
  <2> QED
    BY <1>g, <1>t, <2>4, <2>5 DEF AtBase, EntryType
<1> QED
  BY <1>5, <1>6, <1>7, <1>8, <1>9, <1>10, <1>11 DEF SyscallCode

LEMMA KickStep == ASSUME EntryInv, Kick PROVE EntryInv'
<1>1. UNCHANGED <<mem, rsp, reg, IF_, cpl, pc, user_rsp_slot, saved>>
  BY DEF Kick
<1>2. EntryType /\ apic' \in [irr : BOOLEAN, isr : BOOLEAN] /\ IPI \in Vector
  BY DEF EntryInv, EntryType, Kick
<1>3. EntryType'
  BY <1>1, <1>2 DEF EntryType
<1>4. (Level0 \/ Level1 \/ Level2)'
  BY <1>1 DEF EntryInv, Level0, Level1, Level2
<1> QED
  BY <1>3, <1>4 DEF EntryInv

LEMMA InitEntry == Init => EntryInv
<1> SUFFICES ASSUME Init PROVE EntryInv
  OBVIOUS
<1>1. Memory(mem)
  BY DEF Init, Memory
<1>2. AtBase(mem, reg, rsp, pc, cpl, user_rsp_slot)
  BY DEF Init, AtBase
<1> QED
  BY <1>1, <1>2 DEF Init, EntryInv, EntryType, Level0

LEMMA EntryStepInv == ASSUME TableRight, EntryInv, [Next]_vars PROVE EntryInv'
<1>1. CASE Interrupt
  <2>1. IF_ = TRUE /\ IPI \in Vector
    BY <1>1 DEF Interrupt, EntryInv, EntryType
  <2>2. apic' \in [irr : BOOLEAN, isr : BOOLEAN] /\ apic'.irr = FALSE /\ Deliver(IPI)
    BY <1>1 DEF Interrupt
  <2> QED
    BY <2>1, <2>2, InterruptionStep
<1>2. ASSUME NEW v \in Vector, Exception(v) PROVE EntryInv'
  <2>1. pc[1] \in BaseLabels
    BY <1>2 DEF Exception, BaseLabels
  <2>2. Level0
    BY <2>1, Labels DEF EntryInv
  <2>3. /\ apic' \in [irr : BOOLEAN, isr : BOOLEAN] /\ (apic'.irr => IPI \in Vector)
        /\ Deliver(v) /\ IF_ = TRUE
    BY <1>2, <2>2 DEF Exception, EntryInv, EntryType, Level0
  <2> QED
    BY <2>1, <2>3, InterruptionStep
<1>3. CASE UNCHANGED vars
  BY <1>3 DEF vars, EntryInv, EntryType, Level0, Level1, Level2
<1> QED
  BY <1>1, <1>2, <1>3, HandlerCodeStep, IretqStep, SyscallStep, KickStep
  DEF Next, EntryCode, Trampoline, HandlerCode

LEMMA EntryInvariant == TableRight => (Spec => []EntryInv)
<1> SUFFICES ASSUME TableRight PROVE Spec => []EntryInv
  OBVIOUS
<1>1. Init => EntryInv
  BY InitEntry
<1>2. EntryInv /\ [Next]_vars => EntryInv'
  BY EntryStepInv
<1> QED
  BY <1>1, <1>2, PTL DEF Spec

-----------------------------------------------------------------------------
(* Theorems                                                                *)

\* The activation that runs, if it is the handler of an interruption.
LEMMA Handling ==
  ASSUME EntryInv, pc[1] \notin BaseLabels
  PROVE  /\ Base(saved[1]) \in Bases /\ saved[1].reg \in [Reg -> Value] /\ cpl = "kern" /\ Len(saved) \in {1, 2}
         /\ \E v \in Vector : InHandler(mem, reg, rsp, pc, saved[1], v)
<1>1. Level1 \/ Level2
  BY Labels DEF EntryInv
<1>2. CASE Level1
  <2>1. BaseContext(mem, user_rsp_slot, saved[1])
    BY <1>2 DEF Level1
  <2>2. Base(saved[1]) \in Bases /\ saved[1].reg \in [Reg -> Value]
    BY <2>1, BaseOf DEF Bases
  <2> QED
    BY <1>2, <2>2 DEF Level1
<1>3. CASE Level2
  <2>1. BaseContext(mem, user_rsp_slot, saved[2]) /\ TrampolineContext(mem, saved[1], saved[2])
    BY <1>3 DEF Level2
  <2>2. Base(saved[1]) \in Bases /\ saved[1].reg \in [Reg -> Value]
    BY <2>1, TrampolineOf
  <2> QED
    BY <1>3, <2>2 DEF Level2
<1> QED
  BY <1>1, <1>2, <1>3

LEMMA FrameOfHandler == ASSUME TableRight, EntryInv PROVE HandlerFrame
<1> SUFFICES ASSUME At("handler") PROVE HandlerFrame
  BY DEF HandlerFrame
<1> DEFINE ctx == saved[1]
<1> DEFINE b == Base(ctx)
<1>1. pc[1] \notin BaseLabels
  BY DEF BaseLabels
<1>2. PICK v \in Vector : InHandler(mem, reg, rsp, pc, ctx, v)
  BY <1>1, Handling
<1>3. b \in Bases
  BY <1>1, Handling
<1>4. rsp = b + 16 /\ Numbered(mem, b, v) /\ Frame(mem, b, ctx, v)
  BY <1>2 DEF InHandler, InTrampoline, InEntry, InC
<1> HIDE DEF ctx, b
<1>5. /\ rsp - 9 = b + 7 /\ rsp - 9 - 1 = b + 6 /\ rsp - 9 - 2 = b + 5 /\ rsp - 9 - 3 = b + 4
      /\ rsp - 9 - 4 = b + 3 /\ rsp - 9 - 5 = b + 2
  BY <1>3, <1>4 DEF Bases
<1>6. mem[rsp - 9] = <<"vector", v>> /\ mem[rsp - 9][1] = "vector" /\ mem[rsp - 9][2] = v
  BY <1>4, <1>5 DEF Numbered
<1>7. mem[rsp - 9 - 1] = <<"error", IF v \in ErrorVector THEN v ELSE Dead>>
  BY <1>4, <1>5 DEF Numbered
<1>8. /\ mem[rsp - 9 - 2] = <<"rip", ctx.pc>> /\ mem[rsp - 9 - 3] = <<"cs", ctx.cpl>>
      /\ mem[rsp - 9 - 4] = <<"rflags", ctx.if>> /\ mem[rsp - 9 - 5] = <<"rsp", ctx.rsp>>
  BY <1>4, <1>5 DEF Frame
<1> QED
  BY <1>6, <1>7, <1>8 DEF HandlerFrame, ctx

LEMMA ContextOfIretq == ASSUME EntryInv PROVE ContextRestored
<1> SUFFICES ASSUME At("iretq") PROVE ContextRestored
  BY DEF ContextRestored
<1> DEFINE ctx == saved[1]
<1> DEFINE b == Base(ctx)
<1>1. pc[1] \notin BaseLabels
  BY DEF BaseLabels
<1>2. PICK v \in Vector : InHandler(mem, reg, rsp, pc, ctx, v)
  BY <1>1, Handling
<1>3. b \in Bases
  BY <1>1, Handling
<1>4. rsp = b + 5 /\ reg = ctx.reg /\ Frame(mem, b, ctx, v)
  BY <1>2 DEF InHandler, InTrampoline, InEntry, InC
<1> HIDE DEF ctx, b
<1>5. rsp - 1 = b + 4 /\ rsp - 2 = b + 3 /\ rsp - 3 = b + 2
  BY <1>3, <1>4 DEF Bases
<1>6. /\ mem[rsp] = <<"rip", ctx.pc>> /\ mem[rsp - 1] = <<"cs", ctx.cpl>>
      /\ mem[rsp - 2] = <<"rflags", ctx.if>> /\ mem[rsp - 3] = <<"rsp", ctx.rsp>>
  BY <1>4, <1>5 DEF Frame
<1> QED
  BY <1>4, <1>6 DEF ContextRestored, ctx

LEMMA ReturnOfSyscall == ASSUME EntryInv PROVE SyscallReturns
<1> SUFFICES ASSUME At("sysret") PROVE SyscallReturns
  BY DEF SyscallReturns
<1>1. Level0
  BY Labels DEF EntryInv, BaseLabels
<1>2. rsp = UserTop /\ reg = SysretRegs
  BY <1>1 DEF Level0, AtBase, UserPC
<1>3. {"rbx", "rbp", "rcx", "r11"} \subseteq Reg
  BY DEF Reg, CallerSaved, SavedRegs
<1>4. /\ reg["rbp"] = <<"user", "rbp">> /\ reg["rcx"] = UserRip /\ reg["r11"] = <<"rflags", TRUE>>
      /\ reg["rbx"] = <<"user", "rbx">>
  BY <1>2, <1>3 DEF SysretRegs, BodyRegs, Of
<1> QED
  BY <1>2, <1>4 DEF SyscallReturns

LEMMA EntryTyped == ASSUME EntryInv PROVE TypeOK
<1> DEFINE T == {Garbage, UserRip} \cup {<<"rflags", x>> : x \in BOOLEAN}
                \cup {<<w, r>> : w \in {"user", "kern"}, r \in Reg} \cup {<<"vector", v>> : v \in Vector}
<1>1. Value \subseteq T
  <2>1. ASSUME NEW t \in BOOLEAN PROVE <<"rflags", t>> \in {<<"rflags", x>> : x \in BOOLEAN}
    OBVIOUS
  <2> DEFINE flags == {<<"rflags", x>> : x \in BOOLEAN}
  <2> DEFINE words == {<<w, r>> : w \in {"user", "kern"}, r \in Reg}
  <2> DEFINE vectors == {<<"vector", v>> : v \in Vector}
  <2>2. <<"rflags", TRUE>> \in flags
    BY <2>1, Zenon
  <2>3. Value = {Garbage, UserRip, <<"rflags", TRUE>>} \cup words \cup vectors
    BY DEF Value
  <2>4. T = {Garbage, UserRip} \cup flags \cup words \cup vectors
    OBVIOUS
  <2> HIDE DEF T, flags, words, vectors
  <2> QED
    BY <2>2, <2>3, <2>4
<1> HIDE DEF T
<1>2. /\ IF_ \in BOOLEAN /\ user_rsp_slot \in {Top, UserTop} /\ apic \in [irr : BOOLEAN, isr : BOOLEAN]
  BY DEF EntryInv, EntryType
<1>3. ASSUME rsp \in {Top, UserTop} \cup Slot, reg \in [Reg -> Value], cpl \in {"user", "kern"},
             Len(saved) <= 2, cpl = "user" => rsp = UserTop /\ pc = UserPC
      PROVE  TypeOK
  <2>1. reg \in [Reg -> T]
    BY <1>1, <1>3
  <2> QED
    BY <1>2, <1>3, <2>1 DEF TypeOK, T
<1>4. CASE pc[1] \in BaseLabels
  <2>1. Level0
    BY <1>4, Labels DEF EntryInv
  <2>2. Len(saved) <= 2
    BY <2>1 DEF Level0
  <2>3. AtBase(mem, reg, rsp, pc, cpl, user_rsp_slot)
    BY <2>1 DEF Level0
  <2>4. /\ rsp \in {Top, UserTop, 4} /\ cpl \in {"user", "kern"} /\ reg \in [Reg -> Value]
        /\ cpl = "user" => rsp = UserTop /\ pc = UserPC
    BY <2>3, BaseRegs DEF AtBase
  <2> QED
    BY <1>3, <2>2, <2>4 DEF Slot
<1>5. CASE pc[1] \notin BaseLabels
  <2> DEFINE ctx == saved[1]
  <2> DEFINE b == Base(ctx)
  <2>1. PICK v \in Vector : InHandler(mem, reg, rsp, pc, ctx, v)
    BY <1>5, Handling
  <2>2. b \in Bases /\ ctx.reg \in [Reg -> Value] /\ cpl = "kern" /\ Len(saved) \in {1, 2}
    BY <1>5, Handling
  <2>3. rsp \in {b + 5, b + 6, b + 7, b + 16}
    <3>1. Pushed(v) \in {5, 6} /\ b \in Int
      BY <2>2 DEF Pushed, Bases
    <3>2. rsp \in {b + Pushed(v), b + Pushed(v) + 1, b + 5, b + 6, b + 7, b + 16}
      BY <2>1 DEF InHandler, InTrampoline, InEntry, InC
    <3> HIDE DEF b
    <3> QED
      BY <3>1, <3>2
  <2>4. reg \in [Reg -> Value]
    <3>1. \/ reg = ctx.reg
          \/ \E x \in {<<"vector", v>>, ctx.reg["rbx"]} : reg = [ctx.reg EXCEPT !["rax"] = x]
          \/ reg = [x \in Reg |-> IF x \in CallerSaved THEN Garbage ELSE ctx.reg[x]]
      BY <2>1 DEF InHandler, InTrampoline, InEntry, InC
    <3>2. "rbx" \in Reg /\ <<"vector", v>> \in Value /\ Garbage \in Value
      BY DEF Value, Reg
    <3>3. ctx.reg["rbx"] \in Value
      BY <2>2, <3>2
    <3> QED
      BY <2>2, <3>1, <3>2, <3>3
  <2>5. rsp \in Slot
    BY <2>2, <2>3 DEF Bases, Slot, UserTop
  <2>6. rsp \in {Top, UserTop} \cup Slot
    BY <2>5
  <2>7. Len(saved) <= 2
    <3>1. Len(saved) \in {1, 2}
      BY <1>5, Handling
    <3> HIDE DEF ctx, b
    <3>2. \A n \in {1, 2} : n <= 2
      OBVIOUS
    <3> QED
      BY <3>1, <3>2
  <2>8. cpl = "kern"
    BY <2>2
  <2> QED
    BY <1>3, <2>4, <2>6, <2>7, <2>8
<1> QED
  BY <1>4, <1>5

\* The stack pointer stays on a stack, interrupts nest at most twice, and user code runs on
\* the user's stack.
THEOREM TypeCorrect == TableRight => (Spec => []TypeOK)
<1> SUFFICES ASSUME TableRight PROVE Spec => []TypeOK
  OBVIOUS
<1>1. EntryInv => TypeOK
  BY EntryTyped
<1> QED
  BY <1>1, EntryInvariant, PTL

\* If no_err_code lists the vectors that come with an error code, the handler always gets
\* the vector, the error code and the place that was interrupted where it expects them.
THEOREM FramesHaveOneForm == TableRight => (Spec => []HandlerFrame)
<1> SUFFICES ASSUME TableRight PROVE Spec => []HandlerFrame
  OBVIOUS
<1>1. EntryInv => HandlerFrame
  BY FrameOfHandler
<1> QED
  BY <1>1, EntryInvariant, PTL

\* The code that is interrupted gets all its registers, its stack and its flags back.
THEOREM ContextsRestored == TableRight => (Spec => []ContextRestored)
<1> SUFFICES ASSUME TableRight PROVE Spec => []ContextRestored
  OBVIOUS
<1>1. EntryInv => ContextRestored
  BY ContextOfIretq
<1> QED
  BY <1>1, EntryInvariant, PTL

\* A system call that returns gives the caller its stack, rbp and rbx back.
THEOREM SyscallsReturn == TableRight => (Spec => []SyscallReturns)
<1> SUFFICES ASSUME TableRight PROVE Spec => []SyscallReturns
  OBVIOUS
<1>1. EntryInv => SyscallReturns
  BY ReturnOfSyscall
<1> QED
  BY <1>1, EntryInvariant, PTL

=============================================================================
