------------------------------ MODULE IntEntry ------------------------------
(***************************************************************************)
(* How a vcpu enters and leaves the kernel (src/src/boot.S): the interrupt *)
(* trampolines and int_expt_handler_64, which bring the frames of all      *)
(* vectors to one form, and __syscall_entry.  set_syscall_msrs masks no    *)
(* flag, exceptions come through trap gates: the interrupt 0x40 may nest   *)
(* until cli is executed, on whatever stack rsp points to.                 *)
(*                                                                         *)
(* External: what the processor pushes and pops, user code, and the VMM,   *)
(* which may resume a vcpu that has written to PORT_HLT.                   *)
(***************************************************************************)
EXTENDS Integers, Sequences

CONSTANTS
  Vector,        \* the vectors that occur
  ErrorVector    \* those for which the processor pushes an error code

IPI == 64        \* 0x40, the only maskable interrupt, and the only vector whose handler returns

ASSUME VectorAssumption == Vector \subseteq 0..255 /\ ErrorVector \subseteq Vector

VARIABLES
  mem,    \* the 8-byte words of the stacks; a stack grows to higher indices
  rsp,    \* index of the last word pushed
  reg,    \* the general registers
  IF_,    \* interrupt flag
  cpl,    \* "user" or "kern"
  pc,     \* <<label, vector>>: every vector has its own trampoline
  user_rsp_slot,  \* syscall_user_stack of this vcpu
  apic,   \* interrupt 0x40 in the local APIC: requested, in service
  saved   \* history: the contexts interrupted, the last one first

vars == <<mem, rsp, reg, IF_, cpl, pc, user_rsp_slot, saved, apic>>

\* The kernel stack is empty when rsp = Top, user functions run with rsp = UserTop.
Top == 0
UserTop == 100
Slot == 1..60 \cup UserTop + 1..UserTop + 40

SavedRegs == <<"rax", "rcx", "rdx", "rsi", "rdi", "r8", "r9", "r10", "r11">>
Restored  == <<"r11", "r10", "r9", "r8", "rdi", "rsi", "rdx", "rcx", "rax">>
CallerSaved == {SavedRegs[i] : i \in DOMAIN SavedRegs}
Reg == CallerSaved \cup {"rbx", "rbp"}

Dead == 57005        \* 0xdead
Garbage == <<"garbage", 0>>
Of(who) == [r \in Reg |-> <<who, r>>]
UserPC == <<"user", 0>>
UserRip == <<"rip", UserPC>>

Init ==
  /\ mem = [k \in Slot |-> Garbage]
  /\ rsp = UserTop
  /\ reg = Of("user")
  /\ IF_ = TRUE
  /\ cpl = "user"
  /\ pc = UserPC
  /\ user_rsp_slot = Top
  /\ saved = <<>>
  /\ apic = [irr |-> FALSE, isr |-> FALSE]

At(label) == pc[1] = label
Goto(label) == pc' = <<label, 0>>

\* The words vs pushed on a stack whose last word is at p.
Push(p, vs) == [k \in Slot |-> IF k - p \in DOMAIN vs THEN vs[k - p] ELSE mem[k]]

Context == [reg |-> reg, rsp |-> rsp, if |-> IF_, cpl |-> cpl, pc |-> pc]

-----------------------------------------------------------------------------
(* Faulty variants, see the properties.                                    *)

CliDropped == At("cli") /\ Goto("look_up") /\ UNCHANGED <<mem, rsp, reg, IF_, cpl, user_rsp_slot, saved, apic>>

\* The interrupt is not ended.
HandleKickNoEoi ==
  /\ At("handler") /\ mem[rsp - 9][2] = IPI /\ Goto("restore")
  /\ reg' = [r \in Reg |-> IF r \in CallerSaved THEN Garbage ELSE reg[r]]
  /\ UNCHANGED <<mem, rsp, IF_, cpl, user_rsp_slot, saved, apic>>

\* The test of no_err_code is inverted.
LookUpInverted ==
  /\ At("look_up")
  /\ mem' = Push(rsp, <<reg["rax"], reg["rbx"]>>)
  /\ IF mem[rsp][2] \in {8, 10, 11, 12, 13, 14, 17, 21} THEN Goto("spill_rax") ELSE Goto("save")
  /\ UNCHANGED <<rsp, reg, IF_, cpl, user_rsp_slot, saved, apic>>

\* The stack is switched before the user's is saved.
SyscallSaveLate ==
  /\ At("sc_save") /\ Goto("sc_switch")
  /\ user_rsp_slot' = Top
  /\ UNCHANGED <<mem, rsp, reg, IF_, cpl, saved, apic>>

-----------------------------------------------------------------------------
(* The processor delivers an interrupt or an exception.                    *)

\* From user mode on the stack of the TSS, otherwise on the stack in use, aligned to 16
\* bytes.  Vectors 0..19 have trap gates, which leave the interrupt flag alone.
Deliver(v) ==
  LET base == IF cpl = "user" THEN Top ELSE rsp + (rsp % 2)
      frame == <<<<"ss", cpl>>, <<"rsp", rsp>>, <<"rflags", IF_>>, <<"cs", cpl>>, <<"rip", pc>>>>
               \o (IF v \in ErrorVector THEN <<<<"error", v>>>> ELSE <<>>)
  IN /\ mem' = Push(base, frame)
     /\ rsp' = base + Len(frame)
     /\ cpl' = "kern"
     /\ IF_' = (IF_ /\ v < 20)
     /\ pc' = <<"push_rax", v>>
     /\ saved' = <<Context>> \o saved
     /\ UNCHANGED <<reg, user_rsp_slot>>

\* Another vcpu or the VMM sends the interrupt; requests are not counted.
Kick ==
  /\ IPI \in Vector
  /\ apic' = [apic EXCEPT !.irr = TRUE]
  /\ UNCHANGED <<mem, rsp, reg, IF_, cpl, pc, user_rsp_slot, saved>>

\* The APIC holds a request back until the one in service is ended.
Interrupt ==
  /\ IF_ /\ apic.irr /\ ~apic.isr
  /\ Deliver(IPI)
  /\ apic' = [irr |-> FALSE, isr |-> TRUE]

\* Only user code and the body of a system call raise exceptions.
Exception(v) == v # IPI /\ (At("user") \/ At("sc_body")) /\ Deliver(v) /\ UNCHANGED apic

-----------------------------------------------------------------------------
(* int_expt_trampoline, one for each vector                                *)

PushRax ==
  /\ At("push_rax") /\ pc' = <<"load_vector", pc[2]>>
  /\ mem' = Push(rsp, <<reg["rax"]>>)
  /\ rsp' = rsp + 1
  /\ UNCHANGED <<reg, IF_, cpl, user_rsp_slot, saved, apic>>

LoadVector ==
  /\ At("load_vector") /\ Goto("swap_vector")
  /\ reg' = [reg EXCEPT !["rax"] = <<"vector", pc[2]>>]
  /\ UNCHANGED <<mem, rsp, IF_, cpl, user_rsp_slot, saved, apic>>

\* xchgq %rax, (%rsp)
SwapVector ==
  /\ At("swap_vector") /\ Goto("cli")
  /\ mem' = [mem EXCEPT ![rsp] = reg["rax"]]
  /\ reg' = [reg EXCEPT !["rax"] = mem[rsp]]
  /\ UNCHANGED <<rsp, IF_, cpl, user_rsp_slot, saved, apic>>

-----------------------------------------------------------------------------
(* int_expt_handler_64                                                     *)

Cli ==
  /\ At("cli") /\ Goto("look_up")
  /\ IF_' = FALSE
  /\ UNCHANGED <<mem, rsp, reg, cpl, user_rsp_slot, saved, apic>>

\* no_err_code[v] = 0
PushedErrorCode(v) == v \in {8, 10, 11, 12, 13, 14, 17, 21}

\* rax and rbx are pushed, no_err_code is looked up with them, and they are popped.
LookUp ==
  /\ At("look_up")
  /\ mem' = Push(rsp, <<reg["rax"], reg["rbx"]>>)
  /\ IF PushedErrorCode(mem[rsp][2]) THEN Goto("save") ELSE Goto("spill_rax")
  /\ UNCHANGED <<rsp, reg, IF_, cpl, user_rsp_slot, saved, apic>>

\* xchgq %rax, -16(%rsp): below the stack pointer, where an interrupt would push.
SpillRax ==
  /\ At("spill_rax") /\ Goto("take_vector")
  /\ mem' = [mem EXCEPT ![rsp + 2] = reg["rax"]]
  /\ reg' = [reg EXCEPT !["rax"] = mem[rsp + 2]]
  /\ UNCHANGED <<rsp, IF_, cpl, user_rsp_slot, saved, apic>>

TakeVector ==
  /\ At("take_vector") /\ Goto("put_dead")
  /\ reg' = [reg EXCEPT !["rax"] = mem[rsp]]
  /\ UNCHANGED <<mem, rsp, IF_, cpl, user_rsp_slot, saved, apic>>

PutDead ==
  /\ At("put_dead") /\ Goto("unspill_rax")
  /\ mem' = Push(rsp - 1, <<<<"error", Dead>>, reg["rax"]>>)
  /\ rsp' = rsp + 1
  /\ UNCHANGED <<reg, IF_, cpl, user_rsp_slot, saved, apic>>

\* xchgq %rax, -8(%rsp)
UnspillRax ==
  /\ At("unspill_rax") /\ Goto("save")
  /\ mem' = [mem EXCEPT ![rsp + 1] = reg["rax"]]
  /\ reg' = [reg EXCEPT !["rax"] = mem[rsp + 1]]
  /\ UNCHANGED <<rsp, IF_, cpl, user_rsp_slot, saved, apic>>

SaveContext ==
  /\ At("save") /\ Goto("handler")
  /\ mem' = Push(rsp, [i \in 1..9 |-> reg[SavedRegs[i]]])
  /\ rsp' = rsp + 9
  /\ UNCHANGED <<reg, IF_, cpl, user_rsp_slot, saved, apic>>

\* The vector in the frame of the handler
HandledVector == mem[rsp - 9][2]

\* A C function may change the registers its caller saves.
Clobbered == [r \in Reg |-> IF r \in CallerSaved THEN Garbage ELSE reg[r]]

\* high_interrupt_handler ends the interrupt 0x40 in the APIC and returns.
HandleKick ==
  /\ At("handler") /\ HandledVector = IPI /\ Goto("restore")
  /\ apic' = [apic EXCEPT !.isr = FALSE]
  /\ reg' = Clobbered
  /\ UNCHANGED <<mem, rsp, IF_, cpl, user_rsp_slot, saved>>

\* The functions that high_interrupt_handler calls: they print, pic_handler and test_ipi end
\* an interrupt, but vector 0x40 never gets here, and disable_pic masks the PIC's.
int_func[v \in 0..255] ==
  CASE v = 14 -> "page_fault_handler"
    [] v \in {32, 33} -> "pic_handler"
    [] v = IPI -> "test_ipi"
    [] v = 128 -> "handler_0x80"
    [] v = 129 -> "handler_0x81"
    [] v = 130 -> "handler_0x82"
    [] OTHER -> "null_func"

\* Every other vector stops the vcpu: handler_0x81 executes hlt with interrupts off, which
\* nothing ends, and after the other functions halt() calls the VMM.
HandleException ==
  /\ At("handler") /\ HandledVector # IPI
  /\ Goto(IF int_func[HandledVector] = "handler_0x81" THEN "hlt" ELSE "halted")
  /\ reg' = Clobbered
  /\ UNCHANGED <<mem, rsp, IF_, cpl, user_rsp_slot, saved, apic>>

\* The VMM lets the vcpu go on.
Resume ==
  /\ At("halted") /\ Goto("restore")
  /\ UNCHANGED <<mem, rsp, reg, IF_, cpl, user_rsp_slot, saved, apic>>

RestoreContext ==
  /\ At("restore") /\ Goto("drop")
  /\ reg' = [r \in Reg |-> IF r \in CallerSaved
                             THEN mem[rsp + 1 - (CHOOSE i \in 1..9 : Restored[i] = r)]
                             ELSE reg[r]]
  /\ rsp' = rsp - 9
  /\ UNCHANGED <<mem, IF_, cpl, user_rsp_slot, saved, apic>>

\* addq $16, %rsp
Drop ==
  /\ At("drop") /\ Goto("iretq")
  /\ rsp' = rsp - 2
  /\ UNCHANGED <<mem, reg, IF_, cpl, user_rsp_slot, saved, apic>>

Iretq ==
  /\ At("iretq")
  /\ pc' = mem[rsp][2]
  /\ cpl' = mem[rsp - 1][2]
  /\ IF_' = mem[rsp - 2][2]
  /\ rsp' = mem[rsp - 3][2]
  /\ saved' = Tail(saved)
  /\ UNCHANGED <<mem, reg, user_rsp_slot, apic>>

-----------------------------------------------------------------------------
(* System calls                                                            *)

\* syscall: the return address goes to rcx, the flags to r11; SFMASK is 0.
Syscall ==
  /\ At("user") /\ Goto("sc_save")
  /\ reg' = [reg EXCEPT !["rcx"] = UserRip, !["r11"] = <<"rflags", IF_>>]
  /\ cpl' = "kern"
  /\ UNCHANGED <<mem, rsp, IF_, user_rsp_slot, saved, apic>>

\* From here to sc_switch the kernel runs on the user's stack.
SyscallSaveRsp ==
  /\ At("sc_save") /\ Goto("sc_switch")
  /\ user_rsp_slot' = rsp
  /\ UNCHANGED <<mem, rsp, reg, IF_, cpl, saved, apic>>

SyscallSwitchStack ==
  /\ At("sc_switch") /\ Goto("sc_push")
  /\ rsp' = Top
  /\ UNCHANGED <<mem, reg, IF_, cpl, user_rsp_slot, saved, apic>>

SyscallPush ==
  /\ At("sc_push") /\ Goto("sc_body")
  /\ mem' = Push(rsp, <<<<"rsp", user_rsp_slot>>, reg["rbp"], reg["rcx"], reg["r11"]>>)
  /\ rsp' = rsp + 4
  /\ reg' = [Of("kern") EXCEPT !["rbx"] = reg["rbx"]]
  /\ UNCHANGED <<IF_, cpl, user_rsp_slot, saved, apic>>

\* fin_syscall, when syscall_entry or the VMM has returned
SyscallPop ==
  /\ At("sc_body") /\ Goto("sysret")
  /\ reg' = [reg EXCEPT !["r11"] = mem[rsp], !["rcx"] = mem[rsp - 1], !["rbp"] = mem[rsp - 2]]
  /\ rsp' = mem[rsp - 3][2]
  /\ UNCHANGED <<mem, IF_, cpl, user_rsp_slot, saved, apic>>

\* The user code sees rax and the argument registers changed.
Sysret ==
  /\ At("sysret") /\ pc' = reg["rcx"][2]
  /\ IF_' = reg["r11"][2]
  /\ cpl' = "user"
  /\ reg' = [Of("user") EXCEPT !["rbp"] = reg["rbp"], !["rbx"] = reg["rbx"]]
  /\ UNCHANGED <<mem, rsp, user_rsp_slot, saved, apic>>

\* Call 0x20a does not return: sched() leaves by jump_usermode, whose five pushes and iretq
\* start a function with a fresh stack and interrupts enabled.
JumpUsermode ==
  /\ At("sc_body") /\ pc' = UserPC
  /\ mem' = Push(rsp, <<<<"ss", "user">>, <<"rsp", UserTop>>, <<"rflags", TRUE>>, <<"cs", "user">>,
                        UserRip>>)
  /\ rsp' = UserTop
  /\ IF_' = TRUE
  /\ cpl' = "user"
  /\ reg' = Of("user")
  /\ UNCHANGED <<user_rsp_slot, saved, apic>>

Trampoline == PushRax \/ LoadVector \/ SwapVector
EntryCode == Cli \/ LookUp \/ SpillRax \/ TakeVector \/ PutDead \/ UnspillRax \/ SaveContext
             \/ HandleKick \/ HandleException \/ RestoreContext \/ Drop \/ Iretq
SyscallCode == Syscall \/ SyscallSaveRsp \/ SyscallSwitchStack \/ SyscallPush \/ SyscallPop
               \/ Sysret \/ JumpUsermode

Next == Kick \/ Interrupt \/ (\E v \in Vector : Exception(v)) \/ Resume \/ Trampoline \/ EntryCode
        \/ SyscallCode

Spec == Init /\ [][Next]_vars

\* A vcpu executes instructions, and takes a pending interrupt before the next one.
FairSpec == Spec /\ WF_vars(Trampoline \/ EntryCode) /\ SF_vars(Interrupt)

-----------------------------------------------------------------------------
(* Properties                                                              *)

\* The handler gets a frame of one form, whether or not the processor pushed an error code,
\* and finds in it the vector, the error code and the place that was interrupted
\* (boot.S:580-598, 628-633, interrupt.c:8-16).
HandlerFrame ==
  At("handler") =>
    LET ctx == saved[1]
        rdi == rsp - 9
        v == mem[rdi][2]
    IN /\ mem[rdi][1] = "vector"
       /\ mem[rdi - 1] = <<"error", IF v \in ErrorVector THEN v ELSE Dead>>
       /\ mem[rdi - 2] = <<"rip", ctx.pc>>
       /\ mem[rdi - 3] = <<"cs", ctx.cpl>>
       /\ mem[rdi - 4] = <<"rflags", ctx.if>>
       /\ mem[rdi - 5] = <<"rsp", ctx.rsp>>

\* iretq gives the interrupted code everything back, although the entry code keeps rax
\* below the stack pointer for a while and may itself be interrupted (boot.S:580-604).
ContextRestored ==
  At("iretq") =>
    LET ctx == saved[1]
    IN /\ reg = ctx.reg
       /\ mem[rsp] = <<"rip", ctx.pc>>
       /\ mem[rsp - 1] = <<"cs", ctx.cpl>>
       /\ mem[rsp - 2] = <<"rflags", ctx.if>>
       /\ mem[rsp - 3] = <<"rsp", ctx.rsp>>

\* A system call that returns does so on the user's stack, with its rbp and rbx, to the
\* instruction after the call, whatever interrupted it, also while the kernel still runs
\* on the user's stack (boot.S:176-228).
SyscallReturns ==
  At("sysret") =>
    /\ rsp = UserTop
    /\ reg["rbp"] = <<"user", "rbp">> /\ reg["rbx"] = <<"user", "rbx">>
    /\ reg["rcx"] = UserRip /\ reg["r11"] = <<"rflags", TRUE>>

\* A vcpu that is not stopped by an exception takes every kick, also one that arrives while
\* an earlier one is handled: the handler has ended that one by the time interrupts are
\* enabled again (interrupt.c:34-39, boot.S:581, 604).
KickTaken == []<>~At("halted") => (apic.irr ~> ~apic.irr)

\* The variables keep their types; interrupts nest at most twice, and user code runs on its
\* own stack.
TypeOK ==
  /\ rsp \in {Top, UserTop} \cup Slot
  /\ reg \in [Reg -> {Garbage, UserRip} \cup {<<"rflags", b>> : b \in BOOLEAN}
                     \cup {<<w, r>> : w \in {"user", "kern"}, r \in Reg}
                     \cup {<<"vector", v>> : v \in Vector}]
  /\ IF_ \in BOOLEAN /\ cpl \in {"user", "kern"}
  /\ user_rsp_slot \in {Top, UserTop}
  /\ Len(saved) <= 2
  /\ apic \in [irr : BOOLEAN, isr : BOOLEAN]
  /\ cpl = "user" => rsp = UserTop /\ pc = UserPC

=============================================================================
