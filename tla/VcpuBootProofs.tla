---------------------------- MODULE VcpuBootProofs ----------------------------
(***************************************************************************)
(* Theorems about VcpuBoot for a pool of any size up to the bits of a      *)
(* word: the descriptor tables are right whatever vcpus run at the same    *)
(* time.  For pools smaller than a word, the barrier of main() waits for   *)
(* every vcpu and the scheduler starts from the truth.                     *)
(***************************************************************************)
EXTENDS VcpuBoot, FiniteSetTheorems, TLAPS

USE PoolAssumption DEF Go, idt, seg, pool, Cpu, Slot, AllBits, BeforeLidt, TssPC, UserGdtPC, InitDone

\* vcpu 0 fills the IDT, before the others are started; it alone goes through the barrier and
\* to sched().
Roles ==
  /\ pc[0] # "wait_idt"
  /\ pc[0] = "reset" <=> fill_idt_lock_grab = 1
  /\ pc[0] \in {"reset", "fill_idt", "send_init"} => started = {0}
  /\ pc[0] \notin {"reset", "fill_idt"} <=> idt_filled
  /\ \A c \in Cpu :
       /\ pc[c] # "reset" => c \in started
       /\ pc[c] \in {"fill_idt", "send_init", "set_flag", "and_barrier", "clear_own", "barrier",
                     "init_pre", "init_post", "sched"} => c = 0
       /\ pc[c] \in {"arrive", "hlt"} => c # 0

\* The descriptor of a vcpu is written only by the holder of the mutex.
TssOK == \A c \in Cpu : /\ pc[c] \in TssPC => mutex = {c}
                        /\ pc[c] = "ltr" => gdt[c] = Lo(c) /\ gdt[c + 1] = Hi(c)

\* A user segment is incomplete only while a vcpu rewrites it, or before the first has done so.
BeforeCs == BeforeLidt \cup {"lock_tss"} \cup TssPC \cup {"clear_cs"}
BeforeDs == BeforeCs \cup {"fill_cs", "clear_ds"}
SegmentsOK ==
  /\ user_cs \/ (\E c \in Cpu : pc[c] = "fill_cs") \/ (\A c \in Cpu : pc[c] \in BeforeCs)
  /\ user_ds \/ (\E c \in Cpu : pc[c] = "fill_ds") \/ (\A c \in Cpu : pc[c] \in BeforeDs)

\* num_free_vcpu counts vcpu 0, from scheduler_init_pre on.
FreeOK == num_free_vcpu = IF pc[0] \in {"init_post", "sched"} THEN 1 ELSE 0

BootInv == TypeOK /\ Roles /\ TssOK /\ SegmentsOK /\ FreeOK

\* A vcpu whose bit is clear has arrived; behind the barrier all others have, and those that
\* are halted are the inactive ones.
BarrierOK ==
  /\ \A c \in Cpu \ {0} : c \notin barrier_bm => pc[c] = "hlt"
  /\ pc[0] \in {"init_pre", "init_post", "sched"} =>
       \A c \in Cpu \ {0} : pc[c] = "hlt"
  /\ pc[0] \in {"init_post", "sched"} => bm_inactive_vcpus = {c \in Cpu : pc[c] = "hlt"}

-----------------------------------------------------------------------------
(* Any pool                                                                *)

LEMMA BootInvInit == Init => BootInv
<1> SUFFICES ASSUME Init PROVE BootInv
  OBVIOUS
<1> QED
  <2>1. TypeOK
    <3>1. 0 \in Cpu /\ 0 \in 0..PoolSz
      OBVIOUS
    <3>2. pc \in [Cpu -> BeforeLidt] /\ gdt \in [Slot -> {Zero}]
      BY DEF Init
    <3>3. fill_idt_lock_grab \in 0..2 /\ started \subseteq Cpu /\ mutex \subseteq Cpu
      BY <3>1 DEF Init
    <3>5. idt_filled \in BOOLEAN /\ user_cs \in BOOLEAN /\ user_ds \in BOOLEAN
      BY Zenon DEF Init
    <3>4. barrier_bm \subseteq AllBits /\ bm_inactive_vcpus \subseteq Cpu /\ num_free_vcpu \in {0, 1}
      BY <3>1 DEF Init
    <3>6. Filling = {}
      BY DEF Init, Filling
    <3>7. ~idt_filled /\ fill_idt_lock_grab = 1
      BY DEF Init
    <3> QED
      BY <3>2, <3>3, <3>4, <3>5, <3>6, <3>7 DEF TypeOK
  <2>2. Roles /\ TssOK /\ SegmentsOK
    BY DEF Init, Roles, TssOK, SegmentsOK, BeforeCs, BeforeDs
  <2>3. FreeOK
    BY DEF Init, FreeOK
  <2> QED
    BY <2>1, <2>2, <2>3 DEF BootInv

LEMMA RolesStep == ASSUME BootInv, Next PROVE Roles'
<1> USE DEF BootInv, TypeOK, Roles
<1>1. ASSUME NEW c \in Cpu, Boot(c) PROVE Roles'
  BY <1>1 DEF Boot, LockGrab, FillIdt, SendInitStartup, SetFlag, WaitForFillIdt, Lidt
<1>2. ASSUME NEW c \in Cpu, InitBoot(c) PROVE Roles'
  BY <1>2 DEF InitBoot, LockTss, ClearTss, FillTss, Ltr, UnlockTss, FillUserModeGdt
<1>3. ASSUME NEW c \in Cpu, Main(c) PROVE Roles'
  BY <1>3 DEF Main, Arrive, AndBarrier, ClearOwn, LeaveBarrier, SchedulerInitPre, SchedulerInitPost
<1> QED
  BY <1>1, <1>2, <1>3 DEF Next

LEMMA TssStep == ASSUME BootInv, Next PROVE TssOK'
<1> USE DEF BootInv, TypeOK, TssOK
<1>1. ASSUME NEW c \in Cpu, Boot(c) PROVE TssOK'
  BY <1>1 DEF Boot, LockGrab, FillIdt, SendInitStartup, SetFlag, WaitForFillIdt, Lidt
<1>2. ASSUME NEW c \in Cpu, InitBoot(c) PROVE TssOK'
  <2>1. CASE LockTss(c)
    BY <2>1 DEF LockTss
  <2>2. CASE ClearTss(c)
    <3>1. \A d \in Cpu : d # c => pc[d] \notin TssPC
      BY <2>2 DEF ClearTss
    <3> QED
      BY <2>2, <3>1 DEF ClearTss
  <2>3. CASE FillTss(c)
    <3>1. \A d \in Cpu : d # c => pc[d] \notin TssPC
      BY <2>3 DEF FillTss
    <3>2. gdt'[c] = Lo(c) /\ gdt'[c + 1] = Hi(c)
      BY <2>3 DEF FillTss
    <3> QED
      BY <2>3, <3>1, <3>2 DEF FillTss
  <2>4. CASE Ltr(c) \/ UnlockTss(c)
    BY ZenonT(60), <2>4 DEF Ltr, UnlockTss
  <2>5. CASE FillUserModeGdt(c)
    BY <2>5 DEF FillUserModeGdt
  <2> QED
    BY <1>2, <2>1, <2>2, <2>3, <2>4, <2>5 DEF InitBoot
<1>3. ASSUME NEW c \in Cpu, Main(c) PROVE TssOK'
  BY <1>3 DEF Main, Arrive, AndBarrier, ClearOwn, LeaveBarrier, SchedulerInitPre, SchedulerInitPost
<1> QED
  BY <1>1, <1>2, <1>3 DEF Next

LEMMA SegmentsStep == ASSUME BootInv, Next PROVE SegmentsOK'
<1> USE DEF BootInv, TypeOK, SegmentsOK, BeforeCs, BeforeDs
<1>1. ASSUME NEW c \in Cpu, Boot(c) PROVE SegmentsOK'
  BY SMTT(30), <1>1 DEF Boot, LockGrab, FillIdt, SendInitStartup, SetFlag, WaitForFillIdt, Lidt
<1>2. ASSUME NEW c \in Cpu, InitBoot(c) PROVE SegmentsOK'
  <2>1. CASE LockTss(c) \/ ClearTss(c) \/ FillTss(c) \/ Ltr(c) \/ UnlockTss(c)
    BY ZenonT(60), <2>1 DEF LockTss, ClearTss, FillTss, Ltr, UnlockTss
  <2>2. CASE FillUserModeGdt(c)
    BY SMTT(30), <2>2 DEF FillUserModeGdt
  <2> QED
    BY <1>2, <2>1, <2>2 DEF InitBoot
<1>3. ASSUME NEW c \in Cpu, Main(c) PROVE SegmentsOK'
  BY <1>3 DEF Main, Arrive, AndBarrier, ClearOwn, LeaveBarrier, SchedulerInitPre, SchedulerInitPost
<1> QED
  BY <1>1, <1>2, <1>3 DEF Next

LEMMA FreeStep == ASSUME BootInv, Next PROVE FreeOK'
<1> USE DEF BootInv, TypeOK, Roles, FreeOK
<1>1. ASSUME NEW c \in Cpu, Boot(c) \/ InitBoot(c) PROVE FreeOK'
  BY <1>1 DEF Boot, LockGrab, FillIdt, SendInitStartup, SetFlag, WaitForFillIdt, Lidt,
              InitBoot, LockTss, ClearTss, FillTss, Ltr, UnlockTss, FillUserModeGdt
<1>2. ASSUME NEW c \in Cpu, Main(c) PROVE FreeOK'
  BY <1>2 DEF Main, Arrive, AndBarrier, ClearOwn, LeaveBarrier, SchedulerInitPre, SchedulerInitPost
<1> QED
  BY <1>1, <1>2 DEF Next

\* Nobody or vcpu 0 alone fills the IDT.
LEMMA FillingIs ==
  ASSUME Roles
  PROVE  IF pc[0] = "fill_idt" THEN Filling = {0} /\ Cardinality(Filling) = 1 ELSE Filling = {}
<1>1. CASE pc[0] = "fill_idt"
  <2>1. Filling = {0}
    BY <1>1 DEF Roles, Filling
  <2> QED
    BY <1>1, <2>1, FS_Singleton
<1>2. CASE pc[0] # "fill_idt"
  BY <1>2 DEF Roles, Filling
<1> QED
  BY <1>1, <1>2

\* Exactly one vcpu fills the IDT.
FillOK ==
  IF idt_filled THEN Filling = {} ELSE (Filling = {} /\ fill_idt_lock_grab = 1) \/ Cardinality(Filling) = 1

LEMMA FillOnce == Roles => FillOK
BY FillingIs DEF FillOK, Roles

LEMMA TypeStep == ASSUME BootInv, Next, FreeOK', Roles' PROVE TypeOK'
<1> USE DEF BootInv, TypeOK
<1>1. num_free_vcpu' \in {0, 1} /\ FillOK'
  <2>1. num_free_vcpu' \in {0, 1}
    BY DEF FreeOK
  <2>2. FillOK'
    BY FillOnce, PTL
  <2> QED
    BY <2>1, <2>2
<1> USE DEF FillOK
<1>2. ASSUME NEW c \in Cpu, Boot(c) PROVE TypeOK'
  <2>1. CASE LockGrab(c)
    BY <1>1, <2>1 DEF LockGrab
  <2>2. CASE FillIdt(c)
    BY <1>1, <2>2 DEF FillIdt
  <2>4. CASE SendInitStartup(c)
    BY <1>1, <2>4 DEF SendInitStartup
  <2>5. CASE SetFlag(c)
    BY <1>1, <2>5 DEF SetFlag
  <2>3. CASE WaitForFillIdt(c) \/ Lidt(c)
    BY <1>1, <2>3 DEF WaitForFillIdt, Lidt
  <2> QED
    BY <1>2, <2>1, <2>2, <2>3, <2>4, <2>5 DEF Boot
<1>3. ASSUME NEW c \in Cpu, InitBoot(c) PROVE TypeOK'
  <2>1. CASE LockTss(c)
    BY <1>1, <2>1 DEF LockTss
  <2>2. CASE ClearTss(c)
    BY <1>1, <2>2 DEF ClearTss
  <2>3. CASE FillTss(c)
    BY <1>1, <2>3 DEF FillTss
  <2>4. CASE Ltr(c) \/ UnlockTss(c)
    BY <1>1, <2>4 DEF Ltr, UnlockTss
  <2>5. CASE FillUserModeGdt(c)
    BY <1>1, <2>5 DEF FillUserModeGdt
  <2> QED
    BY <1>3, <2>1, <2>2, <2>3, <2>4, <2>5 DEF InitBoot
<1>4. ASSUME NEW c \in Cpu, Main(c) PROVE TypeOK'
  <2>1. CASE SchedulerInitPre(c)
    <3>1. PoolMask \subseteq Cpu
      BY DEF PoolMask
    <3> QED
      BY <1>1, <2>1, <3>1 DEF SchedulerInitPre
  <2>2. CASE Arrive(c) \/ AndBarrier(c) \/ ClearOwn(c) \/ LeaveBarrier(c) \/ SchedulerInitPost(c)
    BY <1>1, <2>2 DEF Arrive, AndBarrier, ClearOwn, LeaveBarrier, SchedulerInitPost
  <2> QED
    BY <1>4, <2>1, <2>2 DEF Main
<1> QED
  BY <1>2, <1>3, <1>4 DEF Next

LEMMA BootInvStep == BootInv /\ [Next]_vars => BootInv'
<1> SUFFICES ASSUME BootInv, [Next]_vars PROVE BootInv'
  OBVIOUS
<1>1. CASE UNCHANGED vars
  BY <1>1 DEF vars, BootInv, TypeOK, Roles, TssOK, SegmentsOK, FreeOK, Filling
<1>2. CASE Next
  BY <1>2, TypeStep, RolesStep, TssStep, SegmentsStep, FreeStep DEF BootInv
<1> QED
  BY <1>1, <1>2

LEMMA BootInvKept == Spec => []BootInv
<1> QED
  BY BootInvInit, BootInvStep, PTL DEF Spec

\* The variables keep their types, and exactly one vcpu fills the IDT.
THEOREM TypeCorrect == Spec => []TypeOK
<1>1. BootInv => TypeOK
  BY DEF BootInv
<1> QED
  BY <1>1, BootInvKept, PTL

\* No vcpu loads an IDT that is not filled, and one vcpu fills it, although the loop that
\* waits for it tests the flag the wrong way round (boot.S:508-543).
THEOREM IdtFilled == Spec => []IdtFilledBeforeUse
<1>1. BootInv => IdtFilledBeforeUse
  <2> SUFFICES ASSUME BootInv PROVE IdtFilledBeforeUse
    OBVIOUS
  <2> USE DEF BootInv, Roles
  <2>1. ASSUME NEW c \in Cpu, pc[c] \notin BeforeLidt \/ pc[c] = "lidt" PROVE idt_filled
    <3>1. CASE pc[0] \in {"reset", "fill_idt"}
      <4>1. c = 0
        BY <2>1, <3>1
      <4> QED
        BY <2>1, <3>1, <4>1
    <3>2. CASE pc[0] \notin {"reset", "fill_idt"}
      BY <3>2
    <3> QED
      BY <3>1, <3>2
  <2>2. ASSUME NEW c \in Cpu, NEW d \in Cpu,
               pc[c] = "fill_idt", pc[d] \in {"fill_idt", "send_init", "set_flag"}
        PROVE  c = d
    BY <2>2
  <2> QED
    BY <2>1, <2>2 DEF IdtFilledBeforeUse
<1> QED
  BY <1>1, BootInvKept, PTL

\* ltr finds the vcpu's own descriptor, complete, in a pool of any size (main.c:385-399,
\* boot.S:279-286).
THEOREM LtrRight == Spec => []LtrReadsOwn
<1>1. BootInv => LtrReadsOwn
  BY DEF BootInv, TssOK, LtrReadsOwn
<1> QED
  BY <1>1, BootInvKept, PTL

-----------------------------------------------------------------------------
(* A pool smaller than a word: the masks of the pool are right.            *)

LEMMA BarrierInit == Init => BarrierOK
BY DEF Init, BarrierOK

LEMMA BarrierStep ==
  ASSUME PoolSz < WordBits, BootInv, BarrierOK, [Next]_vars PROVE BarrierOK'
<1> USE DEF BootInv, TypeOK, Roles, BarrierOK
<1>1. CASE UNCHANGED vars
  BY <1>1 DEF vars
<1>2. ASSUME NEW c \in Cpu, Boot(c) PROVE BarrierOK'
  BY <1>2 DEF Boot, LockGrab, FillIdt, SendInitStartup, SetFlag, WaitForFillIdt, Lidt
<1>3. ASSUME NEW c \in Cpu, InitBoot(c) PROVE BarrierOK'
  BY SMTT(30), <1>3 DEF InitBoot, LockTss, ClearTss, FillTss, Ltr, UnlockTss, FillUserModeGdt
<1>4. ASSUME NEW c \in Cpu, Main(c) PROVE BarrierOK'
  <2>1. PoolMask = Cpu
    BY DEF PoolMask
  <2>2. CASE Arrive(c)
    BY <2>2 DEF Arrive
  <2>3. CASE AndBarrier(c)
    BY <2>1, <2>3 DEF AndBarrier
  <2>4. CASE ClearOwn(c)
    BY <2>4 DEF ClearOwn
  <2>5. CASE LeaveBarrier(c)
    BY <2>5 DEF LeaveBarrier
  <2>6. CASE SchedulerInitPre(c)
    BY <2>1, <2>6 DEF SchedulerInitPre
  <2>7. CASE SchedulerInitPost(c)
    BY <2>7 DEF SchedulerInitPost
  <2> QED
    BY <1>4, <2>2, <2>3, <2>4, <2>5, <2>6, <2>7 DEF Main
<1> QED
  BY <1>1, <1>2, <1>3, <1>4 DEF Next

LEMMA BarrierKept == ASSUME PoolSz < WordBits PROVE Spec => []BarrierOK
<1>1. BootInv /\ BarrierOK /\ [Next]_vars => BarrierOK'
  BY BarrierStep
<1> QED
  BY <1>1, BarrierInit, BootInvKept, PTL DEF Spec

\* In a pool smaller than a word vcpu 0 leaves the barrier of main() only when every vcpu has
\* finished init_boot, so that the user segments are complete when the first function is
\* entered.  With PoolSz = WordBits the mask is empty and TLC shows that this fails
\* (main.c:143-178, 280-294).
THEOREM BarrierWaits == PoolSz < WordBits => (Spec => []BarrierWaitsForAll)
<1> SUFFICES ASSUME PoolSz < WordBits PROVE Spec => []BarrierWaitsForAll
  OBVIOUS
<1>1. BootInv /\ BarrierOK => BarrierWaitsForAll
  <2> SUFFICES ASSUME BootInv, BarrierOK, NEW c \in Cpu, pc[c] \in {"init_pre", "init_post", "sched"}
               PROVE  user_cs /\ user_ds /\ \A d \in Cpu : pc[d] \in InitDone
    BY DEF BarrierWaitsForAll
  <2>1. pc[0] \in {"init_pre", "init_post", "sched"}
    BY DEF BootInv, Roles
  <2>2. \A d \in Cpu : pc[d] \in InitDone
    BY <2>1 DEF BarrierOK
  <2>3. user_cs /\ user_ds
    BY <2>2 DEF BootInv, SegmentsOK, BeforeCs, BeforeDs
  <2> QED
    BY <2>2, <2>3
<1> QED
  BY <1>1, BootInvKept, BarrierKept, PTL

\* In a pool smaller than a word the idle set and the count that the scheduler starts from
\* are the truth (sched.c:36-64).
THEOREM HandOver == PoolSz < WordBits => (Spec => []HandsOver)
<1> SUFFICES ASSUME PoolSz < WordBits PROVE Spec => []HandsOver
  OBVIOUS
<1>1. BootInv /\ BarrierOK => HandsOver
  <2> SUFFICES ASSUME BootInv, BarrierOK, pc[0] = "sched" PROVE HandsOver
    BY DEF HandsOver
  <2>1. {c \in Cpu : pc[c] = "sched"} = {0}
    BY DEF BootInv, Roles
  <2>2. num_free_vcpu = Cardinality({c \in Cpu : pc[c] = "sched"})
    BY <2>1, FS_Singleton DEF BootInv, FreeOK
  <2>3. bm_inactive_vcpus = {c \in Cpu : pc[c] = "hlt"}
    BY DEF BarrierOK
  <2> QED
    BY <2>2, <2>3 DEF HandsOver
<1> QED
  BY <1>1, BootInvKept, BarrierKept, PTL

=============================================================================
