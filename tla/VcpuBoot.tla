------------------------------ MODULE VcpuBoot ------------------------------
(***************************************************************************)
(* From reset to sched(): how the vcpus share the filling of the IDT       *)
(* (src/src/boot.S), the one GDT (init_boot in src/src/main.c) and the     *)
(* barrier of main(), up to the state module Sched starts from.            *)
(*                                                                         *)
(* External: the VMM starts vcpu 0; the others run after the INIT and      *)
(* STARTUP interrupts of vcpu 0.                                           *)
(***************************************************************************)
EXTENDS Integers, FiniteSets

CONSTANTS
  PoolSz,          \* pool_sz, the number of vcpus
  WordBits         \* bits of a word, 64

ASSUME PoolAssumption == PoolSz \in 1..WordBits /\ WordBits \in Nat

Cpu == 0..PoolSz - 1
AllBits == 0..WordBits - 1

VARIABLES
  fill_idt_lock_grab,  \* 1, 0 or 2
  idt_filled,
  started,             \* the vcpus that have left reset
  mutex,               \* mutex_tss_fill_flush, 0 or 1 << id: here the set of its bits
  gdt,                 \* the 8-byte slots of the GDT from slot 5 on
  user_cs, user_ds,    \* are gdt[4] and gdt[3] complete descriptors?
  barrier_bm,
  bm_inactive_vcpus,
  num_free_vcpu,
  pc

idt  == <<fill_idt_lock_grab, idt_filled, started>>
seg  == <<mutex, gdt, user_cs, user_ds>>
pool == <<barrier_bm, bm_inactive_vcpus, num_free_vcpu>>
vars == <<idt, seg, pool, pc>>

\* The 16-byte TSS descriptor of vcpu c occupies slots c and c+1: it overlaps the next one.
Slot == 0..PoolSz
Zero == <<"zero", 0>>
Lo(c) == <<"lo", c>>
Hi(c) == <<"hi", c>>

Init ==
  /\ fill_idt_lock_grab = 1 /\ idt_filled = FALSE
  /\ started = {0}
  /\ mutex = {}
  /\ gdt = [k \in Slot |-> Zero]
  /\ user_cs = FALSE /\ user_ds = FALSE
  /\ barrier_bm = AllBits
  /\ bm_inactive_vcpus = {} /\ num_free_vcpu = 0
  /\ pc = [c \in Cpu |-> "reset"]

Go(c, from, to) == pc[c] = from /\ pc' = [pc EXCEPT ![c] = to]

\* (1 << pool_sz) - 1 in a register: the shift count is taken modulo the word.
PoolMask == 0..(PoolSz % WordBits) - 1

-----------------------------------------------------------------------------
(* Faulty variants, see the properties.                                    *)

LockTssFree(c) ==
  /\ Go(c, "lock_tss", "clear_tss")
  /\ mutex' = {c}
  /\ UNCHANGED <<idt, gdt, user_cs, user_ds, pool>>

\* The others are started first, and the flag alone holds them back.
LockGrabStarts(c) ==
  /\ c \in started
  /\ Go(c, "reset", IF fill_idt_lock_grab = 1 THEN "fill_idt" ELSE "wait_idt")
  /\ fill_idt_lock_grab' = 0
  /\ started' = Cpu
  /\ UNCHANGED <<idt_filled, seg, pool>>

\* The flag is read and not exchanged.
LockGrabReads(c) ==
  /\ c \in started
  /\ Go(c, "reset", IF fill_idt_lock_grab = 1 THEN "fill_idt" ELSE "wait_idt")
  /\ UNCHANGED <<idt, seg, pool>>

LeaveBarrierNow(c) == Go(c, "barrier", "init_pre") /\ UNCHANGED <<idt, seg, pool>>

InitPreNoReset(c) ==
  /\ Go(c, "init_pre", "init_post")
  /\ bm_inactive_vcpus' = PoolMask
  /\ num_free_vcpu' = 1
  /\ UNCHANGED <<idt, seg, barrier_bm>>

-----------------------------------------------------------------------------
(* boot.S, long_mode                                                       *)

\* Up to here everything is the vcpu's own: its stack, its segment and control registers.
\* xchgq of 0 with fill_idt_lock_grab: the first vcpu gets the 1.
LockGrab(c) ==
  /\ c \in started
  /\ Go(c, "reset", IF fill_idt_lock_grab = 1 THEN "fill_idt" ELSE "wait_idt")
  /\ fill_idt_lock_grab' = 0
  /\ UNCHANGED <<idt_filled, started, seg, pool>>

FillIdt(c) ==
  /\ Go(c, "fill_idt", "send_init")
  /\ idt_filled' = TRUE
  /\ UNCHANGED <<fill_idt_lock_grab, started, seg, pool>>

\* send_init_startup_to_all, then outw MSG_SENT_INIT_START
SendInitStartup(c) ==
  /\ Go(c, "send_init", "set_flag")
  /\ started' = Cpu
  /\ UNCHANGED <<fill_idt_lock_grab, idt_filled, seg, pool>>

SetFlag(c) ==
  /\ Go(c, "set_flag", "lidt")
  /\ fill_idt_lock_grab' = 2
  /\ UNCHANGED <<idt_filled, started, seg, pool>>

\* testq $2; je skip: the loop is left when the bit is clear.
WaitForFillIdt(c) ==
  /\ fill_idt_lock_grab # 2
  /\ Go(c, "wait_idt", "lidt")
  /\ UNCHANGED <<idt, seg, pool>>

Lidt(c) == Go(c, "lidt", "lock_tss") /\ UNCHANGED <<idt, seg, pool>>

-----------------------------------------------------------------------------
(* init_boot()                                                             *)

LockTss(c) ==
  /\ mutex = {}
  /\ Go(c, "lock_tss", "clear_tss")
  /\ mutex' = {c}
  /\ UNCHANGED <<idt, gdt, user_cs, user_ds, pool>>

\* fill_tss: memset of the descriptor, then its fields
ClearTss(c) ==
  /\ Go(c, "clear_tss", "fill_tss")
  /\ gdt' = [gdt EXCEPT ![c] = Zero, ![c + 1] = Zero]
  /\ UNCHANGED <<idt, mutex, user_cs, user_ds, pool>>

FillTss(c) ==
  /\ Go(c, "fill_tss", "ltr")
  /\ gdt' = [gdt EXCEPT ![c] = Lo(c), ![c + 1] = Hi(c)]
  /\ UNCHANGED <<idt, mutex, user_cs, user_ds, pool>>

\* flush_tss: ltr reads the descriptor and caches it.
Ltr(c) == Go(c, "ltr", "unlock_tss") /\ UNCHANGED <<idt, seg, pool>>

UnlockTss(c) ==
  /\ Go(c, "unlock_tss", "clear_cs")
  /\ mutex' = {}
  /\ UNCHANGED <<idt, gdt, user_cs, user_ds, pool>>

\* fill_user_mode_gdt, outside the mutex: every vcpu writes the same two descriptors.
FillUserModeGdt(c) ==
  /\ \/ Go(c, "clear_cs", "fill_cs") /\ user_cs' = FALSE /\ UNCHANGED user_ds
     \/ Go(c, "fill_cs", "clear_ds") /\ user_cs' = TRUE /\ UNCHANGED user_ds
     \/ Go(c, "clear_ds", "fill_ds") /\ user_ds' = FALSE /\ UNCHANGED user_cs
     \/ /\ Go(c, "fill_ds", IF c = 0 THEN "and_barrier" ELSE "arrive")
        /\ user_ds' = TRUE /\ UNCHANGED user_cs
  /\ UNCHANGED <<idt, mutex, gdt, pool>>

-----------------------------------------------------------------------------
(* main()                                                                  *)

\* The other vcpus clear their bit and halt; they may do so before vcpu 0 has cut the
\* word down to the pool.
Arrive(c) ==
  /\ Go(c, "arrive", "hlt")
  /\ barrier_bm' = barrier_bm \ {c}
  /\ UNCHANGED <<idt, seg, bm_inactive_vcpus, num_free_vcpu>>

AndBarrier(c) ==
  /\ Go(c, "and_barrier", "clear_own")
  /\ barrier_bm' = barrier_bm \cap PoolMask
  /\ UNCHANGED <<idt, seg, bm_inactive_vcpus, num_free_vcpu>>

ClearOwn(c) ==
  /\ Go(c, "clear_own", "barrier")
  /\ barrier_bm' = barrier_bm \ {c}
  /\ UNCHANGED <<idt, seg, bm_inactive_vcpus, num_free_vcpu>>

\* Until the word is 0, vcpu 0 yields to a vcpu that has not arrived.
LeaveBarrier(c) ==
  /\ barrier_bm = {}
  /\ Go(c, "barrier", "init_pre")
  /\ UNCHANGED <<idt, seg, pool>>

\* bm_inactive_vcpus: the mask of the pool, then lock btrq of bit 0
SchedulerInitPre(c) ==
  /\ Go(c, "init_pre", "init_post")
  /\ bm_inactive_vcpus' = PoolMask \ {0}
  /\ num_free_vcpu' = 1
  /\ UNCHANGED <<idt, seg, barrier_bm>>

\* outw MSG_BOOTED and scheduler_init_post; then sched().
\* The other vcpus stay in their hlt until it kicks them, which is module Sched's.
SchedulerInitPost(c) == Go(c, "init_post", "sched") /\ UNCHANGED <<idt, seg, pool>>

Boot(c) == LockGrab(c) \/ FillIdt(c) \/ SendInitStartup(c) \/ SetFlag(c) \/ WaitForFillIdt(c)
           \/ Lidt(c)
InitBoot(c) == LockTss(c) \/ ClearTss(c) \/ FillTss(c) \/ Ltr(c) \/ UnlockTss(c)
               \/ FillUserModeGdt(c)
Main(c) == Arrive(c) \/ AndBarrier(c) \/ ClearOwn(c) \/ LeaveBarrier(c) \/ SchedulerInitPre(c)
           \/ SchedulerInitPost(c)

Next == \E c \in Cpu : Boot(c) \/ InitBoot(c) \/ Main(c)

Spec == Init /\ [][Next]_vars

\* Every vcpu keeps executing; the mutex is taken a bounded number of times.
FairSpec == Spec /\ \A c \in Cpu : WF_vars(Boot(c) \/ InitBoot(c) \/ Main(c))

-----------------------------------------------------------------------------
(* Properties                                                              *)

BeforeLidt == {"reset", "fill_idt", "send_init", "set_flag", "wait_idt", "lidt"}
TssPC == {"clear_tss", "fill_tss", "ltr", "unlock_tss"}
UserGdtPC == {"clear_cs", "fill_cs", "clear_ds", "fill_ds"}
InitDone == {"arrive", "and_barrier", "clear_own", "barrier", "init_pre", "init_post", "hlt",
             "sched"}

\* The variables keep their types, and exactly one vcpu fills the IDT: as long as it is not
\* filled, either nobody has taken the 1 of the flag, or one vcpu is at it (boot.S:509-518).
Filling == {c \in Cpu : pc[c] = "fill_idt"}
TypeOK ==
  /\ IF idt_filled THEN Filling = {}
     ELSE (Filling = {} /\ fill_idt_lock_grab = 1) \/ Cardinality(Filling) = 1
  /\ fill_idt_lock_grab \in 0..2 /\ idt_filled \in BOOLEAN /\ started \subseteq Cpu
  /\ mutex \subseteq Cpu
  /\ gdt \in [Slot -> {Zero} \cup {Lo(c) : c \in Cpu} \cup {Hi(c) : c \in Cpu}]
  /\ user_cs \in BOOLEAN /\ user_ds \in BOOLEAN
  /\ barrier_bm \subseteq AllBits /\ bm_inactive_vcpus \subseteq Cpu /\ num_free_vcpu \in {0, 1}
  /\ pc \in [Cpu -> BeforeLidt \cup {"lock_tss"} \cup TssPC \cup UserGdtPC \cup InitDone]

\* No vcpu loads an IDT that is not filled, although the wait loop lets a vcpu through
\* while the flag is still 0: the other vcpus start only after the filling (boot.S:508-543).
IdtFilledBeforeUse ==
  /\ \A c \in Cpu : pc[c] \notin BeforeLidt \/ pc[c] = "lidt" => idt_filled
  /\ \A c, d \in Cpu : pc[c] = "fill_idt" /\ pc[d] \in {"fill_idt", "send_init", "set_flag"} => c = d

\* ltr finds the vcpu's own, complete descriptor, although the descriptor overlaps those of
\* its neighbours and any of them may be writing (main.c:385-399, boot.S:279-286).
LtrReadsOwn == \A c \in Cpu : pc[c] = "ltr" => gdt[c] = Lo(c) /\ gdt[c + 1] = Hi(c)

\* When vcpu 0 leaves the barrier every vcpu has finished init_boot, so the user segments,
\* which each vcpu zeroes and rewrites without a lock, are complete from then on and the
\* first jump to user mode finds them (main.c:143-178, 280-294, boot.S:242-255).
BarrierWaitsForAll ==
  \A c \in Cpu : pc[c] \in {"init_pre", "init_post", "sched"} =>
    /\ user_cs /\ user_ds
    /\ \A d \in Cpu : pc[d] \in InitDone

\* What Sched!Init takes for granted: when vcpu 0 calls sched(), the inactive vcpus are the
\* halted ones, or about to halt, all others among them, and only vcpu 0 is counted as free
\* (sched.c:36-64, main.c:143-178).
HandsOver ==
  pc[0] = "sched" =>
    /\ bm_inactive_vcpus = {c \in Cpu : pc[c] = "hlt"}
    /\ num_free_vcpu = Cardinality({c \in Cpu : pc[c] = "sched"})

\* A vcpu that waits for the IDT goes on once the flag says that it is filled.
WaitersProceed ==
  \A c \in Cpu : (pc[c] = "wait_idt" /\ fill_idt_lock_grab = 2) ~> pc[c] # "wait_idt"

=============================================================================
