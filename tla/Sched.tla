-------------------------------- MODULE Sched --------------------------------
(***************************************************************************)
(* The dag scheduler of src/src/sched.c: every vcpu of the pool runs       *)
(* sched() on the same memory.  One action is one access to shared memory  *)
(* (most of them lock-prefixed instructions), so TLC interleaves the vcpus *)
(* exactly where the hardware may.                                         *)
(*                                                                         *)
(* External, modelled from how sched.c uses it: the hypervisor's kick      *)
(* (KVM_HC_KICK_CPU) leaves a wake-up token that hlt consumes, the VMM     *)
(* answers MSG_WAITING_FOR_WORK with the next input, a user function ends  *)
(* with system call 0x20a.                                                 *)
(***************************************************************************)
EXTENDS Integers, FiniteSets

CONSTANTS
  Cpu,               \* the vcpus of the pool
  Cpu0,              \* the vcpu that runs scheduler_init_pre and _post
  Fn,                \* the functions of the dag
  Start,             \* metadata->start_func
  Succ,              \* Succ[f]: the out edges of f in metadata->dag
  Word,              \* Word[f]: the 64-bit word of bm_run_fn that holds f's bit
  LastWord,          \* MAX_FUNC/64 - 1
  Null,              \* NULL_FUNC, and the absence of a vcpu
  SpuriousWakeUps,   \* may hlt return although nobody kicked the vcpu?
  KickMayBeLost,     \* may a kick fail to wake the vcpu?
  RekickThdPasses,   \* may a kicked vcpu stay asleep longer than rekick_thd?
  UserFaults         \* may a user function raise an exception?

Pred(g) == {f \in Fn : g \in Succ[f]}
InCount(g) == Cardinality(Pred(g))     \* the in-degrees at the head of metadata->dag

ASSUME CpuAssumption == IsFiniteSet(Cpu) /\ Cpu0 \in Cpu /\ Null \notin Cpu
ASSUME FnAssumption ==
  /\ IsFiniteSet(Fn) /\ Start \in Fn /\ Null \notin Fn
  /\ Succ \in [Fn -> SUBSET Fn]
  /\ Pred(Start) = {}
  /\ \A f \in Fn \ {Start} : Pred(f) # {}
ASSUME WordAssumption == LastWord \in Nat /\ Word \in [Fn -> 0..LastWord]
ASSUME EnvAssumption ==
  {SpuriousWakeUps, KickMayBeLost, RekickThdPasses, UserFaults} \subseteq BOOLEAN

VARIABLES
  \* the run queue and the dag
  bm_run_fn,        \* set of runnable functions
  runnable_tasks,   \* their number, as counted by the vcpus
  dag_in_count,     \* metadata->dag_in_count
  num_fin_fn,       \* functions whose completion has been processed
  current,          \* metadata->current[id]
  \* the idle vcpus
  num_free_vcpu,    \* vcpus that look for work, or have been kicked to do so
  bm_inactive_vcpus,
  bm_kicked_vcpus,
  hlt_after_kick,   \* hlt_ts[id] > kick_ts[id]
  kick_pending,     \* hypervisor: the kick a vcpu has not yet consumed
  \* how many vcpus are still to be woken, and the snapshots they are taken from
  wake_num_vcpu,
  sig_wake_num_vcpu_is_0,
  ss_reflective_bm,
  ss_reflective_bm1,
  \* control and local variables of each vcpu
  pc,
  fn, todo, out_fn, \* process_sched_dag: function, out edges left, edge target to add
  cpuid, bm, tmp,   \* wake_up_task
  word,             \* get_work: word being scanned
  booted,           \* the vcpus that have left the hlt of main()
  \* history
  done              \* functions whose user code has returned in this invocation

queue  == <<bm_run_fn, runnable_tasks>>
dag    == <<dag_in_count, done>>
run    == <<dag, num_fin_fn, current>>
power  == <<bm_inactive_vcpus, bm_kicked_vcpus, hlt_after_kick, kick_pending>>
budget == <<wake_num_vcpu, sig_wake_num_vcpu_is_0>>
refl   == <<ss_reflective_bm, ss_reflective_bm1>>
wake   == <<power, budget, refl>>
edges  == <<fn, todo, out_fn>>
waker  == <<cpuid, bm, tmp>>
local  == <<edges, waker, word, booted>>
vars   == <<queue, run, num_free_vcpu, wake, pc, local>>

Zero == [i \in 0..1 |-> {}]            \* the 128-bit constant zero

\* The state scheduler_init_pre and scheduler_init_post leave: vcpu 0 enters
\* sched(), the others have executed the barrier's btr and are about to hlt.
Init ==
  /\ bm_run_fn = {} /\ runnable_tasks = 0
  /\ dag_in_count = [f \in Fn |-> 0]
  /\ done = Fn
  /\ num_fin_fn = Cardinality(Fn)
  /\ current = [c \in Cpu |-> Null]
  /\ num_free_vcpu = 1
  /\ bm_inactive_vcpus = Cpu \ {Cpu0}
  /\ bm_kicked_vcpus = {}
  /\ hlt_after_kick = [c \in Cpu |-> c # Cpu0]
  /\ kick_pending = {}
  /\ wake_num_vcpu = 0 /\ sig_wake_num_vcpu_is_0 = 1
  /\ ss_reflective_bm = Zero /\ ss_reflective_bm1 = Zero
  /\ pc = [c \in Cpu |-> IF c = Cpu0 THEN "start" ELSE "hlt"]
  /\ fn = [c \in Cpu |-> Null]
  /\ todo = [c \in Cpu |-> {}]
  /\ out_fn = [c \in Cpu |-> Null]
  /\ cpuid = [c \in Cpu |-> Null]
  /\ bm = [c \in Cpu |-> {}]
  /\ tmp = [c \in Cpu |-> 0]
  /\ word = [c \in Cpu |-> 0]
  /\ booted = {Cpu0}

Go(c, from, to) == pc[c] = from /\ pc' = [pc EXCEPT ![c] = to]
Set(x, c, v) == [x EXCEPT ![c] = v]

\* A load and a branch, and lock incq or decq of num_free_vcpu.
Branch(c, from, to) ==
  /\ Go(c, from, to)
  /\ UNCHANGED <<queue, run, num_free_vcpu, wake, local>>
AddFree(c, from, to, d) ==
  /\ Go(c, from, to)
  /\ num_free_vcpu' = num_free_vcpu + d
  /\ UNCHANGED <<queue, run, wake, local>>

-----------------------------------------------------------------------------
(* Faulty variants of actions below, one per property: what the property   *)
(* is there to exclude.  No behaviour of Spec uses them.                   *)

\* The scan of the run queue does not stop at the last word.
WordEmptyNoLimit(c) ==
  /\ \A f \in bm_run_fn : Word[f] # word[c]
  /\ Go(c, "new_work", "new_work") /\ word' = Set(word, c, word[c] + 1)
  /\ UNCHANGED <<queue, run, num_free_vcpu, wake, edges, waker, booted>>

\* The scan stops one word early.
WordEmptyEarly(c) ==
  /\ \A f \in bm_run_fn : Word[f] # word[c]
  /\ IF word[c] + 1 >= LastWord
       THEN Go(c, "new_work", "no_work") /\ word' = Set(word, c, 0)
       ELSE Go(c, "new_work", "new_work") /\ word' = Set(word, c, word[c] + 1)
  /\ UNCHANGED <<queue, run, num_free_vcpu, wake, edges, waker, booted>>

\* The vcpu that spends the last wake-up does not hand back the right to set the budget.
ClaimKeepsSig(c) ==
  /\ Go(c, "xadd", IF wake_num_vcpu > 0 THEN "extract" ELSE "fin")
  /\ wake_num_vcpu' = IF wake_num_vcpu > 0 THEN wake_num_vcpu - 1 ELSE 0
  /\ UNCHANGED <<queue, run, num_free_vcpu, power, sig_wake_num_vcpu_is_0, refl, local>>

\* A vcpu that was kicked already is skipped but stays in the snapshot.
ClearReflectiveOnlyKicked(c) ==
  /\ \/ /\ Go(c, "clear_kick", "xadd")
        /\ ss_reflective_bm' = [ss_reflective_bm EXCEPT ![1] = @ \ {cpuid[c]}]
     \/ /\ Go(c, "clear_skip", "extract")
        /\ UNCHANGED ss_reflective_bm
  /\ cpuid' = Set(cpuid, c, Null)
  /\ UNCHANGED <<queue, run, num_free_vcpu, power, budget, ss_reflective_bm1, edges, bm, tmp,
                 word, booted>>

\* The winner compares num_fin_fn with one function less.
CasFinFnEarly(c) ==
  /\ IF num_fin_fn + 1 >= Cardinality(Fn)
       THEN Go(c, "cas_fin", "waiting") /\ num_fin_fn' = 0
       ELSE Go(c, "cas_fin", "hlt_ts") /\ UNCHANGED num_fin_fn
  /\ UNCHANGED <<queue, dag, current, num_free_vcpu, wake, local>>

\* A function taken by bsf stays in the run queue.
TakeWorkKeepsBit(c, f) ==
  /\ f \in bm_run_fn /\ Word[f] = word[c]
  /\ Go(c, "new_work", "taken")
  /\ fn' = Set(fn, c, f)
  /\ word' = Set(word, c, 0)
  /\ UNCHANGED <<queue, run, num_free_vcpu, wake, todo, out_fn, waker, booted>>

\* A function that has finished is not counted.
IncFinFnNever(c) ==
  /\ Go(c, "fin", "new_work")
  /\ fn' = Set(fn, c, Null)
  /\ UNCHANGED <<queue, run, num_free_vcpu, wake, todo, out_fn, waker, word, booted>>

\* A function becomes runnable one predecessor early.
DecInCountEarly(c, g) ==
  /\ g \in todo[c]
  /\ todo' = Set(todo, c, todo[c] \ {g})
  /\ dag_in_count' = [dag_in_count EXCEPT ![g] = @ - 1]
  /\ IF dag_in_count[g] <= 2
       THEN Go(c, "dag", "add_runnable") /\ out_fn' = Set(out_fn, c, g)
       ELSE Go(c, "dag", "dag") /\ UNCHANGED out_fn
  /\ UNCHANGED <<queue, done, num_fin_fn, current, num_free_vcpu, wake, fn, waker, word, booted>>

\* The function taken is not subtracted from runnable_tasks.
JumpToFnKeepsCount(c) ==
  /\ Go(c, "taken_runnable", "user")
  /\ current' = Set(current, c, fn[c])
  /\ fn' = Set(fn, c, Null)
  /\ UNCHANGED <<queue, dag, num_fin_fn, num_free_vcpu, wake, todo, out_fn, waker, word, booted>>

\* The winner does not copy the in-degrees back.
CopyInCountsDropped(c) ==
  /\ Go(c, "copy", "add_runnable")
  /\ out_fn' = Set(out_fn, c, Start)
  /\ UNCHANGED <<queue, run, num_free_vcpu, wake, fn, todo, waker, word, booted>>

\* Every vcpu in the snapshot is taken for a halted one.
TestFirstKickAlways(c) == Branch(c, "first_kick", "count_free")

-----------------------------------------------------------------------------
(* sched(): a user function has returned; its out edges are processed.     *)

\* External: the user function finishes and enters sched() by system call 0x20a.
UserReturn(c) ==
  /\ Go(c, "user", "start")
  /\ done' = done \cup {current[c]}
  /\ UNCHANGED <<queue, dag_in_count, num_fin_fn, current, num_free_vcpu, wake, local>>

\* External: the user function raises an exception; high_interrupt_handler reports it and
\* stops the vcpu by halt() (module IntEntry).
UserFault(c) == UserFaults /\ Branch(c, "user", "stopped")

AfterDag == IF Cardinality(Cpu) # 1 THEN "wake_up_task" ELSE "fin"

\* start: fn = metadata->current[id]; a vcpu that executed a function is free again.
StartSched(c) ==
  /\ pc[c] = "start"
  /\ fn' = Set(fn, c, current[c])
  /\ IF current[c] # Null
       THEN /\ Go(c, "start", "dag")
            /\ num_free_vcpu' = num_free_vcpu + 1
            /\ todo' = Set(todo, c, Succ[current[c]])
       ELSE /\ Go(c, "start", AfterDag)
            /\ UNCHANGED <<num_free_vcpu, todo>>
  /\ UNCHANGED <<queue, run, wake, out_fn, waker, word, booted>>

\* process_sched_dag: lock decb of one out edge's in-count; the edges come in
\* the order the VMM stored them, so any.
DecInCount(c, g) ==
  /\ g \in todo[c]
  /\ todo' = Set(todo, c, todo[c] \ {g})
  /\ dag_in_count' = [dag_in_count EXCEPT ![g] = @ - 1]
  /\ IF dag_in_count[g] = 1
       THEN Go(c, "dag", "add_runnable") /\ out_fn' = Set(out_fn, c, g)
       ELSE Go(c, "dag", "dag") /\ UNCHANGED out_fn
  /\ UNCHANGED <<queue, done, num_fin_fn, current, num_free_vcpu, wake, fn, waker, word, booted>>

\* add_runnable_fn: first the counter, then the bit.
AddRunnableInc(c) ==
  /\ Go(c, "add_runnable", "add_runnable_bit")
  /\ runnable_tasks' = runnable_tasks + 1
  /\ UNCHANGED <<bm_run_fn, run, num_free_vcpu, wake, local>>

AddRunnableBit(c) ==
  /\ Go(c, "add_runnable_bit", IF fn[c] # Null THEN "dag" ELSE "new_work")
  /\ bm_run_fn' = bm_run_fn \cup {out_fn[c]}
  /\ out_fn' = Set(out_fn, c, Null)
  /\ UNCHANGED <<runnable_tasks, run, num_free_vcpu, wake, fn, todo, waker, word, booted>>

\* metadata->current[id] = NULL_FUNC
DagProcessed(c) ==
  /\ todo[c] = {}
  /\ Go(c, "dag", AfterDag)
  /\ current' = Set(current, c, Null)
  /\ UNCHANGED <<queue, dag, num_fin_fn, num_free_vcpu, wake, local>>

\* Only after the wake-ups does a finished function count as finished.
IncFinFn(c) ==
  /\ Go(c, "fin", "new_work")
  /\ num_fin_fn' = IF fn[c] # Null THEN num_fin_fn + 1 ELSE num_fin_fn
  /\ fn' = Set(fn, c, Null)
  /\ UNCHANGED <<queue, dag, current, num_free_vcpu, wake, todo, out_fn, waker, word, booted>>

-----------------------------------------------------------------------------
(* wake_up_task(), first half: vcpus kicked long ago are kicked again.     *)

ReadKicked(c) ==
  /\ Go(c, "wake_up_task", "dcas_kicked")
  /\ bm' = Set(bm, c, bm_kicked_vcpus)
  /\ UNCHANGED <<queue, run, num_free_vcpu, wake, edges, cpuid, tmp, word, booted>>

\* DCAS: a snapshot is published only when the last one is used up.
Publish(ss, b) == IF ss = Zero THEN [i \in 0..1 |-> b] ELSE ss

DcasKicked(c) ==
  /\ Go(c, "dcas_kicked", "rekick")
  /\ ss_reflective_bm1' = Publish(ss_reflective_bm1, bm[c])
  /\ bm' = Set(bm, c, {})
  /\ UNCHANGED <<queue, run, num_free_vcpu, power, budget, ss_reflective_bm, edges, cpuid, tmp,
                 word, booted>>

\* e_bsf: some set bit is extracted (bsf and btr are two instructions, so the bit
\* need not be the lowest one when it is taken); then dt is compared with rekick_thd.
RekickExtract(c, v) ==
  /\ v \in ss_reflective_bm1[0]
  /\ \/ Go(c, "rekick", "rekick_clear")
     \/ RekickThdPasses /\ Go(c, "rekick", "rekick_ts")
  /\ ss_reflective_bm1' = [ss_reflective_bm1 EXCEPT ![0] = @ \ {v}]
  /\ cpuid' = Set(cpuid, c, v)
  /\ UNCHANGED <<queue, run, num_free_vcpu, power, budget, ss_reflective_bm, edges, bm, tmp,
                 word, booted>>

RekickDone(c) ==
  /\ ss_reflective_bm1[0] = {}
  /\ Branch(c, "rekick", "read_runnable")

\* kick_ts[cpuid] = tsc(): from here on the vcpu's halt is older than its kick.
StampKick(c, from, to) ==
  /\ Go(c, from, to)
  /\ hlt_after_kick' = [hlt_after_kick EXCEPT ![cpuid[c]] = FALSE]
  /\ UNCHANGED <<queue, run, num_free_vcpu, bm_inactive_vcpus, bm_kicked_vcpus, kick_pending,
                 budget, refl, local>>

\* vmmcall(KVM_HC_KICK_CPU, 0, cpuid)
KickCpu(c, from, to) ==
  /\ Go(c, from, to)
  /\ \/ kick_pending' = kick_pending \cup {cpuid[c]}
     \/ KickMayBeLost /\ UNCHANGED kick_pending
  /\ UNCHANGED <<queue, run, num_free_vcpu, bm_inactive_vcpus, bm_kicked_vcpus, hlt_after_kick,
                 budget, refl, local>>

RekickStamp(c) == StampKick(c, "rekick_ts", "rekick_call")
RekickCall(c)  == KickCpu(c, "rekick_call", "rekick_clear")

RekickClear(c) ==
  /\ Go(c, "rekick_clear", "rekick")
  /\ ss_reflective_bm1' = [ss_reflective_bm1 EXCEPT ![1] = @ \ {cpuid[c]}]
  /\ cpuid' = Set(cpuid, c, Null)
  /\ UNCHANGED <<queue, run, num_free_vcpu, power, budget, ss_reflective_bm, edges, bm, tmp,
                 word, booted>>

-----------------------------------------------------------------------------
(* wake_up_task(), second half: as many idle vcpus are kicked as there are *)
(* runnable functions that no free vcpu will take.                         *)

\* tmp = runnable_tasks - num_free_vcpu is two loads.
ReadRunnable(c) ==
  /\ Go(c, "read_runnable", "read_free")
  /\ tmp' = Set(tmp, c, runnable_tasks)
  /\ UNCHANGED <<queue, run, num_free_vcpu, wake, edges, cpuid, bm, word, booted>>

ReadFree(c) ==
  LET needed == tmp[c] - num_free_vcpu IN
  /\ Go(c, "read_free", IF needed > 0 THEN "cas_sig" ELSE "read_inactive")
  /\ tmp' = Set(tmp, c, IF needed > 0 THEN needed ELSE 0)
  /\ UNCHANGED <<queue, run, num_free_vcpu, wake, edges, cpuid, bm, word, booted>>

\* CAS(&sig_wake_num_vcpu_is_0, 1, 0): one vcpu wins the right to set the budget.
CasSig(c) ==
  /\ IF sig_wake_num_vcpu_is_0 = 1
       THEN Go(c, "cas_sig", "set_wake_num") /\ UNCHANGED tmp
       ELSE Go(c, "cas_sig", "read_inactive") /\ tmp' = Set(tmp, c, 0)
  /\ sig_wake_num_vcpu_is_0' = 0   \* if not 1, it was 0
  /\ UNCHANGED <<queue, run, num_free_vcpu, power, wake_num_vcpu, refl, edges, cpuid, bm, word,
                 booted>>

SetWakeNum(c) ==
  /\ Go(c, "set_wake_num", "read_inactive")
  /\ wake_num_vcpu' = tmp[c]
  /\ tmp' = Set(tmp, c, 0)
  /\ UNCHANGED <<queue, run, num_free_vcpu, power, sig_wake_num_vcpu_is_0, refl, edges, cpuid,
                 bm, word, booted>>

ReadInactive(c) ==
  /\ Go(c, "read_inactive", "dcas_inactive")
  /\ bm' = Set(bm, c, bm_inactive_vcpus)
  /\ UNCHANGED <<queue, run, num_free_vcpu, wake, edges, cpuid, tmp, word, booted>>

DcasInactive(c) ==
  /\ Go(c, "dcas_inactive", "xadd")
  /\ ss_reflective_bm' = Publish(ss_reflective_bm, bm[c])
  /\ bm' = Set(bm, c, {})
  /\ UNCHANGED <<queue, run, num_free_vcpu, power, budget, ss_reflective_bm1, edges, cpuid, tmp,
                 word, booted>>

\* xadd(&wake_num_vcpu, -1): one wake-up is claimed.  The counter goes negative in
\* the code; no comparison tells a negative value from 0, so the model stops at 0.
Claim(c) ==
  /\ Go(c, "xadd", IF wake_num_vcpu > 1 THEN "extract"
                   ELSE IF wake_num_vcpu = 1 THEN "set_sig" ELSE "fin")
  /\ wake_num_vcpu' = IF wake_num_vcpu > 0 THEN wake_num_vcpu - 1 ELSE 0
  /\ UNCHANGED <<queue, run, num_free_vcpu, power, sig_wake_num_vcpu_is_0, refl, local>>

SetSig(c) ==
  /\ Go(c, "set_sig", "extract")
  /\ sig_wake_num_vcpu_is_0' = 1
  /\ UNCHANGED <<queue, run, num_free_vcpu, power, wake_num_vcpu, refl, local>>

\* try_kick_another_vcpu
Extract(c, v) ==
  /\ v \in ss_reflective_bm[0]
  /\ Go(c, "extract", "first_kick")
  /\ ss_reflective_bm' = [ss_reflective_bm EXCEPT ![0] = @ \ {v}]
  /\ cpuid' = Set(cpuid, c, v)
  /\ UNCHANGED <<queue, run, num_free_vcpu, power, budget, ss_reflective_bm1, edges, bm, tmp,
                 word, booted>>

NoneToKick(c) ==
  /\ ss_reflective_bm[0] = {}
  /\ Branch(c, "extract", "fin")

\* if(hlt_ts[cpuid] > kick_ts[cpuid]) first kick, else already kicked
TestFirstKick(c) ==
  Branch(c, "first_kick", IF hlt_after_kick[cpuid[c]] THEN "count_free" ELSE "clear_skip")

CountKickedAsFree(c) == AddFree(c, "count_free", "kick_ts", 1)

KickStamp(c) == StampKick(c, "kick_ts", "mark_kicked")

MarkKicked(c) ==
  /\ Go(c, "mark_kicked", "kick")
  /\ bm_kicked_vcpus' = bm_kicked_vcpus \cup {cpuid[c]}
  /\ UNCHANGED <<queue, run, num_free_vcpu, bm_inactive_vcpus, hlt_after_kick, kick_pending,
                 budget, refl, local>>

Kick(c) == KickCpu(c, "kick", "clear_kick")

\* After a kick the next wake-up is claimed; after a vcpu that was kicked already,
\* another one is tried for the same claim.
ClearReflective(c) ==
  /\ \/ Go(c, "clear_kick", "xadd")
     \/ Go(c, "clear_skip", "extract")
  /\ ss_reflective_bm' = [ss_reflective_bm EXCEPT ![1] = @ \ {cpuid[c]}]
  /\ cpuid' = Set(cpuid, c, Null)
  /\ UNCHANGED <<queue, run, num_free_vcpu, power, budget, ss_reflective_bm1, edges, bm, tmp,
                 word, booted>>

-----------------------------------------------------------------------------
(* new_work: a function is taken from the run queue and executed.          *)

\* get_work: bsf and lock btr on one word, retried as long as the btr loses its race.
TakeWork(c, f) ==
  /\ f \in bm_run_fn /\ Word[f] = word[c]
  /\ Go(c, "new_work", "taken")
  /\ bm_run_fn' = bm_run_fn \ {f}
  /\ fn' = Set(fn, c, f)
  /\ word' = Set(word, c, 0)
  /\ UNCHANGED <<runnable_tasks, run, num_free_vcpu, wake, todo, out_fn, waker, booted>>

\* No bit in this word: the next word, or -1 after the last one.
WordEmpty(c) ==
  /\ \A f \in bm_run_fn : Word[f] # word[c]
  /\ IF word[c] = LastWord
       THEN Go(c, "new_work", "no_work") /\ word' = Set(word, c, 0)
       ELSE Go(c, "new_work", "new_work") /\ word' = Set(word, c, word[c] + 1)
  /\ UNCHANGED <<queue, run, num_free_vcpu, wake, edges, waker, booted>>

TakenDecFree(c) == AddFree(c, "taken", "taken_runnable", -1)

\* ATOMIC_DECQ_M(runnable_tasks), then jump2fn: user mode, in the function's own
\* page tables.
JumpToFn(c) ==
  /\ Go(c, "taken_runnable", "user")
  /\ runnable_tasks' = runnable_tasks - 1
  /\ current' = Set(current, c, fn[c])
  /\ fn' = Set(fn, c, Null)
  /\ UNCHANGED <<bm_run_fn, dag, num_fin_fn, num_free_vcpu, wake, todo, out_fn, waker, word,
                 booted>>

-----------------------------------------------------------------------------
(* No work: the vcpu that finds the dag finished starts the next           *)
(* invocation, the others halt.                                            *)

NoWorkDecFree(c) == AddFree(c, "no_work", "cas_fin", -1)

\* CAS(&num_fin_fn, tot_fn, 0)
CasFinFn(c) ==
  /\ IF num_fin_fn = Cardinality(Fn)
       THEN Go(c, "cas_fin", "waiting") /\ num_fin_fn' = 0
       ELSE Go(c, "cas_fin", "hlt_ts") /\ UNCHANGED num_fin_fn
  /\ UNCHANGED <<queue, dag, current, num_free_vcpu, wake, local>>

\* outw(PORT_MSG, MSG_WAITING_FOR_WORK) returns when the VMM has placed an input.
WaitingForWork(c) ==
  /\ Go(c, "waiting", "win_free")
  /\ done' = {}
  /\ UNCHANGED <<queue, dag_in_count, num_fin_fn, current, num_free_vcpu, wake, local>>

WinnerIncFree(c) == AddFree(c, "win_free", "wipe_0", 1)

\* wipe old wake up history: four stores
Wipe(c) ==
  /\ \/ /\ Go(c, "wipe_0", "wipe_1")
        /\ ss_reflective_bm' = [ss_reflective_bm EXCEPT ![0] = {}]
        /\ UNCHANGED ss_reflective_bm1
     \/ /\ Go(c, "wipe_1", "wipe1_0")
        /\ ss_reflective_bm' = [ss_reflective_bm EXCEPT ![1] = {}]
        /\ UNCHANGED ss_reflective_bm1
     \/ /\ Go(c, "wipe1_0", "wipe1_1")
        /\ ss_reflective_bm1' = [ss_reflective_bm1 EXCEPT ![0] = {}]
        /\ UNCHANGED ss_reflective_bm
     \/ /\ Go(c, "wipe1_1", "recover")
        /\ ss_reflective_bm1' = [ss_reflective_bm1 EXCEPT ![1] = {}]
        /\ UNCHANGED ss_reflective_bm
  /\ UNCHANGED <<queue, run, num_free_vcpu, power, budget, local>>

\* recovery code: if(bm_kicked_vcpus == 0), then popcnt of bm_inactive_vcpus
RecoverTestKicked(c) ==
  Branch(c, "recover", IF bm_kicked_vcpus = {} THEN "recover_popcnt" ELSE "copy")

RecoverPopcnt(c) ==
  Branch(c, "recover_popcnt",
    IF Cardinality(Cpu) - Cardinality(bm_inactive_vcpus) = 1 THEN "recover_free" ELSE "copy")

RecoverFree(c) ==
  /\ Go(c, "recover_free", "recover_runnable")
  /\ num_free_vcpu' = 1
  /\ UNCHANGED <<queue, run, wake, local>>

RecoverRunnable(c) ==
  /\ Go(c, "recover_runnable", "copy")
  /\ runnable_tasks' = 0
  /\ UNCHANGED <<bm_run_fn, run, num_free_vcpu, wake, local>>

\* memcpy of the in-degrees, then add_runnable_fn(metadata->start_func)
CopyInCounts(c) ==
  /\ Go(c, "copy", "add_runnable")
  /\ dag_in_count' = [g \in Fn |-> InCount(g)]
  /\ out_fn' = Set(out_fn, c, Start)
  /\ UNCHANGED <<queue, done, num_fin_fn, current, num_free_vcpu, wake, fn, todo, waker, word,
                 booted>>

\* hlt_ts[id] = tsc()
StampHlt(c) ==
  /\ Go(c, "hlt_ts", "mark_inactive")
  /\ hlt_after_kick' = [hlt_after_kick EXCEPT ![c] = TRUE]
  /\ UNCHANGED <<queue, run, num_free_vcpu, bm_inactive_vcpus, bm_kicked_vcpus, kick_pending,
                 budget, refl, local>>

MarkInactive(c) ==
  /\ Go(c, "mark_inactive", "hlt")
  /\ bm_inactive_vcpus' = bm_inactive_vcpus \cup {c}
  /\ UNCHANGED <<queue, run, num_free_vcpu, bm_kicked_vcpus, hlt_after_kick, kick_pending,
                 budget, refl, local>>

\* hlt returns when the vcpu has been kicked, before or after it halted.
Wake(c) ==
  /\ c \in kick_pending \/ SpuriousWakeUps
  /\ Go(c, "hlt", "woken")
  /\ kick_pending' = kick_pending \ {c}
  /\ UNCHANGED <<queue, run, num_free_vcpu, bm_inactive_vcpus, bm_kicked_vcpus, hlt_after_kick,
                 budget, refl, local>>

ClearInactive(c) ==
  /\ Go(c, "woken", "clear_kicked")
  /\ bm_inactive_vcpus' = bm_inactive_vcpus \ {c}
  /\ UNCHANGED <<queue, run, num_free_vcpu, bm_kicked_vcpus, hlt_after_kick, kick_pending,
                 budget, refl, local>>

\* The first wake-up is the one in main(), which goes on to call sched().
AfterWake(c) == IF c \in booted THEN "new_work" ELSE "start"

\* lock btrq of bm_kicked_vcpus: a vcpu nobody counted as free counts itself.
ClearKicked(c) ==
  /\ IF c \in bm_kicked_vcpus
       THEN Go(c, "clear_kicked", AfterWake(c)) /\ booted' = booted \cup {c}
       ELSE Go(c, "clear_kicked", "spurious") /\ UNCHANGED booted
  /\ bm_kicked_vcpus' = bm_kicked_vcpus \ {c}
  /\ UNCHANGED <<queue, run, num_free_vcpu, bm_inactive_vcpus, hlt_after_kick, kick_pending,
                 budget, refl, edges, waker, word>>

SpuriousIncFree(c) ==
  /\ Go(c, "spurious", AfterWake(c))
  /\ num_free_vcpu' = num_free_vcpu + 1
  /\ booted' = booted \cup {c}
  /\ UNCHANGED <<queue, run, wake, edges, waker, word>>

-----------------------------------------------------------------------------

Completion(c) == StartSched(c) \/ (\E g \in Fn : DecInCount(c, g)) \/ AddRunnableInc(c)
                 \/ AddRunnableBit(c) \/ DagProcessed(c) \/ IncFinFn(c)
Rekicking(c)  == ReadKicked(c) \/ DcasKicked(c) \/ (\E v \in Cpu : RekickExtract(c, v))
                 \/ RekickDone(c) \/ RekickStamp(c) \/ RekickCall(c) \/ RekickClear(c)
Waking(c)     == ReadRunnable(c) \/ ReadFree(c) \/ CasSig(c) \/ SetWakeNum(c)
                 \/ ReadInactive(c) \/ DcasInactive(c) \/ Claim(c) \/ SetSig(c)
                 \/ (\E v \in Cpu : Extract(c, v)) \/ NoneToKick(c) \/ TestFirstKick(c)
                 \/ CountKickedAsFree(c) \/ KickStamp(c) \/ MarkKicked(c) \/ Kick(c)
                 \/ ClearReflective(c)
GettingWork(c) == (\E f \in Fn : TakeWork(c, f)) \/ WordEmpty(c) \/ TakenDecFree(c) \/ JumpToFn(c)
Winning(c)    == WinnerIncFree(c) \/ Wipe(c) \/ RecoverTestKicked(c) \/ RecoverPopcnt(c)
                 \/ RecoverFree(c) \/ RecoverRunnable(c) \/ CopyInCounts(c)
Idling(c)     == NoWorkDecFree(c) \/ CasFinFn(c) \/ StampHlt(c) \/ MarkInactive(c)
                 \/ ClearInactive(c) \/ ClearKicked(c) \/ SpuriousIncFree(c)

\* Steps of the kernel itself, and of what surrounds it.
Kernel(c)   == Completion(c) \/ Rekicking(c) \/ Waking(c) \/ GettingWork(c) \/ Winning(c)
               \/ Idling(c)
External(c) == UserReturn(c) \/ UserFault(c) \/ WaitingForWork(c) \/ Wake(c)

Next == \E c \in Cpu : Kernel(c) \/ External(c)

Spec == Init /\ [][Next]_vars

\* The host schedules every vcpu, user functions return, the VMM answers, and a
\* vcpu that has been kicked leaves hlt.
Fairness == \A c \in Cpu : /\ WF_vars(Kernel(c))
                           /\ WF_vars(UserReturn(c) \/ WaitingForWork(c))
                           /\ WF_vars(c \in kick_pending /\ Wake(c))
FairSpec == Spec /\ Fairness

-----------------------------------------------------------------------------
(* Properties                                                              *)

At(S) == {c \in Cpu : pc[c] \in S}

ProcessingPC == {"dag", "add_runnable", "add_runnable_bit"}
RekickPC == {"rekick_ts", "rekick_call", "rekick_clear"}
KickPC   == {"first_kick", "count_free", "kick_ts", "mark_kicked", "kick", "clear_kick", "clear_skip"}
WipePC   == {"wipe_0", "wipe_1", "wipe1_0", "wipe1_1"}
RecoverPC == {"recover", "recover_popcnt", "recover_free", "recover_runnable"}
WinnerPC == {"waiting", "win_free", "copy"} \cup WipePC \cup RecoverPC
IdlePC   == {"no_work", "cas_fin", "hlt_ts", "mark_inactive", "hlt"}
PC == ProcessingPC \cup RekickPC \cup KickPC \cup WinnerPC \cup IdlePC
      \cup {"user", "start", "fin", "new_work", "taken", "taken_runnable",
            "wake_up_task", "dcas_kicked", "rekick", "read_runnable", "read_free", "cas_sig",
            "set_wake_num", "read_inactive", "dcas_inactive", "xadd", "set_sig", "extract",
            "woken", "clear_kicked", "spurious", "stopped"}

FnOrNull == Fn \cup {Null}

\* The variables keep their types, a scan stays inside bm_run_fn and starts at its first
\* word, the bit a vcpu kicks names a vcpu, and the edge target it adds names a function.
TypeOK ==
  /\ bm_run_fn \subseteq Fn /\ runnable_tasks \in Int
  /\ dag_in_count \in [Fn -> Int] /\ done \subseteq Fn
  /\ num_fin_fn \in Nat
  /\ current \in [Cpu -> FnOrNull]
  /\ num_free_vcpu \in Int
  /\ bm_inactive_vcpus \subseteq Cpu /\ bm_kicked_vcpus \subseteq Cpu
  /\ hlt_after_kick \in [Cpu -> BOOLEAN] /\ kick_pending \subseteq Cpu
  /\ wake_num_vcpu \in Nat /\ sig_wake_num_vcpu_is_0 \in 0..1
  /\ ss_reflective_bm \in [0..1 -> SUBSET Cpu] /\ ss_reflective_bm1 \in [0..1 -> SUBSET Cpu]
  /\ pc \in [Cpu -> PC]
  /\ fn \in [Cpu -> FnOrNull] /\ todo \in [Cpu -> SUBSET Fn] /\ out_fn \in [Cpu -> FnOrNull]
  /\ cpuid \in [Cpu -> Cpu \cup {Null}] /\ bm \in [Cpu -> SUBSET Cpu] /\ tmp \in [Cpu -> Int]
  /\ word \in [Cpu -> 0..LastWord] /\ booted \subseteq Cpu
  /\ \A c \in Cpu : /\ pc[c] # "new_work" => word[c] = 0
                    /\ pc[c] \in KickPC \cup RekickPC => cpuid[c] \in Cpu
                    /\ pc[c] \in {"add_runnable", "add_runnable_bit"} => out_fn[c] \in Fn
                    /\ pc[c] \in {"taken", "taken_runnable"} => fn[c] \in Fn
                    /\ pc[c] \in {"user", "stopped"} => current[c] \in Fn
                    /\ pc[c] \in {"cas_sig", "set_wake_num"} => tmp[c] > 0

\* The right to set wake_num_vcpu is never lost nor held twice: it is in the variable
\* sig_wake_num_vcpu_is_0, with one vcpu between its CAS or xadd and its store, or it will
\* come back with the last of a positive number of wake-ups (sched.c:227-240).
SigHolders == At({"set_wake_num", "set_sig"})
WakeToken ==
  /\ \A c, d \in SigHolders : c = d
  /\ sig_wake_num_vcpu_is_0 = 1 => SigHolders = {} /\ wake_num_vcpu = 0
  /\ wake_num_vcpu > 0 => SigHolders = {}
  /\ sig_wake_num_vcpu_is_0 = 0 => SigHolders # {} \/ wake_num_vcpu > 0

\* A snapshot is never stuck: a bit of its second half, which keeps the next snapshot
\* from being published, is still to be extracted, or a vcpu that extracted it is about
\* to clear it, or the winner of the dag is (sched.c:210-225, 233-265, 319-322).
Draining(v) == \/ v \in ss_reflective_bm[0]
               \/ \E c \in Cpu : pc[c] = "wipe_1"
               \/ \E c \in Cpu : pc[c] \in KickPC /\ cpuid[c] = v
Draining1(v) == \/ v \in ss_reflective_bm1[0]
                \/ \E c \in Cpu : pc[c] = "wipe1_1"
                \/ \E c \in Cpu : pc[c] \in RekickPC /\ cpuid[c] = v
SnapshotDrains == /\ \A v \in ss_reflective_bm[1] : Draining(v)
                  /\ \A v \in ss_reflective_bm1[1] : Draining1(v)

\* A function in the run queue is never left behind by vcpus that all go to sleep: some
\* vcpu is awake that has not yet scanned the function's word, unless it was stopped in a
\* user function (sched.c:145-201, 303-370).
WillScan(c, f) == pc[c] \notin IdlePC /\ word[c] <= Word[f]
NoStrandedWork == \A f \in bm_run_fn : \E c \in Cpu : WillScan(c, f)

\* The vcpu that wins the end of the dag is alone with it: nothing is queued, executed or
\* processed while it resets the run-time state with plain stores, so these lose no
\* update of another vcpu (sched.c:308-338).
Busy(c) == \/ pc[c] \in {"user", "stopped", "taken", "taken_runnable"} \cup ProcessingPC
           \/ pc[c] = "start" /\ current[c] # Null
           \/ fn[c] # Null
WinnerAlone ==
  \A w \in At(WinnerPC) : /\ bm_run_fn = {} /\ runnable_tasks = 0
                          /\ pc[w] = "waiting" => done = Fn
                          /\ \A c \in Cpu : ~Busy(c) /\ (pc[c] \in WinnerPC => c = w)

\* runnable_tasks is the length of the run queue, up to the vcpus between the two steps of
\* an insertion or of a removal: it never wraps below 0 and never understates the queue,
\* and the store of the recovery code changes nothing (sched.c:112-113, 332, 374-375).
RunnableExact ==
  runnable_tasks =
    Cardinality(bm_run_fn) + Cardinality(At({"add_runnable_bit", "taken", "taken_runnable"}))

\* Between the copy of the in-degrees and the end of the dag, dag_in_count[g] is the number
\* of predecessors whose edge to g is still to be followed, whichever vcpus follow them and
\* in whatever order: the 8-bit counter never wraps below 0 (sched.c:131-142, 336).
EdgePending(f, g) ==
  \/ f \notin done
  \/ \E c \in Cpu : \/ pc[c] = "start" /\ current[c] = f
                    \/ fn[c] = f /\ g \in todo[c]
InCountExact ==
  At(WinnerPC \ {"waiting"}) = {} =>
    \A g \in Fn : dag_in_count[g] = Cardinality({f \in Pred(g) : EdgePending(f, g)})

-----------------------------------------------------------------------------
(* Where a function is between two steps, and what follows from it for the *)
(* vcpus: the inductive invariant in SchedProofs.                          *)

WakePC == RekickPC \cup KickPC
          \cup {"wake_up_task", "dcas_kicked", "rekick", "read_runnable", "read_free", "cas_sig",
                "set_wake_num", "read_inactive", "dcas_inactive", "xadd", "set_sig", "extract", "fin"}
ResetPC == WinnerPC \ {"waiting"}

\* c inserts f, has taken it, or executes it ...
Holds(c, f) == \/ pc[c] \in {"add_runnable", "add_runnable_bit"} /\ out_fn[c] = f
               \/ pc[c] \in {"taken", "taken_runnable"} /\ fn[c] = f
               \/ pc[c] \in {"user", "stopped"} /\ current[c] = f
\* ... or has executed it, and has not counted it in num_fin_fn.
Processes(c, f) == \/ pc[c] = "start" /\ current[c] = f
                   \/ pc[c] \notin {"taken", "taken_runnable"} /\ fn[c] = f
Finished == {f \in done : \A c \in Cpu : ~Processes(c, f)}

\* fn, current and todo are empty where the code has no function at hand.
LocalOK ==
  \A c \in Cpu :
    /\ fn[c] # Null => pc[c] \in ProcessingPC \cup WakePC \cup {"taken", "taken_runnable"}
    /\ current[c] # Null => pc[c] \in {"user", "stopped", "start"} \cup ProcessingPC
    /\ pc[c] \in ProcessingPC => current[c] = fn[c]
    /\ pc[c] = "dag" => fn[c] # Null
    /\ todo[c] # {} => pc[c] \in ProcessingPC /\ fn[c] # Null /\ todo[c] \subseteq Succ[fn[c]]

\* A function that is not done is queued, or held by one vcpu; one that is done is neither,
\* and one vcpu at most processes it.
OnePlace ==
  \A f \in Fn :
    /\ f \in bm_run_fn => f \notin done
    /\ \A c \in Cpu : /\ Holds(c, f) => f \notin done /\ f \notin bm_run_fn
                      /\ Processes(c, f) => f \in done
                      /\ \A d \in Cpu \ {c} : /\ ~(Holds(c, f) /\ Holds(d, f))
                                              /\ ~(Processes(c, f) /\ Processes(d, f))

\* A function is queued, held or done only when no edge into it is left to follow.
Active(g) == g \in done \/ g \in bm_run_fn \/ \E c \in Cpu : Holds(c, g)
NoPending == \A g \in Fn : Active(g) => \A f \in Pred(g) : ~EdgePending(f, g)

\* num_fin_fn is the number of functions that are done and processed, until the winner of
\* the CAS has reset it.
FinExact ==
  num_fin_fn = IF At({"waiting"}) = {} THEN Cardinality(Finished) ELSE 0

\* When the winner resets the run-time state, the VMM has started the next invocation.
ResetEmpty == At(ResetPC) # {} => done = {}

\* Each function is at one place of its way through an invocation: not yet runnable, being
\* inserted, queued, taken, executed, processed, counted; num_fin_fn counts the last, so
\* that its CAS cannot succeed early (sched.c:120-143, 283-308).
Lifecycle == LocalOK /\ OnePlace /\ NoPending /\ FinExact /\ ResetEmpty

-----------------------------------------------------------------------------
\* num_free_vcpu is what wake_up_task takes it for: the vcpus that look for work, those
\* kicked to do so, and those that a kicker has counted and not yet marked.  It holds with
\* two vcpus, no spurious wake-up and no second kick; beyond, the code lets it drift and
\* recovers (sched.c:227, 288, 305, 316, 323-334, 352-358, 374, 393-406).
CountedFree(c) ==
  \/ pc[c] \notin {"start", "user", "stopped", "taken_runnable", "cas_fin", "waiting", "win_free", "hlt_ts",
                  "mark_inactive", "hlt", "woken", "clear_kicked", "spurious"}
  \/ pc[c] = "start" /\ current[c] = Null
FreeVcpus == Cardinality({c \in Cpu : CountedFree(c)}) + Cardinality(bm_kicked_vcpus)
             + Cardinality(At({"kick_ts", "mark_kicked"}))
FreeExact == num_free_vcpu = FreeVcpus

\* The recovery code does not lose a vcpu: when it has stored 1 in num_free_vcpu, that is
\* the number of vcpus that are free (sched.c:323-334).
RecoveryRepairs == \A c \in Cpu : pc[c] = "recover_runnable" => num_free_vcpu >= FreeVcpus

\* Every step of the scheduler is a step of the dag or changes nothing the VMM can see:
\* each function runs exactly once per invocation, after all its predecessors, and no
\* invocation is reported complete in which a function was stopped.
running == [f \in Fn |-> Cardinality({c \in Cpu : pc[c] \in {"user", "stopped"} /\ current[c] = f})]
Dag == INSTANCE DagRun
RefinesDag == Dag!Spec

\* Every invocation completes and the next one starts: the scheduler implements the
\* abstract specification with its fairness.
DagProgress == Dag!FairSpec

=============================================================================
