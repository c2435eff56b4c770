----------------------------- MODULE SchedProofs -----------------------------
(***************************************************************************)
(* Theorems about Sched, for every set of vcpus, every dag, and any mix of *)
(* lost kicks, repeated kicks, spurious wake-ups and faults; what needs    *)
(* less says so.  Each invariant is shown to hold initially and to be kept *)
(* by every step; the lemmas of an invariant follow the groups of actions  *)
(* of Sched's Next.                                                        *)
(*                                                                         *)
(* 1. The wake-up protocol.  TypeOK carries the facts about local          *)
(*    variables the others need (a scan starts at word 0, a vcpu being     *)
(*    kicked is named by cpuid, a budget about to be stored is positive);  *)
(*    with it the three others are inductive as they stand.                *)
(* 2. The way of the functions.  The four invariants are inductive only    *)
(*    together.  Most actions leave every function where it is: Silent is  *)
(*    what they have in common, and there is one lemma for it and one for  *)
(*    each of the other actions.                                           *)
(* 3. The count of the free vcpus, of a pool of two.                       *)
(***************************************************************************)
EXTENDS Sched, FiniteSetTheorems, TLAPS

\* Helpers and sets of labels, expanded in every proof.
USE DEF Set, Go, queue, run, dag, wake, power, budget, refl, edges, waker, local,
        FnOrNull, PC, ProcessingPC, IdlePC, KickPC, RekickPC, WinnerPC, WipePC, RecoverPC

-----------------------------------------------------------------------------
(* 1. The wake-up protocol.                                               *)

\* The in-degrees are numbers.
LEMMA InCountType == \A g \in Fn : InCount(g) \in Nat
<1> SUFFICES ASSUME NEW g \in Fn PROVE InCount(g) \in Nat
  OBVIOUS
<1>1. Pred(g) \subseteq Fn
  BY DEF Pred
<1>2. IsFiniteSet(Pred(g))
  BY <1>1, FnAssumption, FS_Subset
<1> QED
  BY <1>2, FS_CardinalityType DEF InCount

LEMMA TypeInit == Init => TypeOK
<1> SUFFICES ASSUME Init PROVE TypeOK
  OBVIOUS
<1>1. Cardinality(Fn) \in Nat
  BY FnAssumption, FS_CardinalityType
<1> QED
  BY <1>1, CpuAssumption, FnAssumption, WordAssumption
     DEF Init, TypeOK, Zero

-----------------------------------------------------------------------------
(* TypeOK is kept by every step: one lemma per group of actions.           *)

LEMMA TypeOKCompletion == ASSUME TypeOK, NEW c \in Cpu, Completion(c) PROVE TypeOK'
<1>1. CASE StartSched(c)
  BY <1>1, FnAssumption DEF TypeOK, StartSched, AfterDag
<1>2. ASSUME NEW g \in Fn, DecInCount(c, g) PROVE TypeOK'
  BY SMTT(30), <1>2, FnAssumption DEF TypeOK, DecInCount
<1>3. CASE AddRunnableInc(c)
  BY <1>3, FnAssumption DEF TypeOK, AddRunnableInc
<1>4. CASE AddRunnableBit(c)
  BY <1>4, FnAssumption DEF TypeOK, AddRunnableBit
<1>5. CASE DagProcessed(c)
  BY <1>5, FnAssumption DEF TypeOK, DagProcessed, AfterDag
<1>6. CASE IncFinFn(c)
  BY <1>6, FnAssumption DEF TypeOK, IncFinFn
<1> QED
  BY <1>1, <1>2, <1>3, <1>4, <1>5, <1>6 DEF Completion

LEMMA TypeOKRekicking == ASSUME TypeOK, NEW c \in Cpu, Rekicking(c) PROVE TypeOK'
<1>1. CASE ReadKicked(c)
  BY <1>1, FnAssumption DEF TypeOK, ReadKicked
<1>2. CASE DcasKicked(c)
  BY <1>2, FnAssumption DEF TypeOK, DcasKicked, Publish
<1>3. ASSUME NEW v \in Cpu, RekickExtract(c, v) PROVE TypeOK'
  BY <1>3, FnAssumption DEF TypeOK, RekickExtract
<1>4. CASE RekickDone(c)
  BY <1>4, FnAssumption DEF TypeOK, RekickDone, Branch
<1>5. CASE RekickStamp(c)
  BY <1>5, FnAssumption DEF TypeOK, RekickStamp, StampKick
<1>6. CASE RekickCall(c)
  BY <1>6, FnAssumption DEF TypeOK, RekickCall, KickCpu
<1>7. CASE RekickClear(c)
  BY <1>7, FnAssumption DEF TypeOK, RekickClear
<1> QED
  BY <1>1, <1>2, <1>3, <1>4, <1>5, <1>6, <1>7 DEF Rekicking

LEMMA TypeOKWaking == ASSUME TypeOK, NEW c \in Cpu, Waking(c) PROVE TypeOK'
<1>1. CASE ReadRunnable(c)
  BY <1>1, FnAssumption DEF TypeOK, ReadRunnable
<1>2. CASE ReadFree(c)
  BY <1>2, FnAssumption DEF TypeOK, ReadFree
<1>3. CASE CasSig(c)
  BY <1>3, FnAssumption DEF TypeOK, CasSig
<1>4. CASE SetWakeNum(c)
  BY <1>4, FnAssumption DEF TypeOK, SetWakeNum
<1>5. CASE ReadInactive(c)
  BY <1>5, FnAssumption DEF TypeOK, ReadInactive
<1>6. CASE DcasInactive(c)
  BY <1>6, FnAssumption DEF TypeOK, DcasInactive, Publish
<1>7. CASE Claim(c)
  BY <1>7, FnAssumption DEF TypeOK, Claim
<1>8. CASE SetSig(c)
  BY <1>8, FnAssumption DEF TypeOK, SetSig
<1>9. ASSUME NEW v \in Cpu, Extract(c, v) PROVE TypeOK'
  BY <1>9, FnAssumption DEF TypeOK, Extract
<1>10. CASE NoneToKick(c)
  BY <1>10, FnAssumption DEF TypeOK, NoneToKick, Branch
<1>11. CASE TestFirstKick(c)
  BY <1>11, FnAssumption DEF TypeOK, TestFirstKick, Branch
<1>12. CASE CountKickedAsFree(c)
  BY <1>12, FnAssumption DEF TypeOK, CountKickedAsFree, AddFree
<1>13. CASE KickStamp(c)
  BY <1>13, FnAssumption DEF TypeOK, KickStamp, StampKick
<1>14. CASE MarkKicked(c)
  BY <1>14, FnAssumption DEF TypeOK, MarkKicked
<1>15. CASE Kick(c)
  BY <1>15, FnAssumption DEF TypeOK, Kick, KickCpu
<1>16. CASE ClearReflective(c)
  BY SMTT(30), <1>16, FnAssumption DEF TypeOK, ClearReflective
<1> QED
  BY <1>1, <1>2, <1>3, <1>4, <1>5, <1>6, <1>7, <1>8, <1>9, <1>10, <1>11, <1>12, <1>13, <1>14,
     <1>15, <1>16 DEF Waking

LEMMA TypeOKGettingWork == ASSUME TypeOK, NEW c \in Cpu, GettingWork(c) PROVE TypeOK'
<1>1. ASSUME NEW f \in Fn, TakeWork(c, f) PROVE TypeOK'
  BY <1>1, FnAssumption, WordAssumption DEF TypeOK, TakeWork
<1>2. CASE WordEmpty(c)
  <2>1. CASE word[c] = LastWord
    BY <1>2, <2>1, WordAssumption DEF TypeOK, WordEmpty
  <2>2. CASE word[c] # LastWord
    <3>1. word[c] + 1 \in 0..LastWord
      BY <2>2, WordAssumption DEF TypeOK
    <3> QED
      BY <1>2, <2>2, <3>1 DEF TypeOK, WordEmpty
  <2> QED
    BY <2>1, <2>2
<1>3. CASE TakenDecFree(c)
  BY <1>3, FnAssumption DEF TypeOK, TakenDecFree, AddFree
<1>4. CASE JumpToFn(c)
  BY <1>4, FnAssumption DEF TypeOK, JumpToFn
<1> QED
  BY <1>1, <1>2, <1>3, <1>4 DEF GettingWork

LEMMA TypeOKWinning == ASSUME TypeOK, NEW c \in Cpu, Winning(c) PROVE TypeOK'
<1>1. CASE WinnerIncFree(c)
  BY <1>1, FnAssumption DEF TypeOK, WinnerIncFree, AddFree
<1>2. CASE Wipe(c)
  BY <1>2, FnAssumption DEF TypeOK, Wipe
<1>3. CASE RecoverTestKicked(c)
  BY <1>3, FnAssumption DEF TypeOK, RecoverTestKicked, Branch
<1>4. CASE RecoverPopcnt(c)
  BY <1>4, FnAssumption DEF TypeOK, RecoverPopcnt, Branch
<1>5. CASE RecoverFree(c)
  BY <1>5, FnAssumption DEF TypeOK, RecoverFree
<1>6. CASE RecoverRunnable(c)
  BY <1>6, FnAssumption DEF TypeOK, RecoverRunnable
<1>7. CASE CopyInCounts(c)
  BY <1>7, FnAssumption, InCountType DEF TypeOK, CopyInCounts
<1> QED
  BY <1>1, <1>2, <1>3, <1>4, <1>5, <1>6, <1>7 DEF Winning

LEMMA TypeOKIdling == ASSUME TypeOK, NEW c \in Cpu, Idling(c) PROVE TypeOK'
<1>1. CASE NoWorkDecFree(c)
  BY <1>1, FnAssumption DEF TypeOK, NoWorkDecFree, AddFree
<1>2. CASE CasFinFn(c)
  BY <1>2, FnAssumption DEF TypeOK, CasFinFn
<1>3. CASE StampHlt(c)
  BY <1>3, FnAssumption DEF TypeOK, StampHlt
<1>4. CASE MarkInactive(c)
  BY <1>4, FnAssumption DEF TypeOK, MarkInactive
<1>5. CASE ClearInactive(c)
  BY <1>5, FnAssumption DEF TypeOK, ClearInactive
<1>6. CASE ClearKicked(c)
  BY <1>6, FnAssumption DEF TypeOK, ClearKicked, AfterWake
<1>7. CASE SpuriousIncFree(c)
  BY <1>7, FnAssumption DEF TypeOK, SpuriousIncFree, AfterWake, AddFree
<1> QED
  BY <1>1, <1>2, <1>3, <1>4, <1>5, <1>6, <1>7 DEF Idling

LEMMA TypeOKExternal == ASSUME TypeOK, NEW c \in Cpu, External(c) PROVE TypeOK'
<1>1. CASE UserReturn(c)
  BY <1>1, FnAssumption DEF TypeOK, UserReturn
<1>2. CASE WaitingForWork(c)
  BY <1>2, FnAssumption DEF TypeOK, WaitingForWork
<1>3. CASE Wake(c)
  BY <1>3, FnAssumption DEF TypeOK, Wake
<1>4. CASE UserFault(c)
  BY <1>4 DEF TypeOK, UserFault, Branch
<1> QED
  BY <1>1, <1>2, <1>3, <1>4 DEF External

LEMMA TypeOKStep == TypeOK /\ [Next]_vars => TypeOK'
<1> SUFFICES ASSUME TypeOK, [Next]_vars PROVE TypeOK'
  OBVIOUS
<1>1. ASSUME NEW c \in Cpu, Kernel(c) PROVE TypeOK'
  BY <1>1, TypeOKCompletion, TypeOKRekicking, TypeOKWaking, TypeOKGettingWork, TypeOKWinning,
     TypeOKIdling DEF Kernel
<1>2. ASSUME NEW c \in Cpu, External(c) PROVE TypeOK'
  BY <1>2, TypeOKExternal
<1>3. CASE UNCHANGED vars
  BY <1>3 DEF vars, TypeOK
<1> QED
  BY <1>1, <1>2, <1>3 DEF Next

\* The variables keep their types, and each vcpu's local variables hold what its place in
\* the code needs: a scan inside bm_run_fn, a vcpu to kick, a function to execute.
THEOREM TypeCorrect == Spec => []TypeOK
<1> QED
  BY TypeInit, TypeOKStep, PTL DEF Spec

-----------------------------------------------------------------------------
(* WakeToken                                                               *)

LEMMA WakeTokenCompletion ==
  ASSUME TypeOK, WakeToken, NEW c \in Cpu, Completion(c) PROVE WakeToken'
<1>1. CASE StartSched(c)
  BY <1>1 DEF TypeOK, WakeToken, SigHolders, At, StartSched, AfterDag
<1>2. ASSUME NEW g \in Fn, DecInCount(c, g) PROVE WakeToken'
  BY <1>2 DEF TypeOK, WakeToken, SigHolders, At, DecInCount
<1>3. CASE AddRunnableInc(c)
  BY <1>3 DEF TypeOK, WakeToken, SigHolders, At, AddRunnableInc
<1>4. CASE AddRunnableBit(c)
  BY <1>4 DEF TypeOK, WakeToken, SigHolders, At, AddRunnableBit
<1>5. CASE DagProcessed(c)
  BY <1>5 DEF TypeOK, WakeToken, SigHolders, At, DagProcessed, AfterDag
<1>6. CASE IncFinFn(c)
  BY <1>6 DEF TypeOK, WakeToken, SigHolders, At, IncFinFn
<1> QED
  BY <1>1, <1>2, <1>3, <1>4, <1>5, <1>6 DEF Completion

LEMMA WakeTokenRekicking ==
  ASSUME TypeOK, WakeToken, NEW c \in Cpu, Rekicking(c) PROVE WakeToken'
<1>1. CASE ReadKicked(c)
  BY <1>1 DEF TypeOK, WakeToken, SigHolders, At, ReadKicked
<1>2. CASE DcasKicked(c)
  BY <1>2 DEF TypeOK, WakeToken, SigHolders, At, DcasKicked, Publish
<1>3. ASSUME NEW v \in Cpu, RekickExtract(c, v) PROVE WakeToken'
  BY <1>3 DEF TypeOK, WakeToken, SigHolders, At, RekickExtract
<1>4. CASE RekickDone(c)
  BY <1>4 DEF TypeOK, WakeToken, SigHolders, At, RekickDone, Branch
<1>5. CASE RekickStamp(c)
  BY <1>5 DEF TypeOK, WakeToken, SigHolders, At, RekickStamp, StampKick
<1>6. CASE RekickCall(c)
  BY <1>6 DEF TypeOK, WakeToken, SigHolders, At, RekickCall, KickCpu
<1>7. CASE RekickClear(c)
  BY <1>7 DEF TypeOK, WakeToken, SigHolders, At, RekickClear
<1> QED
  BY <1>1, <1>2, <1>3, <1>4, <1>5, <1>6, <1>7 DEF Rekicking

LEMMA WakeTokenWaking == ASSUME TypeOK, WakeToken, NEW c \in Cpu, Waking(c) PROVE WakeToken'
<1>1. CASE ReadRunnable(c)
  BY <1>1 DEF TypeOK, WakeToken, SigHolders, At, ReadRunnable
<1>2. CASE ReadFree(c)
  BY <1>2 DEF TypeOK, WakeToken, SigHolders, At, ReadFree
<1>3. CASE CasSig(c)
  BY <1>3 DEF TypeOK, WakeToken, SigHolders, At, CasSig
<1>4. CASE SetWakeNum(c)
  BY <1>4 DEF TypeOK, WakeToken, SigHolders, At, SetWakeNum
<1>5. CASE ReadInactive(c)
  BY <1>5 DEF TypeOK, WakeToken, SigHolders, At, ReadInactive
<1>6. CASE DcasInactive(c)
  BY <1>6 DEF TypeOK, WakeToken, SigHolders, At, DcasInactive, Publish
<1>7. CASE Claim(c)
  BY <1>7 DEF TypeOK, WakeToken, SigHolders, At, Claim
<1>8. CASE SetSig(c)
  BY <1>8 DEF TypeOK, WakeToken, SigHolders, At, SetSig
<1>9. ASSUME NEW v \in Cpu, Extract(c, v) PROVE WakeToken'
  BY <1>9 DEF TypeOK, WakeToken, SigHolders, At, Extract
<1>10. CASE NoneToKick(c)
  BY <1>10 DEF TypeOK, WakeToken, SigHolders, At, NoneToKick, Branch
<1>11. CASE TestFirstKick(c)
  BY <1>11 DEF TypeOK, WakeToken, SigHolders, At, TestFirstKick, Branch
<1>12. CASE CountKickedAsFree(c)
  BY <1>12 DEF TypeOK, WakeToken, SigHolders, At, CountKickedAsFree, AddFree
<1>13. CASE KickStamp(c)
  BY <1>13 DEF TypeOK, WakeToken, SigHolders, At, KickStamp, StampKick
<1>14. CASE MarkKicked(c)
  BY <1>14 DEF TypeOK, WakeToken, SigHolders, At, MarkKicked
<1>15. CASE Kick(c)
  BY <1>15 DEF TypeOK, WakeToken, SigHolders, At, Kick, KickCpu
<1>16. CASE ClearReflective(c)
  BY <1>16 DEF TypeOK, WakeToken, SigHolders, At, ClearReflective
<1> QED
  BY <1>1, <1>2, <1>3, <1>4, <1>5, <1>6, <1>7, <1>8, <1>9, <1>10, <1>11, <1>12, <1>13, <1>14,
     <1>15, <1>16 DEF Waking

LEMMA WakeTokenGettingWork ==
  ASSUME TypeOK, WakeToken, NEW c \in Cpu, GettingWork(c) PROVE WakeToken'
<1>1. ASSUME NEW f \in Fn, TakeWork(c, f) PROVE WakeToken'
  BY <1>1 DEF TypeOK, WakeToken, SigHolders, At, TakeWork
<1>2. CASE WordEmpty(c)
  BY <1>2 DEF TypeOK, WakeToken, SigHolders, At, WordEmpty
<1>3. CASE TakenDecFree(c)
  BY <1>3 DEF TypeOK, WakeToken, SigHolders, At, TakenDecFree, AddFree
<1>4. CASE JumpToFn(c)
  BY <1>4 DEF TypeOK, WakeToken, SigHolders, At, JumpToFn
<1> QED
  BY <1>1, <1>2, <1>3, <1>4 DEF GettingWork

LEMMA WakeTokenWinning == ASSUME TypeOK, WakeToken, NEW c \in Cpu, Winning(c) PROVE WakeToken'
<1>1. CASE WinnerIncFree(c)
  BY <1>1 DEF TypeOK, WakeToken, SigHolders, At, WinnerIncFree, AddFree
<1>2. CASE Wipe(c)
  BY <1>2 DEF TypeOK, WakeToken, SigHolders, At, Wipe
<1>3. CASE RecoverTestKicked(c)
  BY <1>3 DEF TypeOK, WakeToken, SigHolders, At, RecoverTestKicked, Branch
<1>4. CASE RecoverPopcnt(c)
  BY <1>4 DEF TypeOK, WakeToken, SigHolders, At, RecoverPopcnt, Branch
<1>5. CASE RecoverFree(c)
  BY <1>5 DEF TypeOK, WakeToken, SigHolders, At, RecoverFree
<1>6. CASE RecoverRunnable(c)
  BY <1>6 DEF TypeOK, WakeToken, SigHolders, At, RecoverRunnable
<1>7. CASE CopyInCounts(c)
  BY <1>7 DEF TypeOK, WakeToken, SigHolders, At, CopyInCounts
<1> QED
  BY <1>1, <1>2, <1>3, <1>4, <1>5, <1>6, <1>7 DEF Winning

LEMMA WakeTokenIdling == ASSUME TypeOK, WakeToken, NEW c \in Cpu, Idling(c) PROVE WakeToken'
<1>1. CASE NoWorkDecFree(c)
  BY <1>1 DEF TypeOK, WakeToken, SigHolders, At, NoWorkDecFree, AddFree
<1>2. CASE CasFinFn(c)
  BY <1>2 DEF TypeOK, WakeToken, SigHolders, At, CasFinFn
<1>3. CASE StampHlt(c)
  BY <1>3 DEF TypeOK, WakeToken, SigHolders, At, StampHlt
<1>4. CASE MarkInactive(c)
  BY <1>4 DEF TypeOK, WakeToken, SigHolders, At, MarkInactive
<1>5. CASE ClearInactive(c)
  BY <1>5 DEF TypeOK, WakeToken, SigHolders, At, ClearInactive
<1>6. CASE ClearKicked(c)
  BY <1>6 DEF TypeOK, WakeToken, SigHolders, At, ClearKicked, AfterWake
<1>7. CASE SpuriousIncFree(c)
  BY <1>7 DEF TypeOK, WakeToken, SigHolders, At, SpuriousIncFree, AfterWake, AddFree
<1> QED
  BY <1>1, <1>2, <1>3, <1>4, <1>5, <1>6, <1>7 DEF Idling

LEMMA WakeTokenExternal == ASSUME TypeOK, WakeToken, NEW c \in Cpu, External(c) PROVE WakeToken'
<1>1. CASE UserReturn(c)
  BY <1>1 DEF TypeOK, WakeToken, SigHolders, At, UserReturn
<1>2. CASE WaitingForWork(c)
  BY <1>2 DEF TypeOK, WakeToken, SigHolders, At, WaitingForWork
<1>3. CASE Wake(c)
  BY <1>3 DEF TypeOK, WakeToken, SigHolders, At, Wake
<1>4. CASE UserFault(c)
  BY <1>4 DEF TypeOK, WakeToken, SigHolders, At, UserFault, Branch
<1> QED
  BY <1>1, <1>2, <1>3, <1>4 DEF External

LEMMA WakeTokenStep == TypeOK /\ WakeToken /\ [Next]_vars => WakeToken'
<1> SUFFICES ASSUME TypeOK, WakeToken, [Next]_vars PROVE WakeToken'
  OBVIOUS
<1>1. ASSUME NEW c \in Cpu, Kernel(c) PROVE WakeToken'
  BY <1>1, WakeTokenCompletion, WakeTokenRekicking, WakeTokenWaking, WakeTokenGettingWork,
     WakeTokenWinning,
     WakeTokenIdling DEF Kernel
<1>2. ASSUME NEW c \in Cpu, External(c) PROVE WakeToken'
  BY <1>2, WakeTokenExternal
<1>3. CASE UNCHANGED vars
  BY <1>3 DEF vars, WakeToken, SigHolders, At
<1> QED
  BY <1>1, <1>2, <1>3 DEF Next

\* With any number of vcpus, the right to set wake_num_vcpu is never lost nor held twice.
THEOREM WakeTokenKept == Spec => []WakeToken
<1>1. Init => WakeToken
  BY DEF Init, WakeToken, SigHolders, At
<1> QED
  BY <1>1, TypeCorrect, WakeTokenStep, PTL DEF Spec

-----------------------------------------------------------------------------
(* NoStrandedWork                                                          *)

LEMMA NoStrandedWorkCompletion ==
  ASSUME TypeOK, NoStrandedWork, NEW c \in Cpu, Completion(c) PROVE NoStrandedWork'
<1>1. CASE StartSched(c)
  BY <1>1, WordAssumption DEF TypeOK, NoStrandedWork, WillScan, StartSched, AfterDag
<1>2. ASSUME NEW g \in Fn, DecInCount(c, g) PROVE NoStrandedWork'
  BY <1>2, WordAssumption DEF TypeOK, NoStrandedWork, WillScan, DecInCount
<1>3. CASE AddRunnableInc(c)
  BY <1>3, WordAssumption DEF TypeOK, NoStrandedWork, WillScan, AddRunnableInc
<1>4. CASE AddRunnableBit(c)
  BY <1>4, WordAssumption DEF TypeOK, NoStrandedWork, WillScan, AddRunnableBit
<1>5. CASE DagProcessed(c)
  BY <1>5, WordAssumption DEF TypeOK, NoStrandedWork, WillScan, DagProcessed, AfterDag
<1>6. CASE IncFinFn(c)
  BY <1>6, WordAssumption DEF TypeOK, NoStrandedWork, WillScan, IncFinFn
<1> QED
  BY <1>1, <1>2, <1>3, <1>4, <1>5, <1>6 DEF Completion

LEMMA NoStrandedWorkRekicking ==
  ASSUME TypeOK, NoStrandedWork, NEW c \in Cpu, Rekicking(c) PROVE NoStrandedWork'
<1>1. CASE ReadKicked(c)
  BY <1>1, WordAssumption DEF TypeOK, NoStrandedWork, WillScan, ReadKicked
<1>2. CASE DcasKicked(c)
  BY <1>2, WordAssumption DEF TypeOK, NoStrandedWork, WillScan, DcasKicked, Publish
<1>3. ASSUME NEW v \in Cpu, RekickExtract(c, v) PROVE NoStrandedWork'
  BY <1>3, WordAssumption DEF TypeOK, NoStrandedWork, WillScan, RekickExtract
<1>4. CASE RekickDone(c)
  BY <1>4, WordAssumption DEF TypeOK, NoStrandedWork, WillScan, RekickDone, Branch
<1>5. CASE RekickStamp(c)
  BY <1>5, WordAssumption DEF TypeOK, NoStrandedWork, WillScan, RekickStamp, StampKick
<1>6. CASE RekickCall(c)
  BY <1>6, WordAssumption DEF TypeOK, NoStrandedWork, WillScan, RekickCall, KickCpu
<1>7. CASE RekickClear(c)
  BY <1>7, WordAssumption DEF TypeOK, NoStrandedWork, WillScan, RekickClear
<1> QED
  BY <1>1, <1>2, <1>3, <1>4, <1>5, <1>6, <1>7 DEF Rekicking

LEMMA NoStrandedWorkWaking ==
  ASSUME TypeOK, NoStrandedWork, NEW c \in Cpu, Waking(c) PROVE NoStrandedWork'
<1>1. CASE ReadRunnable(c)
  BY <1>1, WordAssumption DEF TypeOK, NoStrandedWork, WillScan, ReadRunnable
<1>2. CASE ReadFree(c)
  BY <1>2, WordAssumption DEF TypeOK, NoStrandedWork, WillScan, ReadFree
<1>3. CASE CasSig(c)
  BY <1>3, WordAssumption DEF TypeOK, NoStrandedWork, WillScan, CasSig
<1>4. CASE SetWakeNum(c)
  BY <1>4, WordAssumption DEF TypeOK, NoStrandedWork, WillScan, SetWakeNum
<1>5. CASE ReadInactive(c)
  BY <1>5, WordAssumption DEF TypeOK, NoStrandedWork, WillScan, ReadInactive
<1>6. CASE DcasInactive(c)
  BY <1>6, WordAssumption DEF TypeOK, NoStrandedWork, WillScan, DcasInactive, Publish
<1>7. CASE Claim(c)
  BY <1>7, WordAssumption DEF TypeOK, NoStrandedWork, WillScan, Claim
<1>8. CASE SetSig(c)
  BY <1>8, WordAssumption DEF TypeOK, NoStrandedWork, WillScan, SetSig
<1>9. ASSUME NEW v \in Cpu, Extract(c, v) PROVE NoStrandedWork'
  BY <1>9, WordAssumption DEF TypeOK, NoStrandedWork, WillScan, Extract
<1>10. CASE NoneToKick(c)
  BY <1>10, WordAssumption DEF TypeOK, NoStrandedWork, WillScan, NoneToKick, Branch
<1>11. CASE TestFirstKick(c)
  BY <1>11, WordAssumption DEF TypeOK, NoStrandedWork, WillScan, TestFirstKick, Branch
<1>12. CASE CountKickedAsFree(c)
  BY <1>12, WordAssumption DEF TypeOK, NoStrandedWork, WillScan, CountKickedAsFree, AddFree
<1>13. CASE KickStamp(c)
  BY <1>13, WordAssumption DEF TypeOK, NoStrandedWork, WillScan, KickStamp, StampKick
<1>14. CASE MarkKicked(c)
  BY <1>14, WordAssumption DEF TypeOK, NoStrandedWork, WillScan, MarkKicked
<1>15. CASE Kick(c)
  BY <1>15, WordAssumption DEF TypeOK, NoStrandedWork, WillScan, Kick, KickCpu
<1>16. CASE ClearReflective(c)
  BY <1>16, WordAssumption DEF TypeOK, NoStrandedWork, WillScan, ClearReflective
<1> QED
  BY <1>1, <1>2, <1>3, <1>4, <1>5, <1>6, <1>7, <1>8, <1>9, <1>10, <1>11, <1>12, <1>13, <1>14,
     <1>15, <1>16 DEF Waking

LEMMA NoStrandedWorkGettingWork ==
  ASSUME TypeOK, NoStrandedWork, NEW c \in Cpu, GettingWork(c) PROVE NoStrandedWork'
<1>1. ASSUME NEW f \in Fn, TakeWork(c, f) PROVE NoStrandedWork'
  BY <1>1, WordAssumption DEF TypeOK, NoStrandedWork, WillScan, TakeWork
<1>2. CASE WordEmpty(c)
  BY <1>2, WordAssumption DEF TypeOK, NoStrandedWork, WillScan, WordEmpty
<1>3. CASE TakenDecFree(c)
  BY <1>3, WordAssumption DEF TypeOK, NoStrandedWork, WillScan, TakenDecFree, AddFree
<1>4. CASE JumpToFn(c)
  BY <1>4, WordAssumption DEF TypeOK, NoStrandedWork, WillScan, JumpToFn
<1> QED
  BY <1>1, <1>2, <1>3, <1>4 DEF GettingWork

LEMMA NoStrandedWorkWinning ==
  ASSUME TypeOK, NoStrandedWork, NEW c \in Cpu, Winning(c) PROVE NoStrandedWork'
<1>1. CASE WinnerIncFree(c)
  BY <1>1, WordAssumption DEF TypeOK, NoStrandedWork, WillScan, WinnerIncFree, AddFree
<1>2. CASE Wipe(c)
  BY <1>2, WordAssumption DEF TypeOK, NoStrandedWork, WillScan, Wipe
<1>3. CASE RecoverTestKicked(c)
  BY <1>3, WordAssumption DEF TypeOK, NoStrandedWork, WillScan, RecoverTestKicked, Branch
<1>4. CASE RecoverPopcnt(c)
  BY <1>4, WordAssumption DEF TypeOK, NoStrandedWork, WillScan, RecoverPopcnt, Branch
<1>5. CASE RecoverFree(c)
  BY <1>5, WordAssumption DEF TypeOK, NoStrandedWork, WillScan, RecoverFree
<1>6. CASE RecoverRunnable(c)
  BY <1>6, WordAssumption DEF TypeOK, NoStrandedWork, WillScan, RecoverRunnable
<1>7. CASE CopyInCounts(c)
  BY <1>7, WordAssumption DEF TypeOK, NoStrandedWork, WillScan, CopyInCounts
<1> QED
  BY <1>1, <1>2, <1>3, <1>4, <1>5, <1>6, <1>7 DEF Winning

LEMMA NoStrandedWorkIdling ==
  ASSUME TypeOK, NoStrandedWork, NEW c \in Cpu, Idling(c) PROVE NoStrandedWork'
<1>1. CASE NoWorkDecFree(c)
  BY <1>1, WordAssumption DEF TypeOK, NoStrandedWork, WillScan, NoWorkDecFree, AddFree
<1>2. CASE CasFinFn(c)
  BY <1>2, WordAssumption DEF TypeOK, NoStrandedWork, WillScan, CasFinFn
<1>3. CASE StampHlt(c)
  BY <1>3, WordAssumption DEF TypeOK, NoStrandedWork, WillScan, StampHlt
<1>4. CASE MarkInactive(c)
  BY <1>4, WordAssumption DEF TypeOK, NoStrandedWork, WillScan, MarkInactive
<1>5. CASE ClearInactive(c)
  BY <1>5, WordAssumption DEF TypeOK, NoStrandedWork, WillScan, ClearInactive
<1>6. CASE ClearKicked(c)
  BY <1>6, WordAssumption DEF TypeOK, NoStrandedWork, WillScan, ClearKicked, AfterWake
<1>7. CASE SpuriousIncFree(c)
  BY <1>7, WordAssumption DEF TypeOK, NoStrandedWork, WillScan, SpuriousIncFree, AfterWake,
     AddFree
<1> QED
  BY <1>1, <1>2, <1>3, <1>4, <1>5, <1>6, <1>7 DEF Idling

LEMMA NoStrandedWorkExternal ==
  ASSUME TypeOK, NoStrandedWork, NEW c \in Cpu, External(c) PROVE NoStrandedWork'
<1>1. CASE UserReturn(c)
  BY <1>1, WordAssumption DEF TypeOK, NoStrandedWork, WillScan, UserReturn
<1>2. CASE WaitingForWork(c)
  BY <1>2, WordAssumption DEF TypeOK, NoStrandedWork, WillScan, WaitingForWork
<1>3. CASE Wake(c)
  BY <1>3, WordAssumption DEF TypeOK, NoStrandedWork, WillScan, Wake
<1>4. CASE UserFault(c)
  BY <1>4, WordAssumption DEF TypeOK, NoStrandedWork, WillScan, UserFault, Branch
<1> QED
  BY <1>1, <1>2, <1>3, <1>4 DEF External

LEMMA NoStrandedWorkStep == TypeOK /\ NoStrandedWork /\ [Next]_vars => NoStrandedWork'
<1> SUFFICES ASSUME TypeOK, NoStrandedWork, [Next]_vars PROVE NoStrandedWork'
  OBVIOUS
<1>1. ASSUME NEW c \in Cpu, Kernel(c) PROVE NoStrandedWork'
  BY <1>1, NoStrandedWorkCompletion, NoStrandedWorkRekicking, NoStrandedWorkWaking,
     NoStrandedWorkGettingWork, NoStrandedWorkWinning,
     NoStrandedWorkIdling DEF Kernel
<1>2. ASSUME NEW c \in Cpu, External(c) PROVE NoStrandedWork'
  BY <1>2, NoStrandedWorkExternal
<1>3. CASE UNCHANGED vars
  BY <1>3 DEF vars, NoStrandedWork, WillScan
<1> QED
  BY <1>1, <1>2, <1>3 DEF Next

\* Whatever the number of vcpus, the dag and the placing of its functions in the words of
\* bm_run_fn, and even if kicks are lost: a queued function has a vcpu that will scan it.
THEOREM WorkNeverStranded == Spec => []NoStrandedWork
<1>1. Init => NoStrandedWork
  BY DEF Init, NoStrandedWork
<1> QED
  BY <1>1, TypeCorrect, NoStrandedWorkStep, PTL DEF Spec

-----------------------------------------------------------------------------
(* SnapshotDrains                                                          *)

LEMMA SnapshotDrainsCompletion ==
  ASSUME TypeOK, SnapshotDrains, NEW c \in Cpu, Completion(c) PROVE SnapshotDrains'
<1>1. CASE StartSched(c)
  BY <1>1 DEF TypeOK, SnapshotDrains, Draining, Draining1, StartSched, AfterDag
<1>2. ASSUME NEW g \in Fn, DecInCount(c, g) PROVE SnapshotDrains'
  <2> SUFFICES /\ \A v \in ss_reflective_bm'[1] : Draining(v)'
               /\ \A v \in ss_reflective_bm1'[1] : Draining1(v)'
    BY DEF SnapshotDrains
  <2>1. ASSUME NEW v \in ss_reflective_bm'[1] PROVE Draining(v)'
    BY <1>2, <2>1 DEF TypeOK, SnapshotDrains, Draining, DecInCount
  <2>2. ASSUME NEW v \in ss_reflective_bm1'[1] PROVE Draining1(v)'
    BY <1>2, <2>2 DEF TypeOK, SnapshotDrains, Draining1, DecInCount
  <2> QED
    BY <2>1, <2>2
<1>3. CASE AddRunnableInc(c)
  BY <1>3 DEF TypeOK, SnapshotDrains, Draining, Draining1, AddRunnableInc
<1>4. CASE AddRunnableBit(c)
  BY <1>4 DEF TypeOK, SnapshotDrains, Draining, Draining1, AddRunnableBit
<1>5. CASE DagProcessed(c)
  BY <1>5 DEF TypeOK, SnapshotDrains, Draining, Draining1, DagProcessed, AfterDag
<1>6. CASE IncFinFn(c)
  BY <1>6 DEF TypeOK, SnapshotDrains, Draining, Draining1, IncFinFn
<1> QED
  BY <1>1, <1>2, <1>3, <1>4, <1>5, <1>6 DEF Completion

LEMMA SnapshotDrainsRekicking ==
  ASSUME TypeOK, SnapshotDrains, NEW c \in Cpu, Rekicking(c) PROVE SnapshotDrains'
<1>1. CASE ReadKicked(c)
  BY <1>1 DEF TypeOK, SnapshotDrains, Draining, Draining1, ReadKicked
<1>2. CASE DcasKicked(c)
  BY <1>2 DEF TypeOK, SnapshotDrains, Draining, Draining1, DcasKicked, Publish
<1>3. ASSUME NEW v \in Cpu, RekickExtract(c, v) PROVE SnapshotDrains'
  BY SMTT(30), <1>3 DEF TypeOK, SnapshotDrains, Draining, Draining1, RekickExtract
<1>4. CASE RekickDone(c)
  BY <1>4 DEF TypeOK, SnapshotDrains, Draining, Draining1, RekickDone, Branch
<1>5. CASE RekickStamp(c)
  BY <1>5 DEF TypeOK, SnapshotDrains, Draining, Draining1, RekickStamp, StampKick
<1>6. CASE RekickCall(c)
  BY <1>6 DEF TypeOK, SnapshotDrains, Draining, Draining1, RekickCall, KickCpu
<1>7. CASE RekickClear(c)
  BY <1>7 DEF TypeOK, SnapshotDrains, Draining, Draining1, RekickClear
<1> QED
  BY <1>1, <1>2, <1>3, <1>4, <1>5, <1>6, <1>7 DEF Rekicking

LEMMA SnapshotDrainsWaking ==
  ASSUME TypeOK, SnapshotDrains, NEW c \in Cpu, Waking(c) PROVE SnapshotDrains'
<1>1. CASE ReadRunnable(c)
  BY <1>1 DEF TypeOK, SnapshotDrains, Draining, Draining1, ReadRunnable
<1>2. CASE ReadFree(c)
  BY <1>2 DEF TypeOK, SnapshotDrains, Draining, Draining1, ReadFree
<1>3. CASE CasSig(c)
  BY <1>3 DEF TypeOK, SnapshotDrains, Draining, Draining1, CasSig
<1>4. CASE SetWakeNum(c)
  BY <1>4 DEF TypeOK, SnapshotDrains, Draining, Draining1, SetWakeNum
<1>5. CASE ReadInactive(c)
  BY <1>5 DEF TypeOK, SnapshotDrains, Draining, Draining1, ReadInactive
<1>6. CASE DcasInactive(c)
  BY <1>6 DEF TypeOK, SnapshotDrains, Draining, Draining1, DcasInactive, Publish
<1>7. CASE Claim(c)
  BY <1>7 DEF TypeOK, SnapshotDrains, Draining, Draining1, Claim
<1>8. CASE SetSig(c)
  BY <1>8 DEF TypeOK, SnapshotDrains, Draining, Draining1, SetSig
<1>9. ASSUME NEW v \in Cpu, Extract(c, v) PROVE SnapshotDrains'
  BY SMTT(30), <1>9 DEF TypeOK, SnapshotDrains, Draining, Draining1, Extract
<1>10. CASE NoneToKick(c)
  BY <1>10 DEF TypeOK, SnapshotDrains, Draining, Draining1, NoneToKick, Branch
<1>11. CASE TestFirstKick(c)
  BY <1>11 DEF TypeOK, SnapshotDrains, Draining, Draining1, TestFirstKick, Branch
<1>12. CASE CountKickedAsFree(c)
  BY <1>12 DEF TypeOK, SnapshotDrains, Draining, Draining1, CountKickedAsFree, AddFree
<1>13. CASE KickStamp(c)
  BY <1>13 DEF TypeOK, SnapshotDrains, Draining, Draining1, KickStamp, StampKick
<1>14. CASE MarkKicked(c)
  BY <1>14 DEF TypeOK, SnapshotDrains, Draining, Draining1, MarkKicked
<1>15. CASE Kick(c)
  BY <1>15 DEF TypeOK, SnapshotDrains, Draining, Draining1, Kick, KickCpu
<1>16. CASE ClearReflective(c)
  <2> SUFFICES /\ \A v \in ss_reflective_bm'[1] : Draining(v)'
               /\ \A v \in ss_reflective_bm1'[1] : Draining1(v)'
    BY DEF SnapshotDrains
  <2>1. ASSUME NEW v \in ss_reflective_bm'[1] PROVE Draining(v)'
    BY <1>16, <2>1 DEF TypeOK, SnapshotDrains, Draining, ClearReflective
  <2>2. ASSUME NEW v \in ss_reflective_bm1'[1] PROVE Draining1(v)'
    BY <1>16, <2>2 DEF TypeOK, SnapshotDrains, Draining1, ClearReflective
  <2> QED
    BY <2>1, <2>2
<1> QED
  BY <1>1, <1>2, <1>3, <1>4, <1>5, <1>6, <1>7, <1>8, <1>9, <1>10, <1>11, <1>12, <1>13, <1>14,
     <1>15, <1>16 DEF Waking

LEMMA SnapshotDrainsGettingWork ==
  ASSUME TypeOK, SnapshotDrains, NEW c \in Cpu, GettingWork(c) PROVE SnapshotDrains'
<1>1. ASSUME NEW f \in Fn, TakeWork(c, f) PROVE SnapshotDrains'
  BY SMTT(30), <1>1 DEF TypeOK, SnapshotDrains, Draining, Draining1, TakeWork
<1>2. CASE WordEmpty(c)
  BY SMTT(30), <1>2 DEF TypeOK, SnapshotDrains, Draining, Draining1, WordEmpty
<1>3. CASE TakenDecFree(c)
  BY <1>3 DEF TypeOK, SnapshotDrains, Draining, Draining1, TakenDecFree, AddFree
<1>4. CASE JumpToFn(c)
  BY <1>4 DEF TypeOK, SnapshotDrains, Draining, Draining1, JumpToFn
<1> QED
  BY <1>1, <1>2, <1>3, <1>4 DEF GettingWork

LEMMA SnapshotDrainsWinning ==
  ASSUME TypeOK, SnapshotDrains, NEW c \in Cpu, Winning(c) PROVE SnapshotDrains'
<1>1. CASE WinnerIncFree(c)
  BY <1>1 DEF TypeOK, SnapshotDrains, Draining, Draining1, WinnerIncFree, AddFree
<1>2. CASE Wipe(c)
  <2> SUFFICES /\ \A v \in ss_reflective_bm'[1] : Draining(v)'
               /\ \A v \in ss_reflective_bm1'[1] : Draining1(v)'
    BY DEF SnapshotDrains
  <2>1. ASSUME NEW v \in ss_reflective_bm'[1] PROVE Draining(v)'
    BY <1>2, <2>1 DEF TypeOK, SnapshotDrains, Draining, Wipe
  <2>2. ASSUME NEW v \in ss_reflective_bm1'[1] PROVE Draining1(v)'
    BY <1>2, <2>2 DEF TypeOK, SnapshotDrains, Draining1, Wipe
  <2> QED
    BY <2>1, <2>2
<1>3. CASE RecoverTestKicked(c)
  BY <1>3 DEF TypeOK, SnapshotDrains, Draining, Draining1, RecoverTestKicked, Branch
<1>4. CASE RecoverPopcnt(c)
  BY <1>4 DEF TypeOK, SnapshotDrains, Draining, Draining1, RecoverPopcnt, Branch
<1>5. CASE RecoverFree(c)
  BY <1>5 DEF TypeOK, SnapshotDrains, Draining, Draining1, RecoverFree
<1>6. CASE RecoverRunnable(c)
  BY <1>6 DEF TypeOK, SnapshotDrains, Draining, Draining1, RecoverRunnable
<1>7. CASE CopyInCounts(c)
  BY <1>7 DEF TypeOK, SnapshotDrains, Draining, Draining1, CopyInCounts
<1> QED
  BY <1>1, <1>2, <1>3, <1>4, <1>5, <1>6, <1>7 DEF Winning

LEMMA SnapshotDrainsIdling ==
  ASSUME TypeOK, SnapshotDrains, NEW c \in Cpu, Idling(c) PROVE SnapshotDrains'
<1>1. CASE NoWorkDecFree(c)
  BY <1>1 DEF TypeOK, SnapshotDrains, Draining, Draining1, NoWorkDecFree, AddFree
<1>2. CASE CasFinFn(c)
  BY <1>2 DEF TypeOK, SnapshotDrains, Draining, Draining1, CasFinFn
<1>3. CASE StampHlt(c)
  BY <1>3 DEF TypeOK, SnapshotDrains, Draining, Draining1, StampHlt
<1>4. CASE MarkInactive(c)
  BY <1>4 DEF TypeOK, SnapshotDrains, Draining, Draining1, MarkInactive
<1>5. CASE ClearInactive(c)
  BY <1>5 DEF TypeOK, SnapshotDrains, Draining, Draining1, ClearInactive
<1>6. CASE ClearKicked(c)
  BY <1>6 DEF TypeOK, SnapshotDrains, Draining, Draining1, ClearKicked, AfterWake
<1>7. CASE SpuriousIncFree(c)
  BY <1>7 DEF TypeOK, SnapshotDrains, Draining, Draining1, SpuriousIncFree, AfterWake, AddFree
<1> QED
  BY <1>1, <1>2, <1>3, <1>4, <1>5, <1>6, <1>7 DEF Idling

LEMMA SnapshotDrainsExternal ==
  ASSUME TypeOK, SnapshotDrains, NEW c \in Cpu, External(c) PROVE SnapshotDrains'
<1>1. CASE UserReturn(c)
  BY <1>1 DEF TypeOK, SnapshotDrains, Draining, Draining1, UserReturn
<1>2. CASE WaitingForWork(c)
  BY <1>2 DEF TypeOK, SnapshotDrains, Draining, Draining1, WaitingForWork
<1>3. CASE Wake(c)
  BY <1>3 DEF TypeOK, SnapshotDrains, Draining, Draining1, Wake
<1>4. CASE UserFault(c)
  BY <1>4 DEF TypeOK, SnapshotDrains, Draining, Draining1, UserFault, Branch
<1> QED
  BY <1>1, <1>2, <1>3, <1>4 DEF External

LEMMA SnapshotDrainsStep == TypeOK /\ SnapshotDrains /\ [Next]_vars => SnapshotDrains'
<1> SUFFICES ASSUME TypeOK, SnapshotDrains, [Next]_vars PROVE SnapshotDrains'
  OBVIOUS
<1>1. ASSUME NEW c \in Cpu, Kernel(c) PROVE SnapshotDrains'
  BY <1>1, SnapshotDrainsCompletion, SnapshotDrainsRekicking, SnapshotDrainsWaking,
     SnapshotDrainsGettingWork, SnapshotDrainsWinning,
     SnapshotDrainsIdling DEF Kernel
<1>2. ASSUME NEW c \in Cpu, External(c) PROVE SnapshotDrains'
  BY <1>2, SnapshotDrainsExternal
<1>3. CASE UNCHANGED vars
  BY <1>3 DEF vars, SnapshotDrains, Draining, Draining1
<1> QED
  BY <1>1, <1>2, <1>3 DEF Next

\* No bit of a snapshot is ever left with nobody to clear it, so that the next snapshot of
\* idle vcpus can be published.
THEOREM SnapshotsDrain == Spec => []SnapshotDrains
<1>1. Init => SnapshotDrains
  BY DEF Init, SnapshotDrains, Zero
<1> QED
  BY <1>1, TypeCorrect, SnapshotDrainsStep, PTL DEF Spec

-----------------------------------------------------------------------------
(* 2. The way of the functions.                                            *)

DagInv == Lifecycle /\ RunnableExact /\ InCountExact /\ WinnerAlone

QuietPC == IdlePC \cup {"new_work", "woken", "clear_kicked", "spurious"}

\* A step of c that moves no function.
Silent(c) ==
  /\ UNCHANGED <<queue, run, edges>>
  /\ \E l \in PC : /\ pc' = [pc EXCEPT ![c] = l]
                   /\ \/ pc[c] \in WakePC /\ l \in WakePC
                      \/ pc[c] \in QuietPC /\ l \in QuietPC
                      \/ pc[c] \in ResetPC /\ l \in ResetPC
                      \/ pc[c] \in {"clear_kicked", "spurious"} /\ l = "start"
                      \/ pc[c] = "start" /\ current[c] = Null /\ l \in WakePC
                      \/ pc[c] = "fin" /\ fn[c] = Null /\ l = "new_work"
                      \/ pc[c] = "taken" /\ l = "taken_runnable"
                      \/ pc[c] = "user" /\ l = "stopped"

\* A vcpu that has executed a function begins to process it, or counts it; the winner's CAS.
StartProcessing(c) == current[c] # Null /\ StartSched(c)
CountFn(c) == fn[c] # Null /\ IncFinFn(c)
Win(c) == num_fin_fn = Cardinality(Fn) /\ CasFinFn(c)

Visible(c) == \/ UserReturn(c) \/ StartProcessing(c) \/ (\E g \in Fn : DecInCount(c, g))
              \/ AddRunnableInc(c) \/ AddRunnableBit(c) \/ DagProcessed(c) \/ CountFn(c)
              \/ (\E f \in Fn : TakeWork(c, f)) \/ JumpToFn(c) \/ Win(c) \/ WaitingForWork(c)
              \/ CopyInCounts(c)

-----------------------------------------------------------------------------
(* Every step is one of these.                                             *)

LEMMA SilentRekicking == ASSUME NEW c \in Cpu, Rekicking(c) PROVE Silent(c)
BY DEF Rekicking, Silent, WakePC, ReadKicked, DcasKicked, RekickExtract, RekickDone, RekickStamp,
       RekickCall, RekickClear, StampKick, KickCpu, Branch

LEMMA SilentWaking == ASSUME NEW c \in Cpu, Waking(c) PROVE Silent(c)
BY DEF Waking, Silent, WakePC, ReadRunnable, ReadFree, CasSig, SetWakeNum, ReadInactive,
       DcasInactive, Claim, SetSig, Extract, NoneToKick, TestFirstKick, CountKickedAsFree,
       KickStamp, MarkKicked, Kick, ClearReflective, StampKick, KickCpu, Branch, AddFree

LEMMA SilentWinning ==
  ASSUME WinnerAlone, NEW c \in Cpu, Winning(c) PROVE Silent(c) \/ CopyInCounts(c)
<1>1. CASE RecoverRunnable(c)
  <2>1. runnable_tasks = 0
    BY <1>1 DEF WinnerAlone, At, RecoverRunnable
  <2> QED
    BY <1>1, <2>1 DEF Silent, ResetPC, RecoverRunnable
<1>2. CASE WinnerIncFree(c) \/ Wipe(c) \/ RecoverTestKicked(c) \/ RecoverPopcnt(c) \/ RecoverFree(c)
  BY <1>2 DEF Silent, ResetPC, WinnerIncFree, Wipe, RecoverTestKicked, RecoverPopcnt, RecoverFree,
              Branch, AddFree
<1> QED
  BY <1>1, <1>2 DEF Winning

LEMMA SilentIdling == ASSUME NEW c \in Cpu, Idling(c) PROVE Silent(c) \/ Win(c)
<1>1. CASE CasFinFn(c)
  BY <1>1 DEF CasFinFn, Win, Silent, QuietPC
<1>2. CASE ClearKicked(c) \/ SpuriousIncFree(c)
  BY <1>2 DEF ClearKicked, SpuriousIncFree, AfterWake, Silent, QuietPC
<1>3. CASE NoWorkDecFree(c) \/ StampHlt(c) \/ MarkInactive(c) \/ ClearInactive(c)
  BY <1>3 DEF NoWorkDecFree, StampHlt, MarkInactive, ClearInactive, AddFree, Silent, QuietPC
<1> QED
  BY <1>1, <1>2, <1>3 DEF Idling

LEMMA SilentCompletion ==
  ASSUME TypeOK, LocalOK, NEW c \in Cpu, Completion(c) PROVE Silent(c) \/ Visible(c)
<1>1. CASE StartSched(c) /\ current[c] = Null
  <2>1. fn' = fn
    BY <1>1 DEF StartSched, LocalOK, TypeOK, WakePC
  <2> QED
    BY <1>1, <2>1 DEF StartSched, AfterDag, Silent, WakePC
<1>2. CASE IncFinFn(c) /\ fn[c] = Null
  BY <1>2 DEF IncFinFn, TypeOK, Silent
<1>3. CASE StartSched(c) /\ current[c] # Null
  BY <1>3 DEF Visible, StartProcessing
<1>4. CASE IncFinFn(c) /\ fn[c] # Null
  BY <1>4 DEF Visible, CountFn
<1> QED
  BY <1>1, <1>2, <1>3, <1>4 DEF Completion, Visible

LEMMA SilentOrVisible ==
  ASSUME TypeOK, LocalOK, WinnerAlone, NEW c \in Cpu, Kernel(c) \/ External(c)
  PROVE  Silent(c) \/ Visible(c)
<1>1. CASE GettingWork(c)
  BY <1>1 DEF GettingWork, WordEmpty, TakenDecFree, AddFree, Silent, QuietPC, Visible
<1>2. CASE External(c)
  BY <1>2 DEF External, UserFault, Wake, Branch, Silent, QuietPC, Visible
<1> QED
  BY <1>1, <1>2, SilentCompletion, SilentRekicking, SilentWaking, SilentWinning, SilentIdling
     DEF Kernel, Visible

-----------------------------------------------------------------------------
(* What the cardinalities depend on                                        *)

PendingPreds(g) == {f \in Pred(g) : EdgePending(f, g)}
Moving == At({"add_runnable_bit", "taken", "taken_runnable"})

\* A step after which every function is where it was.
SamePlaces ==
  /\ bm_run_fn' = bm_run_fn /\ done' = done
  /\ \A c \in Cpu, f \in Fn : /\ Holds(c, f)' <=> Holds(c, f)
                              /\ Processes(c, f)' <=> Processes(c, f)
  /\ \A g \in Fn : \A f \in Pred(g) : EdgePending(f, g)' <=> EdgePending(f, g)

LEMMA Finite ==
  ASSUME TypeOK
  PROVE  /\ IsFiniteSet(bm_run_fn) /\ IsFiniteSet(Moving) /\ IsFiniteSet(Finished)
         /\ \A g \in Fn : IsFiniteSet(PendingPreds(g))
<1>1. bm_run_fn \in SUBSET Fn /\ Finished \in SUBSET Fn /\ Moving \in SUBSET Cpu
  BY DEF TypeOK, Finished, Moving, At
<1>2. \A g \in Fn : PendingPreds(g) \in SUBSET Fn
  BY DEF PendingPreds, Pred
<1> QED
  BY <1>1, <1>2, CpuAssumption, FnAssumption, FS_Subset

\* While a vcpu is busy or a function is queued nobody is the winner.
LEMMA NoWinner ==
  ASSUME WinnerAlone, NEW c \in Cpu, Busy(c) \/ bm_run_fn # {}
  PROVE  At(WinnerPC) = {}
BY DEF WinnerAlone, At

LEMMA SamePlacesKept ==
  ASSUME OnePlace, NoPending, TypeOK, SamePlaces
  PROVE  /\ OnePlace' /\ NoPending'
         /\ Finished' = Finished
         /\ \A g \in Fn : PendingPreds(g)' = PendingPreds(g)
<1>1. OnePlace'
  BY DEF OnePlace, SamePlaces
<1>2. NoPending'
  BY DEF NoPending, Active, SamePlaces
<1>3. Finished' = Finished
  BY DEF Finished, SamePlaces, TypeOK
<1>4. \A g \in Fn : PendingPreds(g)' = PendingPreds(g)
  BY DEF PendingPreds, SamePlaces
<1> QED
  BY <1>1, <1>2, <1>3, <1>4

-----------------------------------------------------------------------------
(* DagInv is kept by the silent steps.                                     *)

LEMMA SilentSamePlaces ==
  ASSUME TypeOK, LocalOK, NEW c \in Cpu, Silent(c)
  PROVE  SamePlaces
<1> PICK l \in PC : /\ pc' = [pc EXCEPT ![c] = l]
                    /\ Silent(c)!2!(l)!2
  BY DEF Silent
<1>1. UNCHANGED <<bm_run_fn, done, fn, current, out_fn, todo>>
  BY DEF Silent
<1>2. \A d \in Cpu, f \in Fn : Holds(d, f)' <=> Holds(d, f)
  BY <1>1 DEF Holds, TypeOK, LocalOK, WakePC, QuietPC, ResetPC
<1>3. \A d \in Cpu, f \in Fn : Processes(d, f)' <=> Processes(d, f)
  BY <1>1, FnAssumption DEF Processes, TypeOK, LocalOK, WakePC, QuietPC, ResetPC
<1>4. \A g \in Fn : \A f \in Pred(g) : EdgePending(f, g)' <=> EdgePending(f, g)
  BY <1>1, FnAssumption DEF EdgePending, Pred, TypeOK, LocalOK, WakePC, QuietPC, ResetPC
<1> QED
  BY <1>1, <1>2, <1>3, <1>4 DEF SamePlaces

LEMMA SilentDag ==
  ASSUME TypeOK, TypeOK', DagInv, NEW c \in Cpu, Silent(c)
  PROVE  DagInv'
<1> USE DEF DagInv, Lifecycle
<1> PICK l \in PC : /\ pc' = [pc EXCEPT ![c] = l]
                    /\ Silent(c)!2!(l)!2
  BY DEF Silent
<1>1. UNCHANGED <<queue, run, edges>>
  BY DEF Silent
<1>2. SamePlaces
  BY SilentSamePlaces
<1>3. /\ OnePlace' /\ NoPending' /\ Finished' = Finished
      /\ \A g \in Fn : PendingPreds(g)' = PendingPreds(g)
  BY <1>2, SamePlacesKept
<1>4. LocalOK'
  BY <1>1 DEF LocalOK, TypeOK, WakePC, QuietPC, ResetPC
<1>5. /\ At({"waiting"})' = At({"waiting"}) /\ At(ResetPC)' = At(ResetPC)
      /\ At(WinnerPC)' = At(WinnerPC) /\ Moving' = Moving
  BY DEF At, Moving, TypeOK, WakePC, QuietPC, ResetPC
<1>6. FinExact' /\ ResetEmpty'
  BY <1>1, <1>3, <1>5 DEF FinExact, ResetEmpty
<1>7. RunnableExact'
  BY <1>1, <1>5 DEF RunnableExact, Moving
<1>8. InCountExact'
  BY <1>1, <1>3, <1>5 DEF InCountExact, PendingPreds, ResetPC
<1>9. \A d \in Cpu : Busy(d)' <=> Busy(d)
  BY <1>1 DEF Busy, TypeOK, LocalOK, WakePC, QuietPC, ResetPC
<1>10. WinnerAlone'
  <2> SUFFICES ASSUME NEW w \in At(WinnerPC)
               PROVE  /\ bm_run_fn = {} /\ runnable_tasks = 0
                      /\ pc'[w] = "waiting" => done = Fn
                      /\ \A d \in Cpu : ~Busy(d) /\ (pc'[d] \in WinnerPC => d = w)
    BY <1>1, <1>5, <1>9 DEF WinnerAlone
  <2>1. pc'[w] = "waiting" => pc[w] = "waiting"
    BY DEF TypeOK, At, WakePC, QuietPC, ResetPC
  <2>2. \A d \in Cpu : pc'[d] \in WinnerPC <=> pc[d] \in WinnerPC
    BY <1>5 DEF At
  <2> QED
    BY <2>1, <2>2 DEF WinnerAlone
<1> QED
  BY <1>3, <1>4, <1>6, <1>7, <1>8, <1>10

-----------------------------------------------------------------------------
(* DagInv is kept by the steps of a function's way through an invocation.  *)

LEMMA BusyHas ==
  ASSUME TypeOK, LocalOK, NEW c \in Cpu
  PROVE  Busy(c) <=> \E f \in Fn : Holds(c, f) \/ Processes(c, f)
BY FnAssumption DEF Busy, Holds, Processes, TypeOK, LocalOK, WakePC

LEMMA UserReturnDag ==
  ASSUME TypeOK, TypeOK', DagInv, NEW c \in Cpu, UserReturn(c)
  PROVE  DagInv'
<1> USE DEF DagInv, Lifecycle
<1> DEFINE f0 == current[c]
<1>1. /\ pc[c] = "user" /\ pc' = [pc EXCEPT ![c] = "start"]
      /\ done' = done \cup {f0}
      /\ UNCHANGED <<queue, dag_in_count, num_fin_fn, current, edges>>
  BY DEF UserReturn
<1>2. /\ f0 \in Fn /\ fn[c] = Null /\ todo[c] = {}
      /\ Holds(c, f0) /\ f0 \notin done /\ f0 \notin bm_run_fn
  BY <1>1 DEF TypeOK, LocalOK, OnePlace, Holds, WakePC
<1>3. At(WinnerPC) = {}
  BY <1>1, NoWinner DEF Busy
<1>4. \A d \in Cpu, f \in Fn : Holds(d, f)' <=> Holds(d, f) /\ d # c
  BY <1>1 DEF Holds, TypeOK
<1>5. \A d \in Cpu, f \in Fn : Processes(d, f)' <=> Processes(d, f) \/ (d = c /\ f = f0)
  BY <1>1, <1>2, FnAssumption DEF Processes, TypeOK
<1>6. \A g \in Fn : \A f \in Pred(g) : EdgePending(f, g)' <=> EdgePending(f, g)
  BY <1>1, <1>2, FnAssumption DEF EdgePending, Pred, TypeOK
<1>7. OnePlace'
  BY <1>1, <1>2, <1>4, <1>5 DEF OnePlace
<1>8. NoPending'
  BY <1>1, <1>2, <1>4, <1>6 DEF NoPending, Active
<1>9. /\ Finished' = Finished
      /\ \A g \in Fn : PendingPreds(g)' = PendingPreds(g)
  BY <1>1, <1>2, <1>5, <1>6 DEF Finished, PendingPreds, TypeOK
<1>10. LocalOK'
  BY <1>1, <1>2 DEF LocalOK, TypeOK
<1>11. At(WinnerPC)' = {} /\ At({"waiting"})' = {} /\ At(ResetPC)' = {} /\ Moving' = Moving
  BY <1>1, <1>3 DEF At, Moving, TypeOK, ResetPC
<1>12. FinExact' /\ ResetEmpty' /\ RunnableExact' /\ InCountExact' /\ WinnerAlone'
  BY <1>1, <1>3, <1>9, <1>11
     DEF FinExact, ResetEmpty, RunnableExact, Moving, InCountExact, PendingPreds, WinnerAlone, At,
         ResetPC
<1> QED
  BY <1>7, <1>8, <1>10, <1>12

LEMMA StartProcessingDag ==
  ASSUME TypeOK, TypeOK', DagInv, NEW c \in Cpu, StartProcessing(c)
  PROVE  DagInv'
<1> USE DEF DagInv, Lifecycle
<1> DEFINE f0 == current[c]
<1>1. /\ pc[c] = "start" /\ pc' = [pc EXCEPT ![c] = "dag"]
      /\ fn' = [fn EXCEPT ![c] = f0] /\ todo' = [todo EXCEPT ![c] = Succ[f0]]
      /\ UNCHANGED <<queue, run, out_fn>>
  BY DEF StartProcessing, StartSched
<1>2. /\ f0 \in Fn /\ fn[c] = Null /\ todo[c] = {}
      /\ Processes(c, f0) /\ f0 \in done
  <2>1. f0 \in Fn
    BY DEF StartProcessing, TypeOK
  <2>2. fn[c] = Null /\ todo[c] = {}
    BY <1>1 DEF LocalOK, WakePC
  <2>3. Processes(c, f0)
    BY <1>1 DEF Processes
  <2> QED
    BY <2>1, <2>2, <2>3 DEF OnePlace
<1>3. At(WinnerPC) = {}
  BY <1>1, NoWinner DEF Busy, StartProcessing
<1>4. SamePlaces
  <2>1. \A d \in Cpu, f \in Fn : /\ Holds(d, f)' <=> Holds(d, f)
                                 /\ Processes(d, f)' <=> Processes(d, f)
    BY <1>1, <1>2, FnAssumption DEF Holds, Processes, TypeOK
  <2>2. \A g \in Fn : \A f \in Pred(g) : EdgePending(f, g)' <=> EdgePending(f, g)
    BY <1>1, <1>2, FnAssumption DEF EdgePending, Pred, TypeOK
  <2> QED
    BY <1>1, <2>1, <2>2 DEF SamePlaces
<1>5. /\ OnePlace' /\ NoPending' /\ Finished' = Finished
      /\ \A g \in Fn : PendingPreds(g)' = PendingPreds(g)
  BY <1>4, SamePlacesKept
<1>6. LocalOK'
  BY <1>1, <1>2, FnAssumption DEF LocalOK, TypeOK
<1>7. At(WinnerPC)' = {} /\ At({"waiting"})' = {} /\ At(ResetPC)' = {} /\ Moving' = Moving
  BY <1>1, <1>3 DEF At, Moving, TypeOK, ResetPC
<1>8. FinExact' /\ ResetEmpty' /\ RunnableExact' /\ InCountExact' /\ WinnerAlone'
  BY <1>1, <1>3, <1>5, <1>7
     DEF FinExact, ResetEmpty, RunnableExact, Moving, InCountExact, PendingPreds, WinnerAlone, At,
         ResetPC
<1> QED
  BY <1>5, <1>6, <1>8

LEMMA DecInCountDag ==
  ASSUME TypeOK, TypeOK', DagInv, NEW c \in Cpu, NEW g \in Fn, DecInCount(c, g)
  PROVE  DagInv'
<1> USE DEF DagInv, Lifecycle
<1> DEFINE f0 == fn[c]
<1>1. /\ pc[c] = "dag" /\ g \in todo[c] /\ todo' = [todo EXCEPT ![c] = todo[c] \ {g}]
      /\ dag_in_count' = [dag_in_count EXCEPT ![g] = @ - 1]
      /\ UNCHANGED <<queue, done, num_fin_fn, current, fn>>
      /\ \/ /\ dag_in_count[g] = 1 /\ pc' = [pc EXCEPT ![c] = "add_runnable"]
            /\ out_fn' = [out_fn EXCEPT ![c] = g]
         \/ dag_in_count[g] # 1 /\ pc' = pc /\ out_fn' = out_fn
  BY DEF DecInCount, TypeOK
<1>2. f0 \in Fn /\ Processes(c, f0) /\ f0 \in Pred(g) /\ EdgePending(f0, g)
  BY SMTT(30), <1>1 DEF TypeOK, LocalOK, Processes, Pred, EdgePending
<1>3. At(WinnerPC) = {}
  BY <1>1, NoWinner DEF Busy
<1>4. ~Active(g)
  BY <1>2 DEF NoPending
<1>5. \A d \in Cpu, f \in Fn :
        Holds(d, f)' <=> Holds(d, f) \/ (dag_in_count[g] = 1 /\ d = c /\ f = g)
  BY <1>1 DEF Holds, TypeOK
<1>6. \A d \in Cpu, f \in Fn : Processes(d, f)' <=> Processes(d, f)
  BY <1>1 DEF Processes, TypeOK
<1>7. \A h \in Fn : \A f \in Pred(h) :
        EdgePending(f, h)' <=> EdgePending(f, h) /\ ~(f = f0 /\ h = g)
  <2> SUFFICES ASSUME NEW h \in Fn, NEW f \in Pred(h)
               PROVE  EdgePending(f, h)' <=> EdgePending(f, h) /\ ~(f = f0 /\ h = g)
    OBVIOUS
  <2>1. CASE f = f0 /\ h = g
    <3>1. f0 \in done /\ \A d \in Cpu : d # c => ~Processes(d, f0)
      BY <1>2 DEF OnePlace
    <3>2. \A d \in Cpu : d # c => ~(pc[d] = "start" /\ current[d] = f0)
      BY <3>1 DEF Processes
    <3>3. \A d \in Cpu : d # c => ~(fn[d] = f0 /\ g \in todo[d])
      BY <3>1 DEF Processes, LocalOK
    <3>4. ~EdgePending(f, h)'
      BY <1>1, <2>1, <3>1, <3>2, <3>3 DEF EdgePending, TypeOK
    <3> QED
      BY <2>1, <3>4
  <2>2. CASE ~(f = f0 /\ h = g)
    BY <1>1, <2>2 DEF EdgePending, Pred, TypeOK
  <2> QED
    BY <2>1, <2>2
<1>8. \A h \in Fn : PendingPreds(h)' = IF h = g THEN PendingPreds(h) \ {f0} ELSE PendingPreds(h)
  BY <1>7 DEF PendingPreds
<1>9. OnePlace'
  BY <1>1, <1>4, <1>5, <1>6 DEF OnePlace, Active
<1>10. At(WinnerPC)' = {} /\ At({"waiting"})' = {} /\ At(ResetPC)' = {} /\ Moving' = Moving
  BY <1>1, <1>3 DEF At, Moving, TypeOK, ResetPC
<1>11. dag_in_count[g] = Cardinality(PendingPreds(g))
  BY <1>3 DEF InCountExact, PendingPreds, At
<1>12. Cardinality(PendingPreds(g)') = Cardinality(PendingPreds(g)) - 1
  <2>1. f0 \in PendingPreds(g) /\ IsFiniteSet(PendingPreds(g))
    BY <1>2, Finite DEF PendingPreds
  <2>2. PendingPreds(g)' = PendingPreds(g) \ {f0}
    BY <1>8
  <2> HIDE DEF f0
  <2> QED
    BY <2>1, <2>2, FS_RemoveElement
<1>13. InCountExact'
  <2>1. \A h \in Fn : dag_in_count'[h] = Cardinality(PendingPreds(h)')
    <3> SUFFICES ASSUME NEW h \in Fn PROVE dag_in_count'[h] = Cardinality(PendingPreds(h)')
      OBVIOUS
    <3>1. dag_in_count[h] = Cardinality(PendingPreds(h))
      BY <1>3 DEF InCountExact, PendingPreds, At
    <3> QED
      BY <1>1, <1>8, <1>11, <1>12, <3>1 DEF TypeOK
  <2> QED
    BY <2>1 DEF InCountExact, PendingPreds
<1>14. NoPending'
  <2>1. dag_in_count[g] = 1 => PendingPreds(g)' = {}
    <3>1. IsFiniteSet(PendingPreds(g) \ {f0})
      BY Finite, FS_Difference
    <3>2. IsFiniteSet(PendingPreds(g)')
      BY <3>1, <1>8
    <3> QED
      BY <1>11, <1>12, <3>2, FS_EmptySet
  <2>2. \A h \in Fn : Active(h)' => Active(h) \/ (h = g /\ dag_in_count[g] = 1)
    BY <1>1, <1>5 DEF Active
  <2> QED
    BY <1>7, <2>1, <2>2 DEF NoPending, PendingPreds
<1>15. LocalOK'
  BY <1>1 DEF LocalOK, TypeOK
<1>16. Finished' = Finished
  BY <1>1, <1>6 DEF Finished, TypeOK
<1>17. FinExact' /\ ResetEmpty' /\ RunnableExact' /\ WinnerAlone'
  BY ZenonT(60), <1>1, <1>3, <1>10, <1>16 DEF FinExact, ResetEmpty, RunnableExact, Moving, WinnerAlone, At, ResetPC
<1> QED
  BY <1>9, <1>13, <1>14, <1>15, <1>17

LEMMA AddRunnableIncDag ==
  ASSUME TypeOK, TypeOK', DagInv, NEW c \in Cpu, AddRunnableInc(c)
  PROVE  DagInv'
<1> USE DEF DagInv, Lifecycle
<1>1. /\ pc[c] = "add_runnable" /\ pc' = [pc EXCEPT ![c] = "add_runnable_bit"]
      /\ runnable_tasks' = runnable_tasks + 1
      /\ UNCHANGED <<bm_run_fn, run, edges>>
  BY DEF AddRunnableInc
<1>2. At(WinnerPC) = {}
  BY <1>1, NoWinner DEF Busy
<1>3. SamePlaces
  BY <1>1 DEF SamePlaces, Holds, Processes, EdgePending, TypeOK
<1>4. /\ OnePlace' /\ NoPending' /\ Finished' = Finished
      /\ \A g \in Fn : PendingPreds(g)' = PendingPreds(g)
  BY <1>3, SamePlacesKept
<1>5. LocalOK'
  BY <1>1 DEF LocalOK, TypeOK
<1>6. At(WinnerPC)' = {} /\ At({"waiting"})' = {} /\ At(ResetPC)' = {}
  BY <1>1, <1>2 DEF At, TypeOK, ResetPC
<1>7. Moving' = Moving \cup {c} /\ c \notin Moving
  BY <1>1 DEF Moving, At, TypeOK
<1>8. RunnableExact'
  <2>1. IsFiniteSet(Moving) /\ IsFiniteSet(bm_run_fn)
    BY Finite
  <2>2. Cardinality(Moving') = Cardinality(Moving) + 1
    BY <1>7, <2>1, FS_AddElement
  <2>3. Cardinality(Moving) \in Nat /\ Cardinality(bm_run_fn) \in Nat
    BY <2>1, FS_CardinalityType
  <2>4. runnable_tasks = Cardinality(bm_run_fn) + Cardinality(Moving)
    BY DEF RunnableExact, Moving
  <2>5. runnable_tasks' = Cardinality(bm_run_fn') + Cardinality(Moving')
    BY <1>1, <2>2, <2>3, <2>4
  <2> QED
    BY <2>5 DEF RunnableExact, Moving
<1>9. FinExact' /\ ResetEmpty' /\ InCountExact' /\ WinnerAlone'
  BY <1>1, <1>2, <1>4, <1>6
     DEF FinExact, ResetEmpty, InCountExact, PendingPreds, WinnerAlone, At, ResetPC
<1> QED
  BY <1>4, <1>5, <1>8, <1>9

LEMMA AddRunnableBitDag ==
  ASSUME TypeOK, TypeOK', DagInv, NEW c \in Cpu, AddRunnableBit(c)
  PROVE  DagInv'
<1> USE DEF DagInv, Lifecycle
<1> DEFINE g0 == out_fn[c]
<1>1. /\ pc[c] = "add_runnable_bit"
      /\ pc' = [pc EXCEPT ![c] = IF fn[c] # Null THEN "dag" ELSE "new_work"]
      /\ bm_run_fn' = bm_run_fn \cup {g0} /\ out_fn' = [out_fn EXCEPT ![c] = Null]
      /\ UNCHANGED <<runnable_tasks, run, fn, todo>>
  BY DEF AddRunnableBit
<1>2. g0 \in Fn /\ Holds(c, g0)
  BY <1>1 DEF TypeOK, Holds
<1>3. g0 \notin done /\ g0 \notin bm_run_fn
  BY <1>2 DEF OnePlace
<1>4. At(WinnerPC) = {}
  BY <1>1, NoWinner DEF Busy
<1>5. \A d \in Cpu, f \in Fn : Holds(d, f)' <=> Holds(d, f) /\ d # c
  BY <1>1 DEF Holds, TypeOK
<1>6. \A d \in Cpu, f \in Fn : Processes(d, f)' <=> Processes(d, f)
  BY <1>1 DEF Processes, TypeOK
<1>7. \A g \in Fn : \A f \in Pred(g) : EdgePending(f, g)' <=> EdgePending(f, g)
  BY <1>1 DEF EdgePending, TypeOK
<1>8. \A f \in Fn : Holds(c, f) => f = g0
  BY <1>1 DEF Holds
<1>9. OnePlace'
  BY <1>1, <1>2, <1>3, <1>5, <1>6 DEF OnePlace
<1>10. NoPending'
  BY <1>1, <1>2, <1>5, <1>7 DEF NoPending, Active
<1>11. /\ Finished' = Finished
       /\ \A g \in Fn : PendingPreds(g)' = PendingPreds(g)
  BY <1>1, <1>6, <1>7 DEF Finished, PendingPreds, TypeOK
<1>12. LocalOK'
  BY <1>1 DEF LocalOK, TypeOK
<1>13. At(WinnerPC)' = {} /\ At({"waiting"})' = {} /\ At(ResetPC)' = {}
  BY <1>1, <1>4 DEF At, TypeOK, ResetPC
<1>14. Moving' = Moving \ {c} /\ c \in Moving
  BY <1>1 DEF Moving, At, TypeOK
<1>15. RunnableExact'
  <2>1. IsFiniteSet(Moving) /\ IsFiniteSet(bm_run_fn)
    BY Finite
  <2>2. Cardinality(Moving') = Cardinality(Moving) - 1
    BY <1>14, <2>1, FS_RemoveElement
  <2>3. Cardinality(bm_run_fn') = Cardinality(bm_run_fn) + 1
    BY <1>1, <1>3, <2>1, FS_AddElement
  <2>4. Cardinality(Moving) \in Nat /\ Cardinality(bm_run_fn) \in Nat
    BY <2>1, FS_CardinalityType
  <2>5. runnable_tasks = Cardinality(bm_run_fn) + Cardinality(Moving)
    BY DEF RunnableExact, Moving
  <2>6. runnable_tasks' = Cardinality(bm_run_fn') + Cardinality(Moving')
    BY <1>1, <2>2, <2>3, <2>4, <2>5
  <2> QED
    BY <2>6 DEF RunnableExact, Moving
<1>16. FinExact' /\ ResetEmpty' /\ InCountExact' /\ WinnerAlone'
  BY <1>1, <1>4, <1>11, <1>13
     DEF FinExact, ResetEmpty, InCountExact, PendingPreds, WinnerAlone, At, ResetPC
<1> QED
  BY <1>9, <1>10, <1>12, <1>15, <1>16

LEMMA DagProcessedDag ==
  ASSUME TypeOK, TypeOK', DagInv, NEW c \in Cpu, DagProcessed(c)
  PROVE  DagInv'
<1> USE DEF DagInv, Lifecycle
<1>1. /\ pc[c] = "dag" /\ todo[c] = {}
      /\ \E l \in {"wake_up_task", "fin"} : pc' = [pc EXCEPT ![c] = l]
      /\ current' = [current EXCEPT ![c] = Null]
      /\ UNCHANGED <<queue, dag, num_fin_fn, edges>>
  BY DEF DagProcessed, AfterDag
<1>2. fn[c] # Null
  BY <1>1 DEF LocalOK
<1>3. At(WinnerPC) = {}
  BY <1>1, NoWinner DEF Busy
<1>4. SamePlaces
  BY <1>1 DEF SamePlaces, Holds, Processes, EdgePending, TypeOK
<1>5. /\ OnePlace' /\ NoPending' /\ Finished' = Finished
      /\ \A g \in Fn : PendingPreds(g)' = PendingPreds(g)
  BY <1>4, SamePlacesKept
<1>6. LocalOK'
  BY <1>1 DEF LocalOK, TypeOK, WakePC
<1>7. At(WinnerPC)' = {} /\ At({"waiting"})' = {} /\ At(ResetPC)' = {} /\ Moving' = Moving
  BY <1>1, <1>3 DEF At, Moving, TypeOK, ResetPC
<1>8. FinExact' /\ ResetEmpty' /\ RunnableExact' /\ InCountExact' /\ WinnerAlone'
  BY <1>1, <1>3, <1>5, <1>7
     DEF FinExact, ResetEmpty, RunnableExact, Moving, InCountExact, PendingPreds, WinnerAlone, At,
         ResetPC
<1> QED
  BY <1>5, <1>6, <1>8

LEMMA CountFnDag ==
  ASSUME TypeOK, TypeOK', DagInv, NEW c \in Cpu, CountFn(c)
  PROVE  DagInv'
<1> USE DEF DagInv, Lifecycle
<1> DEFINE f0 == fn[c]
<1>1. /\ pc[c] = "fin" /\ pc' = [pc EXCEPT ![c] = "new_work"]
      /\ f0 # Null /\ num_fin_fn' = num_fin_fn + 1 /\ fn' = [fn EXCEPT ![c] = Null]
      /\ UNCHANGED <<queue, dag, current, todo, out_fn>>
  BY DEF CountFn, IncFinFn
<1>2. f0 \in Fn /\ current[c] = Null /\ todo[c] = {}
  BY SMTT(30), <1>1 DEF TypeOK, LocalOK
<1>3. Processes(c, f0)
  BY <1>1 DEF Processes
<1>4. f0 \in done /\ \A d \in Cpu \ {c} : ~Processes(d, f0)
  BY <1>2, <1>3 DEF OnePlace
<1>5. At(WinnerPC) = {}
  BY <1>1, NoWinner DEF Busy
<1>6. \A d \in Cpu, f \in Fn : Holds(d, f)' <=> Holds(d, f)
  BY <1>1 DEF Holds, TypeOK
<1>7. \A d \in Cpu, f \in Fn : Processes(d, f)' <=> Processes(d, f) /\ d # c
  BY <1>1, <1>2, FnAssumption DEF Processes, TypeOK
<1>8. \A f \in Fn : Processes(c, f) => f = f0
  BY <1>1 DEF Processes
<1>9. \A g \in Fn : \A f \in Pred(g) : EdgePending(f, g)' <=> EdgePending(f, g)
  BY <1>1, <1>2, FnAssumption DEF EdgePending, Pred, TypeOK
<1>10. OnePlace'
  BY <1>1, <1>6, <1>7 DEF OnePlace
<1>11. NoPending'
  BY <1>1, <1>6, <1>9 DEF NoPending, Active
<1>12. \A g \in Fn : PendingPreds(g)' = PendingPreds(g)
  BY <1>9 DEF PendingPreds
<1>13. Finished' = Finished \cup {f0} /\ f0 \notin Finished
  BY <1>1, <1>3, <1>4, <1>7, <1>8 DEF Finished, TypeOK
<1>14. LocalOK'
  BY <1>1, <1>2 DEF LocalOK, TypeOK
<1>15. At(WinnerPC)' = {} /\ At({"waiting"})' = {} /\ At(ResetPC)' = {} /\ Moving' = Moving
  BY <1>1, <1>5 DEF At, Moving, TypeOK, ResetPC
<1>16. FinExact'
  <2>1. num_fin_fn = Cardinality(Finished)
    BY <1>5 DEF FinExact, At
  <2>2. Cardinality(Finished') = Cardinality(Finished) + 1
    BY <1>13, Finite, FS_AddElement
  <2> QED
    BY <1>1, <1>15, <2>1, <2>2 DEF FinExact
<1>17. ResetEmpty' /\ RunnableExact' /\ InCountExact' /\ WinnerAlone'
  BY <1>1, <1>5, <1>12, <1>15
     DEF ResetEmpty, RunnableExact, Moving, InCountExact, PendingPreds, WinnerAlone, At, ResetPC
<1> QED
  BY <1>10, <1>11, <1>14, <1>16, <1>17

LEMMA TakeWorkDag ==
  ASSUME TypeOK, TypeOK', DagInv, NEW c \in Cpu, NEW f0 \in Fn, TakeWork(c, f0)
  PROVE  DagInv'
<1> USE DEF DagInv, Lifecycle
<1>1. /\ pc[c] = "new_work" /\ pc' = [pc EXCEPT ![c] = "taken"]
      /\ f0 \in bm_run_fn /\ bm_run_fn' = bm_run_fn \ {f0} /\ fn' = [fn EXCEPT ![c] = f0]
      /\ UNCHANGED <<runnable_tasks, run, todo, out_fn>>
  BY DEF TakeWork
<1>2. fn[c] = Null /\ current[c] = Null /\ todo[c] = {}
  BY <1>1 DEF LocalOK, WakePC
<1>3. f0 \notin done /\ \A d \in Cpu : ~Holds(d, f0)
  BY <1>1 DEF OnePlace
<1>4. At(WinnerPC) = {}
  BY <1>1, NoWinner
<1>5. \A d \in Cpu, f \in Fn : Holds(d, f)' <=> Holds(d, f) \/ (d = c /\ f = f0)
  BY <1>1 DEF Holds, TypeOK
<1>6. \A d \in Cpu, f \in Fn : Processes(d, f)' <=> Processes(d, f)
  BY <1>1, <1>2, FnAssumption DEF Processes, TypeOK
<1>7. \A g \in Fn : \A f \in Pred(g) : EdgePending(f, g)' <=> EdgePending(f, g)
  BY <1>1, <1>2 DEF EdgePending, TypeOK
<1>8. OnePlace'
  BY <1>1, <1>3, <1>5, <1>6 DEF OnePlace
<1>9. NoPending'
  BY <1>1, <1>5, <1>7 DEF NoPending, Active
<1>10. /\ Finished' = Finished
       /\ \A g \in Fn : PendingPreds(g)' = PendingPreds(g)
  BY <1>1, <1>6, <1>7 DEF Finished, PendingPreds, TypeOK
<1>11. LocalOK'
  BY <1>1, <1>2 DEF LocalOK, TypeOK
<1>12. At(WinnerPC)' = {} /\ At({"waiting"})' = {} /\ At(ResetPC)' = {}
  BY <1>1, <1>4 DEF At, TypeOK, ResetPC
<1>13. Moving' = Moving \cup {c} /\ c \notin Moving
  BY <1>1 DEF Moving, At, TypeOK
<1>14. RunnableExact'
  <2>1. IsFiniteSet(Moving) /\ IsFiniteSet(bm_run_fn)
    BY Finite
  <2>2. Cardinality(Moving') = Cardinality(Moving) + 1
    BY <1>13, <2>1, FS_AddElement
  <2>3. Cardinality(bm_run_fn') = Cardinality(bm_run_fn) - 1
    BY <1>1, <2>1, FS_RemoveElement
  <2>4. Cardinality(Moving) \in Nat /\ Cardinality(bm_run_fn) \in Nat
    BY <2>1, FS_CardinalityType
  <2>5. runnable_tasks = Cardinality(bm_run_fn) + Cardinality(Moving)
    BY DEF RunnableExact, Moving
  <2>6. runnable_tasks' = Cardinality(bm_run_fn') + Cardinality(Moving')
    BY <1>1, <2>2, <2>3, <2>4, <2>5
  <2> QED
    BY <2>6 DEF RunnableExact, Moving
<1>15. FinExact' /\ ResetEmpty' /\ InCountExact' /\ WinnerAlone'
  BY <1>1, <1>4, <1>10, <1>12
     DEF FinExact, ResetEmpty, InCountExact, PendingPreds, WinnerAlone, At, ResetPC
<1> QED
  BY <1>8, <1>9, <1>11, <1>14, <1>15

LEMMA JumpToFnDag ==
  ASSUME TypeOK, TypeOK', DagInv, NEW c \in Cpu, JumpToFn(c)
  PROVE  DagInv'
<1> USE DEF DagInv, Lifecycle
<1>1. /\ pc[c] = "taken_runnable" /\ pc' = [pc EXCEPT ![c] = "user"]
      /\ runnable_tasks' = runnable_tasks - 1
      /\ current' = [current EXCEPT ![c] = fn[c]] /\ fn' = [fn EXCEPT ![c] = Null]
      /\ UNCHANGED <<bm_run_fn, dag, num_fin_fn, todo, out_fn>>
  BY DEF JumpToFn
<1>2. fn[c] \in Fn /\ todo[c] = {}
  BY <1>1 DEF TypeOK, LocalOK
<1>3. At(WinnerPC) = {}
  BY <1>1, NoWinner DEF Busy
<1>4. SamePlaces
  BY <1>1, <1>2, FnAssumption DEF SamePlaces, Holds, Processes, EdgePending, Pred, TypeOK
<1>5. /\ OnePlace' /\ NoPending' /\ Finished' = Finished
      /\ \A g \in Fn : PendingPreds(g)' = PendingPreds(g)
  BY <1>4, SamePlacesKept
<1>6. LocalOK'
  BY <1>1, <1>2 DEF LocalOK, TypeOK
<1>7. At(WinnerPC)' = {} /\ At({"waiting"})' = {} /\ At(ResetPC)' = {}
  BY <1>1, <1>3 DEF At, TypeOK, ResetPC
<1>8. Moving' = Moving \ {c} /\ c \in Moving
  BY <1>1 DEF Moving, At, TypeOK
<1>9. RunnableExact'
  <2>1. IsFiniteSet(Moving) /\ IsFiniteSet(bm_run_fn)
    BY Finite
  <2>2. Cardinality(Moving') = Cardinality(Moving) - 1
    BY <1>8, <2>1, FS_RemoveElement
  <2>3. Cardinality(Moving) \in Nat /\ Cardinality(bm_run_fn) \in Nat
    BY <2>1, FS_CardinalityType
  <2>4. runnable_tasks = Cardinality(bm_run_fn) + Cardinality(Moving)
    BY DEF RunnableExact, Moving
  <2>5. runnable_tasks' = Cardinality(bm_run_fn') + Cardinality(Moving')
    BY <1>1, <2>2, <2>3, <2>4
  <2> QED
    BY <2>5 DEF RunnableExact, Moving
<1>10. FinExact' /\ ResetEmpty' /\ InCountExact' /\ WinnerAlone'
  BY <1>1, <1>3, <1>5, <1>7
     DEF FinExact, ResetEmpty, InCountExact, PendingPreds, WinnerAlone, At, ResetPC
<1> QED
  BY <1>5, <1>6, <1>9, <1>10

-----------------------------------------------------------------------------
(* DagInv is kept by the steps of the winner.                              *)

\* When num_fin_fn has reached the number of functions, nothing is left of the invocation.
LEMMA AllFinished ==
  ASSUME TypeOK, DagInv, num_fin_fn = Cardinality(Fn)
  PROVE  /\ done = Fn /\ bm_run_fn = {} /\ runnable_tasks = 0
         /\ At(WinnerPC) = {} /\ \A c \in Cpu : ~Busy(c)
<1> USE DEF DagInv, Lifecycle
<1>1. At({"waiting"}) = {}
  <2>1. Cardinality(Fn) # 0
    BY FnAssumption, FS_EmptySet
  <2> QED
    BY <2>1 DEF FinExact
<1>2. Finished = Fn
  <2>1. Cardinality(Finished) = Cardinality(Fn)
    BY <1>1 DEF FinExact
  <2>2. Finished \in SUBSET Fn
    BY DEF Finished, TypeOK
  <2> QED
    BY <2>1, <2>2, FnAssumption, FS_Subset
<1>3. done = Fn /\ \A c \in Cpu, f \in Fn : ~Processes(c, f)
  BY <1>2 DEF Finished, TypeOK
<1>4. bm_run_fn = {} /\ \A c \in Cpu, f \in Fn : ~Holds(c, f)
  BY <1>3 DEF OnePlace, TypeOK
<1>5. \A c \in Cpu : ~Busy(c)
  BY <1>3, <1>4, BusyHas
<1>6. At(WinnerPC) = {}
  BY <1>1, <1>3, FnAssumption DEF ResetEmpty, ResetPC, At
<1>7. runnable_tasks = 0
  <2>1. Moving = {}
    BY <1>5 DEF Moving, At, Busy
  <2> QED
    BY <1>4, <2>1, FS_EmptySet DEF RunnableExact, Moving
<1> QED
  BY <1>3, <1>4, <1>5, <1>6, <1>7

LEMMA WinDag ==
  ASSUME TypeOK, TypeOK', DagInv, NEW c \in Cpu, Win(c)
  PROVE  DagInv'
<1> USE DEF DagInv, Lifecycle
<1>1. /\ num_fin_fn = Cardinality(Fn) /\ num_fin_fn' = 0
      /\ pc[c] = "cas_fin" /\ pc' = [pc EXCEPT ![c] = "waiting"]
      /\ UNCHANGED <<queue, dag, current, edges>>
  BY DEF Win, CasFinFn
<1>2. /\ done = Fn /\ bm_run_fn = {} /\ runnable_tasks = 0
      /\ At(WinnerPC) = {} /\ \A d \in Cpu : ~Busy(d)
  BY <1>1, AllFinished
<1>3. fn[c] = Null /\ current[c] = Null
  BY <1>1 DEF LocalOK, WakePC
<1>4. SamePlaces
  BY <1>1, <1>3, FnAssumption DEF SamePlaces, Holds, Processes, EdgePending, TypeOK
<1>5. /\ OnePlace' /\ NoPending' /\ Finished' = Finished
      /\ \A g \in Fn : PendingPreds(g)' = PendingPreds(g)
  BY <1>4, SamePlacesKept
<1>6. LocalOK'
  BY <1>1, <1>3 DEF LocalOK, TypeOK
<1>7. /\ At(WinnerPC)' = {c} /\ At({"waiting"})' = {c} /\ At(ResetPC)' = {}
      /\ At(ResetPC) = {} /\ Moving' = Moving
  BY <1>1, <1>2 DEF At, Moving, TypeOK, ResetPC
<1>8. \A d \in Cpu : ~Busy(d)'
  BY <1>1, <1>2 DEF Busy, TypeOK
<1>9. FinExact' /\ ResetEmpty' /\ RunnableExact' /\ InCountExact'
  BY <1>1, <1>5, <1>7
     DEF FinExact, ResetEmpty, RunnableExact, Moving, InCountExact, PendingPreds, ResetPC
<1>10. WinnerAlone'
  BY <1>1, <1>2, <1>7, <1>8 DEF WinnerAlone, At
<1> QED
  BY <1>5, <1>6, <1>9, <1>10

LEMMA WaitingForWorkDag ==
  ASSUME TypeOK, TypeOK', DagInv, NEW c \in Cpu, WaitingForWork(c)
  PROVE  DagInv'
<1> USE DEF DagInv, Lifecycle
<1>1. /\ pc[c] = "waiting" /\ pc' = [pc EXCEPT ![c] = "win_free"] /\ done' = {}
      /\ UNCHANGED <<queue, dag_in_count, num_fin_fn, current, edges>>
  BY DEF WaitingForWork
<1>2. /\ bm_run_fn = {} /\ runnable_tasks = 0
      /\ \A d \in Cpu : ~Busy(d) /\ (pc[d] \in WinnerPC => d = c)
  BY <1>1 DEF WinnerAlone, At
<1>3. \A d \in Cpu : ~Busy(d)'
  BY <1>1, <1>2 DEF Busy, TypeOK
<1>4. LocalOK'
  BY <1>1, <1>2 DEF LocalOK, TypeOK, Busy
<1>5. \A d \in Cpu, f \in Fn : ~Holds(d, f)' /\ ~Processes(d, f)'
  BY <1>3, FnAssumption DEF Busy, Holds, Processes, TypeOK
<1>6. OnePlace' /\ NoPending' /\ Finished' = {}
  BY <1>1, <1>2, <1>5 DEF OnePlace, NoPending, Active, Finished
<1>7. At({"waiting"})' = {} /\ At(ResetPC)' = {c} /\ At(WinnerPC)' = {c} /\ Moving' = {}
  BY <1>1, <1>2, <1>3 DEF At, Moving, TypeOK, ResetPC, Busy
<1>8. num_fin_fn = 0
  BY <1>1 DEF FinExact, At
<1>9. FinExact' /\ ResetEmpty' /\ RunnableExact'
  <2>1. FinExact' /\ ResetEmpty'
    BY <1>1, <1>6, <1>7, <1>8, FS_EmptySet DEF FinExact, ResetEmpty
  <2>2. RunnableExact'
    BY <1>1, <1>2, <1>7, FS_EmptySet DEF RunnableExact, Moving
  <2> QED
    BY <2>1, <2>2
<1>10. InCountExact'
  BY <1>7 DEF InCountExact, ResetPC
<1>11. WinnerAlone'
  BY <1>1, <1>2, <1>3, <1>7 DEF WinnerAlone, At, TypeOK
<1> QED
  BY <1>4, <1>6, <1>9, <1>10, <1>11

LEMMA CopyInCountsDag ==
  ASSUME TypeOK, TypeOK', DagInv, NEW c \in Cpu, CopyInCounts(c)
  PROVE  DagInv'
<1> USE DEF DagInv, Lifecycle
<1>1. /\ pc[c] = "copy" /\ pc' = [pc EXCEPT ![c] = "add_runnable"]
      /\ dag_in_count' = [g \in Fn |-> InCount(g)] /\ out_fn' = [out_fn EXCEPT ![c] = Start]
      /\ UNCHANGED <<queue, done, num_fin_fn, current, fn, todo>>
  BY DEF CopyInCounts
<1>2. /\ bm_run_fn = {} /\ runnable_tasks = 0
      /\ \A d \in Cpu : ~Busy(d) /\ (pc[d] \in WinnerPC => d = c)
  BY <1>1 DEF WinnerAlone, At
<1>3. done = {}
  BY <1>1 DEF ResetEmpty, At, ResetPC
<1>4. LocalOK'
  BY <1>1, <1>2 DEF LocalOK, TypeOK, Busy
<1>5. \A d \in Cpu, f \in Fn : Holds(d, f)' <=> d = c /\ f = Start
  BY <1>1, <1>2 DEF Holds, TypeOK, Busy
<1>6. \A d \in Cpu, f \in Fn : ~Processes(d, f)'
  BY <1>1, <1>2, FnAssumption DEF Processes, TypeOK, Busy
<1>7. OnePlace'
  BY <1>1, <1>2, <1>3, <1>5, <1>6 DEF OnePlace
<1>8. NoPending'
  BY <1>1, <1>2, <1>3, <1>5, FnAssumption DEF NoPending, Active
<1>9. Finished = {} /\ Finished' = {}
  BY <1>1, <1>3 DEF Finished
<1>10. /\ At({"waiting"}) = {} /\ At({"waiting"})' = {}
       /\ At(WinnerPC)' = {} /\ At(ResetPC)' = {} /\ Moving' = {}
  BY <1>1, <1>2 DEF At, Moving, TypeOK, ResetPC, Busy
<1>11. FinExact' /\ ResetEmpty' /\ RunnableExact' /\ WinnerAlone'
  BY <1>1, <1>2, <1>9, <1>10, FS_EmptySet
     DEF FinExact, ResetEmpty, RunnableExact, Moving, WinnerAlone
<1>12. InCountExact'
  <2>1. \A g \in Fn : PendingPreds(g)' = Pred(g)
    BY <1>1, <1>3 DEF PendingPreds, EdgePending, Pred
  <2> QED
    BY <1>1, <2>1 DEF InCountExact, PendingPreds, InCount
<1> QED
  BY <1>4, <1>7, <1>8, <1>11, <1>12

-----------------------------------------------------------------------------
(* The invariants                                                          *)

LEMMA DagInvInit == Init => DagInv
<1> SUFFICES ASSUME Init PROVE DagInv
  OBVIOUS
<1>1. /\ \A c \in Cpu : /\ fn[c] = Null /\ current[c] = Null /\ todo[c] = {} /\ out_fn[c] = Null
                        /\ pc[c] \in {"start", "hlt"}
      /\ done = Fn /\ bm_run_fn = {}
  BY DEF Init
<1>2. \A c \in Cpu, f \in Fn : ~Holds(c, f) /\ ~Processes(c, f)
  BY <1>1, FnAssumption DEF Holds, Processes
<1>3. \A g \in Fn : \A f \in Pred(g) : ~EdgePending(f, g)
  BY <1>1, FnAssumption DEF EdgePending, Pred
<1>4. LocalOK
  BY <1>1 DEF LocalOK
<1>5. OnePlace /\ NoPending
  BY <1>1, <1>2, <1>3 DEF OnePlace, NoPending
<1>6. At({"waiting"}) = {} /\ At(ResetPC) = {} /\ At(WinnerPC) = {} /\ Moving = {}
  BY <1>1 DEF At, ResetPC, Moving
<1>7. Finished = Fn
  BY <1>1, <1>2 DEF Finished
<1>8. FinExact /\ ResetEmpty /\ WinnerAlone
  BY <1>6, <1>7 DEF Init, FinExact, ResetEmpty, WinnerAlone
<1>9. RunnableExact
  BY SMTT(30), <1>1, <1>6, FS_EmptySet DEF Init, RunnableExact, Moving
<1>10. InCountExact
  <2>1. \A g \in Fn : PendingPreds(g) = {}
    BY <1>3 DEF PendingPreds
  <2> QED
    BY <2>1, FS_EmptySet DEF Init, InCountExact, PendingPreds
<1> QED
  BY <1>4, <1>5, <1>8, <1>9, <1>10 DEF DagInv, Lifecycle

LEMMA DagInvStep == TypeOK /\ TypeOK' /\ DagInv /\ [Next]_vars => DagInv'
<1> SUFFICES ASSUME TypeOK, TypeOK', DagInv, [Next]_vars PROVE DagInv'
  OBVIOUS
<1>1. CASE UNCHANGED vars
  BY <1>1 DEF vars, DagInv, Lifecycle, LocalOK, OnePlace, NoPending, FinExact, ResetEmpty, Finished,
              Active, Holds, Processes, RunnableExact, InCountExact, EdgePending, WinnerAlone, Busy, At
<1>2. ASSUME NEW c \in Cpu, Kernel(c) \/ External(c) PROVE DagInv'
  <2>1. Silent(c) \/ Visible(c)
    BY <1>2, SilentOrVisible DEF DagInv, Lifecycle
  <2> QED
    BY <2>1, SilentDag, UserReturnDag, StartProcessingDag, DecInCountDag, AddRunnableIncDag,
       AddRunnableBitDag, DagProcessedDag, CountFnDag, TakeWorkDag, JumpToFnDag, WinDag,
       WaitingForWorkDag, CopyInCountsDag DEF Visible
<1> QED
  BY <1>1, <1>2 DEF Next

LEMMA DagInvKept == Spec => []DagInv
<1> QED
  BY TypeCorrect, DagInvInit, DagInvStep, PTL DEF Spec

\* runnable_tasks is the length of the run queue, up to the vcpus between the two steps of
\* an insertion or a removal (sched.c:112-113, 374-375): it never wraps, whatever the dag and
\* the number of vcpus.
THEOREM QueueCounted == Spec => []RunnableExact
<1>1. DagInv => RunnableExact
  BY DEF DagInv
<1> QED
  BY <1>1, DagInvKept, PTL

\* dag_in_count[g] counts the predecessors whose edge to g is still to be followed, although
\* the vcpus decrement it without a common lock (sched.c:131-142, 336).
THEOREM EdgesCounted == Spec => []InCountExact
<1>1. DagInv => InCountExact
  BY DEF DagInv
<1> QED
  BY <1>1, DagInvKept, PTL

\* One vcpu at most wins the CAS on num_fin_fn, and while it resets the run-time state with
\* plain stores no vcpu queues, takes, executes or processes a function (sched.c:308-338).
THEOREM OneWinner == Spec => []WinnerAlone
<1>1. DagInv => WinnerAlone
  BY DEF DagInv
<1> QED
  BY <1>1, DagInvKept, PTL

\* Each function is at one place of its way through an invocation and num_fin_fn counts
\* those that have reached its end (sched.c:120-143, 283-308).
THEOREM OneWay == Spec => []Lifecycle
<1>1. DagInv => Lifecycle
  BY DEF DagInv
<1> QED
  BY <1>1, DagInvKept, PTL

-----------------------------------------------------------------------------
(* The scheduler implements DagRun.                                        *)

Runners(f) == {c \in Cpu : pc[c] \in {"user", "stopped"} /\ current[c] = f}

LEMMA DagStutter ==
  ASSUME done' = done, \A f \in Fn : Runners(f)' = Runners(f)
  PROVE  UNCHANGED Dag!vars
<1>1. running' = running
  BY DEF running, Runners
<1> QED
  BY <1>1 DEF Dag!vars

LEMMA RunnersSame ==
  ASSUME TypeOK, LocalOK, NEW c \in Cpu,
         Silent(c) \/ (Visible(c) /\ ~UserReturn(c) /\ ~JumpToFn(c))
  PROVE  \A f \in Fn : Runners(f)' = Runners(f)
<1>1. CASE Silent(c)
  BY <1>1 DEF Silent, Runners, TypeOK, WakePC, QuietPC, ResetPC
<1>2. CASE Visible(c) /\ ~UserReturn(c) /\ ~JumpToFn(c)
  BY <1>2 DEF Visible, StartProcessing, StartSched, DecInCount, AddRunnableInc, AddRunnableBit,
              DagProcessed, AfterDag, CountFn, IncFinFn, TakeWork, Win, CasFinFn, WaitingForWork,
              CopyInCounts, Runners, TypeOK
<1> QED
  BY <1>1, <1>2

LEMMA BeginStep ==
  ASSUME TypeOK, OnePlace, NoPending, NEW c \in Cpu, JumpToFn(c)
  PROVE  \E f \in Fn : Dag!Begin(f)
<1> DEFINE f0 == fn[c]
<1>1. /\ pc[c] = "taken_runnable" /\ pc' = [pc EXCEPT ![c] = "user"]
      /\ current' = [current EXCEPT ![c] = f0] /\ done' = done
  BY DEF JumpToFn
<1>2. f0 \in Fn /\ Holds(c, f0)
  BY <1>1 DEF TypeOK, Holds
<1>3. f0 \notin done /\ \A d \in Cpu \ {c} : ~Holds(d, f0)
  BY <1>2 DEF OnePlace
<1>4. Pred(f0) \subseteq done
  BY <1>2 DEF NoPending, Active, Pred, EdgePending
<1>5. Runners(f0) = {}
  BY <1>1, <1>3 DEF Runners, Holds
<1>6. \A f \in Fn : Runners(f)' = IF f = f0 THEN {c} ELSE Runners(f)
  BY <1>1, <1>2, <1>5 DEF Runners, TypeOK
<1>7. running = [f \in Fn |-> Cardinality(Runners(f))]
      /\ running' = [f \in Fn |-> Cardinality(Runners(f)')]
  BY DEF running, Runners
<1>8. running[f0] = 0
  BY <1>2, <1>5, <1>7, FS_EmptySet
<1>9. Cardinality({c}) = 1
  BY FS_Singleton
<1>10. running' = [running EXCEPT ![f0] = 1]
  BY <1>2, <1>6, <1>7, <1>9
<1> QED
  BY <1>1, <1>2, <1>3, <1>4, <1>8, <1>10 DEF Dag!Begin, Dag!Pred, Pred

LEMMA EndStep ==
  ASSUME TypeOK, OnePlace, NEW c \in Cpu, UserReturn(c)
  PROVE  \E f \in Fn : Dag!End(f)
<1> DEFINE f0 == current[c]
<1>1. /\ pc[c] = "user" /\ pc' = [pc EXCEPT ![c] = "start"]
      /\ current' = current /\ done' = done \cup {f0}
  BY DEF UserReturn
<1>2. f0 \in Fn /\ Holds(c, f0)
  BY <1>1 DEF TypeOK, Holds
<1>3. \A d \in Cpu \ {c} : ~Holds(d, f0)
  BY <1>2 DEF OnePlace
<1>4. Runners(f0) = {c}
  BY <1>1, <1>3 DEF Runners, Holds
<1>5. \A f \in Fn : Runners(f)' = IF f = f0 THEN {} ELSE Runners(f)
  BY <1>1, <1>2, <1>4 DEF Runners, TypeOK
<1>6. running = [f \in Fn |-> Cardinality(Runners(f))]
      /\ running' = [f \in Fn |-> Cardinality(Runners(f)')]
  BY DEF running, Runners
<1>7. running[f0] = 1
  BY <1>2, <1>4, <1>6, FS_Singleton
<1>8. Cardinality({}) = 0
  BY FS_EmptySet
<1>9. running' = [running EXCEPT ![f0] = 0]
  BY <1>2, <1>5, <1>6, <1>8
<1> QED
  BY <1>1, <1>2, <1>7, <1>9 DEF Dag!End

LEMMA RestartStep ==
  ASSUME TypeOK, LocalOK, WinnerAlone, NEW c \in Cpu, WaitingForWork(c)
  PROVE  Dag!Restart
<1>1. done = Fn /\ done' = {}
  BY DEF WaitingForWork, WinnerAlone, At
<1>2. \A f \in Fn : Runners(f)' = Runners(f)
  BY RunnersSame DEF Visible, WaitingForWork, UserReturn, JumpToFn
<1>3. running' = running
  BY <1>2 DEF running, Runners
<1> QED
  BY <1>1, <1>3 DEF Dag!Restart

LEMMA DagRunStep == TypeOK /\ DagInv /\ [Next]_vars => [Dag!Next]_(Dag!vars)
<1> SUFFICES ASSUME TypeOK, DagInv, [Next]_vars PROVE [Dag!Next]_(Dag!vars)
  OBVIOUS
<1> USE DEF DagInv, Lifecycle
<1>1. CASE UNCHANGED vars
  BY <1>1, DagStutter DEF vars, Runners
<1>2. ASSUME NEW c \in Cpu, Kernel(c) \/ External(c) PROVE [Dag!Next]_(Dag!vars)
  <2>1. Silent(c) \/ Visible(c)
    BY <1>2, SilentOrVisible
  <2>2. CASE UserReturn(c)
    BY <2>2, EndStep DEF Dag!Next
  <2>3. CASE JumpToFn(c)
    BY <2>3, BeginStep DEF Dag!Next
  <2>4. CASE WaitingForWork(c)
    BY <2>4, RestartStep DEF Dag!Next
  <2>5. CASE ~UserReturn(c) /\ ~JumpToFn(c) /\ ~WaitingForWork(c)
    <3>1. \A f \in Fn : Runners(f)' = Runners(f)
      BY <2>1, <2>5, RunnersSame
    <3>2. done' = done
      BY <2>1, <2>5 DEF Silent, Visible, StartProcessing, StartSched, DecInCount, AddRunnableInc,
         AddRunnableBit, DagProcessed, CountFn, IncFinFn, TakeWork, Win, CasFinFn, CopyInCounts
    <3> QED
      BY <3>1, <3>2, DagStutter
  <2> QED
    BY <2>2, <2>3, <2>4, <2>5
<1> QED
  BY <1>1, <1>2 DEF Next

\* The scheduler implements DagRun: in each invocation every function runs exactly once, after
\* all its predecessors, and the VMM is told that the dag is complete only when it is, whatever
\* the dag and the vcpus, kicks lost or repeated, spurious wake-ups and faults (sched.c:120-376).
THEOREM ImplementsDag == Spec => RefinesDag
<1>1. Init => Dag!Init
  <2> SUFFICES ASSUME Init PROVE Dag!Init
    OBVIOUS
  <2>1. \A f \in Fn : Runners(f) = {}
    BY DEF Init, Runners
  <2>2. running = [f \in Fn |-> 0]
    BY <2>1, FS_EmptySet DEF running, Runners
  <2> QED
    BY <2>2 DEF Init, Dag!Init
<1> QED
  BY <1>1, TypeCorrect, DagInvKept, DagRunStep, PTL DEF Spec, RefinesDag, Dag!Spec

-----------------------------------------------------------------------------
(* 3. The count of the free vcpus, of a pool of two.                       *)

\* Where FreeExact holds: two vcpus, an hlt that returns only when kicked, and no second
\* kick of a vcpu that has not woken up yet.
TwoVcpus == Cardinality(Cpu) <= 2 /\ ~SpuriousWakeUps /\ ~RekickThdPasses

AsleepPC == {"mark_inactive", "hlt"}
AwakingPC == {"woken", "clear_kicked"}

\* A vcpu is in bm_kicked_vcpus from the first kick until it clears itself, and is kicked
\* only there; hlt_ts > kick_ts singles out the vcpus that are asleep and not kicked.
KickOK ==
  /\ kick_pending \subseteq bm_kicked_vcpus
  /\ bm_inactive_vcpus \subseteq At({"hlt", "woken"})
  /\ \A v \in Cpu :
       /\ pc[v] \notin {"spurious", "rekick_ts", "rekick_call"}
       /\ pc[v] \in AwakingPC => v \in bm_kicked_vcpus /\ v \notin kick_pending
       /\ hlt_after_kick[v] => pc[v] \in AsleepPC
       /\ v \in bm_kicked_vcpus => ~hlt_after_kick[v] /\ pc[v] \in AsleepPC \cup AwakingPC

\* A vcpu that is being kicked sleeps until it is.
KickerOK ==
  \A c \in Cpu :
    /\ pc[c] \in {"count_free", "kick_ts", "mark_kicked", "kick"} => pc[cpuid[c]] \in AsleepPC
    /\ pc[c] \in {"count_free", "kick_ts", "mark_kicked"} => cpuid[c] \notin bm_kicked_vcpus
    /\ pc[c] = "mark_kicked" => ~hlt_after_kick[cpuid[c]]
    /\ pc[c] = "kick" => cpuid[c] \in bm_kicked_vcpus /\ cpuid[c] \notin kick_pending

\* The winner that resets num_free_vcpu is the only vcpu awake.
RecoverOK ==
  \A c \in Cpu : /\ pc[c] \in {"recover_popcnt", "recover_free"} => bm_kicked_vcpus = {}
                 /\ pc[c] = "recover_free" => \A v \in Cpu \ {c} : pc[v] = "hlt"

FreeInv == KickOK /\ KickerOK /\ RecoverOK /\ FreeExact

LEMMA OneOther ==
  ASSUME TwoVcpus, NEW c \in Cpu, NEW d \in Cpu, NEW v \in Cpu, d # c, v # c
  PROVE  d = v
<1>1. SUFFICES ASSUME d # v PROVE FALSE
  OBVIOUS
<1>2. IsFiniteSet({c}) /\ Cardinality({c}) = 1
  BY FS_Singleton
<1>3. IsFiniteSet({c} \cup {d}) /\ Cardinality({c} \cup {d}) = 2
  BY <1>2, FS_AddElement
<1>4. IsFiniteSet(({c} \cup {d}) \cup {v}) /\ Cardinality(({c} \cup {d}) \cup {v}) = 3
  BY SMTT(30), <1>1, <1>3, FS_AddElement
<1>5. ({c} \cup {d}) \cup {v} \subseteq Cpu
  OBVIOUS
<1>6. 3 <= Cardinality(Cpu) /\ Cardinality(Cpu) \in Nat
  BY <1>4, <1>5, CpuAssumption, FS_Subset, FS_CardinalityType
<1> QED
  BY <1>6 DEF TwoVcpus

\* What a vcpu adds to FreeVcpus by its place in the code.
Counting == {"kick_ts", "mark_kicked"}
FreeSet == {c \in Cpu : CountedFree(c)}
Weight(c) == (IF CountedFree(c) THEN 1 ELSE 0) + (IF pc[c] \in Counting THEN 1 ELSE 0)

\* A finite set of which c alone may join or leave.
LEMMA OneMember ==
  ASSUME NEW S, IsFiniteSet(S), NEW T, NEW c, S \ {c} = T \ {c}
  PROVE  /\ IsFiniteSet(T)
         /\ Cardinality(S) \in Nat /\ Cardinality(T) \in Nat
         /\ Cardinality(T) + (IF c \in S THEN 1 ELSE 0)
              = Cardinality(S) + (IF c \in T THEN 1 ELSE 0)
<1>1. IsFiniteSet(S \ {c})
      /\ Cardinality(S \ {c}) = IF c \in S THEN Cardinality(S) - 1 ELSE Cardinality(S)
  BY FS_RemoveElement
<1>2. T = S \ {c} \/ T = (S \ {c}) \cup {c}
  OBVIOUS
<1>3. IsFiniteSet(T)
  BY <1>1, <1>2, FS_AddElement
<1>4. Cardinality(T \ {c}) = IF c \in T THEN Cardinality(T) - 1 ELSE Cardinality(T)
  BY <1>3, FS_RemoveElement
<1>5. Cardinality(S) \in Nat /\ Cardinality(T) \in Nat
  BY <1>3, FS_CardinalityType
<1> QED
  BY <1>1, <1>3, <1>4, <1>5

\* A step of one vcpu changes FreeVcpus by its weight and by the vcpus marked as kicked.
LEMMA FreeShift ==
  ASSUME TypeOK, TypeOK', NEW c \in Cpu,
         \A d \in Cpu \ {c} : pc'[d] = pc[d] /\ current'[d] = current[d]
  PROVE  /\ FreeVcpus' - Cardinality(bm_kicked_vcpus') - Weight(c)'
              = FreeVcpus - Cardinality(bm_kicked_vcpus) - Weight(c)
         /\ FreeVcpus \in Nat /\ FreeVcpus' \in Nat
         /\ IsFiniteSet(bm_kicked_vcpus)
         /\ Cardinality(bm_kicked_vcpus) \in Nat /\ Cardinality(bm_kicked_vcpus') \in Nat
<1>1. /\ FreeSet' = {d \in Cpu : CountedFree(d)'}
      /\ At(Counting) = {d \in Cpu : pc[d] \in Counting}
      /\ At(Counting)' = {d \in Cpu : pc'[d] \in Counting}
  BY DEF FreeSet, At
<1>2. \A d \in Cpu \ {c} : CountedFree(d)' = CountedFree(d)
  BY DEF CountedFree
<1>3. FreeSet \ {c} = FreeSet' \ {c}
  BY <1>1, <1>2 DEF FreeSet
<1>4. At(Counting) \ {c} = At(Counting)' \ {c}
  BY <1>1
<1>5. IsFiniteSet(FreeSet) /\ IsFiniteSet(At(Counting))
  BY <1>1, CpuAssumption, FS_Subset DEF FreeSet
<1>6. /\ IsFiniteSet(bm_kicked_vcpus)
      /\ Cardinality(bm_kicked_vcpus) \in Nat /\ Cardinality(bm_kicked_vcpus') \in Nat
  BY CpuAssumption, FS_Subset, FS_CardinalityType DEF TypeOK
<1>7. /\ Cardinality(FreeSet) \in Nat /\ Cardinality(FreeSet') \in Nat
      /\ Cardinality(FreeSet') + (IF CountedFree(c) THEN 1 ELSE 0)
           = Cardinality(FreeSet) + (IF CountedFree(c)' THEN 1 ELSE 0)
  <2>1. (c \in FreeSet <=> CountedFree(c)) /\ (c \in FreeSet' <=> CountedFree(c)')
    BY <1>1 DEF FreeSet
  <2> QED
    BY <1>3, <1>5, <2>1, OneMember
<1>8. /\ Cardinality(At(Counting)) \in Nat /\ Cardinality(At(Counting)') \in Nat
      /\ Cardinality(At(Counting)') + (IF pc[c] \in Counting THEN 1 ELSE 0)
           = Cardinality(At(Counting)) + (IF pc'[c] \in Counting THEN 1 ELSE 0)
  <2>1. (c \in At(Counting) <=> pc[c] \in Counting) /\ (c \in At(Counting)' <=> pc'[c] \in Counting)
    BY <1>1
  <2> QED
    BY <1>4, <1>5, <2>1, OneMember
<1>9. FreeVcpus = Cardinality(FreeSet) + Cardinality(bm_kicked_vcpus) + Cardinality(At(Counting))
  BY DEF FreeVcpus, FreeSet, Counting
<1>10. FreeVcpus' = Cardinality(FreeSet') + Cardinality(bm_kicked_vcpus')
                    + Cardinality(At(Counting)')
  BY DEF FreeVcpus, FreeSet, Counting
<1> QED
  BY <1>6, <1>7, <1>8, <1>9, <1>10 DEF Weight

\* The places the invariant speaks about; a plain step is one between others, that counts
\* what it does in num_free_vcpu.
TrickyPC == AsleepPC \cup AwakingPC \cup Counting
            \cup {"spurious", "rekick_ts", "rekick_call", "count_free", "kick", "recover_popcnt",
                  "recover_free"}

\* The other places where a vcpu is not looking for work.
AwayPC == {"user", "stopped", "taken_runnable", "cas_fin", "waiting", "win_free", "hlt_ts"}

\* Weight by the place in the code, before and after a step.
PlaceWeights(c) ==
  /\ pc[c] \in AwayPC \cup AsleepPC \cup AwakingPC => Weight(c) = 0
  /\ pc'[c] \in AwayPC \cup AsleepPC \cup AwakingPC => Weight(c)' = 0
  /\ pc[c] \notin AwayPC \cup TrickyPC \cup {"start"} => Weight(c) = 1
  /\ pc'[c] \notin AwayPC \cup TrickyPC \cup {"start"} => Weight(c)' = 1
  /\ pc[c] = "start" => Weight(c) = IF current[c] = Null THEN 1 ELSE 0
  /\ pc'[c] = "start" => Weight(c)' = IF current'[c] = Null THEN 1 ELSE 0
  /\ pc[c] \in {"count_free", "kick", "recover_popcnt", "recover_free"} => Weight(c) = 1
  /\ pc'[c] \in {"count_free", "kick", "recover_popcnt", "recover_free"} => Weight(c)' = 1
  /\ pc[c] \in Counting => Weight(c) = 2
  /\ pc'[c] \in Counting => Weight(c)' = 2

LEMMA Weights == ASSUME NEW c \in Cpu PROVE PlaceWeights(c)
<1>1. CountedFree(c) <=>
        \/ pc[c] \notin AwayPC \cup AsleepPC \cup AwakingPC \cup {"start", "spurious"}
        \/ pc[c] = "start" /\ current[c] = Null
  BY DEF CountedFree, AwayPC, AsleepPC, AwakingPC
<1>2. CountedFree(c)' <=>
        \/ pc'[c] \notin AwayPC \cup AsleepPC \cup AwakingPC \cup {"start", "spurious"}
        \/ pc'[c] = "start" /\ current'[c] = Null
  BY DEF CountedFree, AwayPC, AsleepPC, AwakingPC
<1>3. /\ Weight(c) = (IF CountedFree(c) THEN 1 ELSE 0) + (IF pc[c] \in Counting THEN 1 ELSE 0)
      /\ Weight(c)' = (IF CountedFree(c)' THEN 1 ELSE 0) + (IF pc'[c] \in Counting THEN 1 ELSE 0)
  BY DEF Weight
<1> HIDE DEF CountedFree, Weight
<1>4. /\ pc[c] \in AwayPC \cup AsleepPC \cup AwakingPC => Weight(c) = 0
      /\ pc'[c] \in AwayPC \cup AsleepPC \cup AwakingPC => Weight(c)' = 0
  BY <1>1, <1>2, <1>3 DEF AwayPC, AsleepPC, AwakingPC, Counting
<1>5. /\ pc[c] \notin AwayPC \cup TrickyPC \cup {"start"} => Weight(c) = 1
      /\ pc'[c] \notin AwayPC \cup TrickyPC \cup {"start"} => Weight(c)' = 1
  BY <1>1, <1>2, <1>3 DEF TrickyPC
<1>6. /\ pc[c] = "start" => Weight(c) = IF current[c] = Null THEN 1 ELSE 0
      /\ pc'[c] = "start" => Weight(c)' = IF current'[c] = Null THEN 1 ELSE 0
  BY <1>1, <1>2, <1>3 DEF Counting
<1>7. /\ pc[c] \in {"count_free", "kick", "recover_popcnt", "recover_free"} => Weight(c) = 1
      /\ pc'[c] \in {"count_free", "kick", "recover_popcnt", "recover_free"} => Weight(c)' = 1
  BY <1>1, <1>2, <1>3 DEF AwayPC, AsleepPC, AwakingPC, Counting
<1>8. /\ pc[c] \in Counting => Weight(c) = 2
      /\ pc'[c] \in Counting => Weight(c)' = 2
  BY <1>1, <1>2, <1>3 DEF AwayPC, AsleepPC, AwakingPC, Counting
<1> QED
  BY <1>4, <1>5, <1>6, <1>7, <1>8 DEF PlaceWeights

Plain(c) ==
  /\ UNCHANGED power
  /\ pc[c] \notin TrickyPC /\ pc'[c] \notin TrickyPC
  /\ \A d \in Cpu \ {c} : pc'[d] = pc[d] /\ current'[d] = current[d] /\ cpuid'[d] = cpuid[d]
  /\ num_free_vcpu' = num_free_vcpu + Weight(c)' - Weight(c)

LEMMA PlainFree ==
  ASSUME TypeOK, TypeOK', FreeInv, NEW c \in Cpu, Plain(c)
  PROVE  FreeInv'
<1>1. /\ bm_kicked_vcpus' = bm_kicked_vcpus /\ kick_pending' = kick_pending
      /\ bm_inactive_vcpus' = bm_inactive_vcpus /\ hlt_after_kick' = hlt_after_kick
      /\ pc[c] \notin TrickyPC /\ pc'[c] \notin TrickyPC
      /\ \A d \in Cpu \ {c} : pc'[d] = pc[d] /\ current'[d] = current[d] /\ cpuid'[d] = cpuid[d]
  BY DEF Plain, TypeOK
<1>2. \A d \in Cpu : pc'[d] \in TrickyPC \/ pc[d] \in TrickyPC => d # c /\ pc'[d] = pc[d]
  BY <1>1
<1>3. KickOK'
  BY <1>1, <1>2 DEF FreeInv, KickOK, At, TrickyPC, AsleepPC, AwakingPC
<1>4. KickerOK'
  <2> SUFFICES ASSUME NEW d \in Cpu,
                      pc'[d] \in {"count_free", "kick_ts", "mark_kicked", "kick"}
               PROVE  /\ pc'[cpuid'[d]] \in AsleepPC
                      /\ pc'[d] # "kick" => cpuid'[d] \notin bm_kicked_vcpus
                      /\ pc'[d] = "mark_kicked" => ~hlt_after_kick[cpuid'[d]]
                      /\ pc'[d] = "kick" => /\ cpuid'[d] \in bm_kicked_vcpus
                                            /\ cpuid'[d] \notin kick_pending
    BY <1>1 DEF KickerOK
  <2>1. d # c /\ pc[d] = pc'[d] /\ cpuid'[d] = cpuid[d] /\ cpuid[d] \in Cpu
    BY <1>1, <1>2 DEF TrickyPC, Counting, TypeOK
  <2>2. pc[cpuid[d]] \in AsleepPC
    BY <2>1 DEF FreeInv, KickerOK
  <2>3. pc'[cpuid[d]] \in AsleepPC
    BY <1>2, <2>1, <2>2 DEF TrickyPC
  <2> QED
    BY <2>1, <2>3 DEF FreeInv, KickerOK
<1>5. RecoverOK'
  BY <1>1, <1>2 DEF FreeInv, RecoverOK, TrickyPC, AsleepPC
<1>6. FreeExact'
  <2>1. FreeVcpus' - Weight(c)' = FreeVcpus - Weight(c) /\ FreeVcpus \in Nat /\ FreeVcpus' \in Nat
    BY <1>1, FreeShift DEF Weight
  <2>2. Weight(c) \in Nat /\ Weight(c)' \in Nat
    BY DEF Weight
  <2> QED
    BY <2>1, <2>2 DEF Plain, FreeInv, FreeExact
<1> QED
  BY <1>3, <1>4, <1>5, <1>6 DEF FreeInv

\* What the proofs about plain steps need of TypeOK.
PcTyped == /\ pc \in [Cpu -> PC] /\ current \in [Cpu -> FnOrNull]
           /\ cpuid \in [Cpu -> Cpu \cup {Null}] /\ num_free_vcpu \in Int

LEMMA PlainCompletion == ASSUME TypeOK, LocalOK, NEW c \in Cpu, Completion(c) PROVE Plain(c)
<1>t. PcTyped
  BY DEF TypeOK, PcTyped
<1>w. PlaceWeights(c)
  BY Weights
<1> USE DEF Plain, PcTyped, PlaceWeights, TrickyPC, AsleepPC, AwakingPC, Counting, AwayPC
<1> HIDE DEF PC, FnOrNull
<1>1. CASE StartSched(c)
  BY <1>1, <1>t, <1>w DEF StartSched, AfterDag
<1>2. ASSUME NEW g \in Fn, DecInCount(c, g) PROVE Plain(c)
  BY <1>2, <1>t, <1>w DEF DecInCount
<1>3. CASE AddRunnableInc(c) \/ AddRunnableBit(c)
  BY <1>3, <1>t, <1>w DEF AddRunnableInc, AddRunnableBit
<1>4. CASE DagProcessed(c)
  BY <1>4, <1>t, <1>w DEF DagProcessed, AfterDag
<1>5. CASE IncFinFn(c)
  BY <1>5, <1>t, <1>w DEF IncFinFn
<1> QED
  BY <1>1, <1>2, <1>3, <1>4, <1>5 DEF Completion

LEMMA PlainRekicking ==
  ASSUME TypeOK, TwoVcpus, KickOK, NEW c \in Cpu, Rekicking(c) PROVE Plain(c)
<1>t. PcTyped
  BY DEF TypeOK, PcTyped
<1>w. PlaceWeights(c)
  BY Weights
<1> USE DEF Plain, PcTyped, PlaceWeights, TrickyPC, AsleepPC, AwakingPC, Counting, AwayPC
<1> HIDE DEF PC, FnOrNull
<1>1. CASE ReadKicked(c) \/ DcasKicked(c) \/ RekickDone(c)
  BY <1>1, <1>t, <1>w DEF ReadKicked, DcasKicked, RekickDone, Branch
<1>2. ASSUME NEW v \in Cpu, RekickExtract(c, v) PROVE Plain(c)
  BY <1>2, <1>t, <1>w DEF RekickExtract, TwoVcpus
<1>3. CASE RekickClear(c)
  BY <1>3, <1>t, <1>w DEF RekickClear
<1>4. CASE RekickStamp(c) \/ RekickCall(c)
  BY <1>4, <1>t, <1>w DEF KickOK, RekickStamp, RekickCall, StampKick, KickCpu
<1> QED
  BY <1>1, <1>2, <1>3, <1>4 DEF Rekicking

LEMMA PlainWaking ==
  ASSUME TypeOK, NEW c \in Cpu, Waking(c)
  PROVE  \/ Plain(c)
         \/ TestFirstKick(c) /\ hlt_after_kick[cpuid[c]]
         \/ CountKickedAsFree(c) \/ KickStamp(c) \/ MarkKicked(c) \/ Kick(c)
<1>t. PcTyped
  BY DEF TypeOK, PcTyped
<1>w. PlaceWeights(c)
  BY Weights
<1> USE DEF Plain, PcTyped, PlaceWeights, TrickyPC, AsleepPC, AwakingPC, Counting, AwayPC
<1> HIDE DEF PC, FnOrNull
<1>1. CASE ReadRunnable(c) \/ ReadFree(c)
  BY <1>1, <1>t, <1>w DEF ReadRunnable, ReadFree
<1>2. CASE CasSig(c) \/ SetWakeNum(c) \/ ReadInactive(c) \/ DcasInactive(c)
  BY <1>2, <1>t, <1>w DEF CasSig, SetWakeNum, ReadInactive, DcasInactive
<1>3. CASE Claim(c) \/ SetSig(c) \/ NoneToKick(c)
  BY <1>3, <1>t, <1>w DEF Claim, SetSig, NoneToKick, Branch
<1>4. ASSUME NEW v \in Cpu, Extract(c, v) PROVE Plain(c)
  BY <1>4, <1>t, <1>w DEF Extract
<1>5. CASE ClearReflective(c)
  BY <1>5, <1>t, <1>w DEF ClearReflective
<1>6. CASE TestFirstKick(c) /\ ~hlt_after_kick[cpuid[c]]
  BY <1>6, <1>t, <1>w DEF TestFirstKick, Branch
<1> QED
  BY <1>1, <1>2, <1>3, <1>4, <1>5, <1>6 DEF Waking

LEMMA PlainGettingWork ==
  ASSUME TypeOK, NEW c \in Cpu, GettingWork(c) PROVE Plain(c)
<1>t. PcTyped
  BY DEF TypeOK, PcTyped
<1>w. PlaceWeights(c)
  BY Weights
<1> USE DEF Plain, PcTyped, PlaceWeights, TrickyPC, AsleepPC, AwakingPC, Counting, AwayPC
<1> HIDE DEF PC, FnOrNull
<1>1. ASSUME NEW f \in Fn, TakeWork(c, f) PROVE Plain(c)
  BY <1>1, <1>t, <1>w DEF TakeWork
<1>2. CASE WordEmpty(c)
  BY <1>2, <1>t, <1>w DEF WordEmpty
<1>3. CASE TakenDecFree(c)
  BY <1>3, <1>t, <1>w DEF TakenDecFree, AddFree
<1>4. CASE JumpToFn(c)
  BY <1>4, <1>t, <1>w DEF JumpToFn
<1> QED
  BY <1>1, <1>2, <1>3, <1>4 DEF GettingWork

LEMMA PlainWinning ==
  ASSUME TypeOK, NEW c \in Cpu, Winning(c)
  PROVE  \/ Plain(c)
         \/ RecoverTestKicked(c) /\ bm_kicked_vcpus = {}
         \/ RecoverPopcnt(c) \/ RecoverFree(c)
<1>t. PcTyped
  BY DEF TypeOK, PcTyped
<1>w. PlaceWeights(c)
  BY Weights
<1> USE DEF Plain, PcTyped, PlaceWeights, TrickyPC, AsleepPC, AwakingPC, Counting, AwayPC
<1> HIDE DEF PC, FnOrNull
<1>1. CASE WinnerIncFree(c)
  BY <1>1, <1>t, <1>w DEF WinnerIncFree, AddFree
<1>2. CASE Wipe(c)
  BY <1>2, <1>t, <1>w DEF Wipe
<1>3. CASE RecoverTestKicked(c) /\ bm_kicked_vcpus # {}
  BY <1>3, <1>t, <1>w DEF RecoverTestKicked, Branch
<1>4. CASE RecoverRunnable(c) \/ CopyInCounts(c)
  BY <1>4, <1>t, <1>w DEF RecoverRunnable, CopyInCounts
<1> QED
  BY <1>1, <1>2, <1>3, <1>4 DEF Winning

LEMMA PlainIdling ==
  ASSUME TypeOK, KickOK, NEW c \in Cpu, Idling(c)
  PROVE  \/ Plain(c)
         \/ StampHlt(c) \/ MarkInactive(c) \/ ClearInactive(c) \/ ClearKicked(c)
<1>t. PcTyped
  BY DEF TypeOK, PcTyped
<1>w. PlaceWeights(c)
  BY Weights
<1> USE DEF Plain, PcTyped, PlaceWeights, TrickyPC, AsleepPC, AwakingPC, Counting, AwayPC
<1> HIDE DEF PC, FnOrNull
<1>1. CASE NoWorkDecFree(c)
  BY <1>1, <1>t, <1>w DEF NoWorkDecFree, AddFree
<1>2. CASE CasFinFn(c)
  BY <1>2, <1>t, <1>w DEF CasFinFn
<1>3. CASE SpuriousIncFree(c)
  BY <1>3, <1>t, <1>w DEF KickOK, SpuriousIncFree
<1> QED
  BY <1>1, <1>2, <1>3 DEF Idling

LEMMA PlainExternal ==
  ASSUME TypeOK, NEW c \in Cpu, External(c)
  PROVE  Plain(c) \/ Wake(c)
<1>t. PcTyped
  BY DEF TypeOK, PcTyped
<1>w. PlaceWeights(c)
  BY Weights
<1> USE DEF Plain, PcTyped, PlaceWeights, TrickyPC, AsleepPC, AwakingPC, Counting, AwayPC
<1> HIDE DEF PC, FnOrNull
<1>1. CASE UserReturn(c)
  <2>1. pc[c] = "user" /\ pc'[c] = "start" /\ current' = current /\ num_free_vcpu' = num_free_vcpu
    BY <1>1, <1>t DEF UserReturn
  <2>2. current[c] # Null
    BY <2>1, FnAssumption DEF TypeOK
  <2>3. Weight(c) = 0 /\ Weight(c)' = 0
    BY <1>w, <2>1, <2>2
  <2> QED
    BY <1>1, <1>t, <2>1, <2>3 DEF UserReturn
<1>2. CASE UserFault(c)
  BY <1>2, <1>t, <1>w DEF UserFault, Branch
<1>3. CASE WaitingForWork(c)
  BY <1>3, <1>t, <1>w DEF WaitingForWork
<1> QED
  BY <1>1, <1>2, <1>3 DEF External

-----------------------------------------------------------------------------
(* The steps of a kick, of a sleep and of the recovery.                    *)

\* The vcpu that is kicked is another one, and nobody else is.
LEMMA Kicked ==
  ASSUME TypeOK, TwoVcpus, KickerOK, NEW c \in Cpu,
         pc[c] \in {"count_free", "kick_ts", "mark_kicked", "kick"}
  PROVE  /\ cpuid[c] \in Cpu /\ cpuid[c] # c /\ pc[cpuid[c]] \in AsleepPC
         /\ \A d \in Cpu : d # c => d = cpuid[c]
<1>1. cpuid[c] \in Cpu /\ pc[cpuid[c]] \in AsleepPC
  BY DEF TypeOK, KickerOK
<1>2. cpuid[c] # c
  BY <1>1 DEF AsleepPC
<1> QED
  BY <1>1, <1>2, OneOther

LEMMA KickSteps ==
  ASSUME TypeOK, TypeOK', TwoVcpus, FreeInv, NEW c \in Cpu,
         \/ TestFirstKick(c) /\ hlt_after_kick[cpuid[c]]
         \/ CountKickedAsFree(c) \/ KickStamp(c) \/ MarkKicked(c) \/ Kick(c)
  PROVE  FreeInv'
<1> PICK v : v = cpuid[c]
  OBVIOUS
<1> USE DEF FreeInv
<1>1. /\ v \in Cpu /\ v # c /\ pc[v] \in AsleepPC /\ v \notin At(Counting)
      /\ \A d \in Cpu : d # c => d = v
  <2>1. CASE TestFirstKick(c) /\ hlt_after_kick[cpuid[c]]
    <3>1. pc[c] = "first_kick" /\ v \in Cpu
      BY <2>1 DEF TestFirstKick, Branch, TypeOK
    <3>2. pc[v] \in AsleepPC
      BY <2>1, <3>1 DEF KickOK
    <3>3. v # c
      BY <3>1, <3>2 DEF AsleepPC
    <3> QED
      BY <3>1, <3>2, <3>3, OneOther DEF At, Counting, AsleepPC
  <2>2. CASE CountKickedAsFree(c) \/ KickStamp(c) \/ MarkKicked(c) \/ Kick(c)
    <3>1. pc[c] \in {"count_free", "kick_ts", "mark_kicked", "kick"}
      BY <2>2 DEF CountKickedAsFree, KickStamp, MarkKicked, Kick, AddFree, StampKick, KickCpu
    <3> QED
      BY <3>1, Kicked DEF At, Counting, AsleepPC
  <2> QED
    BY <2>1, <2>2
<1>2. /\ \A d \in Cpu : pc'[d] = IF d = c THEN pc'[c] ELSE pc[d]
      /\ pc[c] \notin AsleepPC \cup AwakingPC /\ pc'[c] \notin AsleepPC \cup AwakingPC
      /\ pc'[c] \notin {"spurious", "rekick_ts", "rekick_call", "recover_popcnt", "recover_free"}
      /\ pc[c] \notin {"recover_popcnt", "recover_free"} /\ pc[c] # "hlt"
      /\ cpuid' = cpuid /\ current' = current /\ bm_inactive_vcpus' = bm_inactive_vcpus
  BY DEF TypeOK, TestFirstKick, CountKickedAsFree, KickStamp, MarkKicked, Kick, AddFree, StampKick,
         KickCpu, Branch, AsleepPC, AwakingPC
<1>3. pc'[v] = pc[v] /\ v \notin {c}
  BY <1>1, <1>2
\* The one that sleeps is not the one that recovers, and no third one is there.
<1>4. RecoverOK'
  <2>1. \A d \in Cpu : pc'[d] \notin {"recover_popcnt", "recover_free"}
    BY <1>1, <1>2, <1>3 DEF AsleepPC
  <2> QED
    BY <2>1 DEF RecoverOK
<1>5. FreeVcpus' - Cardinality(bm_kicked_vcpus') - Weight(c)'
        = FreeVcpus - Cardinality(bm_kicked_vcpus) - Weight(c)
      /\ FreeVcpus \in Nat /\ FreeVcpus' \in Nat /\ IsFiniteSet(bm_kicked_vcpus)
      /\ Cardinality(bm_kicked_vcpus) \in Nat /\ Cardinality(bm_kicked_vcpus') \in Nat
  BY <1>2, FreeShift
<1>6. ASSUME bm_kicked_vcpus' = bm_kicked_vcpus,
             num_free_vcpu' = num_free_vcpu + Weight(c)' - Weight(c)
      PROVE  FreeExact'
  <2>1. Weight(c) \in Nat /\ Weight(c)' \in Nat
    BY DEF Weight
  <2> QED
    BY <1>5, <1>6, <2>1 DEF FreeExact
<1>w. PlaceWeights(c) /\ num_free_vcpu \in Int
  BY Weights DEF TypeOK
<1>7. CASE TestFirstKick(c) /\ hlt_after_kick[cpuid[c]]
  <2>1. /\ pc[c] = "first_kick" /\ pc'[c] = "count_free" /\ hlt_after_kick[v]
        /\ UNCHANGED <<bm_kicked_vcpus, kick_pending, hlt_after_kick, num_free_vcpu>>
    BY <1>7 DEF TestFirstKick, Branch, TypeOK
  <2>2. KickOK'
    BY <1>1, <1>2, <2>1 DEF KickOK, At, AsleepPC, AwakingPC
  <2>3. KickerOK'
    BY <1>1, <1>2, <1>3, <2>1 DEF KickOK, KickerOK, AsleepPC
  <2>4. FreeExact'
    <3>1. Weight(c) = 1 /\ Weight(c)' = 1
      BY <1>w, <2>1 DEF PlaceWeights, AwayPC, TrickyPC, AsleepPC, AwakingPC, Counting
    <3> QED
      BY <1>6, <1>w, <2>1, <3>1
  <2> QED
    BY <1>4, <2>2, <2>3, <2>4
<1>8. CASE CountKickedAsFree(c)
  <2>1. /\ pc[c] = "count_free" /\ pc'[c] = "kick_ts" /\ num_free_vcpu' = num_free_vcpu + 1
        /\ UNCHANGED <<bm_kicked_vcpus, kick_pending, hlt_after_kick>>
    BY <1>8 DEF CountKickedAsFree, AddFree, TypeOK
  <2>2. KickOK'
    BY <1>1, <1>2, <2>1 DEF KickOK, At, AsleepPC, AwakingPC
  <2>3. KickerOK'
    BY <1>1, <1>2, <1>3, <2>1 DEF KickOK, KickerOK, AsleepPC
  <2>4. FreeExact'
    BY <1>6, <1>w, <2>1 DEF PlaceWeights, AwayPC, TrickyPC, AsleepPC, AwakingPC, Counting
  <2> QED
    BY <1>4, <2>2, <2>3, <2>4
<1>9. CASE KickStamp(c)
  <2>1. /\ pc[c] = "kick_ts" /\ pc'[c] = "mark_kicked"
        /\ hlt_after_kick' = [hlt_after_kick EXCEPT ![v] = FALSE]
        /\ UNCHANGED <<bm_kicked_vcpus, kick_pending, num_free_vcpu>>
    BY <1>9 DEF KickStamp, StampKick, TypeOK
  <2>2. KickOK'
    BY SMTT(30), <1>1, <1>2, <2>1 DEF TypeOK, KickOK, At, AsleepPC, AwakingPC
  <2>3. KickerOK'
    BY <1>1, <1>2, <1>3, <2>1 DEF TypeOK, KickOK, KickerOK, AsleepPC
  <2>4. FreeExact'
    <3>1. Weight(c) = 2 /\ Weight(c)' = 2
      BY <1>w, <2>1 DEF PlaceWeights, AwayPC, TrickyPC, AsleepPC, AwakingPC, Counting
    <3> QED
      BY <1>6, <1>w, <2>1, <3>1
  <2> QED
    BY <1>4, <2>2, <2>3, <2>4
<1>10. CASE MarkKicked(c)
  <2>1. /\ pc[c] = "mark_kicked" /\ pc'[c] = "kick"
        /\ bm_kicked_vcpus' = bm_kicked_vcpus \cup {v}
        /\ UNCHANGED <<hlt_after_kick, kick_pending, num_free_vcpu>>
    BY <1>10 DEF MarkKicked, TypeOK
  <2>2. v \notin bm_kicked_vcpus /\ ~hlt_after_kick[v] /\ v \notin kick_pending
    BY <2>1 DEF KickOK, KickerOK
  <2>3. KickOK'
    BY <1>1, <1>2, <1>3, <2>1, <2>2 DEF KickOK, At, AsleepPC, AwakingPC
  <2>4. KickerOK'
    BY <1>1, <1>2, <1>3, <2>1, <2>2 DEF KickOK, KickerOK, AsleepPC
  <2>5. Cardinality(bm_kicked_vcpus') = Cardinality(bm_kicked_vcpus) + 1
    BY <1>5, <2>1, <2>2, FS_AddElement
  <2>6. Weight(c) = 2 /\ Weight(c)' = 1
    BY <1>w, <2>1 DEF PlaceWeights, Counting
  <2>7. FreeExact'
    BY <1>5, <2>1, <2>5, <2>6 DEF FreeExact
  <2> QED
    BY <1>4, <2>3, <2>4, <2>7
<1>11. CASE Kick(c)
  <2>1. /\ pc[c] = "kick" /\ pc'[c] = "clear_kick"
        /\ kick_pending' = kick_pending \/ kick_pending' = kick_pending \cup {v}
        /\ UNCHANGED <<bm_kicked_vcpus, hlt_after_kick, num_free_vcpu>>
    BY <1>11 DEF Kick, KickCpu, TypeOK
  <2>2. v \in bm_kicked_vcpus
    BY <2>1 DEF KickerOK
  <2>3. KickOK'
    BY <1>1, <1>2, <1>3, <2>1, <2>2 DEF KickOK, At, AsleepPC, AwakingPC
  <2>4. KickerOK'
    BY <1>1, <1>2, <1>3, <2>1, <2>2 DEF KickOK, KickerOK, AsleepPC
  <2>5. FreeExact'
    <3>1. Weight(c) = 1 /\ Weight(c)' = 1
      BY <1>w, <2>1 DEF PlaceWeights, AwayPC, TrickyPC, AsleepPC, AwakingPC, Counting
    <3> QED
      BY <1>6, <1>w, <2>1, <3>1
  <2> QED
    BY <1>4, <2>3, <2>4, <2>5
<1> QED
  BY <1>7, <1>8, <1>9, <1>10, <1>11

LEMMA SleepSteps ==
  ASSUME TypeOK, TypeOK', LocalOK, TwoVcpus, FreeInv, NEW c \in Cpu,
         StampHlt(c) \/ MarkInactive(c) \/ Wake(c) \/ ClearInactive(c) \/ ClearKicked(c)
  PROVE  FreeInv'
<1> USE DEF FreeInv
<1>1. /\ \A d \in Cpu : pc'[d] = IF d = c THEN pc'[c] ELSE pc[d]
      /\ cpuid' = cpuid /\ current' = current /\ num_free_vcpu' = num_free_vcpu
      /\ pc[c] \in {"hlt_ts"} \cup AsleepPC \cup AwakingPC
      /\ pc'[c] \in {"new_work", "start"} \cup AsleepPC \cup AwakingPC
  BY DEF TypeOK, StampHlt, MarkInactive, Wake, ClearInactive, ClearKicked, AfterWake, AsleepPC,
         AwakingPC, KickOK
<1>2. FreeVcpus' - Cardinality(bm_kicked_vcpus') - Weight(c)'
        = FreeVcpus - Cardinality(bm_kicked_vcpus) - Weight(c)
      /\ FreeVcpus \in Nat /\ FreeVcpus' \in Nat /\ IsFiniteSet(bm_kicked_vcpus)
      /\ Cardinality(bm_kicked_vcpus) \in Nat /\ Cardinality(bm_kicked_vcpus') \in Nat
  BY <1>1, FreeShift
<1>w. PlaceWeights(c)
  BY Weights
<1>3. Weight(c) = 0
  BY <1>1, <1>w DEF PlaceWeights, AwayPC
<1>4. ASSUME bm_kicked_vcpus' = bm_kicked_vcpus, pc'[c] \in AsleepPC \cup AwakingPC
      PROVE  FreeExact'
  <2>1. Weight(c)' = 0
    BY <1>4, <1>w DEF PlaceWeights
  <2> QED
    BY <1>1, <1>2, <1>3, <1>4, <2>1 DEF FreeExact
\* While c sleeps unkicked nobody is kicking it, or somebody is who has not yet marked it.
<1>5. \A d \in Cpu : pc[d] \in {"count_free", "kick_ts", "mark_kicked", "kick"} =>
        d # c /\ cpuid[d] = c /\ pc[c] \in AsleepPC
  <2> SUFFICES ASSUME NEW d \in Cpu,
                      pc[d] \in {"count_free", "kick_ts", "mark_kicked", "kick"}
               PROVE  d # c /\ cpuid[d] = c /\ pc[c] \in AsleepPC
    OBVIOUS
  <2>1. d # c
    BY <1>1 DEF AsleepPC, AwakingPC
  <2> QED
    BY <2>1, Kicked
<1>6. CASE StampHlt(c)
  <2>1. /\ pc[c] = "hlt_ts" /\ pc'[c] = "mark_inactive"
        /\ hlt_after_kick' = [hlt_after_kick EXCEPT ![c] = TRUE]
        /\ UNCHANGED <<bm_inactive_vcpus, bm_kicked_vcpus, kick_pending>>
    BY <1>6 DEF StampHlt, TypeOK
  <2>2. KickOK'
    BY <1>1, <2>1 DEF TypeOK, KickOK, At, AsleepPC, AwakingPC
  <2>3. KickerOK'
    BY <1>1, <1>5, <2>1 DEF KickerOK, AsleepPC
  <2>4. RecoverOK'
    BY <1>1, <2>1 DEF RecoverOK
  <2> QED
    BY <1>4, <2>1, <2>2, <2>3, <2>4 DEF AsleepPC
<1>7. CASE MarkInactive(c)
  <2>1. /\ pc[c] = "mark_inactive" /\ pc'[c] = "hlt"
        /\ bm_inactive_vcpus' = bm_inactive_vcpus \cup {c}
        /\ UNCHANGED <<hlt_after_kick, bm_kicked_vcpus, kick_pending>>
    BY <1>7 DEF MarkInactive, TypeOK
  <2>2. KickOK'
    BY <1>1, <2>1 DEF KickOK, At, AsleepPC, AwakingPC
  <2>3. KickerOK'
    BY <1>1, <1>5, <2>1 DEF KickerOK, AsleepPC
  <2>4. RecoverOK'
    BY <1>1, <2>1 DEF RecoverOK
  <2> QED
    BY <1>4, <2>1, <2>2, <2>3, <2>4 DEF AsleepPC
<1>8. CASE Wake(c)
  <2>1. /\ pc[c] = "hlt" /\ pc'[c] = "woken" /\ c \in kick_pending
        /\ kick_pending' = kick_pending \ {c}
        /\ UNCHANGED <<hlt_after_kick, bm_kicked_vcpus, bm_inactive_vcpus>>
    BY <1>8 DEF Wake, TypeOK, TwoVcpus
  <2>2. c \in bm_kicked_vcpus
    BY <2>1 DEF KickOK
  <2>3. KickOK'
    BY <1>1, <2>1, <2>2 DEF KickOK, At, AsleepPC, AwakingPC
  <2>4. \A d \in Cpu : pc'[d] \notin {"count_free", "kick_ts", "mark_kicked", "kick"}
    BY <1>1, <1>5, <2>1, <2>2 DEF KickerOK
  <2>5. KickerOK'
    BY <2>4 DEF KickerOK
  <2>6. RecoverOK'
    BY <1>1, <2>1, <2>2 DEF RecoverOK
  <2> QED
    BY <1>4, <2>1, <2>3, <2>5, <2>6 DEF AwakingPC
<1>9. CASE ClearInactive(c)
  <2>1. /\ pc[c] = "woken" /\ pc'[c] = "clear_kicked"
        /\ bm_inactive_vcpus' = bm_inactive_vcpus \ {c}
        /\ UNCHANGED <<hlt_after_kick, bm_kicked_vcpus, kick_pending>>
    BY <1>9 DEF ClearInactive, TypeOK
  <2>2. KickOK'
    BY <1>1, <2>1 DEF KickOK, At, AsleepPC, AwakingPC
  <2>3. \A d \in Cpu : pc'[d] \notin {"count_free", "kick_ts", "mark_kicked", "kick"}
    BY <1>1, <1>5, <2>1 DEF AsleepPC
  <2>4. KickerOK'
    BY <2>3 DEF KickerOK
  <2>5. RecoverOK'
    BY <1>1, <2>1 DEF RecoverOK
  <2> QED
    BY <1>4, <2>1, <2>2, <2>4, <2>5 DEF AwakingPC
<1>10. CASE ClearKicked(c)
  <2>1. /\ pc[c] = "clear_kicked" /\ c \in bm_kicked_vcpus /\ c \notin kick_pending
        /\ pc'[c] \in {"new_work", "start"}
        /\ bm_kicked_vcpus' = bm_kicked_vcpus \ {c}
        /\ UNCHANGED <<hlt_after_kick, bm_inactive_vcpus, kick_pending>>
    BY <1>10 DEF ClearKicked, AfterWake, TypeOK, KickOK, AwakingPC
  <2>2. KickOK'
    BY <1>1, <2>1 DEF KickOK, At, AsleepPC, AwakingPC
  <2>3. \A d \in Cpu : pc'[d] \notin {"count_free", "kick_ts", "mark_kicked", "kick"}
    BY <1>1, <1>5, <2>1 DEF AsleepPC
  <2>4. KickerOK'
    BY <2>3 DEF KickerOK
  <2>5. RecoverOK'
    BY <1>1, <2>1 DEF RecoverOK
  <2>6. current[c] = Null
    BY <2>1 DEF LocalOK
  <2>7. Weight(c)' = 1
    BY <1>1, <1>w, <2>1, <2>6 DEF PlaceWeights, AwayPC, TrickyPC, AsleepPC, AwakingPC, Counting
  <2>8. Cardinality(bm_kicked_vcpus') = Cardinality(bm_kicked_vcpus) - 1
    BY <1>2, <2>1, FS_RemoveElement
  <2>9. FreeExact'
    BY <1>1, <1>2, <1>3, <2>7, <2>8 DEF FreeExact
  <2> QED
    BY <2>2, <2>4, <2>5, <2>9
<1> QED
  BY <1>6, <1>7, <1>8, <1>9, <1>10

LEMMA RecoverSteps ==
  ASSUME TypeOK, TypeOK', FreeInv, NEW c \in Cpu,
         \/ RecoverTestKicked(c) /\ bm_kicked_vcpus = {}
         \/ RecoverPopcnt(c) \/ RecoverFree(c)
  PROVE  FreeInv'
<1> USE DEF FreeInv
<1>1. /\ \A d \in Cpu : pc'[d] = IF d = c THEN pc'[c] ELSE pc[d]
      /\ UNCHANGED <<power, cpuid, current>>
      /\ pc[c] \in {"recover", "recover_popcnt", "recover_free"}
      /\ pc'[c] \in {"recover_popcnt", "recover_free", "recover_runnable", "copy"}
  BY DEF TypeOK, RecoverTestKicked, RecoverPopcnt, RecoverFree, Branch
<1>2. KickOK'
  BY <1>1 DEF KickOK, At, AsleepPC, AwakingPC
<1>3. KickerOK'
  <2> SUFFICES ASSUME NEW d \in Cpu,
                      pc'[d] \in {"count_free", "kick_ts", "mark_kicked", "kick"}
               PROVE  /\ pc'[cpuid[d]] \in AsleepPC
                      /\ pc'[d] # "kick" => cpuid[d] \notin bm_kicked_vcpus
                      /\ pc'[d] = "mark_kicked" => ~hlt_after_kick[cpuid[d]]
                      /\ pc'[d] = "kick" => /\ cpuid[d] \in bm_kicked_vcpus
                                            /\ cpuid[d] \notin kick_pending
    BY <1>1 DEF KickerOK
  <2>1. d # c /\ pc[d] = pc'[d] /\ cpuid[d] \in Cpu
    BY <1>1 DEF TypeOK
  <2>2. pc[cpuid[d]] \in AsleepPC
    BY <2>1 DEF KickerOK
  <2>3. pc'[cpuid[d]] \in AsleepPC
    BY <1>1, <2>1, <2>2 DEF AsleepPC
  <2> QED
    BY <2>1, <2>3 DEF KickerOK
<1>4. bm_kicked_vcpus = {}
  BY DEF RecoverOK, RecoverPopcnt, RecoverFree, Branch
<1>5. ASSUME pc'[c] = "recover_free" PROVE \A v \in Cpu \ {c} : pc[v] = "hlt"
  <2>1. pc[c] = "recover_popcnt" /\ Cardinality(Cpu) - Cardinality(bm_inactive_vcpus) = 1
    BY <1>5 DEF TypeOK, RecoverTestKicked, RecoverPopcnt, RecoverFree, Branch
  <2>2. bm_inactive_vcpus \subseteq Cpu \ {c}
    BY <2>1 DEF TypeOK, KickOK, At
  <2>3. /\ IsFiniteSet(Cpu \ {c}) /\ Cardinality(Cpu \ {c}) = Cardinality(Cpu) - 1
        /\ Cardinality(Cpu) \in Nat /\ Cardinality(bm_inactive_vcpus) \in Nat
    BY <2>2, CpuAssumption, FS_RemoveElement, FS_CardinalityType, FS_Subset DEF TypeOK
  <2>4. bm_inactive_vcpus = Cpu \ {c}
    BY <2>1, <2>2, <2>3, FS_Subset
  <2> QED
    BY <1>4, <2>4 DEF KickOK, At, AwakingPC
<1>6. RecoverOK'
  <2>1. ASSUME NEW d \in Cpu, pc'[d] = "recover_free" PROVE \A v \in Cpu \ {d} : pc'[v] = "hlt"
    <3>1. CASE d = c
      BY <1>1, <1>5, <2>1, <3>1
    <3>2. CASE d # c
      BY <1>1, <2>1, <3>2 DEF RecoverOK
    <3> QED
      BY <3>1, <3>2
  <2> QED
    BY <1>1, <1>4, <2>1 DEF RecoverOK
<1>7. FreeExact'
  <2>1. CASE RecoverFree(c)
    <3>1. /\ pc[c] = "recover_free" /\ pc'[c] = "recover_runnable" /\ num_free_vcpu' = 1
          /\ \A v \in Cpu \ {c} : pc'[v] = "hlt"
      BY <1>1, <2>1 DEF RecoverFree, RecoverOK, TypeOK
    <3>2. \A v \in Cpu : CountedFree(v)' <=> v = c
      BY <3>1 DEF CountedFree
    <3>3. {v \in Cpu : CountedFree(v)'} = {c} /\ At(Counting)' = {}
      BY <3>1, <3>2 DEF At, Counting
    <3>4. Cardinality({c}) = 1 /\ Cardinality({}) = 0
      BY FS_Singleton, FS_EmptySet
    <3>5. FreeVcpus' = Cardinality({v \in Cpu : CountedFree(v)'}) + Cardinality(bm_kicked_vcpus')
                       + Cardinality(At(Counting)')
      BY DEF FreeVcpus, Counting
    <3>6. FreeVcpus' = 1
      BY <1>1, <1>4, <3>3, <3>4, <3>5
    <3> QED
      BY <3>1, <3>6 DEF FreeExact
  <2>2. CASE RecoverTestKicked(c) \/ RecoverPopcnt(c)
    <3>1. /\ num_free_vcpu' = num_free_vcpu /\ pc'[c] \in {"recover_popcnt", "recover_free", "copy"}
          /\ pc[c] \in {"recover", "recover_popcnt"}
      BY <2>2 DEF RecoverTestKicked, RecoverPopcnt, Branch, TypeOK
    <3>2. Weight(c) = 1 /\ Weight(c)' = 1
      BY <3>1, Weights DEF PlaceWeights, AwayPC, TrickyPC, AsleepPC, AwakingPC, Counting
    <3>3. FreeVcpus' - Weight(c)' = FreeVcpus - Weight(c)
          /\ FreeVcpus \in Nat /\ FreeVcpus' \in Nat
      BY <1>1, <3>2, FreeShift
    <3> QED
      BY <3>1, <3>2, <3>3 DEF FreeExact
  <2> QED
    BY <2>1, <2>2
<1> QED
  BY <1>2, <1>3, <1>6, <1>7

LEMMA FreeInit == ASSUME Init PROVE FreeInv
<1>1. KickOK /\ KickerOK /\ RecoverOK
  BY DEF Init, KickOK, KickerOK, RecoverOK, At, AsleepPC, AwakingPC
<1>2. \A c \in Cpu : CountedFree(c) <=> c = Cpu0
  BY CpuAssumption DEF Init, CountedFree
<1>3. {c \in Cpu : CountedFree(c)} = {Cpu0} /\ At(Counting) = {}
  BY <1>2, CpuAssumption DEF Init, At, Counting
<1>4. FreeVcpus = 1
  <2>1. FreeVcpus = Cardinality({c \in Cpu : CountedFree(c)}) + Cardinality(bm_kicked_vcpus)
                    + Cardinality(At(Counting))
    BY DEF FreeVcpus, Counting
  <2> QED
    <3>1. Cardinality({Cpu0}) = 1 /\ Cardinality({}) = 0
      BY FS_Singleton, FS_EmptySet
    <3>2. bm_kicked_vcpus = {}
      BY DEF Init
    <3> QED
      BY <1>3, <2>1, <3>1, <3>2
<1> QED
  BY <1>1, <1>4 DEF Init, FreeInv, FreeExact

LEMMA FreeStutter == ASSUME FreeInv, UNCHANGED vars PROVE FreeInv'
<1>1. FreeVcpus' = FreeVcpus
  BY DEF vars, FreeVcpus, CountedFree, At
<1> QED
  BY <1>1 DEF vars, FreeInv, KickOK, KickerOK, RecoverOK, FreeExact, At

LEMMA FreeInvStep ==
  TwoVcpus /\ TypeOK /\ TypeOK' /\ DagInv /\ FreeInv /\ [Next]_vars => FreeInv'
<1> SUFFICES ASSUME TwoVcpus, TypeOK, TypeOK', DagInv, FreeInv, [Next]_vars PROVE FreeInv'
  OBVIOUS
<1>1. LocalOK /\ KickOK
  BY DEF DagInv, Lifecycle, FreeInv
<1>2. ASSUME NEW c \in Cpu, Completion(c) \/ Rekicking(c) \/ GettingWork(c) PROVE FreeInv'
  BY <1>1, <1>2, PlainCompletion, PlainRekicking, PlainGettingWork, PlainFree
<1>3. ASSUME NEW c \in Cpu, Waking(c) PROVE FreeInv'
  BY <1>3, PlainWaking, PlainFree, KickSteps
<1>4. ASSUME NEW c \in Cpu, Winning(c) PROVE FreeInv'
  BY <1>4, PlainWinning, PlainFree, RecoverSteps
<1>5. ASSUME NEW c \in Cpu, Idling(c) \/ External(c) PROVE FreeInv'
  BY <1>1, <1>5, PlainIdling, PlainExternal, PlainFree, SleepSteps
<1>6. CASE UNCHANGED vars
  BY <1>6, FreeStutter
<1> QED
  BY <1>2, <1>3, <1>4, <1>5, <1>6 DEF Next, Kernel

\* With two vcpus num_free_vcpu is exact for every dag, whichever kicks are lost and whichever
\* functions are stopped: what wake_up_task subtracts is the number of vcpus that look for
\* work or are on their way to it, and the recovery code stores what was there already
\* (sched.c:227, 288, 305, 316, 323-334, 352-358, 374, 393-406).
THEOREM FreeCounted == TwoVcpus => (Spec => []FreeExact)
<1> SUFFICES ASSUME TwoVcpus PROVE Spec => []FreeExact
  OBVIOUS
<1>1. FreeInv => FreeExact
  BY DEF FreeInv
<1>2. Init => FreeInv
  BY FreeInit
<1>3. Spec => [](TypeOK /\ DagInv)
  BY TypeCorrect, DagInvKept, PTL
<1>4. TypeOK /\ DagInv /\ FreeInv /\ [Next]_vars /\ (TypeOK /\ DagInv)' => FreeInv'
  BY FreeInvStep
<1> QED
  BY <1>1, <1>2, <1>3, <1>4, PTL DEF Spec

=============================================================================
