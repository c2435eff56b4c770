---------------------------- MODULE ConsoleProofs ----------------------------
(***************************************************************************)
(* Theorems about Console for any number of vcpus, any retry count and any *)
(* length of line: no line is cut by another, also when vcpus fault while  *)
(* they print.                                                             *)
(***************************************************************************)
EXTENDS Console, TLAPS

USE ConsoleAssumption DEF Go, Set, Entering, Inside

\* Who prints, or has faulted while printing, holds the mutex; the line begun is the holder's,
\* and is complete when the mutex is given back.
HolderOK ==
  /\ line \in {mutex_printf, NoCpu}
  /\ \A c \in Cpu : /\ pc[c] = "retry" => retry_cntr[c] > 0
                    /\ pc[c] \in Entering \cup {"put"} => chars[c] > 0
                    /\ pc[c] = "unlock" => line = NoCpu
                    /\ nested[c] => mutex_printf = c /\ pc[c] \in Entering

ConsoleInv == TypeOK /\ LinesWhole /\ HolderOK

LEMMA ConsoleInvInit == Init => ConsoleInv
BY DEF Init, ConsoleInv, TypeOK, LinesWhole, HolderOK

LEMMA ConsoleInvStep == ConsoleInv /\ [Next]_vars => ConsoleInv'
<1> SUFFICES ASSUME ConsoleInv, [Next]_vars PROVE ConsoleInv'
  OBVIOUS
<1> USE DEF ConsoleInv, TypeOK, LinesWhole, HolderOK
<1>1. CASE UNCHANGED vars
  BY <1>1 DEF vars
<1>2. ASSUME NEW c \in Cpu, Printf(c) PROVE ConsoleInv'
  BY <1>2 DEF Printf
<1>3. ASSUME NEW c \in Cpu, FillRetry(c) PROVE ConsoleInv'
  BY <1>3 DEF FillRetry
<1>4. ASSUME NEW c \in Cpu, TryLock(c) PROVE ConsoleInv'
  <2>1. CASE mutex_printf = NoCpu
    <3>1. /\ pc[c] = "retry" /\ pc' = [pc EXCEPT ![c] = "put"] /\ mutex_printf' = c
          /\ line = NoCpu /\ \A d \in Cpu : ~nested[d] /\ pc[d] \notin Inside
          /\ UNCHANGED <<retry_cntr, chars, nested, line>>
      BY <1>4, <2>1 DEF TryLock
    <3>2. TypeOK'
      BY <3>1
    <3>3. LinesWhole'
      BY <3>1
    <3>4. HolderOK'
      BY <3>1
    <3> QED
      BY <3>2, <3>3, <3>4
  <2>2. CASE mutex_printf # NoCpu
    <3>1. /\ pc[c] = "retry" /\ retry_cntr[c] \in 1..RetryCount
          /\ retry_cntr' = [retry_cntr EXCEPT ![c] = retry_cntr[c] - 1]
          /\ UNCHANGED <<mutex_printf, chars, nested, line>>
      BY <1>4, <2>2 DEF TryLock
    <3>2. CASE retry_cntr[c] = 1
      <4>1. pc' = [pc EXCEPT ![c] = "yield"]
        BY <1>4, <2>2, <3>2 DEF TryLock
      <4> QED
        BY <3>1, <3>2, <4>1
    <3>3. CASE retry_cntr[c] # 1
      <4>1. pc' = pc
        BY <1>4, <2>2, <3>3 DEF TryLock
      <4> QED
        BY <3>1, <3>3, <4>1
    <3> QED
      BY <3>2, <3>3
  <2> QED
    BY <2>1, <2>2
<1>5. ASSUME NEW c \in Cpu, Yield(c) PROVE ConsoleInv'
  BY <1>5 DEF Yield
<1>6. ASSUME NEW c \in Cpu, PutChar(c) PROVE ConsoleInv'
  BY <1>6 DEF PutChar
<1>7. ASSUME NEW c \in Cpu, Unlock(c) PROVE ConsoleInv'
  BY <1>7 DEF Unlock
<1>8. ASSUME NEW c \in Cpu, PageFault(c) PROVE ConsoleInv'
  BY <1>8 DEF PageFault
<1> QED
  BY <1>1, <1>2, <1>3, <1>4, <1>5, <1>6, <1>7, <1>8 DEF Next, Step

LEMMA ConsoleInvKept == Spec => []ConsoleInv
<1> QED
  BY ConsoleInvInit, ConsoleInvStep, PTL DEF Spec

\* The retry counter of mutex_lock is refilled before it could wrap below 0, and a printf_
\* writes no character too many (util.h:227-251, printf.c:867-878).
THEOREM TypeCorrect == Spec => []TypeOK
<1>1. ConsoleInv => TypeOK
  BY DEF ConsoleInv
<1> QED
  BY <1>1, ConsoleInvKept, PTL

\* A vcpu that prints holds the mutex, and what has been printed of an incomplete line is its
\* own, also when another vcpu, or itself, has faulted in the middle of a printf_
\* (printf.c:867-878, interrupt.c:57).
THEOREM LinesNotCut == Spec => []LinesWhole
<1>1. ConsoleInv => LinesWhole
  BY DEF ConsoleInv
<1> QED
  BY <1>1, ConsoleInvKept, PTL

=============================================================================
