------------------------------ MODULE Console ------------------------------
(***************************************************************************)
(* printf_ of src/src/libc/printf.c and mutex_lock of src/include/util.h   *)
(* under it: every vcpu prints under one mutex, from the kernel or for a   *)
(* user function (system call 0x20b), and the exception handler of         *)
(* src/src/interrupt.c prints too, on the vcpu that was interrupted.       *)
(*                                                                         *)
(* External: the yield hypercall returns; the VMM stops a vcpu that has    *)
(* written to PORT_HLT.                                                    *)
(***************************************************************************)
EXTENDS Naturals, FiniteSets

CONSTANTS
  Cpu,
  RetryCount,   \* of the mutex, 3072
  MaxLine,      \* bound: characters per printf_
  BadArgument,  \* may an argument of printf_ point to memory that is not mapped?
  NoCpu         \* the mutex is 0

ASSUME ConsoleAssumption ==
  /\ IsFiniteSet(Cpu) /\ NoCpu \notin Cpu
  /\ RetryCount \in Nat \ {0} /\ MaxLine \in Nat \ {0} /\ BadArgument \in BOOLEAN

VARIABLES
  mutex_printf,  \* 1 << id of the vcpu that holds it
  pc,
  retry_cntr,
  chars,         \* characters this printf_ has still to write
  nested,        \* is the printf_ called by the exception handler?
  line           \* history: the vcpu whose output is not complete

vars == <<mutex_printf, pc, retry_cntr, chars, nested, line>>

Init ==
  /\ mutex_printf = NoCpu
  /\ pc = [c \in Cpu |-> "out"]
  /\ retry_cntr = [c \in Cpu |-> 0]
  /\ chars = [c \in Cpu |-> 0]
  /\ nested = [c \in Cpu |-> FALSE]
  /\ line = NoCpu

Go(c, from, to) == pc[c] = from /\ pc' = [pc EXCEPT ![c] = to]
Set(x, c, v) == [x EXCEPT ![c] = v]

-----------------------------------------------------------------------------
(* Faulty variants, see the properties.                                    *)

\* The word is tested and then stored.
TryLockTestThenSet(c) ==
  /\ \/ Go(c, "retry", IF mutex_printf = NoCpu THEN "set" ELSE "yield") /\ UNCHANGED mutex_printf
     \/ Go(c, "set", "put") /\ mutex_printf' = c
  /\ UNCHANGED <<retry_cntr, chars, nested, line>>

\* printf_ returns without unlocking.
UnlockDropped(c) ==
  /\ Go(c, "unlock", IF nested[c] THEN "halt" ELSE "out")
  /\ UNCHANGED <<mutex_printf, retry_cntr, chars, nested, line>>

\* The count is not refilled when the loop is entered again.
YieldNoRefill(c) ==
  /\ Go(c, "yield", "retry")
  /\ UNCHANGED <<mutex_printf, retry_cntr, chars, nested, line>>

-----------------------------------------------------------------------------

Printf(c) ==
  /\ Go(c, "out", "inire")
  /\ \E k \in 1..MaxLine : chars' = Set(chars, c, k)
  /\ UNCHANGED <<mutex_printf, retry_cntr, nested, line>>

FillRetry(c) ==
  /\ Go(c, "inire", "retry")
  /\ retry_cntr' = Set(retry_cntr, c, RetryCount)
  /\ UNCHANGED <<mutex_printf, chars, nested, line>>

\* lock cmpxchg of 0 with 1 << id
TryLock(c) ==
  /\ IF mutex_printf = NoCpu
       THEN Go(c, "retry", "put") /\ mutex_printf' = c /\ UNCHANGED retry_cntr
       ELSE /\ Go(c, "retry", IF retry_cntr[c] = 1 THEN "yield" ELSE "retry")
            /\ retry_cntr' = Set(retry_cntr, c, retry_cntr[c] - 1)
            /\ UNCHANGED mutex_printf
  /\ UNCHANGED <<chars, nested, line>>

\* bsf of the mutex, which may be 0 by now, and vmmcall: any vcpu may be yielded to.
Yield(c) ==
  /\ Go(c, "yield", "inire")
  /\ UNCHANGED <<mutex_printf, retry_cntr, chars, nested, line>>

\* _out_char
PutChar(c) ==
  /\ chars[c] > 0
  /\ Go(c, "put", IF chars[c] = 1 THEN "unlock" ELSE "put")
  /\ chars' = Set(chars, c, chars[c] - 1)
  /\ line' = IF chars[c] = 1 THEN NoCpu ELSE c
  /\ UNCHANGED <<mutex_printf, retry_cntr, nested>>

Unlock(c) ==
  /\ Go(c, "unlock", IF nested[c] THEN "halt" ELSE "out")
  /\ mutex_printf' = NoCpu
  /\ UNCHANGED <<retry_cntr, chars, nested, line>>

\* A page fault while the format's arguments are read: high_interrupt_handler prints, under
\* the mutex that its own vcpu holds.
PageFault(c) ==
  /\ BadArgument /\ ~nested[c]
  /\ Go(c, "put", "inire")
  /\ nested' = Set(nested, c, TRUE)
  /\ \E k \in 1..MaxLine : chars' = Set(chars, c, k)
  /\ UNCHANGED <<mutex_printf, retry_cntr, line>>

Step(c) == FillRetry(c) \/ TryLock(c) \/ Yield(c) \/ PutChar(c) \/ Unlock(c) \/ PageFault(c)

Next == \E c \in Cpu : Printf(c) \/ Step(c)

Spec == Init /\ [][Next]_vars

\* The host schedules every vcpu; nobody has to call printf_.
FairSpec == Spec /\ \A c \in Cpu : WF_vars(Step(c))

-----------------------------------------------------------------------------
(* Properties                                                              *)

Entering == {"inire", "retry", "yield"}
Inside == {"put", "unlock"}

\* The variables keep their types; the retry counter does not wrap below 0.
TypeOK ==
  /\ mutex_printf \in Cpu \cup {NoCpu}
  /\ pc \in [Cpu -> {"out", "halt"} \cup Entering \cup Inside]
  /\ retry_cntr \in [Cpu -> 0..RetryCount] /\ chars \in [Cpu -> 0..MaxLine]
  /\ nested \in [Cpu -> BOOLEAN] /\ line \in Cpu \cup {NoCpu}

\* The output of one printf_ is not cut by another's (printf.c:867-878).
LinesWhole == \A c \in Cpu : pc[c] \in Inside => line \in {c, NoCpu} /\ mutex_printf = c

\* When vcpus want to print one of them gets to, unless a printf_ has faulted: the word
\* does not stay taken between two holders (util.h:227-251).
SomeoneGetsIn ==
  (\E c \in Cpu : pc[c] \in Entering) ~> (\E c \in Cpu : pc[c] \in Inside \/ nested[c])

=============================================================================
