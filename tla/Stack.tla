------------------------------- MODULE Stack -------------------------------
(***************************************************************************)
(* The stack of src/src/stack.c, shared by the vcpus: stack_push and       *)
(* stack_pop under the mutex of the stack, stack_current_size without it.  *)
(* One action is one access to the stack's memory.                         *)
(***************************************************************************)
EXTENDS Integers, FiniteSets, Sequences

CONSTANTS
  Cpu,
  Elem,     \* the elements, uint8_t
  tsz,      \* the size given to stack_init
  NoCpu     \* mutex_t is 0

ASSUME StackAssumption == tsz \in Nat /\ Elem # {} /\ NoCpu \notin Cpu

VARIABLES
  arr,      \* the memory given to stack_init, and the element after it
  head,     \* as an index of arr
  n,
  m,        \* mutex: 1 << id of its holder
  pc,
  op,       \* the function called
  e, ret    \* its argument *e and its result

shared == <<arr, head, n>>
vars == <<shared, m, pc, op, e, ret>>

\* stack_init
Init ==
  /\ arr \in [0..tsz -> Elem]
  /\ head = 0 /\ n = 0
  /\ m = NoCpu
  /\ pc = [c \in Cpu |-> "idle"]
  /\ op = [c \in Cpu |-> "size"]
  /\ e \in [Cpu -> Elem]
  /\ ret = [c \in Cpu |-> 0]

Go(c, from, to) == pc[c] = from /\ pc' = [pc EXCEPT ![c] = to]

-----------------------------------------------------------------------------
(* Faulty variants, see the properties.                                    *)

\* One element more than there is room for.
PushTestOffByOne(c) ==
  /\ op[c] = "push"
  /\ IF n <= tsz THEN Go(c, "test", "store") /\ UNCHANGED ret
                 ELSE Go(c, "test", "unlock") /\ ret' = [ret EXCEPT ![c] = -1]
  /\ UNCHANGED <<shared, m, op, e>>

\* The lock is not taken.
LockFree(c) == Go(c, "lock", "test") /\ m' = c /\ UNCHANGED <<shared, op, e, ret>>

-----------------------------------------------------------------------------

Call(c, f, x) ==
  /\ Go(c, "idle", IF f = "size" THEN "read_n" ELSE "lock")
  /\ op' = [op EXCEPT ![c] = f]
  /\ e' = [e EXCEPT ![c] = x]
  /\ UNCHANGED <<shared, m, ret>>

\* mutex_lock: the cmpxchg that succeeds; see Console for the others.
Lock(c) ==
  /\ m = NoCpu
  /\ Go(c, "lock", "test")
  /\ m' = c
  /\ UNCHANGED <<shared, op, e, ret>>

PushTest(c) ==
  /\ op[c] = "push"
  /\ IF n < tsz THEN Go(c, "test", "store") /\ UNCHANGED ret
                ELSE Go(c, "test", "unlock") /\ ret' = [ret EXCEPT ![c] = -1]
  /\ UNCHANGED <<shared, m, op, e>>

\* *head = *e
PushStore(c) ==
  /\ Go(c, "store", "inc_head")
  /\ arr' = [arr EXCEPT ![head] = e[c]]
  /\ UNCHANGED <<head, n, m, op, e, ret>>

PushIncHead(c) ==
  /\ Go(c, "inc_head", "inc_n")
  /\ head' = head + 1
  /\ UNCHANGED <<arr, n, m, op, e, ret>>

PushIncN(c) ==
  /\ Go(c, "inc_n", "unlock")
  /\ n' = n + 1
  /\ ret' = [ret EXCEPT ![c] = 0]
  /\ UNCHANGED <<arr, head, m, op, e>>

PopTest(c) ==
  /\ op[c] = "pop"
  /\ IF n > 0 THEN Go(c, "test", "dec_head") /\ UNCHANGED ret
              ELSE Go(c, "test", "unlock") /\ ret' = [ret EXCEPT ![c] = -1]
  /\ UNCHANGED <<shared, m, op, e>>

PopDecHead(c) ==
  /\ Go(c, "dec_head", "load")
  /\ head' = head - 1
  /\ UNCHANGED <<arr, n, m, op, e, ret>>

\* *e = *head, then n - 1: no other vcpu sees *e in between.
PopLoad(c) ==
  /\ Go(c, "load", "unlock")
  /\ e' = [e EXCEPT ![c] = arr[head]]
  /\ n' = n - 1
  /\ ret' = [ret EXCEPT ![c] = 0]
  /\ UNCHANGED <<arr, head, m, op>>

\* mutex_unlock stores 0, whoever holds the mutex.
Unlock(c) ==
  /\ Go(c, "unlock", "return")
  /\ m' = NoCpu
  /\ UNCHANGED <<shared, op, e, ret>>

\* stack_current_size
ReadN(c) ==
  /\ Go(c, "read_n", "return")
  /\ ret' = [ret EXCEPT ![c] = n]
  /\ UNCHANGED <<shared, m, op, e>>

Return(c) == Go(c, "return", "idle") /\ UNCHANGED <<shared, m, op, e, ret>>

Step(c) == \/ \E f \in {"push", "pop", "size"}, x \in Elem : Call(c, f, x)
           \/ Lock(c) \/ PushTest(c) \/ PushStore(c) \/ PushIncHead(c) \/ PushIncN(c)
           \/ PopTest(c) \/ PopDecHead(c) \/ PopLoad(c) \/ Unlock(c) \/ ReadN(c) \/ Return(c)

Next == \E c \in Cpu : Step(c)

Spec == Init /\ [][Next]_vars

-----------------------------------------------------------------------------
(* Properties                                                              *)

Inside == {"test", "store", "inc_head", "inc_n", "dec_head", "load", "unlock"}

\* The variables keep their types; head and n stay within the size of the stack.
TypeOK ==
  /\ arr \in [0..tsz -> Elem]
  /\ head \in 0..tsz /\ n \in 0..tsz
  /\ m \in Cpu \cup {NoCpu}
  /\ pc \in [Cpu -> Inside \cup {"idle", "lock", "read_n", "return"}]
  /\ op \in [Cpu -> {"push", "pop", "size"}]
  /\ e \in [Cpu -> Elem] /\ ret \in [Cpu -> Int]

\* Every access to the array is within it: head follows n, one ahead or one behind only
\* while the holder of the mutex is between its two updates (stack.c:18-24, 34-39).
InBounds ==
  /\ \A c \in Cpu : pc[c] \in {"store", "load"} => head \in 0..tsz - 1
  /\ head = n + Cardinality({c \in Cpu : pc[c] = "inc_n"})
             - Cardinality({c \in Cpu : pc[c] = "load"})

\* The calls of all vcpus are those of a bounded stack, each taking effect at once.
s == [i \in 1..n |-> arr[i - 1]]
call == [c \in Cpu |-> CASE pc[c] = "idle" -> "idle"
                         [] pc[c] \in {"unlock", "return"} -> "done"
                         [] OTHER -> op[c]]
LIFO == INSTANCE BoundedStack WITH elem <- e
Linearizable == LIFO!Spec

=============================================================================
