----------------------------- MODULE StackProofs -----------------------------
(***************************************************************************)
(* Theorems about Stack for any number of vcpus and any size: the mutex    *)
(* keeps head and n together, the array is not overrun, and the calls are  *)
(* linearizable.                                                           *)
(***************************************************************************)
EXTENDS Stack, FiniteSetTheorems, SequenceTheorems, TLAPS

USE StackAssumption DEF Go, shared

\* The holder of the mutex is alone between lock and unlock.
MutexOK == \A c \in Cpu : pc[c] \in Inside => m = c

\* At each label of the code: what was called, and how head and the array stand to n.
At(S) == {c \in Cpu : pc[c] \in S}
HeadOK ==
  /\ At({"inc_n", "load"}) = {} => head = n
  /\ \A c \in Cpu :
       /\ pc[c] = "inc_n" => head = n + 1
       /\ pc[c] = "load" => head = n - 1
       /\ pc[c] \in {"lock", "test"} => op[c] \in {"push", "pop"}
       /\ pc[c] \in {"store", "inc_head", "inc_n"} => op[c] = "push" /\ n < tsz
       /\ pc[c] \in {"dec_head", "load"} => op[c] = "pop" /\ n > 0
       /\ pc[c] \in {"inc_head", "inc_n"} => arr[n] = e[c]
       /\ pc[c] = "read_n" => op[c] = "size"

StackInv == TypeOK /\ MutexOK /\ HeadOK

-----------------------------------------------------------------------------
(* The inductive invariant                                                 *)

LEMMA StackInvInit == Init => StackInv
BY DEF Init, StackInv, TypeOK, MutexOK, HeadOK, At, Inside

LEMMA MutexStep ==
  ASSUME StackInv, NEW c \in Cpu, Step(c) PROVE MutexOK'
BY DEF Step, StackInv, TypeOK, MutexOK, Inside, Call, Lock, PushTest, PushStore, PushIncHead,
       PushIncN, PopTest, PopDecHead, PopLoad, Unlock, ReadN, Return

LEMMA TypeStep ==
  ASSUME StackInv, NEW c \in Cpu, Step(c) PROVE TypeOK'
<1> USE DEF StackInv, TypeOK, Inside
<1>1. CASE \E f \in {"push", "pop", "size"}, x \in Elem : Call(c, f, x)
  BY <1>1 DEF Call
<1>2. CASE Lock(c) \/ Unlock(c) \/ ReadN(c) \/ Return(c)
  <2>1. CASE Lock(c)
    BY <2>1 DEF Lock
  <2>2. CASE Unlock(c)
    BY <2>2 DEF Unlock
  <2>3. CASE ReadN(c)
    BY <2>3 DEF ReadN
  <2>4. CASE Return(c)
    BY <2>4 DEF Return
  <2> QED
    BY <1>2, <2>1, <2>2, <2>3, <2>4
<1>3. CASE PushTest(c) \/ PopTest(c)
  <2>1. /\ \E l \in Inside : pc' = [pc EXCEPT ![c] = l]
        /\ ret' = ret \/ ret' = [ret EXCEPT ![c] = -1]
        /\ UNCHANGED <<arr, head, n, m, op, e>>
    BY <1>3 DEF PushTest, PopTest
  <2> QED
    BY <2>1
<1>4. CASE PushStore(c)
  BY <1>4 DEF PushStore
<1>5. CASE PushIncHead(c)
  <2>1. head = n
    BY <1>5 DEF PushIncHead, HeadOK, MutexOK, At
  <2> QED
    BY <1>5, <2>1 DEF PushIncHead, HeadOK
<1>6. CASE PushIncN(c)
  BY <1>6 DEF PushIncN, HeadOK
<1>7. CASE PopDecHead(c)
  <2>1. head = n
    BY <1>7 DEF PopDecHead, HeadOK, MutexOK, At
  <2> QED
    BY <1>7, <2>1 DEF PopDecHead, HeadOK
<1>8. CASE PopLoad(c)
  BY <1>8 DEF PopLoad, HeadOK
<1> QED
  BY <1>1, <1>2, <1>3, <1>4, <1>5, <1>6, <1>7, <1>8 DEF Step

LEMMA HeadStep ==
  ASSUME StackInv, MutexOK', NEW c \in Cpu, Step(c) PROVE HeadOK'
<1> USE DEF StackInv, TypeOK, HeadOK, At
<1>1. CASE \E f \in {"push", "pop", "size"}, x \in Elem : Call(c, f, x)
  BY <1>1 DEF Call
<1>2. CASE Lock(c) \/ Unlock(c) \/ ReadN(c) \/ Return(c)
  BY <1>2 DEF Lock, Unlock, ReadN, Return
<1>3. CASE PushTest(c)
  BY <1>3 DEF PushTest
<1>4. CASE PopTest(c)
  BY <1>4 DEF PopTest
<1>5. ASSUME pc[c] \in Inside
      PROVE  \A d \in Cpu : pc[d] \in Inside => d = c
  BY <1>5 DEF MutexOK
<1>6. CASE PushStore(c)
  BY <1>5, <1>6 DEF PushStore, Inside
<1>7. CASE PushIncHead(c)
  BY <1>5, <1>7 DEF PushIncHead, Inside
<1>8. CASE PushIncN(c)
  BY <1>5, <1>8 DEF PushIncN, Inside
<1>9. CASE PopDecHead(c)
  BY <1>5, <1>9 DEF PopDecHead, Inside
<1>10. CASE PopLoad(c)
  BY <1>5, <1>10 DEF PopLoad, Inside
<1> QED
  BY <1>1, <1>2, <1>3, <1>4, <1>6, <1>7, <1>8, <1>9, <1>10 DEF Step

LEMMA StackInvStep == StackInv /\ [Next]_vars => StackInv'
<1> SUFFICES ASSUME StackInv, [Next]_vars PROVE StackInv'
  OBVIOUS
<1>1. CASE UNCHANGED vars
  BY <1>1 DEF vars, StackInv, TypeOK, MutexOK, HeadOK, At
<1>2. CASE Next
  BY <1>2, TypeStep, MutexStep, HeadStep DEF Next, StackInv
<1> QED
  BY <1>1, <1>2

LEMMA StackInvKept == Spec => []StackInv
<1> QED
  BY StackInvInit, StackInvStep, PTL DEF Spec

\* The variables keep their types: head and n never leave 0..tsz, whatever calls overlap
\* (stack.c:18-24, 34-39).
THEOREM TypeCorrect == Spec => []TypeOK
<1>1. StackInv => TypeOK
  BY DEF StackInv
<1> QED
  BY <1>1, StackInvKept, PTL

\* Every access of stack_push and stack_pop is within the array, and head differs from n only
\* while the holder of the mutex is between its two updates (stack.c:18-24, 34-39).
THEOREM ArrayInBounds == Spec => []InBounds
<1>1. StackInv => InBounds
  <2> SUFFICES ASSUME StackInv PROVE InBounds
    OBVIOUS
  <2> USE DEF StackInv, TypeOK, MutexOK, HeadOK, Inside
  <2> DEFINE I == {c \in Cpu : pc[c] = "inc_n"}
             L == {c \in Cpu : pc[c] = "load"}
  <2>1. \A c \in Cpu : pc[c] \in {"store", "load"} => head \in 0..tsz - 1
    <3> SUFFICES ASSUME NEW c \in Cpu, pc[c] \in {"store", "load"} PROVE head \in 0..tsz - 1
      OBVIOUS
    <3>1. CASE pc[c] = "store"
      <4>1. head = n
        BY <3>1 DEF At
      <4> QED
        BY <3>1, <4>1
    <3>2. CASE pc[c] = "load"
      BY <3>2
    <3> QED
      BY <3>1, <3>2
  <2>2. CASE I = {} /\ L = {}
    <3>1. head = n
      BY <2>2 DEF At
    <3>2. Cardinality(I) = 0 /\ Cardinality(L) = 0
      BY <2>2, FS_EmptySet
    <3> QED
      BY <2>1, <3>1, <3>2 DEF InBounds
  <2>3. ASSUME NEW c \in I PROVE InBounds
    <3>1. I = {c} /\ L = {}
      BY <2>3
    <3>2. Cardinality(I) = 1 /\ Cardinality(L) = 0
      BY <3>1, FS_EmptySet, FS_Singleton
    <3> QED
      BY <2>1, <3>1, <3>2 DEF InBounds
  <2>4. ASSUME NEW c \in L PROVE InBounds
    <3>1. L = {c} /\ I = {}
      BY <2>4
    <3>2. Cardinality(I) = 0 /\ Cardinality(L) = 1
      BY <3>1, FS_EmptySet, FS_Singleton
    <3> QED
      BY <2>1, <3>1, <3>2 DEF InBounds
  <2> QED
    BY <2>2, <2>3, <2>4
<1> QED
  BY <1>1, StackInvKept, PTL

-----------------------------------------------------------------------------
(* The calls are those of BoundedStack.                                    *)

LEMMA SeqOfArr ==
  ASSUME TypeOK PROVE s \in Seq(Elem) /\ Len(s) = n /\ \A i \in 1..n : s[i] = arr[i - 1]
BY DEF TypeOK, s

\* A call is done when its vcpu comes to unlock, or to return.
LEMMA CallDone ==
  ASSUME TypeOK, NEW c \in Cpu, NEW l \in {"unlock", "return"}, pc' = [pc EXCEPT ![c] = l], op' = op
  PROVE  call' = [call EXCEPT ![c] = "done"]
BY DEF TypeOK, call

LEMMA LifoStep == StackInv /\ StackInv' /\ [Next]_vars => [LIFO!Next]_(LIFO!vars)
<1> SUFFICES ASSUME StackInv, StackInv', [Next]_vars PROVE [LIFO!Next]_(LIFO!vars)
  OBVIOUS
<1> USE DEF StackInv, LIFO!vars
<1>1. CASE UNCHANGED vars
  BY <1>1 DEF vars, s, call
<1>2. ASSUME NEW c \in Cpu, Step(c) PROVE [LIFO!Next]_(LIFO!vars)
  <2> USE DEF TypeOK
  <2>1. CASE \E f \in {"push", "pop", "size"}, x \in Elem : Call(c, f, x)
    <3> PICK f \in {"push", "pop", "size"}, x \in Elem : Call(c, f, x)
      BY <2>1
    <3>1. LIFO!Call(c, f, x)
      BY DEF Call, LIFO!Call, call, s
    <3> QED
      BY <3>1 DEF LIFO!Next
  <2>2. CASE Lock(c) \/ PushIncHead(c) \/ PopDecHead(c) \/ Unlock(c)
    BY <2>2 DEF Lock, PushIncHead, PopDecHead, Unlock, call, s
  <2>3. CASE PushTest(c)
    <3>1. CASE n < tsz
      BY <2>3, <3>1 DEF PushTest, call, s
    <3>2. CASE ~(n < tsz)
      <4>1. s' = s /\ Len(s) = n /\ call[c] = "push" /\ e' = e
        BY <2>3, SeqOfArr DEF PushTest, call, s
      <4>2. /\ pc' = [pc EXCEPT ![c] = "unlock"] /\ op' = op
            /\ ret' = [ret EXCEPT ![c] = -1]
        BY <2>3, <3>2 DEF PushTest
      <4>3. LIFO!Push(c)
        BY <3>2, <4>1, <4>2, CallDone DEF LIFO!Push, LIFO!Finish
      <4> QED
        BY <4>3 DEF LIFO!Next
    <3> QED
      BY <3>1, <3>2
  <2>4. CASE PushStore(c)
    <3>1. head = n
      BY <2>4 DEF PushStore, MutexOK, HeadOK, At, Inside
    <3> QED
      BY <2>4, <3>1 DEF PushStore, call, s
  <2>5. CASE PushIncN(c)
    <3>1. n < tsz /\ arr[n] = e[c] /\ op[c] = "push"
      BY <2>5 DEF PushIncN, HeadOK
    <3>2. s' = Append(s, e[c])
      BY <2>5, <3>1, SeqOfArr DEF PushIncN, s
    <3>3. LIFO!Push(c)
      BY ZenonT(60), <2>5, <3>1, <3>2, SeqOfArr DEF PushIncN, LIFO!Push, LIFO!Finish, call
    <3> QED
      BY <3>3 DEF LIFO!Next
  <2>6. CASE PopTest(c)
    <3>1. CASE n > 0
      BY <2>6, <3>1 DEF PopTest, call, s
    <3>2. CASE ~(n > 0)
      <4>1. s' = s /\ Len(s) = n /\ call[c] = "pop" /\ e' = e
        BY <2>6, SeqOfArr DEF PopTest, call, s
      <4>2. /\ pc' = [pc EXCEPT ![c] = "unlock"] /\ op' = op
            /\ ret' = [ret EXCEPT ![c] = -1]
        BY <2>6, <3>2 DEF PopTest
      <4>3. LIFO!Pop(c)
        BY <3>2, <4>1, <4>2, CallDone DEF LIFO!Pop, LIFO!Finish
      <4> QED
        BY <4>3 DEF LIFO!Next
    <3> QED
      BY <3>1, <3>2
  <2>7. CASE PopLoad(c)
    <3>1. n > 0 /\ head = n - 1 /\ op[c] = "pop"
      BY <2>7 DEF PopLoad, HeadOK
    <3>2. s' = SubSeq(s, 1, n - 1)
      BY <2>7, <3>1, SeqOfArr DEF PopLoad, s
    <3>3. Len(s) = n /\ s[n] = arr[head]
      BY <3>1, SeqOfArr
    <3>4. call[c] = "pop" /\ call' = [call EXCEPT ![c] = "done"]
      BY <2>7, <3>1, CallDone DEF PopLoad, call
    <3>5. LIFO!Pop(c)
      BY <2>7, <3>1, <3>2, <3>3, <3>4 DEF PopLoad, LIFO!Pop, LIFO!Finish
    <3> QED
      BY <3>5 DEF LIFO!Next
  <2>8. CASE ReadN(c)
    <3>1. LIFO!Size(c)
      BY ZenonT(60), <2>8, SeqOfArr DEF ReadN, HeadOK, LIFO!Size, LIFO!Finish, call, s
    <3> QED
      BY <3>1 DEF LIFO!Next
  <2>9. CASE Return(c)
    <3>1. LIFO!Return(c)
      BY <2>9 DEF Return, LIFO!Return, call, s
    <3> QED
      BY <3>1 DEF LIFO!Next
  <2> QED
    BY <1>2, <2>1, <2>2, <2>3, <2>4, <2>5, <2>6, <2>7, <2>8, <2>9 DEF Step
<1> QED
  BY <1>1, <1>2 DEF Next

\* The calls of all vcpus are those of a last-in first-out stack of tsz elements, each taking
\* effect at one moment: a push with the store of n, a pop with its load (stack.c:14-43).
THEOREM CallsLinearizable == Spec => Linearizable
<1>1. Init => LIFO!Init
  BY DEF Init, LIFO!Init, s, call
<1> QED
  BY <1>1, StackInvKept, LifoStep, PTL DEF Spec, Linearizable, LIFO!Spec

=============================================================================
