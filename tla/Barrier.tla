------------------------------ MODULE Barrier ------------------------------
(***************************************************************************)
(* barrier(), cond_wait() and cond_set() of src/include/util.h: a vcpu     *)
(* spins a little and then halts until a condition word has a given value; *)
(* the vcpu that writes the word kicks the halted ones.                    *)
(*                                                                         *)
(* The write is a plain store followed by loads, and sfence does not make  *)
(* them wait for it: the store becomes visible at any time before the end  *)
(* of the vcpu's next locked instruction or vmmcall.                       *)
(* The fields are not volatile and the locked instructions clobber no      *)
(* memory, so a value that was loaded before may be used instead of a load.*)
(* External: a kick leaves a token that the next hlt consumes.             *)
(***************************************************************************)
EXTENDS Naturals, FiniteSets

CONSTANTS
  Cpu,          \* the vcpus of the pool
  RetryCount,   \* RETRY_COUNT, 32
  MaxRound,     \* bound: barriers each vcpu goes through
  None          \* no buffered store

ASSUME BarrierAssumption ==
  /\ IsFiniteSet(Cpu) /\ Cpu # {}
  /\ RetryCount \in Nat /\ MaxRound \in Nat
  /\ None \notin 0..1

VARIABLES
  intent_cpus, waiting_cpus, cond,  \* barrier_cond: its two bitmaps and c->c
  buffer,         \* a vcpu's store to c->c that the others do not yet see
  barrier_word,
  kick_pending,
  pc,
  val,            \* argument v of the cond_wait or cond_set being executed
  retry,          \* retry_count
  mask,           \* intent_cpus as read, then the waiting cpus still to kick
  round,          \* barriers left
  early           \* history: the value a vcpu's last cond_set was still storing when it read
                  \* intent_cpus for the last time, or None

word  == <<intent_cpus, waiting_cpus>>
local == <<val, retry, mask, round>>
vars  == <<word, cond, buffer, barrier_word, kick_pending, pc, local, early>>

Init ==
  /\ intent_cpus = {} /\ waiting_cpus = {} /\ cond = 0
  /\ buffer = [c \in Cpu |-> None]
  /\ barrier_word = 0
  /\ kick_pending = {}
  /\ pc = [c \in Cpu |-> "out"]
  /\ val = [c \in Cpu |-> 0]
  /\ retry = [c \in Cpu |-> 0]
  /\ mask = [c \in Cpu |-> {}]
  /\ round = [c \in Cpu |-> 0]
  /\ early = [c \in Cpu |-> None]

Go(c, from, to) == pc[c] = from /\ pc' = [pc EXCEPT ![c] = to]
Set(x, c, v) == [x EXCEPT ![c] = v]

\* A locked instruction or a vmexit waits until the vcpu's stores are visible.
Drained(c) == buffer[c] = None

-----------------------------------------------------------------------------
(* Faulty variants, see the properties.                                    *)

\* The word is entered without waiting for the previous barrier to be over.
EnterNoWait(c) ==
  /\ round[c] < MaxRound
  /\ Go(c, "out", "inc")
  /\ UNCHANGED <<word, cond, buffer, barrier_word, kick_pending, local, early>>

\* A vcpu that is not the last one forgets to wait, and leaves its count in the word.
ReadFullLeaves(c) ==
  /\ Go(c, "read_full", IF barrier_word = Cardinality(Cpu) THEN "store" ELSE "out")
  /\ val' = Set(val, c, 1)
  /\ UNCHANGED <<word, cond, buffer, barrier_word, kick_pending, retry, mask, round, early>>

\* cond_set does not wait for the vcpus that are about to halt.
ReadWaitingOnce(c) ==
  /\ Go(c, "read_waiting", "read_kick")
  /\ mask' = Set(mask, c, {})
  /\ UNCHANGED <<word, cond, buffer, barrier_word, kick_pending, val, retry, round, early>>

-----------------------------------------------------------------------------
(* barrier()                                                               *)

\* cond_wait(barrier_cond, 0)
Enter(c) ==
  /\ round[c] < MaxRound
  /\ Go(c, "out", "bts_intent")
  /\ val' = Set(val, c, 0)
  /\ UNCHANGED <<word, cond, buffer, barrier_word, kick_pending, retry, mask, round, early>>

IncWord(c) ==
  /\ Drained(c)
  /\ Go(c, "inc", "read_full")
  /\ barrier_word' = barrier_word + 1
  /\ UNCHANGED <<word, cond, buffer, kick_pending, local, early>>

\* The word is read again after the increment; several vcpus may see it full, or none but
\* one that was there before.
ReadFull(c) ==
  /\ Go(c, "read_full", IF barrier_word = Cardinality(Cpu) THEN "store" ELSE "bts_intent")
  /\ val' = Set(val, c, 1)
  /\ UNCHANGED <<word, cond, buffer, barrier_word, kick_pending, retry, mask, round, early>>

DecWord(c) ==
  /\ Drained(c)
  /\ Go(c, "dec", "read_empty")
  /\ barrier_word' = barrier_word - 1
  /\ UNCHANGED <<word, cond, buffer, kick_pending, local, early>>

\* The word may be the one read before the decrement, which counts c and so is not 0.
ReadEmpty(c) ==
  /\ \/ /\ barrier_word = 0
        /\ Go(c, "read_empty", "store") /\ val' = Set(val, c, 0)
        /\ UNCHANGED round
     \/ /\ Go(c, "read_empty", "out") /\ round' = Set(round, c, round[c] + 1)
        /\ UNCHANGED val
  /\ UNCHANGED <<word, cond, buffer, barrier_word, kick_pending, retry, mask, early>>

-----------------------------------------------------------------------------
(* cond_wait(c, v)                                                         *)

BtsIntent(c) ==
  /\ Drained(c)
  /\ Go(c, "bts_intent", "check")
  /\ intent_cpus' = intent_cpus \cup {c}
  /\ retry' = Set(retry, c, RetryCount)
  /\ UNCHANGED <<waiting_cpus, cond, buffer, barrier_word, kick_pending, val, mask, round, early>>

\* cmp 16(c), v; retry_count is not refilled after a halt.
Check(c) ==
  /\ Go(c, "check", CASE cond = val[c] -> "btr_intent"
                      [] cond # val[c] /\ retry[c] > 0 -> "check"
                      [] OTHER -> "bts_waiting")
  /\ retry' = IF cond # val[c] /\ retry[c] > 0 THEN Set(retry, c, retry[c] - 1) ELSE retry
  /\ UNCHANGED <<word, cond, buffer, barrier_word, kick_pending, val, mask, round, early>>

BtsWaiting(c) ==
  /\ Go(c, "bts_waiting", "hlt")
  /\ waiting_cpus' = waiting_cpus \cup {c}
  /\ UNCHANGED <<intent_cpus, cond, buffer, barrier_word, kick_pending, local, early>>

Wake(c) ==
  /\ c \in kick_pending
  /\ Go(c, "hlt", "btr_waiting")
  /\ kick_pending' = kick_pending \ {c}
  /\ UNCHANGED <<word, cond, buffer, barrier_word, local, early>>

BtrWaiting(c) ==
  /\ Go(c, "btr_waiting", "check")
  /\ waiting_cpus' = waiting_cpus \ {c}
  /\ UNCHANGED <<intent_cpus, cond, buffer, barrier_word, kick_pending, local, early>>

\* skip_hlt: back in barrier()
BtrIntent(c) ==
  /\ Go(c, "btr_intent", IF val[c] = 0 THEN "inc" ELSE "dec")
  /\ intent_cpus' = intent_cpus \ {c}
  /\ UNCHANGED <<waiting_cpus, cond, buffer, barrier_word, kick_pending, local, early>>

-----------------------------------------------------------------------------
(* cond_set(c, v)                                                          *)

Store(c) ==
  /\ Go(c, "store", "read_intent")
  /\ buffer' = Set(buffer, c, val[c])
  /\ UNCHANGED <<word, cond, barrier_word, kick_pending, local, early>>

\* Hardware: the store reaches memory.
Drain(c) ==
  /\ ~Drained(c)
  /\ cond' = buffer[c]
  /\ buffer' = Set(buffer, c, None)
  /\ UNCHANGED <<word, barrier_word, kick_pending, pc, local, early>>

ReadIntent(c) ==
  /\ Go(c, "read_intent", "read_waiting")
  /\ mask' = Set(mask, c, intent_cpus)
  /\ early' = Set(early, c, buffer[c])
  /\ UNCHANGED <<word, cond, buffer, barrier_word, kick_pending, val, retry, round>>

\* As long as a vcpu intends to wait and has not halted, it is yielded to.
ReadWaiting(c) ==
  /\ Go(c, "read_waiting", IF mask[c] = waiting_cpus THEN "read_kick" ELSE "yield")
  /\ mask' = IF mask[c] = waiting_cpus THEN mask ELSE Set(mask, c, {})
  /\ UNCHANGED <<word, cond, buffer, barrier_word, kick_pending, val, retry, round, early>>

\* waiting_cpus is loaded again for the kicks, or the value just compared is used.
ReadKick(c) ==
  /\ Go(c, "read_kick", "kick")
  /\ mask' = mask \/ mask' = Set(mask, c, waiting_cpus)
  /\ UNCHANGED <<word, cond, buffer, barrier_word, kick_pending, val, retry, round, early>>

Yield(c) ==
  /\ Drained(c)
  /\ Go(c, "yield", "read_intent")
  /\ UNCHANGED <<word, cond, buffer, barrier_word, kick_pending, local, early>>

Kick(c) ==
  \/ \E v \in mask[c] :
       /\ Drained(c)
       /\ Go(c, "kick", "kick")
       /\ kick_pending' = kick_pending \cup {v}
       /\ mask' = Set(mask, c, mask[c] \ {v})
       /\ UNCHANGED <<word, cond, buffer, barrier_word, val, retry, round, early>>
  \/ /\ mask[c] = {}
     /\ Go(c, "kick", IF val[c] = 1 THEN "dec" ELSE "out")
     /\ round' = IF val[c] = 0 THEN Set(round, c, round[c] + 1) ELSE round
     /\ UNCHANGED <<word, cond, buffer, barrier_word, kick_pending, val, retry, mask, early>>

CallBarrier(c) == Enter(c) \/ IncWord(c) \/ ReadFull(c) \/ DecWord(c) \/ ReadEmpty(c)
CondWait(c) == BtsIntent(c) \/ Check(c) \/ BtsWaiting(c) \/ Wake(c) \/ BtrWaiting(c) \/ BtrIntent(c)
CondSet(c) == Store(c) \/ ReadIntent(c) \/ ReadWaiting(c) \/ ReadKick(c) \/ Yield(c) \/ Kick(c)

Next == \E c \in Cpu : CallBarrier(c) \/ CondWait(c) \/ CondSet(c) \/ Drain(c)

Spec == Init /\ [][Next]_vars

-----------------------------------------------------------------------------
(* Properties                                                              *)

CondSetPC == {"read_intent", "read_waiting", "read_kick", "yield", "kick"}
CondWaitPC == {"bts_intent", "check", "bts_waiting", "hlt", "btr_waiting", "btr_intent"}

\* The variables keep their types; barrier_word stays between 0 and the number of vcpus.
TypeOK ==
  /\ intent_cpus \subseteq Cpu /\ waiting_cpus \subseteq Cpu /\ cond \in 0..1
  /\ buffer \in [Cpu -> {None, 0, 1}]
  /\ barrier_word \in 0..Cardinality(Cpu)
  /\ kick_pending \subseteq Cpu
  /\ pc \in [Cpu -> {"out", "inc", "read_full", "dec", "read_empty", "store"}
                    \cup CondSetPC \cup CondWaitPC]
  /\ val \in [Cpu -> 0..1] /\ retry \in [Cpu -> 0..RetryCount] /\ mask \in [Cpu -> SUBSET Cpu]
  /\ round \in [Cpu -> 0..MaxRound] /\ early \in [Cpu -> {None, 0, 1}]

\* Nobody leaves a barrier that somebody has not reached: a vcpu past the first half of its
\* n-th barrier finds all the others in their n-th or out of it (util.h:261-283).
Past(c) == pc[c] \in {"store", "dec", "read_empty"} \cup CondSetPC
Reached(d, n) == \/ round[d] > n
                 \/ /\ round[d] = n /\ pc[d] \notin {"out", "inc"}
                    /\ pc[d] \in CondWaitPC => val[d] = 1
Together == \A c, d \in Cpu : Past(c) => Reached(d, round[c])

\* A wake-up is lost only to a store that its own loads have overtaken: a vcpu that halts
\* although the condition has the value it waits for has a kick coming, or the vcpu that wrote
\* the value has not finished looking for halted vcpus, or one has read intent_cpus for the
\* last time while that value was not yet visible (util.h:144-187).
KickComing(w) ==
  \/ w \in kick_pending
  \/ \E s \in Cpu : /\ val[s] = val[w]
                    /\ \/ pc[s] \in {"read_intent", "read_waiting", "yield"}
                       \/ pc[s] \in {"read_kick", "kick"} /\ w \in mask[s]
LostOnlyEarly ==
  \A w \in Cpu : pc[w] = "hlt" /\ cond = val[w] =>
                    KickComing(w) \/ \E s \in Cpu : early[s] = val[w]

=============================================================================
