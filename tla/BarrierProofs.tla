---------------------------- MODULE BarrierProofs ----------------------------
(***************************************************************************)
(* Theorems about Barrier for any number of vcpus and of barriers: nobody  *)
(* leaves a barrier before all have reached it, and a wake-up is lost only *)
(* to a store of cond_set that its own loads have overtaken.               *)
(*                                                                         *)
(* A barrier has two phases.  While it fills, all vcpus are in the same    *)
(* one, gen, and no one knows it to be full; while it drains, those that   *)
(* are still counted in barrier_word are one behind those that have left,  *)
(* and cond keeps the latter out of the next one.                          *)
(***************************************************************************)
EXTENDS Barrier, FiniteSetTheorems, TLAPS

USE BarrierAssumption DEF Go, Set, Drained, CondSetPC, CondWaitPC, word, local

Setting == {"store"} \cup CondSetPC

\* c is counted in barrier_word; c has seen it full, or cond set; c has left it; c has seen
\* that it may enter; c waits for that, or does not take part.
Counted(c) == \/ pc[c] \in {"read_full", "dec"}
              \/ pc[c] \in Setting \cup CondWaitPC /\ val[c] = 1
Knows(c)    == pc[c] = "dec" \/ (pc[c] \in Setting \cup {"btr_intent"} /\ val[c] = 1)
Leaving(c)  == pc[c] = "read_empty" \/ (pc[c] \in Setting /\ val[c] = 0)
Entering(c) == pc[c] = "inc" \/ (pc[c] = "btr_intent" /\ val[c] = 0)
Outside(c)  == pc[c] = "out" \/ (pc[c] \in CondWaitPC \ {"btr_intent"} /\ val[c] = 0)

\* The barrier c is in, or has left last.
gen(c) == IF Leaving(c) THEN round[c] + 1 ELSE round[c]

CountedSet == {c \in Cpu : Counted(c)}
WordOK == barrier_word = Cardinality(CountedSet)

RoundOK == \A c \in Cpu : pc[c] # "out" => round[c] < MaxRound

\* A store that the others do not see yet is that of the last cond_set.
BufferOK ==
  \A c \in Cpu :
    /\ buffer[c] = 1 => Knows(c)
    /\ buffer[c] = 0 => Leaving(c) \/ pc[c] = "out" \/ (pc[c] = "bts_intent" /\ val[c] = 0)

Filling ==
  /\ \A c, d \in Cpu : gen(c) = gen(d)
  /\ \A c \in Cpu : ~Knows(c)
  /\ (\E c \in Cpu : Entering(c) \/ Counted(c)) => cond = 0

Draining ==
  /\ \E c \in Cpu : Counted(c)
  /\ \A c \in Cpu : Counted(c) \/ (buffer[c] = None /\ (pc[c] = "read_empty" \/ Outside(c)))
  /\ \A c, d \in Cpu : gen(d) = IF Counted(c) /\ ~Counted(d) THEN gen(c) + 1
                                ELSE IF Counted(d) /\ ~Counted(c) THEN gen(c) - 1 ELSE gen(c)
  /\ cond = 0 => \A c \in Cpu : /\ Counted(c) /\ pc[c] # "btr_intent"
                                /\ pc[c] \in CondSetPC \cup {"dec"} => buffer[c] = 1

BarrierInv == TypeOK /\ WordOK /\ RoundOK /\ BufferOK /\ (Filling \/ Draining)

\* The bitmaps of a condition say where its vcpus are.
ListedOK ==
  \A c \in Cpu : /\ pc[c] \in CondWaitPC \ {"bts_intent"} => c \in intent_cpus
                 /\ c \in waiting_cpus <=> pc[c] \in {"hlt", "btr_waiting"}

\* A store is visible before the loads that follow it, or they are early.
StoreOK ==
  \A c \in Cpu : buffer[c] # None =>
    \/ pc[c] = "read_intent" /\ buffer[c] = val[c]
    \/ early[c] = buffer[c]

\* A vcpu about to halt although the condition has its value is waited for by one that set it.
Seeing(s, w) == /\ val[s] = val[w]
                /\ \/ pc[s] \in {"read_intent", "yield"}
                   \/ pc[s] = "read_waiting" /\ w \in mask[s]
Early(w) == \E s \in Cpu : early[s] = val[w]
HaltSeen ==
  \A w \in Cpu : pc[w] = "bts_waiting" /\ cond = val[w] => Early(w) \/ \E s \in Cpu : Seeing(s, w)

WakeInv == ListedOK /\ StoreOK /\ HaltSeen /\ LostOnlyEarly

-----------------------------------------------------------------------------
(* barrier_word                                                            *)

LEMMA WordIs ==
  ASSUME WordOK
  PROVE  /\ barrier_word \in 0..Cardinality(Cpu) /\ IsFiniteSet(CountedSet)
         /\ barrier_word = 0 <=> \A c \in Cpu : ~Counted(c)
         /\ barrier_word = Cardinality(Cpu) <=> \A c \in Cpu : Counted(c)
<1>1. CountedSet \in SUBSET Cpu
  BY DEF CountedSet
<1>2. IsFiniteSet(CountedSet) /\ Cardinality(CountedSet) <= Cardinality(Cpu)
      /\ (Cardinality(Cpu) = Cardinality(CountedSet) => Cpu = CountedSet)
  BY <1>1, FS_Subset
<1>3. Cardinality(CountedSet) \in Nat /\ Cardinality(Cpu) \in Nat
  BY <1>2, FS_CardinalityType
<1>4. Cardinality(CountedSet) = 0 <=> CountedSet = {}
  BY <1>2, FS_EmptySet
<1> QED
  BY <1>2, <1>3, <1>4 DEF WordOK, CountedSet

\* What a step of c leaves alone.
LEMMA Others ==
  ASSUME TypeOK, NEW c \in Cpu, NEW d \in Cpu \ {c},
         CallBarrier(c) \/ CondWait(c) \/ CondSet(c) \/ Drain(c)
  PROVE  /\ pc'[d] = pc[d] /\ val'[d] = val[d] /\ round'[d] = round[d] /\ buffer'[d] = buffer[d]
         /\ retry'[d] = retry[d] /\ mask'[d] = mask[d] /\ early'[d] = early[d]
<1> USE DEF TypeOK
<1>1. CASE CallBarrier(c)
  BY <1>1 DEF CallBarrier, Enter, IncWord, ReadFull, DecWord, ReadEmpty
<1>2. CASE CondWait(c)
  BY <1>2 DEF CondWait, BtsIntent, Check, BtsWaiting, Wake, BtrWaiting, BtrIntent
<1>3. CASE CondSet(c)
  BY <1>3 DEF CondSet, Store, ReadIntent, ReadWaiting, ReadKick, Yield, Kick
<1>4. CASE Drain(c)
  BY <1>4 DEF Drain
<1> QED
  BY <1>1, <1>2, <1>3, <1>4

LEMMA OthersClass ==
  ASSUME TypeOK, NEW c \in Cpu, NEW d \in Cpu \ {c},
         CallBarrier(c) \/ CondWait(c) \/ CondSet(c) \/ Drain(c)
  PROVE  /\ Counted(d)' <=> Counted(d)
         /\ Knows(d)' <=> Knows(d)
         /\ Leaving(d)' <=> Leaving(d)
         /\ Entering(d)' <=> Entering(d)
         /\ Outside(d)' <=> Outside(d)
         /\ gen(d)' = gen(d)
<1>1. pc'[d] = pc[d] /\ val'[d] = val[d] /\ round'[d] = round[d]
  BY Others
<1> QED
  BY <1>1 DEF Counted, Knows, Leaving, Entering, Outside, gen

LEMMA WordStep ==
  ASSUME TypeOK, WordOK, NEW c \in Cpu, CallBarrier(c) \/ CondWait(c) \/ CondSet(c) \/ Drain(c)
  PROVE  WordOK'
<1>1. \A d \in Cpu \ {c} : Counted(d)' <=> Counted(d)
  BY OthersClass
<1>2. CASE IncWord(c)
  <2>1. Counted(c)' /\ ~Counted(c)
    BY <1>2 DEF IncWord, Counted, Setting, TypeOK
  <2>2. CountedSet' = CountedSet \cup {c} /\ c \notin CountedSet
    BY <1>1, <2>1 DEF CountedSet
  <2> QED
    BY <1>2, <2>2, WordIs, FS_AddElement DEF WordOK, IncWord
<1>3. CASE DecWord(c)
  <2>1. ~Counted(c)' /\ Counted(c)
    BY <1>3 DEF DecWord, Counted, Setting, TypeOK
  <2>2. CountedSet' = CountedSet \ {c} /\ c \in CountedSet
    BY <1>1, <2>1 DEF CountedSet
  <2> QED
    BY <1>3, <2>2, WordIs, FS_RemoveElement DEF WordOK, DecWord
<1>4. CASE ~IncWord(c) /\ ~DecWord(c)
  <2>1. Counted(c)' <=> Counted(c)
    <3> USE DEF Counted, Setting, TypeOK
    <3>1. CASE Enter(c) \/ ReadFull(c) \/ ReadEmpty(c)
      BY <3>1 DEF Enter, ReadFull, ReadEmpty
    <3>2. CASE CondWait(c)
      BY <3>2 DEF CondWait, BtsIntent, Check, BtsWaiting, Wake, BtrWaiting, BtrIntent
    <3>3. CASE CondSet(c) \/ Drain(c)
      BY <3>3 DEF CondSet, Store, ReadIntent, ReadWaiting, ReadKick, Yield, Kick, Drain
    <3> QED
      BY <1>4, <3>1, <3>2, <3>3 DEF CallBarrier
  <2>2. CountedSet' = CountedSet
    BY <1>1, <2>1 DEF CountedSet
  <2>3. barrier_word' = barrier_word
    BY <1>4 DEF CallBarrier, Enter, ReadFull, ReadEmpty, CondWait, BtsIntent, Check, BtsWaiting,
       Wake, BtrWaiting, BtrIntent, CondSet, Store, ReadIntent, ReadWaiting, ReadKick, Yield, Kick, Drain
  <2> QED
    BY <2>2, <2>3 DEF WordOK
<1> QED
  BY <1>2, <1>3, <1>4

-----------------------------------------------------------------------------
(* The phases                                                              *)

\* What a step of c must show for the barrier to go on filling, or draining.
LEMMA FillingStep ==
  ASSUME TypeOK, Filling, NEW c \in Cpu,
         CallBarrier(c) \/ CondWait(c) \/ CondSet(c) \/ Drain(c),
         gen(c)' = gen(c), ~Knows(c)', cond' = cond \/ cond' = 0,
         Entering(c)' \/ Counted(c)' => cond' = 0
  PROVE  Filling'
<1>1. \A d \in Cpu : gen(d)' = gen(d)
  BY OthersClass
<1>2. \A d \in Cpu : ~Knows(d)'
  BY OthersClass DEF Filling
<1>3. \A d \in Cpu \ {c} : Entering(d)' \/ Counted(d)' => cond' = 0
  BY OthersClass DEF Filling
<1> QED
  BY <1>1, <1>2, <1>3 DEF Filling

LEMMA DrainingStep ==
  ASSUME TypeOK, Draining, NEW c \in Cpu,
         CallBarrier(c) \/ CondWait(c) \/ CondSet(c) \/ Drain(c),
         gen(c)' = gen(c), Counted(c)' <=> Counted(c), cond' = cond \/ cond' = 1,
         Counted(c) \/ (buffer'[c] = None /\ (pc'[c] = "read_empty" \/ Outside(c)')),
         cond' = 0 => /\ pc'[c] # "btr_intent"
                      /\ pc'[c] \in CondSetPC \cup {"dec"} => buffer'[c] = 1
  PROVE  Draining'
<1>1. \A d \in Cpu : gen(d)' = gen(d) /\ (Counted(d)' <=> Counted(d))
  BY OthersClass
<1>2. \A d \in Cpu \ {c} : /\ pc'[d] = pc[d] /\ buffer'[d] = buffer[d]
                           /\ Outside(d)' <=> Outside(d)
  BY Others, OthersClass
<1>3. \E d \in Cpu : Counted(d)'
  BY <1>1 DEF Draining
<1>4. \A d \in Cpu : Counted(d)' \/ (buffer'[d] = None /\ (pc'[d] = "read_empty" \/ Outside(d)'))
  BY <1>1, <1>2 DEF Draining
<1>5. \A d, e \in Cpu : gen(e)' = IF Counted(d)' /\ ~Counted(e)' THEN gen(d)' + 1
                                  ELSE IF Counted(e)' /\ ~Counted(d)' THEN gen(d)' - 1 ELSE gen(d)'
  BY <1>1 DEF Draining
<1>6. cond' = 0 => \A d \in Cpu : /\ Counted(d)' /\ pc'[d] # "btr_intent"
                                  /\ pc'[d] \in CondSetPC \cup {"dec"} => buffer'[d] = 1
  BY <1>1, <1>2 DEF Draining
<1> QED
  BY <1>3, <1>4, <1>5, <1>6 DEF Draining

\* The vcpu that sees the word full ends the filling.
LEMMA Full ==
  ASSUME TypeOK, WordOK, BufferOK, Filling, NEW c \in Cpu, ReadFull(c),
         barrier_word = Cardinality(Cpu)
  PROVE  Draining'
<1>1. \A d \in Cpu : Counted(d) /\ ~Knows(d) /\ gen(d) = gen(c)
  BY WordIs DEF Filling
<1>2. cond = 0 /\ cond' = 0
  BY <1>1 DEF Filling, ReadFull
<1>3. pc[c] = "read_full" /\ pc'[c] = "store" /\ val'[c] = 1 /\ round' = round /\ buffer' = buffer
  BY DEF ReadFull, TypeOK
<1>4. Counted(c)' /\ gen(c)' = gen(c)
  BY <1>3 DEF Counted, gen, Leaving, Setting
<1>5. \A d \in Cpu : Counted(d)' /\ gen(d)' = gen(c)
  BY <1>1, <1>4, OthersClass DEF CallBarrier
<1>6. \A d \in Cpu \ {c} : pc'[d] = pc[d]
  BY Others DEF CallBarrier
<1>7. \A d \in Cpu \ {c} : pc'[d] \notin CondSetPC \cup {"dec", "btr_intent"}
  BY <1>1, <1>6 DEF Counted, Knows, Setting, TypeOK
<1> QED
  <2>1. \A d, e \in Cpu : gen(d)' = gen(e)'
    BY <1>5
  <2>2. \A d \in Cpu : Counted(d)' /\ pc'[d] \notin CondSetPC \cup {"dec", "btr_intent"}
    BY <1>3, <1>5, <1>7
  <2> QED
    BY <1>5, <2>1, <2>2 DEF Draining

LEMMA FillingKept ==
  ASSUME TypeOK, WordOK, BufferOK, Filling, NEW c \in Cpu,
         CallBarrier(c) \/ CondWait(c) \/ CondSet(c) \/ Drain(c)
  PROVE  Filling' \/ Draining'
<1> USE DEF Counted, Knows, Leaving, Entering, gen, Setting
<1>1. ~Knows(c) /\ (Entering(c) \/ Counted(c) => cond = 0)
  BY DEF Filling
<1>2. CASE CallBarrier(c)
  <2>1. CASE ReadFull(c) /\ barrier_word = Cardinality(Cpu)
    BY <2>1, Full
  <2>2. CASE ReadFull(c) /\ barrier_word # Cardinality(Cpu)
    <3>1. /\ pc[c] = "read_full" /\ pc'[c] = "bts_intent" /\ val'[c] = 1 /\ round' = round
          /\ cond' = cond
      BY <2>2 DEF ReadFull, TypeOK
    <3> QED
      BY <1>1, <1>2, <3>1, FillingStep
  <2>3. CASE Enter(c)
    <3>1. pc[c] = "out" /\ pc'[c] = "bts_intent" /\ val'[c] = 0 /\ round' = round /\ cond' = cond
      BY <2>3 DEF Enter, TypeOK
    <3> QED
      BY <1>2, <3>1, FillingStep
  <2>4. CASE IncWord(c)
    <3>1. pc[c] = "inc" /\ pc'[c] = "read_full" /\ round' = round /\ cond' = cond
      BY <2>4 DEF IncWord, TypeOK
    <3> QED
      BY <1>1, <1>2, <3>1, FillingStep
  <2>5. CASE DecWord(c)
    BY <1>1, <2>5 DEF DecWord
  <2>6. CASE ReadEmpty(c)
    <3>1. /\ pc[c] = "read_empty" /\ cond' = cond
          /\ \/ pc'[c] = "store" /\ val'[c] = 0 /\ round' = round
             \/ pc'[c] = "out" /\ round'[c] = round[c] + 1
      BY <2>6 DEF ReadEmpty, TypeOK
    <3> QED
      BY <1>2, <3>1, FillingStep
  <2> QED
    BY <1>2, <2>1, <2>2, <2>3, <2>4, <2>5, <2>6 DEF CallBarrier
<1>3. CASE CondWait(c)
  <2>1. cond' = cond /\ round' = round /\ val' = val
    BY <1>3 DEF CondWait, BtsIntent, Check, BtsWaiting, Wake, BtrWaiting, BtrIntent
  <2>2. CASE BtsIntent(c) \/ BtsWaiting(c) \/ Wake(c) \/ BtrWaiting(c)
    <3>1. pc[c] \in CondWaitPC \ {"btr_intent"} /\ pc'[c] \in CondWaitPC \ {"btr_intent"}
      BY <2>2 DEF BtsIntent, BtsWaiting, Wake, BtrWaiting, TypeOK
    <3> QED
      BY <1>1, <1>3, <2>1, <3>1, FillingStep
  <2>3. CASE Check(c)
    <3>1. pc[c] = "check" /\ pc'[c] \in {"check", "bts_waiting", "btr_intent"}
          /\ (pc'[c] = "btr_intent" => cond = val[c])
      BY <2>3 DEF Check, TypeOK
    <3> QED
      BY <1>1, <1>3, <2>1, <3>1, FillingStep DEF TypeOK
  <2>4. CASE BtrIntent(c)
    <3>1. pc[c] = "btr_intent" /\ pc'[c] = IF val[c] = 0 THEN "inc" ELSE "dec"
      BY <2>4 DEF BtrIntent, TypeOK
    <3> QED
      BY <1>1, <1>3, <2>1, <3>1, FillingStep DEF TypeOK
  <2> QED
    BY <1>3, <2>2, <2>3, <2>4 DEF CondWait
<1>4. CASE CondSet(c)
  <2>1. cond' = cond /\ val' = val
    BY <1>4 DEF CondSet, Store, ReadIntent, ReadWaiting, ReadKick, Yield, Kick
  <2>2. pc[c] \in Setting /\ val[c] = 0
    BY <1>1, <1>4 DEF CondSet, Store, ReadIntent, ReadWaiting, ReadKick, Yield, Kick, TypeOK
  <2>3. \/ pc'[c] \in Setting /\ round' = round
        \/ pc'[c] = "out" /\ round'[c] = round[c] + 1
    BY <1>4, <2>2 DEF CondSet, Store, ReadIntent, ReadWaiting, ReadKick, Yield, Kick, TypeOK
  <2> QED
    BY <1>4, <2>1, <2>2, <2>3, FillingStep
<1>5. CASE Drain(c)
  <2>1. cond' = 0 /\ pc' = pc /\ val' = val /\ round' = round
    BY <1>1, <1>5 DEF Drain, BufferOK, TypeOK
  <2> QED
    BY <1>1, <1>5, <2>1, FillingStep
<1> QED
  BY <1>2, <1>3, <1>4, <1>5

\* The vcpu that leaves last ends the draining.
LEMMA Empty ==
  ASSUME TypeOK, Draining, NEW c \in Cpu, DecWord(c)
  PROVE  Filling' \/ Draining'
<1>1. /\ pc[c] = "dec" /\ pc'[c] = "read_empty" /\ round' = round /\ cond' = cond
      /\ buffer' = buffer /\ buffer[c] = None
  BY DEF DecWord, TypeOK
<1>2. /\ Counted(c) /\ ~Counted(c)' /\ ~Knows(c)' /\ ~Entering(c)'
      /\ gen(c)' = gen(c) + 1 /\ round[c] \in Nat /\ gen(c) = round[c]
  BY <1>1 DEF Counted, Knows, Entering, gen, Leaving, Setting, TypeOK
<1>3. cond = 1
  BY <1>1, BarrierAssumption DEF Draining, TypeOK
<1>4. \A d \in Cpu \ {c} : /\ gen(d)' = gen(d) /\ (Counted(d)' <=> Counted(d))
                           /\ Knows(d)' <=> Knows(d)
                           /\ Entering(d)' <=> Entering(d)
                           /\ Outside(d)' <=> Outside(d)
                           /\ pc'[d] = pc[d] /\ buffer'[d] = buffer[d]
  BY OthersClass, Others DEF CallBarrier
<1>5. \A d \in Cpu : gen(d) \in Int
  BY DEF gen, TypeOK
<1>6. \A d \in Cpu \ {c} : gen(d) = IF Counted(d) THEN gen(c) ELSE gen(c) + 1
  BY <1>2 DEF Draining
<1>7. CASE \E e \in Cpu \ {c} : Counted(e)
  <2>1. \E d \in Cpu : Counted(d)'
    BY <1>4, <1>7
  <2>2. \A d \in Cpu : Counted(d)' \/ (buffer'[d] = None /\ (pc'[d] = "read_empty" \/ Outside(d)'))
    BY <1>1, <1>4 DEF Draining
  <2>3. \A d \in Cpu : gen(d)' = IF Counted(d)' THEN gen(c) ELSE gen(c) + 1
    BY <1>2, <1>4, <1>6
  <2>4. \A d, e \in Cpu : gen(e)' = IF Counted(d)' /\ ~Counted(e)' THEN gen(d)' + 1
                                    ELSE IF Counted(e)' /\ ~Counted(d)' THEN gen(d)' - 1 ELSE gen(d)'
    <3> SUFFICES ASSUME NEW d \in Cpu, NEW e \in Cpu
                 PROVE  gen(e)' = IF Counted(d)' /\ ~Counted(e)' THEN gen(d)' + 1
                                  ELSE IF Counted(e)' /\ ~Counted(d)' THEN gen(d)' - 1 ELSE gen(d)'
      OBVIOUS
    <3>1. CASE Counted(d)' /\ ~Counted(e)'
      BY <2>3, <3>1
    <3>2. CASE ~Counted(d)' /\ Counted(e)'
      BY <1>5, <2>3, <3>2
    <3>3. CASE Counted(d)' /\ Counted(e)'
      BY <2>3, <3>3
    <3>4. CASE ~Counted(d)' /\ ~Counted(e)'
      BY <2>3, <3>4
    <3> QED
      BY <3>1, <3>2, <3>3, <3>4
  <2>5. cond' # 0
    BY <1>1, <1>3
  <2> QED
    BY <2>1, <2>2, <2>4, <2>5 DEF Draining
<1>8. CASE \A e \in Cpu \ {c} : ~Counted(e)
  <2>1. \A d \in Cpu : gen(d)' = gen(c) + 1
    BY <1>2, <1>4, <1>6, <1>8
  <2>2. \A d \in Cpu \ {c} : pc[d] = "read_empty" \/ Outside(d)
    BY <1>8 DEF Draining
  <2>3. \A d \in Cpu \ {c} : ~Knows(d) /\ ~Entering(d)
    BY <2>2 DEF Knows, Entering, Outside, Setting
  <2>4. \A d \in Cpu : ~Knows(d)' /\ ~Entering(d)' /\ ~Counted(d)'
    BY <1>2, <1>4, <1>8, <2>3
  <2>5. \A d, e \in Cpu : gen(d)' = gen(e)'
    BY <2>1
  <2> QED
    BY <2>4, <2>5 DEF Filling
<1> QED
  BY <1>7, <1>8

LEMMA DrainingKept ==
  ASSUME TypeOK, WordOK, BufferOK, Draining, NEW c \in Cpu,
         CallBarrier(c) \/ CondWait(c) \/ CondSet(c) \/ Drain(c)
  PROVE  Filling' \/ Draining'
<1> USE DEF Counted, Knows, Leaving, Outside, gen, Setting
<1>1. /\ Counted(c) \/ (buffer[c] = None /\ (pc[c] = "read_empty" \/ Outside(c)))
      /\ cond = 0 => /\ Counted(c) /\ pc[c] # "btr_intent"
                     /\ pc[c] \in CondSetPC \cup {"dec"} => buffer[c] = 1
  BY DEF Draining
<1>2. CASE CallBarrier(c)
  <2>1. CASE ReadFull(c)
    <3>1. /\ pc[c] = "read_full" /\ pc'[c] \in {"store", "bts_intent"} /\ val'[c] = 1
          /\ round' = round /\ cond' = cond
      BY <2>1 DEF ReadFull, TypeOK
    <3> QED
      BY <1>1, <1>2, <3>1, DrainingStep
  <2>2. CASE Enter(c)
    <3>1. /\ pc[c] = "out" /\ pc'[c] = "bts_intent" /\ val'[c] = 0 /\ round' = round
          /\ cond' = cond /\ buffer' = buffer
      BY <2>2 DEF Enter, TypeOK
    <3> QED
      BY <1>1, <1>2, <3>1, DrainingStep
  <2>3. CASE IncWord(c)
    BY <1>1, <2>3 DEF IncWord
  <2>4. CASE DecWord(c)
    BY <2>4, Empty
  <2>5. CASE ReadEmpty(c)
    <3>1. barrier_word # 0
      BY WordIs DEF Draining
    <3>2. /\ pc[c] = "read_empty" /\ pc'[c] = "out" /\ round'[c] = round[c] + 1
          /\ cond' = cond /\ buffer' = buffer
      BY <2>5, <3>1 DEF ReadEmpty, TypeOK
    <3> QED
      BY <1>1, <1>2, <3>2, DrainingStep
  <2> QED
    BY <1>2, <2>1, <2>2, <2>3, <2>4, <2>5 DEF CallBarrier
<1>3. CASE CondWait(c)
  <2>1. cond' = cond /\ round' = round /\ val' = val /\ buffer' = buffer
    BY <1>3 DEF CondWait, BtsIntent, Check, BtsWaiting, Wake, BtrWaiting, BtrIntent
  <2>2. CASE BtsIntent(c) \/ BtsWaiting(c) \/ Wake(c) \/ BtrWaiting(c)
    <3>1. pc[c] \in CondWaitPC \ {"btr_intent"} /\ pc'[c] \in CondWaitPC \ {"btr_intent"}
      BY <2>2 DEF BtsIntent, BtsWaiting, Wake, BtrWaiting, TypeOK
    <3> QED
      BY <1>1, <1>3, <2>1, <3>1, DrainingStep
  <2>3. CASE Check(c)
    <3>1. pc[c] = "check" /\ pc'[c] \in {"check", "bts_waiting", "btr_intent"}
          /\ (pc'[c] = "btr_intent" => cond = val[c])
      BY <2>3 DEF Check, TypeOK
    <3>2. pc'[c] = "btr_intent" => cond = 1 /\ val[c] = 1
      BY <1>1, <3>1 DEF TypeOK
    <3> QED
      BY <1>1, <1>3, <2>1, <3>1, <3>2, DrainingStep
  <2>4. CASE BtrIntent(c)
    <3>1. pc[c] = "btr_intent" /\ pc'[c] = IF val[c] = 0 THEN "inc" ELSE "dec"
      BY <2>4 DEF BtrIntent, TypeOK
    <3>2. val[c] = 1 /\ cond # 0
      BY <1>1, <3>1 DEF TypeOK
    <3> QED
      BY <1>1, <1>3, <2>1, <3>1, <3>2, DrainingStep
  <2> QED
    BY <1>3, <2>2, <2>3, <2>4 DEF CondWait
<1>4. CASE CondSet(c)
  <2>1. cond' = cond /\ val' = val
    BY <1>4 DEF CondSet, Store, ReadIntent, ReadWaiting, ReadKick, Yield, Kick
  <2>2. pc[c] \in Setting
    BY <1>4 DEF CondSet, Store, ReadIntent, ReadWaiting, ReadKick, Yield, Kick
  <2>3. val[c] = 1
    BY <1>1, <2>2
  <2>4. /\ pc'[c] \in CondSetPC \cup {"dec"} /\ round' = round
        /\ IF pc[c] = "store" THEN buffer'[c] = 1 ELSE buffer' = buffer
    BY <1>4, <2>3 DEF CondSet, Store, ReadIntent, ReadWaiting, ReadKick, Yield, Kick, TypeOK
  <2> QED
    BY <1>1, <1>4, <2>1, <2>2, <2>3, <2>4, DrainingStep
<1>5. CASE Drain(c)
  <2>1. buffer[c] = 1
    BY <1>1, <1>5 DEF Drain, BufferOK, TypeOK
  <2>2. cond' = 1 /\ pc' = pc /\ val' = val /\ round' = round
    BY <1>5, <2>1 DEF Drain
  <2>3. buffer'[c] = None
    BY <1>5 DEF Drain, TypeOK
  <2> QED
    BY <1>1, <1>5, <2>2, <2>3, DrainingStep
<1> QED
  BY <1>2, <1>3, <1>4, <1>5

-----------------------------------------------------------------------------
(* The rest of the invariant                                               *)

LEMMA RoundStep ==
  ASSUME TypeOK, RoundOK, NEW c \in Cpu, CallBarrier(c) \/ CondWait(c) \/ CondSet(c) \/ Drain(c)
  PROVE  RoundOK' /\ round'[c] \in 0..MaxRound
<1>1. round[c] \in 0..MaxRound /\ (pc[c] # "out" => round[c] < MaxRound)
  BY DEF TypeOK, RoundOK
<1>2. (pc'[c] # "out" => round'[c] < MaxRound) /\ round'[c] \in 0..MaxRound
  <2> USE DEF TypeOK
  <2>1. CASE CallBarrier(c)
    BY <1>1, <2>1 DEF CallBarrier, Enter, IncWord, ReadFull, DecWord, ReadEmpty
  <2>2. CASE CondWait(c)
    BY <1>1, <2>2 DEF CondWait, BtsIntent, Check, BtsWaiting, Wake, BtrWaiting, BtrIntent
  <2>3. CASE CondSet(c)
    BY <1>1, <2>3 DEF CondSet, Store, ReadIntent, ReadWaiting, ReadKick, Yield, Kick
  <2>4. CASE Drain(c)
    BY <1>1, <2>4 DEF Drain
  <2> QED
    BY <2>1, <2>2, <2>3, <2>4
<1>3. \A d \in Cpu \ {c} : pc'[d] = pc[d] /\ round'[d] = round[d]
  BY Others
<1> QED
  BY <1>2, <1>3 DEF RoundOK

LEMMA TypeStep ==
  ASSUME TypeOK, WordOK, RoundOK, NEW c \in Cpu,
         CallBarrier(c) \/ CondWait(c) \/ CondSet(c) \/ Drain(c)
  PROVE  TypeOK'
<1>1. barrier_word' \in 0..Cardinality(Cpu)
  <2>1. CountedSet' \in SUBSET Cpu /\ barrier_word' = Cardinality(CountedSet')
    BY WordStep DEF WordOK, CountedSet
  <2>2. /\ IsFiniteSet(CountedSet') /\ IsFiniteSet(Cpu)
        /\ Cardinality(CountedSet') <= Cardinality(Cpu)
    BY <2>1, FS_Subset
  <2> QED
    BY <2>1, <2>2, FS_CardinalityType
<1>2. round' \in [Cpu -> 0..MaxRound]
  <2>1. round' = round \/ round' = [round EXCEPT ![c] = round[c] + 1]
    BY DEF CallBarrier, Enter, IncWord, ReadFull, DecWord, ReadEmpty, CondWait, BtsIntent, Check,
       BtsWaiting, Wake, BtrWaiting, BtrIntent, CondSet, Store, ReadIntent, ReadWaiting, ReadKick,
       Yield, Kick, Drain
  <2> QED
    BY <2>1, RoundStep DEF TypeOK
<1>3. /\ intent_cpus' \subseteq Cpu /\ waiting_cpus' \subseteq Cpu /\ cond' \in 0..1
      /\ buffer' \in [Cpu -> {None, 0, 1}] /\ kick_pending' \subseteq Cpu
      /\ pc' \in [Cpu -> {"out", "inc", "read_full", "dec", "read_empty", "store"}
                          \cup CondSetPC \cup CondWaitPC]
      /\ val' \in [Cpu -> 0..1] /\ retry' \in [Cpu -> 0..RetryCount] /\ mask' \in [Cpu -> SUBSET Cpu]
      /\ early' \in [Cpu -> {None, 0, 1}]
  <2> USE DEF TypeOK
  <2>1. CASE CallBarrier(c)
    BY <2>1 DEF CallBarrier, Enter, IncWord, ReadFull, DecWord, ReadEmpty
  <2>2. CASE CondWait(c)
    BY <2>2 DEF CondWait, BtsIntent, Check, BtsWaiting, Wake, BtrWaiting, BtrIntent
  <2>3. CASE CondSet(c)
    BY <2>3 DEF CondSet, Store, ReadIntent, ReadWaiting, ReadKick, Yield, Kick
  <2>4. CASE Drain(c)
    BY <2>4 DEF Drain
  <2> QED
    BY <2>1, <2>2, <2>3, <2>4
<1> QED
  BY <1>1, <1>2, <1>3 DEF TypeOK

LEMMA BufferStep ==
  ASSUME TypeOK, BufferOK, NEW c \in Cpu, CallBarrier(c) \/ CondWait(c) \/ CondSet(c) \/ Drain(c)
  PROVE  BufferOK'
<1>1. /\ buffer[c] = 1 => Knows(c)
      /\ buffer[c] = 0 => Leaving(c) \/ pc[c] = "out" \/ (pc[c] = "bts_intent" /\ val[c] = 0)
      /\ buffer[c] \in {None, 0, 1} /\ val[c] \in 0..1 /\ None \notin 0..1
  BY DEF BufferOK, TypeOK
<1>2. /\ buffer'[c] = 1 => Knows(c)'
      /\ buffer'[c] = 0 => Leaving(c)' \/ pc'[c] = "out" \/ (pc'[c] = "bts_intent" /\ val'[c] = 0)
  <2> USE DEF TypeOK, Knows, Leaving, Setting
  <2>1. CASE CallBarrier(c)
    BY <1>1, <2>1 DEF CallBarrier, Enter, IncWord, ReadFull, DecWord, ReadEmpty
  <2>2. CASE CondWait(c)
    BY <1>1, <2>2 DEF CondWait, BtsIntent, Check, BtsWaiting, Wake, BtrWaiting, BtrIntent
  <2>3. CASE CondSet(c)
    BY <1>1, <2>3 DEF CondSet, Store, ReadIntent, ReadWaiting, ReadKick, Yield, Kick
  <2>4. CASE Drain(c)
    BY <1>1, <2>4 DEF Drain
  <2> QED
    BY <2>1, <2>2, <2>3, <2>4
<1>3. \A d \in Cpu \ {c} : /\ pc'[d] = pc[d] /\ val'[d] = val[d] /\ buffer'[d] = buffer[d]
                           /\ Knows(d)' <=> Knows(d)
                           /\ Leaving(d)' <=> Leaving(d)
  BY Others, OthersClass
<1>4. \A d \in Cpu \ {c} :
        /\ buffer'[d] = 1 => Knows(d)'
        /\ buffer'[d] = 0 => Leaving(d)' \/ pc'[d] = "out" \/ (pc'[d] = "bts_intent" /\ val'[d] = 0)
  BY <1>3 DEF BufferOK
<1> QED
  BY <1>2, <1>4 DEF BufferOK

LEMMA BarrierInvInit == Init => BarrierInv
<1> SUFFICES ASSUME Init PROVE BarrierInv
  OBVIOUS
<1>1. \A c \in Cpu : /\ ~Counted(c) /\ ~Knows(c) /\ ~Entering(c) /\ gen(c) = 0
                     /\ buffer[c] = None /\ pc[c] = "out"
  BY DEF Init, Counted, Knows, Entering, Leaving, gen, Setting
<1>2. WordOK
  <2>1. CountedSet = {}
    BY <1>1 DEF CountedSet
  <2> QED
    BY <2>1, FS_EmptySet DEF Init, WordOK
<1>3. TypeOK
  BY FS_CardinalityType DEF Init, TypeOK
<1>4. RoundOK /\ BufferOK
  BY <1>1 DEF RoundOK, BufferOK
<1>5. Filling
  BY <1>1 DEF Filling
<1> QED
  BY <1>2, <1>3, <1>4, <1>5 DEF BarrierInv

LEMMA BarrierInvStep == BarrierInv /\ [Next]_vars => BarrierInv'
<1> SUFFICES ASSUME BarrierInv, [Next]_vars PROVE BarrierInv'
  OBVIOUS
<1>1. ASSUME NEW c \in Cpu, CallBarrier(c) \/ CondWait(c) \/ CondSet(c) \/ Drain(c)
      PROVE  BarrierInv'
  <2>1. TypeOK' /\ WordOK' /\ RoundOK' /\ BufferOK'
    BY <1>1, TypeStep, WordStep, RoundStep, BufferStep DEF BarrierInv
  <2>2. Filling' \/ Draining'
    BY <1>1, FillingKept, DrainingKept DEF BarrierInv
  <2> QED
    BY <2>1, <2>2 DEF BarrierInv
<1>2. CASE UNCHANGED vars
  BY <1>2 DEF vars, BarrierInv, TypeOK, WordOK, CountedSet, RoundOK, BufferOK, Filling, Draining,
     Counted, Knows, Leaving, Entering, Outside, gen, Setting
<1> QED
  BY <1>1, <1>2 DEF Next

\* The two phases account for every reachable state.
THEOREM BarrierSafe == Spec => []BarrierInv
  BY BarrierInvInit, BarrierInvStep, PTL DEF Spec

\* The variables keep their types: barrier_word, which is changed by locked instructions only,
\* is never negative nor more than the vcpus, and no vcpu is in a barrier too many.
THEOREM TypeCorrect == Spec => []TypeOK
<1>1. BarrierInv => TypeOK
  BY DEF BarrierInv
<1> QED
  BY <1>1, BarrierSafe, PTL

\* A vcpu that writes the condition, leaves the word or waits for it to be empty finds all the
\* others in the same barrier or out of it (util.h:261-283), whether or not the loads of cond_set
\* overtake its store.
THEOREM NobodyLeavesEarly == Spec => []Together
<1>1. BarrierInv => Together
  <2> SUFFICES ASSUME BarrierInv, NEW c \in Cpu, NEW d \in Cpu, Past(c)
               PROVE  Reached(d, round[c])
    BY DEF Together
  <2> USE DEF BarrierInv, TypeOK, Past, Reached, Counted, Knows, Leaving, gen, Setting
  <2>1. CASE Filling
    <3>1. Leaving(c) /\ gen(d) = gen(c)
      BY <2>1 DEF Filling
    <3> QED
      BY <3>1
  <2>2. CASE Draining
    <3>1. CASE Counted(c)
      <4>1. gen(c) = round[c]
        BY <3>1
      <4>2. gen(d) = IF Counted(d) THEN round[c] ELSE round[c] + 1
        BY <2>2, <3>1, <4>1 DEF Draining
      <4> QED
        BY <4>2
    <3>2. CASE ~Counted(c)
      <4>1. gen(c) = round[c] + 1
        BY <3>2
      <4>2. gen(d) = IF Counted(d) THEN round[c] ELSE round[c] + 1
        BY <2>2, <3>2, <4>1 DEF Draining
      <4> QED
        BY <4>2
    <3> QED
      BY <3>1, <3>2
  <2> QED
    BY <2>1, <2>2
<1> QED
  BY <1>1, BarrierSafe, PTL

-----------------------------------------------------------------------------
(* Wake-ups                                                                *)

LEMMA ListedStep ==
  ASSUME TypeOK, ListedOK, StoreOK, NEW c \in Cpu,
         CallBarrier(c) \/ CondWait(c) \/ CondSet(c) \/ Drain(c)
  PROVE  ListedOK'
<1>1. \A d \in Cpu \ {c} : /\ pc'[d] = pc[d]
                           /\ d \in intent_cpus' <=> d \in intent_cpus
                           /\ d \in waiting_cpus' <=> d \in waiting_cpus
  <2>1. \A d \in Cpu \ {c} : /\ d \in intent_cpus' <=> d \in intent_cpus
                             /\ d \in waiting_cpus' <=> d \in waiting_cpus
    BY DEF CallBarrier, Enter, IncWord, ReadFull, DecWord, ReadEmpty, CondWait, BtsIntent, Check,
       BtsWaiting, Wake, BtrWaiting, BtrIntent, CondSet, Store, ReadIntent, ReadWaiting, ReadKick,
       Yield, Kick, Drain
  <2> QED
    BY <2>1, Others
<1>2. /\ pc'[c] \in CondWaitPC \ {"bts_intent"} => c \in intent_cpus'
      /\ c \in waiting_cpus' <=> pc'[c] \in {"hlt", "btr_waiting"}
  <2> USE DEF TypeOK, ListedOK
  <2>1. CASE CallBarrier(c)
    BY <2>1 DEF CallBarrier, Enter, IncWord, ReadFull, DecWord, ReadEmpty
  <2>2. CASE CondWait(c)
    BY <2>2 DEF CondWait, BtsIntent, Check, BtsWaiting, Wake, BtrWaiting, BtrIntent
  <2>3. CASE CondSet(c)
    BY <2>3 DEF CondSet, Store, ReadIntent, ReadWaiting, ReadKick, Yield, Kick
  <2>4. CASE Drain(c)
    BY <2>4 DEF Drain
  <2> QED
    BY <2>1, <2>2, <2>3, <2>4
<1> QED
  BY <1>1, <1>2 DEF ListedOK

LEMMA StoreStep ==
  ASSUME TypeOK, StoreOK, NEW c \in Cpu,
         CallBarrier(c) \/ CondWait(c) \/ CondSet(c) \/ Drain(c)
  PROVE  StoreOK'
<1>1. \A d \in Cpu \ {c} : /\ pc'[d] = pc[d] /\ val'[d] = val[d]
                           /\ buffer'[d] = buffer[d] /\ early'[d] = early[d]
  BY Others
<1>2. buffer'[c] # None => \/ pc'[c] = "read_intent" /\ buffer'[c] = val'[c]
                           \/ early'[c] = buffer'[c]
  <2> USE DEF TypeOK, StoreOK
  <2>1. CASE CallBarrier(c)
    BY <2>1 DEF CallBarrier, Enter, IncWord, ReadFull, DecWord, ReadEmpty
  <2>2. CASE CondWait(c)
    BY <2>2 DEF CondWait, BtsIntent, Check, BtsWaiting, Wake, BtrWaiting, BtrIntent
  <2>3. CASE CondSet(c)
    BY <2>3 DEF CondSet, Store, ReadIntent, ReadWaiting, ReadKick, Yield, Kick
  <2>4. CASE Drain(c)
    BY <2>4 DEF Drain
  <2> QED
    BY <2>1, <2>2, <2>3, <2>4
<1> QED
  BY <1>1, <1>2 DEF StoreOK

\* Only a store that reaches memory changes the condition; it is that of a vcpu which has
\* still to look for halted ones, or which has looked too early.
LEMMA CondStep ==
  ASSUME TypeOK, StoreOK, NEW c \in Cpu, CallBarrier(c) \/ CondWait(c) \/ CondSet(c) \/ Drain(c)
  PROVE  IF Drain(c)
         THEN /\ pc' = pc /\ val' = val /\ early' = early
              /\ early[c] = cond' \/ (pc[c] = "read_intent" /\ cond' = val[c])
         ELSE cond' = cond
<1>1. CASE Drain(c)
  BY <1>1 DEF Drain, StoreOK
<1>2. CASE ~Drain(c)
  BY <1>2 DEF CallBarrier, Enter, IncWord, ReadFull, DecWord, ReadEmpty, CondWait, BtsIntent, Check,
     BtsWaiting, Wake, BtrWaiting, BtrIntent, CondSet, Store, ReadIntent, ReadWaiting, ReadKick,
     Yield, Kick
<1> QED
  BY <1>1, <1>2

\* While a vcpu is about to halt, or halted, and the condition has its value, nobody sets the
\* other value.
LEMMA SameValue ==
  ASSUME BarrierInv, NEW w \in Cpu, NEW s \in Cpu, pc[w] \in {"bts_waiting", "hlt"},
         cond = val[w], pc[s] = "read_intent"
  PROVE  val[s] = val[w]
<1> USE DEF BarrierInv, TypeOK, Counted, Knows, Outside, Setting
<1>1. CASE Filling
  BY <1>1 DEF Filling
<1>2. CASE Draining
  <2>1. Counted(s) /\ val[s] = 1
    BY <1>2 DEF Draining
  <2>2. cond = 0 => Counted(w)
    BY <1>2 DEF Draining
  <2> QED
    BY <2>1, <2>2
<1> QED
  BY <1>1, <1>2

\* An early look stays on record until its vcpu looks again, and then for the same value.
LEMMA EarlyStep ==
  ASSUME BarrierInv, NEW c \in Cpu, CallBarrier(c) \/ CondWait(c) \/ CondSet(c) \/ Drain(c),
         NEW w \in Cpu, pc[w] \in {"bts_waiting", "hlt"}, cond = val[w], val'[w] = val[w], Early(w)
  PROVE  \/ Early(w)'
         \/ pc[c] = "read_intent" /\ ReadIntent(c) /\ val'[c] = val[w]
<1>1. PICK s \in Cpu : early[s] = val[w]
  BY DEF Early
<1>2. CASE early'[s] = early[s]
  BY <1>1, <1>2 DEF Early
<1>3. CASE early'[s] # early[s]
  <2>1. s = c
    BY <1>3, Others DEF BarrierInv
  <2>2. ReadIntent(c)
    BY <1>3, <2>1 DEF CallBarrier, Enter, IncWord, ReadFull, DecWord, ReadEmpty, CondWait, BtsIntent,
       Check, BtsWaiting, Wake, BtrWaiting, BtrIntent, CondSet, Store, ReadWaiting, ReadKick,
       Yield, Kick, Drain
  <2>3. pc[c] = "read_intent" /\ val' = val
    BY <2>2 DEF ReadIntent
  <2> QED
    BY <2>2, <2>3, SameValue
<1> QED
  BY <1>2, <1>3

\* A vcpu that is looking at the bitmaps stays in cond_set until it has seen who is halted.
LEMMA SetterStep ==
  ASSUME TypeOK, NEW c \in Cpu, ~Drain(c), CallBarrier(c) \/ CondWait(c) \/ CondSet(c),
         pc[c] \in CondSetPC
  PROVE  CondSet(c) /\ val' = val
<1>1. ~CallBarrier(c) /\ ~CondWait(c)
  BY DEF CallBarrier, Enter, IncWord, ReadFull, DecWord, ReadEmpty, CondWait, BtsIntent, Check,
     BtsWaiting, Wake, BtrWaiting, BtrIntent
<1> QED
  BY <1>1 DEF CondSet, Store, ReadIntent, ReadWaiting, ReadKick, Yield, Kick

LEMMA HaltSeenStep ==
  ASSUME BarrierInv, ListedOK, StoreOK, HaltSeen, NEW c \in Cpu,
         CallBarrier(c) \/ CondWait(c) \/ CondSet(c) \/ Drain(c)
  PROVE  HaltSeen'
<1> SUFFICES ASSUME NEW w \in Cpu, pc'[w] = "bts_waiting", cond' = val'[w]
             PROVE  Early(w)' \/ \E s \in Cpu : Seeing(s, w)'
  BY DEF HaltSeen
<1> TypeOK
  BY DEF BarrierInv
<1>1. CASE Drain(c)
  <2>1. /\ pc' = pc /\ val' = val /\ early' = early
        /\ early[c] = cond' \/ (pc[c] = "read_intent" /\ cond' = val[c])
    BY <1>1, CondStep
  <2> QED
    BY <2>1 DEF Seeing, Early
<1>2. CASE ~Drain(c)
  <2>1. cond' = cond
    BY <1>2, CondStep
  <2>2. c # w
    <3>1. ASSUME c = w PROVE Check(c)
      BY <1>2, <3>1 DEF TypeOK, CallBarrier, Enter, IncWord, ReadFull, DecWord, ReadEmpty, CondWait,
         BtsIntent, BtsWaiting, Wake, BtrWaiting, BtrIntent, CondSet, Store, ReadIntent,
         ReadWaiting, ReadKick, Yield, Kick
    <3> QED
      BY <2>1, <3>1 DEF Check, TypeOK
  <2>3. pc[w] = "bts_waiting" /\ cond = val[w] /\ val'[w] = val[w]
    BY <2>1, <2>2, Others
  <2>4. w \in intent_cpus /\ w \notin waiting_cpus
    BY <2>3 DEF ListedOK
  <2>5. CASE Early(w)
    <3>1. SUFFICES ASSUME ReadIntent(c), val'[c] = val[w] PROVE Seeing(c, w)'
      BY <2>3, <2>5, EarlyStep
    <3> QED
      BY <2>3, <2>4, <3>1 DEF ReadIntent, Seeing, TypeOK
  <2>6. CASE ~Early(w)
    <3>1. PICK s \in Cpu : Seeing(s, w)
      BY <2>3, <2>6 DEF HaltSeen
    <3>2. CASE s # c
      BY <2>3, <3>1, <3>2, Others DEF Seeing
    <3>3. CASE s = c
      <4>1. CondSet(c) /\ val' = val
        BY <1>2, <3>1, <3>3, SetterStep DEF Seeing
      <4>2. pc'[c] \in {"read_intent", "yield"} \/ (pc'[c] = "read_waiting" /\ w \in mask'[c])
        BY <2>4, <3>1, <3>3, <4>1 DEF Seeing, CondSet, Store, ReadIntent, ReadWaiting, ReadKick,
           Yield, Kick, TypeOK
      <4> QED
        BY <3>1, <3>3, <4>1, <4>2 DEF Seeing
    <3> QED
      BY <3>2, <3>3
  <2> QED
    BY <2>5, <2>6
<1> QED
  BY <1>1, <1>2

LEMMA WakeUpStep ==
  ASSUME BarrierInv, ListedOK, StoreOK, HaltSeen, LostOnlyEarly, NEW c \in Cpu,
         CallBarrier(c) \/ CondWait(c) \/ CondSet(c) \/ Drain(c)
  PROVE  LostOnlyEarly'
<1> SUFFICES ASSUME NEW w \in Cpu, pc'[w] = "hlt", cond' = val'[w]
             PROVE  KickComing(w)' \/ Early(w)'
  BY DEF LostOnlyEarly, Early
<1> TypeOK
  BY DEF BarrierInv
<1>1. CASE Drain(c)
  <2>1. /\ pc' = pc /\ val' = val /\ early' = early
        /\ early[c] = cond' \/ (pc[c] = "read_intent" /\ cond' = val[c])
    BY <1>1, CondStep
  <2> QED
    BY <2>1 DEF KickComing, Early
<1>2. CASE ~Drain(c)
  <2>1. cond' = cond
    BY <1>2, CondStep
  <2>2. CASE c = w
    <3>1. BtsWaiting(c)
      BY <1>2, <2>2 DEF TypeOK, CallBarrier, Enter, IncWord, ReadFull, DecWord, ReadEmpty, CondWait,
         BtsIntent, Check, Wake, BtrWaiting, BtrIntent, CondSet, Store, ReadIntent, ReadWaiting,
         ReadKick, Yield, Kick
    <3>2. /\ pc[w] = "bts_waiting" /\ cond = val[w] /\ val' = val /\ mask' = mask
          /\ early' = early
      BY <2>1, <2>2, <3>1 DEF BtsWaiting
    <3>3. SUFFICES ASSUME NEW s \in Cpu, Seeing(s, w) PROVE KickComing(w)'
      BY <3>2 DEF HaltSeen, Early
    <3>4. s # c
      BY <2>2, <3>2, <3>3 DEF Seeing
    <3>5. pc'[s] = pc[s]
      BY <3>4, Others
    <3> QED
      BY <3>2, <3>3, <3>5 DEF Seeing, KickComing
  <2>3. CASE c # w
    <3>1. pc[w] = "hlt" /\ cond = val[w] /\ val'[w] = val[w]
      BY <2>1, <2>3, Others
    <3>2. CASE Early(w)
      <4>1. SUFFICES ASSUME ReadIntent(c), val'[c] = val[w] PROVE KickComing(w)'
        BY <3>1, <3>2, EarlyStep
      <4> QED
        BY <3>1, <4>1 DEF ReadIntent, KickComing, TypeOK
    <3>3. CASE w \in kick_pending
      <4>1. w \in kick_pending'
        BY <1>2, <2>3, <3>3 DEF CallBarrier, Enter, IncWord, ReadFull, DecWord, ReadEmpty, CondWait,
           BtsIntent, Check, BtsWaiting, Wake, BtrWaiting, BtrIntent, CondSet, Store, ReadIntent,
           ReadWaiting, ReadKick, Yield, Kick
      <4> QED
        BY <4>1 DEF KickComing
    <3>4. CASE ~Early(w) /\ w \notin kick_pending
      <4>1. PICK s \in Cpu : /\ val[s] = val[w]
                             /\ \/ pc[s] \in {"read_intent", "read_waiting", "yield"}
                                \/ pc[s] \in {"read_kick", "kick"} /\ w \in mask[s]
        BY <3>1, <3>4 DEF LostOnlyEarly, KickComing, Early
      <4>2. CASE s # c
        <5>1. pc'[s] = pc[s] /\ val'[s] = val[s] /\ mask'[s] = mask[s]
          BY <4>2, Others
        <5> QED
          BY <3>1, <4>1, <5>1 DEF KickComing
      <4>3. CASE s = c
        <5>1. CondSet(c) /\ val' = val
          BY <1>2, <4>1, <4>3, SetterStep
        <5>2. w \in waiting_cpus
          BY <3>1 DEF ListedOK
        <5>3. \/ pc'[c] \in {"read_intent", "read_waiting", "yield"}
              \/ pc'[c] \in {"read_kick", "kick"} /\ w \in mask'[c]
              \/ w \in kick_pending'
          BY <4>1, <4>3, <5>1, <5>2 DEF CondSet, Store, ReadIntent, ReadWaiting, ReadKick, Yield,
             Kick, TypeOK
        <5> QED
          BY <4>1, <4>3, <5>1, <5>3 DEF KickComing
      <4> QED
        BY <4>2, <4>3
    <3> QED
      BY <3>2, <3>3, <3>4
  <2> QED
    BY <2>2, <2>3
<1> QED
  BY <1>1, <1>2

\* A vcpu that halts although the condition has its value is kicked by the vcpu that set it,
\* unless one has read intent_cpus for the last time while that value was still in its store
\* buffer (util.h:144-187).
THEOREM WakeUps == Spec => []LostOnlyEarly
<1>1. Init => WakeInv
  BY DEF Init, WakeInv, ListedOK, StoreOK, HaltSeen, LostOnlyEarly
<1>2. WakeInv /\ BarrierInv /\ [Next]_vars => WakeInv'
  <2> SUFFICES ASSUME WakeInv, BarrierInv, [Next]_vars PROVE WakeInv'
    OBVIOUS
  <2>1. TypeOK
    BY DEF BarrierInv
  <2>2. ASSUME NEW c \in Cpu, CallBarrier(c) \/ CondWait(c) \/ CondSet(c) \/ Drain(c)
        PROVE  WakeInv'
    <3>1. ListedOK' /\ StoreOK'
      BY <2>1, <2>2, ListedStep, StoreStep DEF WakeInv
    <3>2. HaltSeen' /\ LostOnlyEarly'
      BY <2>2, HaltSeenStep, WakeUpStep DEF WakeInv
    <3> QED
      BY <3>1, <3>2 DEF WakeInv
  <2>3. CASE UNCHANGED vars
    BY <2>3 DEF vars, WakeInv, ListedOK, StoreOK, HaltSeen, Seeing, Early, LostOnlyEarly, KickComing
  <2> QED
    BY <2>2, <2>3 DEF Next
<1>3. WakeInv => LostOnlyEarly
  BY DEF WakeInv
<1> QED
  BY <1>1, <1>2, <1>3, BarrierSafe, PTL DEF Spec

=============================================================================
