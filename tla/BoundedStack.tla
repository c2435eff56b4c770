---------------------------- MODULE BoundedStack ----------------------------
(***************************************************************************)
(* What the functions of src/src/stack.c promise to the vcpus that call    *)
(* them: each call takes effect at one moment between its start and its    *)
(* return, on a last-in first-out stack of at most tsz elements.           *)
(***************************************************************************)
EXTENDS Integers, Sequences

CONSTANTS Cpu, Elem, tsz

VARIABLES
  s,        \* the elements, the last one pushed at the end
  call,     \* call[c]: "idle", "push", "pop" or "size", then "done"
  elem,     \* *e of the call: pushed, or popped
  ret       \* the value returned

vars == <<s, call, elem, ret>>

Init ==
  /\ s = <<>>
  /\ call = [c \in Cpu |-> "idle"]
  /\ elem \in [Cpu -> Elem]
  /\ ret = [c \in Cpu |-> 0]

Call(c, op, e) ==
  /\ call[c] = "idle"
  /\ call' = [call EXCEPT ![c] = op]
  /\ elem' = [elem EXCEPT ![c] = e]
  /\ UNCHANGED <<s, ret>>

Finish(c, op, r) ==
  /\ call[c] = op
  /\ call' = [call EXCEPT ![c] = "done"]
  /\ ret' = [ret EXCEPT ![c] = r]

Push(c) ==
  /\ IF Len(s) < tsz THEN Finish(c, "push", 0) /\ s' = Append(s, elem[c])
                     ELSE Finish(c, "push", -1) /\ s' = s
  /\ UNCHANGED elem

Pop(c) ==
  IF Len(s) > 0
    THEN /\ Finish(c, "pop", 0)
         /\ s' = SubSeq(s, 1, Len(s) - 1)
         /\ elem' = [elem EXCEPT ![c] = s[Len(s)]]
    ELSE Finish(c, "pop", -1) /\ UNCHANGED <<s, elem>>

Size(c) == Finish(c, "size", Len(s)) /\ UNCHANGED <<s, elem>>

Return(c) ==
  /\ call[c] = "done"
  /\ call' = [call EXCEPT ![c] = "idle"]
  /\ UNCHANGED <<s, elem, ret>>

Next == \E c \in Cpu : \/ \E op \in {"push", "pop", "size"}, e \in Elem : Call(c, op, e)
                       \/ Push(c) \/ Pop(c) \/ Size(c) \/ Return(c)

Spec == Init /\ [][Next]_vars

=============================================================================
