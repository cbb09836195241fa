---------------------------- MODULE Activations ----------------------------
(***************************************************************************)
(* What a function call of the source language means: the operands of the  *)
(* call are evaluated, a new activation sees exactly them as its           *)
(* parameters, and when it returns the caller is as it was before, apart   *)
(* from the object that receives the result.  CallConv implements this     *)
(* with registers, a stack and a frame pointer.                            *)
(***************************************************************************)
EXTENDS Integers, Sequences

CONSTANT Value

VARIABLES
  acts,       \* the active calls, outermost first: [params, result]
  operands,   \* the evaluated operands of the call being made, or None
  resumed     \* the activation acts[Len(acts)] runs (and is not being entered)

vars == <<acts, operands, resumed>>

Activation == [params : Seq(Value), result : Value]

NoOperands == << >>

Init ==
  /\ acts = << >>
  /\ operands = NoOperands
  /\ resumed = FALSE

\* the caller has evaluated the operands
Evaluate ==
  /\ resumed
  /\ resumed' = FALSE
  /\ operands' \in Seq(Value)
  /\ UNCHANGED acts

\* the callee starts; its result object is not initialised
Start ==
  /\ ~resumed
  /\ resumed' = TRUE
  /\ Len(acts') = Len(acts) + 1
  /\ \A k \in DOMAIN acts : acts'[k] = acts[k]
  /\ acts'[Len(acts) + 1].params = operands
  /\ operands' = NoOperands

\* the callee returns v, which the caller stores
Return(v) ==
  /\ resumed
  /\ Len(acts) > 1
  /\ acts' = [SubSeq(acts, 1, Len(acts) - 1) EXCEPT ![Len(acts) - 1].result = v]
  /\ UNCHANGED <<operands, resumed>>

Next == Evaluate \/ Start \/ \E v \in Value : Return(v)

Spec == Init /\ [][Next]_vars

=============================================================================
