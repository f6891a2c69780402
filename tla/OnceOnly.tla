------------------------------- MODULE OnceOnly -------------------------------
(***************************************************************************)
(* What an Idempotency-Key promises: a request that is sent again replays  *)
(* the original response instead of taking effect a second time.  Only a   *)
(* server that has forgotten the effect may take it again.                 *)
(***************************************************************************)
EXTENDS Naturals

CONSTANT Keys

VARIABLES
  effects,     \* how many times the request of a key has taken effect
  remembered,  \* the server knows of the last effect
  answers      \* the effects whose response the client has been given

Init ==
  /\ effects = [k \in Keys |-> 0]
  /\ remembered = [k \in Keys |-> FALSE]
  /\ answers = [k \in Keys |-> {}]

TakeEffect(k) ==
  /\ ~remembered[k]
  /\ effects' = [effects EXCEPT ![k] = @ + 1]
  /\ remembered' = [remembered EXCEPT ![k] = TRUE]
  /\ UNCHANGED answers

Forget(k) ==
  /\ remembered[k]
  /\ remembered' = [remembered EXCEPT ![k] = FALSE]
  /\ UNCHANGED <<effects, answers>>

\* The last effect is the one that is answered.
Answer(k) ==
  /\ remembered[k]
  /\ answers' = [answers EXCEPT ![k] = @ \cup {effects[k]}]
  /\ UNCHANGED <<effects, remembered>>

Next == \E k \in Keys : TakeEffect(k) \/ Forget(k) \/ Answer(k)

Spec == Init /\ [][Next]_<<effects, remembered, answers>>
=============================================================================
