--------------------------- MODULE InvoicePromise ---------------------------
(***************************************************************************)
(* What InvoicesService.transition promises of an invoice: its state, its  *)
(* audit trail and the merchant notifications move together, one edge of   *)
(* the transition table at a time.                                         *)
(*                                                                         *)
(*   SerialNext  the edge starts at the state the invoice is in;           *)
(*   KeptNext    the edge starts at a state the invoice has been in.       *)
(*                                                                         *)
(* InvoiceLifecycle reads the row before it writes it, so a commit takes   *)
(* the first kind of step only when no other has come between its read and *)
(* its write (InvoiceOverlap), and always the second (KeptSpec).  KeptNext *)
(* is no more than that the three go together: the edge may leave a state  *)
(* that was left long ago, and may be one that has just been taken, so     *)
(* that a second log row and a second notification tell of no change.      *)
(***************************************************************************)
EXTENDS InvoiceStates, Sequences, Naturals

VARIABLES state, log, outbox

promiseVars == <<state, log, outbox>>

PromiseInit == state = "DRAFT" /\ log = <<>> /\ outbox = <<>>

\* The states the invoice is or has been in.
Visited == {"DRAFT"} \cup {log[i].to : i \in 1..Len(log)}

\* The invoice takes the edge of action a out of state s: the event is logged
\* and the merchant is notified exactly when the new state is a notifying one.
Take(a, s) ==
  /\ Accepts(s, a)
  /\ state' = Target(a)
  /\ log' = Append(log, [action |-> a, from |-> s, to |-> Target(a)])
  /\ outbox' = IF Notifies(Target(a))
               THEN Append(outbox, WebhookEvents[Target(a)])
               ELSE outbox

SerialNext == \E a \in Actions : Take(a, state)
KeptNext == \E a \in Actions, s \in Visited : Take(a, s)

KeptSpec == PromiseInit /\ [][KeptNext]_promiseVars
=============================================================================
