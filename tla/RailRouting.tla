------------------------------ MODULE RailRouting ------------------------------
(***************************************************************************)
(* RailRouter.route: which rail takes a payment.  A query has the tokens   *)
(* (normalizeSymbol of the assets) and chains of both sides and the ticket *)
(* in dollars (estimateUsd of the amount).                                 *)
(***************************************************************************)
EXTENDS Naturals

SwapMinimumUsd == 20
SwapAmlAttentionUsd == 1500

Rails == {"DIRECT_TRANSFER", "SWAP_PROVIDER"}
\* The answer when no rail supports the route: BadRequestException.
NoRail == "none"

IsDirectRoute(q) == q.fromToken = q.toToken /\ q.fromChain = q.toChain

\* Too small for a provider, or large enough to be held by one.
SteeredAway(usd) == usd < SwapMinimumUsd \/ usd >= SwapAmlAttentionUsd

\* supported: the rails whose supports() holds of the query.
Route(q, supported) ==
  IF IsDirectRoute(q) \/ SteeredAway(q.usd) THEN
    IF "DIRECT_TRANSFER" \in supported THEN "DIRECT_TRANSFER"
    ELSE IF ~IsDirectRoute(q) /\ q.usd >= SwapMinimumUsd /\ "SWAP_PROVIDER" \in supported
         THEN "SWAP_PROVIDER" ELSE NoRail
  ELSE IF "SWAP_PROVIDER" \in supported THEN "SWAP_PROVIDER" ELSE NoRail
=============================================================================
