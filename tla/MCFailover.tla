------------------------------ MODULE MCFailover ------------------------------
(***************************************************************************)
(* An instance of SwapFailover for TLC, and rail.router.spec.ts as checks  *)
(* of RailRouting.                                                         *)
(***************************************************************************)
EXTENDS SwapFailover, RailRouting

ChangeNowFirst == <<"changenow", "simpleswap">>

Query(token, chain, usd) ==
  [fromToken |-> token, fromChain |-> chain, toToken |-> "USDT", toChain |-> "TRON", usd |-> usd]

ASSUME RouterSpec ==
  /\ Route(Query("USDT", "TRON", 100), Rails) = "DIRECT_TRANSFER"
  /\ Route(Query("USDC", "BSC", 10), Rails) = "DIRECT_TRANSFER"
  /\ Route(Query("USDC", "BSC", 10), {"SWAP_PROVIDER"}) = NoRail
  /\ Route(Query("USDC", "BSC", 2000), Rails) = "DIRECT_TRANSFER"
  /\ Route(Query("USDC", "BSC", 2000), {"SWAP_PROVIDER"}) = "SWAP_PROVIDER"
  /\ Route(Query("USDC", "BSC", 100), Rails) = "SWAP_PROVIDER"
  /\ Route(Query("USDC", "BSC", 100), {}) = NoRail
=============================================================================
