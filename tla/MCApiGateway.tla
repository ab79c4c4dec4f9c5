----------------------------- MODULE MCApiGateway -----------------------------
(* An instance of ApiGateway: a key with a market and one without any.       *)
EXTENDS ApiGateway, TLC

CONSTANTS k1, k2, m1

MCEntitled == k1 :> {m1} @@ k2 :> {}
==============================================================================
