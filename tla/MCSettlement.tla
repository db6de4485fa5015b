----------------------------- MODULE MCSettlement -----------------------------
(***************************************************************************)
(* Settlement for TLC: sets of model values for requests and picks and the *)
(* funding of the wallets.                                                 *)
(***************************************************************************)
EXTENDS Settlement, TLC

CONSTANTS FundingDefault, FundingOther

MCFunding == [u \in Users |-> IF u = DefaultUser THEN FundingDefault ELSE FundingOther]

RequestSymmetry == Permutations(Requests)
=============================================================================
