----------------------------- MODULE MCRewardWallet -----------------------------
(***************************************************************************)
(* MapPoints on small instances.                                            *)
(***************************************************************************)
EXTENDS RewardWallet

CONSTANTS b1, o1, o2, c1

MCBuyerOf == [o \in {o1, o2} |-> b1]

\* The second order is too small to earn a point by itself.
MCEarnedPoints == [o \in {o1, o2} |-> IF o = o1 THEN 2 ELSE 0]

MCBonusPoints == [o \in {o1, o2} |-> 1]

MCCampaigns == <<c1>>
=============================================================================
