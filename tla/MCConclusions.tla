---------------------------- MODULE MCConclusions ----------------------------
(***************************************************************************)
(* Instances of Conclusions for TLC: two mutually recursive functions under *)
(* two contracts and two environments.                                     *)
(***************************************************************************)
EXTENDS Conclusions

CONSTANTS F, G, S0, S1, E0, E1

TwoFunctions == {F, G}
OneFunction == {F}
TwoSpecs == {S0, S1}
BothEnvironments == {E0, E1}
ReceiptOf(env, goals, functions, flaw) ==
  [env |-> env, goals |-> goals, functions |-> functions, flaw |-> flaw]

GoodReceipts == {ReceiptOf(e, 1, {F, G}, "none") : e \in {E0, E1}}
SummaryOf(total, valid, unproved) ==
  [total |-> total, valid |-> valid, unproved |-> unproved]

PartialOrFull == {SummaryOf(1, 1, 0), SummaryOf(2, 1, 1)}

RecursiveCallees == {{}, {F, G}}
VerifiedOnly == {"verified"}
=============================================================================
