-------------------------- MODULE MCConclusionStore --------------------------
(***************************************************************************)
(* Instances of ConclusionStore: F calls G.  The requests are the ones an   *)
(* agent sends for them: a full proof of F or G, a new contract for G with  *)
(* and without a proof, and a bare status.                                 *)
(***************************************************************************)
EXTENDS ConclusionStore, TLC

CONSTANTS F, G, S0, S1, E0

TwoFunctions == {F, G}
OneFunction == {F}
TwoSpecs == {S0, S1}
FirstEnvironment == {E0}
OldReceipt == [env |-> E0, goals |-> 1, functions |-> {F, G}, flaw |-> "not_this_build"]
SentReceipts == {OldReceipt,
                 [env |-> E0, goals |-> 1, functions |-> {F, G}, flaw |-> "none"],
                 [env |-> E0, goals |-> 1, functions |-> {G}, flaw |-> "none"]}
FullSummary == {[total |-> 1, valid |-> 1, unproved |-> 0]}
CallsG == {{}, {G}}
VerifiedOnly == {"verified"}

Request(f, status, specs, callees, receipt) ==
  [function |-> f, status |-> status, specs |-> specs,
   wp_summary |-> IF receipt = None THEN None ELSE [total |-> 1, valid |-> 1, unproved |-> 0],
   callees |-> callees, proof_receipt |-> receipt]

Proof(functions) == [env |-> E0, goals |-> 1, functions |-> functions, flaw |-> "none"]

\* A row an older build marked verified, with a receipt this one rejects.
StaleBuildRow ==
  [EmptyConclusion EXCEPT
     !.status = "verified", !.specs = S1,
     !.wp_summary = [total |-> 1, valid |-> 1, unproved |-> 0],
     !.proof_receipt = OldReceipt, !.proof_env_hash = E0]

CallSymmetry == Permutations(Calls)

SomeOldRows == {StaleBuildRow}

AgentRequests ==
  {Request(F, "verified", None, {G}, Proof({F, G})),
   Request(F, None, None, {G}, Proof({G})),
   Request(F, "verified", None, None, None),
   Request(G, None, S1, None, None),
   Request(G, "verified", S0, {}, Proof({F, G}))}
=============================================================================
