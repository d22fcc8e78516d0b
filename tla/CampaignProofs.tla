---------------------------- MODULE CampaignProofs ----------------------------
(***************************************************************************)
(* Proofs about Campaign, for every campaign, every set of functions and    *)
(* files, and every bound.                                                  *)
(***************************************************************************)
EXTENDS Campaign, FiniteSetTheorems, WellFoundedInduction, TLAPS

-----------------------------------------------------------------------------
(* Recursion *)

\* A set of numbers that is not empty has a least one.
LEMMA LeastOne ==
  ASSUME NEW S \in SUBSET Nat, S # {}
  PROVE  \E x \in S : \A y \in S : x <= y
<1>1. \E x \in S : \A y \in S : ~(<<y, x>> \in OpToRel(<, Nat))
  BY WFMin, NatLessThanWellFounded
<1>2. \A x, y \in Nat : <<y, x>> \in OpToRel(<, Nat) <=> y < x
  BY DEF OpToRel
<1>3. PICK x \in S : \A y \in S : ~(<<y, x>> \in OpToRel(<, Nat))
  BY <1>1
<1>4. \A y \in S : ~(y < x)
  BY <1>2, <1>3
<1> QED
  BY <1>4

\* A set that holds zero and every successor of its numbers holds all of them.
LEMMA Induction ==
  ASSUME NEW S \in SUBSET Nat, 0 \in S, \A n \in S : n + 1 \in S
  PROVE  S = Nat
<1>1. SUFFICES ASSUME Nat \ S # {} PROVE FALSE
  OBVIOUS
<1>2. PICK n \in Nat \ S : \A m \in Nat \ S : n <= m
  BY <1>1, LeastOne
<1>3. n # 0 /\ n - 1 \in Nat /\ ~(n <= n - 1)
  BY <1>2
<1>4. n - 1 \in S
  BY <1>2, <1>3
<1> QED
  BY <1>2, <1>3, <1>4

\* The first n steps of a recursion.
Approximations(S, a, F, n) ==
  {h \in [0..n -> S] : h[0] = a /\ \A i \in 0..(n - 1) : h[i + 1] = F[i][h[i]]}

Recurs(g, S, a, F) ==
  g \in [Nat -> S] /\ g[0] = a /\ \A n \in Nat : g[n + 1] = F[n][g[n]]

\* A function on the numbers may be defined by what it is at zero and how it
\* goes on.
LEMMA Recursion ==
  ASSUME NEW S, NEW a \in S, NEW F \in [Nat -> [S -> S]]
  PROVE  \E g : Recurs(g, S, a, F)
<1> DEFINE A(n) == Approximations(S, a, F, n)
<1>1. \A n \in Nat : A(n) # {}
  <2> DEFINE N == {n \in Nat : A(n) # {}}
  <2>1. [i \in 0..0 |-> a] \in A(0)
    BY DEF Approximations
  <2>2. ASSUME NEW n \in N PROVE n + 1 \in N
    <3>1. PICK h : h \in A(n)
      OBVIOUS
    <3>2. /\ h \in [0..n -> S] /\ h[0] = a
          /\ \A i \in 0..(n - 1) : h[i + 1] = F[i][h[i]]
      BY <3>1 DEF Approximations
    <3> DEFINE k == [i \in 0..(n + 1) |-> IF i = n + 1 THEN F[n][h[n]] ELSE h[i]]
    <3>3. F[n][h[n]] \in S
      <4>1. F[n] \in [S -> S] /\ h[n] \in S
        BY <3>2
      <4> QED
        BY <4>1
    <3>4. k \in [0..(n + 1) -> S]
      BY <3>2, <3>3
    <3>5. k[0] = a
      BY <3>2
    <3>6. ASSUME NEW i \in 0..((n + 1) - 1) PROVE k[i + 1] = F[i][k[i]]
      <4>1. CASE i = n
        <5>1. k[i + 1] = F[n][h[n]] /\ k[i] = h[n]
          BY <4>1
        <5> QED
          BY <4>1, <5>1
      <4>2. CASE i # n
        <5>1. i \in 0..(n - 1) /\ i + 1 \in 0..(n + 1) /\ i + 1 # n + 1 /\ i # n + 1
          BY <4>2
        <5>2. k[i + 1] = h[i + 1] /\ k[i] = h[i]
          BY <5>1
        <5> QED
          BY <3>2, <5>1, <5>2
      <4> QED
        BY <4>1, <4>2
    <3>7. k \in A(n + 1)
      BY <3>4, <3>5, <3>6 DEF Approximations
    <3> QED
      BY <3>7
  <2>3. N = Nat
    <3> HIDE DEF N
    <3>1. N \in SUBSET Nat /\ 0 \in N
      BY <2>1 DEF N
    <3> QED
      BY <2>2, <3>1, Induction
  <2> QED
    BY <2>3
<1>2. ASSUME NEW m \in Nat, NEW n \in Nat, NEW h \in A(m), NEW k \in A(n), NEW i \in Nat,
             i <= m, i <= n
      PROVE  h[i] = k[i]
  <2>1. /\ h[0] = a /\ \A j \in 0..(m - 1) : h[j + 1] = F[j][h[j]]
        /\ k[0] = a /\ \A j \in 0..(n - 1) : k[j + 1] = F[j][k[j]]
    BY DEF Approximations
  <2> DEFINE N == {j \in Nat : j <= m /\ j <= n => h[j] = k[j]}
  <2>2. 0 \in N
    BY <2>1
  <2>3. ASSUME NEW j \in N PROVE j + 1 \in N
    <3>1. SUFFICES ASSUME j + 1 <= m, j + 1 <= n PROVE h[j + 1] = k[j + 1]
      OBVIOUS
    <3>2. j \in 0..(m - 1) /\ j \in 0..(n - 1) /\ h[j] = k[j]
      BY <3>1
    <3> QED
      BY <2>1, <3>2
  <2>4. N = Nat
    <3> HIDE DEF N
    <3>1. N \in SUBSET Nat
      BY DEF N
    <3> QED
      BY <2>2, <2>3, <3>1, Induction
  <2>5. i \in N
    <3> HIDE DEF N
    <3> QED
      BY <2>4
  <2> QED
    BY <1>2, <2>5
<1> DEFINE best(n) == CHOOSE h \in A(n) : TRUE
           g == [n \in Nat |-> best(n)[n]]
<1>3. \A n \in Nat : best(n) \in A(n)
  BY <1>1
<1>4. ASSUME NEW n \in Nat PROVE best(n) \in [0..n -> S] /\ n \in 0..n
  <2> HIDE DEF best
  <2>1. best(n) \in A(n)
    BY <1>3
  <2> QED
    BY <2>1 DEF Approximations
<1>5. g \in [Nat -> S]
  BY <1>4
<1>6. g[0] = a
  <2>1. g[0] = best(0)[0] /\ best(0) \in A(0)
    BY <1>3
  <2> HIDE DEF best
  <2> QED
    BY <2>1 DEF Approximations
<1>7. ASSUME NEW n \in Nat PROVE g[n + 1] = F[n][g[n]]
  <2> HIDE DEF best
  <2>1. best(n) \in A(n) /\ best(n + 1) \in A(n + 1) /\ n <= n + 1 /\ n + 1 \in Nat
    BY <1>3
  <2>2. best(n)[n] = best(n + 1)[n]
    BY <1>2, <2>1
  <2>3. best(n + 1)[n + 1] = F[n][best(n + 1)[n]]
    <3>1. n \in 0..((n + 1) - 1)
      OBVIOUS
    <3> QED
      BY <2>1, <3>1 DEF Approximations
  <2> QED
    BY <2>2, <2>3
<1> HIDE DEF g
<1> QED
  BY <1>5, <1>6, <1>7 DEF Recurs

-----------------------------------------------------------------------------
(* The reasons *)

\* One round: a function without a reason gets one from a callee that has one.
Spread(reasons, callees) ==
  [f \in DOMAIN reasons |->
     IF reasons[f] = None /\ \E g \in callees[f] \cap DOMAIN reasons : reasons[g] # None
     THEN "unverified_callee" ELSE reasons[f]]

Reasoned(reasons) == {f \in DOMAIN reasons : reasons[f] # None}

\* The rounds of propagate_unverified_callees are what they are defined to be.
LEMMA Rounded ==
  ASSUME NEW reasons, NEW callees, reasons = [f \in DOMAIN reasons |-> reasons[f]]
  PROVE  \E after : /\ after[0] = reasons
                    /\ \A n \in Nat : /\ DOMAIN after[n] = DOMAIN reasons
                                      /\ after[n + 1] = Spread(after[n], callees)
                    /\ PropagateUnverifiedCallees(reasons, callees)
                         = after[Cardinality(DOMAIN reasons)]
<1> DEFINE D == DOMAIN reasons
           V == {reasons[f] : f \in D} \cup {"unverified_callee"}
           S == [D -> V]
           F == [n \in Nat |-> [r \in S |-> Spread(r, callees)]]
<1>1. reasons \in S
  OBVIOUS
<1>2. ASSUME NEW r \in S PROVE Spread(r, callees) \in S
  <2>1. DOMAIN r = D /\ \A f \in D : r[f] \in V
    OBVIOUS
  <2> HIDE DEF V, D
  <2>2. "unverified_callee" \in V
    BY DEF V
  <2> QED
    BY <2>1, <2>2 DEF Spread
<1>3. F \in [Nat -> [S -> S]]
  BY <1>2
<1>4. PICK g : Recurs(g, S, reasons, F)
  <2> HIDE DEF S, F
  <2> QED
    BY <1>1, <1>3, Recursion
<1>5. ASSUME NEW n \in Nat
      PROVE  g[n] \in S /\ g[n + 1] = Spread(g[n], callees) /\ DOMAIN g[n] = D
  <2>1. g[n] \in S /\ g[n + 1] = F[n][g[n]]
    BY <1>4 DEF Recurs
  <2> QED
    BY <2>1
<1> DEFINE Rounds2(after) ==
      [n \in Nat |-> IF n = 0 THEN reasons
                     ELSE [f \in DOMAIN reasons |->
                             IF /\ after[n - 1][f] = None
                                /\ \E h \in callees[f] \cap DOMAIN reasons : after[n - 1][h] # None
                             THEN "unverified_callee" ELSE after[n - 1][f]]]
<1>6. g = Rounds2(g)
  <2>1. ASSUME NEW n \in Nat PROVE g[n] = Rounds2(g)[n]
    <3>1. CASE n = 0
      BY <1>4, <3>1 DEF Recurs
    <3>2. CASE n # 0
      <4>1. n - 1 \in Nat /\ (n - 1) + 1 = n
        BY <3>2
      <4>2. g[n] = Spread(g[n - 1], callees) /\ DOMAIN g[n - 1] = DOMAIN reasons
        BY <1>5, <4>1
      <4> QED
        BY <3>2, <4>2 DEF Spread
    <3> QED
      BY <3>1, <3>2
  <2>2. g = [n \in Nat |-> g[n]]
    BY <1>4 DEF Recurs
  <2> QED
    BY <2>1, <2>2
<1> DEFINE after == CHOOSE after : after = Rounds2(after)
<1>7. after = Rounds2(after)
  BY <1>6
<1>8. PropagateUnverifiedCallees(reasons, callees) = after[Cardinality(DOMAIN reasons)]
  BY DEF PropagateUnverifiedCallees
<1> HIDE DEF after
<1>9. after[0] = reasons
  BY <1>7
<1>10. ASSUME NEW n \in Nat PROVE DOMAIN after[n] = DOMAIN reasons
  BY <1>7
<1>11. ASSUME NEW n \in Nat PROVE after[n + 1] = Spread(after[n], callees)
  <2>1. n + 1 # 0 /\ n + 1 \in Nat /\ (n + 1) - 1 = n
    OBVIOUS
  <2>2. after[n + 1] =
          [f \in DOMAIN reasons |->
             IF after[n][f] = None /\ \E h \in callees[f] \cap DOMAIN reasons : after[n][h] # None
             THEN "unverified_callee" ELSE after[n][f]]
    BY <1>7, <2>1
  <2> QED
    BY <1>10, <2>2 DEF Spread
<1> QED
  BY <1>8, <1>9, <1>10, <1>11

\* After a round that gave no function a reason, the next one gives none.
LEMMA SpreadSettles ==
  ASSUME NEW reasons, NEW callees, reasons = [f \in DOMAIN reasons |-> reasons[f]],
         Reasoned(Spread(reasons, callees)) = Reasoned(reasons)
  PROVE  Spread(reasons, callees) = reasons
<1>1. ASSUME NEW f \in DOMAIN reasons PROVE Spread(reasons, callees)[f] = reasons[f]
  <2>1. CASE /\ reasons[f] = None
             /\ \E g \in callees[f] \cap DOMAIN reasons : reasons[g] # None
    <3>1. Spread(reasons, callees)[f] = "unverified_callee"
      BY <2>1 DEF Spread
    <3>2. f \in Reasoned(Spread(reasons, callees))
      BY <3>1, ReasonsAssumption DEF Reasoned, Spread, Reasons
    <3> QED
      BY <2>1, <3>2 DEF Reasoned
  <2>2. CASE ~(/\ reasons[f] = None
               /\ \E g \in callees[f] \cap DOMAIN reasons : reasons[g] # None)
    BY <2>2 DEF Spread
  <2> QED
    BY <2>1, <2>2
<1> QED
  BY <1>1 DEF Spread

\* A reason stays, and what stays without one had none.
LEMMA SpreadKeeps ==
  ASSUME NEW reasons, NEW callees
  PROVE  /\ Reasoned(reasons) \subseteq Reasoned(Spread(reasons, callees))
         /\ Spread(reasons, callees) =
              [f \in DOMAIN Spread(reasons, callees) |-> Spread(reasons, callees)[f]]
BY ReasonsAssumption DEF Reasoned, Spread, Reasons

\* propagate_unverified_callees takes no reason away, and leaves no function
\* without a reason one of whose callees has one: as many rounds as there are
\* functions are enough, since a round that changes nothing is followed by such
\* rounds only.
LEMMA Propagation ==
  ASSUME NEW reasons, NEW callees, reasons = [f \in DOMAIN reasons |-> reasons[f]],
         IsFiniteSet(DOMAIN reasons),
         NEW R, R = PropagateUnverifiedCallees(reasons, callees)
  PROVE  /\ DOMAIN R = DOMAIN reasons
         /\ \A f \in DOMAIN reasons : R[f] = None => reasons[f] = None
         /\ \A f \in DOMAIN reasons : \A g \in callees[f] \cap DOMAIN reasons :
              R[f] = None => R[g] = None
<1> DEFINE D == DOMAIN reasons
           N == Cardinality(D)
<1>1. PICK after : /\ after[0] = reasons
                   /\ \A n \in Nat : /\ DOMAIN after[n] = D
                                     /\ after[n + 1] = Spread(after[n], callees)
                   /\ R = after[N]
  BY Rounded
<1>2. N \in Nat
  BY FS_CardinalityType
<1> HIDE DEF D, N
<1>3. ASSUME NEW n \in Nat PROVE after[n] = [f \in DOMAIN after[n] |-> after[n][f]]
  <2>1. CASE n = 0
    BY <1>1, <2>1 DEF D
  <2>2. CASE n # 0
    <3>1. PICK m \in Nat : n = m + 1
      <4>1. n - 1 \in Nat /\ n = (n - 1) + 1
        BY <2>2
      <4> QED
        BY <4>1
    <3> QED
      BY <1>1, <3>1, SpreadKeeps
  <2> QED
    BY <2>1, <2>2
<1>4. ASSUME NEW n \in Nat PROVE Reasoned(after[n]) \in SUBSET D
  BY <1>1 DEF Reasoned
<1>5. ASSUME NEW n \in Nat PROVE Reasoned(reasons) \subseteq Reasoned(after[n])
  <2> DEFINE S == {m \in Nat : Reasoned(reasons) \subseteq Reasoned(after[m])}
  <2>1. 0 \in S
    BY <1>1
  <2>2. ASSUME NEW m \in S PROVE m + 1 \in S
    BY <1>1, SpreadKeeps
  <2>3. S \in SUBSET Nat
    OBVIOUS
  <2> HIDE DEF S
  <2>4. S = Nat
    BY <2>1, <2>2, <2>3, Induction
  <2> QED
    BY <2>4 DEF S
<1>6. ASSUME NEW n \in Nat
      PROVE  \/ after[n + 1] = after[n]
             \/ Cardinality(Reasoned(after[n + 1])) > n
  <2> DEFINE Grown(m) == \/ after[m + 1] = after[m]
                         \/ Cardinality(Reasoned(after[m + 1])) > m
             S == {m \in Nat : Grown(m)}
  <2>0. ASSUME NEW m \in Nat
        PROVE  /\ IsFiniteSet(Reasoned(after[m])) /\ Cardinality(Reasoned(after[m])) \in Nat
               /\ Reasoned(after[m]) \subseteq Reasoned(after[m + 1])
               /\ \/ after[m + 1] = after[m]
                  \/ Cardinality(Reasoned(after[m + 1])) > Cardinality(Reasoned(after[m]))
    <3>1. IsFiniteSet(D)
      BY DEF D
    <3>2. /\ Reasoned(after[m]) \in SUBSET D /\ Reasoned(after[m + 1]) \in SUBSET D
      BY <1>4
    <3>3. /\ IsFiniteSet(Reasoned(after[m])) /\ IsFiniteSet(Reasoned(after[m + 1]))
      BY <3>1, <3>2, FS_Subset
    <3>4. /\ Cardinality(Reasoned(after[m])) \in Nat
          /\ Cardinality(Reasoned(after[m + 1])) \in Nat
      BY <3>3, FS_CardinalityType
    <3>5. Reasoned(after[m]) \subseteq Reasoned(after[m + 1])
      BY <1>1, SpreadKeeps
    <3>6. /\ Cardinality(Reasoned(after[m])) <= Cardinality(Reasoned(after[m + 1]))
          /\ Cardinality(Reasoned(after[m + 1])) = Cardinality(Reasoned(after[m]))
               => Reasoned(after[m + 1]) = Reasoned(after[m])
      BY <3>3, <3>5, FS_Subset
    <3>7. Reasoned(after[m + 1]) = Reasoned(after[m]) => after[m + 1] = after[m]
      <4>1. after[m + 1] = Spread(after[m], callees)
        BY <1>1
      <4>2. PICK now : now = after[m]
        OBVIOUS
      <4>3. now = [f \in DOMAIN now |-> now[f]]
        BY <1>3, <4>2
      <4> QED
        BY <4>1, <4>2, <4>3, SpreadSettles
    <3> QED
      BY <3>3, <3>4, <3>5, <3>6, <3>7
  <2>1. 0 \in S
    BY <2>0
  <2>2. ASSUME NEW m \in S PROVE m + 1 \in S
    <3>1. CASE after[m + 1] = after[m]
      <4>1. after[(m + 1) + 1] = Spread(after[m + 1], callees)
            /\ after[m + 1] = Spread(after[m], callees)
        BY <1>1
      <4> QED
        BY <3>1, <4>1
    <3>2. CASE Cardinality(Reasoned(after[m + 1])) > m
      <4>1. m + 1 \in Nat
        OBVIOUS
      <4>2. \/ after[(m + 1) + 1] = after[m + 1]
            \/ Cardinality(Reasoned(after[(m + 1) + 1])) > Cardinality(Reasoned(after[m + 1]))
        BY <2>0, <4>1
      <4>3. /\ Cardinality(Reasoned(after[m + 1])) \in Nat
            /\ Cardinality(Reasoned(after[(m + 1) + 1])) \in Nat
        BY <2>0, <4>1
      <4> QED
        BY <3>2, <4>2, <4>3
    <3> QED
      BY <3>1, <3>2
  <2>3. S \in SUBSET Nat
    OBVIOUS
  <2> HIDE DEF S
  <2>4. S = Nat
    BY <2>1, <2>2, <2>3, Induction
  <2> QED
    BY <2>4 DEF S
<1>7. after[N + 1] = after[N]
  <2>1. Reasoned(after[N + 1]) \in SUBSET D /\ IsFiniteSet(D)
    BY <1>2, <1>4 DEF D
  <2>2. Cardinality(Reasoned(after[N + 1])) <= N /\ Cardinality(Reasoned(after[N + 1])) \in Nat
    BY <2>1, FS_Subset, FS_CardinalityType DEF N
  <2> QED
    BY <1>2, <1>6, <2>2
<1>8. R = Spread(R, callees) /\ DOMAIN R = D
  BY <1>1, <1>2, <1>7
<1>9. \A f \in D : R[f] = None => reasons[f] = None
  BY <1>1, <1>2, <1>5 DEF D, Reasoned
<1>10. ASSUME NEW f \in D, NEW g \in callees[f] \cap D, R[f] = None PROVE R[g] = None
  <2>1. SUFFICES ASSUME R[g] # None PROVE FALSE
    OBVIOUS
  <2>2. Spread(R, callees)[f] = "unverified_callee"
    BY <1>8, <1>10, <2>1 DEF Spread
  <2> QED
    BY <1>8, <1>10, <2>2, ReasonsAssumption DEF Reasons
<1> QED
  BY <1>8, <1>9, <1>10 DEF D

-----------------------------------------------------------------------------
(* The invariant *)

\* A receipt that is evidence hashes the text that was proved, under the load it
\* was proved under, unless the check was disturbed or read an inline source.
Honest(r) ==
  r.flaw = "none" =>
    /\ r.tool = "check" /\ r.verdict = "proved"
    /\ ~r.over.disturbed /\ Inline \notin DOMAIN r.files
         => r.files = r.over.text /\ r.load = r.over.load

RowFields ==
  {"status", "specs", "wp_summary", "callees", "callee_spec_hashes", "stale_dependencies",
   "proof_receipt", "proof_env_hash", "stale_proof_environment", "sandbox_clean",
   "sandbox_deleted"}

\* A verified row has a receipt that is evidence.
RowOK(row) ==
  /\ row = [x \in RowFields |-> row[x]]
  /\ row.status \in C!Status
  /\ row.proof_receipt # None => Honest(row.proof_receipt)
  /\ row.status = "verified" => row.proof_receipt.flaw = "none"

RowsOK(table) ==
  /\ table = [f \in Functions |-> table[f]]
  /\ \A f \in Functions : table[f] = None \/ RowOK(table[f])

SessionFields == {"loaded", "defined", "cache", "order", "ring", "profile"}

SessionOK(s) ==
  /\ s = [x \in SessionFields |-> s[x]]
  /\ s.defined \subseteq Functions
  /\ s.profile \in case.profiles \cup {None}
  /\ s.ring \in Seq(ToSet(s.ring))
  /\ \A r \in ToSet(s.ring) : Honest(r)

CheckFields == {"files", "functions", "model", "prop", "rows", "verdict", "over"}

\* A check under way that was not disturbed is about what is loaded and on disk.
CheckOK(c) ==
  /\ c = [x \in CheckFields |-> c[x]]
  /\ c.over = [x \in {"text", "load", "disturbed"} |-> c.over[x]]
  /\ ~c.over.disturbed =>
       /\ main # None
       /\ c.over.load = main.load /\ c.over.text = Text(main.files)
       /\ c.files \in {{}, main.files}

EvidenceInv ==
  /\ IsCampaign(case)
  /\ disk \in [Files -> DOMAIN case.graphs \cup {None}]
  /\ main \in Project(case) \cup {None}
  /\ SessionOK(session)
  /\ RowsOK(rows)
  /\ \A r \in issued : Honest(r)
  /\ check = None \/ CheckOK(check)

-----------------------------------------------------------------------------
(* Receipts *)

\* What proof_receipt writes, and what evidence takes.
LEMMA ReceiptFields ==
  ASSUME NEW tool, NEW run, NEW project, NEW text, NEW r,
         r = ProofReceipt(tool, run, project, text)
  PROVE  /\ r.tool = tool /\ r.verdict = run.verdict /\ r.over = run.over
         /\ r.files = ProofReceiptSourceFiles(run.files, text)
         /\ r.load = ProjectLoad(run.files, project)
         /\ r.flaw = "none" => tool = "check" /\ run.verdict = "proved" /\ DOMAIN r.files # {}
<1> DEFINE b == [tool |-> tool, files |-> ProofReceiptSourceFiles(run.files, text),
                 load |-> ProjectLoad(run.files, project),
                 model |-> run.model, prop |-> run.prop, functions |-> run.functions,
                 rows |-> ProofReceiptGoals(run.rows),
                 goals |-> Len(run.rows), verdict |-> run.verdict, env |-> "env",
                 over |-> run.over]
<1>1. /\ r.tool = b.tool /\ r.verdict = b.verdict /\ r.over = b.over
      /\ r.files = b.files /\ r.load = b.load /\ r.flaw = Flaw(b)
  BY Zenon DEF ProofReceipt
<1>2. /\ b.tool = tool /\ b.verdict = run.verdict /\ b.over = run.over
      /\ b.files = ProofReceiptSourceFiles(run.files, text)
      /\ b.load = ProjectLoad(run.files, project)
  BY Zenon
<1> HIDE DEF b
<1>3. Flaw(b) = "none" => b.tool = "check" /\ b.verdict = "proved" /\ DOMAIN b.files # {}
  BY DEF Flaw
<1> QED
  BY <1>1, <1>2, <1>3

\* The receipt of run_wp is never evidence.
LEMMA RunWpIsHonest ==
  ASSUME NEW run, NEW project, NEW text
  PROVE  Honest(ProofReceipt("run_wp", run, project, text))
<1>1. PICK r : r = ProofReceipt("run_wp", run, project, text)
  OBVIOUS
<1>2. r.flaw # "none"
  BY <1>1, ReceiptFields
<1> QED
  BY <1>1, <1>2 DEF Honest

\* Without an inline source, the paths of a receipt are its files.
LEMMA SourceFiles ==
  ASSUME NEW files, NEW text, Inline \notin DOMAIN ProofReceiptSourceFiles(files, text)
  PROVE  ProofReceiptSourceFiles(files, text) = [f \in files |-> text[f]]
<1>1. DOMAIN ProofReceiptSourceFiles(files, text) = Paths(files)
  BY DEF ProofReceiptSourceFiles
<1>2. \A f \in files : ReceiptSourcePath(f) = f
  BY <1>1 DEF Paths, ReceiptSourcePath
<1>3. Paths(files) = files
  BY <1>2 DEF Paths
<1>4. ASSUME NEW p \in files PROVE (CHOOSE f \in files : ReceiptSourcePath(f) = p) = p
  BY <1>2
<1>5. ProofReceiptSourceFiles(files, text)
        = [p \in files |-> text[CHOOSE f \in files : ReceiptSourcePath(f) = p]]
  BY <1>3 DEF ProofReceiptSourceFiles
<1> QED
  BY <1>4, <1>5, Zenon

\* The receipt check ends with.
LEMMA CheckIsHonest ==
  ASSUME CheckOK(check)
  PROVE  Honest(ProofReceipt("check", check, main, disk))
<1>1. PICK r : r = ProofReceipt("check", check, main, disk)
  OBVIOUS
<1>2. SUFFICES ASSUME r.flaw = "none", ~r.over.disturbed, Inline \notin DOMAIN r.files
               PROVE  r.files = r.over.text /\ r.load = r.over.load
  <2>1. r.flaw = "none" => r.tool = "check" /\ r.verdict = "proved"
    BY <1>1, ReceiptFields
  <2> QED
    BY <1>1, <2>1 DEF Honest
<1>3. /\ r.over = check.over /\ r.files = ProofReceiptSourceFiles(check.files, disk)
      /\ r.load = ProjectLoad(check.files, main) /\ DOMAIN r.files # {}
  BY <1>1, <1>2, ReceiptFields
<1>4. check.files # {}
  BY <1>3 DEF ProofReceiptSourceFiles, Paths
<1>5. /\ main # None /\ r.over.load = main.load /\ r.over.text = Text(main.files)
      /\ check.files = main.files
  BY <1>2, <1>3, <1>4 DEF CheckOK
<1>6. r.files = Text(main.files)
  BY <1>2, <1>3, <1>5, SourceFiles DEF Text
<1>7. r.load = main.load
  BY <1>3, <1>5 DEF ProjectLoad
<1> QED
  BY <1>5, <1>6, <1>7

\* remember_receipt keeps what it had, or drops the oldest.
LEMMA RingKeeps ==
  ASSUME NEW ring, NEW r, ring \in Seq(ToSet(ring)), \A q \in ToSet(ring) : Honest(q), Honest(r),
         NEW after, after = RememberReceipt(ring, r, ReceiptLimit)
  PROVE  after \in Seq(ToSet(after)) /\ \A q \in ToSet(after) : Honest(q)
<1> DEFINE S == ToSet(ring) \cup {r}
<1>1. ring \in Seq(S)
  BY DEF ToSet
<1> HIDE DEF S
<1>2. CASE Contains(ring, r)
  BY <1>2 DEF RememberReceipt
<1>3. CASE ~Contains(ring, r)
  <2>1. after = Append(IF Len(ring) >= ReceiptLimit THEN Tail(ring) ELSE ring, r)
    BY <1>3 DEF RememberReceipt
  <2>2. PICK base \in Seq(S) : after = Append(base, r)
    <3>1. CASE ring = <<>>
      <4>1. ~(Len(ring) >= ReceiptLimit)
        BY <3>1, CampaignAssumption
      <4> QED
        BY <1>1, <2>1, <4>1
    <3>2. CASE ring # <<>>
      <4>1. Tail(ring) \in Seq(S)
        BY <1>1, <3>2
      <4> QED
        BY <1>1, <2>1, <4>1
    <3> QED
      BY <3>1, <3>2
  <2>3. r \in S /\ after \in Seq(S)
    BY <2>2 DEF S
  <2>4. ToSet(after) \subseteq S /\ after \in Seq(ToSet(after))
    BY <2>3 DEF ToSet
  <2> QED
    BY <2>4 DEF S
<1> QED
  BY <1>2, <1>3

-----------------------------------------------------------------------------
(* Rows *)

\* A row that was never stored.
LEMMA EmptyRowOK == RowOK(C!EmptyConclusion)
<1>1. PICK e : e = C!EmptyConclusion
  OBVIOUS
<1>2. /\ e = [x \in RowFields |-> e[x]] /\ e.status = "in_progress" /\ e.proof_receipt = None
  BY <1>1 DEF C!EmptyConclusion, RowFields
<1> QED
  BY <1>1, <1>2 DEF RowOK, C!Status

\* The row of a store that was accepted.
LEMMA MergedOK ==
  ASSUME RowsOK(rows), NEW u, u.function \in Functions, u.status \in C!Status \cup {None},
         u.proof_receipt # None => Honest(u.proof_receipt), C!Accepts(rows, u)
  PROVE  RowOK(C!Merged(rows, u))
<1>1. PICK old : old = C!RowOf(rows, u.function)
  OBVIOUS
<1>2. RowOK(old)
  BY <1>1, EmptyRowOK DEF C!RowOf, RowsOK
<1>3. PICK e : e = C!Merged(rows, u)
  OBVIOUS
<1>4. /\ e = [x \in RowFields |-> e[x]]
      /\ e.status = C!Given(u.status, old.status)
      /\ e.proof_receipt = C!Given(u.proof_receipt, old.proof_receipt)
  BY <1>1, <1>3 DEF C!Merged, RowFields
<1>5. C!Valid(u.function, e)
  BY <1>3 DEF C!Accepts
<1>6. e.status \in C!Status
  BY <1>2, <1>4 DEF C!Given, RowOK
<1>7. e.proof_receipt # None => Honest(e.proof_receipt)
  BY <1>2, <1>4 DEF C!Given, RowOK
<1>8. e.status = "verified" => e.proof_receipt.flaw = "none"
  BY <1>5 DEF C!Valid, C!IsEvidence
<1> QED
  BY <1>3, <1>4, <1>6, <1>7, <1>8 DEF RowOK

\* The sweeps leave the receipt, and verify nothing.
LEMMA SweptOK ==
  ASSUME NEW e, RowOK(e), NEW env, NEW f, NEW current
  PROVE  RowOK(C!MarkEnvironment(e, env)) /\ RowOK(C!MarkDependency(e, f, current))
<1>1. \A s \in C!Status : C!Demoted(s) \in C!Status /\ (C!Demoted(s) = "verified" => s = "verified")
  BY DEF C!Demoted, C!Status
<1>2. e = [x \in RowFields |-> e[x]]
  BY DEF RowOK
<1>3. ASSUME NEW m, m \in {C!MarkEnvironment(e, env), C!MarkDependency(e, f, current)}
      PROVE  /\ m = [x \in RowFields |-> m[x]]
             /\ m.proof_receipt = e.proof_receipt
             /\ m.status \in {e.status, C!Demoted(e.status)}
  <2>1. CASE m = C!MarkEnvironment(e, env)
    <3>1. CASE e.proof_env_hash = None
      BY <1>2, <2>1, <3>1 DEF C!MarkEnvironment
    <3>2. CASE e.proof_env_hash # None /\ e.proof_env_hash = env
      <4>1. m = [e EXCEPT !.stale_proof_environment = None]
        BY <2>1, <3>2 DEF C!MarkEnvironment
      <4> QED
        BY <1>2, <4>1 DEF RowFields
    <3>3. CASE e.proof_env_hash # None /\ e.proof_env_hash # env
      <4>1. PICK mark : mark = [recorded |-> e.proof_env_hash, current |-> env]
        OBVIOUS
      <4>2. m = [e EXCEPT !.stale_proof_environment = mark, !.status = C!Demoted(@)]
        BY <2>1, <3>3, <4>1 DEF C!MarkEnvironment
      <4> QED
        BY <1>2, <4>2 DEF RowFields
    <3> QED
      BY <3>1, <3>2, <3>3
  <2>2. CASE m = C!MarkDependency(e, f, current)
    <3>1. PICK after : after = C!DependenciesAfter(e, f, current)
      OBVIOUS
    <3>2. m = e \/ m = [e EXCEPT !.stale_dependencies = after,
                                 !.status = IF after # e.stale_dependencies /\ after # {}
                                            THEN C!Demoted(@) ELSE @]
      BY <2>2, <3>1 DEF C!MarkDependency
    <3> QED
      BY <1>2, <3>2 DEF RowFields
  <2> QED
    BY <1>3, <2>1, <2>2
<1> QED
  BY <1>1, <1>3 DEF RowOK

\* store_function_conclusion keeps the rows.
LEMMA StoreKeeps ==
  ASSUME RowsOK(rows), NEW u, u.function \in Functions, u.status \in C!Status \cup {None},
         u.proof_receipt # None => Honest(u.proof_receipt), C!Accepts(rows, u),
         None \notin C!Status
  PROVE  RowsOK(C!AfterStore(rows, u))
<1>1. PICK table : table = C!AfterStore(rows, u)
  OBVIOUS
<1>2. table = [f \in Functions |-> table[f]]
  BY <1>1 DEF C!AfterStore
<1>3. ASSUME NEW g \in Functions PROVE table[g] = None \/ RowOK(table[g])
  <2>1. CASE g = u.function
    BY <1>1, <2>1, MergedOK DEF C!AfterStore
  <2>2. CASE g # u.function
    <3>1. table[g] = C!Swept(rows, u, C!Merged(rows, u), g)
      BY <1>1, <2>2 DEF C!AfterStore
    <3>2. SUFFICES ASSUME rows[g] # None PROVE RowOK(table[g])
      BY <3>1 DEF C!Swept
    <3>3. RowOK(rows[g])
      BY <3>2 DEF RowsOK
    <3>4. PICK e : e = IF u.proof_receipt = None THEN rows[g]
                       ELSE C!MarkEnvironment(rows[g], u.proof_receipt.env)
      OBVIOUS
    <3>5. RowOK(e)
      BY <3>3, <3>4, SweptOK
    <3>6. table[g] = C!MarkDependency(e, u.function, C!Merged(rows, u).specs)
      BY <3>1, <3>2, <3>4 DEF C!Swept
    <3> QED
      BY <3>5, <3>6, SweptOK
  <2> QED
    BY <2>1, <2>2
<1> QED
  BY <1>1, <1>2, <1>3 DEF RowsOK

-----------------------------------------------------------------------------
(* Every step keeps the invariant *)

\* A row from a former session.
LEMMA EarlierRowOK ==
  ASSUME NEW status \in C!Status \cup {None}, NEW prop
  PROVE  EarlierRow(status, prop) = None \/ RowOK(EarlierRow(status, prop))
<1>1. SUFFICES ASSUME status # None PROVE RowOK(EarlierRow(status, prop))
  BY DEF EarlierRow
<1>2. PICK e : e = C!EmptyConclusion
  OBVIOUS
<1>3. PICK summary : summary = [total |-> 1, valid |-> 1, unproved |-> 0]
  OBVIOUS
<1>4. PICK r : r = EarlierReceipt(prop)
  OBVIOUS
<1>5. PICK row : row = EarlierRow(status, prop)
  OBVIOUS
<1>6. row = [e EXCEPT !.status = status, !.proof_receipt = r, !.proof_env_hash = "env",
                      !.wp_summary = summary]
  BY <1>1, <1>2, <1>3, <1>4, <1>5 DEF EarlierRow
<1>7. e = [x \in RowFields |-> e[x]]
  BY <1>2, EmptyRowOK DEF RowOK
<1>8. row = [x \in RowFields |-> row[x]] /\ row.status = status /\ row.proof_receipt = r
  BY <1>6, <1>7 DEF RowFields
<1>9. r.flaw = "none" /\ r.tool = "check" /\ r.verdict = "proved" /\ r.load = "earlier"
  BY <1>4 DEF EarlierReceipt
<1>10. r.files = [p \in {1} |-> 1] /\ r.over.text = [f \in {1} |-> 1] /\ r.over.load = "earlier"
  BY <1>4 DEF EarlierReceipt
<1>11. Honest(r)
  BY <1>9, <1>10 DEF Honest
<1> QED
  BY <1>1, <1>5, <1>8, <1>9, <1>11 DEF RowOK

\* No receipt is remembered in an empty ring.
LEMMA EmptyRing ==
  ASSUME NEW ring, ring = <<>>
  PROVE  ring \in Seq(ToSet(ring)) /\ ToSet(ring) = {}
<1>1. PICK S : S = ToSet(ring)
  OBVIOUS
<1>2. ring \in Seq(S) /\ Len(ring) = 0
  <2>1. <<>> \in Seq(S) /\ Len(<<>>) = 0
    OBVIOUS
  <2> QED
    BY ONLY <2>1, ring = <<>>, Zenon
<1>3. DOMAIN ring = 1..0
  BY <1>2
<1>4. \A n \in DOMAIN ring : FALSE
  BY <1>3
<1>5. S = {}
  BY <1>1, <1>4, Zenon DEF ToSet
<1> QED
  BY <1>1, <1>2, <1>5

\* The session begins with rows of former ones only.
LEMMA InitHolds == Init => EvidenceInv
<1> SUFFICES ASSUME Init PROVE EvidenceInv
  OBVIOUS
<1>1. IsCampaign(case)
  BY CampaignAssumption DEF Init
<1>2. disk \in [Files -> DOMAIN case.graphs \cup {None}]
  <2>1. Len(case.graphs) \in Nat \ {0} /\ DOMAIN case.graphs = 1..Len(case.graphs)
    BY <1>1 DEF IsCampaign
  <2>2. 1 \in DOMAIN case.graphs
    BY <2>1
  <2> QED
    BY <2>2 DEF Init
<1>3. SessionOK(session)
  <2>1. PICK s : s = session
    OBVIOUS
  <2>2. s = [x \in SessionFields |-> s[x]] /\ s.defined = {} /\ s.profile = None /\ s.ring = <<>>
    BY <2>1 DEF Init, SessionFields
  <2>3. ToSet(s.ring) = {} /\ s.ring \in Seq(ToSet(s.ring))
    BY <2>2, EmptyRing
  <2> QED
    BY <2>1, <2>2, <2>3 DEF SessionOK
<1>4. RowsOK(rows)
  <2>1. \A f \in Functions : case.known[f] \in C!Status \cup {None}
    BY <1>1 DEF IsCampaign
  <2> QED
    BY <2>1, EarlierRowOK DEF Init, RowsOK
<1> QED
  BY <1>1, <1>2, <1>3, <1>4 DEF Init, EvidenceInv

\* Steps that leave everything the invariant is about.
LEMMA QuietKeeps ==
  ASSUME EvidenceInv, UNCHANGED <<case, disk, main, session, rows, issued, check>>
  PROVE  EvidenceInv'
<1>1. IsCampaign(case)' /\ (main \in Project(case) \cup {None})'
  BY DEF EvidenceInv, IsCampaign, Project
<1>2. SessionOK(session)'
  BY DEF EvidenceInv, SessionOK
<1>3. RowsOK(rows)'
  BY DEF EvidenceInv, RowsOK, RowOK
<1>4. check' = None \/ CheckOK(check)'
  BY DEF EvidenceInv, CheckOK, Text
<1> QED
  BY <1>1, <1>2, <1>3, <1>4 DEF EvidenceInv

\* Disturbed leaves a check that promises nothing.
LEMMA DisturbedOK ==
  ASSUME EvidenceInv, check # None, NEW c, c = Disturbed(check)
  PROVE  /\ c = [x \in CheckFields |-> c[x]]
         /\ c.over = [x \in {"text", "load", "disturbed"} |-> c.over[x]]
         /\ c.over.disturbed
<1>1. /\ check = [x \in CheckFields |-> check[x]]
      /\ check.over = [x \in {"text", "load", "disturbed"} |-> check.over[x]]
  BY DEF EvidenceInv, CheckOK
<1>2. PICK over : over = [check.over EXCEPT !.disturbed = TRUE]
  OBVIOUS
<1>3. over = [x \in {"text", "load", "disturbed"} |-> over[x]] /\ over.disturbed
  BY <1>1, <1>2
<1>4. c = [check EXCEPT !.over = over]
  BY <1>2 DEF Disturbed
<1>5. c.over = over /\ c = [x \in CheckFields |-> c[x]]
  BY <1>1, <1>4 DEF CheckFields
<1> QED
  BY <1>3, <1>5

\* A disturbed check is trusted for nothing.
LEMMA CheckDisturbed ==
  ASSUME EvidenceInv, check' = Disturbed(check)
  PROVE  check' = None \/ CheckOK(check)'
<1>1. CASE check = None
  BY <1>1 DEF Disturbed
<1>2. CASE check # None
  BY <1>2, DisturbedOK DEF CheckOK
<1> QED
  BY <1>1, <1>2

\* An edit disturbs the check under way and leaves the receipts.
LEMMA EditKeeps ==
  ASSUME EvidenceInv, NEW f \in Files, Edit(f)
  PROVE  EvidenceInv'
<1>1. check' = None \/ CheckOK(check)'
  BY CheckDisturbed DEF Edit
<1>2. disk' \in [Files -> DOMAIN case.graphs \cup {None}]
  <2>1. DOMAIN case.graphs = 1..Len(case.graphs) /\ Len(case.graphs) \in Nat
    BY DEF EvidenceInv, IsCampaign
  <2>2. disk \in [Files -> DOMAIN case.graphs \cup {None}]
    BY DEF EvidenceInv
  <2>3. CASE disk' = [disk EXCEPT ![f] = None]
    BY <2>2, <2>3
  <2>4. CASE disk[f] # None /\ disk[f] < Len(case.graphs) /\ disk' = [disk EXCEPT ![f] = @ + 1]
    <3>1. disk[f] \in 1..Len(case.graphs)
      BY <2>1, <2>2, <2>4
    <3>2. disk[f] + 1 \in DOMAIN case.graphs
      BY <2>1, <2>4, <3>1
    <3> QED
      BY <2>2, <2>4, <3>2
  <2> QED
    BY <2>3, <2>4 DEF Edit
<1>3. UNCHANGED <<case, main, session, rows, issued>>
  BY DEF Edit
<1>4. IsCampaign(case)' /\ SessionOK(session)' /\ RowsOK(rows)' /\ main' \in Project(case)' \cup {None}
  BY <1>3 DEF EvidenceInv, IsCampaign, SessionOK, RowsOK, RowOK, Project
<1> QED
  BY <1>1, <1>2, <1>3, <1>4 DEF EvidenceInv

\* What a load leaves is a project.
LEMMA LoadedIsProject ==
  ASSUME EvidenceInv, NEW load, load.files \subseteq Files, Parses(load.files),
         load.load \in {l.load : l \in case.loads} \cup {p.load : p \in case.profiles}
  PROVE  /\ Loaded(load) \in Project(case)
         /\ Loaded(load).files = load.files /\ Loaded(load).load = load.load
         /\ Loaded(load).text = Text(load.files)
         /\ Loaded(load).graph = GraphOf(Text(load.files))
         /\ Loaded(load).graph.defined \subseteq Functions
         /\ Loaded(load).graph.vertices \subseteq Functions
<1>1. PICK files : files = load.files
  OBVIOUS
<1>2. PICK text : text = Text(files)
  OBVIOUS
<1>3. text \in [files -> DOMAIN case.graphs]
  BY <1>1, <1>2 DEF Text, Parses, EvidenceInv
<1>4. PICK graph : graph = GraphOf(text)
  OBVIOUS
<1>5. graph \in ToSet(case.graphs)
  <2>1. files # {} /\ files \in SUBSET Nat /\ DOMAIN text = files
    BY <1>1, <1>3, CampaignAssumption DEF Parses
  <2>2. \E f \in DOMAIN text : \A g \in DOMAIN text : f <= g
    BY <2>1, LeastOne
  <2>3. PICK first : first = CHOOSE f \in DOMAIN text : \A g \in DOMAIN text : f <= g
    OBVIOUS
  <2>4. first \in DOMAIN text
    BY <2>2, <2>3
  <2>5. graph = case.graphs[text[first]]
    BY <1>4, <2>3 DEF GraphOf
  <2> QED
    BY <1>3, <2>1, <2>4, <2>5 DEF ToSet
<1>6. graph.defined \subseteq Functions /\ graph.vertices \subseteq Functions
  BY <1>5 DEF EvidenceInv, IsCampaign
<1>7. PICK options : options = load.load
  OBVIOUS
<1>8. Loaded(load) = [files |-> files, load |-> options, graph |-> graph, text |-> text]
  BY <1>1, <1>2, <1>4, <1>7 DEF Loaded
<1>9. Loaded(load) \in Project(case)
  BY <1>1, <1>3, <1>5, <1>7, <1>8 DEF Project
<1> QED
  BY <1>1, <1>2, <1>4, <1>6, <1>7, <1>8, <1>9

\* A load keeps the profile of the session, or the one it registers, and
\* forgets the receipts.
LEMMA LoadSession ==
  ASSUME NEW s, SessionOK(s), NEW profile \in case.profiles \cup {None},
         NEW graph, graph.defined \subseteq Functions,
         NEW after, after = AfterLoad([s EXCEPT !.profile = profile], graph)
  PROVE  SessionOK(after)
<1>1. s = [x \in SessionFields |-> s[x]]
  BY DEF SessionOK
<1>2. PICK t : t = [s EXCEPT !.profile = profile]
  OBVIOUS
<1>3. t = [x \in SessionFields |-> t[x]] /\ t.profile = profile
  BY <1>1, <1>2 DEF SessionFields
<1>4. PICK defined : defined = graph.defined
  OBVIOUS
<1>5. after = [t EXCEPT !.loaded = TRUE, !.defined = defined, !.cache = NoGraph, !.ring = <<>>]
  BY <1>2, <1>4 DEF AfterLoad
<1>6. PICK empty, none : empty = <<>> /\ none = NoGraph
  OBVIOUS
<1>7. after = [t EXCEPT !.loaded = TRUE, !.defined = defined, !.cache = none, !.ring = empty]
  BY <1>5, <1>6
<1> HIDE <1>5
<1>8. /\ after = [x \in SessionFields |-> after[x]] /\ after.defined = defined
      /\ after.ring = empty /\ after.profile = profile
  BY <1>3, <1>7 DEF SessionFields
<1>9. after.ring \in Seq(ToSet(after.ring)) /\ ToSet(after.ring) = {}
  BY <1>6, <1>8, EmptyRing
<1> QED
  BY <1>4, <1>8, <1>9 DEF SessionOK

\* A receipt that is remembered.
LEMMA RingSession ==
  ASSUME NEW s, SessionOK(s), NEW r, Honest(r),
         NEW after, after = [s EXCEPT !.ring = RememberReceipt(@, r, ReceiptLimit)]
  PROVE  SessionOK(after)
<1>1. PICK ring : ring = RememberReceipt(s.ring, r, ReceiptLimit)
  OBVIOUS
<1>2. ring \in Seq(ToSet(ring)) /\ \A q \in ToSet(ring) : Honest(q)
  BY <1>1, RingKeeps DEF SessionOK
<1>3. after = [s EXCEPT !.ring = ring]
  BY <1>1
<1>4. s = [x \in SessionFields |-> s[x]]
  BY DEF SessionOK
<1>5. /\ after = [x \in SessionFields |-> after[x]] /\ after.defined = s.defined
      /\ after.ring = ring /\ after.profile = s.profile
  BY <1>3, <1>4 DEF SessionFields
<1> QED
  BY <1>2, <1>5 DEF SessionOK

\* What the invariant says of the rows, when only the project changes.
LEMMA RowsStay ==
  ASSUME RowsOK(rows), UNCHANGED rows
  PROVE  RowsOK(rows)'
BY DEF RowsOK, RowOK

\* What the invariant says of a new session.
LEMMA SessionGoes ==
  ASSUME UNCHANGED case, SessionOK(session')
  PROVE  SessionOK(session)'
BY DEF SessionOK

\* The campaign fixes the projects.
LEMMA ProjectsStay ==
  ASSUME UNCHANGED case
  PROVE  Project(case)' = Project(case) /\ (IsCampaign(case) => IsCampaign(case)')
BY DEF Project, IsCampaign

\* A load disturbs the check and forgets the receipts.
LEMMA ReloadKeeps ==
  ASSUME EvidenceInv, NEW load \in case.loads, NEW register \in case.profiles \cup {None},
         Reload(load, register)
  PROVE  EvidenceInv'
<1>1. load.files \subseteq Files
  BY DEF EvidenceInv, IsCampaign
<1>2. PICK project : project = Loaded(load)
  OBVIOUS
<1>3. project \in Project(case) /\ project.graph.defined \subseteq Functions
      /\ project.graph = GraphOf(Text(load.files))
  <2>1. load.load \in {l.load : l \in case.loads} \cup {p.load : p \in case.profiles}
    OBVIOUS
  <2>2. Parses(load.files)
    BY DEF Reload
  <2> QED
    BY <1>1, <1>2, <2>1, <2>2, LoadedIsProject
<1>4. main' = project
  BY <1>2 DEF Reload
<1>5. UNCHANGED <<case, disk, rows, issued>> /\ check' = Disturbed(check)
  BY DEF Reload
<1>6. SessionOK(session')
  <2>1. PICK profile : profile = IF register = None THEN session.profile ELSE register
    OBVIOUS
  <2>2. profile \in case.profiles \cup {None} /\ SessionOK(session)
    BY <2>1 DEF EvidenceInv, SessionOK
  <2>3. session' = AfterLoad([session EXCEPT !.profile = IF register = None THEN @ ELSE register],
                             GraphOf(Text(load.files)))
    BY DEF Reload
  <2>4. session' = AfterLoad([session EXCEPT !.profile = profile], project.graph)
    BY <1>3, <2>1, <2>3
  <2> QED
    BY <1>3, <2>2, <2>4, LoadSession
<1>7. check' = None \/ CheckOK(check)'
  BY <1>5, CheckDisturbed
<1>8. main' \in (Project(case) \cup {None})' /\ IsCampaign(case)'
  BY <1>3, <1>4, <1>5, ProjectsStay DEF EvidenceInv
<1>9. RowsOK(rows)' /\ SessionOK(session)'
  BY <1>5, <1>6, RowsStay, SessionGoes DEF EvidenceInv
<1> QED
  BY <1>5, <1>7, <1>8, <1>9 DEF EvidenceInv

\* Without a project the check under way is disturbed.
LEMMA LoseMainKeeps ==
  ASSUME EvidenceInv, LoseMain
  PROVE  EvidenceInv'
<1>1. UNCHANGED <<case, disk, session, rows, issued>> /\ check' = Disturbed(check) /\ main' = None
  BY DEF LoseMain
<1>2. check' = None \/ CheckOK(check)'
  BY <1>1, CheckDisturbed
<1>3. RowsOK(rows)' /\ IsCampaign(case)'
  BY <1>1, RowsStay, ProjectsStay DEF EvidenceInv
<1>4. SessionOK(session)'
  BY <1>1 DEF EvidenceInv, SessionOK
<1> QED
  BY <1>1, <1>2, <1>3, <1>4 DEF EvidenceInv

\* The receipt of a check is about what the check began with, or disturbed.
LEMMA CheckEndKeeps ==
  ASSUME EvidenceInv, CheckEnd
  PROVE  EvidenceInv'
<1>1. PICK r : r = ProofReceipt("check", check, main, disk)
  OBVIOUS
<1>2. /\ issued' = issued \cup {r}
      /\ session' = [session EXCEPT !.ring = RememberReceipt(@, r, ReceiptLimit)]
      /\ check # None /\ check' = None
      /\ UNCHANGED <<case, disk, main, rows>>
  BY <1>1 DEF CheckEnd
<1>3. Honest(r)
  BY <1>1, <1>2, CheckIsHonest DEF EvidenceInv
<1>4. SessionOK(session')
  BY <1>2, <1>3, RingSession DEF EvidenceInv
<1>5. RowsOK(rows)' /\ IsCampaign(case)' /\ SessionOK(session)' /\ Project(case)' = Project(case)
  BY <1>2, <1>4, RowsStay, ProjectsStay, SessionGoes DEF EvidenceInv
<1> QED
  BY <1>2, <1>3, <1>5 DEF EvidenceInv

\* A receipt of run_wp may be remembered.
LEMMA RunWpKeeps ==
  ASSUME EvidenceInv, NEW functions, NEW prop, RunWp(functions, prop)
  PROVE  EvidenceInv'
<1>1. PICK goals \in GoalRows(functions, "incomplete") :
        LET r == ProofReceipt("run_wp",
                   [files |-> main.files, functions |-> functions, model |-> "typed",
                    prop |-> prop, rows |-> goals, verdict |-> None,
                    over |-> [text |-> main.text, load |-> main.load, disturbed |-> FALSE]],
                   main, disk)
        IN session' = [session EXCEPT !.ring = RememberReceipt(@, r, ReceiptLimit)]
  BY DEF RunWp
<1>2. PICK r : /\ Honest(r)
               /\ session' = [session EXCEPT !.ring = RememberReceipt(@, r, ReceiptLimit)]
  BY <1>1, RunWpIsHonest
<1>3. UNCHANGED <<case, disk, main, rows, issued, check>>
  BY DEF RunWp
<1>4. SessionOK(session')
  BY <1>2, RingSession DEF EvidenceInv
<1>5. RowsOK(rows)' /\ IsCampaign(case)' /\ SessionOK(session)' /\ Project(case)' = Project(case)
  BY <1>3, <1>4, RowsStay, ProjectsStay, SessionGoes DEF EvidenceInv
<1>6. check' = None \/ CheckOK(check)'
  BY <1>3 DEF EvidenceInv, CheckOK, Text
<1> QED
  BY <1>3, <1>5, <1>6 DEF EvidenceInv

\* check loads what it proves, so what it holds is about what is loaded.
LEMMA CheckBeginKeeps ==
  ASSUME EvidenceInv, NEW load \in case.loads \cup {[files |-> {}, load |-> None]},
         NEW functions, NEW byProfile \in BOOLEAN, NEW prop, NEW verdict,
         CheckBegin(load, functions, byProfile, prop, verdict)
  PROVE  EvidenceInv'
<1>1. PICK files : files = IF byProfile /\ load.files = {} THEN session.profile.sources ELSE load.files
  OBVIOUS
<1>2. PICK options : options = IF byProfile THEN session.profile.load ELSE load.load
  OBVIOUS
<1>3. PICK project : project = Loaded([files |-> files, load |-> options])
  OBVIOUS
<1>4. PICK scope : scope = functions \cap project.graph.defined
  OBVIOUS
<1>5. /\ byProfile => session.profile # None
      /\ Parses(files)
      /\ \E goals \in GoalRows(scope, verdict) :
           LET refused == byProfile
                            /\ \/ ProfileRefuses(project, scope, prop)
                               \/ GoalFloorShortfall(session.profile, goals, scope)
               run == [files |-> load.files, functions |-> IF refused THEN {} ELSE scope,
                       model |-> IF byProfile THEN session.profile.model ELSE "typed",
                       prop |-> IF refused THEN None ELSE prop, rows |-> goals,
                       verdict |-> IF refused \/ prop # None THEN "incomplete" ELSE verdict,
                       over |-> [text |-> project.text, load |-> options, disturbed |-> FALSE]]
               proved == ProofReceipt("run_wp", [run EXCEPT !.files = files, !.verdict = None],
                                      project, disk)
           IN /\ main' = project
              /\ session' = LET s == AfterLoad(session, project.graph)
                            IN IF refused THEN s
                               ELSE [s EXCEPT !.ring = RememberReceipt(@, proved, ReceiptLimit)]
              /\ check' = run
      /\ UNCHANGED <<case, disk, rows, issued>>
  BY <1>1, <1>2, <1>3, <1>4, ZenonT(100) DEF CheckBegin
<1>6a. PICK goals :
         LET refused == byProfile
                          /\ \/ ProfileRefuses(project, scope, prop)
                             \/ GoalFloorShortfall(session.profile, goals, scope)
             run == [files |-> load.files, functions |-> IF refused THEN {} ELSE scope,
                     model |-> IF byProfile THEN session.profile.model ELSE "typed",
                     prop |-> IF refused THEN None ELSE prop, rows |-> goals,
                     verdict |-> IF refused \/ prop # None THEN "incomplete" ELSE verdict,
                     over |-> [text |-> project.text, load |-> options, disturbed |-> FALSE]]
             proved == ProofReceipt("run_wp", [run EXCEPT !.files = files, !.verdict = None],
                                    project, disk)
         IN /\ main' = project
            /\ session' = LET s == AfterLoad(session, project.graph)
                          IN IF refused THEN s
                             ELSE [s EXCEPT !.ring = RememberReceipt(@, proved, ReceiptLimit)]
            /\ check' = run
  BY <1>5, Zenon
<1> DEFINE Refused == byProfile
                        /\ \/ ProfileRefuses(project, scope, prop)
                           \/ GoalFloorShortfall(session.profile, goals, scope)
           Run == [files |-> load.files, functions |-> IF Refused THEN {} ELSE scope,
                   model |-> IF byProfile THEN session.profile.model ELSE "typed",
                   prop |-> IF Refused THEN None ELSE prop, rows |-> goals,
                   verdict |-> IF Refused \/ prop # None THEN "incomplete" ELSE verdict,
                   over |-> [text |-> project.text, load |-> options, disturbed |-> FALSE]]
           Proved == ProofReceipt("run_wp", [Run EXCEPT !.files = files, !.verdict = None],
                                  project, disk)
<1>6b. /\ main' = project
       /\ session' = IF Refused THEN AfterLoad(session, project.graph)
                     ELSE [AfterLoad(session, project.graph) EXCEPT
                             !.ring = RememberReceipt(@, Proved, ReceiptLimit)]
       /\ check' = Run
  BY <1>6a, Zenon
<1>6c. Honest(Proved)
  BY RunWpIsHonest
<1> HIDE DEF Refused, Proved
<1>6. PICK scoped, model, filter, outcome, refused, r :
        /\ main' = project
        /\ session' = IF refused THEN AfterLoad(session, project.graph)
                      ELSE [AfterLoad(session, project.graph) EXCEPT
                              !.ring = RememberReceipt(@, r, ReceiptLimit)]
        /\ check' = [files |-> load.files, functions |-> scoped, model |-> model,
                     prop |-> filter, rows |-> goals, verdict |-> outcome,
                     over |-> [text |-> project.text, load |-> options, disturbed |-> FALSE]]
        /\ Honest(r)
  BY <1>6b, <1>6c, Zenon
<1>7. PICK asked : asked = [files |-> files, load |-> options]
  OBVIOUS
<1>8. /\ asked.files = files /\ asked.load = options /\ project = Loaded(asked)
      /\ files \subseteq Files /\ load.files \in {{}, files}
      /\ options \in {l.load : l \in case.loads} \cup {p.load : p \in case.profiles}
  <2>1. byProfile => session.profile \in case.profiles
    BY <1>5 DEF EvidenceInv, SessionOK
  <2>2. load.files \subseteq Files /\ (byProfile => session.profile.sources \subseteq Files)
    BY <2>1 DEF EvidenceInv, IsCampaign
  <2>3. ~byProfile => load \in case.loads
    BY <1>1, <1>5 DEF Parses
  <2> QED
    BY <1>1, <1>2, <1>3, <1>7, <2>1, <2>2, <2>3
<1>9. /\ project \in Project(case) /\ project.files = files /\ project.load = options
      /\ project.text = Text(files) /\ project.graph.defined \subseteq Functions
  BY <1>5, <1>8, LoadedIsProject
<1>10. SessionOK(session')
  <2>1. session = [session EXCEPT !.profile = session.profile] /\ SessionOK(session)
        /\ session.profile \in case.profiles \cup {None}
    BY DEF EvidenceInv, SessionOK, SessionFields
  <2>2. PICK s : s = AfterLoad(session, project.graph)
    OBVIOUS
  <2>3. s = AfterLoad([session EXCEPT !.profile = session.profile], project.graph)
    BY <2>1, <2>2
  <2>4. SessionOK(s)
    BY <1>9, <2>1, <2>3, LoadSession
  <2>5. session' = s \/ session' = [s EXCEPT !.ring = RememberReceipt(@, r, ReceiptLimit)]
    BY <1>6, <2>2
  <2> QED
    BY <1>6, <2>4, <2>5, RingSession
<1>11. CheckOK(check)'
  <2>1. PICK over : over = [text |-> Text(files), load |-> options, disturbed |-> FALSE]
    OBVIOUS
  <2>2. PICK c : c = [files |-> load.files, functions |-> scoped, model |-> model,
                      prop |-> filter, rows |-> goals, verdict |-> outcome, over |-> over]
    OBVIOUS
  <2>3. check' = c
    BY <1>6, <1>9, <2>1, <2>2
  <2>4. c = [x \in CheckFields |-> c[x]] /\ c.over = over /\ c.files = load.files
    BY <2>2 DEF CheckFields
  <2>5. over = [x \in {"text", "load", "disturbed"} |-> over[x]] /\ over.load = options
        /\ over.text = Text(files)
    BY <2>1
  <2>6. None \notin Project(case)
    BY DEF EvidenceInv, IsCampaign
  <2>7. main' # None /\ main'.load = options /\ main'.files = files
    BY <1>6, <1>9, <2>6
  <2>8. Text(files) = Text(main.files)'
    BY <1>5, <2>7 DEF Text
  <2> QED
    BY <1>8, <2>3, <2>4, <2>5, <2>7, <2>8 DEF CheckOK
<1>12. RowsOK(rows)' /\ IsCampaign(case)' /\ SessionOK(session)' /\ Project(case)' = Project(case)
  BY <1>5, <1>10, RowsStay, ProjectsStay, SessionGoes DEF EvidenceInv
<1> QED
  BY <1>5, <1>6, <1>9, <1>11, <1>12 DEF EvidenceInv

\* A store takes a receipt that was issued or is remembered.
LEMMA StoreConclusionKeeps ==
  ASSUME EvidenceInv, NEW f \in Functions, NEW status \in case.statuses,
         NEW r \in issued \cup ToSet(session.ring) \cup {None}, NEW byDigest, NEW forProfile,
         NEW callees, StoreConclusion(f, status, r, byDigest, callees, forProfile)
  PROVE  EvidenceInv'
<1>1. PICK summary : summary = IF r = None THEN None
                               ELSE [total |-> r.goals, valid |-> r.goals, unproved |-> 0]
  OBVIOUS
<1>2. PICK u : u = [function |-> f, status |-> status, specs |-> None, callees |-> callees,
                    wp_summary |-> summary, proof_receipt |-> r]
  OBVIOUS
<1>3. C!Accepts(rows, u) /\ rows' = C!AfterStore(rows, u)
  BY <1>1, <1>2 DEF StoreConclusion
<1>4. u.function = f /\ u.status = status /\ u.proof_receipt = r
  BY <1>2
<1>5. status \in C!Status \cup {None} /\ None \notin C!Status
  BY CampaignAssumption DEF EvidenceInv, IsCampaign
<1>6. r # None => Honest(r)
  BY DEF EvidenceInv, SessionOK
<1>7. RowsOK(rows')
  BY <1>3, <1>4, <1>5, <1>6, StoreKeeps DEF EvidenceInv
<1>8. RowsOK(rows)'
  BY <1>7 DEF RowsOK, RowOK
<1>9. UNCHANGED <<case, disk, main, session, issued, check>>
  BY DEF StoreConclusion
<1>10. SessionOK(session)' /\ IsCampaign(case)' /\ Project(case)' = Project(case)
  BY <1>9, ProjectsStay DEF EvidenceInv, SessionOK
<1>11. check' = None \/ CheckOK(check)'
  BY <1>9 DEF EvidenceInv, CheckOK, Text
<1> QED
  BY <1>8, <1>9, <1>10, <1>11 DEF EvidenceInv

\* The call graph and the order are no part of what the receipts rest on.
LEMMA GraphKeeps ==
  ASSUME EvidenceInv, CacheCallgraph \/ ComputeOrder
  PROVE  EvidenceInv'
<1>1. PICK cache, order : /\ session' = [session EXCEPT !.cache = cache]
                             \/ session' = [session EXCEPT !.order = order]
                          /\ UNCHANGED <<case, disk, main, rows, issued, check>>
  BY DEF CacheCallgraph, ComputeOrder
<1>2. session = [x \in SessionFields |-> session[x]]
  BY DEF EvidenceInv, SessionOK
<1>3. /\ session' = [x \in SessionFields |-> session'[x]]
      /\ session'.defined = session.defined /\ session'.profile = session.profile
      /\ session'.ring = session.ring
  BY <1>1, <1>2 DEF SessionFields
<1>4. SessionOK(session')
  BY <1>3 DEF EvidenceInv, SessionOK
<1>5. RowsOK(rows)' /\ IsCampaign(case)' /\ SessionOK(session)' /\ Project(case)' = Project(case)
  BY <1>1, <1>4, RowsStay, ProjectsStay, SessionGoes DEF EvidenceInv
<1>6. check' = None \/ CheckOK(check)'
  BY <1>1 DEF EvidenceInv, CheckOK, Text
<1> QED
  BY <1>1, <1>5, <1>6 DEF EvidenceInv

\* What receipts, rows and a check under way can be trusted for: a receipt that
\* is evidence hashes the text and names the load it was proved under
\* (proof_receipt), and a verified row has one (verified_evidence_missing_reason).
THEOREM ReceiptsAreHonest == Spec => []EvidenceInv
<1>1. Init => EvidenceInv
  BY InitHolds
<1>2. EvidenceInv /\ [Next]_vars => EvidenceInv'
  <2> SUFFICES ASSUME EvidenceInv, [Next]_vars PROVE EvidenceInv'
    OBVIOUS
  <2>1. ASSUME NEW f \in Files, Edit(f) PROVE EvidenceInv'
    BY <2>1, EditKeeps
  <2>2. ASSUME NEW load \in case.loads, NEW register \in case.profiles \cup {None},
               Reload(load, register)
        PROVE  EvidenceInv'
    BY <2>2, ReloadKeeps
  <2>3. ASSUME LoseMain PROVE EvidenceInv'
    BY <2>3, LoseMainKeeps
  <2>4. ASSUME NEW load \in case.loads \cup {[files |-> {}, load |-> None]}, NEW functions,
               NEW byProfile \in BOOLEAN, NEW prop, NEW verdict,
               CheckBegin(load, functions, byProfile, prop, verdict)
        PROVE  EvidenceInv'
    BY <2>4, CheckBeginKeeps
  <2>5. ASSUME CheckEnd PROVE EvidenceInv'
    BY <2>5, CheckEndKeeps
  <2>6. ASSUME NEW functions, NEW prop, RunWp(functions, prop) PROVE EvidenceInv'
    BY <2>6, RunWpKeeps
  <2>7. ASSUME NEW f \in Functions, NEW status \in case.statuses,
               NEW r \in issued \cup ToSet(session.ring) \cup {None}, NEW byDigest,
               NEW forProfile, NEW callees,
               StoreConclusion(f, status, r, byDigest, callees, forProfile)
        PROVE  EvidenceInv'
    BY <2>7, StoreConclusionKeeps
  <2>8. ASSUME CacheCallgraph \/ ComputeOrder PROVE EvidenceInv'
    BY <2>8, GraphKeeps
  <2>9. ASSUME \/ \E since, f : Diff(since, f)
               \/ \E byProfile : ProofCoverage(byProfile)
               \/ \E lock, busy : StepBegin(lock, busy)
               \/ FetchCallgraph \/ FetchFails \/ Snapshot \/ StepEnd
               \/ UNCHANGED vars
        PROVE  EvidenceInv'
    <3>1. UNCHANGED <<case, disk, main, session, rows, issued, check>>
      BY <2>9 DEF Diff, ProofCoverage, StepBegin, FetchCallgraph, FetchFails, Snapshot, StepEnd, vars
    <3> QED
      BY <3>1, QuietKeeps
  <2> QED
    BY <2>1, <2>2, <2>3, <2>4, <2>5, <2>6, <2>7, <2>8, <2>9 DEF Next
<1> QED
  BY <1>1, <1>2, PTL DEF Spec

-----------------------------------------------------------------------------
(* The coverage report *)

\* A row that covers its function: none of row_reason's tests fails.
LEMMA NoReason ==
  ASSUME NEW f, NEW row, NEW isNamed, NEW profile, NEW project, NEW text, row.status # None,
         RowReason(f, row, isNamed, profile, project, text) = None
  PROVE  /\ profile # None => isNamed /\ IsProfileEvidence(profile, f, row.proof_receipt)
         /\ row.proof_receipt # None /\ ReceiptMatchesProject(row.proof_receipt, project)
         /\ row.status = "verified"
         /\ Drift(row.proof_receipt, text).changed = {}
         /\ row.proof_receipt.prop = None
         /\ f \in row.proof_receipt.functions
BY ReasonsAssumption, Zenon DEF RowReason, Reasons

\* What the report says of a function without a reason.
LEMMA ReportFields ==
  ASSUME EvidenceInv, NEW targets, IsFiniteSet(targets), NEW profile,
         NEW a, a = ProofCoverageReport(targets, session.defined, rows, named, profile, main, disk)
  PROVE  /\ a.kind = "coverage" /\ a.targets = targets /\ a.profile = profile
         /\ a.complete => \A f \in targets : a.reasons[f] = None
         /\ \A f \in targets : a.reasons[f] = None =>
              /\ f \in session.defined /\ f \in Functions /\ rows[f] # None
              /\ RowReason(f, rows[f], f \in named, profile, main, disk) = None
         /\ \A f \in targets : f \in session.defined /\ rows[f] # None /\ rows[f].proof_receipt # None
              => Drift(rows[f].proof_receipt, disk).unchecked \subseteq a.unchecked
         /\ \A f \in targets : f \in session.defined /\ rows[f] # None /\ a.reasons[f] = None
              => \A g \in rows[f].callees \cap targets : a.reasons[g] = None
<1> DEFINE own(f) == IF f \notin session.defined THEN "not_defined_in_project"
                     ELSE IF rows[f] = None THEN "missing_conclusion"
                     ELSE RowReason(f, rows[f], f \in named, profile, main, disk)
           direct == [f \in targets |-> own(f)]
           judged == {f \in targets \cap session.defined :
                        rows[f] # None /\ rows[f].proof_receipt # None}
           callees == [f \in targets |-> IF f \in session.defined /\ rows[f] # None
                                         THEN rows[f].callees ELSE {}]
           reasons == PropagateUnverifiedCallees(direct, callees)
<1>1. /\ a.kind = "coverage" /\ a.targets = targets /\ a.profile = profile
      /\ a.reasons = reasons
      /\ a.unchecked = UNION {Drift(rows[f].proof_receipt, disk).unchecked : f \in judged}
      /\ a.complete => \A f \in targets : reasons[f] = None
  <2>1. PICK unchecked, complete :
          /\ a = [kind |-> "coverage", targets |-> targets, profile |-> profile,
                  reasons |-> reasons, unchecked |-> unchecked, complete |-> complete]
          /\ unchecked = UNION {Drift(rows[f].proof_receipt, disk).unchecked : f \in judged}
          /\ complete => \A f \in targets : reasons[f] = None
    BY Zenon DEF ProofCoverageReport
  <2> HIDE DEF reasons, judged
  <2> QED
    BY <2>1
<1>2. direct = [f \in DOMAIN direct |-> direct[f]] /\ DOMAIN direct = targets
      /\ \A f \in targets : direct[f] = own(f)
  OBVIOUS
<1>3. \A f \in targets : callees[f] = IF f \in session.defined /\ rows[f] # None
                                      THEN rows[f].callees ELSE {}
  OBVIOUS
<1>4. \A f \in targets : own(f) = None =>
        /\ f \in session.defined /\ rows[f] # None
        /\ RowReason(f, rows[f], f \in named, profile, main, disk) = None
  BY ReasonsAssumption, Zenon DEF Reasons
<1> HIDE DEF direct, callees, own
<1>5. /\ \A f \in targets : reasons[f] = None => direct[f] = None
      /\ \A f \in targets : \A g \in callees[f] \cap targets :
           reasons[f] = None => reasons[g] = None
  BY <1>2, Propagation
<1> HIDE DEF reasons
<1>6. \A f \in targets : a.reasons[f] = None =>
        /\ f \in session.defined /\ f \in Functions /\ rows[f] # None
        /\ RowReason(f, rows[f], f \in named, profile, main, disk) = None
  <2>1. \A f \in targets : a.reasons[f] = None =>
          /\ f \in session.defined /\ rows[f] # None
          /\ RowReason(f, rows[f], f \in named, profile, main, disk) = None
    <3> SUFFICES ASSUME NEW f \in targets, a.reasons[f] = None
                 PROVE  /\ f \in session.defined /\ rows[f] # None
                        /\ RowReason(f, rows[f], f \in named, profile, main, disk) = None
      OBVIOUS
    <3>1. direct[f] = None
      BY <1>1, <1>5
    <3>2. own(f) = None
      BY <1>2, <3>1
    <3> QED
      BY <1>4, <3>2
  <2>2. session.defined \subseteq Functions
    BY DEF EvidenceInv, SessionOK
  <2> QED
    BY <2>1, <2>2, Zenon
<1>7. \A f \in targets : f \in session.defined /\ rows[f] # None /\ rows[f].proof_receipt # None
        => Drift(rows[f].proof_receipt, disk).unchecked \subseteq a.unchecked
  BY <1>1, Zenon
<1>8. \A f \in targets : f \in session.defined /\ rows[f] # None /\ a.reasons[f] = None
        => \A g \in rows[f].callees \cap targets : a.reasons[g] = None
  BY <1>1, <1>3, <1>5
<1> QED
  BY <1>1, <1>6, <1>7, <1>8

\* The paths of the loaded files, when none of them is inline.
LEMMA PathsAreFiles ==
  ASSUME NEW files, Inline \notin Paths(files)
  PROVE  Paths(files) = files
<1>1. \A f \in files : ReceiptSourcePath(f) = f
  BY DEF Paths, ReceiptSourcePath
<1> QED
  BY <1>1 DEF Paths

\* A report that is complete, with no source unchecked.
LEMMA CompleteReport ==
  ASSUME EvidenceInv, NEW targets, IsFiniteSet(targets), NEW profile,
         NEW a, a = ProofCoverageReport(targets, session.defined, rows, named, profile, main, disk),
         a.complete, a.unchecked = {}, NEW f \in targets,
         NEW r, r = rows[f].proof_receipt
  PROVE  /\ r.tool = "check" /\ r.verdict = "proved" /\ f \in r.functions /\ r.prop = None
         /\ profile # None => f \in named
         /\ ~r.over.disturbed =>
              /\ \A file \in DOMAIN r.over.text : disk[file] = r.over.text[file]
              /\ main # None => r.over.load = main.load /\ DOMAIN r.over.text = main.files
              /\ profile # None => r.over.load = profile.load
<1>1. /\ f \in session.defined /\ f \in Functions /\ rows[f] # None
      /\ RowReason(f, rows[f], f \in named, profile, main, disk) = None
  BY ReportFields
<1>2. RowOK(rows[f]) /\ rows[f].status # None
  BY <1>1, CampaignAssumption DEF EvidenceInv, RowsOK, RowOK
<1>3. /\ profile # None => f \in named /\ IsProfileEvidence(profile, f, r)
      /\ r # None /\ ReceiptMatchesProject(r, main) /\ rows[f].status = "verified"
      /\ Drift(r, disk).changed = {} /\ f \in r.functions /\ r.prop = None
  <2>1. PICK row : row = rows[f]
    OBVIOUS
  <2>2. row.status # None /\ RowReason(f, row, f \in named, profile, main, disk) = None
    BY <1>1, <1>2, <2>1, Zenon
  <2>3. /\ profile # None => f \in named /\ IsProfileEvidence(profile, f, row.proof_receipt)
        /\ row.proof_receipt # None /\ ReceiptMatchesProject(row.proof_receipt, main)
        /\ row.status = "verified" /\ Drift(row.proof_receipt, disk).changed = {}
        /\ f \in row.proof_receipt.functions /\ row.proof_receipt.prop = None
    BY <2>2, NoReason, Zenon
  <2>4. row.proof_receipt = r
    BY <2>1
  <2> QED
    BY ONLY <2>1, <2>3, <2>4, Zenon
<1>4. Drift(r, disk).unchecked = {}
  BY <1>1, <1>3, ReportFields
<1>5. Inline \notin DOMAIN r.files /\ \A p \in DOMAIN r.files : disk[p] = r.files[p]
  <2>1. \A p \in DOMAIN r.files : p # Inline
    BY <1>4 DEF Drift
  <2>2. Drift(r, disk).changed = {p \in DOMAIN r.files \ Drift(r, disk).unchecked :
                                    disk[p] # r.files[p]}
    BY DEF Drift
  <2> QED
    BY <1>3, <1>4, <2>1, <2>2
<1>6. Honest(r) /\ r.flaw = "none"
  BY <1>2, <1>3 DEF RowOK
<1>7. r.tool = "check" /\ r.verdict = "proved"
  BY <1>6 DEF Honest
<1>8. ASSUME ~r.over.disturbed
      PROVE  /\ \A file \in DOMAIN r.over.text : disk[file] = r.over.text[file]
             /\ main # None => r.over.load = main.load /\ DOMAIN r.over.text = main.files
             /\ profile # None => r.over.load = profile.load
  <2>1. r.files = r.over.text /\ r.load = r.over.load
    BY <1>5, <1>6, <1>8 DEF Honest
  <2>2. main # None => r.load = main.load /\ DOMAIN r.files = main.files
    BY <1>3, <1>5, PathsAreFiles DEF ReceiptMatchesProject
  <2>3. profile # None => r.load = profile.load
    BY <1>3 DEF IsProfileEvidence
  <2> QED
    BY <1>5, <2>1, <2>2, <2>3
<1> QED
  BY <1>3, <1>7, <1>8

-----------------------------------------------------------------------------
(* The answers *)

\* proof_coverage answers over what is there, and changes none of it.
LEMMA CoverageHolds ==
  ASSUME EvidenceInv, NEW byProfile \in BOOLEAN, ProofCoverage(byProfile)
  PROVE  CoverageIsHonest'
<1>1. PICK profile : profile = IF byProfile THEN session.profile ELSE None
  OBVIOUS
<1>2. PICK targets : targets = IF byProfile THEN profile.functions ELSE session.defined
  OBVIOUS
<1>3. PICK a : a = ProofCoverageReport(targets, session.defined, rows, named, profile, main, disk)
  OBVIOUS
<1>4. answer' = a /\ UNCHANGED <<disk, main, session, rows, named>>
  BY <1>1, <1>2, <1>3 DEF ProofCoverage
<1>5. IsFiniteSet(targets)
  <2>1. CASE byProfile
    <3>1. session.profile # None
      BY <2>1 DEF ProofCoverage
    <3> QED
      BY <1>1, <1>2, <2>1, <3>1 DEF EvidenceInv, SessionOK, IsCampaign
  <2>2. CASE ~byProfile
    <3>1. session.defined \in SUBSET Functions /\ IsFiniteSet(Functions)
      BY CampaignAssumption DEF EvidenceInv, SessionOK
    <3> QED
      BY <1>2, <2>2, <3>1, FS_Subset
  <2> QED
    BY <2>1, <2>2
<1>6. a.targets = targets /\ a.profile = profile
  BY <1>3, <1>5, ReportFields
<1>7. CompleteIsProved'
  <2>1. SUFFICES ASSUME a.complete, a.unchecked = {}, NEW f \in targets
                 PROVE  LET r == rows[f].proof_receipt
                        IN /\ r.tool = "check" /\ r.verdict = "proved" /\ f \in r.functions /\ r.prop = None
                           /\ profile # None => f \in named
                           /\ ~r.over.disturbed =>
                                /\ \A file \in DOMAIN r.over.text : disk[file] = r.over.text[file]
                                /\ main # None => r.over.load = main.load
                                                  /\ DOMAIN r.over.text = main.files
                                /\ profile # None => r.over.load = profile.load
    BY <1>4, <1>6, Zenon DEF CompleteIsProved, IsAnswer
  <2> QED
    BY <1>3, <1>5, <2>1, CompleteReport
<1>8. CoverageIsClosed'
  <2> DEFINE calls == [node |-> targets,
                       edge |-> {e \in targets \X targets :
                                   /\ e[1] \in session.defined /\ rows[e[1]] # None
                                   /\ e[2] \in rows[e[1]].callees}]
             covered == {f \in targets : a.reasons[f] = None}
  <2>1. SUFFICES ASSUME NEW f \in targets, NEW g \in targets, a.reasons[f] = None,
                        Reaches(calls, f, g)
                 PROVE  a.reasons[g] = None
    BY <1>4, <1>6, Zenon DEF CoverageIsClosed
  <2>2. calls.node = targets
        /\ \A e \in calls.edge : /\ e[1] \in targets /\ e[2] \in targets
                                 /\ e[1] \in session.defined /\ rows[e[1]] # None
                                 /\ e[2] \in rows[e[1]].callees
    OBVIOUS
  <2>3. IsClosed(calls, covered)
    <3>1. \A h \in targets : h \in session.defined /\ rows[h] # None /\ a.reasons[h] = None
            => \A k \in rows[h].callees \cap targets : a.reasons[k] = None
      BY <1>3, <1>5, ReportFields
    <3> QED
      BY <2>2, <3>1 DEF IsClosed
  <2>4. covered \in SUBSET calls.node /\ f \in covered
    BY <2>1, <2>2
  <2> QED
    BY <2>1, <2>3, <2>4 DEF Reaches
<1> QED
  BY <1>7, <1>8 DEF CoverageIsHonest

\* The report is read back from the state it was made from.
LEMMA CoverageStays ==
  ASSUME CoverageIsHonest, UNCHANGED <<disk, main, session, rows, named, answer>>
  PROVE  CoverageIsHonest'
<1>1. CompleteIsProved'
  BY DEF CoverageIsHonest, CompleteIsProved, IsAnswer
<1>2. CoverageIsClosed'
  BY DEF CoverageIsHonest, CoverageIsClosed, IsAnswer
<1> QED
  BY <1>1, <1>2 DEF CoverageIsHonest

\* What proof_coverage says of a function is so (proof_coverage_report): a
\* report that is complete, with no source unchecked, has for each of its
\* functions the receipt of a proved check of the text on disk under the load
\* that is there, and a function it counts as covered rests on covered
\* functions only.
THEOREM CoverageHonest == Spec => []CoverageIsHonest
<1>1. Init => CoverageIsHonest
  BY DEF Init, CoverageIsHonest, CompleteIsProved, CoverageIsClosed, IsAnswer
<1>2. EvidenceInv /\ CoverageIsHonest /\ [Next]_vars => CoverageIsHonest'
  <2> SUFFICES ASSUME EvidenceInv, CoverageIsHonest, [Next]_vars PROVE CoverageIsHonest'
    OBVIOUS
  <2>1. ASSUME answer' = None \/ answer'.kind # "coverage" PROVE CoverageIsHonest'
    BY <2>1 DEF CoverageIsHonest, CompleteIsProved, CoverageIsClosed, IsAnswer
  <2>2. ASSUME NEW byProfile \in BOOLEAN, ProofCoverage(byProfile) PROVE CoverageIsHonest'
    BY <2>2, CoverageHolds
  <2>3. ASSUME FetchCallgraph \/ FetchFails \/ UNCHANGED vars PROVE CoverageIsHonest'
    BY <2>3, CoverageStays DEF FetchCallgraph, FetchFails, vars
  <2>4. ASSUME NEW since, NEW f, Diff(since, f) PROVE CoverageIsHonest'
    <3>1. answer'.kind = "diff"
      BY <2>4 DEF Diff, ProofGoalDiff
    <3> QED
      BY <2>1, <3>1
  <2>5. ASSUME (\E lock, busy : StepBegin(lock, busy)) \/ StepEnd PROVE CoverageIsHonest'
    <3>1. answer' = None \/ answer'.kind = "step"
      BY <2>5 DEF StepBegin, StepEnd
    <3> QED
      BY <2>1, <3>1
  <2>6. ASSUME \/ \E f : Edit(f)
               \/ \E load, register : Reload(load, register)
               \/ LoseMain \/ CheckEnd
               \/ \E load, functions, byProfile, prop, verdict :
                    CheckBegin(load, functions, byProfile, prop, verdict)
               \/ \E functions, prop : RunWp(functions, prop)
               \/ \E f, status, r, byDigest, callees, forProfile :
                    StoreConclusion(f, status, r, byDigest, callees, forProfile)
               \/ CacheCallgraph \/ ComputeOrder \/ Snapshot
        PROVE  CoverageIsHonest'
    <3>1. ASSUME NEW f, NEW load, NEW register, NEW functions, NEW byProfile, NEW prop, NEW verdict,
                 \/ Edit(f) \/ Reload(load, register) \/ LoseMain \/ CheckEnd
                 \/ CheckBegin(load, functions, byProfile, prop, verdict) \/ RunWp(functions, prop)
          PROVE  answer' = None
      BY <3>1, Zenon DEF Edit, Reload, LoseMain, CheckEnd, CheckBegin, RunWp
    <3>2. ASSUME NEW f, NEW status, NEW r, NEW byDigest, NEW callees, NEW forProfile,
                 \/ StoreConclusion(f, status, r, byDigest, callees, forProfile)
                 \/ CacheCallgraph \/ ComputeOrder \/ Snapshot
          PROVE  answer' = None
      BY <3>2, Zenon DEF StoreConclusion, CacheCallgraph, ComputeOrder, Snapshot
    <3>3. answer' = None
      BY <2>6, <3>1, <3>2, Zenon
    <3> QED
      BY <2>1, <3>3
  <2> QED
    BY <2>2, <2>3, <2>4, <2>5, <2>6, Zenon DEF Next
<1>3. Spec => []EvidenceInv
  BY ReceiptsAreHonest
<1> QED
  BY <1>1, <1>2, <1>3, PTL DEF Spec

-----------------------------------------------------------------------------
(* The call graph *)

\* Where calls lead is closed under calls.
LEMMA ReachesLaws ==
  ASSUME NEW graph
  PROVE  /\ \A v : Reaches(graph, v, v)
         /\ \A u, v, w : Reaches(graph, u, v) /\ Reaches(graph, v, w) => Reaches(graph, u, w)
         /\ \A v, w : <<v, w>> \in graph.edge => Reaches(graph, v, w)
BY DEF Reaches, IsClosed

\* Of any functions, one reaches only those that reach it back.
LEMMA Bottom ==
  ASSUME NEW graph, IsFiniteSet(graph.node), NEW W \in SUBSET graph.node, W # {}
  PROVE  \E v \in W : \A w \in W : Reaches(graph, v, w) => Reaches(graph, w, v)
<1> DEFINE R(v) == {w \in graph.node : Reaches(graph, v, w)}
           sizes == {Cardinality(R(v)) : v \in W}
<1>1. \A v : IsFiniteSet(R(v)) /\ Cardinality(R(v)) \in Nat
  BY FS_Subset, FS_CardinalityType
<1>2. PICK n \in sizes : \A m \in sizes : n <= m
  <2>1. sizes \in SUBSET Nat /\ sizes # {}
    BY <1>1
  <2> QED
    BY <2>1, LeastOne
<1>3. PICK v \in W : n = Cardinality(R(v))
  OBVIOUS
<1>4. ASSUME NEW w \in W, Reaches(graph, v, w) PROVE Reaches(graph, w, v)
  <2>1. R(w) \in SUBSET R(v)
    BY <1>4, ReachesLaws
  <2>2. Cardinality(R(w)) <= Cardinality(R(v)) /\ (Cardinality(R(v)) = Cardinality(R(w)) => R(v) = R(w))
    BY <1>1, <2>1, FS_Subset
  <2>3. Cardinality(R(v)) <= Cardinality(R(w))
    BY <1>2, <1>3
  <2>4. R(v) = R(w)
    BY <1>1, <2>2, <2>3
  <2>5. v \in R(v)
    BY ReachesLaws
  <2> QED
    BY <2>4, <2>5
<1> QED
  BY <1>4

\* The groups: the classes of functions that reach each other.
LEMMA Grouped ==
  ASSUME NEW graph
  PROVE  /\ \A group \in Components(graph) : group # {} /\ group \subseteq graph.node
         /\ \A group \in Components(graph) : \A v \in group, w \in graph.node :
              w \in group <=> Reaches(graph, v, w) /\ Reaches(graph, w, v)
         /\ \A v \in graph.node : \E group \in Components(graph) : v \in group
         /\ \A g, h \in Components(graph) : \A v \in g \cap h : g = h
         /\ \A v \in graph.node : ComponentOf(graph, v) \in Components(graph)
                                  /\ v \in ComponentOf(graph, v)
<1>1. \A group \in Components(graph) : group # {} /\ group \subseteq graph.node
  BY ReachesLaws DEF Components
<1>2. \A group \in Components(graph) : \A v \in group, w \in graph.node :
        w \in group <=> Reaches(graph, v, w) /\ Reaches(graph, w, v)
  <2>1. SUFFICES ASSUME NEW u \in graph.node,
                        NEW v \in graph.node, Reaches(graph, u, v), Reaches(graph, v, u),
                        NEW w \in graph.node
                 PROVE  Reaches(graph, u, w) /\ Reaches(graph, w, u)
                          <=> Reaches(graph, v, w) /\ Reaches(graph, w, v)
    BY DEF Components
  <2> QED
    BY <2>1, ReachesLaws
<1>3. \A v \in graph.node : \E group \in Components(graph) : v \in group
  <2>1. SUFFICES ASSUME NEW v \in graph.node
                 PROVE  \E group \in Components(graph) : v \in group
    OBVIOUS
  <2>2. {w \in graph.node : Reaches(graph, v, w) /\ Reaches(graph, w, v)} \in Components(graph)
    BY DEF Components
  <2> QED
    BY <2>2, ReachesLaws
<1>4. ASSUME NEW g \in Components(graph), NEW h \in Components(graph), NEW v \in g \cap h
      PROVE  g = h
  <2>1. g \subseteq graph.node /\ h \subseteq graph.node
    BY <1>1
  <2>2. \A w \in graph.node : w \in g <=> w \in h
    BY <1>2
  <2> QED
    BY <2>1, <2>2
<1>5. \A v \in graph.node : ComponentOf(graph, v) \in Components(graph)
                            /\ v \in ComponentOf(graph, v)
  BY <1>3 DEF ComponentOf
<1> QED
  BY <1>1, <1>2, <1>3, <1>4, <1>5

\* Two functions of a group, or one that calls itself, are a cycle.
LEMMA OwnGroup ==
  ASSUME NEW graph, IsFiniteSet(graph.node), NEW v \in graph.node, NEW w \in graph.node,
         <<v, w>> \in graph.edge, Reaches(graph, w, v)
  PROVE  w \in ComponentOf(graph, v) /\ IsCycle(graph, ComponentOf(graph, v))
<1>1. PICK group : group = ComponentOf(graph, v)
  OBVIOUS
<1>2. group \in Components(graph) /\ v \in group /\ group \subseteq graph.node
  BY <1>1, Grouped
<1>3. Reaches(graph, v, w)
  BY ReachesLaws
<1>4. w \in group
  BY <1>2, <1>3, Grouped
<1>5. CASE v = w
  BY <1>1, <1>2, <1>4, <1>5 DEF IsCycle
<1>6. CASE v # w
  <2>1. IsFiniteSet(group) /\ {v, w} \in SUBSET group
    BY <1>2, <1>4, FS_Subset
  <2>2. Cardinality({v, w}) = 2
    <3>1. IsFiniteSet({v}) /\ Cardinality({v}) = 1 /\ {v, w} = {v} \cup {w} /\ w \notin {v}
      BY <1>6, FS_Singleton
    <3>2. Cardinality({v} \cup {w}) = 1 + 1
      BY <3>1, FS_AddElement
    <3> QED
      BY <3>1, <3>2
  <2>3. Cardinality({v, w}) <= Cardinality(group) /\ Cardinality(group) \in Nat
    BY <2>1, FS_Subset, FS_CardinalityType
  <2> QED
    BY <1>1, <1>4, <2>2, <2>3 DEF IsCycle
<1> QED
  BY <1>5, <1>6

\* A function that is ready calls done functions and its own group only.
LEMMA ReadyIsSupported ==
  ASSUME NEW vertices, NEW edges, NEW done, NEW busy, IsFiniteSet(vertices),
         NEW graph, graph = BuildGraph(vertices, edges),
         NEW f \in ComputeReadyFunctions(vertices, edges, done, busy)
  PROVE  /\ f \in vertices /\ f \notin done
         /\ \A g \in graph.node : CallsBelow(graph, f, g) => g \in done
<1>1. /\ f \in vertices \ (done \cup busy)
      /\ \A g \in Successors(graph, f) : g \in done \/ g \in ComponentOf(graph, f)
  BY DEF ComputeReadyFunctions
<1>2. graph.node = vertices
  BY DEF BuildGraph
<1>3. ASSUME NEW g \in graph.node, CallsBelow(graph, f, g) PROVE g \in done
  <2>1. g \in Successors(graph, f) /\ ~Reaches(graph, g, f)
    BY <1>3 DEF Successors, CallsBelow
  <2>2. ASSUME g \in ComponentOf(graph, f) PROVE FALSE
    <3>1. /\ ComponentOf(graph, f) \in Components(graph) /\ f \in ComponentOf(graph, f)
      BY <1>1, <1>2, Grouped
    <3>2. Reaches(graph, g, f)
      BY <1>1, <1>2, <2>2, <3>1, Grouped
    <3> QED
      BY <2>1, <3>2
  <2> QED
    BY <1>1, <2>1, <2>2
<1> QED
  BY <1>1, <1>3

\* With nothing ready and something left, what is in the way is being worked on.
LEMMA NothingReady ==
  ASSUME NEW vertices, NEW edges, NEW done, NEW busy, IsFiniteSet(vertices),
         NEW graph, graph = BuildGraph(vertices, edges),
         ComputeReadyFunctions(vertices, edges, done, busy) = {},
         ~(vertices \subseteq done)
  PROVE  \E f \in busy \cap graph.node :
           /\ f \notin done
           /\ \A g \in graph.node : CallsBelow(graph, f, g) => g \in done
<1>1. graph.node = vertices
  BY DEF BuildGraph
<1>2. PICK v \in vertices \ done :
        \A w \in vertices \ done : Reaches(graph, v, w) => Reaches(graph, w, v)
  <2>1. vertices \ done \in SUBSET graph.node /\ vertices \ done # {}
    BY <1>1
  <2> QED
    BY <1>1, <2>1, Bottom
<1>3. \A g \in graph.node : CallsBelow(graph, v, g) => g \in done
  BY <1>1, <1>2, ReachesLaws DEF CallsBelow
<1>4. v \in busy
  <2>1. SUFFICES ASSUME v \notin busy PROVE FALSE
    OBVIOUS
  <2> DEFINE exempt == IF IsCycle(graph, ComponentOf(graph, v)) THEN ComponentOf(graph, v) ELSE {}
  <2>2. ~(Successors(graph, v) \subseteq done \cup exempt)
    BY <1>2, <2>1 DEF ComputeReadyFunctions
  <2>3. PICK w \in Successors(graph, v) : w \notin done /\ w \notin exempt
    BY <2>2
  <2>4. w \in graph.node /\ <<v, w>> \in graph.edge
    BY <2>3 DEF Successors
  <2>5. Reaches(graph, w, v)
    BY <1>1, <1>2, <2>3, <2>4, ReachesLaws
  <2>6. w \in ComponentOf(graph, v) /\ IsCycle(graph, ComponentOf(graph, v))
    BY <1>1, <1>2, <2>4, <2>5, OwnGroup
  <2> QED
    BY <2>3, <2>6
<1> QED
  BY <1>1, <1>2, <1>3, <1>4

-----------------------------------------------------------------------------
(* The levels *)

AreRounds(condensed, round) ==
  /\ round[0] = [ready |-> {a \in condensed.node : OutDegree(condensed, a) = 0},
                 degree |-> [a \in condensed.node |-> OutDegree(condensed, a)]]
  /\ \A n \in Nat : round[n + 1] = Peel(condensed, round[n].ready, round[n].degree)
  /\ Rounds(condensed) = [n \in 0..Cardinality(condensed.node) |-> round[n].ready]

\* The rounds of compute_topological_order are what they are defined to be.
LEMMA RoundsAre ==
  ASSUME NEW condensed, IsFiniteSet(condensed.node)
  PROVE  \E round : AreRounds(condensed, round)
<1> DEFINE first == [ready |-> {a \in condensed.node : OutDegree(condensed, a) = 0},
                     degree |-> [a \in condensed.node |-> OutDegree(condensed, a)]]
           S == [ready : SUBSET condensed.node, degree : [condensed.node -> Int]]
           F == [n \in Nat |-> [s \in S |-> Peel(condensed, s.ready, s.degree)]]
<1>1. \A T \in SUBSET condensed.node : Cardinality(T) \in Int
  BY FS_Subset, FS_CardinalityType
<1>2. first \in S
  BY <1>1 DEF OutDegree, Successors
<1>3. ASSUME NEW s \in S PROVE Peel(condensed, s.ready, s.degree) \in S
  <2>1. \A a \in condensed.node :
          s.degree[a] - Cardinality(Successors(condensed, a) \cap s.ready) \in Int
    <3>1. \A a : Successors(condensed, a) \cap s.ready \in SUBSET condensed.node
      BY DEF Successors
    <3>2. s.degree \in [condensed.node -> Int]
      OBVIOUS
    <3>3. \A a : Cardinality(Successors(condensed, a) \cap s.ready) \in Int
      BY <1>1, <3>1
    <3> QED
      BY <3>2, <3>3
  <2> QED
    BY <2>1 DEF Peel
<1>4. PICK g : Recurs(g, S, first, F)
  <2>1. F \in [Nat -> [S -> S]]
    BY <1>3
  <2> HIDE DEF S, F, first
  <2> QED
    BY <1>2, <2>1, Recursion
<1>5. /\ g[0] = first /\ g = [n \in Nat |-> g[n]]
      /\ \A n \in Nat : g[n + 1] = Peel(condensed, g[n].ready, g[n].degree)
  BY <1>4 DEF Recurs
<1> DEFINE Step(round) ==
      [n \in Nat |-> IF n = 0 THEN first
                     ELSE Peel(condensed, round[n - 1].ready, round[n - 1].degree)]
<1>6. g = Step(g)
  <2>1. ASSUME NEW n \in Nat PROVE g[n] = Step(g)[n]
    <3>1. CASE n = 0
      BY <1>5, <3>1
    <3>2. CASE n # 0
      <4>1. n - 1 \in Nat /\ (n - 1) + 1 = n
        BY <3>2
      <4>2. g[n] = Peel(condensed, g[n - 1].ready, g[n - 1].degree)
        BY <1>5, <4>1
      <4> HIDE DEF first
      <4> QED
        BY <3>2, <4>2
    <3> QED
      BY <3>1, <3>2
  <2> QED
    BY <1>5, <2>1
<1> DEFINE round == CHOOSE round : round = Step(round)
<1>7. round = Step(round)
  BY <1>6
<1>8. Rounds(condensed) = [n \in 0..Cardinality(condensed.node) |-> round[n].ready]
  BY DEF Rounds
<1> HIDE DEF round, first
<1>9. round[0] = first
  BY <1>7
<1>10. ASSUME NEW n \in Nat
       PROVE  round[n + 1] = Peel(condensed, round[n].ready, round[n].degree)
  <2>1. n + 1 # 0 /\ n + 1 \in Nat /\ (n + 1) - 1 = n
    OBVIOUS
  <2> QED
    BY <1>7, <2>1
<1> QED
  BY <1>8, <1>9, <1>10 DEF first, AreRounds

\* The groups that were ready before round n.
Before(condensed, round, n) == {a \in condensed.node : \E k \in 0..(n - 1) : a \in round[k].ready}

IsPeeled(condensed, round, n) ==
  /\ round[n].ready \subseteq condensed.node
  /\ round[n].ready \cap Before(condensed, round, n) = {}
  /\ round[n].degree =
       [a \in condensed.node |->
          Cardinality(Successors(condensed, a) \ Before(condensed, round, n))]
  /\ \A a \in condensed.node :
       a \in Before(condensed, round, n + 1)
         <=> Successors(condensed, a) \subseteq Before(condensed, round, n)

\* The counts are of the callees that are left, and a group is ready in the
\* round after the last of its callees.
LEMMA Peeled ==
  ASSUME NEW condensed, IsFiniteSet(condensed.node), NEW round,
         round[0] = [ready |-> {a \in condensed.node : OutDegree(condensed, a) = 0},
                     degree |-> [a \in condensed.node |-> OutDegree(condensed, a)]],
         \A n \in Nat : round[n + 1] = Peel(condensed, round[n].ready, round[n].degree)
  PROVE  \A n \in Nat : IsPeeled(condensed, round, n)
<1> DEFINE B(n) == Before(condensed, round, n)
           Succ(a) == Successors(condensed, a)
           P == {n \in Nat : IsPeeled(condensed, round, n)}
<1>1. \A a : Succ(a) \in SUBSET condensed.node
  BY DEF Successors
<1>2. \A T \in SUBSET condensed.node :
        IsFiniteSet(T) /\ Cardinality(T) \in Nat /\ (Cardinality(T) = 0 <=> T = {})
  BY FS_Subset, FS_CardinalityType, FS_EmptySet
<1>3. B(0) = {}
  BY DEF Before
<1>4. ASSUME NEW n \in Nat, round[n].ready \subseteq condensed.node
      PROVE  B(n + 1) = B(n) \cup round[n].ready
  <2>1. \A k : k \in 0..((n + 1) - 1) <=> k \in 0..(n - 1) \/ k = n
    OBVIOUS
  <2> QED
    BY <1>4, <2>1 DEF Before
<1>5. \A n \in Nat : B(n) \in SUBSET condensed.node
  BY DEF Before
<1> HIDE DEF B, Succ
<1>6. IsPeeled(condensed, round, 0)
  <2>1. round[0].ready = {a \in condensed.node : Succ(a) = {}}
    BY <1>1, <1>2 DEF OutDegree, Succ
  <2>2. round[0].degree = [a \in condensed.node |-> Cardinality(Succ(a) \ B(0))]
    <3>1. \A a : Succ(a) \ B(0) = Succ(a)
      BY <1>3
    <3>2. round[0].degree = [a \in condensed.node |-> Cardinality(Succ(a))]
      BY DEF OutDegree, Succ
    <3> QED
      BY <3>1, <3>2
  <2>3. B(0 + 1) = B(0) \cup round[0].ready
    BY <1>4, <2>1
  <2>4. \A a \in condensed.node : a \in B(0 + 1) <=> Succ(a) \subseteq B(0)
    BY <1>3, <2>1, <2>3
  <2> QED
    BY <1>3, <2>1, <2>2, <2>4 DEF IsPeeled, B, Succ
<1>7. ASSUME NEW n \in Nat, IsPeeled(condensed, round, n)
      PROVE  IsPeeled(condensed, round, n + 1)
  <2> DEFINE R == round[n].ready
             owing(a) == round[n].degree[a] - Cardinality(Succ(a) \cap R)
  <2>1. /\ R \subseteq condensed.node /\ R \cap B(n) = {}
        /\ \A a \in condensed.node : round[n].degree[a] = Cardinality(Succ(a) \ B(n))
        /\ \A a \in condensed.node : a \in B(n + 1) <=> Succ(a) \subseteq B(n)
    BY <1>7 DEF IsPeeled, B, Succ
  <2>2. B(n + 1) = B(n) \cup R
    BY <1>4, <2>1
  <2>3. ASSUME NEW a \in condensed.node PROVE owing(a) = Cardinality(Succ(a) \ B(n + 1))
    <3>1. PICK T : T = Succ(a) \ B(n)
      OBVIOUS
    <3>2. IsFiniteSet(T) /\ T \cap R = Succ(a) \cap R /\ T \ R = Succ(a) \ B(n + 1)
      BY <1>1, <1>2, <2>1, <2>2, <3>1
    <3>3. Cardinality(T \ R) = Cardinality(T) - Cardinality(T \cap R)
      BY <3>2, FS_Difference
    <3> QED
      BY <2>1, <3>1, <3>2, <3>3
  <2>4. round[n + 1] =
          [ready |-> {a \in condensed.node : Succ(a) \cap R # {} /\ owing(a) = 0},
           degree |-> [a \in condensed.node |-> owing(a)]]
    BY DEF Peel, Succ
  <2>5. round[n + 1].degree = [a \in condensed.node |-> Cardinality(Succ(a) \ B(n + 1))]
    <3>1. round[n + 1].degree = [a \in condensed.node |-> owing(a)]
      BY <2>4
    <3> HIDE DEF owing
    <3> QED
      BY <2>3, <3>1
  <2>6. round[n + 1].ready =
          {a \in condensed.node : Succ(a) \cap R # {} /\ Succ(a) \subseteq B(n + 1)}
    <3>1. \A a \in condensed.node : owing(a) = 0 <=> Succ(a) \subseteq B(n + 1)
      <4> HIDE DEF owing
      <4>1. \A a : Succ(a) \ B(n + 1) \in SUBSET condensed.node
        BY <1>1
      <4>2. \A a \in condensed.node : owing(a) = 0 <=> Succ(a) \ B(n + 1) = {}
        BY <1>2, <2>3, <4>1
      <4> QED
        BY <4>2
    <3>2. round[n + 1].ready = {a \in condensed.node : Succ(a) \cap R # {} /\ owing(a) = 0}
      BY <2>4
    <3> HIDE DEF owing
    <3> QED
      BY <3>1, <3>2
  <2>7. n + 1 \in Nat
    OBVIOUS
  <2>8. B((n + 1) + 1) = B(n + 1) \cup round[n + 1].ready
    BY <1>4, <2>6, <2>7
  <2>9. round[n + 1].ready \cap B(n + 1) = {}
    BY <2>1, <2>6
  <2>10. \A a \in condensed.node : a \in B((n + 1) + 1) <=> Succ(a) \subseteq B(n + 1)
    BY <2>1, <2>2, <2>6, <2>8
  <2> QED
    BY <2>5, <2>6, <2>9, <2>10 DEF IsPeeled, B, Succ
<1>8. P = Nat
  <2>1. 0 \in P
    BY <1>6
  <2>2. \A n \in P : n + 1 \in P
    BY <1>7
  <2>3. P \in SUBSET Nat
    OBVIOUS
  <2> HIDE DEF P
  <2> QED
    BY <2>1, <2>2, <2>3, Induction
<1> QED
  BY <1>8

\* Calls between groups do not go in circles.
LEMMA CondensedBottom ==
  ASSUME NEW graph, IsFiniteSet(graph.node), NEW condensed, condensed = Condensation(graph),
         NEW U \in SUBSET condensed.node, U # {}
  PROVE  \E a \in U : Successors(condensed, a) \cap U = {}
<1>1. /\ condensed.node = Components(graph)
      /\ \A a, b : <<a, b>> \in condensed.edge =>
           a # b /\ \E v \in a, w \in b : <<v, w>> \in graph.edge
  BY DEF Condensation
<1>2. PICK v \in UNION U : \A w \in UNION U : Reaches(graph, v, w) => Reaches(graph, w, v)
  <2>1. UNION U \in SUBSET graph.node /\ UNION U # {}
    BY <1>1, Grouped
  <2> QED
    BY <2>1, Bottom
<1>3. PICK a \in U : v \in a
  BY <1>2
<1>4. ASSUME NEW b \in Successors(condensed, a) \cap U PROVE FALSE
  <2>1. <<a, b>> \in condensed.edge /\ a \in Components(graph) /\ b \in Components(graph)
    BY <1>1 DEF Successors
  <2>2. PICK x \in a, y \in b : a # b /\ <<x, y>> \in graph.edge
    BY <1>1, <2>1
  <2>3. x \in graph.node /\ y \in graph.node /\ y \in UNION U
    BY <2>1, Grouped
  <2>4. Reaches(graph, v, x) /\ Reaches(graph, x, y)
    BY <1>3, <2>1, <2>2, <2>3, Grouped, ReachesLaws
  <2>5. Reaches(graph, v, y)
    BY <2>4, ReachesLaws
  <2>6. Reaches(graph, y, v)
    BY <1>2, <2>3, <2>5
  <2>7. y \in a
    BY <1>3, <2>1, <2>3, <2>5, <2>6, Grouped
  <2> QED
    BY <2>1, <2>2, <2>7, Grouped
<1> QED
  BY <1>3, <1>4

\* As many rounds as there are groups reach every group.
LEMMA AllPeeled ==
  ASSUME NEW graph, IsFiniteSet(graph.node), NEW condensed, condensed = Condensation(graph),
         NEW round, \A n \in Nat : IsPeeled(condensed, round, n)
  PROVE  /\ IsFiniteSet(condensed.node) /\ Cardinality(condensed.node) \in Nat
         /\ Before(condensed, round, Cardinality(condensed.node)) = condensed.node
<1> DEFINE B(n) == Before(condensed, round, n)
           node == condensed.node
           P == {n \in Nat : B(n) = node \/ Cardinality(B(n)) >= n}
<1>1. IsFiniteSet(node)
  <2>1. node \in SUBSET (SUBSET graph.node)
    BY Grouped DEF Condensation
  <2> QED
    BY <2>1, FS_SUBSET, FS_Subset
<1>2. \A n \in Nat : /\ B(n) \in SUBSET node /\ IsFiniteSet(B(n)) /\ Cardinality(B(n)) \in Nat
                     /\ B(n) \subseteq B(n + 1)
                     /\ \A a \in node : a \in B(n + 1) <=> Successors(condensed, a) \subseteq B(n)
  <2>1. \A n \in Nat : B(n) \in SUBSET node
    BY DEF Before
  <2>2. \A n \in Nat : B(n) \subseteq B(n + 1)
    BY DEF Before
  <2>3. \A n \in Nat : \A a \in node : a \in B(n + 1) <=> Successors(condensed, a) \subseteq B(n)
    BY DEF IsPeeled
  <2> HIDE DEF B
  <2> QED
    BY <1>1, <2>1, <2>2, <2>3, FS_Subset, FS_CardinalityType
<1> HIDE DEF B
<1>3. 0 \in P
  BY <1>2
<1>4. ASSUME NEW n \in P PROVE n + 1 \in P
  <2>0. n \in Nat /\ n + 1 \in Nat
    OBVIOUS
  <2>1. CASE B(n) = node
    <3>1. B(n + 1) \in SUBSET node /\ B(n) \subseteq B(n + 1)
      BY <1>2, <2>0
    <3>2. B(n + 1) = node
      BY <2>1, <3>1
    <3> QED
      BY <2>0, <3>2
  <2>2. CASE B(n) # node
    <3> DEFINE U == node \ B(n)
    <3>1. U \in SUBSET condensed.node /\ U # {}
      BY <1>2, <2>0, <2>2
    <3>2. PICK a \in U : Successors(condensed, a) \cap U = {}
      <4> HIDE DEF U
      <4> QED
        BY <3>1, CondensedBottom
    <3>3. Successors(condensed, a) \subseteq B(n)
      BY <3>2 DEF Successors
    <3>4. a \in B(n + 1) /\ a \notin B(n) /\ B(n) \cup {a} \in SUBSET B(n + 1)
      BY <1>2, <2>0, <3>2, <3>3
    <3>5. Cardinality(B(n) \cup {a}) = Cardinality(B(n)) + 1
      BY <1>2, <2>0, <3>4, FS_AddElement
    <3>6. Cardinality(B(n) \cup {a}) <= Cardinality(B(n + 1))
      BY <1>2, <2>0, <3>4, FS_Subset
    <3>7. Cardinality(B(n)) >= n /\ Cardinality(B(n)) \in Nat /\ Cardinality(B(n + 1)) \in Nat
      BY <1>2, <2>0, <2>2
    <3> QED
      BY <2>0, <3>5, <3>6, <3>7
  <2> QED
    BY <2>1, <2>2
<1>5. P = Nat
  <2>1. P \in SUBSET Nat
    OBVIOUS
  <2> HIDE DEF P
  <2> QED
    BY <1>3, <1>4, <2>1, Induction
<1>6. Cardinality(node) \in Nat
  BY <1>1, FS_CardinalityType
<1>7. B(Cardinality(node)) = node
  <2>1. PICK N : N = Cardinality(node)
    OBVIOUS
  <2>2. N \in P /\ N \in Nat
    BY <1>5, <1>6, <2>1
  <2>3. B(N) = node \/ Cardinality(B(N)) >= N
    BY <2>2
  <2>4. Cardinality(B(N)) <= Cardinality(node)
        /\ (Cardinality(node) = Cardinality(B(N)) => node = B(N))
    BY <1>1, <1>2, <2>2, FS_Subset
  <2>5. Cardinality(B(N)) \in Nat
    BY <1>2, <2>2
  <2> QED
    BY <1>6, <2>1, <2>3, <2>4, <2>5
<1> QED
  BY <1>1, <1>6, <1>7 DEF B

\* The round a group is ready in is its level: above the groups it calls, and
\* one above one of them.
LEMMA RoundIsLevel ==
  ASSUME NEW graph, IsFiniteSet(graph.node), NEW condensed, condensed = Condensation(graph)
  PROVE  \E lev \in [condensed.node -> Nat] :
           \A a \in condensed.node :
             /\ {n \in DOMAIN Rounds(condensed) : a \in Rounds(condensed)[n]} = {lev[a]}
             /\ \A b \in Successors(condensed, a) : lev[b] < lev[a]
             /\ lev[a] # 0 => \E b \in Successors(condensed, a) : lev[b] = lev[a] - 1
<1> DEFINE node == condensed.node
           N == Cardinality(node)
           Succ(a) == Successors(condensed, a)
<1>1. IsFiniteSet(node)
  <2>1. node \in SUBSET (SUBSET graph.node)
    BY Grouped DEF Condensation
  <2> QED
    BY <2>1, FS_SUBSET, FS_Subset
<1>2. PICK round : AreRounds(condensed, round)
  BY <1>1, RoundsAre
<1>2a. Rounds(condensed) = [n \in 0..N |-> round[n].ready]
  BY <1>2 DEF AreRounds
<1>3. \A n \in Nat : IsPeeled(condensed, round, n)
  BY <1>1, <1>2, Peeled DEF AreRounds
<1> DEFINE B(n) == Before(condensed, round, n)
<1>4. N \in Nat /\ B(N) = node
  BY <1>3, AllPeeled
<1>5. \A n \in Nat, a \in node :
        /\ a \in round[n].ready => a \notin B(n)
        /\ a \in B(n + 1) <=> Succ(a) \subseteq B(n)
        /\ a \in B(n) <=> \E k \in 0..(n - 1) : a \in round[k].ready
  BY <1>3 DEF IsPeeled, Before
<1>6. \A a \in node : \E n \in 0..(N - 1) : a \in round[n].ready
  BY <1>4, <1>5
<1>7. ASSUME NEW a \in node, NEW m \in Nat, NEW n \in Nat, a \in round[m].ready, a \in round[n].ready
      PROVE  m = n
  <2>1. ASSUME NEW i \in Nat, NEW j \in Nat, i < j, a \in round[i].ready, a \in round[j].ready
        PROVE  FALSE
    <3>1. i \in 0..(j - 1)
      BY <2>1
    <3> QED
      BY <1>5, <2>1, <3>1
  <2>2. ~(m < n) /\ ~(n < m)
    BY <1>7, <2>1
  <2> QED
    BY <2>2
<1> DEFINE lev == [a \in node |-> CHOOSE n \in 0..(N - 1) : a \in round[n].ready]
<1>8. \A a \in node : lev[a] \in 0..(N - 1) /\ a \in round[lev[a]].ready
  BY <1>6
<1> HIDE DEF B, Succ, N, node
<1>9. lev \in [node -> Nat]
  <2>1. \A a \in node : lev[a] \in Nat
    BY <1>4, <1>8
  <2> QED
    BY <2>1
<1> HIDE DEF lev
<1>10. ASSUME NEW a \in node
       PROVE  /\ {n \in DOMAIN Rounds(condensed) : a \in Rounds(condensed)[n]} = {lev[a]}
              /\ \A b \in Succ(a) : lev[b] < lev[a]
              /\ lev[a] # 0 => \E b \in Succ(a) : lev[b] = lev[a] - 1
  <2>1. PICK n \in Nat : n = lev[a] /\ n \in 0..(N - 1) /\ a \in round[n].ready
    BY <1>8, <1>9
  <2>2. {m \in DOMAIN Rounds(condensed) : a \in Rounds(condensed)[m]} = {n}
    <3>1. \A m \in 0..N : Rounds(condensed)[m] = round[m].ready
      BY <1>2a
    <3>2. DOMAIN Rounds(condensed) = 0..N /\ 0..N \subseteq Nat /\ n \in 0..N
      BY <1>2a, <1>4, <2>1
    <3> QED
      BY <1>7, <2>1, <3>1, <3>2
  <2>3. Succ(a) \subseteq node
    BY DEF Succ, Successors, node
  <2>4. n \in 0..((n + 1) - 1) /\ n + 1 \in Nat
    BY <2>1
  <2>5. Succ(a) \subseteq B(n) /\ a \notin B(n)
    BY <1>5, <2>1, <2>4
  <2>6. ASSUME NEW b \in Succ(a) PROVE lev[b] < n
    <3>1. PICK k \in 0..(n - 1) : b \in round[k].ready
      BY <1>5, <2>1, <2>3, <2>5
    <3>2. lev[b] = k
      BY <1>7, <1>8, <1>9, <2>1, <2>3, <3>1
    <3> QED
      BY <3>2
  <2>7. ASSUME n # 0 PROVE \E b \in Succ(a) : lev[b] = n - 1
    <3>1. n - 1 \in Nat /\ (n - 1) + 1 = n
      BY <2>1, <2>7
    <3>2. ~(Succ(a) \subseteq B(n - 1))
      BY <1>5, <2>5, <3>1
    <3>3. PICK b \in Succ(a) : b \notin B(n - 1)
      BY <3>2
    <3>4. lev[b] \in Nat /\ b \in round[lev[b]].ready /\ lev[b] < n
      BY <1>8, <1>9, <2>3, <2>6
    <3>5. ~(lev[b] \in 0..((n - 1) - 1))
      BY <1>5, <2>3, <3>1, <3>3, <3>4
    <3> QED
      BY <2>1, <3>1, <3>4, <3>5
  <2> QED
    BY <2>1, <2>2, <2>6, <2>7
<1> QED
  BY <1>9, <1>10 DEF Succ, node

LevelIn(levels, v) == (CHOOSE g \in levels : v \in g.members).level

CalledBy(graph, members) == {w \in graph.node \ members : \E v \in members : <<v, w>> \in graph.edge}

\* The order is bottom up and exact.
LEMMA LevelsAreExact ==
  ASSUME NEW vertices, NEW edges, IsFiniteSet(vertices),
         NEW graph, graph = BuildGraph(vertices, edges),
         NEW levels, levels = ComputeTopologicalOrder(vertices, edges),
         NEW group \in levels
  PROVE  /\ group.members \in Components(graph)
         /\ group.level =
              IF CalledBy(graph, group.members) = {} THEN 0
              ELSE 1 + Max({LevelIn(levels, w) : w \in CalledBy(graph, group.members)})
<1>1. graph.node = vertices
  BY DEF BuildGraph
<1>2. PICK condensed : condensed = Condensation(graph)
  OBVIOUS
<1>3. condensed.node = Components(graph)
      /\ \A a, b \in Components(graph) :
           b \in Successors(condensed, a) <=> a # b /\ \E v \in a, w \in b : <<v, w>> \in graph.edge
  BY <1>2 DEF Condensation, Successors
<1>4. PICK lev \in [condensed.node -> Nat] :
        \A a \in condensed.node :
          /\ {n \in DOMAIN Rounds(condensed) : a \in Rounds(condensed)[n]} = {lev[a]}
          /\ \A b \in Successors(condensed, a) : lev[b] < lev[a]
          /\ lev[a] # 0 => \E b \in Successors(condensed, a) : lev[b] = lev[a] - 1
  BY <1>1, <1>2, RoundIsLevel
<1>5. \A n \in Nat : {n} # {} /\ Max({n}) = n
  BY DEF Max
<1>6. levels = {[members |-> a, level |-> lev[a], is_cycle |-> IsCycle(graph, a)] :
                  a \in Components(graph)}
  <2> DEFINE reached(a) == {n \in DOMAIN Rounds(condensed) : a \in Rounds(condensed)[n]}
  <2>1. levels = {[members |-> a,
                   level |-> IF reached(a) = {} THEN 0 ELSE Max(reached(a)),
                   is_cycle |-> IsCycle(graph, a)] : a \in Components(graph)}
    BY <1>2, Zenon DEF ComputeTopologicalOrder
  <2>2. \A a \in Components(graph) : (IF reached(a) = {} THEN 0 ELSE Max(reached(a))) = lev[a]
    BY <1>3, <1>4, <1>5
  <2> HIDE DEF reached
  <2> QED
    BY <2>1, <2>2, Zenon
<1>7. PICK a \in Components(graph) : group.members = a /\ group.level = lev[a]
  BY <1>6
<1>8. ASSUME NEW b \in Components(graph), NEW w \in b PROVE LevelIn(levels, w) = lev[b]
  <2>1. \E g \in levels : w \in g.members
    <3>1. PICK g : g = [members |-> b, level |-> lev[b], is_cycle |-> IsCycle(graph, b)]
      OBVIOUS
    <3>2. g \in levels /\ g.members = b
      BY <1>6, <3>1
    <3> QED
      BY <3>2
  <2>2. PICK g : g = CHOOSE h \in levels : w \in h.members
    OBVIOUS
  <2>3. g \in levels /\ w \in g.members
    BY <2>1, <2>2
  <2>4. PICK h \in Components(graph) : g.members = h /\ g.level = lev[h]
    BY <1>6, <2>3
  <2>5. h = b
    BY <2>3, <2>4, Grouped
  <2> QED
    BY <2>2, <2>4, <2>5 DEF LevelIn
<1> DEFINE called == CalledBy(graph, a)
           above == {LevelIn(levels, w) : w \in called}
<1>9. ASSUME NEW w \in called PROVE LevelIn(levels, w) \in Nat /\ LevelIn(levels, w) < lev[a]
  <2>1. PICK v \in a : w \in graph.node /\ w \notin a /\ <<v, w>> \in graph.edge
    BY DEF CalledBy
  <2>2. PICK b \in Components(graph) : w \in b
    BY <2>1, Grouped
  <2>3. b \in Successors(condensed, a)
    BY <1>3, <2>1, <2>2
  <2> QED
    BY <1>3, <1>4, <1>8, <2>2, <2>3
<1>10. ASSUME lev[a] # 0 PROVE \E w \in called : LevelIn(levels, w) = lev[a] - 1
  <2>1. PICK b \in Successors(condensed, a) : lev[b] = lev[a] - 1
    BY <1>3, <1>4, <1>10
  <2>2. b \in Components(graph)
    BY <1>3 DEF Successors
  <2>3. PICK v \in a, w \in b : a # b /\ <<v, w>> \in graph.edge
    BY <1>3, <2>1, <2>2
  <2>4. w \in graph.node /\ w \notin a
    BY <2>2, <2>3, Grouped
  <2>5. w \in called
    BY <2>3, <2>4 DEF CalledBy
  <2> QED
    BY <1>8, <2>1, <2>2, <2>5
<1>11. lev[a] \in Nat
  BY <1>3, <1>4
<1> HIDE DEF called
<1>12. CASE lev[a] = 0
  <2>1. called = {}
    BY <1>9, <1>12
  <2> QED
    BY <1>7, <1>12, <2>1 DEF called
<1>13. CASE lev[a] # 0
  <2>1. lev[a] - 1 \in above /\ called # {}
    BY <1>10, <1>13
  <2>2. above \subseteq Nat /\ \A n \in above : lev[a] - 1 >= n
    BY <1>9, <1>11, <1>13
  <2> HIDE DEF above
  <2>3. Max(above) = lev[a] - 1
    <3>1. PICK m : m = Max(above)
      OBVIOUS
    <3>2. m \in above /\ \A n \in above : m >= n
      BY <2>1, <2>2, <3>1 DEF Max
    <3> QED
      BY <1>11, <2>1, <2>2, <3>1, <3>2
  <2> QED
    BY <1>7, <1>11, <2>1, <2>3 DEF called, above
<1> QED
  BY <1>7, <1>12, <1>13

-----------------------------------------------------------------------------
(* The schedule *)

\* Every call graph that is kept is of the functions.
GraphsOK ==
  /\ session.cache.vertices \subseteq Functions
  /\ step # None => /\ "fetched" \in DOMAIN step
                    /\ step.fetched # None => step.fetched.vertices \subseteq Functions

\* Every step keeps the graphs and the order.
LEMMA GraphsKeep ==
  ASSUME EvidenceInv, GraphsOK, [Next]_vars
  PROVE  GraphsOK'
<1>1. NoGraph.vertices \subseteq Functions
  BY DEF NoGraph
<1>2. session = [x \in SessionFields |-> session[x]]
  BY DEF EvidenceInv, SessionOK
<1>3. ASSUME UNCHANGED step, session'.cache \in {NoGraph, session.cache} PROVE GraphsOK'
  BY <1>1, <1>3 DEF GraphsOK
<1>4. ASSUME NEW load, NEW register, Reload(load, register) PROVE GraphsOK'
  <2>1. PICK s, graph : s = [session EXCEPT !.profile = s.profile] /\ session' = AfterLoad(s, graph)
    <3>1. PICK s : s = [session EXCEPT !.profile = IF register = None THEN @ ELSE register]
      OBVIOUS
    <3>2. s = [session EXCEPT !.profile = s.profile]
      BY <1>2, <3>1 DEF SessionFields
    <3>3. session' = AfterLoad(s, GraphOf(Text(load.files)))
      BY <1>4, <3>1 DEF Reload
    <3> QED
      BY <3>2, <3>3
  <2>2. "cache" \in DOMAIN s
    BY <1>2, <2>1 DEF SessionFields
  <2>3. session'.cache = NoGraph
    BY <2>1, <2>2 DEF AfterLoad
  <2> QED
    BY <1>3, <1>4, <2>3 DEF Reload
<1>5. ASSUME NEW load, NEW functions, NEW byProfile, NEW prop, NEW verdict,
             CheckBegin(load, functions, byProfile, prop, verdict)
      PROVE  GraphsOK'
  <2>1. PICK s, graph, ring : /\ s = AfterLoad(session, graph)
                              /\ session' = s \/ session' = [s EXCEPT !.ring = ring]
    BY <1>5 DEF CheckBegin
  <2>2. s.cache = NoGraph /\ "cache" \in DOMAIN s
    BY <1>2, <2>1 DEF AfterLoad, SessionFields
  <2>3. session'.cache = NoGraph
    BY <2>1, <2>2
  <2> QED
    BY <1>3, <1>5, <2>3 DEF CheckBegin
<1>6. ASSUME CheckEnd \/ \E functions, prop : RunWp(functions, prop) PROVE GraphsOK'
  <2>1. PICK ring : session' = [session EXCEPT !.ring = ring] /\ UNCHANGED step
    BY <1>6 DEF CheckEnd, RunWp
  <2>2. session'.cache = session.cache
    BY <1>2, <2>1 DEF SessionFields
  <2> QED
    BY <1>3, <2>1, <2>2
<1>7. ASSUME NEW lock, NEW busy, StepBegin(lock, busy) PROVE GraphsOK'
  <2>1. PICK next \in {"order", "snapshot"} :
          /\ step' = None \/ step' = [pc |-> next, lock |-> lock, busy |-> busy, fetched |-> None]
          /\ UNCHANGED session
    BY <1>7, Zenon DEF StepBegin
  <2> QED
    BY <2>1 DEF GraphsOK
<1>8. ASSUME FetchCallgraph PROVE GraphsOK'
  <2>1. main.graph.vertices \subseteq Functions
    <3>1. main \in Project(case)
      BY <1>8 DEF EvidenceInv, FetchCallgraph
    <3>2. main.graph \in ToSet(case.graphs)
      BY <3>1 DEF Project
    <3> QED
      BY <3>2 DEF EvidenceInv, IsCampaign
  <2>2. PICK fetched : /\ fetched = [vertices |-> main.graph.vertices, edges |-> main.graph.edges]
                       /\ step' = [step EXCEPT !.fetched = fetched]
    BY <1>8 DEF FetchCallgraph
  <2>3. fetched.vertices \subseteq Functions
    BY <2>1, <2>2
  <2>4. "fetched" \in DOMAIN step /\ UNCHANGED session
    BY <1>8 DEF FetchCallgraph, GraphsOK
  <2>5. "fetched" \in DOMAIN step' /\ step'.fetched = fetched
    BY <2>2, <2>4
  <2> QED
    BY <2>3, <2>4, <2>5 DEF GraphsOK
<1>9. ASSUME CacheCallgraph PROVE GraphsOK'
  <2>1. session'.cache = step.fetched
    BY <1>2, <1>9 DEF CacheCallgraph, SessionFields
  <2>2. step.fetched.vertices \subseteq Functions /\ "fetched" \in DOMAIN step
    BY <1>9 DEF CacheCallgraph, GraphsOK
  <2>3. "fetched" \in DOMAIN step' /\ step'.fetched = None
    BY <1>9, <2>2 DEF CacheCallgraph
  <2> QED
    BY <2>1, <2>2, <2>3 DEF GraphsOK
<1>10. ASSUME ComputeOrder PROVE GraphsOK'
  <2>1. PICK order : session' = [session EXCEPT !.order = order]
    BY <1>10 DEF ComputeOrder
  <2>2. session'.cache = session.cache
    BY <1>2, <2>1 DEF SessionFields
  <2>3. "fetched" \in DOMAIN step /\ step.fetched = None
    BY <1>10 DEF ComputeOrder, GraphsOK
  <2>4. "fetched" \in DOMAIN step' /\ step'.fetched = None
    BY <1>10, <2>3 DEF ComputeOrder
  <2> QED
    BY <2>2, <2>4 DEF GraphsOK
<1>11. ASSUME Snapshot PROVE GraphsOK'
  <2>1. PICK lock, busy, defined, done, in_progress, blocked :
          step' = [pc |-> "ready", lock |-> lock, busy |-> busy, fetched |-> None,
                   defined |-> defined, done |-> done, in_progress |-> in_progress,
                   blocked |-> blocked]
    BY <1>11 DEF Snapshot
  <2>2. UNCHANGED session
    BY <1>11 DEF Snapshot
  <2> QED
    BY <2>1, <2>2 DEF GraphsOK
<1>12. ASSUME FetchFails \/ StepEnd PROVE GraphsOK'
  BY <1>12 DEF FetchFails, StepEnd, GraphsOK
<1>13. ASSUME \/ \E f : Edit(f)
              \/ LoseMain
              \/ \E since, f : Diff(since, f)
              \/ \E f, status, r, byDigest, callees, forProfile :
                   StoreConclusion(f, status, r, byDigest, callees, forProfile)
              \/ \E byProfile : ProofCoverage(byProfile)
              \/ UNCHANGED vars
       PROVE  GraphsOK'
  <2>1. UNCHANGED <<session, step>>
    BY <1>13 DEF Edit, LoseMain, Diff, StoreConclusion, ProofCoverage, vars
  <2> QED
    BY <1>3, <2>1
<1> QED
  BY <1>4, <1>5, <1>6, <1>7, <1>8, <1>9, <1>10, <1>11, <1>12, <1>13, Zenon DEF Next

\* The order over the call graph that is kept.
LEMMA OrderHolds == GraphsOK => OrderIsBottomUp
<1> SUFFICES ASSUME GraphsOK PROVE OrderIsBottomUp
  OBVIOUS
<1> DEFINE vertices == session.cache.vertices
           edges == session.cache.edges
           graph == BuildGraph(vertices, edges)
           levels == ComputeTopologicalOrder(vertices, edges)
           level(v) == (CHOOSE g \in levels : v \in g.members).level
           below(group) == {w \in graph.node \ group.members :
                              \E v \in group.members : <<v, w>> \in graph.edge}
<1>1. vertices \in SUBSET Functions /\ IsFiniteSet(vertices)
  BY CampaignAssumption, FS_Subset DEF GraphsOK
<1>2. SUFFICES ASSUME NEW group \in levels
               PROVE  /\ group.level = IF below(group) = {} THEN 0
                                       ELSE 1 + Max({level(w) : w \in below(group)})
                      /\ \A v \in group.members, w \in graph.node :
                           w \in group.members <=> Reaches(graph, v, w) /\ Reaches(graph, w, v)
  BY Zenon DEF OrderIsBottomUp
<1>3. below(group) = CalledBy(graph, group.members) /\ \A w : level(w) = LevelIn(levels, w)
  BY DEF LevelIn, CalledBy
<1> HIDE DEF vertices, edges
<1>4. /\ group.members \in Components(graph)
      /\ group.level =
           IF CalledBy(graph, group.members) = {} THEN 0
           ELSE 1 + Max({LevelIn(levels, w) : w \in CalledBy(graph, group.members)})
  BY <1>1, <1>2, LevelsAreExact
<1> HIDE DEF graph, levels
<1>5. \A v \in group.members, w \in graph.node :
        w \in group.members <=> Reaches(graph, v, w) /\ Reaches(graph, w, v)
  BY <1>4, Grouped
<1>6. group.level = IF below(group) = {} THEN 0 ELSE 1 + Max({level(w) : w \in below(group)})
  <2> HIDE DEF level, below
  <2> QED
    BY <1>3, <1>4, Zenon
<1> QED
  BY <1>5, <1>6

\* What is handed out, and what is said when nothing is.
LEMMA StepHolds ==
  ASSUME GraphsOK, StepEnd
  PROVE  StepIsBottomUp'
<1>1. PICK vertices, edges : vertices = session.cache.vertices /\ edges = session.cache.edges
  OBVIOUS
<1>2. vertices \in SUBSET Functions /\ IsFiniteSet(vertices) /\ vertices \in SUBSET Nat
  BY <1>1, CampaignAssumption, FS_Subset DEF GraphsOK
<1>3. PICK graph : graph = BuildGraph(vertices, edges)
  OBVIOUS
<1>4. PICK ready : ready = ComputeReadyFunctions(vertices, edges, step.done, step.in_progress)
  OBVIOUS
<1>5. PICK next : next = NextAction(step, ready)
  OBVIOUS
<1>6. PICK action : action = FinishResponse(next)
  OBVIOUS
<1>7. answer' = [kind |-> "step", next |-> action.next, function |-> action.function,
                 defined |-> step.defined, done |-> step.done,
                 in_progress |-> step.in_progress, blocked |-> step.blocked,
                 graph |-> session.cache]
  BY <1>1, <1>4, <1>5, <1>6, Zenon DEF StepEnd
<1> DEFINE supported(f) == \A g \in graph.node : CallsBelow(graph, f, g) => g \in step.done
<1>8. SUFFICES /\ action.next = "no_ready_functions" /\ step.defined \subseteq graph.node
                    => \/ step.defined = {}
                       \/ \E f \in step.in_progress \cap graph.node :
                            f \notin step.done /\ supported(f)
               /\ action.next = "create_sandbox"
                    => supported(action.function) /\ action.function \notin step.done
  <2>1. /\ answer'.next = action.next /\ answer'.function = action.function
        /\ answer'.defined = step.defined /\ answer'.done = step.done
        /\ answer'.in_progress = step.in_progress /\ answer'.graph = session.cache
    BY <1>7
  <2>2. graph = BuildGraph(answer'.graph.vertices, answer'.graph.edges)
    BY <1>1, <1>3, <2>1
  <2> QED
    BY <2>1, <2>2, Zenon DEF StepIsBottomUp
<1>9. /\ next.next = "no_ready_functions" => ~(step.defined # {} /\ step.defined \subseteq step.done)
                                            /\ ready = {}
      /\ next.next = "create_sandbox" => ready # {} /\ next.function = Min(ready)
  BY <1>5 DEF NextAction
<1>10. /\ action.next = "no_ready_functions" => next.next = "no_ready_functions"
       /\ action.next = "create_sandbox" => action = next
  <2>1. CASE next.next = "create_sandbox" /\ next.function \in Oversized
    <3>1. action = [next EXCEPT !.next = "oversized_function_name"]
      BY <1>6, <2>1 DEF FinishResponse
    <3>2. "next" \in DOMAIN next
      BY <1>5 DEF NextAction
    <3> QED
      BY <3>1, <3>2
  <2>2. CASE ~(next.next = "create_sandbox" /\ next.function \in Oversized)
    BY <1>6, <2>2 DEF FinishResponse
  <2> QED
    BY <2>1, <2>2
<1>11. graph.node = vertices
  BY <1>3 DEF BuildGraph
<1>12. ASSUME action.next = "no_ready_functions", step.defined \subseteq graph.node,
              step.defined # {}
       PROVE  \E f \in step.in_progress \cap graph.node : f \notin step.done /\ supported(f)
  <2>1. ready = {} /\ ~(vertices \subseteq step.done)
    BY <1>9, <1>10, <1>11, <1>12
  <2>2. ComputeReadyFunctions(vertices, edges, step.done, step.in_progress) = {}
    BY <1>4, <2>1
  <2>3. PICK done, busy : done = step.done /\ busy = step.in_progress
    OBVIOUS
  <2>4. \E f \in busy \cap graph.node :
          /\ f \notin done
          /\ \A g \in graph.node : CallsBelow(graph, f, g) => g \in done
    BY <1>2, <1>3, <2>1, <2>2, <2>3, NothingReady
  <2> QED
    BY <2>3, <2>4
<1>13. ASSUME action.next = "create_sandbox"
       PROVE  supported(action.function) /\ action.function \notin step.done
  <2>1. ready # {} /\ action.function = Min(ready)
    BY <1>9, <1>10, <1>13
  <2>2. ready \in SUBSET Nat
    BY <1>2, <1>4 DEF ComputeReadyFunctions
  <2>3. Min(ready) \in ready
    <3>1. \E x \in ready : \A y \in ready : x <= y
      BY <2>1, <2>2, LeastOne
    <3> QED
      BY <3>1 DEF Min
  <2>4. PICK f \in ready : f = action.function
    BY <2>1, <2>3
  <2>5. f \notin step.done /\ supported(f)
    BY <1>2, <1>3, <1>4, <2>4, ReadyIsSupported
  <2> QED
    BY <2>4, <2>5
<1> QED
  BY <1>12, <1>13

\* verify_program_step goes bottom up (compute_topological_order and
\* compute_ready_functions): its order has every group one level above the
\* highest group it calls, a function it hands out calls only verified ones
\* besides its own group, and when it hands out none, one that could be is
\* being worked on.
THEOREM ScheduleHonest == Spec => []ScheduleIsBottomUp
<1>1. Init => GraphsOK /\ StepIsBottomUp
  BY DEF Init, GraphsOK, NoGraph, StepIsBottomUp, IsAnswer
<1>2. EvidenceInv /\ GraphsOK /\ [Next]_vars => GraphsOK'
  BY GraphsKeep
<1>3. GraphsOK /\ StepIsBottomUp /\ [Next]_vars => StepIsBottomUp'
  <2> SUFFICES ASSUME GraphsOK, StepIsBottomUp, [Next]_vars PROVE StepIsBottomUp'
    OBVIOUS
  <2>1. ASSUME answer' = None \/ answer'.kind # "step" \/ answer'.next = "needs_project"
        PROVE  StepIsBottomUp'
    BY <2>1 DEF StepIsBottomUp, IsAnswer
  <2>2. ASSUME StepEnd PROVE StepIsBottomUp'
    BY <2>2, StepHolds
  <2>3. ASSUME UNCHANGED answer PROVE StepIsBottomUp'
    BY <2>3 DEF StepIsBottomUp, IsAnswer
  <2>4. ASSUME NEW since, NEW f, Diff(since, f) PROVE StepIsBottomUp'
    <3>1. answer'.kind = "diff"
      BY <2>4 DEF Diff, ProofGoalDiff
    <3> QED
      BY <2>1, <3>1
  <2>5. ASSUME NEW byProfile, ProofCoverage(byProfile) PROVE StepIsBottomUp'
    <3>1. answer'.kind = "coverage"
      BY <2>5 DEF ProofCoverage, ProofCoverageReport
    <3> QED
      BY <2>1, <3>1
  <2>6. ASSUME NEW lock, NEW busy, StepBegin(lock, busy) PROVE StepIsBottomUp'
    <3>1. answer' = None \/ answer'.next = "needs_project"
      BY <2>6 DEF StepBegin
    <3> QED
      BY <2>1, <3>1
  <2>7. ASSUME NEW f, NEW load, NEW register, NEW functions, NEW byProfile, NEW prop, NEW verdict,
               \/ Edit(f) \/ Reload(load, register) \/ LoseMain \/ CheckEnd
               \/ CheckBegin(load, functions, byProfile, prop, verdict) \/ RunWp(functions, prop)
        PROVE  StepIsBottomUp'
    <3>1. answer' = None
      BY <2>7, Zenon DEF Edit, Reload, LoseMain, CheckEnd, CheckBegin, RunWp
    <3> QED
      BY <2>1, <3>1
  <2>8. ASSUME NEW f, NEW status, NEW r, NEW byDigest, NEW callees, NEW forProfile,
               \/ StoreConclusion(f, status, r, byDigest, callees, forProfile)
               \/ CacheCallgraph \/ ComputeOrder \/ Snapshot
        PROVE  StepIsBottomUp'
    <3>1. answer' = None
      BY <2>8, Zenon DEF StoreConclusion, CacheCallgraph, ComputeOrder, Snapshot
    <3> QED
      BY <2>1, <3>1
  <2>9. ASSUME FetchCallgraph \/ FetchFails \/ UNCHANGED vars PROVE StepIsBottomUp'
    BY <2>3, <2>9 DEF FetchCallgraph, FetchFails, vars
  <2> QED
    BY <2>2, <2>4, <2>5, <2>6, <2>7, <2>8, <2>9, Zenon DEF Next
<1>4. GraphsOK /\ StepIsBottomUp => ScheduleIsBottomUp
  BY OrderHolds DEF ScheduleIsBottomUp
<1>5. Spec => []EvidenceInv
  BY ReceiptsAreHonest
<1> QED
  BY <1>1, <1>2, <1>3, <1>4, <1>5, PTL DEF Spec

-----------------------------------------------------------------------------
(* Counting in a sequence *)

\* The places of s that hold one of S, up to n.
Places(s, n, S) == {i \in 1..n : s[i] \in S}
Occurs(s, n, S) == Cardinality(Places(s, n, S))
HowMany(s, S) == Occurs(s, Len(s), S)

\* The places are finite in number.
LEMMA OccursType ==
  ASSUME NEW s, NEW n \in Nat, NEW S
  PROVE  /\ IsFiniteSet(Places(s, n, S)) /\ Occurs(s, n, S) \in Nat
         /\ Occurs(s, 0, S) = 0
         /\ Occurs(s, n, S) = 0 <=> \A i \in 1..n : s[i] \notin S
<1>1. Places(s, n, S) \in SUBSET (1..n) /\ IsFiniteSet(1..n)
  BY FS_Interval DEF Places
<1>2. IsFiniteSet(Places(s, n, S)) /\ Cardinality(Places(s, n, S)) \in Nat
  BY <1>1, FS_Subset, FS_CardinalityType
<1>3. Places(s, 0, S) = {}
  BY DEF Places
<1>4. Cardinality(Places(s, n, S)) = 0 <=> Places(s, n, S) = {}
  BY <1>2, FS_EmptySet
<1> QED
  BY <1>2, <1>3, <1>4, FS_EmptySet DEF Occurs, Places

\* One place more.
LEMMA OccursNext ==
  ASSUME NEW s, NEW n \in Nat, NEW S
  PROVE  Occurs(s, n + 1, S) = Occurs(s, n, S) + (IF s[n + 1] \in S THEN 1 ELSE 0)
<1>1. Places(s, n + 1, S) = IF s[n + 1] \in S THEN Places(s, n, S) \cup {n + 1} ELSE Places(s, n, S)
  <2>1. \A i : i \in 1..(n + 1) <=> i \in 1..n \/ i = n + 1
    OBVIOUS
  <2> QED
    BY <2>1 DEF Places
<1>2. n + 1 \notin Places(s, n, S) /\ IsFiniteSet(Places(s, n, S)) /\ Occurs(s, n, S) \in Nat
  <2>1. IsFiniteSet(Places(s, n, S)) /\ Occurs(s, n, S) \in Nat
    BY OccursType
  <2>2. n + 1 \notin Places(s, n, S)
    BY DEF Places
  <2> QED
    BY <2>1, <2>2
<1>3. Cardinality(Places(s, n, S) \cup {n + 1}) = Cardinality(Places(s, n, S)) + 1
  BY <1>2, FS_AddElement
<1> QED
  BY <1>1, <1>2, <1>3 DEF Occurs

\* What is appended is counted.
LEMMA HowManyAppend ==
  ASSUME NEW X, NEW s \in Seq(X), NEW g \in X, NEW S
  PROVE  /\ HowMany(Append(s, g), S) = HowMany(s, S) + (IF g \in S THEN 1 ELSE 0)
         /\ Append(s, g) \in Seq(X) /\ Len(Append(s, g)) = Len(s) + 1
<1> DEFINE t == Append(s, g)
<1>1. t \in Seq(X) /\ Len(t) = Len(s) + 1 /\ Len(s) \in Nat /\ t[Len(s) + 1] = g
      /\ \A i \in 1..Len(s) : t[i] = s[i]
  OBVIOUS
<1> HIDE DEF t
<1>2. Places(t, Len(s), S) = Places(s, Len(s), S)
  BY <1>1 DEF Places
<1>3. Occurs(t, Len(s) + 1, S) = Occurs(t, Len(s), S) + (IF g \in S THEN 1 ELSE 0)
  BY <1>1, OccursNext
<1> QED
  BY <1>1, <1>2, <1>3 DEF HowMany, Occurs, t

\* A place in the second of two sequences.
LEMMA Concatenated ==
  ASSUME NEW X, NEW a \in Seq(X), NEW b \in Seq(X), NEW j \in 1..(Len(a) + Len(b)), ~(j <= Len(a))
  PROVE  (a \o b)[j] = b[j - Len(a)]
OBVIOUS

\* Taking one place out moves the later ones down.
LEMMA Removed ==
  ASSUME NEW X, NEW s \in Seq(X), NEW i \in DOMAIN s, NEW r, r = RemoveAt(s, i)
  PROVE  /\ r \in Seq(X) /\ Len(r) = Len(s) - 1
         /\ \A j \in 1..(Len(s) - 1) : r[j] = IF j < i THEN s[j] ELSE s[j + 1]
<1>1. i \in 1..Len(s) /\ Len(s) \in Nat
  OBVIOUS
<1>2. PICK a, b : a = SubSeq(s, 1, i - 1) /\ b = SubSeq(s, i + 1, Len(s))
  OBVIOUS
<1>3. a \in Seq(X) /\ Len(a) = i - 1 /\ \A j \in 1..(i - 1) : a[j] = s[j]
  BY <1>1, <1>2
<1>4. b \in Seq(X) /\ Len(b) = Len(s) - i /\ \A j \in 1..(Len(s) - i) : b[j] = s[j + i]
  BY <1>1, <1>2
<1>5. r = a \o b
  BY <1>2 DEF RemoveAt
<1>6. r \in Seq(X) /\ Len(r) = Len(s) - 1
  BY <1>1, <1>3, <1>4, <1>5
<1>7. ASSUME NEW j \in 1..(Len(s) - 1) PROVE r[j] = IF j < i THEN s[j] ELSE s[j + 1]
  <2>1. CASE j < i
    BY <1>1, <1>3, <1>4, <1>5, <2>1
  <2>2. CASE ~(j < i)
    <3>1. r[j] = b[j - (i - 1)]
      <4>1. Len(a) = i - 1 /\ j \in 1..(Len(a) + Len(b)) /\ ~(j <= Len(a))
        BY <1>1, <1>3, <1>4, <2>2
      <4>2. (a \o b)[j] = b[j - Len(a)]
        BY <1>3, <1>4, <4>1, Concatenated
      <4> QED
        BY <1>5, <4>1, <4>2
    <3>2. j - (i - 1) \in 1..(Len(s) - i) /\ (j - (i - 1)) + i = j + 1
      BY <1>1, <2>2
    <3> QED
      BY <1>4, <2>2, <3>1, <3>2
  <2> QED
    BY <2>1, <2>2
<1> QED
  BY <1>6, <1>7

\* What is removed is no longer counted.
LEMMA HowManyRemove ==
  ASSUME NEW X, NEW s \in Seq(X), NEW i \in DOMAIN s, NEW r, r = RemoveAt(s, i), NEW S
  PROVE  HowMany(r, S) = HowMany(s, S) - (IF s[i] \in S THEN 1 ELSE 0)
<1>1. /\ r \in Seq(X) /\ Len(r) = Len(s) - 1 /\ Len(s) \in Nat \ {0} /\ i \in 1..Len(s)
      /\ \A j \in 1..(Len(s) - 1) : r[j] = IF j < i THEN s[j] ELSE s[j + 1]
  BY Removed
<1>2. PICK n \in Nat : n = Len(s) - 1
  BY <1>1
<1> DEFINE P == Places(r, n, S)
           Q == Places(s, n + 1, S) \ {i}
           up == [j \in P |-> IF j < i THEN j ELSE j + 1]
<1>3. up \in Bijection(P, Q)
  <2>1. ASSUME NEW j \in P PROVE up[j] \in Q
    <3>1. j \in 1..n /\ r[j] \in S
      BY DEF Places
    <3>2. up[j] \in 1..(n + 1) /\ up[j] # i /\ s[up[j]] = r[j]
      BY <1>1, <1>2, <3>1
    <3> QED
      BY <3>1, <3>2 DEF Places
  <2>2. \A j, k \in P : up[j] = up[k] => j = k
    <3>1. P \subseteq Int
      BY DEF Places
    <3> QED
      BY <1>1, <3>1
  <2>3. ASSUME NEW k \in Q PROVE \E j \in P : up[j] = k
    <3>1. k \in 1..(n + 1) /\ k # i /\ s[k] \in S
      BY DEF Places
    <3>2. CASE k < i
      <4>1. k \in 1..n /\ r[k] = s[k]
        BY <1>1, <1>2, <3>1, <3>2
      <4>2. k \in P /\ up[k] = k
        BY <3>1, <3>2, <4>1 DEF Places
      <4> QED
        BY <4>2
    <3>3. CASE ~(k < i)
      <4>1. k - 1 \in 1..n /\ ~(k - 1 < i) /\ (k - 1) + 1 = k /\ r[k - 1] = s[k]
        BY <1>1, <1>2, <3>1, <3>3
      <4>2. k - 1 \in P /\ up[k - 1] = k
        BY <3>1, <4>1 DEF Places
      <4> QED
        BY <4>2
    <3> QED
      BY <3>2, <3>3
  <2> HIDE DEF up, P, Q
  <2>4. up \in [P -> Q]
    BY <2>1 DEF up
  <2>5. up \in Injection(P, Q)
    BY <2>2, <2>4 DEF Injection, IsInjective
  <2>6. up \in Surjection(P, Q)
    BY <2>3, <2>4 DEF Surjection
  <2> QED
    BY <2>5, <2>6 DEF Bijection
<1>4. IsFiniteSet(P) /\ IsFiniteSet(Places(s, n + 1, S))
  <2>1. n + 1 \in Nat
    OBVIOUS
  <2> QED
    BY <2>1, OccursType
<1> HIDE DEF up, P, Q
<1>5. Cardinality(Q) = Cardinality(P)
  <2>1. ExistsBijection(P, Q)
    BY <1>3 DEF ExistsBijection
  <2> QED
    BY <1>4, <2>1, FS_Bijection
<1>6. Cardinality(Q) = IF i \in Places(s, n + 1, S) THEN Cardinality(Places(s, n + 1, S)) - 1
                       ELSE Cardinality(Places(s, n + 1, S))
  BY <1>4, FS_RemoveElement DEF Q
<1>7. Occurs(s, n + 1, S) \in Nat /\ n + 1 = Len(s) /\ n = Len(r)
  BY <1>1, <1>2, OccursType
<1>8. i \in Places(s, n + 1, S) <=> s[i] \in S
  BY <1>1, <1>7 DEF Places
<1>9. HowMany(r, S) = Cardinality(P) /\ HowMany(s, S) = Cardinality(Places(s, n + 1, S))
      /\ HowMany(s, S) \in Nat
  BY <1>7 DEF HowMany, Occurs, P
<1>10. CASE s[i] \in S
  BY <1>5, <1>6, <1>8, <1>9, <1>10
<1>11. CASE s[i] \notin S
  <2>1. HowMany(r, S) = HowMany(s, S)
    BY <1>5, <1>6, <1>8, <1>9, <1>11
  <2>2. (IF s[i] \in S THEN 1 ELSE 0) = 0
    BY <1>11
  <2>3. HowMany(s, S) = HowMany(s, S) - 0
    BY <1>9
  <2> QED
    BY <2>1, <2>2, <2>3
<1> QED
  BY <1>10, <1>11

-----------------------------------------------------------------------------
(* The difference of two runs *)

\* Of the candidates for a goal, one with the same progress is taken if there
\* is one.
LEMMA MatchIsClosest ==
  ASSUME NEW X, NEW before \in Seq(X), NEW goal
  PROVE  /\ Match(before, goal) = {} => \A j \in DOMAIN before : before[j].id # goal.id
         /\ \A i \in Match(before, goal) :
              /\ i \in DOMAIN before /\ before[i].id = goal.id
              /\ (ReceiptGoalIsProgress(before[i]) <=> ~ReceiptGoalIsProgress(goal)) =>
                   \A j \in DOMAIN before : before[j].id = goal.id =>
                     (ReceiptGoalIsProgress(before[j]) <=> ~ReceiptGoalIsProgress(goal))
<1> DEFINE same(i) == before[i].id = goal.id
           close(i) == ReceiptGoalIsProgress(before[i]) = ReceiptGoalIsProgress(goal)
           key(i) == (IF close(i) THEN 0 ELSE 2) + (IF before[i].status = goal.status THEN 0 ELSE 1)
           candidates == {i \in DOMAIN before : same(i)}
<1>1. Match(before, goal) =
        {i \in candidates : \A j \in candidates : key(i) < key(j) \/ (key(i) = key(j) /\ i <= j)}
  BY Zenon DEF Match
<1>2. \A i : close(i) <=> (ReceiptGoalIsProgress(before[i]) <=> ReceiptGoalIsProgress(goal))
  BY DEF ReceiptGoalIsProgress
<1>3. \A i : key(i) \in 0..3 /\ (close(i) <=> key(i) <= 1)
  OBVIOUS
<1> HIDE DEF key, close
<1>4. ASSUME candidates # {} PROVE Match(before, goal) # {}
  <2> DEFINE keys == {key(i) : i \in candidates}
  <2>1. PICK k \in keys : \A m \in keys : k <= m
    <3>1. keys \in SUBSET Nat /\ keys # {}
      BY <1>3, <1>4
    <3> QED
      BY <3>1, LeastOne
  <2> DEFINE least == {i \in candidates : key(i) = k}
  <2>2. PICK i \in least : \A j \in least : i <= j
    <3>1. least \in SUBSET Nat /\ least # {}
      OBVIOUS
    <3> QED
      BY <3>1, LeastOne
  <2>3. ASSUME NEW j \in candidates PROVE key(i) < key(j) \/ (key(i) = key(j) /\ i <= j)
    <3>1. k <= key(j) /\ key(j) \in Nat /\ k \in Nat /\ key(i) = k
      BY <1>3, <2>1, <2>2
    <3>2. CASE key(j) = k
      BY <2>2, <3>1, <3>2
    <3>3. CASE key(j) # k
      BY <3>1, <3>3
    <3> QED
      BY <3>2, <3>3
  <2> QED
    BY <1>1, <2>2, <2>3
<1>5. ASSUME NEW i \in Match(before, goal), ~close(i), NEW j \in candidates
      PROVE  ~close(j)
  <2>1. key(i) <= key(j)
    BY <1>1, <1>3, <1>5
  <2> QED
    BY <1>3, <1>5, <2>1
<1>6. \A i \in Match(before, goal) : i \in DOMAIN before /\ before[i].id = goal.id
  BY <1>1
<1>7. Match(before, goal) = {} => \A j \in DOMAIN before : before[j].id # goal.id
  BY <1>4
<1> HIDE DEF candidates
<1>8. \A i \in Match(before, goal) : ~close(i) =>
        \A j \in DOMAIN before : before[j].id = goal.id => ~close(j)
  BY <1>5 DEF candidates
<1> QED
  BY <1>2, <1>6, <1>7, <1>8

\* A difference between goals of X.
Differences(X) ==
  [before : Seq(X), newly_proved : Seq(X), newly_unproved : Seq(X),
   status_changed : Seq(X), appeared : Seq(X), unchanged : Seq(X)]

\* What one goal of the current run does to the difference.
IsCompared(d, goal, e) ==
  \/ /\ Match(d.before, goal) = {}
     /\ e = [d EXCEPT !.appeared = Append(@, goal)]
  \/ \E i \in Match(d.before, goal) :
       LET was == d.before[i]
           rest == RemoveAt(d.before, i)
       IN \/ /\ ReceiptGoalIsProgress(goal) /\ ~ReceiptGoalIsProgress(was)
             /\ e = [d EXCEPT !.before = rest, !.newly_proved = Append(@, goal)]
          \/ /\ ~ReceiptGoalIsProgress(goal) /\ ReceiptGoalIsProgress(was)
             /\ e = [d EXCEPT !.before = rest, !.newly_unproved = Append(@, goal)]
          \/ /\ ReceiptGoalIsProgress(goal) <=> ReceiptGoalIsProgress(was)
             /\ \/ e = [d EXCEPT !.before = rest, !.unchanged = Append(@, goal)]
                \/ e = [d EXCEPT !.before = rest, !.status_changed = Append(@, goal)]

\* One goal of the current run, matched or new.
LEMMA Compared ==
  ASSUME NEW X, NEW d \in Differences(X), NEW goal, NEW e, e = Compare(d, goal)
  PROVE  IsCompared(d, goal, e)
<1>1. CASE Match(d.before, goal) = {}
  BY <1>1, Zenon DEF Compare, IsCompared
<1>2. CASE Match(d.before, goal) # {}
  <2>1. PICK i : i = CHOOSE j \in Match(d.before, goal) : TRUE
    OBVIOUS
  <2>2. i \in Match(d.before, goal)
    BY <1>2, <2>1
  <2>3. PICK was, rest : was = d.before[i] /\ rest = RemoveAt(d.before, i)
    OBVIOUS
  <2>4. PICK r : r = [d EXCEPT !.before = RemoveAt(@, i)]
    OBVIOUS
  <2>5. r = [d EXCEPT !.before = rest]
    BY <2>3, <2>4
  <2>6. PICK now, then : now = ReceiptGoalIsProgress(goal) /\ then = ReceiptGoalIsProgress(was)
    OBVIOUS
  <2>7. e = IF now # then
            THEN IF now THEN [r EXCEPT !.newly_proved = Append(@, goal)]
                        ELSE [r EXCEPT !.newly_unproved = Append(@, goal)]
            ELSE IF was.status = goal.status THEN [r EXCEPT !.unchanged = Append(@, goal)]
            ELSE [r EXCEPT !.status_changed = Append(@, goal)]
    BY <1>2, <2>1, <2>3, <2>4, <2>6, Zenon DEF Compare
  <2>8. \/ e = [r EXCEPT !.newly_proved = Append(@, goal)]
             /\ ReceiptGoalIsProgress(goal) /\ ~ReceiptGoalIsProgress(was)
        \/ e = [r EXCEPT !.newly_unproved = Append(@, goal)]
             /\ ~ReceiptGoalIsProgress(goal) /\ ReceiptGoalIsProgress(was)
        \/ (e = [r EXCEPT !.unchanged = Append(@, goal)]
              \/ e = [r EXCEPT !.status_changed = Append(@, goal)])
             /\ (ReceiptGoalIsProgress(goal) <=> ReceiptGoalIsProgress(was))
    <3>1. now \in BOOLEAN /\ then \in BOOLEAN
      BY <2>6 DEF ReceiptGoalIsProgress
    <3>2. (now <=> ReceiptGoalIsProgress(goal)) /\ (then <=> ReceiptGoalIsProgress(was))
      BY <2>6
    <3> QED
      BY <2>7, <3>1, <3>2, Zenon
  <2>9. d = [x \in {"before", "newly_proved", "newly_unproved", "status_changed", "appeared",
                    "unchanged"} |-> d[x]]
    BY DEF Differences
  <2>10. /\ [r EXCEPT !.newly_proved = Append(@, goal)]
              = [d EXCEPT !.before = rest, !.newly_proved = Append(@, goal)]
         /\ [r EXCEPT !.newly_unproved = Append(@, goal)]
              = [d EXCEPT !.before = rest, !.newly_unproved = Append(@, goal)]
         /\ [r EXCEPT !.unchanged = Append(@, goal)]
              = [d EXCEPT !.before = rest, !.unchanged = Append(@, goal)]
         /\ [r EXCEPT !.status_changed = Append(@, goal)]
              = [d EXCEPT !.before = rest, !.status_changed = Append(@, goal)]
    BY <2>5, <2>9
  <2> QED
    BY <2>2, <2>3, <2>8, <2>10, Zenon DEF IsCompared
<1> QED
  BY <1>1, <1>2

\* The goals of an id that are progress, and those that are not.
Proved(X, id) == {g \in X : g.id = id /\ ReceiptGoalIsProgress(g)}
Unproved(X, id) == {g \in X : g.id = id /\ ~ReceiptGoalIsProgress(g)}

\* The sums of the loop over the current goals: q before, b what is left of it, p newly
\* proved, u newly unproved, x with another status, a appeared, e unchanged, c
\* current, T the proved goals of an id and F its others.
Balanced(qT, qF, bT, bF, pT, pF, uT, uF, xT, xF, aT, aF, eT, eF, cT, cF) ==
  /\ pF = 0 /\ uT = 0
  /\ qT = bT + uF + xT + eT
  /\ qF = bF + pT + xF + eF
  /\ cT = pT + aT + xT + eT
  /\ cF = uF + aF + xF + eF
  /\ pT > 0 => bT = 0
  /\ uF > 0 => bF = 0
  /\ aT + aF > 0 => bT = 0 /\ bF = 0
  /\ ~(pT > 0 /\ uF > 0)

\* What is so of an id after n goals of the current run: every earlier goal is
\* still there or was matched, every current one was reported, and what was
\* reported as a change is one.
IsTally(d, X, id, previous, current, n) ==
  LET T == Proved(X, id)
      F == Unproved(X, id)
  IN Balanced(HowMany(previous, T), HowMany(previous, F), HowMany(d.before, T), HowMany(d.before, F),
              HowMany(d.newly_proved, T), HowMany(d.newly_proved, F),
              HowMany(d.newly_unproved, T), HowMany(d.newly_unproved, F),
              HowMany(d.status_changed, T), HowMany(d.status_changed, F),
              HowMany(d.appeared, T), HowMany(d.appeared, F),
              HowMany(d.unchanged, T), HowMany(d.unchanged, F),
              Occurs(current, n, T), Occurs(current, n, F))

\* The lengths: n goals compared, q before.
Sized(n, q, b, p, u, x, a, e) == n = p + u + x + a + e /\ q = b + p + u + x + e

\* Each goal is reported in one list.
LEMMA Sizes ==
  ASSUME NEW n \in Nat, NEW q \in Nat, NEW b \in Nat, NEW p \in Nat, NEW u \in Nat, NEW x \in Nat,
         NEW a \in Nat, NEW e \in Nat, Sized(n, q, b, p, u, x, a, e)
  PROVE  /\ Sized(n + 1, q, b, p, u, x, a + 1, e)
         /\ Sized(n + 1, q, b - 1, p + 1, u, x, a, e)
         /\ Sized(n + 1, q, b - 1, p, u + 1, x, a, e)
         /\ Sized(n + 1, q, b - 1, p, u, x + 1, a, e)
         /\ Sized(n + 1, q, b - 1, p, u, x, a, e + 1)
BY DEF Sized

\* The lengths of the lists after n goals.
IsMeasured(d, previous, n) ==
  Sized(n, Len(previous), Len(d.before), Len(d.newly_proved), Len(d.newly_unproved),
        Len(d.status_changed), Len(d.appeared), Len(d.unchanged))

\* A sequence has none of a set when no place holds one.
LEMMA HowManyType ==
  ASSUME NEW X, NEW s \in Seq(X), NEW S
  PROVE  /\ HowMany(s, S) \in Nat
         /\ HowMany(s, S) = 0 <=> \A i \in DOMAIN s : s[i] \notin S
<1>1. Len(s) \in Nat /\ DOMAIN s = 1..Len(s)
  OBVIOUS
<1> QED
  BY <1>1, OccursType DEF HowMany

\* What a goal does to the tally of an id.
LEMMA TallyGoesOn ==
  ASSUME NEW X, NEW d \in Differences(X), NEW n \in Nat, NEW previous \in Seq(X), NEW current,
         NEW goal \in X, goal = current[n + 1], NEW e, IsCompared(d, goal, e), NEW id,
         IsTally(d, X, id, previous, current, n), IsMeasured(d, previous, n)
  PROVE  /\ e \in Differences(X)
         /\ IsTally(e, X, id, previous, current, n + 1)
         /\ IsMeasured(e, previous, n + 1)
<1> DEFINE T == Proved(X, id)
           F == Unproved(X, id)
           one(g, S) == IF g \in S THEN 1 ELSE 0
<1>1. PICK t \in {0, 1}, f \in {0, 1} :
        /\ t = one(goal, T) /\ f = one(goal, F)
        /\ ~(t = 1 /\ f = 1)
        /\ goal.id # id => t = 0 /\ f = 0
        /\ goal.id = id => (t = 1 <=> ReceiptGoalIsProgress(goal))
                           /\ (f = 1 <=> ~ReceiptGoalIsProgress(goal))
  BY DEF Proved, Unproved
<1>2. /\ Occurs(current, n + 1, T) = Occurs(current, n, T) + t
      /\ Occurs(current, n + 1, F) = Occurs(current, n, F) + f
  BY <1>1, OccursNext
<1>3. /\ Occurs(current, n, T) \in Nat /\ Occurs(current, n, F) \in Nat
  BY OccursType
<1>4. d = [x \in {"before", "newly_proved", "newly_unproved", "status_changed", "appeared",
                  "unchanged"} |-> d[x]]
      /\ d.before \in Seq(X) /\ d.newly_proved \in Seq(X) /\ d.newly_unproved \in Seq(X)
      /\ d.status_changed \in Seq(X) /\ d.appeared \in Seq(X) /\ d.unchanged \in Seq(X)
  BY DEF Differences
<1>5. ASSUME NEW s \in Seq(X)
      PROVE  /\ HowMany(s, T) \in Nat /\ HowMany(s, F) \in Nat /\ Len(s) \in Nat
             /\ HowMany(Append(s, goal), T) = HowMany(s, T) + t
             /\ HowMany(Append(s, goal), F) = HowMany(s, F) + f
             /\ Append(s, goal) \in Seq(X) /\ Len(Append(s, goal)) = Len(s) + 1
  BY <1>1, HowManyType, HowManyAppend
<1>6. PICK bT \in Nat, bF \in Nat, pT \in Nat, pF \in Nat, uT \in Nat, uF \in Nat, xT \in Nat,
           xF \in Nat, aT \in Nat, aF \in Nat, eT \in Nat, eF \in Nat :
        /\ bT = HowMany(d.before, T) /\ bF = HowMany(d.before, F)
        /\ pT = HowMany(d.newly_proved, T) /\ pF = HowMany(d.newly_proved, F)
        /\ uT = HowMany(d.newly_unproved, T) /\ uF = HowMany(d.newly_unproved, F)
        /\ xT = HowMany(d.status_changed, T) /\ xF = HowMany(d.status_changed, F)
        /\ aT = HowMany(d.appeared, T) /\ aF = HowMany(d.appeared, F)
        /\ eT = HowMany(d.unchanged, T) /\ eF = HowMany(d.unchanged, F)
  BY <1>4, <1>5, Zenon
<1>7. PICK qT \in Nat, qF \in Nat, cT \in Nat, cF \in Nat :
        /\ qT = HowMany(previous, T) /\ qF = HowMany(previous, F)
        /\ cT = Occurs(current, n, T) /\ cF = Occurs(current, n, F)
  BY <1>3, <1>5, Zenon
<1>8. Balanced(qT, qF, bT, bF, pT, pF, uT, uF, xT, xF, aT, aF, eT, eF, cT, cF)
  BY <1>6, <1>7 DEF IsTally
<1>8c. ASSUME NEW wT \in Nat, NEW wF \in Nat, bT - wT \in Nat, bF - wF \in Nat
       PROVE  /\ (t + f > 0 => bT = 0 /\ bF = 0) =>
                 Balanced(qT, qF, bT, bF, pT, pF, uT, uF, xT, xF, aT + t, aF + f, eT, eF, cT + t, cF + f)
              /\ f = 0 /\ wT = 0 /\ t = wF /\ (t > 0 => bT = 0) =>
                   Balanced(qT, qF, bT - wT, bF - wF, pT + t, pF + f, uT, uF, xT, xF, aT, aF, eT, eF,
                            cT + t, cF + f)
              /\ t = 0 /\ wF = 0 /\ f = wT /\ (f > 0 => bF = 0) =>
                   Balanced(qT, qF, bT - wT, bF - wF, pT, pF, uT + t, uF + f, xT, xF, aT, aF, eT, eF,
                            cT + t, cF + f)
              /\ t = wT /\ f = wF =>
                   /\ Balanced(qT, qF, bT - wT, bF - wF, pT, pF, uT, uF, xT, xF, aT, aF, eT + t, eF + f,
                               cT + t, cF + f)
                   /\ Balanced(qT, qF, bT - wT, bF - wF, pT, pF, uT, uF, xT + t, xF + f, aT, aF, eT, eF,
                               cT + t, cF + f)
  <2>1. /\ pF = 0 /\ uT = 0
        /\ qT = bT + uF + xT + eT
        /\ qF = bF + pT + xF + eF
        /\ cT = pT + aT + xT + eT
        /\ cF = uF + aF + xF + eF
        /\ pT > 0 => bT = 0
        /\ uF > 0 => bF = 0
        /\ aT + aF > 0 => bT = 0 /\ bF = 0
        /\ ~(pT > 0 /\ uF > 0)
    BY <1>8 DEF Balanced
  <2>2. ASSUME t + f > 0 => bT = 0 /\ bF = 0
        PROVE  Balanced(qT, qF, bT, bF, pT, pF, uT, uF, xT, xF, aT + t, aF + f, eT, eF, cT + t, cF + f)
    <3>1. cT + t = pT + (aT + t) + xT + eT
      BY <2>1
    <3>2. cF + f = uF + (aF + f) + xF + eF
      BY <2>1
    <3>3. (aT + t) + (aF + f) > 0 => bT = 0 /\ bF = 0
      BY <2>1, <2>2
    <3> QED
      BY <2>1, <3>1, <3>2, <3>3, Zenon DEF Balanced
  <2>3. ASSUME f = 0, wT = 0, t = wF, t > 0 => bT = 0
        PROVE  Balanced(qT, qF, bT - wT, bF - wF, pT + t, pF + f, uT, uF, xT, xF, aT, aF, eT, eF,
                        cT + t, cF + f)
    <3>1. bT - wT = bT /\ pF + f = 0
      BY <2>1, <2>3
    <3>2. qF = (bF - wF) + (pT + t) + xF + eF
      BY <2>1, <2>3
    <3>3. cT + t = (pT + t) + aT + xT + eT
      BY <2>1
    <3>4. cF + f = uF + aF + xF + eF
      BY <2>1, <2>3
    <3>5. pT + t > 0 => bT = 0
      BY <2>1, <2>3
    <3>6. (uF > 0 => bF - wF = 0) /\ (aT + aF > 0 => bF - wF = 0)
      BY <1>8c, <2>1
    <3>7. t > 0 => bF > 0
      BY <1>8c, <2>3
    <3>8. ~(pT + t > 0 /\ uF > 0)
      BY <2>1, <3>7
    <3> QED
      BY <2>1, <3>1, <3>2, <3>3, <3>4, <3>5, <3>6, <3>8, Zenon DEF Balanced
  <2>4. ASSUME t = 0, wF = 0, f = wT, f > 0 => bF = 0
        PROVE  Balanced(qT, qF, bT - wT, bF - wF, pT, pF, uT + t, uF + f, xT, xF, aT, aF, eT, eF,
                        cT + t, cF + f)
    <3>1. bF - wF = bF /\ uT + t = 0
      BY <2>1, <2>4
    <3>2. qT = (bT - wT) + (uF + f) + xT + eT
      BY <2>1, <2>4
    <3>3. cT + t = pT + aT + xT + eT
      BY <2>1, <2>4
    <3>4. cF + f = (uF + f) + aF + xF + eF
      BY <2>1
    <3>5. uF + f > 0 => bF = 0
      BY <2>1, <2>4
    <3>6. (pT > 0 => bT - wT = 0) /\ (aT + aF > 0 => bT - wT = 0)
      BY <1>8c, <2>1
    <3>7. f > 0 => bT > 0
      BY <1>8c, <2>4
    <3>8. ~(pT > 0 /\ uF + f > 0)
      BY <2>1, <3>7
    <3> QED
      BY <2>1, <3>1, <3>2, <3>3, <3>4, <3>5, <3>6, <3>8, Zenon DEF Balanced
  <2>5. ASSUME t = wT, f = wF
        PROVE  /\ Balanced(qT, qF, bT - wT, bF - wF, pT, pF, uT, uF, xT, xF, aT, aF, eT + t, eF + f,
                           cT + t, cF + f)
               /\ Balanced(qT, qF, bT - wT, bF - wF, pT, pF, uT, uF, xT + t, xF + f, aT, aF, eT, eF,
                           cT + t, cF + f)
    <3>1. qT = (bT - wT) + uF + xT + (eT + t) /\ qT = (bT - wT) + uF + (xT + t) + eT
      BY <2>1, <2>5
    <3>2. qF = (bF - wF) + pT + xF + (eF + f) /\ qF = (bF - wF) + pT + (xF + f) + eF
      BY <2>1, <2>5
    <3>3. cT + t = pT + aT + xT + (eT + t) /\ cT + t = pT + aT + (xT + t) + eT
      BY <2>1
    <3>4. cF + f = uF + aF + xF + (eF + f) /\ cF + f = uF + aF + (xF + f) + eF
      BY <2>1
    <3>5. /\ pT > 0 => bT - wT = 0
          /\ uF > 0 => bF - wF = 0
          /\ aT + aF > 0 => bT - wT = 0 /\ bF - wF = 0
      BY <1>8c, <2>1
    <3> QED
      BY <2>1, <3>1, <3>2, <3>3, <3>4, <3>5, Zenon DEF Balanced
  <2> QED
    BY <2>2, <2>3, <2>4, <2>5, Zenon
<1>8a. PICK q \in Nat, b \in Nat, p \in Nat, u \in Nat, o \in Nat, a \in Nat, m \in Nat :
         /\ q = Len(previous) /\ b = Len(d.before) /\ p = Len(d.newly_proved)
         /\ u = Len(d.newly_unproved) /\ o = Len(d.status_changed) /\ a = Len(d.appeared)
         /\ m = Len(d.unchanged)
  BY <1>4, <1>5, Zenon
<1>8b. /\ Sized(n + 1, q, b, p, u, o, a + 1, m)
       /\ Sized(n + 1, q, b - 1, p + 1, u, o, a, m)
       /\ Sized(n + 1, q, b - 1, p, u + 1, o, a, m)
       /\ Sized(n + 1, q, b - 1, p, u, o + 1, a, m)
       /\ Sized(n + 1, q, b - 1, p, u, o, a, m + 1)
  <2>1. Sized(n, q, b, p, u, o, a, m)
    BY <1>8a DEF IsMeasured
  <2> QED
    BY <2>1, Sizes
<1> HIDE DEF T, F, one
<1>9. CASE /\ Match(d.before, goal) = {}
           /\ e = [d EXCEPT !.appeared = Append(@, goal)]
  <2>1. /\ e = [x \in {"before", "newly_proved", "newly_unproved", "status_changed", "appeared",
                       "unchanged"} |-> e[x]]
        /\ e.before = d.before /\ e.newly_proved = d.newly_proved
        /\ e.newly_unproved = d.newly_unproved /\ e.status_changed = d.status_changed
        /\ e.appeared = Append(d.appeared, goal) /\ e.unchanged = d.unchanged
    BY <1>4, <1>9
  <2>2. e \in Differences(X)
    BY <1>4, <1>5, <2>1 DEF Differences
  <2>3. goal.id = id => bT = 0 /\ bF = 0
    <3>1. \A j \in DOMAIN d.before : d.before[j].id # goal.id
      <4>1. PICK before : before = d.before
        OBVIOUS
      <4>2. before \in Seq(X) /\ Match(before, goal) = {}
        BY <1>4, <1>9, <4>1
      <4>3. \A j \in DOMAIN before : before[j].id # goal.id
        BY <4>2, MatchIsClosest
      <4> QED
        BY <4>1, <4>3
    <3>2. goal.id = id => \A j \in DOMAIN d.before : d.before[j] \notin T /\ d.before[j] \notin F
      BY <3>1 DEF T, F, Proved, Unproved
    <3>3. PICK before : before = d.before
      OBVIOUS
    <3>4. before \in Seq(X)
      BY <1>4, <3>3
    <3>5. goal.id = id => HowMany(before, T) = 0 /\ HowMany(before, F) = 0
      BY <3>2, <3>3, <3>4, HowManyType
    <3> QED
      BY <1>6, <3>3, <3>5
  <2>4. HowMany(e.appeared, T) = aT + t /\ HowMany(e.appeared, F) = aF + f
    BY <1>4, <1>5, <1>6, <2>1
  <2>5. IsTally(e, X, id, previous, current, n + 1)
    <3>1. t + f > 0 => bT = 0 /\ bF = 0
      BY <1>1, <2>3
    <3>2. Balanced(qT, qF, bT, bF, pT, pF, uT, uF, xT, xF, aT + t, aF + f, eT, eF, cT + t, cF + f)
      <4>1. bT - 0 \in Nat /\ bF - 0 \in Nat
        OBVIOUS
      <4> QED
        BY <1>1, <3>1, <4>1, <1>8c
    <3> QED
      BY <1>2, <1>6, <1>7, <2>1, <2>4, <3>2 DEF IsTally, T, F
  <2>6. IsMeasured(e, previous, n + 1)
    <3>1. Len(Append(d.appeared, goal)) = a + 1
      BY <1>4, <1>5, <1>8a
    <3> QED
      BY <1>8a, <1>8b, <2>1, <3>1 DEF IsMeasured
  <2> QED
    BY <2>2, <2>5, <2>6
<1>10. ASSUME NEW i \in Match(d.before, goal), NEW was, was = d.before[i],
              NEW rest, rest = RemoveAt(d.before, i),
              \/ /\ ReceiptGoalIsProgress(goal) /\ ~ReceiptGoalIsProgress(was)
                 /\ e = [d EXCEPT !.before = rest, !.newly_proved = Append(@, goal)]
              \/ /\ ~ReceiptGoalIsProgress(goal) /\ ReceiptGoalIsProgress(was)
                 /\ e = [d EXCEPT !.before = rest, !.newly_unproved = Append(@, goal)]
              \/ /\ ReceiptGoalIsProgress(goal) <=> ReceiptGoalIsProgress(was)
                 /\ \/ e = [d EXCEPT !.before = rest, !.unchanged = Append(@, goal)]
                    \/ e = [d EXCEPT !.before = rest, !.status_changed = Append(@, goal)]
       PROVE  /\ e \in Differences(X)
              /\ IsTally(e, X, id, previous, current, n + 1)
              /\ IsMeasured(e, previous, n + 1)
  <2>1. /\ i \in DOMAIN d.before /\ was.id = goal.id /\ was \in X
        /\ (ReceiptGoalIsProgress(was) <=> ~ReceiptGoalIsProgress(goal)) =>
             \A j \in DOMAIN d.before : d.before[j].id = goal.id =>
               (ReceiptGoalIsProgress(d.before[j]) <=> ~ReceiptGoalIsProgress(goal))
    <3>1. PICK before : before = d.before
      OBVIOUS
    <3>2. before \in Seq(X) /\ i \in Match(before, goal) /\ was = before[i]
      BY <1>4, <1>10, <3>1
    <3>3. /\ i \in DOMAIN before /\ before[i].id = goal.id
          /\ (ReceiptGoalIsProgress(before[i]) <=> ~ReceiptGoalIsProgress(goal)) =>
               \A j \in DOMAIN before : before[j].id = goal.id =>
                 (ReceiptGoalIsProgress(before[j]) <=> ~ReceiptGoalIsProgress(goal))
      BY <3>2, MatchIsClosest
    <3>4. was \in X
      BY <3>2, <3>3
    <3> QED
      BY <3>1, <3>2, <3>3, <3>4
  <2>2. PICK wT \in {0, 1}, wF \in {0, 1} :
          /\ wT = one(was, T) /\ wF = one(was, F)
          /\ ~(wT = 1 /\ wF = 1)
          /\ goal.id # id => wT = 0 /\ wF = 0
          /\ goal.id = id => (wT = 1 <=> ReceiptGoalIsProgress(was))
                             /\ (wF = 1 <=> ~ReceiptGoalIsProgress(was))
    BY <2>1 DEF Proved, Unproved, T, F, one
  <2>3. /\ rest \in Seq(X) /\ Len(rest) = Len(d.before) - 1
        /\ HowMany(rest, T) = bT - wT /\ HowMany(rest, F) = bF - wF
    <3>1. PICK before : before = d.before
      OBVIOUS
    <3>2. before \in Seq(X) /\ i \in DOMAIN before /\ was = before[i] /\ rest = RemoveAt(before, i)
      BY <1>4, <1>10, <2>1, <3>1
    <3>3. rest \in Seq(X) /\ Len(rest) = Len(before) - 1
      BY <3>2, Removed
    <3>4. HowMany(rest, T) = HowMany(before, T) - one(before[i], T)
      BY <3>2, HowManyRemove DEF one
    <3>5. HowMany(rest, F) = HowMany(before, F) - one(before[i], F)
      BY <3>2, HowManyRemove DEF one
    <3> QED
      BY <1>6, <2>2, <3>1, <3>2, <3>3, <3>4, <3>5
  <2>4. bT - wT \in Nat /\ bF - wF \in Nat
    BY <1>5, <2>3
  <2>5. ASSUME ReceiptGoalIsProgress(was) <=> ~ReceiptGoalIsProgress(goal), goal.id = id
        PROVE  /\ ReceiptGoalIsProgress(goal) => bT = 0
               /\ ~ReceiptGoalIsProgress(goal) => bF = 0
    <3>1. \A j \in DOMAIN d.before : d.before[j].id = id =>
            (ReceiptGoalIsProgress(d.before[j]) <=> ~ReceiptGoalIsProgress(goal))
      BY <2>1, <2>5
    <3>2. /\ ReceiptGoalIsProgress(goal) => \A j \in DOMAIN d.before : d.before[j] \notin T
          /\ ~ReceiptGoalIsProgress(goal) => \A j \in DOMAIN d.before : d.before[j] \notin F
      BY <3>1 DEF T, F, Proved, Unproved
    <3>3. PICK before : before = d.before
      OBVIOUS
    <3>4. before \in Seq(X)
      BY <1>4, <3>3
    <3>5. /\ ReceiptGoalIsProgress(goal) => HowMany(before, T) = 0
          /\ ~ReceiptGoalIsProgress(goal) => HowMany(before, F) = 0
      BY <3>2, <3>3, <3>4, HowManyType
    <3> QED
      BY <1>6, <3>3, <3>5
  <2>6. CASE /\ ReceiptGoalIsProgress(goal) /\ ~ReceiptGoalIsProgress(was)
             /\ e = [d EXCEPT !.before = rest, !.newly_proved = Append(@, goal)]
    <3>1. /\ e = [x \in {"before", "newly_proved", "newly_unproved", "status_changed", "appeared",
                         "unchanged"} |-> e[x]]
          /\ e.before = rest /\ e.newly_proved = Append(d.newly_proved, goal)
          /\ e.newly_unproved = d.newly_unproved /\ e.status_changed = d.status_changed
          /\ e.appeared = d.appeared /\ e.unchanged = d.unchanged
      BY <1>4, <2>6
    <3>2. e \in Differences(X)
      BY <1>4, <1>5, <2>3, <3>1 DEF Differences
    <3>3. HowMany(e.newly_proved, T) = pT + t /\ HowMany(e.newly_proved, F) = pF + f
      BY <1>4, <1>5, <1>6, <3>1
    <3>4. f = 0 /\ wT = 0 /\ t = wF /\ (t = 1 => bT = 0)
      BY <1>1, <2>2, <2>5, <2>6
    <3>5. Balanced(qT, qF, bT - wT, bF - wF, pT + t, pF + f, uT, uF, xT, xF, aT, aF, eT, eF,
                   cT + t, cF + f)
      <4>1. t > 0 => bT = 0
        BY <1>1, <3>4
      <4> QED
        BY <2>2, <2>4, <3>4, <4>1, <1>8c
    <3>6. IsTally(e, X, id, previous, current, n + 1)
      BY <1>2, <1>6, <1>7, <2>3, <3>1, <3>3, <3>5 DEF IsTally, T, F
    <3>7. IsMeasured(e, previous, n + 1)
      <4>1. Len(Append(d.newly_proved, goal)) = p + 1
        BY <1>4, <1>5, <1>8a
      <4> QED
        BY <1>8a, <1>8b, <2>3, <3>1, <4>1 DEF IsMeasured
    <3> QED
      BY <3>2, <3>6, <3>7
  <2>7. CASE /\ ~ReceiptGoalIsProgress(goal) /\ ReceiptGoalIsProgress(was)
             /\ e = [d EXCEPT !.before = rest, !.newly_unproved = Append(@, goal)]
    <3>1. /\ e = [x \in {"before", "newly_proved", "newly_unproved", "status_changed", "appeared",
                         "unchanged"} |-> e[x]]
          /\ e.before = rest /\ e.newly_proved = d.newly_proved
          /\ e.newly_unproved = Append(d.newly_unproved, goal)
          /\ e.status_changed = d.status_changed
          /\ e.appeared = d.appeared /\ e.unchanged = d.unchanged
      BY <1>4, <2>7
    <3>2. e \in Differences(X)
      BY <1>4, <1>5, <2>3, <3>1 DEF Differences
    <3>3. HowMany(e.newly_unproved, T) = uT + t /\ HowMany(e.newly_unproved, F) = uF + f
      BY <1>4, <1>5, <1>6, <3>1
    <3>4. t = 0 /\ wF = 0 /\ f = wT /\ (f = 1 => bF = 0)
      BY <1>1, <2>2, <2>5, <2>7
    <3>5. Balanced(qT, qF, bT - wT, bF - wF, pT, pF, uT + t, uF + f, xT, xF, aT, aF, eT, eF,
                   cT + t, cF + f)
      <4>1. f > 0 => bF = 0
        BY <1>1, <3>4
      <4> QED
        BY <2>2, <2>4, <3>4, <4>1, <1>8c
    <3>6. IsTally(e, X, id, previous, current, n + 1)
      BY <1>2, <1>6, <1>7, <2>3, <3>1, <3>3, <3>5 DEF IsTally, T, F
    <3>7. IsMeasured(e, previous, n + 1)
      <4>1. Len(Append(d.newly_unproved, goal)) = u + 1
        BY <1>4, <1>5, <1>8a
      <4> QED
        BY <1>8a, <1>8b, <2>3, <3>1, <4>1 DEF IsMeasured
    <3> QED
      BY <3>2, <3>6, <3>7
  <2>8. CASE /\ ReceiptGoalIsProgress(goal) <=> ReceiptGoalIsProgress(was)
             /\ e = [d EXCEPT !.before = rest, !.unchanged = Append(@, goal)]
    <3>1. /\ e = [x \in {"before", "newly_proved", "newly_unproved", "status_changed", "appeared",
                         "unchanged"} |-> e[x]]
          /\ e.before = rest /\ e.newly_proved = d.newly_proved
          /\ e.newly_unproved = d.newly_unproved /\ e.status_changed = d.status_changed
          /\ e.appeared = d.appeared /\ e.unchanged = Append(d.unchanged, goal)
      BY <1>4, <2>8
    <3>2. e \in Differences(X)
      BY <1>4, <1>5, <2>3, <3>1 DEF Differences
    <3>3. HowMany(e.unchanged, T) = eT + t /\ HowMany(e.unchanged, F) = eF + f
      BY <1>4, <1>5, <1>6, <3>1
    <3>4. t = wT /\ f = wF
      BY <1>1, <2>2, <2>8
    <3>5. Balanced(qT, qF, bT - wT, bF - wF, pT, pF, uT, uF, xT, xF, aT, aF, eT + t, eF + f,
                   cT + t, cF + f)
      BY <1>1, <2>4, <3>4, <1>8c
    <3>6. IsTally(e, X, id, previous, current, n + 1)
      BY <1>2, <1>6, <1>7, <2>3, <3>1, <3>3, <3>5 DEF IsTally, T, F
    <3>7. IsMeasured(e, previous, n + 1)
      <4>1. Len(Append(d.unchanged, goal)) = m + 1
        BY <1>4, <1>5, <1>8a
      <4> QED
        BY <1>8a, <1>8b, <2>3, <3>1, <4>1 DEF IsMeasured
    <3> QED
      BY <3>2, <3>6, <3>7
  <2>9. CASE /\ ReceiptGoalIsProgress(goal) <=> ReceiptGoalIsProgress(was)
             /\ e = [d EXCEPT !.before = rest, !.status_changed = Append(@, goal)]
    <3>1. /\ e = [x \in {"before", "newly_proved", "newly_unproved", "status_changed", "appeared",
                         "unchanged"} |-> e[x]]
          /\ e.before = rest /\ e.newly_proved = d.newly_proved
          /\ e.newly_unproved = d.newly_unproved
          /\ e.status_changed = Append(d.status_changed, goal)
          /\ e.appeared = d.appeared /\ e.unchanged = d.unchanged
      BY <1>4, <2>9
    <3>2. e \in Differences(X)
      BY <1>4, <1>5, <2>3, <3>1 DEF Differences
    <3>3. HowMany(e.status_changed, T) = xT + t /\ HowMany(e.status_changed, F) = xF + f
      BY <1>4, <1>5, <1>6, <3>1
    <3>4. t = wT /\ f = wF
      BY <1>1, <2>2, <2>9
    <3>5. Balanced(qT, qF, bT - wT, bF - wF, pT, pF, uT, uF, xT + t, xF + f, aT, aF, eT, eF,
                   cT + t, cF + f)
      BY <1>1, <2>4, <3>4, <1>8c
    <3>6. IsTally(e, X, id, previous, current, n + 1)
      BY <1>2, <1>6, <1>7, <2>3, <3>1, <3>3, <3>5 DEF IsTally, T, F
    <3>7. IsMeasured(e, previous, n + 1)
      <4>1. Len(Append(d.status_changed, goal)) = o + 1
        BY <1>4, <1>5, <1>8a
      <4> QED
        BY <1>8a, <1>8b, <2>3, <3>1, <4>1 DEF IsMeasured
    <3> QED
      BY <3>2, <3>6, <3>7
  <2> QED
    BY <1>10, <2>6, <2>7, <2>8, <2>9, Zenon
<1> QED
  BY <1>9, <1>10, Zenon DEF IsCompared

\* Nothing is lost and nothing is reported before the first goal.
LEMMA TallyBegins ==
  ASSUME NEW X, NEW previous \in Seq(X), NEW current, NEW id
  PROVE  /\ NoDiff(previous) \in Differences(X)
         /\ IsTally(NoDiff(previous), X, id, previous, current, 0)
         /\ IsMeasured(NoDiff(previous), previous, 0)
<1>1. PICK none \in Seq(X) : none = <<>> /\ Len(none) = 0
  <2>1. <<>> \in Seq(X) /\ Len(<<>>) = 0
    OBVIOUS
  <2> QED
    BY <2>1
<1>2. \A S : HowMany(none, S) = 0 /\ Occurs(current, 0, S) = 0
  <2>1. ASSUME NEW S PROVE Occurs(none, 0, S) = 0 /\ Occurs(current, 0, S) = 0
    <3>1. 0 \in Nat
      OBVIOUS
    <3> QED
      BY <3>1, OccursType
  <2> QED
    BY <1>1, <2>1 DEF HowMany
<1>3. NoDiff(previous) =
        [before |-> previous, newly_proved |-> none, newly_unproved |-> none,
         status_changed |-> none, appeared |-> none, unchanged |-> none]
  BY <1>1 DEF NoDiff
<1>4. \A q, r \in Nat : Balanced(q, r, q, r, 0, 0, 0, 0, 0, 0, 0, 0, 0, 0, 0, 0)
  BY DEF Balanced
<1>5. \A q \in Nat : Sized(0, q, q, 0, 0, 0, 0, 0)
  BY DEF Sized
<1>6. \A S : HowMany(previous, S) \in Nat
  BY HowManyType
<1>7. NoDiff(previous) \in Differences(X)
  BY <1>1, <1>3 DEF Differences
<1>8. IsTally(NoDiff(previous), X, id, previous, current, 0)
  BY <1>2, <1>3, <1>4, <1>6 DEF IsTally
<1>9. IsMeasured(NoDiff(previous), previous, 0)
  <2>1. Len(previous) \in Nat
    OBVIOUS
  <2> QED
    BY <1>1, <1>3, <1>5, <2>1 DEF IsMeasured
<1> QED
  BY <1>7, <1>8, <1>9

\* A difference after n goals.
IsAfter(d, X, previous, current, n) ==
  /\ d \in Differences(X) /\ IsMeasured(d, previous, n)
  /\ \A id : IsTally(d, X, id, previous, current, n)

\* The answer of proof_goal_diff is the difference after the last goal.
IsDiffOf(a, d, X, previous, current) ==
  /\ IsAfter(d, X, previous, current, Len(current))
  /\ a.previous = previous /\ a.current = current
  /\ a.newly_proved = d.newly_proved /\ a.newly_unproved = d.newly_unproved
  /\ a.status_changed = d.status_changed /\ a.appeared = d.appeared
  /\ a.unchanged = d.unchanged /\ a.disappeared = d.before

\* The loop of proof_goal_diff ends with every goal of the current run compared.
LEMMA Diffed ==
  ASSUME NEW X, NEW previous \in Seq(X), NEW current \in Seq(X)
  PROVE  \E d : IsDiffOf(ProofGoalDiff(previous, current), d, X, previous, current)
<1> DEFINE S == Differences(X)
           F == [n \in Nat |-> [s \in S |-> IF Compare(s, current[n + 1]) \in S
                                            THEN Compare(s, current[n + 1]) ELSE s]]
           After(d, n) == IsAfter(d, X, previous, current, n)
<1>1. PICK g : Recurs(g, S, NoDiff(previous), F)
  <2>1. F \in [Nat -> [S -> S]]
    OBVIOUS
  <2>2. NoDiff(previous) \in S
    BY TallyBegins
  <2> HIDE DEF S, F
  <2> QED
    BY <2>1, <2>2, Recursion
<1>2. /\ g[0] = NoDiff(previous) /\ g \in [Nat -> S]
      /\ \A n \in Nat : Compare(g[n], current[n + 1]) \in S => g[n + 1] = Compare(g[n], current[n + 1])
  BY <1>1 DEF Recurs
<1>3. ASSUME NEW n \in Nat, n + 1 \in 1..Len(current), After(g[n], n)
      PROVE  After(g[n + 1], n + 1) /\ g[n + 1] = Compare(g[n], current[n + 1])
  <2>1. PICK d, goal, e : d = g[n] /\ goal = current[n + 1] /\ e = Compare(d, goal)
    OBVIOUS
  <2>2. goal \in X /\ d \in Differences(X) /\ IsMeasured(d, previous, n)
        /\ \A id : IsTally(d, X, id, previous, current, n)
    BY <1>3, <2>1 DEF IsAfter
  <2>3. IsCompared(d, goal, e)
    BY <2>1, <2>2, Compared
  <2>4. ASSUME NEW id
        PROVE  /\ e \in Differences(X) /\ IsTally(e, X, id, previous, current, n + 1)
               /\ IsMeasured(e, previous, n + 1)
    <3>1. IsTally(d, X, id, previous, current, n) /\ goal = current[n + 1] /\ n \in Nat
      BY <2>1, <2>2
    <3> QED
      BY <2>2, <2>3, <3>1, TallyGoesOn, ZenonT(60)
  <2>5. IsAfter(e, X, previous, current, n + 1)
    BY <2>4 DEF IsAfter
  <2> QED
    BY <1>2, <2>1, <2>4, <2>5
<1>4. \A n \in Nat : n \in 0..Len(current) => After(g[n], n)
  <2> DEFINE N == {n \in Nat : n \in 0..Len(current) => After(g[n], n)}
  <2>1. 0 \in N
    BY <1>2, TallyBegins DEF IsAfter
  <2>2. ASSUME NEW n \in N PROVE n + 1 \in N
    <3>1. CASE n + 1 \in 0..Len(current)
      <4>1. n \in Nat /\ n \in 0..Len(current) /\ n + 1 \in 1..Len(current)
        BY <3>1
      <4> QED
        BY <1>3, <4>1
    <3> QED
      BY <3>1
  <2> HIDE DEF N
  <2>3. N = Nat
    BY <2>1, <2>2, Induction DEF N
  <2> QED
    BY <2>3 DEF N
<1> DEFINE Loop(diff) ==
      [n \in 0..Len(current) |->
         IF n = 0 THEN NoDiff(previous) ELSE Compare(diff[n - 1], current[n])]
           h == [n \in 0..Len(current) |-> g[n]]
<1>5. h = Loop(h)
  <2>1. ASSUME NEW n \in 0..Len(current) PROVE h[n] = Loop(h)[n]
    <3>1. CASE n = 0
      BY <1>2, <3>1
    <3>2. CASE n # 0
      <4>1. n - 1 \in Nat /\ n - 1 \in 0..Len(current) /\ (n - 1) + 1 = n /\ n \in 1..Len(current)
        BY <3>2
      <4>2. g[n] = Compare(g[n - 1], current[n])
        BY <1>3, <1>4, <4>1
      <4> QED
        BY <3>2, <4>1, <4>2
    <3> QED
      BY <3>1, <3>2
  <2> QED
    BY <2>1
<1> DEFINE diff == CHOOSE diff : diff = Loop(diff)
<1>6. diff = Loop(diff)
  <2> HIDE DEF h
  <2> QED
    BY <1>5
<1>7. \A n \in Nat : n \in 0..Len(current) => diff[n] = g[n]
  <2> DEFINE N == {n \in Nat : n \in 0..Len(current) => diff[n] = g[n]}
  <2> HIDE DEF diff
  <2>1. 0 \in N
    BY <1>2, <1>6
  <2>2. ASSUME NEW n \in N PROVE n + 1 \in N
    <3>1. CASE n + 1 \in 0..Len(current)
      <4>1. n \in Nat /\ n \in 0..Len(current) /\ n + 1 \in 1..Len(current) /\ n + 1 # 0
            /\ (n + 1) - 1 = n
        BY <3>1
      <4>2. diff[n + 1] = Compare(diff[n], current[n + 1])
        BY <1>6, <3>1, <4>1
      <4>3. g[n + 1] = Compare(g[n], current[n + 1])
        BY <1>3, <1>4, <4>1
      <4> QED
        BY <4>1, <4>2, <4>3
    <3> QED
      BY <3>1
  <2> HIDE DEF N
  <2>3. N = Nat
    BY <2>1, <2>2, Induction DEF N
  <2> QED
    BY <2>3 DEF N
<1>8. PICK a, d : a = ProofGoalDiff(previous, current) /\ d = diff[Len(current)]
  OBVIOUS
<1>9. /\ a.previous = previous /\ a.current = current
      /\ a.newly_proved = d.newly_proved /\ a.newly_unproved = d.newly_unproved
      /\ a.status_changed = d.status_changed /\ a.appeared = d.appeared
      /\ a.unchanged = d.unchanged /\ a.disappeared = d.before
  <2>1. PICK c :
          a = [kind |-> "diff", previous |-> previous, current |-> current,
               newly_proved |-> d.newly_proved, newly_unproved |-> d.newly_unproved,
               status_changed |-> d.status_changed, appeared |-> d.appeared,
               unchanged |-> d.unchanged, disappeared |-> d.before, comparable |-> c]
    BY <1>8, Zenon DEF ProofGoalDiff
  <2> QED
    BY <2>1
<1> HIDE DEF diff
<1>10. IsAfter(d, X, previous, current, Len(current))
  <2>1. Len(current) \in Nat /\ Len(current) \in 0..Len(current)
    OBVIOUS
  <2> QED
    BY <1>4, <1>7, <1>8, <2>1
<1>11. IsDiffOf(a, d, X, previous, current)
  BY <1>9, <1>10 DEF IsDiffOf
<1> QED
  BY <1>8, <1>11

-----------------------------------------------------------------------------
(* What the difference says *)

\* The goals of an id are the proved and the others.
LEMMA Counted ==
  ASSUME NEW X, NEW s \in Seq(X), NEW id
  PROVE  /\ HowMany(s, Proved(X, id)) \in Nat /\ HowMany(s, Unproved(X, id)) \in Nat
         /\ Count(s, id, TRUE) = HowMany(s, Proved(X, id))
         /\ Number(s, id) = HowMany(s, Proved(X, id)) + HowMany(s, Unproved(X, id))
<1> DEFINE P == Places(s, Len(s), Proved(X, id))
           U == Places(s, Len(s), Unproved(X, id))
<1>1. Len(s) \in Nat /\ DOMAIN s = 1..Len(s) /\ \A i \in 1..Len(s) : s[i] \in X
  OBVIOUS
<1>2. P = {i \in DOMAIN s : s[i].id = id /\ ReceiptGoalIsProgress(s[i]) = TRUE}
  BY <1>1 DEF Places, Proved, ReceiptGoalIsProgress
<1>3. P \cup U = {i \in DOMAIN s : s[i].id = id} /\ P \cap U = {}
  BY <1>1 DEF Places, Proved, Unproved
<1>4. IsFiniteSet(P) /\ IsFiniteSet(U) /\ Cardinality(P) \in Nat /\ Cardinality(U) \in Nat
  BY <1>1, OccursType, FS_CardinalityType
<1>5. Cardinality(P) = HowMany(s, Proved(X, id)) /\ Cardinality(U) = HowMany(s, Unproved(X, id))
  BY DEF HowMany, Occurs
<1> HIDE DEF P, U
<1>6. Cardinality(P \cup U) = Cardinality(P) + Cardinality(U)
  <2>1. Cardinality(P \cup U) = Cardinality(P) + Cardinality(U) - Cardinality(P \cap U)
    BY <1>4, FS_Union
  <2>2. Cardinality(P \cap U) = 0
    BY <1>3, FS_EmptySet
  <2> QED
    BY <1>4, <2>1, <2>2
<1> QED
  BY <1>2, <1>3, <1>4, <1>5, <1>6 DEF Count, Number

\* What DiffIsHonest says of an answer.
DiffSays(d) ==
  /\ Len(d.current) = Len(d.newly_proved) + Len(d.newly_unproved) + Len(d.status_changed)
                      + Len(d.appeared) + Len(d.unchanged)
  /\ Len(d.previous) = Len(d.current) - Len(d.appeared) + Len(d.disappeared)
  /\ \A id : Number(d.previous, id) = Number(d.current, id) =>
       /\ Number(d.newly_proved, id) - Number(d.newly_unproved, id)
            = Count(d.current, id, TRUE) - Count(d.previous, id, TRUE)
       /\ Number(d.newly_proved, id) = 0 \/ Number(d.newly_unproved, id) = 0

\* What the loop kept is what is said.
LEMMA DiffHolds ==
  ASSUME NEW X, NEW previous \in Seq(X), NEW current \in Seq(X),
         NEW a, a = ProofGoalDiff(previous, current)
  PROVE  DiffSays(a)
<1>1. PICK d : IsDiffOf(a, d, X, previous, current)
  BY Diffed
<1>2. /\ d \in Differences(X) /\ IsMeasured(d, previous, Len(current))
      /\ \A id : IsTally(d, X, id, previous, current, Len(current))
      /\ a.previous = previous /\ a.current = current
      /\ a.newly_proved = d.newly_proved /\ a.newly_unproved = d.newly_unproved
      /\ a.status_changed = d.status_changed /\ a.appeared = d.appeared
      /\ a.unchanged = d.unchanged /\ a.disappeared = d.before
  BY <1>1 DEF IsDiffOf, IsAfter
<1>3. /\ d.before \in Seq(X) /\ d.newly_proved \in Seq(X) /\ d.newly_unproved \in Seq(X)
      /\ d.status_changed \in Seq(X) /\ d.appeared \in Seq(X) /\ d.unchanged \in Seq(X)
  BY <1>2 DEF Differences
<1>4. \A s \in Seq(X) : Len(s) \in Nat
  OBVIOUS
<1>5. /\ Len(current) = Len(d.newly_proved) + Len(d.newly_unproved) + Len(d.status_changed)
                        + Len(d.appeared) + Len(d.unchanged)
      /\ Len(previous) = Len(current) - Len(d.appeared) + Len(d.before)
  <2>1. PICK n \in Nat, q \in Nat, b \in Nat, p \in Nat, u \in Nat, x \in Nat, c \in Nat, e \in Nat :
          /\ n = Len(current) /\ q = Len(previous) /\ b = Len(d.before)
          /\ p = Len(d.newly_proved) /\ u = Len(d.newly_unproved)
          /\ x = Len(d.status_changed) /\ c = Len(d.appeared) /\ e = Len(d.unchanged)
    BY <1>3, <1>4, Zenon
  <2>2. n = p + u + x + c + e /\ q = b + p + u + x + e
    BY <1>2, <2>1 DEF IsMeasured, Sized
  <2>3. q = n - c + b
    BY <2>2
  <2> QED
    BY <2>1, <2>2, <2>3
<1>6. ASSUME NEW id, Number(previous, id) = Number(current, id)
      PROVE  /\ Number(d.newly_proved, id) - Number(d.newly_unproved, id)
                  = Count(current, id, TRUE) - Count(previous, id, TRUE)
             /\ Number(d.newly_proved, id) = 0 \/ Number(d.newly_unproved, id) = 0
  <2> DEFINE T == Proved(X, id)
             F == Unproved(X, id)
  <2>1. ASSUME NEW s \in Seq(X)
        PROVE  /\ HowMany(s, T) \in Nat /\ HowMany(s, F) \in Nat
               /\ Count(s, id, TRUE) = HowMany(s, T)
               /\ Number(s, id) = HowMany(s, T) + HowMany(s, F)
    BY Counted
  <2>2. Balanced(HowMany(previous, T), HowMany(previous, F), HowMany(d.before, T), HowMany(d.before, F),
              HowMany(d.newly_proved, T), HowMany(d.newly_proved, F),
              HowMany(d.newly_unproved, T), HowMany(d.newly_unproved, F),
              HowMany(d.status_changed, T), HowMany(d.status_changed, F),
              HowMany(d.appeared, T), HowMany(d.appeared, F),
              HowMany(d.unchanged, T), HowMany(d.unchanged, F),
              HowMany(current, T), HowMany(current, F))
    BY <1>2 DEF IsTally, HowMany
  <2> HIDE DEF T, F
  <2>3. PICK qT \in Nat, qF \in Nat, bT \in Nat, bF \in Nat, pT \in Nat, pF \in Nat, uT \in Nat,
             uF \in Nat, xT \in Nat, xF \in Nat, aT \in Nat, aF \in Nat, eT \in Nat, eF \in Nat,
             cT \in Nat, cF \in Nat :
          /\ qT = HowMany(previous, T) /\ qF = HowMany(previous, F)
          /\ bT = HowMany(d.before, T) /\ bF = HowMany(d.before, F)
          /\ pT = HowMany(d.newly_proved, T) /\ pF = HowMany(d.newly_proved, F)
          /\ uT = HowMany(d.newly_unproved, T) /\ uF = HowMany(d.newly_unproved, F)
          /\ xT = HowMany(d.status_changed, T) /\ xF = HowMany(d.status_changed, F)
          /\ aT = HowMany(d.appeared, T) /\ aF = HowMany(d.appeared, F)
          /\ eT = HowMany(d.unchanged, T) /\ eF = HowMany(d.unchanged, F)
          /\ cT = HowMany(current, T) /\ cF = HowMany(current, F)
    BY <1>3, <2>1, Zenon
  <2>4. Balanced(qT, qF, bT, bF, pT, pF, uT, uF, xT, xF, aT, aF, eT, eF, cT, cF)
    BY <2>2, <2>3
  <2>5. qT + qF = cT + cF
    BY <1>6, <2>1, <2>3
  <2>6. (pT + pF) - (uT + uF) = cT - qT /\ (pT + pF = 0 \/ uT + uF = 0)
    <3>1. /\ pF = 0 /\ uT = 0
          /\ qT = bT + uF + xT + eT
          /\ qF = bF + pT + xF + eF
          /\ cT = pT + aT + xT + eT
          /\ cF = uF + aF + xF + eF
          /\ aT + aF > 0 => bT = 0 /\ bF = 0
          /\ ~(pT > 0 /\ uF > 0)
      BY <2>4 DEF Balanced
    <3>2. bT + bF = aT + aF
      BY <2>5, <3>1
    <3>3. bT = 0 /\ bF = 0 /\ aT = 0 /\ aF = 0
      BY <3>1, <3>2
    <3> QED
      BY <3>1, <3>3
  <2> QED
    BY <1>3, <2>1, <2>3, <2>6
<1> QED
  BY <1>2, <1>5, <1>6 DEF DiffSays

-----------------------------------------------------------------------------
(* The goal tables *)

\* A list of goals, however long.
IsTable(s) == s \in Seq(ToSet(s))

\* What is remembered of runs, and the run of a check under way.
TablesOK ==
  /\ \A r \in ToSet(session.ring) : IsTable(r.rows)
  /\ check # None => IsTable(check.rows)

\* A function on 1..n is a table.
LEMMA Tables ==
  ASSUME NEW n \in Nat, NEW s, s = [i \in 1..n |-> s[i]]
  PROVE  IsTable(s)
<1>1. PICK X : X = ToSet(s)
  OBVIOUS
<1>2. \A i \in 1..n : s[i] \in X
  BY <1>1 DEF ToSet
<1>3. s \in [1..n -> X]
  BY <1>2
<1>4. s \in Seq(X)
  BY <1>3
<1> QED
  BY <1>1, <1>4 DEF IsTable

\* The goals of a run are a table, and so is what a receipt keeps of them.
LEMMA GoalsAreTables ==
  ASSUME NEW functions \in SUBSET Functions, NEW verdict, NEW goals \in GoalRows(functions, verdict)
  PROVE  IsTable(goals)
<1>1. CASE case.compared
  BY <1>1, CampaignAssumption DEF GoalRows, IsTable
<1>2. CASE ~case.compared
  <2>1. PICK n \in Nat : n = Cardinality(functions)
    BY CampaignAssumption, FS_Subset, FS_CardinalityType
  <2>2. goals = [i \in 1..n |->
                  [id |-> i, fct |-> SetToSortSeq(functions, <)[i],
                   status |-> IF verdict = "proved" THEN "valid" ELSE "timeout", vacuous |-> FALSE]]
    BY <1>2, <2>1 DEF GoalRows
  <2>3. goals = [i \in 1..n |-> goals[i]]
    BY <2>2
  <2> QED
    BY <2>3, Tables
<1> QED
  BY <1>1, <1>2

\* Sorting keeps a table one.
LEMMA SortedIsTable ==
  ASSUME NEW s, IsTable(s)
  PROVE  IsTable(ProofReceiptGoals(s))
<1>1. PICK n \in Nat : DOMAIN s = 1..n
  BY DEF IsTable
<1>2. PICK t : t = ProofReceiptGoals(s)
  OBVIOUS
<1>3. t = [i \in 1..n |-> t[i]]
  BY <1>1, <1>2 DEF ProofReceiptGoals
<1> QED
  BY <1>2, <1>3, Tables

\* A receipt keeps the table of its run.
LEMMA ReceiptTable ==
  ASSUME NEW tool, NEW run, NEW project, NEW text, NEW r, r = ProofReceipt(tool, run, project, text),
         IsTable(run.rows)
  PROVE  IsTable(r.rows)
<1> DEFINE b == [tool |-> tool, files |-> ProofReceiptSourceFiles(run.files, text),
                 load |-> ProjectLoad(run.files, project),
                 model |-> run.model, prop |-> run.prop, functions |-> run.functions,
                 rows |-> ProofReceiptGoals(run.rows),
                 goals |-> Len(run.rows), verdict |-> run.verdict, env |-> "env",
                 over |-> run.over]
<1>1. r.rows = b.rows
  BY Zenon DEF ProofReceipt
<1>2. b.rows = ProofReceiptGoals(run.rows)
  BY Zenon
<1> QED
  BY <1>1, <1>2, SortedIsTable

\* A ring gains one receipt at most.
LEMMA RingGains ==
  ASSUME NEW ring, ring \in Seq(ToSet(ring)), NEW r
  PROVE  ToSet(RememberReceipt(ring, r, ReceiptLimit)) \subseteq ToSet(ring) \cup {r}
<1>1. PICK S, after : S = ToSet(ring) /\ after = RememberReceipt(ring, r, ReceiptLimit)
  OBVIOUS
<1>2. ring \in Seq(S)
  BY <1>1
<1>3. CASE Contains(ring, r)
  BY <1>1, <1>3 DEF RememberReceipt
<1>4. CASE ~Contains(ring, r)
  <2>1. after = Append(IF Len(ring) >= ReceiptLimit THEN Tail(ring) ELSE ring, r)
    BY <1>1, <1>4 DEF RememberReceipt
  <2>2. PICK base \in Seq(S) : after = Append(base, r)
    <3>1. CASE ring = <<>>
      <4>1. ~(Len(ring) >= ReceiptLimit)
        BY <3>1, CampaignAssumption
      <4> QED
        BY <1>2, <2>1, <4>1
    <3>2. CASE ring # <<>>
      <4>1. Tail(ring) \in Seq(S)
        BY <1>2, <3>2
      <4> QED
        BY <1>2, <2>1, <4>1
    <3> QED
      BY <3>1, <3>2
  <2>3. ToSet(after) \subseteq S \cup {r}
    BY <2>2 DEF ToSet
  <2> QED
    BY <1>1, <2>3
<1> QED
  BY <1>3, <1>4

\* The program of a project.
LEMMA ProjectGraph ==
  ASSUME EvidenceInv, main # None
  PROVE  main.graph.defined \subseteq Functions
<1>1. main \in Project(case)
  BY DEF EvidenceInv
<1>2. main.graph \in ToSet(case.graphs)
  BY <1>1 DEF Project
<1> QED
  BY <1>2 DEF EvidenceInv, IsCampaign

\* Tables stay when receipts only go.
LEMMA TablesStay ==
  ASSUME TablesOK, NEW ring, session'.ring = ring, ring = session.ring \/ ring = <<>>,
         \/ UNCHANGED check \/ check' = None
         \/ check # None /\ check'.rows = check.rows
  PROVE  TablesOK'
<1>1. ToSet(session'.ring) \subseteq ToSet(session.ring)
  BY EmptyRing
<1>2. \A r \in ToSet(session'.ring) : IsTable(r.rows)
  BY <1>1 DEF TablesOK
<1>3. check' # None => IsTable(check'.rows)
  BY DEF TablesOK
<1> QED
  BY <1>2, <1>3 DEF TablesOK, IsTable

\* A disturbed check keeps its goals.
LEMMA DisturbedTable ==
  ASSUME EvidenceInv, check' = Disturbed(check)
  PROVE  check' = None \/ (check # None /\ check'.rows = check.rows)
<1>1. CASE check = None
  BY <1>1 DEF Disturbed
<1>2. CASE check # None
  <2>1. check = [x \in CheckFields |-> check[x]]
    BY <1>2 DEF EvidenceInv, CheckOK
  <2>2. PICK over : over = [check.over EXCEPT !.disturbed = TRUE]
    OBVIOUS
  <2>3. check' = [check EXCEPT !.over = over]
    BY <1>2, <2>1, <2>2 DEF Disturbed, CheckFields
  <2> QED
    BY <1>2, <2>1, <2>3 DEF CheckFields
<1> QED
  BY <1>1, <1>2

\* A load forgets the receipts.
LEMMA LoadEmptiesRing ==
  ASSUME NEW s, s = [x \in SessionFields |-> s[x]], NEW graph,
         NEW after, after = AfterLoad(s, graph)
  PROVE  after = [x \in SessionFields |-> after[x]] /\ after.ring = <<>>
<1>1. PICK defined, cache, empty : defined = graph.defined /\ cache = NoGraph /\ empty = <<>>
  OBVIOUS
<1>2. after = [s EXCEPT !.loaded = TRUE, !.defined = defined, !.cache = cache, !.ring = empty]
  BY <1>1 DEF AfterLoad
<1> QED
  BY <1>1, <1>2 DEF SessionFields

\* A receipt with a table of goals may be remembered.
LEMMA TablesGrow ==
  ASSUME TablesOK, NEW s, s = [x \in SessionFields |-> s[x]], s.ring \in Seq(ToSet(s.ring)),
         s.ring = session.ring \/ s.ring = <<>>, NEW r, IsTable(r.rows),
         session' = [s EXCEPT !.ring = RememberReceipt(@, r, ReceiptLimit)],
         check' = None \/ check' = check \/ IsTable(check'.rows)
  PROVE  TablesOK'
<1>1. PICK ring : ring = RememberReceipt(s.ring, r, ReceiptLimit)
  OBVIOUS
<1>2. session' = [s EXCEPT !.ring = ring]
  BY <1>1
<1>3. session'.ring = ring
  BY <1>2 DEF SessionFields
<1>4. ToSet(s.ring) \subseteq ToSet(session.ring)
  BY EmptyRing
<1>5. ToSet(ring) \subseteq ToSet(s.ring) \cup {r}
  BY <1>1, RingGains
<1>6. \A q \in ToSet(ring) : IsTable(q.rows)
  BY <1>4, <1>5 DEF TablesOK
<1> QED
  BY <1>3, <1>6 DEF TablesOK, IsTable

\* A check remembers its goals.
LEMMA CheckEndTables ==
  ASSUME EvidenceInv, TablesOK, CheckEnd
  PROVE  TablesOK'
<1>1. PICK r : r = ProofReceipt("check", check, main, disk)
  OBVIOUS
<1>2. /\ check # None /\ check' = None
      /\ session' = [session EXCEPT !.ring = RememberReceipt(@, r, ReceiptLimit)]
  BY <1>1 DEF CheckEnd
<1>3. IsTable(r.rows)
  BY <1>1, <1>2, ReceiptTable DEF TablesOK
<1> QED
  BY <1>2, <1>3, TablesGrow DEF EvidenceInv, SessionOK

\* A run remembers its goals.
LEMMA RunWpTables ==
  ASSUME EvidenceInv, TablesOK, NEW functions, NEW prop, RunWp(functions, prop)
  PROVE  TablesOK'
<1>1. functions \subseteq Functions
  BY ProjectGraph DEF RunWp
<1>2. PICK goals \in GoalRows(functions, "incomplete") :
        LET r == ProofReceipt("run_wp",
                   [files |-> main.files, functions |-> functions, model |-> "typed",
                    prop |-> prop, rows |-> goals, verdict |-> None,
                    over |-> [text |-> main.text, load |-> main.load, disturbed |-> FALSE]],
                   main, disk)
        IN session' = [session EXCEPT !.ring = RememberReceipt(@, r, ReceiptLimit)]
  BY DEF RunWp
<1>3. IsTable(goals)
  BY <1>1, GoalsAreTables
<1>4. PICK run : run = [files |-> main.files, functions |-> functions, model |-> "typed",
                        prop |-> prop, rows |-> goals, verdict |-> None,
                        over |-> [text |-> main.text, load |-> main.load, disturbed |-> FALSE]]
  OBVIOUS
<1>5. PICK r : r = ProofReceipt("run_wp", run, main, disk)
  OBVIOUS
<1>6. session' = [session EXCEPT !.ring = RememberReceipt(@, r, ReceiptLimit)]
  BY <1>2, <1>4, <1>5
<1>7. run.rows = goals
  BY <1>4
<1>8. IsTable(r.rows)
  BY <1>3, <1>5, <1>7, ReceiptTable
<1>9. check' = check
  BY DEF RunWp
<1> QED
  BY <1>6, <1>8, <1>9, TablesGrow DEF EvidenceInv, SessionOK

\* A check begins with a table, of functions that are defined.
LEMMA CheckBeginTables ==
  ASSUME EvidenceInv, TablesOK, NEW load \in case.loads \cup {[files |-> {}, load |-> None]},
         NEW functions, NEW byProfile \in BOOLEAN, NEW prop, NEW verdict,
         CheckBegin(load, functions, byProfile, prop, verdict)
  PROVE  TablesOK'
<1>1. PICK files : files = IF byProfile /\ load.files = {} THEN session.profile.sources ELSE load.files
  OBVIOUS
<1>2. PICK options : options = IF byProfile THEN session.profile.load ELSE load.load
  OBVIOUS
<1>3. PICK project : project = Loaded([files |-> files, load |-> options])
  OBVIOUS
<1>4. PICK scope : scope = functions \cap project.graph.defined
  OBVIOUS
<1>5a. /\ byProfile => session.profile # None
      /\ Parses(files)
      /\ \E goals \in GoalRows(scope, verdict) :
           LET refused == byProfile
                            /\ \/ ProfileRefuses(project, scope, prop)
                               \/ GoalFloorShortfall(session.profile, goals, scope)
               run == [files |-> load.files, functions |-> IF refused THEN {} ELSE scope,
                       model |-> IF byProfile THEN session.profile.model ELSE "typed",
                       prop |-> IF refused THEN None ELSE prop, rows |-> goals,
                       verdict |-> IF refused \/ prop # None THEN "incomplete" ELSE verdict,
                       over |-> [text |-> project.text, load |-> options, disturbed |-> FALSE]]
               proved == ProofReceipt("run_wp", [run EXCEPT !.files = files, !.verdict = None],
                                      project, disk)
           IN /\ main' = project
              /\ session' = LET s == AfterLoad(session, project.graph)
                            IN IF refused THEN s
                               ELSE [s EXCEPT !.ring = RememberReceipt(@, proved, ReceiptLimit)]
              /\ check' = run
      /\ UNCHANGED <<case, disk, rows, issued>>
  BY <1>1, <1>2, <1>3, <1>4, ZenonT(100) DEF CheckBegin
<1>5. PICK goals \in GoalRows(scope, verdict) :
        LET refused == byProfile
                         /\ \/ ProfileRefuses(project, scope, prop)
                            \/ GoalFloorShortfall(session.profile, goals, scope)
            run == [files |-> load.files, functions |-> IF refused THEN {} ELSE scope,
                    model |-> IF byProfile THEN session.profile.model ELSE "typed",
                    prop |-> IF refused THEN None ELSE prop, rows |-> goals,
                    verdict |-> IF refused \/ prop # None THEN "incomplete" ELSE verdict,
                    over |-> [text |-> project.text, load |-> options, disturbed |-> FALSE]]
            proved == ProofReceipt("run_wp", [run EXCEPT !.files = files, !.verdict = None],
                                   project, disk)
        IN /\ main' = project
           /\ session' = LET s == AfterLoad(session, project.graph)
                         IN IF refused THEN s
                            ELSE [s EXCEPT !.ring = RememberReceipt(@, proved, ReceiptLimit)]
           /\ check' = run
  BY <1>5a, Zenon
<1> DEFINE Refused == byProfile
                        /\ \/ ProfileRefuses(project, scope, prop)
                           \/ GoalFloorShortfall(session.profile, goals, scope)
           Run == [files |-> load.files, functions |-> IF Refused THEN {} ELSE scope,
                   model |-> IF byProfile THEN session.profile.model ELSE "typed",
                   prop |-> IF Refused THEN None ELSE prop, rows |-> goals,
                   verdict |-> IF Refused \/ prop # None THEN "incomplete" ELSE verdict,
                   over |-> [text |-> project.text, load |-> options, disturbed |-> FALSE]]
           Proving == [Run EXCEPT !.files = files, !.verdict = None]
           Proved1 == ProofReceipt("run_wp", Proving, project, disk)
<1>6. /\ main' = project
      /\ session' = IF Refused THEN AfterLoad(session, project.graph)
                    ELSE [AfterLoad(session, project.graph) EXCEPT
                            !.ring = RememberReceipt(@, Proved1, ReceiptLimit)]
      /\ check' = Run
  BY <1>5, Zenon
<1>7. Run.rows = goals /\ Proving.rows = goals
  OBVIOUS
<1> HIDE DEF Refused, Run, Proving
<1>8. scope \subseteq Functions
  <2>1. /\ byProfile => session.profile # None
        /\ Parses(files)
    BY <1>1 DEF CheckBegin
  <2>2. PICK asked : asked = [files |-> files, load |-> options]
    OBVIOUS
  <2>3. byProfile => session.profile \in case.profiles
    BY <2>1 DEF EvidenceInv, SessionOK
  <2>4. load.files \subseteq Files /\ (byProfile => session.profile.sources \subseteq Files)
    BY <2>3 DEF EvidenceInv, IsCampaign
  <2>5. ~byProfile => load \in case.loads
    BY <1>1, <2>1 DEF Parses
  <2>6. /\ asked.files = files /\ asked.load = options /\ project = Loaded(asked)
        /\ files \subseteq Files
        /\ options \in {l.load : l \in case.loads} \cup {p.load : p \in case.profiles}
    BY <1>1, <1>2, <1>3, <2>2, <2>3, <2>4, <2>5
  <2>7. project.graph.defined \subseteq Functions
    BY <2>1, <2>6, LoadedIsProject
  <2> QED
    BY <1>4, <2>7
<1>9. IsTable(goals)
  BY <1>8, GoalsAreTables
<1>10. IsTable(Proved1.rows) /\ IsTable(check'.rows)
  BY <1>6, <1>7, <1>9, ReceiptTable
<1>11. PICK s, r : s = AfterLoad(session, project.graph) /\ r = Proved1
  OBVIOUS
<1>12. s = [x \in SessionFields |-> s[x]] /\ s.ring = <<>> /\ s.ring \in Seq(ToSet(s.ring))
  <2>1. PICK graph : graph = project.graph
    OBVIOUS
  <2>2. s = AfterLoad(session, graph) /\ session = [x \in SessionFields |-> session[x]]
    BY <1>11, <2>1 DEF EvidenceInv, SessionOK
  <2>3. s = [x \in SessionFields |-> s[x]] /\ s.ring = <<>>
    BY <2>2, LoadEmptiesRing
  <2> QED
    BY <2>3, EmptyRing
<1>13. CASE Refused
  <2>1. session' = s
    BY <1>6, <1>11, <1>13
  <2>2. \A q \in ToSet(session'.ring) : FALSE
    BY <1>12, <2>1, EmptyRing
  <2> QED
    BY <1>10, <2>2 DEF TablesOK, IsTable
<1>14. CASE ~Refused
  <2>1. session' = [s EXCEPT !.ring = RememberReceipt(@, r, ReceiptLimit)] /\ IsTable(r.rows)
    BY <1>6, <1>10, <1>11, <1>14
  <2> QED
    BY <1>10, <1>12, <2>1, TablesGrow
<1> QED
  BY <1>13, <1>14

\* A reload leaves a check under way its goals.
LEMMA ReloadTables ==
  ASSUME EvidenceInv, TablesOK, NEW load, NEW register, Reload(load, register)
  PROVE  TablesOK'
<1>1. PICK graph, profile :
        session' = AfterLoad([session EXCEPT !.profile = profile], graph)
  BY DEF Reload
<1>2. PICK s : s = [session EXCEPT !.profile = profile]
  OBVIOUS
<1>3. s = [x \in SessionFields |-> s[x]]
  BY <1>2 DEF EvidenceInv, SessionOK, SessionFields
<1>4. session'.ring = <<>>
  BY <1>1, <1>2, <1>3, LoadEmptiesRing
<1>5. check' = Disturbed(check)
  BY DEF Reload
<1> QED
  BY <1>4, <1>5, DisturbedTable, TablesStay

\* Every step keeps the tables.
LEMMA TablesKeep ==
  ASSUME EvidenceInv, TablesOK, [Next]_vars
  PROVE  TablesOK'
<1>1. ASSUME NEW f \in Files, Edit(f) PROVE TablesOK'
  <2>1. session' = session /\ check' = Disturbed(check)
    BY <1>1 DEF Edit
  <2> QED
    BY <2>1, DisturbedTable, TablesStay
<1>2. ASSUME NEW load, NEW register, Reload(load, register) PROVE TablesOK'
  BY <1>2, ReloadTables
<1>3. ASSUME LoseMain PROVE TablesOK'
  <2>1. session' = session /\ check' = Disturbed(check)
    BY <1>3 DEF LoseMain
  <2> QED
    BY <2>1, DisturbedTable, TablesStay
<1>4. ASSUME NEW load \in case.loads \cup {[files |-> {}, load |-> None]}, NEW functions,
             NEW byProfile \in BOOLEAN, NEW prop, NEW verdict,
             CheckBegin(load, functions, byProfile, prop, verdict)
      PROVE  TablesOK'
  BY <1>4, CheckBeginTables
<1>5. ASSUME CheckEnd PROVE TablesOK'
  BY <1>5, CheckEndTables
<1>6. ASSUME NEW functions, NEW prop, RunWp(functions, prop) PROVE TablesOK'
  BY <1>6, RunWpTables
<1>7. ASSUME CacheCallgraph \/ ComputeOrder PROVE TablesOK'
  <2>1. PICK cache, order : session' = [session EXCEPT !.cache = cache]
                            \/ session' = [session EXCEPT !.order = order]
    BY <1>7 DEF CacheCallgraph, ComputeOrder
  <2>2. session'.ring = session.ring
    BY <2>1 DEF EvidenceInv, SessionOK, SessionFields
  <2>3. UNCHANGED check
    BY <1>7 DEF CacheCallgraph, ComputeOrder
  <2> QED
    BY <2>2, <2>3, TablesStay
<1>8. ASSUME \/ \E since, f : Diff(since, f)
             \/ \E f, status, r, byDigest, callees, forProfile :
                  StoreConclusion(f, status, r, byDigest, callees, forProfile)
             \/ \E byProfile : ProofCoverage(byProfile)
             \/ \E lock, busy : StepBegin(lock, busy)
             \/ FetchCallgraph \/ FetchFails \/ Snapshot \/ StepEnd
             \/ UNCHANGED vars
      PROVE  TablesOK'
  <2>1. UNCHANGED <<session, check>>
    BY <1>8 DEF Diff, StoreConclusion, ProofCoverage, StepBegin, FetchCallgraph, FetchFails,
                Snapshot, StepEnd, vars
  <2> QED
    BY <2>1, TablesStay
<1> QED
  BY <1>1, <1>2, <1>3, <1>4, <1>5, <1>6, <1>7, <1>8 DEF Next

\* The answer of get_wp_goals with since.
LEMMA DiffAnswers ==
  ASSUME TablesOK, NEW since \in ToSet(session.ring), NEW f \in Functions, Diff(since, f)
  PROVE  DiffIsHonest'
<1>1. PICK goals \in GoalRows({f}, "incomplete") :
        answer' = ProofGoalDiff(since.rows, ProofReceiptGoals(goals))
  BY DEF Diff
<1>2. PICK previous, current : previous = since.rows /\ current = ProofReceiptGoals(goals)
  OBVIOUS
<1>3. IsTable(previous) /\ IsTable(current)
  <2>1. IsTable(goals)
    BY GoalsAreTables
  <2> QED
    BY <1>2, <2>1, SortedIsTable DEF TablesOK
<1>4. PICK X : X = ToSet(previous) \cup ToSet(current)
  OBVIOUS
<1>5. previous \in Seq(X) /\ current \in Seq(X)
  <2>1. PICK P, Q : P = ToSet(previous) /\ Q = ToSet(current)
    OBVIOUS
  <2>2. previous \in Seq(P) /\ current \in Seq(Q) /\ X = P \cup Q
    BY <1>3, <1>4, <2>1 DEF IsTable
  <2> QED
    BY <2>2
<1>6. answer' = ProofGoalDiff(previous, current)
  BY <1>1, <1>2
<1>7. PICK a : a = answer'
  OBVIOUS
<1>8. DiffSays(a)
  BY <1>5, <1>6, <1>7, DiffHolds
<1>9. DiffSays(a) => DiffIsHonest'
  <2> SUFFICES ASSUME DiffSays(answer'), IsAnswer("diff")' PROVE DiffIsHonest'
    BY <1>7 DEF DiffIsHonest
  <2> QED
    BY DEF DiffSays, DiffIsHonest, IsAnswer
<1> QED
  BY <1>8, <1>9

\* get_wp_goals with since makes nothing up (proof_goal_diff): every goal of
\* either run is reported once, and of an id with as many goals in both runs as
\* many are newly proved, or newly unproved, as its proved goals became more, or
\* fewer, however often a run repeats the id and in whatever order.
THEOREM DiffHonest == Spec => []DiffIsHonest
<1>1. Init => TablesOK /\ DiffIsHonest
  <2> SUFFICES ASSUME Init PROVE TablesOK /\ DiffIsHonest
    OBVIOUS
  <2>1. session.ring = <<>> /\ check = None /\ answer = None
    BY DEF Init
  <2>2. \A r \in ToSet(session.ring) : FALSE
    BY <2>1, EmptyRing
  <2> QED
    BY <2>1, <2>2 DEF TablesOK, DiffIsHonest, IsAnswer
<1>2. EvidenceInv /\ TablesOK /\ [Next]_vars => TablesOK'
  BY TablesKeep
<1>3. TablesOK /\ DiffIsHonest /\ [Next]_vars => DiffIsHonest'
  <2> SUFFICES ASSUME TablesOK, DiffIsHonest, [Next]_vars PROVE DiffIsHonest'
    OBVIOUS
  <2>1. ASSUME answer' = None \/ answer'.kind # "diff" PROVE DiffIsHonest'
    BY <2>1 DEF DiffIsHonest, IsAnswer
  <2>2. ASSUME NEW since \in ToSet(session.ring), NEW f \in Functions, Diff(since, f)
        PROVE  DiffIsHonest'
    BY <2>2, DiffAnswers
  <2>3. ASSUME FetchCallgraph \/ FetchFails \/ UNCHANGED vars PROVE DiffIsHonest'
    <3>1. answer' = answer
      BY <2>3 DEF FetchCallgraph, FetchFails, vars
    <3> QED
      BY <3>1, Zenon DEF DiffIsHonest, IsAnswer
  <2>4. ASSUME \/ \E byProfile : ProofCoverage(byProfile)
               \/ \E lock, busy : StepBegin(lock, busy)
               \/ StepEnd
        PROVE  DiffIsHonest'
    <3>1. ASSUME NEW byProfile, ProofCoverage(byProfile) PROVE answer'.kind = "coverage"
      BY <3>1 DEF ProofCoverage, ProofCoverageReport
    <3>2. ASSUME (\E lock, busy : StepBegin(lock, busy)) \/ StepEnd
          PROVE  answer' = None \/ answer'.kind = "step"
      BY <3>2 DEF StepBegin, StepEnd
    <3> QED
      BY <2>1, <2>4, <3>1, <3>2
  <2>5. ASSUME NEW f, NEW load, NEW register, NEW functions, NEW byProfile, NEW prop, NEW verdict,
               \/ Edit(f) \/ Reload(load, register) \/ LoseMain \/ CheckEnd
               \/ CheckBegin(load, functions, byProfile, prop, verdict) \/ RunWp(functions, prop)
        PROVE  DiffIsHonest'
    <3>1. answer' = None
      BY <2>5, Zenon DEF Edit, Reload, LoseMain, CheckEnd, CheckBegin, RunWp
    <3> QED
      BY <2>1, <3>1
  <2>6. ASSUME NEW f, NEW status, NEW r, NEW byDigest, NEW callees, NEW forProfile,
               \/ StoreConclusion(f, status, r, byDigest, callees, forProfile)
               \/ CacheCallgraph \/ ComputeOrder \/ Snapshot
        PROVE  DiffIsHonest'
    <3>1. answer' = None
      BY <2>6, Zenon DEF StoreConclusion, CacheCallgraph, ComputeOrder, Snapshot
    <3> QED
      BY <2>1, <3>1
  <2> QED
    BY <2>2, <2>3, <2>4, <2>5, <2>6, Zenon DEF Next
<1>4. Spec => []EvidenceInv
  BY ReceiptsAreHonest
<1> QED
  BY <1>1, <1>2, <1>3, <1>4, PTL DEF Spec
=============================================================================
