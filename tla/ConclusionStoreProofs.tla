------------------------- MODULE ConclusionStoreProofs -------------------------
(***************************************************************************)
(* Proofs about Conclusions, for every set of functions, contracts,         *)
(* environments, receipts and requests; and about ConclusionStore, which    *)
(* keeps them, for every number of calls, requests, rows left by earlier    *)
(* builds, failed writes and crashes.                                      *)
(***************************************************************************)
EXTENDS ConclusionStore, TLAPS

-----------------------------------------------------------------------------
(* The rows of the session: Conclusions. *)

Map == [Functions -> Conclusion \cup {None}]

-----------------------------------------------------------------------------
(* What the operators return. *)

\* An empty row is a row.
LEMMA EmptyConclusionType == EmptyConclusion \in Conclusion
  BY ConclusionsAssumption DEF EmptyConclusion, Conclusion, Status

\* RowOf always yields a row, and the hash of a function is a contract.
LEMMA RowOfType ==
  ASSUME NEW c \in Map, NEW f \in Functions
  PROVE  RowOf(c, f) \in Conclusion /\ SpecsOf(c, f) \in Specs
<1>1. RowOf(c, f) \in Conclusion
  BY EmptyConclusionType DEF RowOf, Map
<1>2. QED
  BY <1>1 DEF SpecsOf, Conclusion

\* A merge yields a row.
LEMMA MergedType ==
  ASSUME NEW c \in Map, NEW u \in Update
  PROVE  Merged(c, u) \in Conclusion
<1> DEFINE old == RowOf(c, u.function)
<1>1. u.function \in Functions
  BY DEF Update
<1>2. old \in Conclusion
  BY <1>1, RowOfType
<1>3. ASSUME u.callees # None
      PROVE  /\ u.callees \in SUBSET Functions
             /\ CurrentHashes(c, u.callees) \in [Functions -> Specs \cup {None}]
  <2>1. u.callees \in SUBSET Functions
    BY <1>3, ConclusionsAssumption DEF Update
  <2>2. QED
    BY <2>1, RowOfType DEF CurrentHashes
<1>4. ASSUME u.proof_receipt # None
      PROVE  u.proof_receipt \in Receipts /\ u.proof_receipt.env \in Environments
  BY <1>4, ConclusionsAssumption DEF Update, Receipt
<1>5. Given(u.status, old.status) \in Status
  BY <1>2, ConclusionsAssumption DEF Given, Update, Conclusion
<1>6. Given(u.specs, old.specs) \in Specs
  BY <1>2 DEF Given, Update, Conclusion
<1>7. Given(u.wp_summary, old.wp_summary) \in WpSummaries \cup {None}
  BY <1>2 DEF Given, Update, Conclusion
<1>8. Given(u.callees, old.callees) \in SUBSET Functions
  BY <1>2, <1>3 DEF Given, Conclusion
<1>9. Given(u.proof_receipt, old.proof_receipt) \in Receipts \cup {None}
  BY <1>2, <1>4 DEF Given, Conclusion
<1>10. QED
  BY <1>2, <1>3, <1>4, <1>5, <1>6, <1>7, <1>8, <1>9 DEF Merged, Conclusion

\* The environment sweep keeps everything of a row but its mark and a
\* verified status; a row it leaves unmarked was recorded under env.
LEMMA MarkEnvironmentEffect ==
  ASSUME NEW e \in Conclusion, NEW env \in Environments
  PROVE  LET m == MarkEnvironment(e, env) IN
         /\ m \in Conclusion
         /\ m.status = "verified" => e.status = "verified"
         /\ m.specs = e.specs
         /\ m.wp_summary = e.wp_summary
         /\ m.callees = e.callees
         /\ m.callee_spec_hashes = e.callee_spec_hashes
         /\ m.stale_dependencies = e.stale_dependencies
         /\ m.proof_receipt = e.proof_receipt
         /\ m.proof_env_hash = e.proof_env_hash
         /\ m.stale_proof_environment = None /\ m.proof_env_hash # None
              => m.proof_env_hash = env
         /\ m.status = "verified" /\ e.stale_proof_environment = None
              => m.stale_proof_environment = None
<1>1. CASE e.proof_env_hash = None
  BY <1>1 DEF MarkEnvironment, Conclusion
<1>2. CASE e.proof_env_hash # None /\ e.proof_env_hash = env
  BY <1>2 DEF MarkEnvironment, Conclusion
<1>3. CASE e.proof_env_hash # None /\ e.proof_env_hash # env
  <2> DEFINE mark == [recorded |-> e.proof_env_hash, current |-> env]
  <2>1. mark \in StaleEnvironment /\ mark # None
    BY <1>3, NoneAssumption DEF StaleEnvironment, Conclusion
  <2>2. Demoted(e.status) \in Status /\ Demoted(e.status) # "verified"
    BY DEF Demoted, Status, Conclusion
  <2>3. MarkEnvironment(e, env) = [e EXCEPT !.stale_proof_environment = mark,
                                            !.status = Demoted(e.status)]
    BY <1>3 DEF MarkEnvironment
  <2> HIDE DEF mark
  <2>4. QED
    BY <2>1, <2>2, <2>3 DEF Conclusion
<1>4. QED
  BY <1>1, <1>2, <1>3

\* The dependency sweep keeps everything of a row but its marks about f and a
\* verified status; a row it leaves verified has no marks if it had none.
LEMMA MarkDependencyEffect ==
  ASSUME NEW e \in Conclusion, NEW f \in Functions, NEW s \in Specs
  PROVE  LET m == MarkDependency(e, f, s) IN
         /\ m \in Conclusion
         /\ m.status = "verified" => e.status = "verified"
         /\ m.specs = e.specs
         /\ m.wp_summary = e.wp_summary
         /\ m.callees = e.callees
         /\ m.callee_spec_hashes = e.callee_spec_hashes
         /\ m.stale_dependencies = IF e.callee_spec_hashes[f] = None
                                   THEN e.stale_dependencies
                                   ELSE DependenciesAfter(e, f, s)
         /\ m.proof_receipt = e.proof_receipt
         /\ m.proof_env_hash = e.proof_env_hash
         /\ m.stale_proof_environment = e.stale_proof_environment
         /\ m.status = "verified" /\ e.stale_dependencies = {}
              => m.stale_dependencies = {}
<1>1. CASE e.callee_spec_hashes[f] = None
  BY <1>1 DEF MarkDependency
<1>2. CASE e.callee_spec_hashes[f] # None
  <2>1. e.callee_spec_hashes[f] \in Specs
    BY <1>2 DEF Conclusion
  <2>2. DependenciesAfter(e, f, s) \in SUBSET StaleDependency
    BY <2>1 DEF DependenciesAfter, StaleDependency, Conclusion
  <2>3. QED
    BY <1>2, <2>2, ZenonT(60) DEF MarkDependency, Conclusion, Demoted, Status
<1>3. QED
  BY <1>1, <1>2

-----------------------------------------------------------------------------
(* What a store leaves in another row. *)

\* The combined effect of both sweeps on the row of g.
LEMMA SweptEffect ==
  ASSUME NEW c \in Map, NEW u \in Update, NEW g \in Functions, c[g] # None
  PROVE  LET m == Swept(c, u, Merged(c, u), g)
             f == u.function
             s == Merged(c, u).specs
         IN
         /\ m \in Conclusion
         /\ m.status = "verified" => c[g].status = "verified"
         /\ m.specs = c[g].specs
         /\ m.wp_summary = c[g].wp_summary
         /\ m.callees = c[g].callees
         /\ m.callee_spec_hashes = c[g].callee_spec_hashes
         /\ m.stale_dependencies =
              IF c[g].callee_spec_hashes[f] = None THEN c[g].stale_dependencies
              ELSE DependenciesAfter(c[g], f, s)
         /\ m.proof_receipt = c[g].proof_receipt
         /\ m.proof_env_hash = c[g].proof_env_hash
         /\ u.proof_receipt = None
              => m.stale_proof_environment = c[g].stale_proof_environment
         /\ u.proof_receipt # None /\ m.stale_proof_environment = None
            /\ m.proof_env_hash # None => m.proof_env_hash = u.proof_receipt.env
         /\ m.status = "verified" /\ c[g].stale_dependencies = {}
              => m.stale_dependencies = {}
         /\ m.status = "verified" /\ c[g].stale_proof_environment = None
              => m.stale_proof_environment = None
<1> DEFINE f == u.function
           s == Merged(c, u).specs
           e == IF u.proof_receipt = None THEN c[g]
                ELSE MarkEnvironment(c[g], u.proof_receipt.env)
<1>1. c[g] \in Conclusion /\ f \in Functions /\ s \in Specs
  BY MergedType DEF Map, Update, Conclusion
<1>2. Swept(c, u, Merged(c, u), g) = MarkDependency(e, f, s)
  BY DEF Swept
<1>3. CASE u.proof_receipt = None
  <2>1. e = c[g]
    BY <1>3
  <2>2. QED
    BY <1>1, <1>2, <1>3, <2>1, MarkDependencyEffect
<1>4. CASE u.proof_receipt # None
  <2>1. u.proof_receipt.env \in Environments
    BY <1>4, ConclusionsAssumption DEF Update, Receipt
  <2>2. e = MarkEnvironment(c[g], u.proof_receipt.env)
    BY <1>4
  <2>3. /\ e \in Conclusion
        /\ e.status = "verified" => c[g].status = "verified"
        /\ e.specs = c[g].specs
        /\ e.wp_summary = c[g].wp_summary
        /\ e.callees = c[g].callees
        /\ e.callee_spec_hashes = c[g].callee_spec_hashes
        /\ e.stale_dependencies = c[g].stale_dependencies
        /\ e.proof_receipt = c[g].proof_receipt
        /\ e.proof_env_hash = c[g].proof_env_hash
        /\ e.stale_proof_environment = None /\ e.proof_env_hash # None
              => e.proof_env_hash = u.proof_receipt.env
        /\ e.status = "verified" /\ c[g].stale_proof_environment = None
              => e.stale_proof_environment = None
    BY <1>1, <2>1, <2>2, MarkEnvironmentEffect
  <2>4. DependenciesAfter(e, f, s) = DependenciesAfter(c[g], f, s)
    BY <2>3 DEF DependenciesAfter
  <2> HIDE DEF e, f, s
  <2>5. LET m == MarkDependency(e, f, s) IN
         /\ m \in Conclusion
         /\ m.status = "verified" => e.status = "verified"
         /\ m.specs = e.specs
         /\ m.wp_summary = e.wp_summary
         /\ m.callees = e.callees
         /\ m.callee_spec_hashes = e.callee_spec_hashes
         /\ m.stale_dependencies = IF e.callee_spec_hashes[f] = None
                                   THEN e.stale_dependencies
                                   ELSE DependenciesAfter(e, f, s)
         /\ m.proof_receipt = e.proof_receipt
         /\ m.proof_env_hash = e.proof_env_hash
         /\ m.stale_proof_environment = e.stale_proof_environment
         /\ m.status = "verified" /\ e.stale_dependencies = {}
              => m.stale_dependencies = {}
    BY <1>1, <2>3, MarkDependencyEffect
  <2>6. QED
    BY <1>2, <1>4, <2>3, <2>4, <2>5 DEF f, s
<1>5. QED
  BY <1>3, <1>4

-----------------------------------------------------------------------------
(* A store, seen from the map it leaves. *)

\* The row of the stored function is the merge, every other row is swept, and
\* the only contract that can have changed is that of the stored function.
LEMMA StoreEffect ==
  ASSUME TypeOK, NEW u \in Update, Store(u)
  PROVE  /\ conclusions \in Map
         /\ conclusions' \in Map
         /\ u.function \in Functions
         /\ Valid(u.function, Merged(conclusions, u))
         /\ conclusions'[u.function] = Merged(conclusions, u)
         /\ conclusions'[u.function] # None
         /\ \A g \in Functions \ {u.function} :
              /\ (conclusions[g] = None) <=> (conclusions'[g] = None)
              /\ conclusions[g] # None =>
                   conclusions'[g] = Swept(conclusions, u, Merged(conclusions, u), g)
              /\ SpecsOf(conclusions', g) = SpecsOf(conclusions, g)
         /\ SpecsOf(conclusions', u.function) = Merged(conclusions, u).specs
<1> DEFINE f == u.function
           row == Merged(conclusions, u)
<1>1. conclusions \in Map /\ f \in Functions
  BY DEF TypeOK, Map, Update
<1>2. row \in Conclusion /\ row # None
  BY <1>1, MergedType, NoneAssumption
<1>3. conclusions' = [g \in Functions |-> IF g = f THEN row ELSE Swept(conclusions, u, row, g)]
  BY DEF Store, AfterStore
<1>4. \A g \in Functions : conclusions[g] = None => Swept(conclusions, u, row, g) = None
  BY DEF Swept
<1>5. \A g \in Functions : conclusions[g] # None =>
        /\ Swept(conclusions, u, row, g) \in Conclusion
        /\ Swept(conclusions, u, row, g) # None
        /\ Swept(conclusions, u, row, g).specs = conclusions[g].specs
  BY <1>1, SweptEffect, NoneAssumption
<1>6. Valid(f, row)
  BY DEF Store, Accepts
<1> HIDE DEF row, f
<1>7. conclusions'[f] = row
  BY <1>1, <1>3
<1>8. \A g \in Functions \ {f} : conclusions'[g] = Swept(conclusions, u, row, g)
  BY <1>3
<1>9. conclusions' \in Map
  BY <1>2, <1>3, <1>4, <1>5 DEF Map
<1>10. SpecsOf(conclusions', f) = row.specs
  BY <1>2, <1>7 DEF SpecsOf, RowOf
<1>11. \A g \in Functions \ {f} :
          /\ (conclusions[g] = None) <=> (conclusions'[g] = None)
          /\ SpecsOf(conclusions', g) = SpecsOf(conclusions, g)
  BY <1>4, <1>5, <1>8 DEF SpecsOf, RowOf
<1>12. QED
  BY <1>1, <1>2, <1>6, <1>7, <1>8, <1>9, <1>10, <1>11 DEF row, f

\* The marks a row must carry about g when g's contract is current.
Marks(recorded, g, current) ==
  IF recorded \in {None, current} THEN {}
  ELSE {[callee |-> g, recorded |-> recorded, current |-> current]}

\* The dependency sweep about f leaves exact marks about f and does not touch
\* those about any other callee.
LEMMA DependenciesAfterExact ==
  ASSUME NEW e \in Conclusion, NEW f \in Functions, NEW s \in Specs,
         e.callee_spec_hashes[f] # None
  PROVE  /\ {d \in DependenciesAfter(e, f, s) : d.callee = f}
               = Marks(e.callee_spec_hashes[f], f, s)
         /\ \A g \in Functions \ {f} :
              {d \in DependenciesAfter(e, f, s) : d.callee = g}
                = {d \in e.stale_dependencies : d.callee = g}
<1> DEFINE r == e.callee_spec_hashes[f]
           mark == [callee |-> f, recorded |-> r, current |-> s]
           others == {d \in e.stale_dependencies : d.callee # f}
<1>0. mark.callee = f
  OBVIOUS
<1>1. DependenciesAfter(e, f, s) = IF r = s THEN others ELSE others \cup {mark}
  BY DEF DependenciesAfter
<1>2. Marks(r, f, s) = IF r = s THEN {} ELSE {mark}
  BY DEF Marks
<1> HIDE DEF mark, r
<1>3. CASE r = s
  BY <1>1, <1>2, <1>3 DEF r
<1>4. CASE r # s
  BY <1>0, <1>1, <1>2, <1>4 DEF r
<1>5. QED
  BY <1>3, <1>4

\* A store keeps the marks exact.
LEMMA StoreKeepsMarks ==
  ASSUME TypeOK, StaleDependenciesExact, NEW u \in Update, Store(u)
  PROVE  StaleDependenciesExact'
<1> DEFINE f == u.function
           row == Merged(conclusions, u)
<1>1. SUFFICES ASSUME NEW h \in Functions, NEW g \in Functions,
                      conclusions'[h] # None, h # g
               PROVE  {d \in conclusions'[h].stale_dependencies : d.callee = g}
                        = Marks(conclusions'[h].callee_spec_hashes[g], g,
                                SpecsOf(conclusions', g))
  BY DEF StaleDependenciesExact, Present, Marks
<1>2. /\ conclusions \in Map
      /\ f \in Functions
      /\ conclusions'[f] = row
      /\ \A x \in Functions \ {f} :
           /\ (conclusions[x] = None) <=> (conclusions'[x] = None)
           /\ conclusions[x] # None =>
                conclusions'[x] = Swept(conclusions, u, row, x)
           /\ SpecsOf(conclusions', x) = SpecsOf(conclusions, x)
      /\ SpecsOf(conclusions', f) = row.specs
  BY StoreEffect
<1>3. \A x \in Functions : x # g /\ conclusions[x] # None =>
        {d \in conclusions[x].stale_dependencies : d.callee = g}
          = Marks(conclusions[x].callee_spec_hashes[g], g, SpecsOf(conclusions, g))
  BY DEF StaleDependenciesExact, Present, Marks
<1>4. CASE h = f
  <2>1. SpecsOf(conclusions', g) = SpecsOf(conclusions, g)
    BY <1>1, <1>2, <1>4
  <2>2. CASE u.callees # None
    <3>1. row.stale_dependencies = {}
      BY <2>2 DEF Merged
    <3>2. row.callee_spec_hashes[g] \in {None, SpecsOf(conclusions, g)}
      BY <2>2 DEF Merged, CurrentHashes
    <3>3. QED
      BY <1>2, <1>4, <2>1, <3>1, <3>2 DEF Marks
  <2>3. CASE u.callees = None
    <3>1. /\ row.stale_dependencies = RowOf(conclusions, f).stale_dependencies
          /\ row.callee_spec_hashes = RowOf(conclusions, f).callee_spec_hashes
      BY <2>3 DEF Merged
    <3>2. CASE conclusions[f] = None
      <4>1. row.stale_dependencies = {} /\ row.callee_spec_hashes[g] = None
        BY <3>1, <3>2 DEF RowOf, EmptyConclusion
      <4>2. QED
        BY <1>2, <1>4, <4>1 DEF Marks
    <3>3. CASE conclusions[f] # None
      <4>1. RowOf(conclusions, f) = conclusions[f]
        BY <3>3 DEF RowOf
      <4> HIDE DEF row
      <4>2. QED
        BY <1>1, <1>2, <1>3, <1>4, <2>1, <3>1, <3>3, <4>1
    <3>4. QED
      BY <3>2, <3>3
  <2>4. QED
    BY <2>2, <2>3
<1>5. CASE h # f
  <2>1. conclusions[h] # None /\ conclusions[h] \in Conclusion
    BY <1>1, <1>2, <1>5 DEF Map
  <2>2. conclusions'[h] = Swept(conclusions, u, row, h)
    BY <1>2, <1>5, <2>1
  <2>3. row \in Conclusion /\ row.specs \in Specs
    BY <1>2, MergedType DEF Conclusion
  <2>4. /\ conclusions'[h].callee_spec_hashes = conclusions[h].callee_spec_hashes
        /\ conclusions'[h].stale_dependencies =
             IF conclusions[h].callee_spec_hashes[f] = None
             THEN conclusions[h].stale_dependencies
             ELSE DependenciesAfter(conclusions[h], f, row.specs)
    BY <1>2, <2>1, <2>2, SweptEffect
  <2> HIDE DEF row
  <2>5. CASE conclusions[h].callee_spec_hashes[f] = None
    <3>1. CASE g = f
      BY <1>1, <1>3, <2>1, <2>4, <2>5, <3>1 DEF Marks
    <3>2. CASE g # f
      BY <1>1, <1>2, <1>3, <2>1, <2>4, <2>5, <3>2
    <3>3. QED
      BY <3>1, <3>2
  <2>6. CASE conclusions[h].callee_spec_hashes[f] # None
    <3>1. /\ {d \in conclusions'[h].stale_dependencies : d.callee = f}
               = Marks(conclusions[h].callee_spec_hashes[f], f, row.specs)
          /\ \A x \in Functions \ {f} :
               {d \in conclusions'[h].stale_dependencies : d.callee = x}
                 = {d \in conclusions[h].stale_dependencies : d.callee = x}
      BY <1>2, <2>1, <2>3, <2>4, <2>6, DependenciesAfterExact
    <3>2. CASE g = f
      BY <1>2, <2>4, <3>1, <3>2
    <3>3. CASE g # f
      BY <1>1, <1>2, <1>3, <2>1, <2>4, <3>1, <3>3
    <3>4. QED
      BY <3>2, <3>3
  <2>7. QED
    BY <2>5, <2>6
<1>6. QED
  BY <1>4, <1>5

\* A store keeps every row's environment that of its receipt.
LEMMA StoreKeepsEnvironmentOfReceipt ==
  ASSUME TypeOK, EnvironmentOfReceipt, NEW u \in Update, Store(u)
  PROVE  EnvironmentOfReceipt'
<1> DEFINE f == u.function
           row == Merged(conclusions, u)
<1>1. SUFFICES ASSUME NEW h \in Functions,
                      conclusions'[h] # None, conclusions'[h].proof_receipt # None
               PROVE  conclusions'[h].proof_env_hash = conclusions'[h].proof_receipt.env
  BY DEF EnvironmentOfReceipt, Present
<1>2. /\ conclusions \in Map
      /\ conclusions'[f] = row
      /\ \A x \in Functions \ {f} :
           /\ (conclusions[x] = None) <=> (conclusions'[x] = None)
           /\ conclusions[x] # None =>
                conclusions'[x] = Swept(conclusions, u, row, x)
  BY StoreEffect
<1>3. CASE h = f /\ u.proof_receipt # None
  BY <1>2, <1>3 DEF Merged, Given
<1>4. CASE h = f /\ u.proof_receipt = None
  <2>1. /\ row.proof_receipt = RowOf(conclusions, f).proof_receipt
        /\ row.proof_env_hash = RowOf(conclusions, f).proof_env_hash
    BY <1>4 DEF Merged, Given
  <2>2. conclusions[f] # None
    BY <1>1, <1>2, <1>4, <2>1 DEF RowOf, EmptyConclusion
  <2> HIDE DEF row
  <2>3. QED
    BY <1>1, <1>2, <1>4, <2>1, <2>2 DEF RowOf, EnvironmentOfReceipt, Present
<1>5. CASE h # f
  <2>1. conclusions[h] # None /\ conclusions'[h] = Swept(conclusions, u, row, h)
    BY <1>1, <1>2, <1>5
  <2>2. /\ conclusions'[h].proof_receipt = conclusions[h].proof_receipt
        /\ conclusions'[h].proof_env_hash = conclusions[h].proof_env_hash
    BY <1>2, <2>1, SweptEffect
  <2>3. QED
    BY <1>1, <2>1, <2>2 DEF EnvironmentOfReceipt, Present
<1>6. QED
  BY <1>3, <1>4, <1>5

\* A store keeps the unmarked rows in agreement: with a new receipt they all
\* agree with it, without one nobody's mark or environment moves.
LEMMA StoreKeepsAgreement ==
  ASSUME TypeOK, FreshRowsAgree, NEW u \in Update, Store(u)
  PROVE  FreshRowsAgree'
<1> DEFINE f == u.function
           row == Merged(conclusions, u)
           Fresh(e) == e.stale_proof_environment = None /\ e.proof_env_hash # None
<1>1. SUFFICES ASSUME NEW g \in Functions, NEW h \in Functions,
                      conclusions'[g] # None, conclusions'[h] # None,
                      Fresh(conclusions'[g]), Fresh(conclusions'[h])
               PROVE  conclusions'[g].proof_env_hash = conclusions'[h].proof_env_hash
  BY DEF FreshRowsAgree, Present
<1>2. /\ conclusions \in Map
      /\ conclusions'[f] = row
      /\ \A x \in Functions \ {f} :
           /\ (conclusions[x] = None) <=> (conclusions'[x] = None)
           /\ conclusions[x] # None =>
                conclusions'[x] = Swept(conclusions, u, row, x)
  BY StoreEffect
<1>3. CASE u.proof_receipt # None
  <2>1. row.proof_env_hash = u.proof_receipt.env
    BY <1>3 DEF Merged
  <2>2. ASSUME NEW x \in Functions, conclusions'[x] # None, Fresh(conclusions'[x])
        PROVE  conclusions'[x].proof_env_hash = u.proof_receipt.env
    <3>1. CASE x = f
      BY <1>2, <2>1, <3>1
    <3>2. CASE x # f
      <4>1. conclusions[x] # None /\ conclusions'[x] = Swept(conclusions, u, row, x)
        BY <1>2, <2>2, <3>2
      <4>2. QED
        BY <1>2, <1>3, <2>2, <4>1, SweptEffect
    <3>3. QED
      BY <3>1, <3>2
  <2>3. QED
    BY <1>1, <2>2
<1>4. CASE u.proof_receipt = None
  <2>1. ASSUME NEW x \in Functions, conclusions'[x] # None, Fresh(conclusions'[x])
        PROVE  /\ conclusions[x] # None
               /\ Fresh(conclusions[x])
               /\ conclusions'[x].proof_env_hash = conclusions[x].proof_env_hash
    <3>1. CASE x = f
      <4>1. /\ row.proof_env_hash = RowOf(conclusions, f).proof_env_hash
            /\ row.stale_proof_environment = RowOf(conclusions, f).stale_proof_environment
        BY <1>4 DEF Merged
      <4>2. conclusions[f] # None
        BY <1>2, <2>1, <3>1, <4>1 DEF RowOf, EmptyConclusion
      <4> HIDE DEF row
      <4>3. QED
        BY <1>2, <2>1, <3>1, <4>1, <4>2 DEF RowOf
    <3>2. CASE x # f
      <4>1. conclusions[x] # None /\ conclusions'[x] = Swept(conclusions, u, row, x)
        BY <1>2, <2>1, <3>2
      <4>2. /\ conclusions'[x].proof_env_hash = conclusions[x].proof_env_hash
            /\ conclusions'[x].stale_proof_environment
                 = conclusions[x].stale_proof_environment
        BY <1>2, <1>4, <4>1, SweptEffect
      <4>3. QED
        BY <2>1, <4>1, <4>2
    <3>3. QED
      BY <3>1, <3>2
  <2>2. QED
    BY <1>1, <2>1 DEF FreshRowsAgree, Present
<1>5. QED
  BY <1>3, <1>4

\* A store keeps the evidence of every row that stays verified.
LEMMA StoreKeepsEvidence ==
  ASSUME TypeOK, VerifiedHasEvidence, NEW u \in Update, Store(u)
  PROVE  VerifiedHasEvidence'
<1> DEFINE f == u.function
           row == Merged(conclusions, u)
<1>1. SUFFICES ASSUME NEW h \in Functions, conclusions'[h] # None,
                      conclusions'[h].status = "verified"
               PROVE  Valid(h, conclusions'[h])
  BY DEF VerifiedHasEvidence, Verified, Present
<1>2. /\ conclusions \in Map
      /\ conclusions'[f] = row
      /\ Valid(f, row)
      /\ \A x \in Functions \ {f} :
           /\ (conclusions[x] = None) <=> (conclusions'[x] = None)
           /\ conclusions[x] # None =>
                conclusions'[x] = Swept(conclusions, u, row, x)
  BY StoreEffect
<1>3. CASE h = f
  BY <1>2, <1>3
<1>4. CASE h # f
  <2>1. conclusions[h] # None /\ conclusions'[h] = Swept(conclusions, u, row, h)
    BY <1>1, <1>2, <1>4
  <2>2. conclusions[h].status = "verified"
    BY <1>1, <1>2, <2>1, SweptEffect
  <2>3. Valid(h, conclusions[h])
    BY <2>1, <2>2 DEF VerifiedHasEvidence, Verified, Present
  <2>4. /\ conclusions[h].stale_dependencies = {}
        /\ conclusions[h].stale_proof_environment = None
    BY <2>2, <2>3 DEF Valid
  <2>5. /\ conclusions'[h].stale_dependencies = {}
        /\ conclusions'[h].stale_proof_environment = None
        /\ conclusions'[h].wp_summary = conclusions[h].wp_summary
        /\ conclusions'[h].callees = conclusions[h].callees
        /\ conclusions'[h].callee_spec_hashes = conclusions[h].callee_spec_hashes
        /\ conclusions'[h].proof_receipt = conclusions[h].proof_receipt
    BY <1>1, <1>2, <2>1, <2>4, SweptEffect
  <2>6. QED
    BY <1>1, <2>2, <2>3, <2>5 DEF Valid
<1>5. QED
  BY <1>3, <1>4

-----------------------------------------------------------------------------
(* The sandbox side effects. *)

SandboxStep(f) == SandboxCreated(f) \/ AnnotationAdded(f) \/ SandboxDeleted(f)

\* A sandbox side effect changes no contract, no mark and no evidence; the row
\* it may create is empty, and the only status it gives is in_progress.
LEMMA SandboxEffect ==
  ASSUME TypeOK, NEW f \in Functions, SandboxStep(f)
  PROVE  /\ conclusions \in Map
         /\ conclusions' \in Map
         /\ \A g \in Functions :
              /\ SpecsOf(conclusions', g) = SpecsOf(conclusions, g)
              /\ conclusions'[g] # None =>
                   LET m == conclusions'[g]
                       e == RowOf(conclusions, g)
                   IN /\ m.status = "verified" => conclusions[g] # None /\ e.status = "verified"
                      /\ m.wp_summary = e.wp_summary
                      /\ m.callees = e.callees
                      /\ m.callee_spec_hashes = e.callee_spec_hashes
                      /\ m.stale_dependencies = e.stale_dependencies
                      /\ m.proof_receipt = e.proof_receipt
                      /\ m.proof_env_hash = e.proof_env_hash
                      /\ m.stale_proof_environment = e.stale_proof_environment
<1> DEFINE e == RowOf(conclusions, f)
<1>1. conclusions \in Map
  BY DEF TypeOK, Map
<1>2. e \in Conclusion
  BY <1>1, RowOfType
<1>3. ASSUME NEW m \in Conclusion, conclusions' = [conclusions EXCEPT ![f] = m],
             m.specs = e.specs,
             m.status = "verified" => conclusions[f] # None /\ e.status = "verified",
             m.wp_summary = e.wp_summary, m.callees = e.callees,
             m.callee_spec_hashes = e.callee_spec_hashes,
             m.stale_dependencies = e.stale_dependencies,
             m.proof_receipt = e.proof_receipt, m.proof_env_hash = e.proof_env_hash,
             m.stale_proof_environment = e.stale_proof_environment
      PROVE  /\ conclusions' \in Map
             /\ \A g \in Functions :
                  /\ SpecsOf(conclusions', g) = SpecsOf(conclusions, g)
                  /\ conclusions'[g] # None =>
                       LET n == conclusions'[g]
                           o == RowOf(conclusions, g)
                       IN /\ n.status = "verified" => conclusions[g] # None /\ o.status = "verified"
                          /\ n.wp_summary = o.wp_summary
                          /\ n.callees = o.callees
                          /\ n.callee_spec_hashes = o.callee_spec_hashes
                          /\ n.stale_dependencies = o.stale_dependencies
                          /\ n.proof_receipt = o.proof_receipt
                          /\ n.proof_env_hash = o.proof_env_hash
                          /\ n.stale_proof_environment = o.stale_proof_environment
  <2>1. conclusions'[f] = m /\ m # None
    BY <1>1, <1>3, NoneAssumption DEF Map
  <2>2. \A g \in Functions \ {f} : conclusions'[g] = conclusions[g]
    BY <1>1, <1>3 DEF Map
  <2>3. conclusions' \in Map
    BY <1>1, <1>3 DEF Map
  <2> SUFFICES ASSUME NEW g \in Functions
               PROVE  /\ SpecsOf(conclusions', g) = SpecsOf(conclusions, g)
                      /\ conclusions'[g] # None =>
                       LET n == conclusions'[g]
                           o == RowOf(conclusions, g)
                       IN /\ n.status = "verified" => conclusions[g] # None /\ o.status = "verified"
                          /\ n.wp_summary = o.wp_summary
                          /\ n.callees = o.callees
                          /\ n.callee_spec_hashes = o.callee_spec_hashes
                          /\ n.stale_dependencies = o.stale_dependencies
                          /\ n.proof_receipt = o.proof_receipt
                          /\ n.proof_env_hash = o.proof_env_hash
                          /\ n.stale_proof_environment = o.stale_proof_environment
    BY <2>3
  <2>4. CASE g = f
    BY <1>3, <2>1, <2>4 DEF SpecsOf, RowOf
  <2>5. CASE g # f
    BY <2>2, <2>5 DEF SpecsOf, RowOf
  <2>6. QED
    BY <2>4, <2>5
<1>4. CASE SandboxCreated(f)
  <2> DEFINE m == [e EXCEPT !.sandbox_clean = TRUE, !.sandbox_deleted = FALSE,
                            !.status = "in_progress"]
  <2>1. conclusions' = [conclusions EXCEPT ![f] = m]
    BY <1>4 DEF SandboxCreated, AfterSandboxCreated
  <2>2. m \in Conclusion /\ m.status # "verified"
    BY <1>2 DEF Conclusion, Status
  <2>3. /\ m.specs = e.specs
        /\ m.wp_summary = e.wp_summary
        /\ m.callees = e.callees
        /\ m.callee_spec_hashes = e.callee_spec_hashes
        /\ m.stale_dependencies = e.stale_dependencies
        /\ m.proof_receipt = e.proof_receipt
        /\ m.proof_env_hash = e.proof_env_hash
        /\ m.stale_proof_environment = e.stale_proof_environment
    BY <1>2 DEF Conclusion
  <2> HIDE DEF m, e
  <2>4. QED
    BY <1>1, <1>3, <2>1, <2>2, <2>3
<1>5. CASE conclusions[f] # None /\ (AnnotationAdded(f) \/ SandboxDeleted(f))
  <2>0. e = conclusions[f]
    BY <1>5 DEF RowOf
  <2>1. PICK m \in {[e EXCEPT !.sandbox_clean = FALSE], [e EXCEPT !.sandbox_deleted = TRUE]} :
          conclusions' = [conclusions EXCEPT ![f] = m]
    BY <1>5, <2>0 DEF AnnotationAdded, SandboxDeleted, AfterAnnotationAdded, AfterSandboxDeleted
  <2>2. m \in Conclusion /\ m.status = e.status
    BY <1>2, <2>1 DEF Conclusion
  <2>3. /\ m.specs = e.specs
        /\ m.wp_summary = e.wp_summary
        /\ m.callees = e.callees
        /\ m.callee_spec_hashes = e.callee_spec_hashes
        /\ m.stale_dependencies = e.stale_dependencies
        /\ m.proof_receipt = e.proof_receipt
        /\ m.proof_env_hash = e.proof_env_hash
        /\ m.stale_proof_environment = e.stale_proof_environment
    BY <1>2, <2>1 DEF Conclusion
  <2> HIDE DEF e
  <2>4. QED
    BY <1>1, <1>3, <1>5, <2>1, <2>2, <2>3
<1>6. CASE conclusions[f] = None /\ (AnnotationAdded(f) \/ SandboxDeleted(f))
  <2>1. conclusions' = conclusions
    BY <1>6 DEF AnnotationAdded, SandboxDeleted, AfterAnnotationAdded, AfterSandboxDeleted
  <2>2. QED
    BY <1>1, <2>1 DEF RowOf
<1>7. QED
  BY <1>4, <1>5, <1>6 DEF SandboxStep

\* A sandbox side effect keeps the inductive invariant.
LEMMA SandboxKeepsInv ==
  ASSUME Inv, NEW f \in Functions, SandboxStep(f)
  PROVE  Inv'
<1> USE DEF Inv
<1>1. conclusions \in Map /\ conclusions' \in Map
  BY SandboxEffect
<1>2. TypeOK'
  BY <1>1 DEF TypeOK, Map
<1>3. \A g \in Functions :
        /\ SpecsOf(conclusions', g) = SpecsOf(conclusions, g)
        /\ conclusions'[g] # None =>
             /\ conclusions'[g].status = "verified" => Verified(g)
             /\ conclusions'[g].stale_dependencies = RowOf(conclusions, g).stale_dependencies
             /\ conclusions'[g].callee_spec_hashes = RowOf(conclusions, g).callee_spec_hashes
             /\ conclusions'[g].proof_receipt = RowOf(conclusions, g).proof_receipt
             /\ conclusions'[g].proof_env_hash = RowOf(conclusions, g).proof_env_hash
             /\ conclusions'[g].stale_proof_environment
                  = RowOf(conclusions, g).stale_proof_environment
             /\ conclusions'[g].wp_summary = RowOf(conclusions, g).wp_summary
             /\ conclusions'[g].callees = RowOf(conclusions, g).callees
  BY SandboxEffect DEF Verified, Present, RowOf
<1>4. \A g \in Functions : conclusions[g] = None =>
        /\ RowOf(conclusions, g).stale_dependencies = {}
        /\ RowOf(conclusions, g).proof_receipt = None
        /\ RowOf(conclusions, g).proof_env_hash = None
        /\ \A x \in Functions : RowOf(conclusions, g).callee_spec_hashes[x] = None
  BY DEF RowOf, EmptyConclusion
<1>5. \A g \in Functions : conclusions[g] # None => RowOf(conclusions, g) = conclusions[g]
  BY DEF RowOf
<1>6. StaleDependenciesExact'
  <2> SUFFICES ASSUME NEW h \in Functions, NEW g \in Functions, conclusions'[h] # None, h # g
               PROVE  {d \in conclusions'[h].stale_dependencies : d.callee = g}
                        = Marks(conclusions'[h].callee_spec_hashes[g], g,
                                SpecsOf(conclusions', g))
    BY DEF StaleDependenciesExact, Present, Marks
  <2>1. CASE conclusions[h] = None
    BY <1>3, <1>4, <2>1 DEF Marks
  <2>2. CASE conclusions[h] # None
    <3>1. {d \in conclusions[h].stale_dependencies : d.callee = g}
            = Marks(conclusions[h].callee_spec_hashes[g], g, SpecsOf(conclusions, g))
      BY <2>2 DEF StaleDependenciesExact, Present, Marks
    <3>2. QED
      BY <1>3, <1>5, <2>2, <3>1
  <2>3. QED
    BY <2>1, <2>2
<1>7. EnvironmentOfReceipt'
  BY <1>3, <1>4, <1>5 DEF EnvironmentOfReceipt, Present
<1>8. FreshRowsAgree'
  BY <1>3, <1>4, <1>5 DEF FreshRowsAgree, Present
<1>9. VerifiedHasEvidence'
  <2> SUFFICES ASSUME NEW h \in Functions, conclusions'[h] # None,
                      conclusions'[h].status = "verified"
               PROVE  Valid(h, conclusions'[h])
    BY DEF VerifiedHasEvidence, Verified, Present
  <2>1. Verified(h) /\ conclusions[h] # None
    BY <1>3 DEF Verified, Present
  <2>2. Valid(h, conclusions[h]) /\ conclusions[h].status = "verified"
    BY <2>1 DEF VerifiedHasEvidence, Verified
  <2>3. QED
    BY <1>3, <1>5, <2>1, <2>2 DEF Valid
<1>10. QED
  BY <1>2, <1>6, <1>7, <1>8, <1>9

-----------------------------------------------------------------------------
(* The theorems about the rows. *)

\* The marks, environments and evidence of all rows stay consistent through
\* every sequence of stores and sandbox side effects.
THEOREM Invariance == Spec => []Inv
<1>1. Init => Inv
  BY DEF Init, Inv, TypeOK, StaleDependenciesExact, EnvironmentOfReceipt, FreshRowsAgree,
         VerifiedHasEvidence, Verified, Present
<1>2. Inv /\ [Next]_vars => Inv'
  <2> SUFFICES ASSUME Inv, [Next]_vars PROVE Inv'
    OBVIOUS
  <2>1. ASSUME NEW u \in Update, Store(u) PROVE Inv'
    <3>1. TypeOK'
      BY <2>1, StoreEffect DEF Inv, TypeOK, Map
    <3>2. StaleDependenciesExact'
      BY <2>1, StoreKeepsMarks DEF Inv
    <3>3. EnvironmentOfReceipt'
      BY <2>1, StoreKeepsEnvironmentOfReceipt DEF Inv
    <3>4. FreshRowsAgree'
      BY <2>1, StoreKeepsAgreement DEF Inv
    <3>5. VerifiedHasEvidence'
      BY <2>1, StoreKeepsEvidence DEF Inv
    <3>6. QED
      BY <3>1, <3>2, <3>3, <3>4, <3>5 DEF Inv
  <2>2. ASSUME NEW f \in Sandboxed, SandboxStep(f) PROVE Inv'
    BY <2>2, SandboxKeepsInv, ConclusionsAssumption
  <2>3. CASE UNCHANGED vars
    BY <2>3 DEF vars, Inv, TypeOK, StaleDependenciesExact, EnvironmentOfReceipt, FreshRowsAgree,
                VerifiedHasEvidence, Verified, Present, SpecsOf, RowOf
  <2>4. QED
    BY <2>1, <2>2, <2>3 DEF Next, SandboxStep
<1>3. QED
  BY <1>1, <1>2, PTL DEF Spec

\* Every row always has the shape FunctionVerificationState gives it.
THEOREM TypeCorrect == Spec => []TypeOK
<1>1. Inv => TypeOK
  BY DEF Inv
<1>2. QED
  BY <1>1, Invariance, PTL

\* A verified conclusion always rests on the present contracts of its callees.
THEOREM CalleesCurrent == Spec => []VerifiedCalleesCurrent
<1>1. Inv => VerifiedCalleesCurrent
  <2> SUFFICES ASSUME Inv, NEW f \in Functions, NEW g \in Functions,
                      Verified(f), g \in conclusions[f].callees, g # f
               PROVE  conclusions[f].callee_spec_hashes[g] = SpecsOf(conclusions, g)
    BY DEF VerifiedCalleesCurrent
  <2> DEFINE r == conclusions[f].callee_spec_hashes[g]
             s == SpecsOf(conclusions, g)
             mark == [callee |-> g, recorded |-> r, current |-> s]
  <2>1. Present(f) /\ Valid(f, conclusions[f]) /\ conclusions[f].status = "verified"
    BY DEF Inv, VerifiedHasEvidence, Verified
  <2>2. conclusions[f].stale_dependencies = {} /\ r # None
    BY <2>1 DEF Valid
  <2>3. {d \in conclusions[f].stale_dependencies : d.callee = g}
          = IF r \in {None, s} THEN {} ELSE {mark}
    BY <2>1 DEF Inv, StaleDependenciesExact
  <2> HIDE DEF mark
  <2>4. QED
    BY <2>2, <2>3
<1>2. QED
  BY <1>1, Invariance, PTL

\* All verified conclusions always share one prover environment.
THEOREM OneEnvironment == Spec => []OneProofEnvironment
<1>1. Inv => OneProofEnvironment
  <2> SUFFICES ASSUME Inv, NEW f \in Functions, NEW g \in Functions,
                      Verified(f), Verified(g)
               PROVE  conclusions[f].proof_env_hash = conclusions[g].proof_env_hash
    BY DEF OneProofEnvironment
  <2>1. ASSUME NEW h \in Functions, Verified(h)
        PROVE  /\ Present(h)
               /\ conclusions[h].stale_proof_environment = None
               /\ conclusions[h].proof_env_hash # None
    <3>1. /\ Present(h)
          /\ conclusions[h].stale_proof_environment = None
          /\ conclusions[h].proof_receipt # None
      BY <2>1 DEF Inv, VerifiedHasEvidence, Verified, Valid
    <3>2. conclusions[h] \in Conclusion
      BY <3>1 DEF Inv, TypeOK, Present
    <3>3. conclusions[h].proof_receipt.env \in Environments
      BY <3>1, <3>2, ConclusionsAssumption DEF Conclusion, Receipt
    <3>4. QED
      BY <3>1, <3>3, ConclusionsAssumption DEF Inv, EnvironmentOfReceipt
  <2>2. QED
    BY <2>1 DEF Inv, FreshRowsAgree
<1>2. QED
  BY <1>1, Invariance, PTL

\* The stale marks of every row are always exact.
THEOREM MarksExact == Spec => []StaleDependenciesExact
<1>1. Inv => StaleDependenciesExact
  BY DEF Inv
<1>2. QED
  BY <1>1, Invariance, PTL

\* A verified conclusion always carries evidence that would be admitted again.
THEOREM EvidenceKept == Spec => []VerifiedHasEvidence
<1>1. Inv => VerifiedHasEvidence
  BY DEF Inv
<1>2. QED
  BY <1>1, Invariance, PTL

\* No store and no sandbox side effect gives `verified' to a row other than
\* the one function it names.
THEOREM NoPromotion == Spec => SweepsNeverPromote
<1>1. Inv /\ [Next]_vars =>
        [\E f \in Functions : \A g \in Functions \ {f} : Verified(g)' => Verified(g)]_vars
  <2> SUFFICES ASSUME Inv, [Next]_vars
               PROVE  [\E f \in Functions : \A g \in Functions \ {f} :
                         Verified(g)' => Verified(g)]_vars
    OBVIOUS
  <2>1. ASSUME NEW u \in Update, Store(u), NEW g \in Functions \ {u.function}, Verified(g)'
        PROVE  Verified(g)
    <3>1. /\ conclusions \in Map
          /\ conclusions[g] # None
          /\ conclusions'[g] = Swept(conclusions, u, Merged(conclusions, u), g)
      BY <2>1, StoreEffect DEF Inv, Verified, Present
    <3>2. QED
      BY <2>1, <3>1, SweptEffect DEF Verified, Present
  <2>2. ASSUME NEW f \in Functions, SandboxStep(f), NEW g \in Functions, Verified(g)'
        PROVE  Verified(g)
    BY <2>2, SandboxEffect DEF Inv, Verified, Present, RowOf
  <2>3. ASSUME NEW u \in Update, Store(u)
        PROVE  \E f \in Functions : \A g \in Functions \ {f} : Verified(g)' => Verified(g)
    BY <2>1, <2>3 DEF Update
  <2>4. ASSUME NEW f \in Sandboxed, SandboxStep(f)
        PROVE  \E h \in Functions : \A g \in Functions \ {h} : Verified(g)' => Verified(g)
    BY <2>2, <2>4, ConclusionsAssumption
  <2>5. QED
    BY <2>3, <2>4 DEF Next, SandboxStep
<1>2. QED
  BY <1>1, Invariance, PTL DEF Spec, SweepsNeverPromote

-----------------------------------------------------------------------------
(* Calls, files and the merge task: ConclusionStore. *)

Call ==
  [busy: BOOLEAN, target: Functions \cup {None}, at: Nat, first: BOOLEAN,
   writes: SUBSET Functions, rows: Map, durable: BOOLEAN]

StoreTypeOK ==
  /\ conclusions \in Map
  /\ at \in [Functions -> Nat]
  /\ disk \in [Functions -> File]
  /\ calls \in [Calls -> Call]
  /\ loader \in [Functions -> File] \cup {None}
  /\ acked \in [Functions -> Nat]
  /\ overlap \in BOOLEAN
  /\ clock \in Nat /\ failures \in Nat /\ crashes \in Nat

\* A row that is verified on evidence the server would admit, if it is verified.
Admissible(f, e) ==
  e # None /\ e.status = "verified" =>
    /\ e.proof_receipt # None
    /\ e.wp_summary # None
    /\ IsEvidence(e.proof_receipt, e.wp_summary.total, f)

\* The session, and what the merge task will add to it.
EvidenceInv ==
  /\ \A f \in Functions : Admissible(f, conclusions[f])
  /\ loader # None => \A f \in Functions : Admissible(f, loader[f].row)

\* No version is from the future.
VersionsPast == \A f \in Functions : at[f] =< clock /\ disk[f].at =< clock

\* What a call has yet to write is a row the session has, or an older one of it.
PendingIsOwn ==
  \A h \in Calls : \A g \in calls[h].writes :
    /\ calls[h].rows[g] # None
    /\ conclusions[g] # None
    /\ calls[h].at =< at[g]

\* What the merge task holds for a function without a row is the file as it is
\* now: files are only written for functions that have a row.
LoaderIsDisk ==
  loader # None =>
    \A f \in Functions : conclusions[f] = None =>
      /\ (loader[f].row = None) <=> (disk[f].row = None)
      /\ loader[f].at = IF loader[f].row = None THEN 0 ELSE disk[f].at

\* A call in flight names a function, and one that is not has nothing to write.
CallsSane ==
  \A h \in Calls : IF calls[h].busy THEN calls[h].target \in Functions
                                    ELSE calls[h].writes = {}

StoreInv ==
  StoreTypeOK /\ CallsSane /\ EvidenceInv /\ VersionsPast /\ PendingIsOwn /\ LoaderIsDisk

-----------------------------------------------------------------------------
(* Rows read back. *)

\* A loaded row is a row, and its evidence is admissible whatever was stored.
LEMMA LoadedRowAdmissible ==
  ASSUME NEW f \in Functions, NEW row \in Conclusion
  PROVE  LoadedRow(f, row) \in Conclusion /\ Admissible(f, LoadedRow(f, row))
<1> DEFINE total == IF row.wp_summary = None THEN 0 ELSE row.wp_summary.total
           evidence == row.proof_receipt # None /\ IsEvidence(row.proof_receipt, total, f)
<1>1. CASE row.status = "verified" /\ ~evidence
  <2>1. LoadedRow(f, row) = [row EXCEPT !.status = "in_progress", !.proof_receipt = None]
    BY <1>1 DEF LoadedRow
  <2>2. QED
    BY <2>1 DEF Conclusion, Status, Admissible
<1>2. CASE row.status = "verified" /\ evidence
  <2>1. LoadedRow(f, row) = row
    BY <1>2 DEF LoadedRow
  <2>2. row.proof_receipt \in Receipt
    BY <1>2, ConclusionsAssumption DEF Conclusion
  <2>3. total # 0
    BY <1>2, <2>2 DEF IsEvidence, Receipt
  <2>4. row.wp_summary # None /\ total = row.wp_summary.total
    BY <2>3
  <2>5. QED
    BY <1>2, <2>1, <2>4 DEF Admissible
<1>3. CASE row.status # "verified"
  BY <1>3 DEF LoadedRow, Admissible
<1>4. QED
  BY <1>1, <1>2, <1>3

\* A load of the directory: nothing if there is no file, otherwise one entry
\* for every function, with the version on disk and admissible evidence.
LEMMA LoadedEffect ==
  ASSUME NEW d \in [Functions -> File]
  PROVE  /\ Loaded(d) \in [Functions -> File] \cup {None}
         /\ Loaded(d) # None <=> \E f \in Functions : d[f].row # None
         /\ Loaded(d) # None => \A f \in Functions :
              /\ Admissible(f, Loaded(d)[f].row)
              /\ (Loaded(d)[f].row = None) <=> (d[f].row = None)
              /\ Loaded(d)[f].at = IF Loaded(d)[f].row = None THEN 0 ELSE d[f].at
              /\ d[f].row # None => Loaded(d)[f].row = LoadedRow(f, d[f].row)
<1>1. CASE \A f \in Functions : d[f].row = None
  BY <1>1 DEF Loaded
<1>2. CASE \E f \in Functions : d[f].row # None
  <2> DEFINE l == [f \in Functions |-> IF d[f].row = None THEN NoFile
                     ELSE [row |-> LoadedRow(f, d[f].row), at |-> d[f].at]]
  <2>1. Loaded(d) = l
    BY <1>2 DEF Loaded
  <2>2. ASSUME NEW f \in Functions
        PROVE  /\ l[f] \in File
               /\ Admissible(f, l[f].row)
               /\ (l[f].row = None) <=> (d[f].row = None)
               /\ l[f].at = IF l[f].row = None THEN 0 ELSE d[f].at
               /\ d[f].row # None => l[f].row = LoadedRow(f, d[f].row)
    <3>1. CASE d[f].row = None
      BY <3>1 DEF NoFile, File, Admissible
    <3>2. CASE d[f].row # None
      <4>1. d[f].row \in Conclusion /\ d[f].at \in Nat
        BY <3>2 DEF File
      <4>2. LoadedRow(f, d[f].row) \in Conclusion /\ Admissible(f, LoadedRow(f, d[f].row))
        BY <4>1, LoadedRowAdmissible
      <4>3. l[f] = [row |-> LoadedRow(f, d[f].row), at |-> d[f].at]
        BY <3>2
      <4> HIDE DEF l
      <4>4. QED
        BY <3>2, <4>1, <4>2, <4>3, NoneAssumption DEF File
    <3>3. QED
      BY <3>1, <3>2
  <2>3. l \in [Functions -> File]
    BY <2>2
  <2>4. l # None
    BY <2>3, LoaderAssumption
  <2> HIDE DEF l
  <2>5. QED
    BY <1>2, <2>1, <2>2, <2>3, <2>4
<1>3. QED
  BY <1>1, <1>2

-----------------------------------------------------------------------------
(* Beginning a call. *)

BeginSome(h) ==
  \/ \E u \in Requests : BeginStore(h, u)
  \/ \E f \in Sandboxed : \/ BeginSandboxCreated(h, f)
                          \/ BeginAnnotationAdded(h, f)
                          \/ BeginSandboxDeleted(h, f)

\* A call that begins is a step of Conclusions.
LEMMA BeginIsStep ==
  ASSUME NEW h \in Calls, BeginSome(h)
  PROVE  \/ \E u \in Update : Store(u)
         \/ \E f \in Sandboxed : SandboxStep(f)
<1>1. CASE \E u \in Requests : BeginStore(h, u)
  BY <1>1, StoreAssumption DEF BeginStore, Begin, Store
<1>2. ASSUME NEW f \in Sandboxed, \/ BeginSandboxCreated(h, f)
                                  \/ BeginAnnotationAdded(h, f)
                                  \/ BeginSandboxDeleted(h, f)
      PROVE  SandboxStep(f)
  BY <1>2 DEF BeginSandboxCreated, BeginAnnotationAdded, BeginSandboxDeleted, BeginSandbox, Begin,
              SandboxStep, SandboxCreated, AnnotationAdded, SandboxDeleted
<1>3. QED
  BY <1>1, <1>2 DEF BeginSome

\* A sandbox side effect changes the row of its function only and takes none
\* away.
LEMMA SandboxKeepsRows ==
  ASSUME NEW f \in Functions, SandboxStep(f), conclusions \in Map
  PROVE  /\ \A g \in Functions : conclusions[g] # None => conclusions'[g] # None
         /\ \A g \in Functions \ {f} : conclusions'[g] = conclusions[g]
<1>1. CASE conclusions' = conclusions
  BY <1>1
<1>2. ASSUME NEW m \in Conclusion, conclusions' = [conclusions EXCEPT ![f] = m]
      PROVE  /\ \A g \in Functions : conclusions[g] # None => conclusions'[g] # None
             /\ \A g \in Functions \ {f} : conclusions'[g] = conclusions[g]
  BY <1>2, NoneAssumption DEF Map
<1>3. RowOf(conclusions, f) \in Conclusion
  BY RowOfType
<1>4. CASE SandboxCreated(f)
  <2>1. [RowOf(conclusions, f) EXCEPT !.sandbox_clean = TRUE, !.sandbox_deleted = FALSE,
                                      !.status = "in_progress"] \in Conclusion
    BY <1>3 DEF Conclusion, Status
  <2>2. QED
    BY <1>2, <1>4, <2>1 DEF SandboxCreated, AfterSandboxCreated
<1>5. CASE conclusions[f] # None /\ (AnnotationAdded(f) \/ SandboxDeleted(f))
  <2>1. conclusions[f] \in Conclusion
    BY <1>5 DEF Map
  <2>2. /\ [conclusions[f] EXCEPT !.sandbox_clean = FALSE] \in Conclusion
        /\ [conclusions[f] EXCEPT !.sandbox_deleted = TRUE] \in Conclusion
    BY <2>1 DEF Conclusion
  <2>3. \/ conclusions' = [conclusions EXCEPT ![f] = [conclusions[f] EXCEPT !.sandbox_clean = FALSE]]
        \/ conclusions' = [conclusions EXCEPT ![f] = [conclusions[f] EXCEPT !.sandbox_deleted = TRUE]]
    BY <1>5 DEF AnnotationAdded, SandboxDeleted, AfterAnnotationAdded, AfterSandboxDeleted
  <2>4. QED
    BY <1>2, <2>2, <2>3
<1>6. CASE conclusions[f] = None /\ (AnnotationAdded(f) \/ SandboxDeleted(f))
  BY <1>1, <1>6 DEF AnnotationAdded, SandboxDeleted, AfterAnnotationAdded, AfterSandboxDeleted
<1>7. QED
  BY <1>4, <1>5, <1>6 DEF SandboxStep

\* A step of Conclusions takes no row away and keeps the evidence admissible.
LEMMA StepKeepsEvidence ==
  ASSUME TypeOK, \A f \in Functions : Admissible(f, conclusions[f]),
         \/ \E u \in Update : Store(u)
         \/ \E f \in Sandboxed : SandboxStep(f)
  PROVE  /\ conclusions' \in Map
         /\ \A f \in Functions : conclusions[f] # None => conclusions'[f] # None
         /\ \A f \in Functions : Admissible(f, conclusions'[f])
<1>1. ASSUME NEW u \in Update, Store(u)
      PROVE  /\ conclusions' \in Map
             /\ \A f \in Functions : conclusions[f] # None => conclusions'[f] # None
             /\ \A f \in Functions : Admissible(f, conclusions'[f])
  <2>1. /\ conclusions \in Map
        /\ conclusions' \in Map
        /\ Valid(u.function, Merged(conclusions, u))
        /\ conclusions'[u.function] = Merged(conclusions, u)
        /\ conclusions'[u.function] # None
        /\ \A g \in Functions \ {u.function} :
              /\ (conclusions[g] = None) <=> (conclusions'[g] = None)
              /\ conclusions[g] # None =>
                   conclusions'[g] = Swept(conclusions, u, Merged(conclusions, u), g)
    BY <1>1, StoreEffect
  <2>2. ASSUME NEW f \in Functions
        PROVE  Admissible(f, conclusions'[f])
    <3>1. CASE f = u.function
      BY <2>1, <3>1 DEF Valid, Admissible
    <3>2. CASE f # u.function /\ conclusions'[f] # None
      <4>1. conclusions[f] # None /\ conclusions'[f] = Swept(conclusions, u, Merged(conclusions, u), f)
        BY <2>1, <3>2
      <4>2. /\ conclusions'[f].status = "verified" => conclusions[f].status = "verified"
            /\ conclusions'[f].wp_summary = conclusions[f].wp_summary
            /\ conclusions'[f].proof_receipt = conclusions[f].proof_receipt
        BY <2>1, <4>1, SweptEffect
      <4>3. QED
        BY <4>1, <4>2 DEF Admissible
    <3>3. QED
      BY <3>1, <3>2 DEF Admissible
  <2>3. QED
    BY <2>1, <2>2
<1>2. ASSUME NEW f \in Sandboxed, SandboxStep(f)
      PROVE  /\ conclusions' \in Map
             /\ \A g \in Functions : conclusions[g] # None => conclusions'[g] # None
             /\ \A g \in Functions : Admissible(g, conclusions'[g])
  <2>1. f \in Functions
    BY ConclusionsAssumption
  <2>2. /\ conclusions \in Map
        /\ conclusions' \in Map
        /\ \A g \in Functions : conclusions'[g] # None =>
             /\ conclusions'[g].status = "verified" =>
                  conclusions[g] # None /\ RowOf(conclusions, g).status = "verified"
             /\ conclusions'[g].wp_summary = RowOf(conclusions, g).wp_summary
             /\ conclusions'[g].proof_receipt = RowOf(conclusions, g).proof_receipt
    BY <1>2, <2>1, SandboxEffect
  <2>3. \A g \in Functions : Admissible(g, conclusions'[g])
    BY <2>2 DEF Admissible, RowOf
  <2>4. \A g \in Functions : conclusions[g] # None => conclusions'[g] # None
    BY <1>2, <2>1, <2>2, SandboxKeepsRows
  <2>5. QED
    BY <2>2, <2>3, <2>4
<1>3. QED
  BY <1>1, <1>2

\* A row that is verified carries no mark about its environment.
Unmarked(e) == e # None /\ e.status = "verified" => e.stale_proof_environment = None

\* The sweeps change nothing of a row but what their marks show: a row whose
\* marks they leave is left altogether, provided no verified row is marked.
LEMMA SweptUntouched ==
  ASSUME NEW c \in Map, NEW u \in Update, NEW g \in Functions, c[g] # None, Unmarked(c[g]),
         Swept(c, u, Merged(c, u), g).stale_proof_environment = c[g].stale_proof_environment,
         Swept(c, u, Merged(c, u), g).stale_dependencies = c[g].stale_dependencies
  PROVE  Swept(c, u, Merged(c, u), g) = c[g]
<1> DEFINE f == u.function
           s == Merged(c, u).specs
           e == IF u.proof_receipt = None THEN c[g]
                ELSE MarkEnvironment(c[g], u.proof_receipt.env)
<1>1. c[g] \in Conclusion /\ f \in Functions /\ s \in Specs
  BY MergedType DEF Map, Update, Conclusion
<1>2. Swept(c, u, Merged(c, u), g) = MarkDependency(e, f, s)
  BY DEF Swept
<1>3. u.proof_receipt # None => u.proof_receipt.env \in Environments
  BY ConclusionsAssumption DEF Update, Receipt
<1>4. e \in Conclusion
  BY <1>1, <1>3, MarkEnvironmentEffect
<1> HIDE DEF f, s
<1>5. e.stale_proof_environment = c[g].stale_proof_environment
  BY <1>1, <1>2, <1>4, MarkDependencyEffect
<1>6. e = c[g]
  <2> DEFINE env == u.proof_receipt.env
             r == c[g]
  <2> SUFFICES ASSUME u.proof_receipt # None PROVE MarkEnvironment(r, env) = r
    OBVIOUS
  <2>0. MarkEnvironment(r, env).stale_proof_environment = r.stale_proof_environment
    BY <1>5
  <2>1. CASE r.proof_env_hash = None
    BY <2>1 DEF MarkEnvironment
  <2>2. CASE r.proof_env_hash # None /\ r.proof_env_hash = env
    <3>1. MarkEnvironment(r, env) = [r EXCEPT !.stale_proof_environment = None]
      BY <2>2 DEF MarkEnvironment
    <3>2. r.stale_proof_environment = None
      BY <1>1, <2>0, <3>1 DEF Conclusion
    <3>3. QED
      BY <1>1, <3>1, <3>2 DEF Conclusion
  <2>3. CASE r.proof_env_hash # None /\ r.proof_env_hash # env
    <3> DEFINE mark == [recorded |-> r.proof_env_hash, current |-> env]
    <3>1. mark # None
      BY <1>1, <1>3, <2>3, NoneAssumption DEF StaleEnvironment, Conclusion
    <3>2. MarkEnvironment(r, env) = [r EXCEPT !.stale_proof_environment = mark,
                                              !.status = Demoted(r.status)]
      BY <2>3 DEF MarkEnvironment
    <3> HIDE DEF mark
    <3>3. r.stale_proof_environment = mark
      BY <1>1, <2>0, <3>2 DEF Conclusion
    <3>4. Demoted(r.status) = r.status
      BY <3>1, <3>3 DEF Unmarked, Demoted
    <3>5. QED
      BY <1>1, <3>2, <3>3, <3>4, ZenonT(60) DEF Conclusion
  <2>4. QED
    BY <2>1, <2>2, <2>3
<1> HIDE DEF e
<1>7. MarkDependency(c[g], f, s) = c[g]
  <2>1. CASE c[g].callee_spec_hashes[f] = None
    BY <2>1 DEF MarkDependency
  <2>2. CASE c[g].callee_spec_hashes[f] # None
    <3>1. DependenciesAfter(c[g], f, s) = c[g].stale_dependencies
      BY <1>1, <1>2, <1>6, <2>2, MarkDependencyEffect
    <3>2. MarkDependency(c[g], f, s)
            = [c[g] EXCEPT !.stale_dependencies = c[g].stale_dependencies,
                           !.status = c[g].status]
      BY <2>2, <3>1 DEF MarkDependency
    <3>3. QED
      BY <1>1, <3>2 DEF Conclusion
  <2>3. QED
    BY <2>1, <2>2
<1>8. QED
  BY <1>2, <1>6, <1>7

\* A call that begins remembers rows the session now has; it leaves the others
\* present or absent as they were, and unchanged if no verified row is marked.
LEMMA BeginEffect ==
  ASSUME conclusions \in Map, NEW h \in Calls, BeginSome(h)
  PROVE  \E f \in Functions, t \in SUBSET Functions, claim \in BOOLEAN :
           /\ Begin(h, f, conclusions', t, claim)
           /\ claim => f \in t
           /\ \A g \in t : conclusions'[g] # None
           /\ \A g \in Functions \ t : (conclusions'[g] = None) <=> (conclusions[g] = None)
           /\ (\A g \in Functions : Unmarked(conclusions[g]))
                => \A g \in Functions \ t : conclusions'[g] = conclusions[g]
<1>0. TypeOK
  BY DEF TypeOK, Map
<1>1. ASSUME NEW u \in Requests, BeginStore(h, u)
      PROVE  LET f == u.function
                 t == {u.function} \cup Touched(conclusions, u)
             IN /\ f \in Functions /\ t \in SUBSET Functions
                /\ Begin(h, f, conclusions', t, TRUE)
                /\ f \in t
                /\ \A g \in t : conclusions'[g] # None
                /\ \A g \in Functions \ t : (conclusions'[g] = None) <=> (conclusions[g] = None)
                /\ (\A g \in Functions : Unmarked(conclusions[g]))
                     => \A g \in Functions \ t : conclusions'[g] = conclusions[g]
  <2> DEFINE f == u.function
             t == {u.function} \cup Touched(conclusions, u)
  <2>1. u \in Update /\ Store(u)
    BY <1>1, StoreAssumption DEF BeginStore, Begin, Store
  <2>2. /\ f \in Functions
        /\ conclusions'[f] # None
        /\ \A g \in Functions \ {f} :
              /\ (conclusions[g] = None) <=> (conclusions'[g] = None)
              /\ conclusions[g] # None =>
                   conclusions'[g] = Swept(conclusions, u, Merged(conclusions, u), g)
    BY <1>0, <2>1, StoreEffect
  <2>3. conclusions' = AfterStore(conclusions, u)
    BY <2>1 DEF Store
  <2>4. Begin(h, f, conclusions', t, TRUE)
    BY <1>1, <2>3 DEF BeginStore
  <2>5. t \in SUBSET Functions
    BY <2>2 DEF Touched
  <2>6. \A g \in t : conclusions'[g] # None
    BY <2>2 DEF Touched
  <2>7. ASSUME \A g \in Functions : Unmarked(conclusions[g]), NEW g \in Functions \ t
        PROVE  conclusions'[g] = conclusions[g]
    <3>1. CASE conclusions[g] = None
      BY <2>2, <3>1
    <3>2. CASE conclusions[g] # None
      <4>1. conclusions'[g] = Swept(conclusions, u, Merged(conclusions, u), g)
        BY <2>2, <3>2
      <4>2. /\ conclusions'[g].stale_proof_environment = conclusions[g].stale_proof_environment
            /\ conclusions'[g].stale_dependencies = conclusions[g].stale_dependencies
        BY <2>3, <3>2 DEF Touched
      <4>3. QED
        BY <2>1, <2>7, <3>2, <4>1, <4>2, SweptUntouched
    <3>3. QED
      BY <3>1, <3>2
  <2> HIDE DEF t, f
  <2>8. f \in t
    BY DEF t, f
  <2>9. QED
    BY <2>2, <2>4, <2>5, <2>6, <2>7, <2>8 DEF t, f
<1>2. ASSUME NEW f \in Sandboxed, \/ BeginSandboxCreated(h, f)
                                  \/ BeginAnnotationAdded(h, f)
                                  \/ BeginSandboxDeleted(h, f)
      PROVE  LET t == {f} \ {g \in Functions : conclusions'[g] = None}
             IN /\ f \in Functions /\ t \in SUBSET Functions
                /\ Begin(h, f, conclusions', t, FALSE)
                /\ \A g \in t : conclusions'[g] # None
                /\ \A g \in Functions \ t : conclusions'[g] = conclusions[g]
  <2>1. f \in Functions
    BY ConclusionsAssumption
  <2>2. SandboxStep(f)
    BY <1>2 DEF BeginSandboxCreated, BeginAnnotationAdded, BeginSandboxDeleted, BeginSandbox, Begin,
                SandboxStep, SandboxCreated, AnnotationAdded, SandboxDeleted
  <2>3. Begin(h, f, conclusions', {f} \ {g \in Functions : conclusions'[g] = None}, FALSE)
    BY <1>2 DEF BeginSandboxCreated, BeginAnnotationAdded, BeginSandboxDeleted, BeginSandbox, Begin
  <2>4. /\ \A g \in Functions : conclusions[g] # None => conclusions'[g] # None
        /\ \A g \in Functions \ {f} : conclusions'[g] = conclusions[g]
    BY <2>1, <2>2, SandboxKeepsRows
  <2>5. QED
    BY <2>1, <2>3, <2>4
<1> DEFINE Effect(f, t, claim) ==
             /\ Begin(h, f, conclusions', t, claim)
             /\ claim => f \in t
             /\ \A g \in t : conclusions'[g] # None
             /\ \A g \in Functions \ t : (conclusions'[g] = None) <=> (conclusions[g] = None)
             /\ (\A g \in Functions : Unmarked(conclusions[g]))
                  => \A g \in Functions \ t : conclusions'[g] = conclusions[g]
<1>3. ASSUME NEW u \in Requests, BeginStore(h, u)
      PROVE  \E f \in Functions, t \in SUBSET Functions, claim \in BOOLEAN : Effect(f, t, claim)
  <2>1. /\ u.function \in Functions
        /\ {u.function} \cup Touched(conclusions, u) \in SUBSET Functions
        /\ Effect(u.function, {u.function} \cup Touched(conclusions, u), TRUE)
    BY <1>1, <1>3
  <2> HIDE DEF Effect
  <2>2. QED
    BY <2>1
<1>4. ASSUME NEW f \in Sandboxed, \/ BeginSandboxCreated(h, f)
                                  \/ BeginAnnotationAdded(h, f)
                                  \/ BeginSandboxDeleted(h, f)
      PROVE  \E g \in Functions, t \in SUBSET Functions, claim \in BOOLEAN : Effect(g, t, claim)
  <2> DEFINE t == {f} \ {g \in Functions : conclusions'[g] = None}
  <2>1. f \in Functions /\ t \in SUBSET Functions /\ Effect(f, t, FALSE)
    BY <1>2, <1>4
  <2> HIDE DEF Effect, t
  <2>2. QED
    BY <2>1
<1> HIDE DEF Effect
<1>5. \E f \in Functions, t \in SUBSET Functions, claim \in BOOLEAN : Effect(f, t, claim)
  BY <1>3, <1>4 DEF BeginSome
<1>6. QED
  BY <1>5 DEF Effect

-----------------------------------------------------------------------------
(* What the files need besides: which calls are in flight, and what the rows *)
(* they write and the rows on disk are.                                      *)

\* As long as no two calls overlapped, the only one in flight was the last to
\* begin, and what it claims and no longer has to write is on disk.
AloneInv ==
  ~overlap =>
    \A h \in Calls : calls[h].busy =>
      /\ \A i \in Calls : calls[i].busy => i = h
      /\ calls[h].at = clock
      /\ calls[h].durable /\ calls[h].target \notin calls[h].writes
           => disk[calls[h].target].at = clock

DurableInv == StoreInv /\ AloneInv /\ AckedIsOnDisk

\* Wherever a row is, it is not verified and marked at once.
NoneMarked ==
  /\ \A f \in Functions : Unmarked(conclusions[f]) /\ Unmarked(disk[f].row)
  /\ loader # None => \A f \in Functions : Unmarked(loader[f].row)
  /\ \A h \in Calls : \A g \in calls[h].writes : Unmarked(calls[h].rows[g])

\* The rows this build wrote, or is about to write, pass the check of the load.
WrittenAdmissible ==
  /\ \A f \in Functions :
       disk[f].at > 0 => disk[f].row # None /\ Admissible(f, disk[f].row)
  /\ \A h \in Calls : \A g \in calls[h].writes : Admissible(g, calls[h].rows[g])

\* The row a function has, or will have once the merge task ran.
RowToBe(f) == IF loader # None /\ conclusions[f] = None THEN loader[f].row ELSE conclusions[f]

\* While nothing failed and no calls overlapped, pending writes carry the rows
\* of the session, and a file without one says what the session says.
FilesFollow ==
  failures = 0 /\ ~overlap =>
    /\ \A h \in Calls : \A g \in calls[h].writes : calls[h].rows[g] = conclusions[g]
    /\ \A f \in Functions :
         disk[f].at > 0 => \/ \E h \in Calls : f \in calls[h].writes
                           \/ disk[f].row = RowToBe(f)

FilesInv == DurableInv /\ NoneMarked /\ WrittenAdmissible /\ FilesFollow

-----------------------------------------------------------------------------
(* The first invariant, action by action. *)

\* Beginning a call keeps StoreInv.
LEMMA BeginKeepsStoreInv ==
  ASSUME StoreInv, NEW h \in Calls, BeginSome(h)
  PROVE  StoreInv'
<1> USE DEF StoreInv
<1>1. PICK f \in Functions, t \in SUBSET Functions, claim \in BOOLEAN :
           /\ Begin(h, f, conclusions', t, claim)
           /\ \A g \in t : conclusions'[g] # None
           /\ \A g \in Functions \ t : (conclusions'[g] = None) <=> (conclusions[g] = None)
  BY BeginEffect DEF StoreTypeOK
<1>2. /\ conclusions' \in Map
      /\ \A g \in Functions : conclusions[g] # None => conclusions'[g] # None
      /\ \A g \in Functions : Admissible(g, conclusions'[g])
  BY BeginIsStep, StepKeepsEvidence DEF StoreTypeOK, EvidenceInv, TypeOK, Map
<1> DEFINE new == [busy |-> TRUE, target |-> f, at |-> clock + 1, first |-> f \in t,
                   writes |-> t, rows |-> conclusions', durable |-> claim]
<1>3. /\ clock' = clock + 1
      /\ overlap' = (overlap \/ \E i \in Calls : calls[i].busy)
      /\ at' = [g \in Functions |-> IF g \in t THEN clock' ELSE at[g]]
      /\ UNCHANGED <<disk, loader, acked, failures, crashes>>
  BY <1>1 DEF Begin
<1>4. calls' = [calls EXCEPT ![h] = new] /\ new \in Call
  <2>1. [g \in Functions |-> conclusions'[g]] = conclusions'
    BY <1>2 DEF Map
  <2>2. calls' = [calls EXCEPT ![h] = new]
    BY <1>1, <2>1 DEF Begin
  <2>3. new \in Call
    BY <1>2 DEF Call, StoreTypeOK
  <2>4. QED
    BY <2>2, <2>3
<1>5. StoreTypeOK'
  <2>1. at' \in [Functions -> Nat] /\ clock' \in Nat
    BY <1>3 DEF StoreTypeOK
  <2>2. calls' \in [Calls -> Call]
    BY <1>4 DEF StoreTypeOK
  <2>3. overlap' \in BOOLEAN
    BY <1>3 DEF StoreTypeOK
  <2>4. QED
    BY <1>2, <1>3, <2>1, <2>2, <2>3 DEF StoreTypeOK
<1>6. EvidenceInv'
  BY <1>2, <1>3 DEF EvidenceInv
<1>7. VersionsPast'
  BY <1>3 DEF VersionsPast, StoreTypeOK, File
<1>8. PendingIsOwn'
  <2> SUFFICES ASSUME NEW i \in Calls, NEW g \in calls'[i].writes
               PROVE  /\ calls'[i].rows[g] # None
                      /\ conclusions'[g] # None
                      /\ calls'[i].at =< at'[g]
    BY DEF PendingIsOwn
  <2>1. CASE i = h
    <3>1. calls'[i] = new
      BY <1>4, <2>1 DEF StoreTypeOK
    <3>2. QED
      BY <1>1, <1>3, <3>1 DEF StoreTypeOK
  <2>2. CASE i # h
    <3>1. calls'[i] = calls[i] /\ calls[i] \in Call
      BY <1>4, <2>2 DEF StoreTypeOK
    <3>2. g \in Functions /\ calls[i].at \in Nat /\ at[g] \in Nat
      BY <3>1 DEF Call, StoreTypeOK
    <3>3. /\ calls[i].rows[g] # None
          /\ conclusions[g] # None
          /\ calls[i].at =< at[g]
      BY <3>1 DEF PendingIsOwn
    <3>4. at[g] =< at'[g]
      BY <1>3, <3>2 DEF VersionsPast, StoreTypeOK
    <3>5. QED
      BY <1>2, <1>3, <3>1, <3>2, <3>3, <3>4 DEF StoreTypeOK
  <2>3. QED
    BY <2>1, <2>2
<1>9. LoaderIsDisk'
  BY <1>2, <1>3 DEF LoaderIsDisk
<1>10. CallsSane'
  BY <1>4 DEF CallsSane, StoreTypeOK
<1>11. QED
  BY <1>5, <1>6, <1>7, <1>8, <1>9, <1>10

\* Writing a row, and failing to, keep StoreInv.
LEMMA WriteKeepsStoreInv ==
  ASSUME StoreInv, NEW h \in Calls, NEW g \in Functions, Persist(h, g) \/ PersistFails(h, g)
  PROVE  /\ StoreInv'
         /\ calls' \in [Calls -> Call]
         /\ \A i \in Calls :
              /\ calls'[i].writes = IF i = h THEN calls[i].writes \ {g} ELSE calls[i].writes
              /\ calls'[i].busy = calls[i].busy
              /\ calls'[i].target = calls[i].target
              /\ calls'[i].at = calls[i].at
              /\ calls'[i].rows = calls[i].rows
              /\ calls'[i].durable => calls[i].durable
              /\ PersistFails(h, g) => ~calls'[h].durable
<1> USE DEF StoreInv
<1>1. g \in calls[h].writes /\ calls[h] \in Call
  BY DEF Persist, PersistFails, NextWrite, StoreTypeOK
<1>2. PICK c \in Call :
        /\ calls' = [calls EXCEPT ![h] = c]
        /\ c.writes = calls[h].writes \ {g}
        /\ c.busy = calls[h].busy /\ c.target = calls[h].target
        /\ c.at = calls[h].at /\ c.rows = calls[h].rows
        /\ c.durable => calls[h].durable
        /\ PersistFails(h, g) => ~c.durable
  <2>1. CASE PersistFails(h, g)
    <3> DEFINE c == [calls[h] EXCEPT !.writes = @ \ {g}, !.first = FALSE, !.durable = FALSE]
    <3>1. c \in Call
      BY <1>1 DEF Call
    <3>2. calls' = [calls EXCEPT ![h] = c]
      BY <2>1 DEF PersistFails, StoreTypeOK
    <3>3. /\ c.writes = calls[h].writes \ {g}
          /\ c.busy = calls[h].busy /\ c.target = calls[h].target
          /\ c.at = calls[h].at /\ c.rows = calls[h].rows
          /\ ~c.durable
      BY <1>1 DEF Call
    <3> HIDE DEF c
    <3>4. QED
      BY <3>1, <3>2, <3>3
  <2>2. CASE Persist(h, g) /\ ~PersistFails(h, g)
    <3> DEFINE c == [calls[h] EXCEPT !.writes = @ \ {g}, !.first = FALSE]
    <3>1. c \in Call
      BY <1>1 DEF Call
    <3>2. calls' = [calls EXCEPT ![h] = c]
      BY <2>2 DEF Persist, StoreTypeOK
    <3>3. /\ c.writes = calls[h].writes \ {g}
          /\ c.busy = calls[h].busy /\ c.target = calls[h].target
          /\ c.at = calls[h].at /\ c.rows = calls[h].rows
          /\ c.durable = calls[h].durable
      BY <1>1 DEF Call
    <3> HIDE DEF c
    <3>4. QED
      BY <2>2, <3>1, <3>2, <3>3
  <2>3. QED
    BY <2>1, <2>2
<1>3. calls' \in [Calls -> Call]
  BY <1>2 DEF StoreTypeOK
<1>4. \A i \in Calls :
        /\ calls'[i].writes = IF i = h THEN calls[i].writes \ {g} ELSE calls[i].writes
        /\ calls'[i].busy = calls[i].busy
        /\ calls'[i].target = calls[i].target
        /\ calls'[i].at = calls[i].at
        /\ calls'[i].rows = calls[i].rows
        /\ calls'[i].durable => calls[i].durable
        /\ PersistFails(h, g) => ~calls'[h].durable
  BY <1>2 DEF StoreTypeOK
<1>5. UNCHANGED <<conclusions, at, loader, acked, overlap, clock, crashes>>
  BY DEF Persist, PersistFails
<1>6. /\ disk' = disk \/ disk' = [disk EXCEPT ![g] = [row |-> calls[h].rows[g], at |-> calls[h].at]]
      /\ [row |-> calls[h].rows[g], at |-> calls[h].at] \in File
      /\ conclusions[g] # None
      /\ calls[h].at =< clock
  <2>1. disk' = disk \/ disk' = [disk EXCEPT ![g] = [row |-> calls[h].rows[g], at |-> calls[h].at]]
    BY DEF Persist, PersistFails
  <2>2. calls[h].rows[g] \in Conclusion \cup {None} /\ calls[h].at \in Nat
    BY <1>1 DEF Call, Map
  <2>3. conclusions[g] # None /\ calls[h].at =< at[g] /\ at[g] =< clock
    BY <1>1 DEF PendingIsOwn, VersionsPast
  <2>4. QED
    BY <2>1, <2>2, <2>3 DEF File, StoreTypeOK
<1>7. disk' \in [Functions -> File] /\ failures' \in Nat
  BY <1>6 DEF StoreTypeOK, Persist, PersistFails
<1>8. StoreTypeOK'
  BY <1>3, <1>5, <1>7 DEF StoreTypeOK
<1>9. EvidenceInv'
  BY <1>5 DEF EvidenceInv
<1>10. VersionsPast'
  BY <1>5, <1>6, <1>7 DEF VersionsPast, StoreTypeOK
<1>11. PendingIsOwn'
  <2> SUFFICES ASSUME NEW i \in Calls, NEW k \in calls'[i].writes
               PROVE  /\ calls'[i].rows[k] # None
                      /\ conclusions'[k] # None
                      /\ calls'[i].at =< at'[k]
    BY DEF PendingIsOwn
  <2>1. k \in calls[i].writes /\ calls'[i].rows = calls[i].rows /\ calls'[i].at = calls[i].at
    BY <1>4
  <2>2. QED
    BY <1>5, <2>1 DEF PendingIsOwn
<1>12. LoaderIsDisk'
  BY <1>5, <1>6 DEF LoaderIsDisk, StoreTypeOK
<1>13. CallsSane'
  BY <1>4 DEF CallsSane
<1>14. QED
  BY <1>3, <1>4, <1>8, <1>9, <1>10, <1>11, <1>12, <1>13

\* The answer keeps StoreInv.
LEMMA ReplyKeepsStoreInv ==
  ASSUME StoreInv, NEW h \in Calls, Reply(h)
  PROVE  /\ StoreInv'
         /\ \A i \in Calls : calls'[i] = IF i = h THEN Idle ELSE calls[i]
<1> USE DEF StoreInv
<1>1. UNCHANGED <<conclusions, at, disk, loader, overlap, clock, failures, crashes>>
  BY DEF Reply
<1>2. Idle \in Call
  BY DEF Idle, Call, Map
<1>3. calls' \in [Calls -> Call] /\ \A i \in Calls : calls'[i] = IF i = h THEN Idle ELSE calls[i]
  BY <1>2 DEF Reply, StoreTypeOK
<1>4. acked' \in [Functions -> Nat]
  <2>1. calls[h].target \in Functions /\ calls[h].at \in Nat
    BY DEF Reply, CallsSane, StoreTypeOK, Call
  <2>2. QED
    BY <2>1 DEF Reply, StoreTypeOK
<1>5. StoreTypeOK'
  BY <1>1, <1>3, <1>4 DEF StoreTypeOK
<1>6. PendingIsOwn'
  <2> SUFFICES ASSUME NEW i \in Calls, NEW k \in calls'[i].writes
               PROVE  /\ calls'[i].rows[k] # None
                      /\ conclusions'[k] # None
                      /\ calls'[i].at =< at'[k]
    BY DEF PendingIsOwn
  <2>1. calls'[i] = calls[i]
    BY <1>3 DEF Idle
  <2>2. QED
    BY <1>1, <2>1 DEF PendingIsOwn
<1>7. CallsSane'
  BY <1>3 DEF CallsSane, Idle
<1>8. QED
  BY <1>1, <1>3, <1>5, <1>6, <1>7 DEF EvidenceInv, VersionsPast, LoaderIsDisk

\* A new process satisfies StoreInv, whatever the old one was doing.
LEMMA RestartKeepsStoreInv ==
  ASSUME StoreInv, CrashAndRestart
  PROVE  StoreInv'
<1> USE DEF StoreInv
<1>1. /\ conclusions' = [f \in Functions |-> None]
      /\ at' = [f \in Functions |-> 0]
      /\ calls' = [h \in Calls |-> Idle]
      /\ loader' = Loaded(disk)
      /\ UNCHANGED <<disk, acked, overlap, clock, failures>>
      /\ crashes' = crashes + 1
  BY DEF CrashAndRestart
<1>2. Idle \in Call
  BY DEF Idle, Call, Map
<1>3. /\ loader' \in [Functions -> File] \cup {None}
      /\ loader' # None => \A f \in Functions :
           /\ Admissible(f, loader'[f].row)
           /\ (loader'[f].row = None) <=> (disk[f].row = None)
           /\ loader'[f].at = IF loader'[f].row = None THEN 0 ELSE disk[f].at
  BY <1>1, LoadedEffect DEF StoreTypeOK
<1>4. StoreTypeOK'
  BY <1>1, <1>2, <1>3 DEF StoreTypeOK, Map
<1>5. EvidenceInv'
  BY <1>1, <1>3 DEF EvidenceInv, Admissible
<1>6. VersionsPast'
  BY <1>1 DEF VersionsPast, StoreTypeOK
<1>7. PendingIsOwn'
  BY <1>1 DEF PendingIsOwn, Idle
<1>8. LoaderIsDisk'
  BY <1>1, <1>3 DEF LoaderIsDisk
<1>9. CallsSane'
  BY <1>1 DEF CallsSane, Idle
<1>10. QED
  BY <1>4, <1>5, <1>6, <1>7, <1>8, <1>9

\* The merge keeps StoreInv: it adds rows and replaces none.
LEMMA MergeKeepsStoreInv ==
  ASSUME StoreInv, Merge
  PROVE  StoreInv'
<1> USE DEF StoreInv
<1>1. /\ loader \in [Functions -> File]
      /\ loader' = None
      /\ UNCHANGED <<disk, calls, acked, overlap, clock, failures, crashes>>
  BY DEF Merge, StoreTypeOK
<1>2. \A f \in Functions :
        /\ conclusions'[f] = IF conclusions[f] = None THEN loader[f].row ELSE conclusions[f]
        /\ at'[f] = IF conclusions[f] = None THEN loader[f].at ELSE at[f]
  BY DEF Merge
<1>3. StoreTypeOK'
  <2>1. conclusions' \in Map
    BY <1>1 DEF Merge, Map, StoreTypeOK, File
  <2>2. at' \in [Functions -> Nat]
    BY <1>1 DEF Merge, StoreTypeOK, File
  <2>3. QED
    BY <1>1, <2>1, <2>2 DEF StoreTypeOK
<1>4. EvidenceInv'
  BY <1>1, <1>2 DEF EvidenceInv, Merge
<1>5. VersionsPast'
  <2> SUFFICES ASSUME NEW f \in Functions PROVE at'[f] =< clock
    BY <1>1 DEF VersionsPast
  <2>1. CASE conclusions[f] # None
    BY <1>2, <2>1 DEF VersionsPast
  <2>2. CASE conclusions[f] = None /\ loader[f].row # None
    BY <1>2, <2>2 DEF Merge, LoaderIsDisk, VersionsPast
  <2>3. CASE conclusions[f] = None /\ loader[f].row = None
    BY <1>2, <2>3 DEF Merge, LoaderIsDisk, StoreTypeOK
  <2>4. QED
    BY <2>1, <2>2, <2>3
<1>6. PendingIsOwn'
  <2> SUFFICES ASSUME NEW i \in Calls, NEW k \in calls[i].writes
               PROVE  /\ calls[i].rows[k] # None
                      /\ conclusions'[k] # None
                      /\ calls[i].at =< at'[k]
    BY <1>1 DEF PendingIsOwn
  <2>1. k \in Functions
    BY DEF StoreTypeOK, Call
  <2>2. QED
    BY <1>2, <2>1 DEF PendingIsOwn
<1>7. LoaderIsDisk'
  BY <1>1 DEF LoaderIsDisk
<1>8. CallsSane'
  BY <1>1 DEF CallsSane
<1>9. QED
  BY <1>3, <1>4, <1>5, <1>6, <1>7, <1>8

\* The first process, over whatever rows earlier builds left, satisfies StoreInv.
LEMMA InitStoreInv == StoreInit => StoreInv
<1> SUFFICES ASSUME StoreInit PROVE StoreInv
  OBVIOUS
<1>1. /\ conclusions = [f \in Functions |-> None]
      /\ at = [f \in Functions |-> 0]
      /\ calls = [h \in Calls |-> Idle]
      /\ loader = Loaded(disk)
      /\ acked = [f \in Functions |-> 0]
      /\ overlap = FALSE /\ clock = 0 /\ failures = 0 /\ crashes = 0
  BY DEF StoreInit, Init
<1>2. disk \in [Functions -> File] /\ \A f \in Functions : disk[f].at = 0
  BY StoreAssumption DEF StoreInit, NoFile, File
<1>3. Idle \in Call
  BY DEF Idle, Call, Map
<1>4. /\ loader \in [Functions -> File] \cup {None}
      /\ loader # None => \A f \in Functions :
           /\ Admissible(f, loader[f].row)
           /\ (loader[f].row = None) <=> (disk[f].row = None)
           /\ loader[f].at = IF loader[f].row = None THEN 0 ELSE disk[f].at
  BY <1>1, <1>2, LoadedEffect
<1>5. StoreTypeOK
  BY <1>1, <1>2, <1>3, <1>4 DEF StoreTypeOK, Map
<1>6. EvidenceInv
  BY <1>1, <1>4 DEF EvidenceInv, Admissible
<1>7. VersionsPast /\ PendingIsOwn /\ CallsSane
  BY <1>1, <1>2 DEF VersionsPast, PendingIsOwn, CallsSane, Idle
<1>8. LoaderIsDisk
  BY <1>1, <1>4 DEF LoaderIsDisk
<1>9. QED
  BY <1>5, <1>6, <1>7, <1>8 DEF StoreInv

\* The types, the evidence of every row in memory or about to come in, and the
\* order of the versions are kept in every behaviour of the store.
THEOREM StoreInvariance == StoreSpec => []StoreInv
<1>1. StoreInv /\ [StoreNext]_storeVars => StoreInv'
  <2> SUFFICES ASSUME StoreInv, [StoreNext]_storeVars PROVE StoreInv'
    OBVIOUS
  <2>1. CASE UNCHANGED storeVars
    BY <2>1 DEF storeVars, StoreInv, StoreTypeOK, CallsSane, EvidenceInv, VersionsPast,
                PendingIsOwn, LoaderIsDisk
  <2>2. ASSUME NEW h \in Calls, BeginSome(h) PROVE StoreInv'
    BY <2>2, BeginKeepsStoreInv
  <2>3. ASSUME NEW h \in Calls, NEW g \in Functions, Persist(h, g) \/ PersistFails(h, g)
        PROVE  StoreInv'
    BY <2>3, WriteKeepsStoreInv
  <2>4. ASSUME NEW h \in Calls, Reply(h) PROVE StoreInv'
    BY <2>4, ReplyKeepsStoreInv
  <2>5. CASE CrashAndRestart
    BY <2>5, RestartKeepsStoreInv
  <2>6. CASE Merge
    BY <2>6, MergeKeepsStoreInv
  <2>7. QED
    BY <2>1, <2>2, <2>3, <2>4, <2>5, <2>6 DEF StoreNext, BeginSome
<1>2. QED
  BY <1>1, InitStoreInv, PTL DEF StoreSpec

\* Whatever earlier builds left on disk, is lost in a crash or fails to be
\* written, the session never holds a row verified on evidence the server would
\* not admit.
THEOREM EvidenceAdmissible == StoreSpec => []SessionEvidenceAdmissible
<1>1. StoreInv => SessionEvidenceAdmissible
  BY DEF StoreInv, EvidenceInv, Admissible, SessionEvidenceAdmissible, Verified, Present
<1>2. QED
  BY <1>1, StoreInvariance, PTL

-----------------------------------------------------------------------------
(* Session and files implement DurableRows. *)

MemoryVersions == [f \in Functions |-> Version(conclusions[f], at[f])]
SavedVersions == [f \in Functions |-> Version(disk[f].row, disk[f].at)]

\* Versions are numbers, 0 exactly for no row.
LEMMA VersionsType ==
  ASSUME StoreTypeOK
  PROVE  /\ MemoryVersions \in [Functions -> Nat] /\ SavedVersions \in [Functions -> Nat]
         /\ \A f \in Functions : /\ MemoryVersions[f] # 0 <=> conclusions[f] # None
                                 /\ SavedVersions[f] # 0 <=> disk[f].row # None
  BY DEF StoreTypeOK, MemoryVersions, SavedVersions, Version, File

\* A call that begins replaces rows by newer ones.
LEMMA BeginIsChange ==
  ASSUME StoreInv, NEW h \in Calls, BeginSome(h)
  PROVE  Durable!Change
<1> USE DEF StoreInv
<1>1. PICK f \in Functions, t \in SUBSET Functions, claim \in BOOLEAN :
           /\ Begin(h, f, conclusions', t, claim)
           /\ \A g \in t : conclusions'[g] # None
           /\ \A g \in Functions \ t : (conclusions'[g] = None) <=> (conclusions[g] = None)
  BY BeginEffect DEF StoreTypeOK
<1>2. /\ clock' = clock + 1
      /\ at' = [g \in Functions |-> IF g \in t THEN clock' ELSE at[g]]
      /\ UNCHANGED <<disk, loader>>
  BY <1>1 DEF Begin
<1>3. ASSUME NEW g \in Functions, MemoryVersions'[g] # MemoryVersions[g]
      PROVE  MemoryVersions'[g] > MemoryVersions[g] /\ MemoryVersions'[g] > SavedVersions[g]
  <2>1. g \in t
    BY <1>1, <1>2, <1>3 DEF MemoryVersions, Version
  <2>2. MemoryVersions'[g] = clock + 2
    BY <1>1, <1>2, <2>1 DEF MemoryVersions, Version, StoreTypeOK
  <2>3. MemoryVersions[g] =< clock + 1 /\ SavedVersions[g] =< clock + 1
    BY DEF MemoryVersions, SavedVersions, Version, VersionsPast, StoreTypeOK, File
  <2>4. QED
    BY <2>2, <2>3, VersionsType DEF StoreTypeOK
<1>4. QED
  BY <1>2, <1>3 DEF Durable!Change, MemoryVersions, SavedVersions

\* A write saves a version the process made.
LEMMA PersistIsSave ==
  ASSUME StoreInv, NEW h \in Calls, NEW g \in Functions, Persist(h, g)
  PROVE  Durable!Save(g)
<1> USE DEF StoreInv
<1>1. /\ g \in calls[h].writes
      /\ disk' = [disk EXCEPT ![g] = [row |-> calls[h].rows[g], at |-> calls[h].at]]
      /\ UNCHANGED <<conclusions, at, loader>>
  BY DEF Persist, NextWrite
<1>2. /\ calls[h].rows[g] # None
      /\ conclusions[g] # None
      /\ calls[h].at =< at[g]
      /\ calls[h].at \in Nat /\ at[g] \in Nat
  BY <1>1 DEF PendingIsOwn, StoreTypeOK, Call
<1>3. SavedVersions'[g] = calls[h].at + 1 /\ MemoryVersions[g] = at[g] + 1
  BY <1>1, <1>2 DEF SavedVersions, MemoryVersions, Version, StoreTypeOK
<1>4. SavedVersions' = [SavedVersions EXCEPT ![g] = SavedVersions'[g]]
  BY <1>1 DEF SavedVersions, StoreTypeOK
<1>5. MemoryVersions[g] # 0 /\ SavedVersions'[g] \in 1..MemoryVersions[g]
  BY <1>2, <1>3
<1>6. UNCHANGED <<MemoryVersions, loader # None>>
  BY <1>1 DEF MemoryVersions
<1>7. QED
  BY <1>4, <1>5, <1>6 DEF Durable!Save, MemoryVersions, SavedVersions

\* A new process has no rows, and a merge to come exactly if there are files.
LEMMA CrashIsRestart ==
  ASSUME StoreInv, CrashAndRestart
  PROVE  Durable!Restart
<1>1. /\ MemoryVersions' = [f \in Functions |-> 0]
      /\ UNCHANGED SavedVersions
  BY DEF CrashAndRestart, MemoryVersions, SavedVersions, Version
<1>2. (loader # None)' = \E f \in Functions : SavedVersions[f] # 0
  BY LoadedEffect, VersionsType DEF StoreInv, StoreTypeOK, CrashAndRestart
<1>3. QED
  BY <1>1, <1>2 DEF Durable!Restart, Durable!Left, MemoryVersions, SavedVersions

\* The merge brings in what is on disk where there is no row.
LEMMA MergeIsRecover ==
  ASSUME StoreInv, Merge
  PROVE  Durable!Recover
<1>1. /\ loader # None /\ loader' = None
      /\ UNCHANGED disk
  BY DEF Merge
<1>2. ASSUME NEW f \in Functions
      PROVE  Version(conclusions'[f], at'[f])
               = IF MemoryVersions[f] = 0 THEN SavedVersions[f] ELSE MemoryVersions[f]
  <2>1. /\ conclusions'[f] = IF conclusions[f] = None THEN loader[f].row ELSE conclusions[f]
        /\ at'[f] = IF conclusions[f] = None THEN loader[f].at ELSE at[f]
    BY DEF Merge
  <2>2. CASE conclusions[f] = None
    <3>1. MemoryVersions[f] = 0
      BY <2>2 DEF MemoryVersions, Version
    <3>2. /\ (loader[f].row = None) <=> (disk[f].row = None)
          /\ loader[f].at = IF loader[f].row = None THEN 0 ELSE disk[f].at
      BY <1>1, <2>2 DEF StoreInv, LoaderIsDisk
    <3>3. QED
      BY <2>1, <2>2, <3>1, <3>2 DEF SavedVersions, Version
  <2>3. CASE conclusions[f] # None
    <3>1. MemoryVersions[f] # 0
      BY <2>3, VersionsType DEF StoreInv
    <3>2. QED
      BY <2>1, <2>3, <3>1 DEF MemoryVersions
  <2>4. QED
    BY <2>2, <2>3
<1>3. MemoryVersions' = [f \in Functions |->
          IF MemoryVersions[f] = 0 THEN SavedVersions[f] ELSE MemoryVersions[f]]
  BY <1>2 DEF MemoryVersions
<1>4. UNCHANGED SavedVersions
  BY <1>1 DEF SavedVersions
<1>5. QED
  BY <1>1, <1>3, <1>4 DEF Durable!Recover, MemoryVersions, SavedVersions

\* Through overlapping calls, failed writes and crashes, session and files keep
\* what DurableRows promises: every step of the store is one of its steps or
\* changes nothing of it.
THEOREM RowsImplemented == StoreSpec => ImplementsDurableRows
<1>1. StoreInit => Durable!Init
  <2> SUFFICES ASSUME StoreInit PROVE Durable!Init
    OBVIOUS
  <2>1. StoreTypeOK
    BY InitStoreInv DEF StoreInv
  <2>2. MemoryVersions = [f \in Functions |-> 0]
    BY DEF StoreInit, Init, MemoryVersions, Version
  <2>3. SavedVersions \in [Functions -> {0, 1}]
    BY DEF StoreInit, NoFile, SavedVersions, Version
  <2>4. (loader # None) = \E f \in Functions : SavedVersions[f] # 0
    BY <2>1, LoadedEffect, VersionsType DEF StoreInit, StoreTypeOK
  <2>5. QED
    BY <2>2, <2>3, <2>4 DEF Durable!Init, Durable!Left, MemoryVersions, SavedVersions
<1>2. StoreInv /\ [StoreNext]_storeVars => [Durable!Next]_Durable!rows
  <2> SUFFICES ASSUME StoreInv, [StoreNext]_storeVars
               PROVE  Durable!Next \/ UNCHANGED Durable!rows
    OBVIOUS
  <2>1. CASE UNCHANGED <<conclusions, at, disk, loader>>
    BY <2>1 DEF Durable!rows
  <2>2. ASSUME NEW h \in Calls, BeginSome(h) PROVE Durable!Next
    BY <2>2, BeginIsChange DEF Durable!Next
  <2>3. ASSUME NEW h \in Calls, NEW g \in Functions, Persist(h, g) PROVE Durable!Next
    BY <2>3, PersistIsSave DEF Durable!Next
  <2>4. ASSUME NEW h \in Calls, \/ \E g \in Functions : PersistFails(h, g)
                                \/ Reply(h)
        PROVE  UNCHANGED <<conclusions, at, disk, loader>>
    BY <2>4 DEF PersistFails, Reply
  <2>5. CASE CrashAndRestart
    BY <2>5, CrashIsRestart DEF Durable!Next
  <2>6. CASE Merge
    BY <2>6, MergeIsRecover DEF Durable!Next
  <2>7. CASE UNCHANGED storeVars
    BY <2>1, <2>7 DEF storeVars
  <2>8. QED
    BY <2>1, <2>2, <2>3, <2>4, <2>5, <2>6, <2>7 DEF StoreNext, BeginSome
<1>3. QED
  BY <1>1, <1>2, StoreInvariance, PTL DEF StoreSpec, ImplementsDurableRows, Durable!Spec

-----------------------------------------------------------------------------
(* The files follow the session. *)

\* A step of Conclusions leaves no verified row marked.
LEMMA StepKeepsUnmarked ==
  ASSUME TypeOK, \A f \in Functions : Unmarked(conclusions[f]),
         \/ \E u \in Update : Store(u)
         \/ \E f \in Sandboxed : SandboxStep(f)
  PROVE  \A f \in Functions : Unmarked(conclusions'[f])
<1>1. ASSUME NEW u \in Update, Store(u), NEW f \in Functions
      PROVE  Unmarked(conclusions'[f])
  <2>1. /\ conclusions \in Map
        /\ Valid(u.function, Merged(conclusions, u))
        /\ conclusions'[u.function] = Merged(conclusions, u)
        /\ \A g \in Functions \ {u.function} :
              /\ (conclusions[g] = None) <=> (conclusions'[g] = None)
              /\ conclusions[g] # None =>
                   conclusions'[g] = Swept(conclusions, u, Merged(conclusions, u), g)
    BY <1>1, StoreEffect
  <2>2. CASE f = u.function
    BY <2>1, <2>2 DEF Valid, Unmarked
  <2>3. CASE f # u.function /\ conclusions'[f] # None
    <3>1. conclusions[f] # None /\ conclusions'[f] = Swept(conclusions, u, Merged(conclusions, u), f)
      BY <2>1, <2>3
    <3>2. /\ conclusions'[f].status = "verified" => conclusions[f].status = "verified"
          /\ conclusions'[f].status = "verified" /\ conclusions[f].stale_proof_environment = None
               => conclusions'[f].stale_proof_environment = None
      BY <2>1, <3>1, SweptEffect
    <3>3. QED
      BY <3>1, <3>2 DEF Unmarked
  <2>4. QED
    BY <2>2, <2>3 DEF Unmarked
<1>2. ASSUME NEW f \in Sandboxed, SandboxStep(f), NEW g \in Functions
      PROVE  Unmarked(conclusions'[g])
  <2>1. f \in Functions
    BY ConclusionsAssumption
  <2>2. conclusions'[g] # None =>
          /\ conclusions'[g].status = "verified" =>
               conclusions[g] # None /\ RowOf(conclusions, g).status = "verified"
          /\ conclusions'[g].stale_proof_environment
               = RowOf(conclusions, g).stale_proof_environment
    BY <1>2, <2>1, SandboxEffect
  <2>3. QED
    BY <2>2 DEF Unmarked, RowOf
<1>3. QED
  BY <1>1, <1>2

\* The load changes no row with admissible evidence, and marks none.
LEMMA LoadedRowKept ==
  ASSUME NEW f \in Functions, NEW row \in Conclusion
  PROVE  /\ Admissible(f, row) => LoadedRow(f, row) = row
         /\ Unmarked(row) => Unmarked(LoadedRow(f, row))
<1>0. row # None
  BY NoneAssumption
<1>1. Admissible(f, row) => LoadedRow(f, row) = row
  BY <1>0 DEF LoadedRow, Admissible
<1>2. ASSUME Unmarked(row) PROVE Unmarked(LoadedRow(f, row))
  <2>1. \/ LoadedRow(f, row) = row
        \/ LoadedRow(f, row) = [row EXCEPT !.status = "in_progress", !.proof_receipt = None]
    BY DEF LoadedRow
  <2>2. [row EXCEPT !.status = "in_progress", !.proof_receipt = None].status = "in_progress"
    BY DEF Conclusion
  <2>3. QED
    BY <1>2, <2>1, <2>2 DEF Unmarked
<1>3. QED
  BY <1>1, <1>2

\* Beginning a call keeps what is said about calls in flight and about the
\* answers given.
LEMMA BeginKeepsAlone ==
  ASSUME DurableInv, NEW h \in Calls, BeginSome(h)
  PROVE  AloneInv' /\ AckedIsOnDisk'
<1> USE DEF DurableInv, StoreInv
<1>1. PICK f \in Functions, t \in SUBSET Functions, claim \in BOOLEAN :
           Begin(h, f, conclusions', t, claim) /\ (claim => f \in t)
  BY BeginEffect DEF StoreTypeOK
<1>2. /\ ~calls[h].busy
      /\ clock' = clock + 1
      /\ overlap' = (overlap \/ \E i \in Calls : calls[i].busy)
      /\ UNCHANGED <<disk, acked>>
      /\ calls' = [calls EXCEPT ![h] =
           [busy |-> TRUE, target |-> f, at |-> clock', first |-> f \in t, writes |-> t,
            rows |-> [g \in Functions |-> conclusions'[g]], durable |-> claim]]
  BY <1>1 DEF Begin
<1>3. AckedIsOnDisk'
  BY <1>2 DEF AckedIsOnDisk
<1>4. ASSUME ~overlap', NEW i \in Calls, calls'[i].busy
      PROVE  /\ i = h
             /\ calls'[i].at = clock'
             /\ ~(calls'[i].durable /\ calls'[i].target \notin calls'[i].writes)
  <2>1. i = h
    BY <1>2, <1>4 DEF StoreTypeOK
  <2>2. /\ calls'[i].at = clock'
        /\ calls'[i].durable = claim /\ calls'[i].target = f /\ calls'[i].writes = t
    BY <1>2, <2>1 DEF StoreTypeOK
  <2>3. QED
    BY <1>1, <2>1, <2>2
<1>5. AloneInv'
  BY <1>4 DEF AloneInv
<1>6. QED
  BY <1>3, <1>5

\* So do a write and a failure to write.
LEMMA WriteKeepsAlone ==
  ASSUME DurableInv, NEW h \in Calls, NEW g \in Functions, Persist(h, g) \/ PersistFails(h, g)
  PROVE  AloneInv' /\ AckedIsOnDisk'
<1> USE DEF DurableInv, StoreInv
<1> DEFINE file == [row |-> calls[h].rows[g], at |-> calls[h].at]
<1>1. /\ g \in calls[h].writes
      /\ disk' = IF Persist(h, g) THEN [disk EXCEPT ![g] = file] ELSE disk
      /\ UNCHANGED <<acked, overlap, clock>>
  BY DEF Persist, PersistFails, NextWrite
<1>2. \A i \in Calls :
        /\ calls'[i].writes = IF i = h THEN calls[i].writes \ {g} ELSE calls[i].writes
        /\ calls'[i].busy = calls[i].busy
        /\ calls'[i].target = calls[i].target
        /\ calls'[i].at = calls[i].at
        /\ calls'[i].durable => calls[i].durable
        /\ PersistFails(h, g) => ~calls'[h].durable
  BY WriteKeepsStoreInv, SMTT(30)
<1>3. calls[h].busy
  BY <1>1 DEF CallsSane
<1>4. CASE overlap
  BY <1>1, <1>4 DEF AloneInv, AckedIsOnDisk
<1>5. CASE ~overlap
  <2>1. calls[h].at = clock /\ \A i \in Calls : calls[i].busy => i = h
    BY <1>3, <1>5 DEF AloneInv
  <2>2. \A f \in Functions :
          /\ disk'[f].at = IF Persist(h, g) /\ f = g THEN clock ELSE disk[f].at
          /\ disk[f].at =< disk'[f].at
          /\ disk[f].at \in Nat /\ disk'[f].at \in Nat
    BY <1>1, <2>1 DEF StoreTypeOK, File, VersionsPast
  <2>3. AckedIsOnDisk'
    BY <1>1, <1>5, <2>2 DEF AckedIsOnDisk, StoreTypeOK
  <2>4. ASSUME NEW i \in Calls, calls'[i].busy,
               calls'[i].durable, calls'[i].target \notin calls'[i].writes
        PROVE  disk'[calls'[i].target].at = clock
    <3>1. i = h /\ calls[h].durable /\ ~PersistFails(h, g) /\ calls[h].target \in Functions
      BY <1>2, <2>1, <2>4 DEF CallsSane
    <3>2. CASE calls[h].target = g
      BY <1>2, <2>2, <3>1, <3>2
    <3>3. CASE calls[h].target # g
      <4>1. calls[h].target \notin calls[h].writes
        BY <1>2, <2>4, <3>1, <3>3
      <4>2. disk[calls[h].target].at = clock
        BY <1>3, <1>5, <3>1, <4>1 DEF AloneInv
      <4>3. QED
        BY <1>2, <2>2, <3>1, <3>3, <4>2, ZenonT(60)
    <3>4. QED
      BY <3>2, <3>3
  <2>5. \A i \in Calls : calls'[i].busy => calls'[i].at = clock /\ i = h
    BY <1>2, <2>1
  <2>6. AloneInv'
    BY <1>1, <2>4, <2>5 DEF AloneInv
  <2>7. QED
    BY <2>3, <2>6
<1>6. QED
  BY <1>4, <1>5 DEF StoreTypeOK

\* So does the answer: what it claims is on disk.
LEMMA ReplyKeepsAlone ==
  ASSUME DurableInv, NEW h \in Calls, Reply(h)
  PROVE  AloneInv' /\ AckedIsOnDisk'
<1> USE DEF DurableInv, StoreInv
<1>1. /\ calls[h].busy /\ calls[h].writes = {}
      /\ UNCHANGED <<disk, overlap, clock>>
      /\ acked' = IF calls[h].durable /\ calls[h].at > acked[calls[h].target]
                  THEN [acked EXCEPT ![calls[h].target] = calls[h].at] ELSE acked
  BY DEF Reply
<1>2. \A i \in Calls : calls'[i] = IF i = h THEN Idle ELSE calls[i]
  BY ReplyKeepsStoreInv
<1>3. AloneInv'
  BY <1>1, <1>2 DEF AloneInv, Idle
<1>4. AckedIsOnDisk'
  <2> SUFFICES ASSUME ~overlap, NEW f \in Functions PROVE disk[f].at >= acked'[f]
    BY <1>1 DEF AckedIsOnDisk
  <2>1. disk[f].at >= acked[f]
    BY DEF AckedIsOnDisk
  <2>2. calls[h].target \in Functions
    BY <1>1 DEF CallsSane
  <2>3. calls[h].durable => disk[calls[h].target].at = clock /\ calls[h].at = clock
    BY <1>1 DEF AloneInv
  <2>4. QED
    BY <1>1, <2>1, <2>2, <2>3 DEF StoreTypeOK
<1>5. QED
  BY <1>3, <1>4

\* No step takes back what was answered as stored.
LEMMA DurableStep == DurableInv /\ [StoreNext]_storeVars => DurableInv'
<1> SUFFICES ASSUME DurableInv, [StoreNext]_storeVars PROVE DurableInv'
  OBVIOUS
<1>1. CASE UNCHANGED storeVars
  BY <1>1 DEF storeVars, DurableInv, StoreInv, StoreTypeOK, CallsSane, EvidenceInv, VersionsPast,
              PendingIsOwn, LoaderIsDisk, AloneInv, AckedIsOnDisk
<1>2. ASSUME NEW h \in Calls, BeginSome(h) PROVE DurableInv'
  BY <1>2, BeginKeepsStoreInv, BeginKeepsAlone DEF DurableInv
<1>3. ASSUME NEW h \in Calls, NEW g \in Functions, Persist(h, g) \/ PersistFails(h, g)
      PROVE  DurableInv'
  BY <1>3, WriteKeepsStoreInv, WriteKeepsAlone DEF DurableInv
<1>4. ASSUME NEW h \in Calls, Reply(h) PROVE DurableInv'
  BY <1>4, ReplyKeepsStoreInv, ReplyKeepsAlone DEF DurableInv
<1>5. CASE CrashAndRestart
  <2>1. AloneInv' /\ AckedIsOnDisk'
    BY <1>5 DEF CrashAndRestart, AloneInv, Idle, DurableInv, AckedIsOnDisk
  <2>2. QED
    BY <1>5, <2>1, RestartKeepsStoreInv DEF DurableInv
<1>6. CASE Merge
  <2>1. AloneInv' /\ AckedIsOnDisk'
    BY <1>6 DEF Merge, AloneInv, DurableInv, AckedIsOnDisk
  <2>2. QED
    BY <1>6, <2>1, MergeKeepsStoreInv DEF DurableInv
<1>7. QED
  BY <1>1, <1>2, <1>3, <1>4, <1>5, <1>6 DEF StoreNext, BeginSome

\* What was answered as stored and durable is on disk, itself or a newer version
\* of it, and stays there through crashes, as long as no two calls overlapped.
THEOREM AckedOnDisk == StoreSpec => []AckedIsOnDisk
<1>1. StoreInit => DurableInv
  <2> SUFFICES ASSUME StoreInit PROVE DurableInv
    OBVIOUS
  <2>1. AloneInv
    BY DEF StoreInit, AloneInv, Idle
  <2>2. AckedIsOnDisk
    <3>1. disk \in [Functions -> {NoFile} \cup {[row |-> r, at |-> 0] : r \in OldRows}]
      BY DEF StoreInit
    <3>2. \A f \in Functions : disk[f].at = 0
      BY <3>1 DEF NoFile
    <3>3. \A f \in Functions : acked[f] = 0
      BY DEF StoreInit
    <3>4. 0 >= 0
      OBVIOUS
    <3>5. \A f \in Functions : disk[f].at >= acked[f]
      BY <3>2, <3>3, <3>4, Zenon
    <3>6. QED
      BY <3>5 DEF AckedIsOnDisk
  <2>3. QED
    BY <2>1, <2>2, InitStoreInv DEF DurableInv
<1>2. DurableInv => AckedIsOnDisk
  BY DEF DurableInv
<1>3. QED
  BY <1>1, <1>2, DurableStep, PTL DEF StoreSpec

\* Beginning a call keeps what is said about rows and files: what it changes it
\* will write.
LEMMA BeginKeepsFiles ==
  ASSUME FilesInv, NEW h \in Calls, BeginSome(h)
  PROVE  NoneMarked' /\ WrittenAdmissible' /\ FilesFollow'
<1> USE DEF FilesInv, DurableInv, StoreInv
<1>1. PICK f \in Functions, t \in SUBSET Functions, claim \in BOOLEAN :
           /\ Begin(h, f, conclusions', t, claim)
           /\ \A g \in Functions \ t : conclusions'[g] = conclusions[g]
  BY BeginEffect DEF StoreTypeOK, NoneMarked
<1>2. /\ conclusions' \in Map
      /\ \A g \in Functions : conclusions[g] # None => conclusions'[g] # None
      /\ \A g \in Functions : Admissible(g, conclusions'[g])
  BY BeginIsStep, StepKeepsEvidence DEF StoreTypeOK, EvidenceInv, TypeOK, Map
<1>3. \A g \in Functions : Unmarked(conclusions'[g])
  BY BeginIsStep, StepKeepsUnmarked DEF StoreTypeOK, NoneMarked, TypeOK, Map
<1>4. /\ ~calls[h].busy
      /\ overlap' = (overlap \/ \E i \in Calls : calls[i].busy)
      /\ UNCHANGED <<disk, loader, failures>>
  BY <1>1 DEF Begin
<1>5. \A i \in Calls :
        IF i = h THEN calls'[i].writes = t /\ calls'[i].rows = conclusions'
                 ELSE calls'[i] = calls[i]
  <2>1. [g \in Functions |-> conclusions'[g]] = conclusions'
    BY <1>2 DEF Map
  <2>2. QED
    BY <1>1, <2>1 DEF Begin, StoreTypeOK
<1>6. NoneMarked'
  <2>1. ASSUME NEW i \in Calls, NEW g \in calls'[i].writes
        PROVE  Unmarked(calls'[i].rows[g])
    BY <1>3, <1>5, <2>1 DEF NoneMarked
  <2>2. QED
    BY <1>3, <1>4, <2>1 DEF NoneMarked
<1>7. WrittenAdmissible'
  <2>1. ASSUME NEW i \in Calls, NEW g \in calls'[i].writes
        PROVE  Admissible(g, calls'[i].rows[g])
    BY <1>2, <1>5, <2>1 DEF WrittenAdmissible
  <2>2. QED
    BY <1>4, <2>1 DEF WrittenAdmissible
<1>8. FilesFollow'
  <2> SUFFICES ASSUME failures = 0, ~overlap'
               PROVE  /\ \A i \in Calls : \A g \in calls'[i].writes :
                           calls'[i].rows[g] = conclusions'[g]
                      /\ \A g \in Functions :
                           disk[g].at > 0 => \/ \E i \in Calls : g \in calls'[i].writes
                                             \/ disk[g].row = RowToBe(g)'
    BY <1>4 DEF FilesFollow
  <2>1. ~overlap /\ \A i \in Calls : ~calls[i].busy /\ calls[i].writes = {}
    BY <1>4 DEF CallsSane, StoreTypeOK
  <2>2. \A i \in Calls : \A g \in calls'[i].writes : calls'[i].rows[g] = conclusions'[g]
    BY <1>5, <2>1
  <2>3. ASSUME NEW g \in Functions \ t, disk[g].at > 0
        PROVE  disk[g].row = RowToBe(g)'
    <3>1. disk[g].row = RowToBe(g)
      BY <2>1, <2>3 DEF FilesFollow
    <3>2. QED
      BY <1>1, <1>4, <3>1 DEF RowToBe
  <2>4. QED
    BY <1>5, <2>2, <2>3
<1>9. QED
  BY <1>6, <1>7, <1>8

\* So do a write and a failure to write.
LEMMA WriteKeepsFiles ==
  ASSUME FilesInv, NEW h \in Calls, NEW g \in Functions, Persist(h, g) \/ PersistFails(h, g)
  PROVE  NoneMarked' /\ WrittenAdmissible' /\ FilesFollow'
<1> USE DEF FilesInv, DurableInv, StoreInv
<1> DEFINE file == [row |-> calls[h].rows[g], at |-> calls[h].at]
<1>1. /\ g \in calls[h].writes
      /\ disk' = disk \/ disk' = [disk EXCEPT ![g] = file]
      /\ PersistFails(h, g) => failures' # 0
      /\ ~PersistFails(h, g) => disk' = [disk EXCEPT ![g] = file] /\ failures' = failures
      /\ UNCHANGED <<conclusions, loader, overlap>>
  BY SMTT(30) DEF Persist, PersistFails, NextWrite, StoreTypeOK
<1>2. \A i \in Calls :
        /\ calls'[i].writes = IF i = h THEN calls[i].writes \ {g} ELSE calls[i].writes
        /\ calls'[i].rows = calls[i].rows
  BY WriteKeepsStoreInv
<1>3. \A i \in Calls : calls'[i].writes \subseteq calls[i].writes
  BY <1>2
<1>4. \A k \in Functions : disk'[k] = disk[k] \/ (k = g /\ disk'[k] = file)
  BY <1>1 DEF StoreTypeOK
<1>5. /\ calls[h].rows[g] # None
      /\ Unmarked(calls[h].rows[g]) /\ Admissible(g, calls[h].rows[g])
  BY <1>1 DEF PendingIsOwn, NoneMarked, WrittenAdmissible
<1>6. NoneMarked'
  <2>1. \A k \in Functions : Unmarked(conclusions'[k]) /\ Unmarked(disk'[k].row)
    BY <1>1, <1>4, <1>5 DEF NoneMarked
  <2>2. \A i \in Calls : \A k \in calls'[i].writes : Unmarked(calls'[i].rows[k])
    BY <1>2, <1>3 DEF NoneMarked
  <2>3. loader' # None => \A k \in Functions : Unmarked(loader'[k].row)
    BY <1>1 DEF NoneMarked
  <2>4. QED
    BY <2>1, <2>2, <2>3 DEF NoneMarked
<1>7. WrittenAdmissible'
  <2>1. ASSUME NEW k \in Functions, disk'[k].at > 0
        PROVE  disk'[k].row # None /\ Admissible(k, disk'[k].row)
    <3>1. CASE disk'[k] = disk[k]
      BY <2>1, <3>1 DEF WrittenAdmissible
    <3>2. CASE k = g /\ disk'[k] = file
      BY <1>5, <3>2
    <3>3. QED
      BY <1>4, <3>1, <3>2
  <2>2. \A i \in Calls : \A k \in calls'[i].writes : Admissible(k, calls'[i].rows[k])
    BY <1>2, <1>3 DEF WrittenAdmissible
  <2>3. QED
    BY <2>1, <2>2 DEF WrittenAdmissible
<1>8. FilesFollow'
  <2> SUFFICES ASSUME failures' = 0, ~overlap
               PROVE  /\ \A i \in Calls : \A k \in calls'[i].writes :
                           calls'[i].rows[k] = conclusions[k]
                      /\ \A k \in Functions :
                           disk'[k].at > 0 => \/ \E i \in Calls : k \in calls'[i].writes
                                              \/ disk'[k].row = RowToBe(k)
    BY <1>1 DEF FilesFollow, RowToBe
  <2>1. failures = 0 /\ disk' = [disk EXCEPT ![g] = file]
    BY <1>1
  <2>2. \A i \in Calls : \A k \in calls'[i].writes : calls'[i].rows[k] = conclusions[k]
    BY <1>2, <1>3, <2>1, ZenonT(60) DEF FilesFollow
  <2>3. ASSUME NEW k \in Functions, disk'[k].at > 0
        PROVE  \/ \E i \in Calls : k \in calls'[i].writes
               \/ disk'[k].row = RowToBe(k)
    <3>1. CASE k = g
      <4>1. disk'[k].row = calls[h].rows[g]
        BY <2>1, <3>1 DEF StoreTypeOK
      <4>2. calls[h].rows[g] = conclusions[g] /\ conclusions[g] # None
        BY <1>1, <2>1 DEF FilesFollow, PendingIsOwn
      <4>3. QED
        BY <3>1, <4>1, <4>2 DEF RowToBe
    <3>2. CASE k # g
      <4>1. disk'[k] = disk[k]
        BY <1>4, <3>2
      <4>2. \/ \E i \in Calls : k \in calls[i].writes
            \/ disk[k].row = RowToBe(k)
        BY <2>1, <2>3, <4>1 DEF FilesFollow
      <4>3. QED
        BY <1>2, <3>2, <4>1, <4>2
    <3>3. QED
      BY <3>1, <3>2
  <2>4. QED
    BY <2>2, <2>3
<1>9. QED
  BY <1>6, <1>7, <1>8

\* The answer changes neither rows nor files.
LEMMA ReplyKeepsFiles ==
  ASSUME FilesInv, NEW h \in Calls, Reply(h)
  PROVE  NoneMarked' /\ WrittenAdmissible' /\ FilesFollow'
<1> USE DEF FilesInv, DurableInv, StoreInv
<1>1. /\ calls[h].writes = {}
      /\ UNCHANGED <<conclusions, disk, loader, overlap, failures>>
  BY DEF Reply
<1>2. \A i \in Calls : /\ calls'[i].writes = calls[i].writes
                       /\ calls'[i].writes # {} => calls'[i].rows = calls[i].rows
  BY <1>1, ReplyKeepsStoreInv DEF Idle
<1>3. NoneMarked' /\ WrittenAdmissible'
  BY <1>1, <1>2 DEF NoneMarked, WrittenAdmissible
<1>4. \A f \in Functions : RowToBe(f)' = RowToBe(f)
  BY <1>1 DEF RowToBe
<1>5. FilesFollow'
  BY <1>1, <1>2, <1>4 DEF FilesFollow
<1>6. QED
  BY <1>3, <1>5

\* A new process will have the rows that are on disk, unchanged if this build
\* wrote them.
LEMMA RestartKeepsFiles ==
  ASSUME FilesInv, CrashAndRestart
  PROVE  NoneMarked' /\ WrittenAdmissible' /\ FilesFollow'
<1> USE DEF FilesInv, DurableInv, StoreInv
<1>1. /\ conclusions' = [f \in Functions |-> None]
      /\ calls' = [h \in Calls |-> Idle]
      /\ loader' = Loaded(disk)
      /\ UNCHANGED disk
  BY DEF CrashAndRestart
<1>2. \A h \in Calls : calls'[h].writes = {}
  BY <1>1 DEF Idle
<1>3. /\ loader' # None <=> \E f \in Functions : disk[f].row # None
      /\ loader' # None => \A f \in Functions :
           /\ (loader'[f].row = None) <=> (disk[f].row = None)
           /\ disk[f].row # None => loader'[f].row = LoadedRow(f, disk[f].row)
  BY <1>1, LoadedEffect DEF StoreTypeOK
<1>4. \A f \in Functions : disk[f].row # None => disk[f].row \in Conclusion
  BY DEF StoreTypeOK, File
<1>5. NoneMarked'
  <2>1. ASSUME NEW f \in Functions, loader' # None PROVE Unmarked(loader'[f].row)
    <3>1. CASE disk[f].row = None
      BY <1>3, <2>1, <3>1 DEF Unmarked
    <3>2. CASE disk[f].row # None
      BY <1>3, <1>4, <2>1, <3>2, LoadedRowKept DEF NoneMarked
    <3>3. QED
      BY <3>1, <3>2
  <2>2. QED
    BY <1>1, <1>2, <2>1 DEF NoneMarked, Unmarked
<1>6. WrittenAdmissible'
  BY <1>1, <1>2 DEF WrittenAdmissible
<1>7. ASSUME NEW f \in Functions, disk[f].at > 0
      PROVE  disk[f].row = RowToBe(f)'
  <2>1. disk[f].row # None /\ Admissible(f, disk[f].row)
    BY <1>7 DEF WrittenAdmissible
  <2>2. loader'[f].row = disk[f].row
    BY <1>3, <1>4, <2>1, LoadedRowKept
  <2>3. QED
    BY <1>1, <1>3, <2>1, <2>2 DEF RowToBe
<1>8. FilesFollow'
  BY <1>1, <1>2, <1>7 DEF FilesFollow
<1>9. QED
  BY <1>5, <1>6, <1>8

\* The merge gives every function the row it was to have.
LEMMA MergeKeepsFiles ==
  ASSUME FilesInv, Merge
  PROVE  NoneMarked' /\ WrittenAdmissible' /\ FilesFollow'
<1> USE DEF FilesInv, DurableInv, StoreInv
<1>1. /\ loader # None /\ loader' = None
      /\ UNCHANGED <<disk, calls, overlap, failures>>
      /\ \A f \in Functions :
           conclusions'[f] = IF conclusions[f] = None THEN loader[f].row ELSE conclusions[f]
  BY DEF Merge
<1>2. NoneMarked'
  BY <1>1 DEF NoneMarked
<1>3. WrittenAdmissible'
  BY <1>1 DEF WrittenAdmissible
<1>4. \A f \in Functions : RowToBe(f)' = RowToBe(f)
  BY <1>1 DEF RowToBe
<1>5. FilesFollow'
  <2> SUFFICES ASSUME failures = 0, ~overlap
               PROVE  /\ \A h \in Calls : \A g \in calls[h].writes :
                           calls[h].rows[g] = conclusions'[g]
                      /\ \A f \in Functions :
                           disk[f].at > 0 => \/ \E h \in Calls : f \in calls[h].writes
                                             \/ disk[f].row = RowToBe(f)'
    BY <1>1 DEF FilesFollow
  <2>1. ASSUME NEW h \in Calls, NEW g \in calls[h].writes
        PROVE  calls[h].rows[g] = conclusions'[g]
    <3>1. g \in Functions /\ conclusions[g] # None
      BY DEF PendingIsOwn, StoreTypeOK, Call
    <3>2. QED
      BY <1>1, <3>1 DEF FilesFollow
  <2>2. QED
    BY <1>4, <2>1 DEF FilesFollow
<1>6. QED
  BY <1>2, <1>3, <1>5

\* No verified row left by an earlier build carries a mark about its
\* environment, which is what the admission check of every build asks for.
OldRowsUnmarked == \A row \in OldRows : Unmarked(row)

\* With no failed write and no overlap, the files this build wrote say at rest
\* what the session says, through crashes in the middle of a call; and what was
\* answered as durable is on disk.  Rows left by earlier builds are assumed not
\* to be verified and marked stale at once: the environment sweep demotes such
\* a row without reporting it as changed, so its file would keep the status.
THEOREM FilesFollowSession ==
  ASSUME OldRowsUnmarked
  PROVE  StoreSpec => []DiskFollowsSession
<1>1. StoreInit => FilesInv
  <2> SUFFICES ASSUME StoreInit PROVE FilesInv
    OBVIOUS
  <2>1. StoreInv
    BY InitStoreInv
  <2>2. /\ conclusions = [f \in Functions |-> None]
        /\ calls = [h \in Calls |-> Idle]
        /\ loader = Loaded(disk)
        /\ acked = [f \in Functions |-> 0]
    BY DEF StoreInit, Init
  <2>3. /\ \A h \in Calls : calls[h].writes = {} /\ ~calls[h].busy
        /\ \A f \in Functions : acked[f] = 0
    BY <2>2 DEF Idle
  <2>4. \A f \in Functions : disk[f].at = 0 /\ Unmarked(disk[f].row)
    <3>1. disk \in [Functions -> {NoFile} \cup {[row |-> r, at |-> 0] : r \in OldRows}]
      BY DEF StoreInit
    <3>2. \A f \in Functions : disk[f] = NoFile \/ \E r \in OldRows : disk[f] = [row |-> r, at |-> 0]
      BY <3>1
    <3>3. Unmarked(None)
      BY DEF Unmarked
    <3>4. ASSUME NEW f \in Functions
          PROVE  disk[f].at = 0 /\ Unmarked(disk[f].row)
      <4>1. CASE disk[f] = NoFile
        BY <3>3, <4>1 DEF NoFile
      <4>2. ASSUME NEW r \in OldRows, disk[f] = [row |-> r, at |-> 0]
            PROVE  disk[f].at = 0 /\ Unmarked(disk[f].row)
        BY <4>2, OldRowsUnmarked DEF OldRowsUnmarked
      <4>3. QED
        BY <3>2, <4>1, <4>2
    <3>5. QED
      BY <3>4
  <2>5. AloneInv /\ AckedIsOnDisk
    BY <2>3, <2>4 DEF AloneInv, AckedIsOnDisk
  <2>6. NoneMarked
    <3>1. ASSUME NEW f \in Functions, loader # None PROVE Unmarked(loader[f].row)
      <4>1. disk \in [Functions -> File]
        BY <2>1 DEF StoreInv, StoreTypeOK
      <4>2. /\ (loader[f].row = None) <=> (disk[f].row = None)
            /\ disk[f].row # None => loader[f].row = LoadedRow(f, disk[f].row)
        BY <2>2, <3>1, <4>1, LoadedEffect
      <4>3. CASE disk[f].row = None
        BY <4>2, <4>3 DEF Unmarked
      <4>4. CASE disk[f].row # None
        <5>1. disk[f].row \in Conclusion
          BY <4>1, <4>4 DEF File
        <5>2. QED
          BY <2>4, <4>2, <4>4, <5>1, LoadedRowKept
      <4>5. QED
        BY <4>3, <4>4
    <3>2. QED
      BY <2>2, <2>3, <2>4, <3>1 DEF NoneMarked, Unmarked
  <2>7. WrittenAdmissible /\ FilesFollow
    BY <2>3, <2>4 DEF WrittenAdmissible, FilesFollow
  <2>8. QED
    BY <2>1, <2>5, <2>6, <2>7 DEF FilesInv, DurableInv
<1>2. FilesInv /\ [StoreNext]_storeVars => FilesInv'
  <2> SUFFICES ASSUME FilesInv, [StoreNext]_storeVars PROVE FilesInv'
    OBVIOUS
  <2>0. DurableInv'
    BY DurableStep DEF FilesInv
  <2> SUFFICES NoneMarked' /\ WrittenAdmissible' /\ FilesFollow'
    BY <2>0 DEF FilesInv
  <2>1. CASE UNCHANGED storeVars
    BY <2>1 DEF storeVars, FilesInv, NoneMarked, WrittenAdmissible, FilesFollow, RowToBe
  <2>2. ASSUME NEW h \in Calls, BeginSome(h)
        PROVE  NoneMarked' /\ WrittenAdmissible' /\ FilesFollow'
    BY <2>2, BeginKeepsFiles
  <2>3. ASSUME NEW h \in Calls, NEW g \in Functions, Persist(h, g) \/ PersistFails(h, g)
        PROVE  NoneMarked' /\ WrittenAdmissible' /\ FilesFollow'
    BY <2>3, WriteKeepsFiles
  <2>4. ASSUME NEW h \in Calls, Reply(h)
        PROVE  NoneMarked' /\ WrittenAdmissible' /\ FilesFollow'
    BY <2>4, ReplyKeepsFiles
  <2>5. CASE CrashAndRestart
    BY <2>5, RestartKeepsFiles
  <2>6. CASE Merge
    BY <2>6, MergeKeepsFiles
  <2>7. QED
    BY <2>1, <2>2, <2>3, <2>4, <2>5, <2>6 DEF StoreNext, BeginSome
<1>3. FilesInv => DiskFollowsSession
  BY DEF FilesInv, DurableInv, StoreInv, CallsSane, FilesFollow, RowToBe, DiskFollowsSession,
         QuiescentDiskIsSession, Busy
<1>4. QED
  BY <1>1, <1>2, <1>3, PTL DEF StoreSpec
=============================================================================
