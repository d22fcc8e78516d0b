------------------------------ MODULE ClausePlan ------------------------------
(***************************************************************************)
(* What inject_all_annotations makes of its request before it sends        *)
(* anything: which project it is for, what it refuses, the loops of the    *)
(* main project its statement ids stand for, and the clauses in the order  *)
(* in which they are sent.                                                 *)
(*                                                                         *)
(* An entry of the `annotations' array is a record                         *)
(*   [kind, text, behavior, stmt, names, parts]                            *)
(* with None or empty for what its kind does not have; `parts' are the      *)
(* clauses of a loop entry.  The body of a clause is a member of a small    *)
(* set, Blank when there is nothing in it; keywords, semicolons and labels  *)
(* are left out.  `path' is the place in the array, from which every         *)
(* diagnostic is labelled.                                                 *)
(***************************************************************************)
EXTENDS Integers, Sequences, FiniteSets, SequencesExt, Options

Blank == "blank"

\* Names of functions: bare for main, with an experiment id for a sandbox.
Main == "f"
Box == "exp:f"
BoxOfOther == "exp:g"
IsSandbox(name) == name # Main
FunctionOf(name) == IF name = BoxOfOther THEN "g" ELSE "f"

GhostKinds ==
  {"ghost_global", "ghost_formal", "ghost_lemma_function", "ghost_loop", "ghost_stmt"}
GroupKinds == {"complete_behaviors", "disjoint_behaviors"}
SingleKinds == {"terminates", "exits", "decreases"}

\* The order of build_injection_plan.
PlanOrder ==
  <<"global", "requires", "terminates", "decreases", "exits", "ensures", "assigns",
    "complete_behaviors", "disjoint_behaviors", "assert", "loop">>
LoopParts == <<"loop invariant", "loop assigns", "loop variant">>

KnownKinds == ToSet(PlanOrder) \cup GhostKinds \cup {"behavior"}

\* Kinds whose entry is passed over when its body is empty.
PassesBlank ==
  {"global", "assigns", "assert", "loop assigns", "loop variant"} \cup SingleKinds

-----------------------------------------------------------------------------
(* The request *)

IsSequence(s) == Len(s) \in Nat /\ DOMAIN s = 1..Len(s)

\* The parts of a loop entry come from its fields, and are of their kinds.
IsEntry(e) ==
  /\ DOMAIN e = {"kind", "text", "behavior", "stmt", "names", "parts"}
  /\ IsSequence(e.parts)
  /\ \A n \in DOMAIN e.parts : e.parts[n].kind \in ToSet(LoopParts)

\* What is asked for, and, as `numbering', which project its ids were read in.
IsRequest(r) ==
  /\ DOMAIN r = {"function", "sandbox_name", "numbering", "dry_run", "entries"}
  /\ r.function \in {None, Main, Box}
  /\ r.sandbox_name \in {None, Box, BoxOfOther}
  /\ r.sandbox_name = BoxOfOther => r.function # None
  /\ r.numbering \in {Main, Box} /\ r.dry_run \in BOOLEAN
  /\ IsSequence(r.entries) /\ \A i \in DOMAIN r.entries : IsEntry(r.entries[i])

TargetIsRefused(r) ==
  \/ r.function = None /\ r.sandbox_name = None
  \/ /\ r.function # None /\ r.sandbox_name # None
     /\ IsSandbox(r.function) /\ r.function # r.sandbox_name

TargetOf(r) == IF r.function # None THEN r.function ELSE r.sandbox_name

\* Only a real injection into main is compared with a sandbox.
EquivalenceSandbox(r) ==
  IF r.dry_run \/ IsSandbox(TargetOf(r)) THEN None ELSE r.sandbox_name

\* expand_tagged_annotations and behavior_group_names
EntriesAreRefused(r) ==
  \/ \E i \in DOMAIN r.entries : \/ r.entries[i].kind \notin KnownKinds
                                 \/ r.entries[i].kind \in GroupKinds /\ r.entries[i].names = {}
  \/ \E i, j \in DOMAIN r.entries :
       i # j /\ r.entries[i].kind \in SingleKinds /\ r.entries[i].kind = r.entries[j].kind

\* Only one of the two kinds of contract clauses looked for.
CarriesRequires(r) == \E i \in DOMAIN r.entries : r.entries[i].kind = "requires"

\* A contract of the main project is written by people, not by this tool.
CarriesContract(r) ==
  \E i \in DOMAIN r.entries : r.entries[i].kind \in {"requires", "ensures"}

ContractIsRefused(r) == ~IsSandbox(TargetOf(r)) /\ CarriesContract(r)

\* The members of a finite set, from the first to the last in an order of them.
InOrder(S, before) ==
  [k \in 1..Cardinality(S) |->
     CHOOSE x \in S : Cardinality({y \in S : <<y, x>> \in before}) = k - 1]

\* The entries of some kinds, as the array has them.
OfKind(r, kinds) ==
  LET mine == {i \in DOMAIN r.entries : r.entries[i].kind \in kinds}
  IN InOrder(mine, {p \in mine \X mine : p[1] < p[2]})

\* behavior_assumes_table: the names the clauses may refer to.
DeclaredBehaviors(r) ==
  {r.entries[i].text : i \in {j \in DOMAIN r.entries : r.entries[j].kind = "behavior"}} \ {Blank}

-----------------------------------------------------------------------------
(* Statement ids *)

\* Loops paired with the first loops of main, however many there are.
RemapWithoutCount(given, main) ==
  IF ToSet(given) \subseteq ToSet(main) \/ Len(given) > Len(main) THEN given
  ELSE SubSeq(main, 1, Len(given))

\* remap_loop_sids_to_main: ids that all name loops of main are taken as they
\* are, others by their position, or not at all (None).
RemapLoopSids(given, main) ==
  CASE given = <<>> -> given
    [] ToSet(given) \subseteq ToSet(main) -> given
    [] Len(given) # Len(main) -> None
    [] OTHER -> main

LoopSids(r) ==
  LET loops == OfKind(r, {"loop"}) IN [k \in DOMAIN loops |-> r.entries[loops[k]].stmt]

\* The entries with the ids of their loops replaced, in order.
WithLoopSids(r, sids) ==
  LET loops == OfKind(r, {"loop"})
  IN [r EXCEPT !.entries =
        [i \in DOMAIN r.entries |->
           IF r.entries[i].kind = "loop"
           THEN [r.entries[i] EXCEPT !.stmt = sids[SelectInSeq(loops, LAMBDA k : k = i)]]
           ELSE r.entries[i]]]

-----------------------------------------------------------------------------
(* The plan *)

Clause(path, clause, e, stmt, names) ==
  [path |-> path, clause |-> clause, text |-> e.text, behavior |-> e.behavior, stmt |-> stmt,
   names |-> names]

LoopClauses(e, i) ==
  {Clause(<<i, n>>, e.parts[n].kind, e.parts[n], e.stmt, {}) : n \in DOMAIN e.parts}

ClausesOf(e, i) ==
  IF e.kind = "loop" THEN LoopClauses(e, i) ELSE {Clause(<<i>>, e.kind, e, e.stmt, e.names)}

\* build_injection_plan: everything that is asked for.
Asked(r) ==
  {c \in UNION {ClausesOf(r.entries[i], i) :
                  i \in {j \in DOMAIN r.entries : r.entries[j].kind \in ToSet(PlanOrder)}} :
     ~(c.text = Blank /\ c.clause \in PassesBlank)}

\* What is sent first: by kind, then by entry, and for a loop its invariants, then
\* what it assigns, then its variant (loop_annots_to_acsl).
RankIn(order, kind) == CHOOSE n \in DOMAIN order : order[n] = kind
Place(c) ==
  IF Len(c.path) = 1 THEN <<RankIn(PlanOrder, c.clause), c.path[1], 0, 0>>
  ELSE <<RankIn(PlanOrder, "loop"), c.path[1], RankIn(LoopParts, c.clause), c.path[2]>>

SentBefore(c, d) ==
  \E m \in 1..4 : /\ Place(c)[m] < Place(d)[m]
                  /\ \A n \in 1..(m - 1) : Place(c)[n] = Place(d)[n]

\* Clauses that fail before they are sent: a behavior nobody declared, an
\* assertion without a statement.
FailsEarly(c, declared) ==
  \/ c.behavior # None /\ c.clause \notin {"global", "assert"} \cup SingleKinds
       /\ c.behavior \notin declared
  \/ ~(c.names \subseteq declared)
  \/ c.clause = "assert" /\ c.stmt = None

InjectionPlan(r) ==
  LET sent == {c \in Asked(r) : ~FailsEarly(c, DeclaredBehaviors(r))}
  IN InOrder(sent, {p \in sent \X sent : SentBefore(p[1], p[2])})
EarlyFailures(r) ==
  {[path |-> c.path, type |-> "ProposedError"] :
     c \in {d \in Asked(r) : FailsEarly(d, DeclaredBehaviors(r))}}

\* acsl_kind_to_ast_kind looks at the first words: a loop clause for a behavior
\* begins with the behavior and passes for a part of the contract.
AstKind(c) ==
  CASE c.clause = "global" -> "global"
    [] c.clause = "assert" -> "annot"
    [] c.clause \in ToSet(LoopParts) /\ c.behavior = None -> "annot"
    [] OTHER -> "spec"

\* compute_status
StatusOf(failures) ==
  IF failures = {} THEN "success"
  ELSE IF \A f \in failures : f.type = "SyntaxError" THEN "partial" ELSE "proposed_error"

\* existing_annotation_texts: the reply is a page of a table or an error, never
\* the list it is read as, so no text is known to be there.
ExistingAnnotationTexts == {}

-----------------------------------------------------------------------------
(* Comparison *)

\* canonical_extracted_annotations: sorted texts with where they are kept, not
\* the statement they are at.  Ghost code is not among them.
Canonical(a) ==
  [form |-> a.form, clause |-> a.clause, text |-> a.text, behavior |-> a.behavior,
   names |-> a.names]
CanonicalAnnotations(annotations) ==
  LET extracted == {n \in DOMAIN annotations : annotations[n].form # "ghost"}
  IN [x \in {Canonical(annotations[n]) : n \in extracted} |->
        Cardinality({n \in extracted : Canonical(annotations[n]) = x})]
=============================================================================
