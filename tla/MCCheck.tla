-------------------------------- MODULE MCCheck --------------------------------
EXTENDS Check

Plain == [wanted |-> [eva |-> TRUE, wp |-> TRUE], scope |-> None, prop |-> FALSE, rte |-> TRUE,
          smoke |-> FALSE, pins |-> {}, mutants |-> FALSE]

Clean == [diagnostics |-> {}, dropped |-> {}, threads |-> {}, model |-> {"nocast"},
          hypotheses |-> {}, unparsed |-> 0, probed |-> TRUE, messages |-> {}, findings |-> {},
          unsigned_skipped |-> FALSE, deps |-> FALSE, smoke |-> None, harness |-> {},
          error |-> FALSE, mutants |-> None]

Base(key) == [key |-> key, kind |-> "assert", generated |-> FALSE, unsigned |-> FALSE,
              scope |-> "f", predicate |-> "p", target |-> "functional", truth |-> TRUE,
              dead |-> FALSE, needs |-> {}, parts |-> 1]

\* One obligation of each sort.
Sorts(key) ==
  {[Base(key) EXCEPT !.generated = TRUE, !.target = "memory_safety"],
   [Base(key) EXCEPT !.generated = TRUE, !.target = "memory_safety", !.dead = TRUE],
   [Base(key) EXCEPT !.generated = TRUE, !.target = "memory_safety", !.scope = "g"],
   Base(key),
   [Base(key) EXCEPT !.kind = "ensures", !.scope = "g"],
   [Base(key) EXCEPT !.kind = "lemma", !.scope = None],
   [Base(key) EXCEPT !.kind = "axiom", !.scope = None],
   [Base(key) EXCEPT !.kind = "reachable", !.dead = TRUE],
   [Base(key) EXCEPT !.kind = "instance"],
   [Base(key) EXCEPT !.kind = "variant", !.target = "termination", !.parts = 2]}
TrueOrFalse(sorts) == sorts \cup {[o EXCEPT !.truth = FALSE] : o \in sorts}
Resting(sorts) == sorts \cup {[o EXCEPT !.needs = {1}] : o \in {s \in sorts : s.kind # "axiom"}}

\* A lemma rests on lemmas and axioms only, and only what is in a call's function
\* on its instance.
Restful(a, b) ==
  b.needs # {} => /\ b.kind = "lemma" => a.kind \in {"lemma", "axiom"}
                  /\ a.kind = "instance" => a.scope = b.scope

Pairs == {{p[1], p[2]} : p \in {q \in TrueOrFalse(Sorts(1)) \X TrueOrFalse(Resting(Sorts(2))) :
                                 Restful(q[1], q[2])}}

Message(kind, says) == [kind |-> kind, says |-> says]
Anomaly == Message("WARNING", "why3 anomaly")
Cast == Message("WARNING", "incompatible cast")

\* Worlds with one thing wrong, and two where two meet.
Worlds ==
  {[Clean EXCEPT !.diagnostics = d] : d \in {None, {"asm_clobber"}, {"attrs_unknown", "other"}}}
  \cup {[Clean EXCEPT !.dropped = d] : d \in {None, {"flag"}}}
  \cup {[Clean EXCEPT !.threads = {t}] : t \in {"pthread_create", "thrd_create"}}
  \cup {[Clean EXCEPT !.model = {"cast"}], [Clean EXCEPT !.hypotheses = {"f"}],
        [Clean EXCEPT !.unparsed = 1], [Clean EXCEPT !.probed = FALSE],
        [Clean EXCEPT !.unsigned_skipped = TRUE]}
  \cup {[Clean EXCEPT !.messages = ms] :
          ms \in {{Message("ERROR", "skipped verification")},
                  {Message("WARNING", "not yet supported (skipped)")},
                  {Message("WARNING", "might be unsound")},
                  {Message("WARNING", "neither code nor specification")},
                  {Message("FEEDBACK", "other")}, {Anomaly}, {Anomaly, Cast}}}
  \cup {[Clean EXCEPT !.findings = {[category |-> c, wpo |-> <<1, 1>>]}] :
          c \in {"result_unconstrained", "unresolved_call", "assumed_callee_contract",
                 "unconstrained_assigns"}}
  \cup {[Clean EXCEPT !.harness = h, !.error = e] :
          h \in {{"reach_error"}, {"__VERIFIER_assert"}, {"reach_error", "__VERIFIER_assert"}},
          e \in BOOLEAN}

Encoding(name) == [Base(9) EXCEPT !.kind = "requires", !.scope = name, !.predicate = "encodes"]

Single == {{o} : o \in {[Base(1) EXCEPT !.truth = t, !.generated = g, !.unsigned = g] :
                          t \in BOOLEAN, g \in BOOLEAN}}
Encoded == {p \cup {Encoding(n)} : p \in {{Base(1)}}, n \in {"reach_error", "__VERIFIER_assert"}}

Smokes == {None, [ran |-> FALSE, total |-> None, passed |-> 0, failed |-> {}],
           [ran |-> TRUE, total |-> None, passed |-> 0, failed |-> {}],
           [ran |-> TRUE, total |-> 2, passed |-> 1, failed |-> {}],
           [ran |-> TRUE, total |-> 2, passed |-> 2, failed |-> {}]}
Mutants == {[ran |-> FALSE, decorative |-> {}], [ran |-> TRUE, decorative |-> {"stub"}],
            [ran |-> TRUE, decorative |-> {}]}

Scopes == {None, "f"}

Pin(predicate, scope, kind) == [predicate |-> predicate, scope |-> scope, kind |-> kind]

MCCases ==
  {c \in
    {[request |-> [Plain EXCEPT !.scope = s], program |-> p, world |-> [Clean EXCEPT !.deps = d]] :
       s \in Scopes, p \in Pairs, d \in BOOLEAN}
    \cup {[request |-> Plain, program |-> p, world |-> w] : p \in Single \cup Encoded, w \in Worlds}
    \cup {[request |-> r, program |-> p, world |-> Clean] :
            p \in Single,
            r \in {[Plain EXCEPT !.rte = FALSE], [Plain EXCEPT !.prop = TRUE],
                   [Plain EXCEPT !.wanted = [eva |-> FALSE, wp |-> TRUE]],
                   [Plain EXCEPT !.wanted = [eva |-> TRUE, wp |-> FALSE]],
                   [Plain EXCEPT !.pins = {Pin("p", "f", None)}], [Plain EXCEPT !.pins = {Pin("p", "f", "ensures")}],
                   [Plain EXCEPT !.pins = {Pin("p", None, "assert")}], [Plain EXCEPT !.pins = {Pin("q", None, None)}]}}
    \cup {[request |-> [Plain EXCEPT !.scope = "f", !.pins = {Pin("q", "g", None)}],
           program |-> {Base(1), [Base(2) EXCEPT !.scope = "g", !.predicate = "q", !.truth = t]},
           world |-> Clean] : t \in BOOLEAN}
    \cup {[request |-> [Plain EXCEPT !.smoke = TRUE], program |-> {Base(1)},
           world |-> [Clean EXCEPT !.smoke = w]] : w \in Smokes}
    \cup {[request |-> [Plain EXCEPT !.mutants = TRUE], program |-> {Base(1)},
           world |-> [Clean EXCEPT !.mutants = m]] : m \in Mutants} :
   Encodable(c.world, c.program)}

\* Another project that has a function f too.
MCOther == {[Base(1) EXCEPT !.truth = FALSE, !.kind = "ensures"]}
=============================================================================
