------------------------------ MODULE MCCampaign ------------------------------
(***************************************************************************)
(* Small campaigns for Campaign: evidence over edits and reloads, with and  *)
(* without a profile; chains of callees; schedules over the call graphs of  *)
(* three functions and any earlier progress; differences of runs that       *)
(* repeat and reorder goals.                                               *)
(***************************************************************************)
EXTENDS Campaign

Graph(vertices, edges, defined) == [vertices |-> vertices, edges |-> edges, defined |-> defined]

Bounds(edits, loads, losses, checks, runs, diffs, stores, steps) ==
  [edits |-> edits, loads |-> loads, losses |-> losses, checks |-> checks, runs |-> runs,
   diffs |-> diffs, stores |-> stores, steps |-> steps]

OneFile == [files |-> {1}, load |-> "options"]
NothingKnown == [f \in 1..3 |-> None]

Asked(graphs, loads, scopes, statuses) ==
  [graphs |-> graphs, known |-> NothingKnown, loads |-> loads, profiles |-> {}, scopes |-> scopes,
   props |-> {None}, filtered |-> None, compared |-> FALSE, statuses |-> statuses, busy |-> {{}}]

\* The target of a build: two functions of one file, two goals at least.
Target ==
  [functions |-> {1, 2}, sources |-> {1}, model |-> "typed", settings |-> TRUE,
   stated |-> TRUE, load |-> "options", min_goals |-> 2]

\* A caller and its callee; an edit makes them call each other.
Calls == Graph({1, 2}, {<<1, 2>>}, {1, 2})
Recursion == Graph({1, 2}, {<<1, 2>>, <<2, 1>>}, {1, 2})
Sources == <<Calls, Recursion>>

\* Two projects that share function names: other options, more files, an
\* inline source.
EvidenceCases ==
  {[asked |-> Asked(Sources, {OneFile, other}, {{1, 2}}, {"verified"}),
    bounds |-> Bounds(1, 1, 0, 2, 0, 0, 2, 0)] :
     other \in {[files |-> {1}, load |-> "others"], [files |-> {1, 2}, load |-> "options"],
                [files |-> {3}, load |-> "options"]}}
  \cup
  {[asked |-> Asked(Sources, {OneFile}, {{1, 2}}, {"verified"}),
    bounds |-> Bounds(1, 0, 1, 1, 0, 0, 2, 0)]}

ProfileCases ==
  {[asked |-> [Asked(Sources, {OneFile}, {{1, 2}, {1}}, {"verified"})
                 EXCEPT !.profiles = {Target, other}],
    bounds |-> Bounds(0, 2, 0, 1, 0, 0, 2, 0)] :
     other \in {[Target EXCEPT !.load = "others"], [Target EXCEPT !.min_goals = 3],
                [Target EXCEPT !.min_goals = 0], [Target EXCEPT !.stated = FALSE]}}

\* Checks and runs under a goal filter, and rows an older build stored on one.
FilterCases ==
  {[asked |-> [Asked(<<Calls>>, {OneFile}, {{1, 2}}, {"verified"}) EXCEPT !.props = {None, "stated"}],
    bounds |-> Bounds(0, 0, 0, 2, 1, 0, 2, 0)],
   [asked |-> [Asked(<<Calls>>, {OneFile}, {{1, 2}}, {"verified"})
                 EXCEPT !.props = {None, "stated"}, !.profiles = {Target}],
    bounds |-> Bounds(0, 1, 0, 1, 0, 0, 2, 0)]}
  \cup
  {[asked |-> [Asked(<<Calls>>, {[files |-> {1}, load |-> "earlier"]}, {{1, 2}}, {"verified"})
                 EXCEPT !.known = [f \in 1..3 |-> IF f = 3 THEN None ELSE "verified"],
                        !.filtered = prop],
    bounds |-> Bounds(1, 1, 0, 1, 0, 0, 1, 0)] : prop \in {None, "stated"}}

\* A chain of three with one link open, stored in any order.
ChainCases ==
  {[asked |-> Asked(<<Graph({1, 2, 3}, {<<1, 2>>, <<2, 3>>} \cup back, {1, 2, 3})>>, {OneFile},
                    {{1, 2, 3}}, {"verified", "failed"}),
    bounds |-> Bounds(0, 0, 0, 1, 0, 0, 3, 0)] : back \in {{}, {<<2, 1>>}}}

\* Every call graph of three functions, without loops and with one, and every
\* progress an earlier session may have made.
ScheduleCases ==
  {[asked |-> [Asked(<<Graph({1, 2, 3}, edges \cup loop, IF loop = {} THEN 1..3 ELSE 1..2)>>, {OneFile}, {}, {})
                 EXCEPT !.known = known, !.busy = {{}, {2}}],
    bounds |-> Bounds(0, 1, 0, 0, 0, 0, 0, 1)] :
     edges \in SUBSET {<<f, g>> \in (1..3) \X (1..3) : f # g}, loop \in {{}, {<<1, 1>>}},
     known \in [1..3 -> {None, "verified", "in_progress"}] \cup {[f \in 1..3 |-> "failed"]}}

\* A schedule over reloads, an edit and a lost process.
ReloadCases ==
  {[asked |-> Asked(Sources, {OneFile}, {}, {"failed"}),
    bounds |-> Bounds(1, 2, 1, 0, 0, 0, 1, 2)]}

Goal ==
  {g \in [id : {1, 2}, fct : {1}, status : {"valid", "timeout", "unknown"}, vacuous : BOOLEAN] :
     g.vacuous => g.status = "valid"}
MCGoalLists == BoundedSeq(Goal, 2) \cup [1..3 -> {g \in Goal : g.id = 1}]

CompareCases ==
  {[asked |-> [Asked(Sources, {OneFile}, {{1}}, {}) EXCEPT !.compared = TRUE],
    bounds |-> Bounds(0, 1, 0, 0, 1, 1, 0, 0)]}

MCCases ==
  EvidenceCases \cup ProfileCases \cup FilterCases \cup ChainCases \cup ScheduleCases \cup ReloadCases
    \cup CompareCases
=============================================================================
