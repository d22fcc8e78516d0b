---------------------------- MODULE MCAnnotations ----------------------------
(***************************************************************************)
(* A function with two loops and its sandbox: families of requests, each    *)
(* called in any order and at once.                                        *)
(***************************************************************************)
EXTENDS Annotations

Entry(kind, text) ==
  [kind |-> kind, text |-> text, behavior |-> None, stmt |-> None, names |-> {}, parts |-> <<>>]

Part(kind, text, behavior) == [kind |-> kind, text |-> text, behavior |-> behavior]

Loop(sid, parts) == [Entry("loop", "loop") EXCEPT !.stmt = sid, !.parts = parts]
At(sid, e) == [e EXCEPT !.stmt = sid]
For(behavior, e) == [e EXCEPT !.behavior = behavior]
Group(kind, names) == [Entry(kind, "group") EXCEPT !.names = names]

Request(function, sandbox_name, numbering, entries) ==
  [function |-> function, sandbox_name |-> sandbox_name, numbering |-> numbering,
   dry_run |-> FALSE, entries |-> entries]
DryRun(r) == [r EXCEPT !.dry_run = TRUE]

Bounds(calls, reloads, sandboxes, deletes, faults) ==
  [calls |-> calls, reloads |-> reloads, sandboxes |-> sandboxes, deletes |-> deletes,
   faults |-> faults]

\* The stubs of the extracted file shift the ids, past those of main or into them.
Apart == (Main :> <<1, 2>>) @@ (Box :> <<11, 12>>)
Shifted == (Main :> <<1, 2>>) @@ (Box :> <<2, 3>>)

Invariant(sid, text) == Loop(sid, <<Part("loop invariant", text, None)>>)

\* Annotations tried in the sandbox and merged into main.
MergeCases ==
  {[sids |-> ids,
    requests |->
      {Request(Box, None, Box, <<Invariant(ids[Box][1], "i"), Invariant(ids[Box][2], "j")>>),
       Request(None, Box, Box, <<Entry("ensures", "r")>>),
       Request(Main, Box, Box, <<Entry("ensures", "r")>>),
       Request(Main, Box, Box, <<Invariant(ids[Box][1], "i"), Invariant(ids[Box][2], "j")>>),
       Request(Main, Box, Box, <<Invariant(ids[Box][2], "j")>>),
       Request(Main, None, Main, <<Invariant(ids[Main][2], "j")>>)},
    bounds |-> IF ids = Apart THEN Bounds(3, 1, 1, 0, 1) ELSE Bounds(3, 0, 1, 1, 0)] : ids \in {Apart, Shifted}}

\* Ghosts and the clauses behind them, and sandboxes that go.
GhostCases ==
  {[sids |-> Apart,
    requests |->
      {Request(Box, None, Box, <<Entry("ghost_formal", "g"), Entry("global", "l"),
                                 Entry("assigns", "a")>>),
       Request(Box, None, Box, <<Entry("ghost_lemma_function", "g"), At(99, Entry("ghost_loop", "h"))>>),
       DryRun(Request(Box, Box, Box, <<Entry("ghost_global", "g"), Entry("requires", "r")>>)),
       Request(Main, BoxOfOther, Main, <<Entry("ghost_global", "g")>>),
       Request(Main, None, Main, <<At(1, Entry("ghost_stmt", "g")), Entry("ghost_global", Blank)>>)},
    bounds |-> Bounds(2, 1, 2, 1, 1)]}

Scoped ==
  <<Entry("behavior", "b"), For("b", Entry("assigns", "a")), For("c", Entry("assigns", "a")),
    Group("complete_behaviors", {"b"}), Group("disjoint_behaviors", {"b", "c"}),
    Loop(1, <<Part("loop variant", "v", None), Part("loop invariant", "i", "b"),
              Part("loop assigns", Blank, None), Part("loop invariant", "j", "c")>>)>>

\* Every kind of entry, and every reason to refuse one.
PlanCases ==
  {[sids |-> Apart,
    requests |-> {r, DryRun(r)},
    bounds |-> Bounds(1, 0, 0, 0, 2)] :
     r \in {Request(Main, None, Main, Scoped),
            Request(Main, None, Main,
                    <<Entry("terminates", "t"), Entry("exits", "e"), Entry("decreases", "d"),
                      At(2, Entry("assert", "p")), Entry("assert", "q"), Entry("assert", Blank),
                      At(99, Entry("assert", "p")), Entry("global", Blank)>>),
            Request(Main, None, Main, <<Entry("exits", "e"), Entry("exits", "d")>>),
            Request(Main, None, Main, <<Group("complete_behaviors", {})>>),
            Request(Main, None, Main, <<Entry("unheard of", "t")>>),
            Request(Main, None, Main, <<For("b", Entry("ensures", "r")), Entry("behavior", "b")>>),
            Request(Box, BoxOfOther, Box, <<Entry("assigns", "a")>>),
            Request(None, None, Main, <<Entry("assigns", "a")>>)}}
    \cup {[sids |-> Apart,
           requests |-> {Request(Box, None, Box,
                           <<Entry("requires", Blank), For("b", Entry("requires", "r")),
                             Entry("behavior", "b"), Entry("ensures", "s"), Entry("requires", "t")>>)},
           bounds |-> Bounds(1, 0, 1, 0, 2)]}

MCSymmetry == Permutations(Injections)

MCCases == MergeCases \cup GhostCases \cup PlanCases
=============================================================================
