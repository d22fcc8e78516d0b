----------------------------- MODULE MCDiagnosis -----------------------------
(***************************************************************************)
(* A session over two functions: a loop invariant of f, established and     *)
(* preserved, half of an obligation of g no word of which names a fault,    *)
(* and the terminates obligation of g.                                     *)
(***************************************************************************)
EXTENDS Diagnosis

Obligation(fct, tail, name, text, place, title, part, label) ==
  [fct |-> fct, owner |-> {}, tail |-> tail, name |-> name, text |-> text, place |-> place,
   predicate |-> place, title |-> title, part |-> part, label |-> label]

MCAbout ==
  [established |-> Obligation("f", {}, {"invariant"}, {"loop"}, 1, "established", 0, None),
   preserved |-> Obligation("f", {}, {"invariant"}, {"loop"}, 1, "preserved", 0, None),
   opaque |-> Obligation("g", {}, {}, {}, 2, "goal", 1, None),
   terminates |-> Obligation("g", {"terminates"}, {}, {}, 3, "terminates", 0, None)]

MCWorlds ==
  {w \in [DOMAIN MCAbout -> Natures] :
     /\ w["established"] \in {"fast", "slow", "endless"}
     /\ w["preserved"] \in {"fast", "broken"}
     /\ w["opaque"] = "open"
     /\ w["terminates"] \in {"fast", "endless"}}

Request(functions, cached, retry, narrowed) ==
  [functions |-> functions, cache |-> cached, retry |-> retry, narrowed |-> narrowed]

MCRequests ==
  {Request({"f"}, "Update", FALSE, FALSE), Request({"f"}, "Update", TRUE, FALSE),
   Request({"g"}, "Update", TRUE, TRUE), Request({"g"}, "None", FALSE, FALSE)}
=============================================================================
