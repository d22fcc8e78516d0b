---------------------------- MODULE MCMainInstance ----------------------------
(***************************************************************************)
(* Instances of MainInstance for TLC: which tools meet, and the proof run   *)
(* requests that make the difference (profiled or not, with a retry or not, *)
(* naming a timeout or not; zero is no timeout at all).                    *)
(***************************************************************************)
EXTENDS MainInstance, TLC

Request(profiled, retry, timeout) ==
  [profiled |-> profiled, retry |-> retry, timeout |-> timeout]

PlainOrProfiled == {Request(FALSE, FALSE, None), Request(TRUE, FALSE, None)}
AnyRetry == {Request(FALSE, TRUE, None), Request(TRUE, TRUE, 0)}
Retrying == {Request(FALSE, TRUE, None)}

CallSymmetry == Permutations(Calls)
=============================================================================
