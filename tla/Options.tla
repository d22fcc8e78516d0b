------------------------------- MODULE Options -------------------------------
(***************************************************************************)
(* Rust's Option, for the modules of the sandboxes and of the annotations    *)
(* made in them: a value, or None.                                          *)
(***************************************************************************)
CONSTANT None
=============================================================================
