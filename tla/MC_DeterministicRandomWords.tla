---------------------- MODULE MC_DeterministicRandomWords ----------------------
(***************************************************************************)
(* Model-checking instance of DeterministicRandomWords: 3-bit words (-4    *)
(* .. 3), calls of up to 9 words, so that one call wraps more than once,   *)
(* and up to 10 calls between resets, so that a call starts past the       *)
(* highest word.                                                           *)
(***************************************************************************)
EXTENDS DeterministicRandomWords

=============================================================================
