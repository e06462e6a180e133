----------------------------- MODULE MCWSClient -----------------------------
(* Small instances of WSClient for TLC. *)
EXTENDS WSClient, TLC

CONSTANTS a, b

Interchangeable == Permutations({a, b})
=============================================================================
