----------------------------- MODULE MCTransfer -----------------------------
(* Three counters, two of them with the same id.                             *)
EXTENDS Transfer, TLC
CONSTANTS a, b, c
MCId == (a :> 1) @@ (b :> 0) @@ (c :> 1)
MCAddr == (a :> 2) @@ (b :> 1) @@ (c :> 0)
MCInitial == (a :> 2) @@ (b :> 1) @@ (c :> 0)
=============================================================================
