---------------------------- MODULE MCClientSync ----------------------------
(***************************************************************************)
(* Small instances of ClientSync for TLC: names for clients and            *)
(* goroutines.                                                             *)
(***************************************************************************)
EXTENDS ClientSync, TLC

CONSTANTS a, b, h1, h2, tick, boot, nobody, none

\* The two clients are alike where neither renews.
Alike == Permutations({a, b})
============================================================================
