------------------------- MODULE MCXraySupervisor -------------------------
(***************************************************************************)
(* Small instances of XraySupervisor for TLC: names for the goroutines,    *)
(* clients and process slots the configurations use.                       *)
(***************************************************************************)
EXTENDS XraySupervisor

CONSTANTS p1, p2, k1, k2, r1, h1, u1, x1, x2, none, nobody
============================================================================
