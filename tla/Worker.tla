------------------------------- MODULE Worker -------------------------------
(***************************************************************************)
(* What the panel promises about its Xray child processes, without locks,  *)
(* flags, signals or timers: of all the operating-system processes it ever *)
(* starts at most one is serving, and a new one starts serving only after  *)
(* the previous one has stopped (the listening ports are free in between). *)
(* XraySupervisor is shown to implement this specification.                *)
(***************************************************************************)
CONSTANT Procs       (* identities of child processes                      *)
VARIABLE serving     (* the child processes that are serving clients       *)

Init == serving = {}

(* A child comes up; none may be serving at that moment. *)
Up(h) == /\ serving = {}
         /\ serving' = {h}

(* The child that serves exits, crashes, or has been killed. *)
Down(h) == /\ serving = {h}
           /\ serving' = {}

Next == \E h \in Procs : Up(h) \/ Down(h)

Spec == Init /\ [][Next]_serving
=============================================================================
