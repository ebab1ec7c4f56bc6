------------------------------ MODULE PanelParts ------------------------------
(***************************************************************************)
(* Five parts of the panel, each with a state of its own: the inbound      *)
(* pages, the outbound page, the traffic accounting, the access log and    *)
(* the V2board job.  They are checked side by side: a behaviour is one of  *)
(* one part, chosen at the start, the others resting.                      *)
(***************************************************************************)
EXTENDS InboundPages, OutboundPages, TrafficAccounting, AccessLog, V2boardSync

VARIABLE part    \* which one moves

partsVars == <<part, pageVars, outVars, trafficVars, logVars, syncVars>>

\* A part that rests is in one of its initial states: a panel without inbounds, one
\* and the same template, term and list of users.  (No port differs from another: in
\* the V2board job's own behaviours the first user starts at one and the same.)
Resting ==
    /\ part # "pages" => rows[1] = NoJson
    /\ part # "outbounds" => outbounds = <<>>
    /\ part # "traffic" => expiry = [c \in Metered |-> CHOOSE term \in Terms : TRUE]
    /\ \A u \in 1..Users : part # "sync" \/ u = 1 => remote[u].port = CHOOSE port \in SyncPorts : TRUE

PartsInit ==
    /\ part \in {"pages", "outbounds", "traffic", "log", "sync"}
    /\ PagesInit /\ OutInit /\ TrafficInit /\ LogInit /\ SyncInit
    /\ Resting

PartsNext ==
    /\ \/ part = "pages"     /\ PagesNext   /\ UNCHANGED <<outVars, trafficVars, logVars, syncVars>>
       \/ part = "outbounds" /\ OutNext     /\ UNCHANGED <<pageVars, trafficVars, logVars, syncVars>>
       \/ part = "traffic"   /\ TrafficNext /\ UNCHANGED <<pageVars, outVars, logVars, syncVars>>
       \/ part = "log"       /\ LogNext     /\ UNCHANGED <<pageVars, outVars, trafficVars, syncVars>>
       \/ part = "sync"      /\ SyncNext    /\ UNCHANGED <<pageVars, outVars, trafficVars, logVars>>
    /\ UNCHANGED part

PartsSpec == PartsInit /\ [][PartsNext]_partsVars

\* The variables of every part keep their types.
PartsTypeOK == PagesTypeOK /\ OutTypeOK /\ TrafficTypeOK /\ LogTypeOK /\ SyncTypeOK

===============================================================================
