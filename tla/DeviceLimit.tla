----------------------------- MODULE DeviceLimit ----------------------------
(***************************************************************************)
(* CheckDeviceLimitJob (web/job/check_client_ip_job.go), for inbounds that *)
(* have one limit and one switch, of Shadowsocks and of other protocols.   *)
(* Every 10 s one goroutine forgets addresses it has not seen for three    *)
(* minutes, reads the new lines of Xray's access log, and compares the     *)
(* addresses of each client with the inbound's device limit. A client that *)
(* is over it is banned: removed from the live Xray and, 5 s later, added  *)
(* again with a random credential. A client that is within the limit again *)
(* is removed and, 5 s later, added with the credential of its settings.   *)
(* Who is banned is known to one map in memory, ClientStatus.              *)
(*                                                                         *)
(* Handlers, the traffic job and restarts change the settings and the live *)
(* Xray at any moment, the 5 s included; each is one step here, done in    *)
(* full (ClientSync has their own steps and what a broken off one leaves), *)
(* and none of them looks at ClientStatus.                                 *)
(***************************************************************************)
EXTENDS Naturals, FiniteSets

CONSTANTS
    E,           (* the clients (their emails)                              *)
    Shadowsocks, (* those whose inbound's protocol is Shadowsocks           *)
    IP,          (* the addresses of devices                                *)
    Limit,       (* the inbound's device limit                              *)
    Nobody,      (* the job is not banning or unbanning anybody             *)
    Ops,         (* what may go on beside the job                           *)
    ApiMayFail   (* may a call of the job fail that Xray can serve?         *)

AllOps == {"restart", "edit", "off", "delete", "add", "toggle"}

ASSUME LimitAssumption == Limit \in Nat \ {0}
ASSUME NobodyAssumption == Nobody \notin E
ASSUME OpsAssumption == Ops \subseteq AllOps /\ ApiMayFail \in BOOLEAN
ASSUME ProtocolAssumption == Shadowsocks \subseteq E

VARIABLES
    ActiveClientIPs,  (* of each client: the addresses seen lately          *)
    ClientStatus,     (* the clients marked as banned                       *)
    accessLog,        (* what Xray has logged since the job last read       *)
    present,          (* clients with an entry in settings and a traffic row *)
    entitled,         (* those that are enabled in both                     *)
    limited,          (* the inbound is enabled and has a device limit      *)
    up,               (* Xray is running                                    *)
    live,             (* of each client: the credential Xray knows it by    *)
    pc,               (* where the job is                                   *)
    todo,             (* the clients its present loop has still to visit    *)
    cur,              (* the client it is banning or unbanning              *)
    stale             (* the settings of cur were changed since it read them *)

dbVars == <<present, entitled, limited>>
xrayVars == <<accessLog, up, live>>
jobVars == <<ActiveClientIPs, ClientStatus, pc, todo, cur, stale>>
vars == <<dbVars, xrayVars, jobVars>>

(* out: not at all; temp: by a random credential; real: by that of the     *)
(* settings; old: by one the settings had before an edit.                  *)
Credential == {"out", "temp", "real", "old"}

TypeOK ==
    /\ ActiveClientIPs \in [E -> SUBSET IP] /\ ClientStatus \subseteq E
    /\ accessLog \subseteq E \X IP
    /\ entitled \subseteq present /\ present \subseteq E
    /\ limited \in BOOLEAN /\ up \in BOOLEAN
    /\ live \in [E -> Credential]
    /\ pc \in {"idle", "online", "offline", "ban", "unban", "release"}
    /\ todo \subseteq E
    /\ cur \in E \cup {Nobody} /\ stale \in BOOLEAN
    /\ cur \in E <=> pc \in {"ban", "unban", "release"}

Started == [e \in E |-> IF e \in entitled THEN "real" ELSE "out"]

(* The panel has started Xray; the job begins ten seconds later. *)
Init ==
    /\ ActiveClientIPs = [e \in E |-> {}] /\ ClientStatus = {}
    /\ accessLog = {}
    /\ present \in SUBSET E /\ entitled \in SUBSET present
    /\ limited \in BOOLEAN
    /\ up = TRUE /\ live = Started
    /\ pc = "idle" /\ todo = {} /\ cur = Nobody /\ stale = FALSE

-----------------------------------------------------------------------------
(* Run. Which addresses have expired is left open, and so is which of the  *)
(* new lines are read: those written between the scan and the seek to the  *)
(* end are skipped, and so are those a truncation has taken.               *)
Refresh ==
    \E gone \in [E -> SUBSET IP], lines \in SUBSET accessLog :
       ActiveClientIPs' = [e \in E |->
           (ActiveClientIPs[e] \ gone[e]) \cup {ip \in IP : <<e, ip>> \in lines}]

Run ==
    /\ pc = "idle" /\ up
    /\ Refresh /\ accessLog' = {}
    /\ IF limited
       THEN pc' = "online" /\ todo' = {e \in E : ActiveClientIPs'[e] # {}}
       ELSE UNCHANGED <<pc, todo>>
    /\ UNCHANGED <<dbVars, up, live, ClientStatus, cur, stale>>

Over(e) == Cardinality(ActiveClientIPs[e]) > Limit

Outcomes(can) == IF ~can THEN {FALSE} ELSE IF ApiMayFail THEN BOOLEAN ELSE {TRUE}

(* What banUser and unbanUser begin with: the settings are read, the user  *)
(* is removed and whether that worked is not looked at.                    *)
RemoveUser(e, l) ==
    /\ \E ok \in Outcomes(up) : live' = IF ok THEN [live EXCEPT ![e] = "out"] ELSE live
    /\ pc' = l /\ cur' = e /\ stale' = FALSE
    /\ UNCHANGED <<dbVars, accessLog, up, ActiveClientIPs, ClientStatus>>

(* The first loop, over the clients with an address. *)
BanUser(e) ==
    /\ pc = "online" /\ e \in todo \cap present
    /\ Over(e) /\ e \notin ClientStatus
    /\ todo' = todo \ {e}
    /\ RemoveUser(e, "ban")

UnbanUser(e) ==
    /\ pc = "online" /\ e \in todo \cap present
    /\ ~Over(e) /\ e \in ClientStatus
    /\ todo' = todo \ {e}
    /\ RemoveUser(e, "unban")

Pass(e) ==
    /\ pc = "online" /\ e \in todo
    /\ e \notin present \/ (Over(e) <=> e \in ClientStatus)
    /\ todo' = todo \ {e}
    /\ UNCHANGED <<dbVars, xrayVars, ActiveClientIPs, ClientStatus, pc, cur, stale>>

(* The map that is made of a client has no "cipher", which AddUser reads   *)
(* for Shadowsocks: it panics, nothing in the job's goroutine recovers, and *)
(* the panel's process ends with its maps. A unit or a container takes     *)
(* Xray down with it, otherwise Xray goes on; the panel that starts next   *)
(* reads any line of the log again.                                        *)
Panic ==
    /\ cur \in Shadowsocks
    /\ ActiveClientIPs' = [e \in E |-> {}] /\ ClientStatus' = {}
    /\ pc' = "idle" /\ todo' = {} /\ cur' = Nobody /\ stale' = FALSE
    /\ \/ UNCHANGED <<up, live>>
       \/ up' = FALSE /\ live' = [e \in E |-> "out"]
    /\ \E again \in SUBSET (E \X IP) : accessLog' = accessLog \cup again
    /\ UNCHANGED dbVars

(* What AddUser returns; it fails when the user is there.                  *)
Added == IF cur \in Shadowsocks THEN {} ELSE Outcomes(up /\ live[cur] = "out")

(* Mutants of BanAdd: the client is marked whether AddUser worked or not;  *)
(* it is never marked.                                                     *)
BanAdd_Eager ==
    /\ pc = "ban"
    /\ \E ok \in Added :
          live' = IF ok THEN [live EXCEPT ![cur] = "temp"] ELSE live
    /\ ClientStatus' = ClientStatus \cup {cur}
    /\ pc' = "online" /\ cur' = Nobody
    /\ UNCHANGED <<dbVars, accessLog, up, ActiveClientIPs, todo, stale>>

BanAdd_Unmarked ==
    /\ pc = "ban"
    /\ \E ok \in Added :
          live' = IF ok THEN [live EXCEPT ![cur] = "temp"] ELSE live
    /\ pc' = "online" /\ cur' = Nobody
    /\ UNCHANGED <<dbVars, accessLog, up, ActiveClientIPs, ClientStatus, todo, stale>>

(* Five seconds later, where AddUser does not panic.                       *)
BanAdd ==
    /\ pc = "ban"
    /\ \E ok \in Added :
          /\ live' = IF ok THEN [live EXCEPT ![cur] = "temp"] ELSE live
          /\ ClientStatus' = IF ok THEN ClientStatus \cup {cur} ELSE ClientStatus
    /\ pc' = "online" /\ cur' = Nobody
    /\ UNCHANGED <<dbVars, accessLog, up, ActiveClientIPs, todo, stale>>

UnbanAdd ==
    /\ pc \in {"unban", "release"}
    /\ \E ok \in Added :
          /\ live' = IF ok THEN [live EXCEPT ![cur] = IF stale THEN "old" ELSE "real"] ELSE live
          /\ ClientStatus' = IF ok THEN ClientStatus \ {cur} ELSE ClientStatus
    /\ pc' = (IF pc = "unban" THEN "online" ELSE "offline") /\ cur' = Nobody
    /\ UNCHANGED <<dbVars, accessLog, up, ActiveClientIPs, todo, stale>>

(* Mutant of SecondLoop: the loop is missing. *)
SecondLoop_None ==
    /\ pc = "online" /\ todo = {}
    /\ pc' = "offline" /\ UNCHANGED todo
    /\ UNCHANGED <<dbVars, xrayVars, ActiveClientIPs, ClientStatus, cur, stale>>

(* The second loop, over the banned clients that have no address left.     *)
SecondLoop ==
    /\ pc = "online" /\ todo = {}
    /\ pc' = "offline" /\ todo' = {e \in ClientStatus : ActiveClientIPs[e] = {}}
    /\ UNCHANGED <<dbVars, xrayVars, ActiveClientIPs, ClientStatus, cur, stale>>

ReleaseUser(e) ==
    /\ pc = "offline" /\ e \in todo
    /\ todo' = todo \ {e}
    /\ IF e \in present THEN RemoveUser(e, "release")
       ELSE UNCHANGED <<dbVars, xrayVars, ActiveClientIPs, ClientStatus, pc, cur, stale>>

Finish ==
    /\ pc = "offline" /\ todo = {}
    /\ pc' = "idle"
    /\ UNCHANGED <<dbVars, xrayVars, ActiveClientIPs, ClientStatus, todo, cur, stale>>

-----------------------------------------------------------------------------
(* What goes on beside the job.                                            *)

(* A device with the client's link, or an older one, gets through and is   *)
(* logged.                                                                 *)
Connect(e, ip) ==
    /\ up /\ live[e] \in {"real", "old"}
    /\ accessLog' = accessLog \cup {<<e, ip>>}
    /\ UNCHANGED <<dbVars, up, live, jobVars>>

(* Xray goes down; RestartXray brings up what the database admits. So does *)
(* a panel that starts again.                                              *)
StopXray ==
    /\ "restart" \in Ops /\ up
    /\ up' = FALSE /\ live' = [e \in E |-> "out"]
    /\ UNCHANGED <<dbVars, accessLog, jobVars>>

RestartXray ==
    /\ ~up
    /\ up' = TRUE /\ live' = Started
    /\ UNCHANGED <<dbVars, accessLog, jobVars>>

(* UpdateInboundClient with a new credential; a disabled row is renewed. A *)
(* client that was switched off is not removed first, so that one which is *)
(* in Xray all the same keeps its credential.                              *)
UpdateInboundClient(e) ==
    /\ "edit" \in Ops /\ e \in present
    /\ entitled' = entitled \cup {e}
    /\ \E c \in {"real"} \cup (IF e \in entitled THEN {} ELSE {live[e]}) :
          live' = IF up THEN [live EXCEPT ![e] = IF @ = "out" THEN "real" ELSE c] ELSE live
    /\ stale' = (stale \/ e = cur)
    /\ UNCHANGED <<present, limited, accessLog, up, ActiveClientIPs, ClientStatus, pc,
                   todo, cur>>

(* The client is switched off by hand, or disabled by AddTraffic. *)
Exclude(e) ==
    /\ "off" \in Ops /\ e \in entitled
    /\ entitled' = entitled \ {e}
    /\ live' = [live EXCEPT ![e] = "out"]
    /\ UNCHANGED <<present, limited, accessLog, up, jobVars>>

(* Mutant of DelInboundClient: the traffic row stays. *)
DelInboundClient_KeepsRow(e) ==
    /\ "delete" \in Ops /\ e \in present
    /\ present' = present \ {e}
    /\ live' = IF e \in entitled THEN [live EXCEPT ![e] = "out"] ELSE live
    /\ stale' = (stale \/ e = cur)
    /\ UNCHANGED <<entitled, limited, accessLog, up, ActiveClientIPs, ClientStatus, pc,
                   todo, cur>>

DelInboundClient(e) ==
    /\ "delete" \in Ops /\ e \in present
    /\ present' = present \ {e} /\ entitled' = entitled \ {e}
    /\ live' = IF e \in entitled THEN [live EXCEPT ![e] = "out"] ELSE live
    /\ stale' = (stale \/ e = cur)
    /\ UNCHANGED <<limited, accessLog, up, ActiveClientIPs, ClientStatus, pc, todo, cur>>

(* A client of this email that was left in Xray keeps its credential.      *)
AddInboundClient(e) ==
    /\ "add" \in Ops /\ e \notin present
    /\ present' = present \cup {e} /\ entitled' = entitled \cup {e}
    /\ live' = [live EXCEPT ![e] = IF up /\ @ = "out" THEN "real"
                                   ELSE IF @ = "real" THEN "old" ELSE @]
    /\ UNCHANGED <<limited, accessLog, up, jobVars>>

(* The inbound gets or loses its device limit. *)
SetDeviceLimit ==
    /\ "toggle" \in Ops
    /\ limited' = ~limited
    /\ UNCHANGED <<present, entitled, xrayVars, jobVars>>

Job == \/ Run \/ BanAdd \/ UnbanAdd \/ Panic \/ SecondLoop \/ Finish
       \/ \E e \in E : BanUser(e) \/ UnbanUser(e) \/ Pass(e) \/ ReleaseUser(e)

Others ==
    \/ \E e \in E, ip \in IP : Connect(e, ip)
    \/ \E e \in E : \/ UpdateInboundClient(e) \/ Exclude(e)
                    \/ DelInboundClient(e) \/ AddInboundClient(e)
    \/ StopXray \/ RestartXray \/ SetDeviceLimit

Next == Job \/ Others

Spec == Init /\ [][Next]_vars

(* The job's ticker never stops, and the three minutes pass: of the runs    *)
(* that find Xray up, some find expired what no longer connects. Xray,     *)
(* when it is down, is started again (by the crash job).                   *)
Expired == \A e \in E : ActiveClientIPs'[e] = {ip \in IP : <<e, ip>> \in accessLog}
Fairness == WF_vars(Job) /\ SF_vars(Run /\ Expired) /\ WF_vars(RestartXray)

FairSpec == Spec /\ Fairness

-----------------------------------------------------------------------------
(* Properties.                                                             *)

(* A client marked as banned cannot get in by the link its devices hold,   *)
(* while the job sleeps included: the ban is one mark and two API calls    *)
(* that may each fail (banUser, unbanUser).                                *)
BanHolds == \A e \in ClientStatus : live[e] \in {"out", "temp"}

(* While Xray runs, a client that is entitled and neither marked nor just  *)
(* being banned or released is let in by the link it has: a ban that meets *)
(* an edit or a restart must not leave its client outside, unmarked. (A    *)
(* panel that panics does: this is about the other protocols' inbounds.)   *)
Served == up => \A e \in entitled \ (ClientStatus \cup {cur}) : live[e] = "real"

(* No ban is for ever: the devices of a banned client are logged no more,  *)
(* their addresses expire, and one of the two loops lets it in, unless it  *)
(* loses its entitlement or the inbound its limit (checkAllClientsLimit).  *)
BanLifted == \A e \in E :
    (e \in ClientStatus \cap entitled) ~> (e \notin entitled \/ live[e] = "real" \/ ~limited)
=============================================================================
