-------------------------- MODULE DeviceLimit_proofs ------------------------
(***************************************************************************)
(* Three results about DeviceLimit, for any clients, devices and limit:      *)
(*                                                                         *)
(*   TypeCorrect  the variables keep their types, whatever goes on beside  *)
(*                the job;                                                 *)
(*   BansHold     a marked client is shut out, provided that nothing gives *)
(*                a client its credential back behind the job's back: no   *)
(*                restart, no edit, and no client that is added under the  *)
(*                email of a deleted one;                                  *)
(*   UnmarkedServed  an entitled client that is not marked is let in while *)
(*                Xray runs, provided that the calls Xray can serve work,  *)
(*                that no inbound's protocol is Shadowsocks, and that no   *)
(*                client enters the settings, or is renewed, that may have *)
(*                left something behind.                                   *)
(*                                                                         *)
(* BanHolds is not inductive: a client that is added is let in, so it must *)
(* not be marked. Where none is deleted every marked client, and the one   *)
(* that is just being banned, is still in the settings (MarkedPresent).    *)
(* And a panel that starts Xray after a panic has no marks (DownUnmarked). *)
(*                                                                         *)
(* Served is not inductive either. Who may yet become entitled must be out *)
(* of Xray, unmarked and forgotten by the job (UnservedOut); and what      *)
(* befalls a client while the job sleeps over it must leave it where the   *)
(* job's call, or the failure of that call, puts it right (RemovedInv).    *)
(***************************************************************************)
EXTENDS DeviceLimit, FiniteSetTheorems, TLAPS

UnmarkedWays ==
    /\ "restart" \notin Ops /\ "edit" \notin Ops
    /\ "add" \in Ops => "delete" \notin Ops

MarkedPresent ==
    "delete" \notin Ops => /\ ClientStatus \subseteq present
                           /\ pc = "ban" => cur \in present

DownUnmarked == up \/ (ClientStatus = {} /\ pc = "idle")

BanInv == TypeOK /\ BanHolds /\ MarkedPresent /\ DownUnmarked

(* A client that is switched off and renewed by an edit, or deleted and    *)
(* added again, meets the mark or the credential of its earlier life.      *)
ServedWays ==
    /\ ~ApiMayFail /\ Shadowsocks = {}
    /\ "edit" \in Ops => "off" \notin Ops
    /\ "add" \in Ops => "delete" \notin Ops

(* Those an edit renews or a handler adds, and how they stand until then.  *)
Unserved == {e \in E \ entitled : \/ "edit" \in Ops /\ e \in present
                                  \/ "add" \in Ops /\ e \notin present}
Untouched(e) ==
    /\ live[e] = "out" /\ ActiveClientIPs[e] = {}
    /\ \A ip \in IP : <<e, ip>> \notin accessLog
    /\ e \notin ClientStatus /\ e # cur
UnservedOut == \A e \in Unserved : Untouched(e)

(* Whom the job releases is marked until it is added; an edit during the   *)
(* sleep has put it into Xray again.                                       *)
RemovedInv ==
    /\ pc \in {"unban", "release"} => cur \in ClientStatus
    /\ pc \in {"offline", "release"} => todo \subseteq ClientStatus
    /\ pc = "release" => cur \notin todo
    /\ up /\ cur \in entitled => /\ stale => live[cur] # "out"
                                 /\ pc = "ban" => live[cur] \in {"out", "real"}

ServedInv == TypeOK /\ Served /\ UnservedOut /\ RemovedInv

-----------------------------------------------------------------------------
(* Types.                                                                  *)

(* RemoveUser, the half of a ban or of a release before the sleep. *)
LEMMA RemoveTyped ==
    ASSUME TypeOK, NEW e \in E, NEW l \in {"ban", "unban", "release"},
           RemoveUser(e, l), todo' \subseteq E
    PROVE  TypeOK'
  <1>1. live' \in [E -> Credential]
    BY DEF TypeOK, RemoveUser, Outcomes, Credential
  <1>2. QED
    BY <1>1, NobodyAssumption DEF TypeOK, RemoveUser, dbVars

LEMMA TypeInit == Init => TypeOK
  <1>1. Started \in [E -> Credential]
    BY DEF Started, Credential
  <1>2. QED
    BY <1>1, NobodyAssumption DEF Init, TypeOK

(* The job's steps keep the types. *)
LEMMA JobTyped == TypeOK /\ Job => TypeOK'
  <1> SUFFICES ASSUME TypeOK, Job PROVE TypeOK'
    OBVIOUS
  <1>1. CASE Run
    <2>1. PICK gone \in [E -> SUBSET IP], lines \in SUBSET accessLog :
             ActiveClientIPs' = [e \in E |-> (ActiveClientIPs[e] \ gone[e])
                                   \cup {ip \in IP : <<e, ip>> \in lines}]
      BY <1>1 DEF Run, Refresh
    <2>2. ActiveClientIPs' \in [E -> SUBSET IP]
      BY <2>1 DEF TypeOK
    <2>3. pc' \in {"idle", "online"} /\ todo' \subseteq E
      BY <1>1 DEF Run, TypeOK
    <2>4. QED
      BY <1>1, <2>2, <2>3, NobodyAssumption DEF Run, TypeOK, dbVars
  <1>a. Added \subseteq BOOLEAN
    BY DEF Added, Outcomes
  <1>2. CASE BanAdd
    <2>1. live' \in [E -> Credential] /\ ClientStatus' \subseteq E
      BY <1>2 DEF BanAdd, TypeOK, Credential
    <2>2. QED
      BY <1>2, <2>1, NobodyAssumption DEF BanAdd, TypeOK, dbVars
  <1>3. CASE UnbanAdd
    <2>1. live' \in [E -> Credential] /\ ClientStatus' \subseteq E
      BY <1>3 DEF UnbanAdd, TypeOK, Credential
    <2>2. QED
      BY <1>3, <2>1, NobodyAssumption DEF UnbanAdd, TypeOK, dbVars
  <1>4. CASE SecondLoop
    BY <1>4 DEF SecondLoop, TypeOK, dbVars, xrayVars
  <1>5. CASE Finish
    BY <1>5 DEF Finish, TypeOK, dbVars, xrayVars
  <1>6. ASSUME NEW e \in E, BanUser(e) PROVE TypeOK'
    BY <1>6, RemoveTyped DEF BanUser, TypeOK
  <1>7. ASSUME NEW e \in E, UnbanUser(e) PROVE TypeOK'
    BY <1>7, RemoveTyped DEF UnbanUser, TypeOK
  <1>8. ASSUME NEW e \in E, Pass(e) PROVE TypeOK'
    BY <1>8 DEF Pass, TypeOK, dbVars, xrayVars
  <1>9. ASSUME NEW e \in E, ReleaseUser(e) PROVE TypeOK'
    <2>1. CASE e \in present
      BY <1>9, <2>1, RemoveTyped DEF ReleaseUser, TypeOK
    <2>2. CASE e \notin present
      BY <1>9, <2>2 DEF ReleaseUser, TypeOK, dbVars, xrayVars
    <2>3. QED
      BY <2>1, <2>2
  <1>10. CASE Panic
    <2>1. /\ ActiveClientIPs' = [e \in E |-> {}] /\ ClientStatus' = {}
          /\ pc' = "idle" /\ todo' = {} /\ cur' = Nobody /\ stale' = FALSE
          /\ UNCHANGED dbVars
      BY <1>10 DEF Panic
    <2>2. accessLog' \subseteq E \X IP
      BY <1>10 DEF Panic, TypeOK
    <2>3. up' \in BOOLEAN /\ live' \in [E -> Credential]
      BY <1>10 DEF Panic, TypeOK, Credential
    <2>4. QED
      BY <2>1, <2>2, <2>3, NobodyAssumption DEF TypeOK, dbVars
  <1>11. QED
    BY <1>1, <1>2, <1>3, <1>4, <1>5, <1>6, <1>7, <1>8, <1>9, <1>10 DEF Job

(* So do the handlers, the devices and Xray. *)
LEMMA OthersTyped == TypeOK /\ Others => TypeOK'
  <1> SUFFICES ASSUME TypeOK, Others PROVE TypeOK'
    OBVIOUS
  <1> USE DEF TypeOK, dbVars, xrayVars, jobVars
  <1>1. ASSUME NEW e \in E, NEW ip \in IP, Connect(e, ip) PROVE TypeOK'
    BY <1>1 DEF Connect
  <1>2. ASSUME NEW e \in E, UpdateInboundClient(e) PROVE TypeOK'
    <2>1. live' \in [E -> Credential]
      BY <1>2 DEF UpdateInboundClient, Credential
    <2>2. QED
      BY <1>2, <2>1 DEF UpdateInboundClient
  <1>3. ASSUME NEW e \in E, Exclude(e) PROVE TypeOK'
    BY <1>3 DEF Exclude, Credential
  <1>4. ASSUME NEW e \in E, DelInboundClient(e) PROVE TypeOK'
    BY <1>4 DEF DelInboundClient, Credential
  <1>5. ASSUME NEW e \in E, AddInboundClient(e) PROVE TypeOK'
    <2>1. live' \in [E -> Credential]
      BY <1>5 DEF AddInboundClient, Credential
    <2>2. QED
      BY <1>5, <2>1 DEF AddInboundClient
  <1>6. CASE StopXray
    BY <1>6 DEF StopXray, Credential
  <1>7. CASE RestartXray
    <2>1. Started \in [E -> Credential]
      BY DEF Started, Credential
    <2>2. QED
      BY <1>7, <2>1 DEF RestartXray
  <1>8. CASE SetDeviceLimit
    BY <1>8 DEF SetDeviceLimit
  <1>9. QED
    BY <1>1, <1>2, <1>3, <1>4, <1>5, <1>6, <1>7, <1>8 DEF Others

(* The variables keep their types in every behaviour (TypeOK), with any    *)
(* mix of restarts, edits and failing calls beside the job.                *)
THEOREM TypeCorrect == Spec => []TypeOK
  <1>1. TypeOK /\ UNCHANGED vars => TypeOK'
    BY DEF TypeOK, vars, dbVars, xrayVars, jobVars
  <1>2. TypeOK /\ [Next]_vars => TypeOK'
    BY <1>1, JobTyped, OthersTyped DEF Next
  <1>3. QED
    BY TypeInit, <1>2, PTL DEF Spec

-----------------------------------------------------------------------------
(* Bans.                                                                   *)

(* Removing a user lets nobody in. *)
LEMMA RemoveHolds ==
    ASSUME BanInv, NEW e \in E, NEW l \in {"ban", "unban", "release"},
           RemoveUser(e, l), up, l = "ban" => e \in present
    PROVE  BanHolds' /\ MarkedPresent' /\ DownUnmarked'
  <1>1. ClientStatus' = ClientStatus /\ present' = present /\ pc' = l /\ cur' = e /\ up' = up
    BY DEF RemoveUser, dbVars
  <1>2. \A f \in E : live'[f] \in {live[f], "out"}
    BY DEF RemoveUser, BanInv, TypeOK
  <1>3. QED
    BY <1>1, <1>2 DEF BanInv, BanHolds, MarkedPresent, DownUnmarked, TypeOK

(* No step of the job lets a marked client in. *)
LEMMA JobHolds == BanInv /\ Job => BanHolds' /\ MarkedPresent' /\ DownUnmarked'
  <1> SUFFICES ASSUME BanInv, Job PROVE BanHolds' /\ MarkedPresent' /\ DownUnmarked'
    OBVIOUS
  <1>t. TypeOK /\ BanHolds /\ MarkedPresent /\ DownUnmarked
    BY DEF BanInv
  <1>u. pc # "idle" => up
    BY <1>t DEF DownUnmarked
  <1>a. Added \subseteq BOOLEAN
    BY DEF Added, Outcomes
  <1>1. CASE Run
    BY <1>1, <1>t DEF Run, BanHolds, MarkedPresent, DownUnmarked, dbVars
  <1>2. CASE BanAdd
    <2>1. PICK ok \in BOOLEAN :
             /\ live' = IF ok THEN [live EXCEPT ![cur] = "temp"] ELSE live
             /\ ClientStatus' = IF ok THEN ClientStatus \cup {cur} ELSE ClientStatus
      BY <1>2, <1>a DEF BanAdd
    <2>2. /\ pc = "ban" /\ pc' = "online" /\ present' = present /\ up' = up
          /\ cur \in E /\ live \in [E -> Credential] /\ ClientStatus \subseteq E
      BY <1>2, <1>t DEF BanAdd, TypeOK, dbVars
    <2>3. BanHolds'
      BY <1>t, <2>1, <2>2 DEF BanHolds
    <2>4. MarkedPresent'
      BY <1>t, <2>1, <2>2 DEF MarkedPresent
    <2>5. DownUnmarked'
      BY <1>u, <2>2 DEF DownUnmarked
    <2>6. QED
      BY <2>3, <2>4, <2>5
  <1>3. CASE UnbanAdd
    <2>1. PICK ok \in BOOLEAN :
             /\ live' = IF ok THEN [live EXCEPT ![cur] = IF stale THEN "old" ELSE "real"]
                        ELSE live
             /\ ClientStatus' = IF ok THEN ClientStatus \ {cur} ELSE ClientStatus
      BY <1>3, <1>a DEF UnbanAdd
    <2>2. /\ pc # "idle" /\ pc' # "ban" /\ present' = present /\ up' = up
          /\ live \in [E -> Credential] /\ ClientStatus \subseteq E
      BY <1>3, <1>t DEF UnbanAdd, TypeOK, dbVars
    <2>3. BanHolds'
      BY <1>t, <2>1, <2>2 DEF BanHolds
    <2>4. MarkedPresent'
      BY <1>t, <2>1, <2>2 DEF MarkedPresent
    <2>5. DownUnmarked'
      BY <1>u, <2>2 DEF DownUnmarked
    <2>6. QED
      BY <2>3, <2>4, <2>5
  <1>4. CASE SecondLoop
    BY <1>4, <1>t DEF SecondLoop, BanHolds, MarkedPresent, DownUnmarked, dbVars, xrayVars
  <1>5. CASE Finish
    BY <1>5, <1>t DEF Finish, BanHolds, MarkedPresent, DownUnmarked, dbVars, xrayVars
  <1>6. ASSUME NEW e \in E, BanUser(e) PROVE BanHolds' /\ MarkedPresent' /\ DownUnmarked'
    BY <1>6, <1>u, RemoveHolds DEF BanUser
  <1>7. ASSUME NEW e \in E, UnbanUser(e) PROVE BanHolds' /\ MarkedPresent' /\ DownUnmarked'
    BY <1>7, <1>u, RemoveHolds DEF UnbanUser
  <1>8. ASSUME NEW e \in E, Pass(e) PROVE BanHolds' /\ MarkedPresent' /\ DownUnmarked'
    BY <1>8, <1>t DEF Pass, BanHolds, MarkedPresent, DownUnmarked, dbVars, xrayVars
  <1>9. ASSUME NEW e \in E, ReleaseUser(e) PROVE BanHolds' /\ MarkedPresent' /\ DownUnmarked'
    <2>1. CASE e \in present
      BY <1>9, <1>u, <2>1, RemoveHolds DEF ReleaseUser
    <2>2. CASE e \notin present
      BY <1>9, <2>2, <1>t DEF ReleaseUser, BanHolds, MarkedPresent, DownUnmarked, dbVars, xrayVars
    <2>3. QED
      BY <2>1, <2>2
  <1>10. CASE Panic
    BY <1>10 DEF Panic, BanHolds, MarkedPresent, DownUnmarked
  <1>11. QED
    BY <1>1, <1>2, <1>3, <1>4, <1>5, <1>6, <1>7, <1>8, <1>9, <1>10 DEF Job

(* Nor does anybody else, where credentials come back by no other way. *)
LEMMA OthersHold == UnmarkedWays /\ BanInv /\ Others => BanHolds' /\ MarkedPresent' /\ DownUnmarked'
  <1> SUFFICES ASSUME UnmarkedWays, BanInv, Others PROVE BanHolds' /\ MarkedPresent' /\ DownUnmarked'
    OBVIOUS
  <1>t. TypeOK /\ BanHolds /\ MarkedPresent /\ DownUnmarked
    BY DEF BanInv
  <1>1. ASSUME NEW e \in E, NEW ip \in IP, Connect(e, ip) PROVE BanHolds' /\ MarkedPresent' /\ DownUnmarked'
    BY <1>1, <1>t DEF Connect, BanHolds, MarkedPresent, DownUnmarked, dbVars, jobVars
  <1>2. ASSUME NEW e \in E, UpdateInboundClient(e) PROVE FALSE
    BY <1>2 DEF UpdateInboundClient, UnmarkedWays
  <1>3. ASSUME NEW e \in E, Exclude(e) PROVE BanHolds' /\ MarkedPresent' /\ DownUnmarked'
    <2>1. \A f \in E : live'[f] \in {live[f], "out"}
      BY <1>3, <1>t DEF Exclude, TypeOK
    <2>2. QED
      BY <1>3, <1>t, <2>1 DEF Exclude, BanHolds, MarkedPresent, DownUnmarked, TypeOK, jobVars
  <1>4. ASSUME NEW e \in E, DelInboundClient(e) PROVE BanHolds' /\ MarkedPresent' /\ DownUnmarked'
    <2>1. \A f \in E : live'[f] \in {live[f], "out"}
      BY <1>4, <1>t DEF DelInboundClient, TypeOK
    <2>2. "delete" \in Ops /\ ClientStatus' = ClientStatus /\ up' = up /\ pc' = pc
      BY <1>4 DEF DelInboundClient
    <2>3. QED
      BY <1>t, <2>1, <2>2 DEF BanHolds, MarkedPresent, DownUnmarked, TypeOK
  <1>5. ASSUME NEW e \in E, AddInboundClient(e) PROVE BanHolds' /\ MarkedPresent' /\ DownUnmarked'
    <2>1. "delete" \notin Ops /\ e \notin ClientStatus
      BY <1>5, <1>t DEF AddInboundClient, UnmarkedWays, MarkedPresent
    <2>2. \A f \in E : f # e => live'[f] = live[f]
      BY <1>5, <1>t DEF AddInboundClient, TypeOK
    <2>3. present \subseteq present' /\ ClientStatus' = ClientStatus /\ pc' = pc /\ cur' = cur
          /\ up' = up
      BY <1>5 DEF AddInboundClient, jobVars
    <2>4. QED
      BY <1>t, <2>1, <2>2, <2>3 DEF BanHolds, MarkedPresent, DownUnmarked, TypeOK
  <1>6. CASE StopXray \/ RestartXray
    <2>1. RestartXray /\ ClientStatus = {} /\ pc = "idle"
      BY <1>6, <1>t DEF StopXray, RestartXray, UnmarkedWays, DownUnmarked
    <2>2. QED
      BY <2>1, <1>t DEF RestartXray, BanHolds, MarkedPresent, DownUnmarked, dbVars, jobVars
  <1>7. CASE SetDeviceLimit
    BY <1>7, <1>t DEF SetDeviceLimit, BanHolds, MarkedPresent, DownUnmarked, xrayVars, jobVars
  <1>8. QED
    BY <1>1, <1>2, <1>3, <1>4, <1>5, <1>6, <1>7 DEF Others

(* A client marked as banned cannot get in by its link (BanHolds: banUser, *)
(* unbanUser and the handlers beside them), any API call failing, where    *)
(* UnmarkedWays holds.                                                     *)
THEOREM BansHold == UnmarkedWays /\ Spec => []BanHolds
  <1> SUFFICES ASSUME UnmarkedWays PROVE Spec => []BanHolds
    OBVIOUS
  <1>1. Init => BanInv
    <2>1. Init => BanHolds /\ MarkedPresent /\ DownUnmarked
      BY DEF Init, BanHolds, MarkedPresent, DownUnmarked
    <2>2. QED
      BY <2>1, TypeInit DEF BanInv
  <1>2. BanInv /\ [Next]_vars => BanInv'
    <2>1. BanInv /\ UNCHANGED vars => BanInv'
      BY DEF BanInv, TypeOK, BanHolds, MarkedPresent, DownUnmarked, vars, dbVars, xrayVars, jobVars
    <2>2. BanInv /\ Next => TypeOK'
      BY JobTyped, OthersTyped DEF BanInv, Next
    <2>3. BanInv /\ Next => BanHolds' /\ MarkedPresent' /\ DownUnmarked'
      BY JobHolds, OthersHold DEF Next
    <2>4. QED
      BY <2>1, <2>2, <2>3 DEF BanInv
  <1>3. BanInv => BanHolds
    BY DEF BanInv
  <1>4. QED
    BY <1>1, <1>2, <1>3, PTL DEF Spec
-----------------------------------------------------------------------------
(* Service.                                                                *)

(* The half of a ban or of a release before the sleep takes nobody out but *)
(* the client it is about.                                                 *)
LEMMA RemoveServes ==
    ASSUME ServedInv, ~ApiMayFail, NEW e \in E, e \in present,
           NEW l \in {"ban", "unban", "release"}, RemoveUser(e, l),
           e \notin Unserved, cur = Nobody,
           l # "ban" => e \in ClientStatus,
           l = "release" => todo' \subseteq ClientStatus \ {e}
    PROVE  Served' /\ UnservedOut' /\ RemovedInv'
  <1>1. /\ ClientStatus' = ClientStatus /\ present' = present /\ entitled' = entitled
        /\ pc' = l /\ cur' = e /\ stale' = FALSE /\ up' = up /\ accessLog' = accessLog
        /\ ActiveClientIPs' = ActiveClientIPs
    BY DEF RemoveUser, dbVars
  <1>2. live' = IF up THEN [live EXCEPT ![e] = "out"] ELSE live
    BY DEF RemoveUser, Outcomes
  <1>3. live \in [E -> Credential] /\ entitled \subseteq E /\ Nobody \notin E
    BY NobodyAssumption DEF ServedInv, TypeOK
  <1>4. Served'
    BY <1>1, <1>2, <1>3 DEF ServedInv, Served
  <1>5. UnservedOut'
    BY <1>1, <1>2, <1>3 DEF ServedInv, UnservedOut, Unserved, Untouched
  <1>6. RemovedInv'
    BY <1>1, <1>2, <1>3 DEF RemovedInv
  <1>7. QED
    BY <1>4, <1>5, <1>6

(* A client with no address is not over the limit. *)
LEMMA NoneOver == ASSUME NEW e \in E, ActiveClientIPs[e] = {} PROVE ~Over(e)
  <1>1. Cardinality({}) = 0
    BY FS_EmptySet
  <1>2. QED
    BY <1>1, LimitAssumption DEF Over

(* No step of the job leaves an entitled, unmarked client outside. *)
LEMMA JobServes ==
    ServedWays /\ ServedInv /\ Job => Served' /\ UnservedOut' /\ RemovedInv'
  <1> SUFFICES ASSUME ServedWays, ServedInv, Job
               PROVE  Served' /\ UnservedOut' /\ RemovedInv'
    OBVIOUS
  <1>t. TypeOK /\ Served /\ UnservedOut /\ RemovedInv /\ Nobody \notin E
    BY NobodyAssumption DEF ServedInv
  <1>a. ~ApiMayFail /\ Shadowsocks = {}
    BY DEF ServedWays
  <1>1. CASE Run
    <2>1. PICK gone \in [E -> SUBSET IP], lines \in SUBSET accessLog :
             ActiveClientIPs' = [e \in E |-> (ActiveClientIPs[e] \ gone[e])
                                   \cup {ip \in IP : <<e, ip>> \in lines}]
      BY <1>1 DEF Run, Refresh
    <2>2. \A e \in E : /\ ActiveClientIPs[e] = {}
                       /\ \A ip \in IP : <<e, ip>> \notin accessLog
                       => ActiveClientIPs'[e] = {}
      BY <2>1
    <2>3. /\ pc = "idle" /\ pc' \in {"idle", "online"} /\ cur' = cur /\ stale' = stale
          /\ up' = up /\ live' = live /\ ClientStatus' = ClientStatus /\ accessLog' = {}
          /\ present' = present /\ entitled' = entitled
      BY <1>1 DEF Run, dbVars
    <2>4. Served' /\ RemovedInv'
      BY <1>t, <2>3 DEF Served, RemovedInv, TypeOK
    <2>5. UnservedOut'
      BY <1>t, <2>2, <2>3 DEF UnservedOut, Unserved, Untouched
    <2>6. QED
      BY <2>4, <2>5
  <1>2. CASE BanAdd
    <2>1. PICK ok \in {up /\ live[cur] = "out"} :
             /\ live' = IF ok THEN [live EXCEPT ![cur] = "temp"] ELSE live
             /\ ClientStatus' = IF ok THEN ClientStatus \cup {cur} ELSE ClientStatus
      BY <1>2, <1>a DEF BanAdd, Added, Outcomes
    <2>2. /\ pc = "ban" /\ pc' = "online" /\ cur' = Nobody /\ cur \in E
          /\ live \in [E -> Credential]
          /\ present' = present /\ entitled' = entitled /\ up' = up /\ accessLog' = accessLog
          /\ ActiveClientIPs' = ActiveClientIPs /\ todo' = todo
      BY <1>2, <1>t DEF BanAdd, TypeOK, dbVars
    <2>3. Served'
      BY <1>t, <2>1, <2>2 DEF Served, RemovedInv, TypeOK
    <2>4. UnservedOut'
      BY <1>t, <2>1, <2>2 DEF UnservedOut, Unserved, Untouched
    <2>5. RemovedInv'
      BY <1>t, <2>1, <2>2 DEF RemovedInv, TypeOK
    <2>6. QED
      BY <2>3, <2>4, <2>5
  <1>3. CASE UnbanAdd
    <2>1. PICK ok \in {up /\ live[cur] = "out"} :
             /\ live' = IF ok THEN [live EXCEPT ![cur] = IF stale THEN "old" ELSE "real"]
                        ELSE live
             /\ ClientStatus' = IF ok THEN ClientStatus \ {cur} ELSE ClientStatus
      BY <1>3, <1>a DEF UnbanAdd, Added, Outcomes
    <2>2. /\ pc \in {"unban", "release"} /\ cur' = Nobody
          /\ pc' = IF pc = "unban" THEN "online" ELSE "offline"
          /\ cur \in E /\ live \in [E -> Credential]
          /\ present' = present /\ entitled' = entitled /\ up' = up /\ accessLog' = accessLog
          /\ ActiveClientIPs' = ActiveClientIPs /\ todo' = todo
      BY <1>3, <1>t DEF UnbanAdd, TypeOK, dbVars
    <2>3. Served'
      BY <1>t, <2>1, <2>2 DEF Served, RemovedInv, TypeOK
    <2>4. UnservedOut'
      BY <1>t, <2>1, <2>2 DEF UnservedOut, Unserved, Untouched
    <2>5. RemovedInv'
      BY <1>t, <2>1, <2>2 DEF RemovedInv, TypeOK
    <2>6. QED
      BY <2>3, <2>4, <2>5
  <1>4. CASE SecondLoop
    BY <1>4, <1>t DEF SecondLoop, Served, UnservedOut, Unserved, Untouched, RemovedInv,
                      TypeOK, dbVars, xrayVars
  <1>5. CASE Finish
    BY <1>5, <1>t DEF Finish, Served, UnservedOut, Unserved, Untouched, RemovedInv,
                      TypeOK, dbVars, xrayVars
  <1>n. pc \in {"online", "offline"} => cur = Nobody
    BY <1>t DEF TypeOK
  <1>6. ASSUME NEW e \in E, BanUser(e) PROVE Served' /\ UnservedOut' /\ RemovedInv'
    <2>1. Over(e) /\ e \in present /\ RemoveUser(e, "ban") /\ cur = Nobody
      BY <1>6, <1>n DEF BanUser
    <2>2. e \notin Unserved
      BY <1>t, <2>1, NoneOver DEF UnservedOut, Untouched
    <2>3. QED
      BY <1>a, <2>1, <2>2, RemoveServes
  <1>7. ASSUME NEW e \in E, UnbanUser(e) PROVE Served' /\ UnservedOut' /\ RemovedInv'
    <2>1. e \in ClientStatus /\ e \in present /\ RemoveUser(e, "unban") /\ cur = Nobody
      BY <1>7, <1>n DEF UnbanUser
    <2>2. e \notin Unserved
      BY <1>t, <2>1 DEF UnservedOut, Untouched
    <2>3. QED
      BY <1>a, <2>1, <2>2, RemoveServes
  <1>8. ASSUME NEW e \in E, Pass(e) PROVE Served' /\ UnservedOut' /\ RemovedInv'
    BY <1>8, <1>t DEF Pass, Served, UnservedOut, Unserved, Untouched, RemovedInv,
                      TypeOK, dbVars, xrayVars
  <1>9. ASSUME NEW e \in E, ReleaseUser(e) PROVE Served' /\ UnservedOut' /\ RemovedInv'
    <2>1. pc = "offline" /\ e \in todo /\ cur = Nobody
      BY <1>9, <1>n DEF ReleaseUser
    <2>2. CASE e \in present
      <3>1. e \in ClientStatus
        BY <1>t, <2>1 DEF RemovedInv
      <3>2. e \notin Unserved
        BY <1>t, <3>1 DEF UnservedOut, Untouched
      <3>3. RemoveUser(e, "release")
        BY <1>9, <2>2 DEF ReleaseUser
      <3>4. todo' \subseteq ClientStatus \ {e}
        BY <1>9, <1>t, <2>1 DEF ReleaseUser, RemovedInv
      <3>5. QED
        BY <1>a, <2>1, <2>2, <3>1, <3>2, <3>3, <3>4, RemoveServes
    <2>3. CASE e \notin present
      BY <1>9, <2>3, <1>t DEF ReleaseUser, Served, UnservedOut, Unserved, Untouched,
                              RemovedInv, TypeOK, dbVars, xrayVars
    <2>4. QED
      BY <2>2, <2>3
  <1>10. CASE Panic
    BY <1>10, <1>a DEF Panic
  <1>11. QED
    BY <1>1, <1>2, <1>3, <1>4, <1>5, <1>6, <1>7, <1>8, <1>9, <1>10 DEF Job

(* Nor does anybody else, where ServedWays holds. *)
LEMMA OthersServe ==
    ServedWays /\ ServedInv /\ Others => Served' /\ UnservedOut' /\ RemovedInv'
  <1> SUFFICES ASSUME ServedWays, ServedInv, Others
               PROVE  Served' /\ UnservedOut' /\ RemovedInv'
    OBVIOUS
  <1>t. TypeOK /\ Served /\ UnservedOut /\ RemovedInv
    BY DEF ServedInv
  <1>l. live \in [E -> Credential] /\ entitled \subseteq present /\ present \subseteq E
    BY <1>t DEF TypeOK
  <1>1. ASSUME NEW e \in E, NEW ip \in IP, Connect(e, ip)
        PROVE  Served' /\ UnservedOut' /\ RemovedInv'
    <2>1. e \notin Unserved
      BY <1>1, <1>t DEF Connect, UnservedOut, Untouched
    <2>2. UnservedOut'
      BY <1>1, <1>t, <2>1 DEF Connect, UnservedOut, Unserved, Untouched, dbVars, jobVars
    <2>3. QED
      BY <1>1, <1>t, <2>2 DEF Connect, Served, RemovedInv, dbVars, jobVars
  <1>2. ASSUME NEW e \in E, UpdateInboundClient(e)
        PROVE  Served' /\ UnservedOut' /\ RemovedInv'
    <2>1. e \notin entitled => Untouched(e)
      BY <1>2, <1>t DEF UpdateInboundClient, UnservedOut, Unserved
    <2>2. up => live' = [live EXCEPT ![e] = "real"]
      BY <1>2, <1>l, <2>1 DEF UpdateInboundClient, Untouched
    <2>3. /\ entitled' = entitled \cup {e} /\ stale' = (stale \/ e = cur)
          /\ ~up => live' = live
          /\ present' = present /\ accessLog' = accessLog /\ up' = up
          /\ ActiveClientIPs' = ActiveClientIPs /\ ClientStatus' = ClientStatus
          /\ pc' = pc /\ todo' = todo /\ cur' = cur
      BY <1>2 DEF UpdateInboundClient
    <2>4. Served'
      BY <1>t, <1>l, <2>2, <2>3 DEF Served
    <2>5. UnservedOut'
      BY <1>t, <1>l, <2>2, <2>3 DEF UnservedOut, Unserved, Untouched
    <2>6. RemovedInv'
      BY <1>t, <1>l, <2>1, <2>2, <2>3 DEF RemovedInv, Untouched
    <2>7. QED
      BY <2>4, <2>5, <2>6
  <1>3. ASSUME NEW e \in E, Exclude(e) PROVE Served' /\ UnservedOut' /\ RemovedInv'
    <2>1. "edit" \notin Ops /\ e \in present
      BY <1>3, <1>l DEF Exclude, ServedWays
    <2>2. /\ live' = [live EXCEPT ![e] = "out"] /\ entitled' = entitled \ {e}
          /\ present' = present /\ accessLog' = accessLog /\ up' = up
          /\ ActiveClientIPs' = ActiveClientIPs /\ ClientStatus' = ClientStatus
          /\ pc' = pc /\ todo' = todo /\ cur' = cur /\ stale' = stale
      BY <1>3 DEF Exclude, jobVars
    <2>3. UnservedOut'
      BY <1>t, <1>l, <2>1, <2>2 DEF UnservedOut, Unserved, Untouched
    <2>4. QED
      BY <1>t, <1>l, <2>2, <2>3 DEF Served, RemovedInv
  <1>4. ASSUME NEW e \in E, DelInboundClient(e)
        PROVE  Served' /\ UnservedOut' /\ RemovedInv'
    <2>1. "add" \notin Ops
      BY <1>4 DEF DelInboundClient, ServedWays
    <2>2. /\ \A f \in E : live'[f] = live[f] \/ (f = e /\ live'[f] = "out")
          /\ entitled' = entitled \ {e} /\ present' = present \ {e}
          /\ accessLog' = accessLog /\ up' = up
          /\ ActiveClientIPs' = ActiveClientIPs /\ ClientStatus' = ClientStatus
          /\ pc' = pc /\ todo' = todo /\ cur' = cur /\ stale' = (stale \/ e = cur)
      BY <1>4, <1>l DEF DelInboundClient
    <2>3. UnservedOut'
      BY <1>t, <1>l, <2>1, <2>2 DEF UnservedOut, Unserved, Untouched
    <2>4. QED
      BY <1>t, <1>l, <2>2, <2>3 DEF Served, RemovedInv
  <1>5. ASSUME NEW e \in E, AddInboundClient(e)
        PROVE  Served' /\ UnservedOut' /\ RemovedInv'
    <2>1. Untouched(e)
      BY <1>5, <1>t, <1>l DEF AddInboundClient, UnservedOut, Unserved
    <2>2. "delete" \notin Ops
      BY <1>5 DEF AddInboundClient, ServedWays
    <2>3. /\ \A f \in E : f # e => live'[f] = live[f]
          /\ up => live'[e] = "real"
          /\ entitled' = entitled \cup {e} /\ present' = present \cup {e}
          /\ accessLog' = accessLog /\ up' = up
          /\ ActiveClientIPs' = ActiveClientIPs /\ ClientStatus' = ClientStatus
          /\ pc' = pc /\ todo' = todo /\ cur' = cur /\ stale' = stale
      BY <1>5, <1>l, <2>1 DEF AddInboundClient, Untouched, jobVars
    <2>4. Served'
      BY <1>t, <1>l, <2>3 DEF Served
    <2>5. UnservedOut'
      BY <1>t, <1>l, <2>3 DEF UnservedOut, Unserved, Untouched
    <2>6. RemovedInv'
      BY <1>t, <1>l, <2>1, <2>3 DEF RemovedInv, Untouched
    <2>7. QED
      BY <2>4, <2>5, <2>6
  <1>6. CASE StopXray
    BY <1>6, <1>t DEF StopXray, Served, UnservedOut, Unserved, Untouched, RemovedInv,
                      dbVars, jobVars
  <1>7. CASE RestartXray
    BY <1>7, <1>t, <1>l DEF RestartXray, Started, Served, UnservedOut, Unserved, Untouched,
                            RemovedInv, dbVars, jobVars
  <1>8. CASE SetDeviceLimit
    BY <1>8, <1>t DEF SetDeviceLimit, Served, UnservedOut, Unserved, Untouched, RemovedInv,
                      xrayVars, jobVars
  <1>9. QED
    BY <1>1, <1>2, <1>3, <1>4, <1>5, <1>6, <1>7, <1>8 DEF Others

(* While Xray runs, an entitled client that is neither marked nor just     *)
(* being banned or released is let in by its link (Served: the two halves  *)
(* of a ban and of a release, and the edits, restarts and Xray's own stops *)
(* that fall between them), where ServedWays holds.                        *)
THEOREM UnmarkedServed == ServedWays /\ Spec => []Served
  <1> SUFFICES ASSUME ServedWays PROVE Spec => []Served
    OBVIOUS
  <1>1. Init => ServedInv
    <2>1. Init => Served /\ UnservedOut /\ RemovedInv
      BY NobodyAssumption DEF Init, Started, Served, UnservedOut, Unserved, Untouched, RemovedInv
    <2>2. QED
      BY <2>1, TypeInit DEF ServedInv
  <1>2. ServedInv /\ [Next]_vars => ServedInv'
    <2>1. ServedInv /\ UNCHANGED vars => ServedInv'
      BY DEF ServedInv, TypeOK, Served, UnservedOut, Unserved, Untouched, RemovedInv,
             vars, dbVars, xrayVars, jobVars
    <2>2. ServedInv /\ Next => TypeOK'
      BY JobTyped, OthersTyped DEF ServedInv, Next
    <2>3. ServedInv /\ Next => Served' /\ UnservedOut' /\ RemovedInv'
      BY JobServes, OthersServe DEF Next
    <2>4. QED
      BY <2>1, <2>2, <2>3 DEF ServedInv
  <1>3. ServedInv => Served
    BY DEF ServedInv
  <1>4. QED
    BY <1>1, <1>2, <1>3, PTL DEF Spec
=============================================================================
