----------------------------- MODULE ClientSync -----------------------------
(***************************************************************************)
(* One inbound and its clients, kept in three places that every edit must  *)
(* bring into step one after the other:                                    *)
(*                                                                         *)
(*   row    the row of table inbounds, whose settings JSON lists clients   *)
(*   stat   the rows of table client_traffics, which meter them            *)
(*   live   the users the running Xray lets in, changed over its gRPC API  *)
(*                                                                         *)
(*   web/service/inbound.go      the handlers' work, AddTraffic            *)
(*   web/controller/inbound.go   who asks for a restart afterwards         *)
(*   web/job/xray_traffic_job.go the tick that renews and disables clients *)
(*   web/service/xray.go         GetXrayConfig and RestartXray             *)
(*                                                                         *)
(* Each HTTP request runs in a goroutine of its own and no lock spans one. *)
(* SQLite admits one writing transaction at a time (writer); most handlers *)
(* read the whole inbound row before they open theirs and save it whole at *)
(* the end. A transaction's changes are made at its commit. A credential,  *)
(* a quota and an expiry date are abstracted to what the other parts see   *)
(* of them: whether the client is due to be disabled.                      *)
(***************************************************************************)
EXTENDS Naturals, FiniteSets

CONSTANTS
    E,               (* the clients (their emails)                          *)
    NoClient,        (* a thread works on no client                         *)
    Renewing,        (* the clients with reset > 0                          *)
    Handlers,        (* request goroutines                                  *)
    Ticker,          (* the goroutine of XrayTrafficJob                     *)
    Restarter,       (* whoever holds the lock inside RestartXray           *)
    Nobody,          (* no transaction holds the write lock                 *)
    Ops,             (* the operations an instance looks at                 *)
    ApiMayFail,      (* may a call that Xray can serve fail (5 s timeout)?  *)
    RestartsOverlap  (* may a restart run while a handler is at work?       *)

Jobs == {Ticker, Restarter}
Threads == Handlers \cup Jobs

AllOps == {"add", "del", "edit", "reset", "resetall", "depleted", "addinb",
           "delinb", "updinb", "tick", "expire", "over", "restart", "crash"}

ASSUME NamesAssumption ==
    /\ Ticker # Restarter /\ Handlers \cap Jobs = {} /\ Nobody \notin Threads
    /\ NoClient \notin E
ASSUME OpsAssumption ==
    /\ Ops \subseteq AllOps /\ Renewing \subseteq E
    /\ ApiMayFail \in BOOLEAN /\ RestartsOverlap \in BOOLEAN

VARIABLES
    row,     (* the inbound: is it there, its enable flag, its clients      *)
    stat,    (* of each client: no row, or the row's enable flag            *)
    due,     (* clients whose row is over its quota or past its expiry date *)
    over,    (* the inbound is over its own quota or past its date          *)
    live,    (* Xray: is it up, has it the inbound, whom does it let in     *)
    cfg,     (* p.GetConfig(): what the running Xray was started with       *)
    need,    (* isNeedXrayRestart                                           *)
    writer,  (* the holder of SQLite's write lock                           *)
    pc,      (* control state of each thread                                *)
    job,     (* what a handler remembers: its snapshot and arguments        *)
    batch,   (* what AddTraffic has found in the thread that runs it        *)
    built,   (* the configuration the restarter has built, and isForce      *)
    proc,    (* p: nil, a process without its API port yet, or with it      *)
    cut      (* history: clients of requests cut off between two writes     *)

dbVars == <<row, stat, due, over>>
xrayVars == <<live, cfg>>
vars == <<dbVars, xrayVars, need, writer, pc, job, batch, built, proc, cut>>

Mark == {"none", "off", "on"}
Row == [there : BOOLEAN, enable : BOOLEAN, set : [E -> Mark]]
Config == [inb : BOOLEAN, users : SUBSET E]
HandlerPc == {"idle", "add.push", "add.save", "del.stat", "del.push", "del.save",
              "edit.push", "edit.save", "reset.push", "reset.save", "dep.save",
              "dep.delinb", "dep.purge", "addinb.push", "addinb.save",
              "delinb.stats", "delinb.row", "updinb.push", "updinb.save"}
JobPc == {"idle", "traffic", "disable", "save", "decide", "boot", "start"}
Job == [c : E \cup {NoClient}, d : E \cup {NoClient}, en : BOOLEAN, snap : Row,
        drop : SUBSET E, flag : BOOLEAN]
Batch == [renew : SUBSET E, drop : SUBSET E, inb : BOOLEAN, flag : BOOLEAN]

(* A thread is inside a transaction that has written. *)
Writing == {"add.save", "edit.save", "addinb.save", "updinb.save", "disable", "save"}

TypeOK ==
    /\ row \in Row /\ stat \in [E -> Mark]
    /\ due \subseteq {e \in E : stat[e] # "none"} /\ over \in BOOLEAN
    /\ live \in [up : BOOLEAN, inb : BOOLEAN, users : SUBSET E]
    /\ cfg \in Config /\ need \in BOOLEAN
    /\ writer \in Threads \cup {Nobody}
    /\ \A t \in Threads : writer = t <=> pc[t] \in Writing
    /\ pc \in [Threads -> HandlerPc \cup JobPc]
    /\ \A h \in Handlers : pc[h] \in HandlerPc
    /\ \A t \in Jobs : pc[t] \in JobPc
    /\ job \in [Handlers -> Job]
    /\ batch \in [Jobs -> Batch]
    /\ built \in [config : Config, force : BOOLEAN]
    /\ proc \in {"nil", "zero", "set"} /\ cut \subseteq E

NoRow == [there |-> FALSE, enable |-> FALSE, set |-> [e \in E |-> "none"]]
NoJob == [c |-> NoClient, d |-> NoClient, en |-> FALSE, snap |-> NoRow,
          drop |-> {}, flag |-> FALSE]
NoBatch == [renew |-> {}, drop |-> {}, inb |-> FALSE, flag |-> FALSE]
NoConfig == [inb |-> FALSE, users |-> {}]

Clients(r) == {e \in E : r.set[e] # "none"}
MarkOf(en) == IF en THEN "on" ELSE "off"

(* The clients GetXrayConfig lets into the configuration: enabled in the   *)
(* settings and not disabled in client_traffics (a missing row admits).    *)
Admitted == IF row.enable THEN {e \in E : row.set[e] = "on" /\ stat[e] # "off"}
            ELSE {}

DbConfig == [inb |-> row.enable, users |-> Admitted]

(* The panel has started Xray from the database and is at rest.            *)
Init ==
    /\ row \in {r \in Row : r.there \/ r = NoRow}
    /\ stat = [e \in E |-> IF row.set[e] = "none" THEN "none" ELSE "on"]
    /\ due = {} /\ over = FALSE
    /\ cfg = DbConfig
    /\ live = [up |-> TRUE, inb |-> cfg.inb, users |-> cfg.users]
    /\ need = FALSE /\ writer = Nobody
    /\ pc = [t \in Threads |-> "idle"]
    /\ job = [h \in Handlers |-> NoJob]
    /\ batch = [t \in Jobs |-> NoBatch]
    /\ built = [config |-> NoConfig, force |-> FALSE]
    /\ proc = "set" /\ cut = {}

-----------------------------------------------------------------------------
(* Steps common to the handlers.                                           *)

Goto(t, l) == pc' = [pc EXCEPT ![t] = l]

(* A request arrives.                                                      *)
MayBegin(h, op) ==
    /\ op \in Ops /\ pc[h] = "idle"
    /\ RestartsOverlap \/ pc[Restarter] = "idle"

(* The handler returns; the controller passes needRestart on.              *)
Finish(h, restart) ==
    /\ need' = (need \/ restart)
    /\ job' = [job EXCEPT ![h] = NoJob]
    /\ Goto(h, "idle")

Remember(h, changed, l) == job' = [job EXCEPT ![h] = changed] /\ Goto(h, l)

(* What an API call may return that Xray can serve, or cannot.             *)
Outcomes(can) == IF ~can THEN {FALSE} ELSE IF ApiMayFail THEN BOOLEAN ELSE {TRUE}
HasInbound == live.up /\ live.inb
CanAdd(e) == HasInbound /\ e \notin live.users
LetIn(S) == live' = [live EXCEPT !.users = @ \cup S]
ShutOut(S) == live' = [live EXCEPT !.users = @ \ S]

(* XrayAPI.AddUser and RemoveUser for one client; a user that is not there *)
(* counts as removed.                                                      *)
AddUser(e, ok) == ok \in Outcomes(CanAdd(e)) /\ LetIn(IF ok THEN {e} ELSE {})
RemoveUser(e, ok) == ok \in Outcomes(HasInbound) /\ ShutOut(IF ok THEN {e} ELSE {})

(* XrayAPI.Init refuses port 0, the handlers ignore its error, and the     *)
(* next call panics on the missing client; p.GetAPIPort() does so itself   *)
(* while p is nil. All handlers share one XrayAPI: one that closes it      *)
(* makes the calls of the others panic.                                    *)
Calling == {"add.push", "add.save", "del.push", "del.save", "edit.push", "edit.save",
            "reset.push", "reset.save", "addinb.push", "addinb.save", "dep.delinb",
            "delinb.stats", "updinb.push", "updinb.save"}
MayPanic(h) == proc # "set" \/ \E g \in Handlers \ {h} : pc[g] \in Calling

(* Gin recovers the request, whose controller asks for no restart then; a  *)
(* deferred function that finds err nil commits what has been written.     *)
Unwind(h, lost) ==
    /\ MayPanic(h)
    /\ job' = [job EXCEPT ![h] = NoJob] /\ Goto(h, "idle")
    /\ cut' = cut \cup lost
    /\ UNCHANGED <<cfg, need, writer, batch, built, proc>>

-----------------------------------------------------------------------------
(* AddInboundClient: the emails are checked and the row is read; then one  *)
(* transaction creates the traffic row, pushes the user and saves the row. *)
AddRead(h, c, en) ==
    /\ MayBegin(h, "add")
    /\ row.there /\ row.set[c] = "none"
    /\ Remember(h, [NoJob EXCEPT !.c = c, !.en = en, !.snap = row], "add.push")
    /\ UNCHANGED <<dbVars, xrayVars, need, writer, batch, built, proc, cut>>

(* AddClientStat: its error is ignored, so a row that was there stays. *)
WithStats(S) == [e \in E |-> IF e \in S /\ stat[e] = "none" THEN "on" ELSE stat[e]]

(* Mutants of AddPush: Xray is not told; the traffic row is created        *)
(* outside the transaction.                                                *)
AddPush_Silent(h) ==
    /\ pc[h] = "add.push" /\ writer = Nobody /\ writer' = h
    /\ Remember(h, job[h], "add.save")
    /\ UNCHANGED <<dbVars, xrayVars, need, batch, built, proc, cut>>

AddPush_Outside(h) ==
    /\ pc[h] = "add.push" /\ writer = Nobody /\ writer' = h
    /\ stat' = WithStats({job[h].c})
    /\ proc = "set" \/ (proc = "zero" /\ ~job[h].en)
    /\ IF job[h].en
       THEN \E ok \in BOOLEAN :
                AddUser(job[h].c, ok) /\ Remember(h, [job[h] EXCEPT !.flag = ~ok], "add.save")
       ELSE Remember(h, job[h], "add.save") /\ UNCHANGED live
    /\ UNCHANGED <<row, due, over, cfg, need, batch, built, proc, cut>>

AddPush(h) ==
    /\ pc[h] = "add.push" /\ writer = Nobody /\ writer' = h
    /\ proc = "set" \/ (proc = "zero" /\ ~job[h].en)
    /\ IF job[h].en
       THEN \E ok \in BOOLEAN :
                AddUser(job[h].c, ok) /\ Remember(h, [job[h] EXCEPT !.flag = ~ok], "add.save")
       ELSE Remember(h, job[h], "add.save") /\ UNCHANGED live
    /\ UNCHANGED <<dbVars, cfg, need, batch, built, proc, cut>>

(* While p is nil nothing has been written; after that the traffic row.    *)
AddBreak(h) ==
    /\ pc[h] = "add.push" /\ writer = Nobody
    /\ job[h].en \/ proc = "nil"
    /\ stat' = IF proc = "nil" THEN stat ELSE WithStats({job[h].c})
    /\ Unwind(h, IF proc = "nil" THEN {} ELSE {job[h].c})
    /\ UNCHANGED <<row, due, over, live>>

(* Mutants of AddCommit: the traffic row is forgotten; the settings hold   *)
(* the new client only; the transaction stays open.                        *)
AddCommit_NoStat(h) ==
    /\ pc[h] = "add.save"
    /\ row' = [job[h].snap EXCEPT !.set[job[h].c] = MarkOf(job[h].en)]
    /\ writer' = Nobody
    /\ Finish(h, job[h].flag)
    /\ UNCHANGED <<stat, due, over, xrayVars, batch, built, proc, cut>>

AddCommit_Replace(h) ==
    /\ pc[h] = "add.save"
    /\ row' = [job[h].snap EXCEPT
                 !.set = [NoRow.set EXCEPT ![job[h].c] = MarkOf(job[h].en)]]
    /\ stat' = WithStats({job[h].c})
    /\ writer' = Nobody
    /\ Finish(h, job[h].flag)
    /\ UNCHANGED <<due, over, xrayVars, batch, built, proc, cut>>

AddCommit_Open(h) ==
    /\ pc[h] = "add.save"
    /\ row' = [job[h].snap EXCEPT !.set[job[h].c] = MarkOf(job[h].en)]
    /\ stat' = WithStats({job[h].c})
    /\ Finish(h, job[h].flag)
    /\ UNCHANGED <<due, over, xrayVars, writer, batch, built, proc, cut>>

AddCommit(h) ==
    /\ pc[h] = "add.save"
    /\ row' = [job[h].snap EXCEPT !.set[job[h].c] = MarkOf(job[h].en)]
    /\ stat' = WithStats({job[h].c})
    /\ writer' = Nobody
    /\ Finish(h, job[h].flag)
    /\ UNCHANGED <<due, over, xrayVars, batch, built, proc, cut>>

-----------------------------------------------------------------------------
(* DelInboundClient writes without a transaction: the traffic row, then    *)
(* Xray, then the inbound row, which is saved as it was read.              *)
DelRead(h, c) ==
    /\ MayBegin(h, "del")
    /\ c \in Clients(row) /\ Clients(row) # {c}
    /\ Remember(h, [NoJob EXCEPT !.c = c, !.snap = row], "del.stat")
    /\ UNCHANGED <<dbVars, xrayVars, need, writer, batch, built, proc, cut>>

(* A client without a traffic row cannot be deleted ("Get stats error").   *)
DelStat(h) ==
    /\ pc[h] = "del.stat" /\ writer = Nobody
    /\ LET c == job[h].c IN
       IF stat[c] = "none"
       THEN Finish(h, FALSE) /\ UNCHANGED <<stat, due>>
       ELSE /\ stat' = [stat EXCEPT ![c] = "none"]
            /\ due' = due \ {c}
            /\ Goto(h, IF job[h].snap.set[c] = "on" /\ stat[c] = "on"
                       THEN "del.push" ELSE "del.save")
            /\ UNCHANGED <<job, need>>
    /\ UNCHANGED <<row, over, xrayVars, writer, batch, built, proc, cut>>

DelPush(h) ==
    /\ pc[h] = "del.push" /\ proc = "set"
    /\ \E ok \in BOOLEAN :
        RemoveUser(job[h].c, ok) /\ Remember(h, [job[h] EXCEPT !.flag = ~ok], "del.save")
    /\ UNCHANGED <<dbVars, cfg, need, writer, batch, built, proc, cut>>

(* There is no transaction: the traffic row has gone.                      *)
DelBreak(h) ==
    /\ pc[h] = "del.push"
    /\ Unwind(h, {job[h].c})
    /\ UNCHANGED <<dbVars, live>>

(* Save inserts the row again if it has gone meanwhile.                    *)
DelSave(h) ==
    /\ pc[h] = "del.save" /\ writer = Nobody
    /\ row' = [job[h].snap EXCEPT !.set[job[h].c] = "none"]
    /\ Finish(h, job[h].flag)
    /\ UNCHANGED <<stat, due, over, xrayVars, writer, batch, built, proc, cut>>

-----------------------------------------------------------------------------
(* UpdateInboundClient: client c becomes client d (its email may change)   *)
(* with new limits and a new enable flag.                                  *)
EditRead(h, c, d, en) ==
    /\ MayBegin(h, "edit")
    /\ c \in Clients(row) /\ (d = c \/ d \notin Clients(row))
    /\ Remember(h, [NoJob EXCEPT !.c = c, !.d = d, !.en = en, !.snap = row], "edit.push")
    /\ UNCHANGED <<dbVars, xrayVars, need, writer, batch, built, proc, cut>>

(* Xray has to lose the old client if that was switched on. The mutant     *)
(* looks at the new client instead.                                        *)
WasOn_New(h) == job[h].en
WasOn(h) == job[h].snap.set[job[h].c] = "on"

(* UpdateClientStat fails on the unique index when d has a row already.    *)
EditPush(h) ==
    /\ pc[h] = "edit.push" /\ writer = Nobody
    /\ LET c == job[h].c
           d == job[h].d
           drop == WasOn(h)
       IN
       IF c # d /\ stat[c] # "none" /\ stat[d] # "none"
       THEN Finish(h, FALSE) /\ UNCHANGED <<writer, live>>
       ELSE /\ proc = "set" \/ (proc = "zero" /\ ~drop /\ ~job[h].en)
            /\ \E gone \in Outcomes(HasInbound) :
               LET rest == IF drop /\ gone THEN live.users \ {c} ELSE live.users IN
               \E ok \in Outcomes(HasInbound /\ d \notin rest) :
                  /\ live' = [live EXCEPT !.users = IF job[h].en /\ ok THEN rest \cup {d} ELSE rest]
                  /\ Remember(h, [job[h] EXCEPT !.flag = (drop /\ ~gone) \/ (job[h].en /\ ~ok)],
                              "edit.save")
            /\ writer' = h /\ UNCHANGED need
    /\ UNCHANGED <<dbVars, cfg, batch, built, proc, cut>>

(* The new limits may be exhausted from the start. *)
NewLimits(c, d) ==
    IF stat[c] = "none" THEN {due}
    ELSE {due \ {c, d}} \cup (IF "expire" \in Ops THEN {(due \ {c}) \cup {d}} ELSE {})

(* UpdateClientStat has renamed the traffic row and switched it on; the    *)
(* settings stay. The old user may have been removed.                      *)
Renamed(c, d) == [stat EXCEPT ![c] = "none", ![d] = IF stat[c] = "none" THEN @ ELSE "on"]

EditBreak(h) ==
    /\ pc[h] = "edit.push" /\ writer = Nobody
    /\ WasOn(h) \/ job[h].en \/ proc = "nil"
    /\ LET c == job[h].c
           d == job[h].d
       IN
       /\ ~(c # d /\ stat[c] # "none" /\ stat[d] # "none")
       /\ stat' = Renamed(c, d) /\ due' \in NewLimits(c, d)
       /\ live' \in {live} \cup IF proc = "set" /\ WasOn(h)
                              THEN {[live EXCEPT !.users = @ \ {c}]} ELSE {}
       /\ Unwind(h, IF c = d THEN {} ELSE {c, d})
    /\ UNCHANGED <<row, over>>

EditSave(h) ==
    /\ pc[h] = "edit.save"
    /\ LET c == job[h].c
           d == job[h].d
       IN
       /\ row' = [job[h].snap EXCEPT !.set[c] = "none", !.set[d] = MarkOf(job[h].en)]
       /\ stat' = Renamed(c, d)
       /\ due' \in NewLimits(c, d)
       /\ cut' = IF c \in cut THEN cut \cup {d} ELSE cut
    /\ writer' = Nobody
    /\ Finish(h, job[h].flag)
    /\ UNCHANGED <<over, xrayVars, batch, built, proc>>

-----------------------------------------------------------------------------
(* ResetClientTraffic reads the traffic row, lets the client in again if   *)
(* the row was disabled, and saves the row as it was read, enabled.        *)
ResetRead(h, c) ==
    /\ MayBegin(h, "reset")
    /\ stat[c] # "none"
    /\ stat[c] = "off" => row.there
    /\ Remember(h, [NoJob EXCEPT !.c = c],
                IF stat[c] = "off" /\ row.set[c] = "on" THEN "reset.push" ELSE "reset.save")
    /\ UNCHANGED <<dbVars, xrayVars, need, writer, batch, built, proc, cut>>

ResetPush(h) ==
    /\ pc[h] = "reset.push" /\ proc = "set"
    /\ \E ok \in BOOLEAN :
        AddUser(job[h].c, ok) /\ Remember(h, [job[h] EXCEPT !.flag = ~ok], "reset.save")
    /\ UNCHANGED <<dbVars, cfg, need, writer, batch, built, proc, cut>>

ResetBreak(h) ==
    /\ pc[h] = "reset.push"
    /\ Unwind(h, {})
    /\ UNCHANGED <<dbVars, live>>

(* Whether the client stays due depends on why it was: a date stays past.  *)
ResetSave(h) ==
    /\ pc[h] = "reset.save" /\ writer = Nobody
    /\ stat' = [stat EXCEPT ![job[h].c] = "on"]
    /\ due' \in {due, due \ {job[h].c}}
    /\ Finish(h, job[h].flag)
    /\ UNCHANGED <<row, over, xrayVars, writer, batch, built, proc, cut>>

(* ResetAllClientTraffics and ResetAllTraffics: one statement each, and a  *)
(* request for a restart whatever it changed.                              *)
ResetAllClientTraffics ==
    /\ "resetall" \in Ops /\ writer = Nobody
    /\ stat' = [e \in E |-> IF stat[e] = "off" THEN "on" ELSE stat[e]]
    /\ \E S \in SUBSET due : due' = due \ S
    /\ need' = TRUE
    /\ UNCHANGED <<row, over, xrayVars, writer, pc, job, batch, built, proc, cut>>

ResetAllTraffics ==
    /\ "resetall" \in Ops /\ writer = Nobody
    /\ over' \in {over, FALSE}
    /\ need' = TRUE
    /\ UNCHANGED <<row, stat, due, xrayVars, writer, pc, job, batch, built, proc, cut>>

-----------------------------------------------------------------------------
(* DelDepletedClients picks the disabled clients that do not renew and     *)
(* reads the inbound; the transaction that follows takes those out of the  *)
(* settings, but deletes whatever row is disabled by then.                 *)

Depleted == {e \in E : stat[e] = "off" /\ e \notin Renewing}
WithoutDepleted == [e \in E |-> IF e \in Depleted THEN "none" ELSE stat[e]]

DepRead(h) ==
    /\ MayBegin(h, "depleted")
    /\ row.there /\ Depleted # {}
    /\ Remember(h, [NoJob EXCEPT !.snap = row, !.drop = Depleted],
                IF Clients(row) \subseteq Depleted THEN "dep.delinb" ELSE "dep.save")
    /\ UNCHANGED <<dbVars, xrayVars, need, writer, batch, built, proc, cut>>

DepSave(h) ==
    /\ pc[h] = "dep.save" /\ writer = Nobody
    /\ row' = [job[h].snap EXCEPT !.set =
                 [e \in E |-> IF e \in job[h].drop THEN "none" ELSE @[e]]]
    /\ stat' = WithoutDepleted
    /\ due' = due \ Depleted
    /\ Finish(h, FALSE)
    /\ UNCHANGED <<over, xrayVars, writer, batch, built, proc, cut>>

(* After DelInbound, for an inbound that had no other client.              *)
DepPurge(h) ==
    /\ pc[h] = "dep.purge" /\ writer = Nobody
    /\ stat' = WithoutDepleted
    /\ due' = due \ Depleted
    /\ Finish(h, FALSE)
    /\ UNCHANGED <<row, over, xrayVars, writer, batch, built, proc, cut>>

-----------------------------------------------------------------------------
(* AddInbound: a new row with its clients; Xray is given all of them.      *)
AddInbRead(h, s, en) ==
    /\ MayBegin(h, "addinb")
    /\ ~row.there
    /\ Remember(h, [NoJob EXCEPT !.snap = [there |-> TRUE, enable |-> en, set |-> s]],
                "addinb.push")
    /\ UNCHANGED <<dbVars, xrayVars, need, writer, batch, built, proc, cut>>

AddInbPush(h) ==
    /\ pc[h] = "addinb.push" /\ writer = Nobody /\ writer' = h
    /\ proc = "set" \/ ~job[h].snap.enable
    /\ IF job[h].snap.enable
       THEN \E ok \in Outcomes(live.up /\ ~live.inb) :
              /\ live' = IF ok THEN [live EXCEPT !.inb = TRUE, !.users = Clients(job[h].snap)]
                         ELSE live
              /\ Remember(h, [job[h] EXCEPT !.flag = ~ok], "addinb.save")
       ELSE Remember(h, job[h], "addinb.save") /\ UNCHANGED live
    /\ UNCHANGED <<dbVars, cfg, need, batch, built, proc, cut>>

(* Row and traffic rows are stored, but nobody asks for a restart.         *)
AddInbBreak(h) ==
    /\ pc[h] = "addinb.push" /\ writer = Nobody /\ job[h].snap.enable
    /\ row' = job[h].snap
    /\ stat' = WithStats(Clients(job[h].snap))
    /\ over' = FALSE
    /\ Unwind(h, {})
    /\ UNCHANGED <<due, live>>

AddInbSave(h) ==
    /\ pc[h] = "addinb.save"
    /\ row' = job[h].snap
    /\ stat' = WithStats(Clients(job[h].snap))
    /\ over' = FALSE
    /\ writer' = Nobody
    /\ Finish(h, job[h].flag)
    /\ UNCHANGED <<due, xrayVars, batch, built, proc, cut>>

(* DelInbound: Xray first, then the traffic rows, then the inbound row,    *)
(* each statement by itself. DelDepletedClients calls it too and ignores   *)
(* what it returns.                                                        *)
DelInbPush(h) ==
    /\ \/ MayBegin(h, "delinb") /\ row.there
       \/ pc[h] = "dep.delinb"
    /\ proc = "set" \/ ~row.enable
    /\ IF row.enable
       THEN \E ok \in Outcomes(HasInbound) :
              /\ live' = IF ok THEN [live EXCEPT !.inb = FALSE, !.users = {}] ELSE live
              /\ Remember(h, [job[h] EXCEPT !.flag = ~ok], "delinb.stats")
       ELSE Remember(h, job[h], "delinb.stats") /\ UNCHANGED live
    /\ UNCHANGED <<dbVars, cfg, need, writer, batch, built, proc, cut>>

DelInbBreak(h) ==
    /\ MayBegin(h, "delinb") \/ pc[h] = "dep.delinb"
    /\ row.enable
    /\ Unwind(h, {})
    /\ UNCHANGED <<dbVars, live>>

DelInbStats(h) ==
    /\ pc[h] = "delinb.stats" /\ writer = Nobody
    /\ stat' = [e \in E |-> "none"] /\ due' = {}
    /\ Goto(h, "delinb.row")
    /\ UNCHANGED <<row, over, xrayVars, need, writer, job, batch, built, proc, cut>>

DelInbRow(h) ==
    /\ pc[h] = "delinb.row" /\ writer = Nobody
    /\ row' = NoRow /\ over' = FALSE
    /\ IF job[h].drop # {} THEN Goto(h, "dep.purge") /\ UNCHANGED <<need, job>>
       ELSE Finish(h, job[h].flag)
    /\ UNCHANGED <<stat, due, xrayVars, writer, batch, built, proc, cut>>

-----------------------------------------------------------------------------
(* UpdateInbound: the form holds the inbound as the page loaded it, its    *)
(* clients included. Xray loses the old inbound and gets the form's, with  *)
(* all its clients; only a failure to add it asks for a restart.           *)
UpdLoad(h, en) ==
    /\ MayBegin(h, "updinb")
    /\ row.there
    /\ Remember(h, [NoJob EXCEPT !.snap = [row EXCEPT !.enable = en]], "updinb.push")
    /\ UNCHANGED <<dbVars, xrayVars, need, writer, batch, built, proc, cut>>

(* updateClientTraffics fails when a client new to the row has a traffic   *)
(* row already; GetInbound fails when the row has gone.                    *)
UpdPush(h) ==
    /\ pc[h] = "updinb.push" /\ writer = Nobody
    /\ LET form == job[h].snap
           new == {e \in Clients(form) : e \notin Clients(row)}
       IN
       IF ~row.there \/ \E e \in new : stat[e] # "none"
       THEN Finish(h, FALSE) /\ UNCHANGED <<writer, live>>
       ELSE /\ proc = "set"
            /\ \E gone \in Outcomes(HasInbound) :
               LET left == IF gone THEN [live EXCEPT !.inb = FALSE, !.users = {}] ELSE live IN
               \E ok \in Outcomes(left.up /\ ~left.inb) :
                  /\ live' = IF form.enable /\ ok
                             THEN [left EXCEPT !.inb = TRUE, !.users = Clients(form)] ELSE left
                  /\ Remember(h, [job[h] EXCEPT !.flag = form.enable /\ ~ok], "updinb.save")
            /\ writer' = h /\ UNCHANGED need
    /\ UNCHANGED <<dbVars, cfg, batch, built, proc, cut>>

(* updateClientTraffics has written, and UpdateInbound calls Xray whatever *)
(* the form says. The old inbound may have been removed from Xray.         *)
UpdBreak(h) ==
    /\ pc[h] = "updinb.push" /\ writer = Nobody /\ row.there
    /\ LET form == job[h].snap
           lost == Clients(row) \ Clients(form)
           new == Clients(form) \ Clients(row)
       IN
       /\ \A e \in new : stat[e] = "none"
       /\ stat' = [e \in E |-> IF e \in lost THEN "none" ELSE WithStats(new)[e]]
       /\ due' = due \ lost
       /\ live' \in {live} \cup IF proc = "set" /\ form.enable
                              THEN {[live EXCEPT !.inb = FALSE, !.users = {}]} ELSE {}
       /\ Unwind(h, lost \cup new)
    /\ UNCHANGED <<row, over>>

UpdSave(h) ==
    /\ pc[h] = "updinb.save"
    /\ LET form == job[h].snap
           lost == Clients(row) \ Clients(form)
           new == Clients(form) \ Clients(row)
       IN
       /\ row' = form
       /\ stat' = [e \in E |-> IF e \in lost THEN "none" ELSE WithStats(new)[e]]
       /\ due' = due \ lost
    /\ over' \in {over, FALSE}
    /\ writer' = Nobody
    /\ Finish(h, job[h].flag)
    /\ UNCHANGED <<xrayVars, batch, built, proc, cut>>

-----------------------------------------------------------------------------
(* InboundService.AddTraffic, in the goroutine of XrayTrafficJob or called *)
(* by GetXrayConfig. Its transaction begins and autoRenewClients renews    *)
(* the expired clients with reset > 0 that are still in the settings;      *)
(* those that were disabled are let in again, whatever the settings say.   *)
(* A client that is due for its quota only is not renewed. Here Init's     *)
(* error is looked at: it asks for a restart. With p nil Xray is down and  *)
(* the thread is the restarter, whose flag nobody reads.                   *)
Renewable == {e \in due \cap Renewing : row.set[e] # "none" /\ stat[e] # "none"}

AddTraffic(t) ==
    /\ pc[t] = "traffic" /\ writer = Nobody /\ writer' = t
    /\ \E dated \in SUBSET Renewable :
       LET again == {e \in dated : stat[e] = "off"} IN
       \E in \in SUBSET again :
          /\ \A e \in again : (e \in in) \in Outcomes(CanAdd(e))
          /\ LetIn(in)
          /\ batch' = [batch EXCEPT ![t] = [NoBatch EXCEPT !.renew = dated,
                                                         !.flag = in # again \/ (dated # {} /\ proc = "zero")]]
    /\ Goto(t, "disable")
    /\ UNCHANGED <<dbVars, cfg, need, job, built, proc, cut>>

(* disableInvalidClients and disableInvalidInbounds: Xray first.           *)
Disable(t) ==
    /\ pc[t] = "disable"
    /\ LET r == batch[t].renew
           drop == {e \in due \ r : stat[e] = "on"}
           told == IF row.there THEN drop ELSE {}
           inb == over /\ row.enable
       IN
       /\ proc # "zero" \/ (told = {} /\ ~inb)
       /\ \E out \in SUBSET told, gone \in Outcomes(HasInbound) :
          /\ \A e \in told : (e \in out) \in Outcomes(HasInbound)
          /\ live' = IF inb /\ gone THEN [live EXCEPT !.inb = FALSE, !.users = {}]
                     ELSE [live EXCEPT !.users = @ \ out]
          /\ batch' = [batch EXCEPT ![t] = [renew |-> r, drop |-> drop, inb |-> inb,
                         flag |-> @.flag \/ out # told \/ (inb /\ ~gone)]]
    /\ Goto(t, "save")
    /\ UNCHANGED <<dbVars, cfg, need, writer, job, built, proc, cut>>

(* The statements that mark the clients and the inbound, and the commit.   *)
(* Only the job asks for a restart: GetXrayConfig drops the result.        *)
Marked(b) == [e \in E |-> IF e \in b.renew THEN "on"
                          ELSE IF e \in b.drop THEN "off" ELSE stat[e]]

CommitTraffic(t) ==
    /\ pc[t] = "save"
    /\ stat' = Marked(batch[t])
    /\ due' = due \ batch[t].renew
    /\ row' = IF batch[t].inb THEN [row EXCEPT !.enable = FALSE] ELSE row
    /\ need' = (need \/ (t = Ticker /\ batch[t].flag))
    /\ writer' = Nobody
    /\ batch' = [batch EXCEPT ![t] = NoBatch]
    /\ Goto(t, IF t = Ticker THEN "idle" ELSE "decide")
    /\ UNCHANGED <<over, xrayVars, job, built, proc, cut>>

(* XrayTrafficJob.Run: not while Xray is down. *)
Tick ==
    /\ "tick" \in Ops /\ pc[Ticker] = "idle" /\ live.up
    /\ Goto(Ticker, "traffic")
    /\ UNCHANGED <<dbVars, xrayVars, need, writer, job, batch, built, proc, cut>>

-----------------------------------------------------------------------------
(* RestartXray. The 30 s job passes isForce = FALSE and has cleared the    *)
(* flag, the panel passes TRUE, so does a panel that starts. GetXrayConfig *)
(* reads the inbounds with their traffic rows, then calls AddTraffic, and  *)
(* filters the clients by what it has read before.                         *)
RestartBegin(force) ==
    /\ pc[Restarter] = "idle"
    /\ RestartsOverlap \/ \A h \in Handlers : pc[h] = "idle"
    /\ IF force THEN ("restart" \in Ops \/ ~live.up) /\ UNCHANGED need
       ELSE need /\ need' = FALSE
    /\ built' = [config |-> DbConfig, force |-> force]
    /\ Goto(Restarter, "traffic")
    /\ UNCHANGED <<dbVars, xrayVars, writer, job, batch, proc, cut>>

(* Keep the running Xray, or stop it. Equal sets of clients may still      *)
(* differ in their credentials.                                            *)
Keep ==
    /\ pc[Restarter] = "decide"
    /\ ~built.force /\ live.up /\ built.config = cfg /\ ~need
    /\ built' = [config |-> NoConfig, force |-> FALSE]
    /\ Goto(Restarter, "idle")
    /\ UNCHANGED <<dbVars, xrayVars, need, writer, job, batch, proc, cut>>

StopXray ==
    /\ pc[Restarter] = "decide"
    /\ live' = [up |-> FALSE, inb |-> FALSE, users |-> {}]
    /\ Goto(Restarter, "boot")
    /\ UNCHANGED <<dbVars, cfg, need, writer, job, batch, built, proc, cut>>

(* p.Start sets the port after it has forked Xray and waited for `xray     *)
(* -version`.                                                              *)
NewProcess ==
    /\ pc[Restarter] = "boot"
    /\ proc' = "zero"
    /\ Goto(Restarter, "start")
    /\ UNCHANGED <<dbVars, xrayVars, need, writer, job, batch, built, cut>>

StartXray ==
    /\ pc[Restarter] = "start"
    /\ cfg' = built.config
    /\ live' = [up |-> TRUE, inb |-> cfg'.inb, users |-> cfg'.users]
    /\ proc' = "set"
    /\ built' = [config |-> NoConfig, force |-> FALSE]
    /\ Goto(Restarter, "idle")
    /\ UNCHANGED <<dbVars, need, writer, job, batch, cut>>

-----------------------------------------------------------------------------
(* The environment: time and traffic, and the end of the panel's process.  *)
Expire(e) ==
    /\ "expire" \in Ops /\ stat[e] # "none" /\ e \notin due
    /\ due' = due \cup {e}
    /\ UNCHANGED <<row, stat, over, xrayVars, need, writer, pc, job, batch, built, proc, cut>>

InboundOver ==
    /\ "over" \in Ops /\ row.there /\ ~over
    /\ over' = TRUE
    /\ UNCHANGED <<row, stat, due, xrayVars, need, writer, pc, job, batch, built, proc, cut>>

(* The panel's process ends and Xray with it. Transactions are rolled      *)
(* back, flags and goroutines are gone, and the panel that starts next     *)
(* starts Xray, but answers requests before that.                          *)
CutOff(h) == CASE pc[h] \in {"del.push", "del.save"} -> {job[h].c}
               [] pc[h] = "delinb.row" -> Clients(row)
               [] OTHER -> {}

PanelDies ==
    /\ live' = [up |-> FALSE, inb |-> FALSE, users |-> {}]
    /\ proc' = "nil"
    /\ need' = FALSE /\ writer' = Nobody
    /\ pc' = [t \in Threads |-> "idle"]
    /\ job' = [h \in Handlers |-> NoJob]
    /\ batch' = [t \in Jobs |-> NoBatch]
    /\ built' = [config |-> NoConfig, force |-> FALSE]
    /\ cut' = cut \cup UNION {CutOff(h) : h \in Handlers}
    /\ UNCHANGED cfg

PanelCrash == "crash" \in Ops /\ PanelDies /\ UNCHANGED dbVars

(* disableInvalidClients and disableInvalidInbounds ignore Init's error:   *)
(* without a port they panic if there is anybody to remove. The deferred   *)
(* function commits the renewals, and cron does not recover the job.       *)
TickPanic ==
    /\ pc[Ticker] = "disable" /\ proc = "zero"
    /\ \/ over /\ row.enable
       \/ row.there /\ \E e \in due \ batch[Ticker].renew : stat[e] = "on"
    /\ PanelDies
    /\ stat' = Marked([NoBatch EXCEPT !.renew = batch[Ticker].renew])
    /\ due' = due \ batch[Ticker].renew
    /\ UNCHANGED <<row, over>>

Handle(h) ==
    \/ \E c \in E, en \in BOOLEAN : AddRead(h, c, en)
    \/ AddPush(h) \/ AddBreak(h) \/ AddCommit(h)
    \/ \E c \in E : DelRead(h, c)
    \/ DelStat(h) \/ DelPush(h) \/ DelBreak(h) \/ DelSave(h)
    \/ \E c, d \in E, en \in BOOLEAN : EditRead(h, c, d, en)
    \/ EditPush(h) \/ EditBreak(h) \/ EditSave(h)
    \/ \E c \in E : ResetRead(h, c)
    \/ ResetPush(h) \/ ResetBreak(h) \/ ResetSave(h)
    \/ DepRead(h) \/ DepSave(h) \/ DepPurge(h)
    \/ \E s \in [E -> Mark], en \in BOOLEAN : AddInbRead(h, s, en)
    \/ AddInbPush(h) \/ AddInbBreak(h) \/ AddInbSave(h)
    \/ DelInbPush(h) \/ DelInbBreak(h) \/ DelInbStats(h) \/ DelInbRow(h)
    \/ \E en \in BOOLEAN : UpdLoad(h, en)
    \/ UpdPush(h) \/ UpdBreak(h) \/ UpdSave(h)

Next ==
    \/ \E h \in Handlers : Handle(h)
    \/ ResetAllClientTraffics \/ ResetAllTraffics
    \/ Tick
    \/ \E t \in Jobs : AddTraffic(t) \/ Disable(t) \/ CommitTraffic(t)
    \/ \E force \in BOOLEAN : RestartBegin(force)
    \/ Keep \/ StopXray \/ NewProcess \/ StartXray
    \/ \E e \in E : Expire(e)
    \/ InboundOver \/ PanelCrash \/ TickPanic

Spec == Init /\ [][Next]_vars

-----------------------------------------------------------------------------
(* Properties.                                                             *)

NoHandler == \A h \in Handlers : pc[h] = "idle"

(* Nothing is going on and nothing is pending: what Xray does now it will  *)
(* go on doing.                                                            *)
Quiet == /\ NoHandler /\ \A t \in Jobs : pc[t] = "idle"
         /\ ~need /\ live.up

(* When no handler is at work, exactly the clients of the settings have a  *)
(* traffic row, but for those whose request was cut off between two of its *)
(* writes: by a call that panicked, or by the end of the panel inside a    *)
(* deletion, which has no transaction. Without its row a client is never   *)
(* metered, expired or limited, and can no longer be deleted               *)
(* (AddClientStat, DelClientStat and the saves of the inbound row).        *)
Paired == NoHandler => \A e \in E \ cut : row.set[e] = "none" <=> stat[e] = "none"

(* When all is quiet, Xray lets nobody in whom the database excludes: a    *)
(* deleted, switched off, expired or depleted client is out.               *)
NoGhost == Quiet => live.users \subseteq Admitted

(* When all is quiet, Xray lets in every client the database admits.       *)
NoLockout == Quiet => Admitted \subseteq live.users

(* A handler's save changes the entries of the clients it was asked to     *)
(* change and nobody else's (the snapshot read before the transaction).    *)
Target(h) == IF job[h].c = NoClient THEN E ELSE {job[h].c, job[h].d}
OwnClientsOnly ==
    [][\A e \in E : row'.set[e] # row.set[e] =>
          \E h \in Handlers : pc'[h] # pc[h] /\ e \in Target(h)]_vars
=============================================================================
