--------------------------- MODULE XraySupervisor ---------------------------
(***************************************************************************)
(* The supervision of the Xray-core child process by the panel:            *)
(*                                                                         *)
(*   web/service/xray.go    the globals p, lock, isNeedXrayRestart and     *)
(*                          isManuallyStopped, RestartXray, StopXray,      *)
(*                          DidXrayCrash                                   *)
(*   xray/process.go        Process: Start (asynchronous), Stop (SIGTERM,  *)
(*                          wait, SIGKILL), IsRunning, the finalizer       *)
(*   web/web.go             the cron jobs: the crash check every second,   *)
(*                          the pending-restart check every 30 seconds     *)
(*   web/job/check_xray_running_job.go                                     *)
(*                                                                         *)
(* Goroutines are threads with a program counter. robfig/cron starts every *)
(* tick in a goroutine of its own and skips none, so the same job may run  *)
(* in several threads at once. A configuration is abstracted to the set of *)
(* users it lets in; handlers that edit clients change the database and    *)
(* push the same edit to the live Xray over its gRPC API.                  *)
(***************************************************************************)
EXTENDS Naturals, FiniteSets

CONSTANTS
    Panels,        (* request goroutines that stop or force-restart Xray    *)
    CrashTicks,    (* goroutines of CheckXrayRunningJob (overlapping ticks) *)
    RestartTicks,  (* goroutines of the 30 s pending-restart function       *)
    Handlers,      (* request goroutines that add or remove clients         *)
    Users,         (* the clients a configuration may contain               *)
    Procs,         (* slots for xray.Process objects and their children     *)
    NoProc,        (* the nil value of the global p                         *)
    NoThread,      (* the lock is free                                      *)
    LateSpawn      (* may Start return before its goroutine has forked?     *)

Threads == Panels \cup CrashTicks \cup RestartTicks \cup Handlers

ASSUME ThreadsAssumption ==
    /\ Panels \cap CrashTicks = {} /\ Panels \cap RestartTicks = {}
    /\ Panels \cap Handlers = {}   /\ CrashTicks \cap RestartTicks = {}
    /\ CrashTicks \cap Handlers = {} /\ RestartTicks \cap Handlers = {}
    /\ NoThread \notin Threads
ASSUME ProcsAssumption == NoProc \notin Procs
ASSUME LateSpawnAssumption == LateSpawn \in BOOLEAN

VARIABLES
    os,         (* of each slot: what has become of the child process       *)
    waiters,    (* slots on which a Stop goroutine still calls Process.Wait *)
    collected,  (* slots whose finalizer has run before the fork            *)
    p,          (* the global *xray.Process                                 *)
    cfg,        (* p.GetConfig(): the configuration p was made for          *)
    users,      (* the users the child of p lets in right now               *)
    lock,       (* holder of the global mutex                               *)
    need,       (* isNeedXrayRestart                                        *)
    manual,     (* isManuallyStopped                                        *)
    checkTime,  (* CheckXrayRunningJob.checkTime, capped at 2               *)
    db,         (* the users GetXrayConfig would put into a configuration   *)
    built,      (* the configuration the lock holder has built              *)
    pc,         (* control state of each thread                             *)
    mode,       (* what a thread is doing: "stop", "force" or "soft"        *)
    edit        (* the edit a handler is making                             *)

procVars   == <<os, waiters, collected>>
flagVars   == <<need, manual, checkTime>>
dataVars   == <<cfg, users, db, built>>
threadVars == <<pc, mode, edit>>
vars == <<procVars, p, lock, flagVars, dataVars, threadVars>>

(* free: no Process object; new: cmd.Run has not forked yet; killed: sent  *)
(* SIGKILL, not dead yet; zombie: exited, nobody has reaped it; reaped: by *)
(* cmd.Wait, which has set cmd.ProcessState; stolen: by somebody else;     *)
(* failed: there never will be a child.                                    *)
OsState == {"free", "new", "alive", "killed", "zombie", "reaped", "stolen",
            "failed"}
Critical == {"build", "decide", "signal", "wait", "launch", "version", "return"}
PcState == Critical \cup {"idle", "acquire", "flag", "commit", "request"}
Mode == {"stop", "force", "soft"}
Edit == [user : Users, add : BOOLEAN, pushed : BOOLEAN]

TypeOK ==
    /\ os \in [Procs -> OsState]
    /\ waiters \subseteq Procs /\ collected \subseteq Procs
    /\ p \in Procs \cup {NoProc}
    /\ lock \in Threads \cup {NoThread}
    /\ need \in BOOLEAN /\ manual \in BOOLEAN /\ checkTime \in 0..2
    /\ cfg \subseteq Users /\ users \subseteq Users
    /\ db \subseteq Users /\ built \subseteq Users
    /\ pc \in [Threads -> PcState]
    /\ mode \in [Threads -> Mode]
    /\ edit \in [Handlers -> Edit]

(* The server has called startTask, whose first act is RestartXray(true).  *)
Init ==
    /\ os = [h \in Procs |-> "free"]
    /\ waiters = {} /\ collected = {}
    /\ p = NoProc /\ lock = NoThread
    /\ need = FALSE /\ manual = FALSE /\ checkTime = 0
    /\ db \in SUBSET Users /\ cfg = {} /\ users = {} /\ built = {}
    /\ \E boot \in Panels :
         pc = [t \in Threads |-> IF t = boot THEN "acquire" ELSE "idle"]
    /\ mode = [t \in Threads |-> IF t \in Panels THEN "force" ELSE "soft"]
    /\ edit \in [Handlers -> {e \in Edit : ~e.add /\ ~e.pushed}]

-----------------------------------------------------------------------------
(* process.IsRunning: cmd.Process is set and cmd.ProcessState is not.      *)
IsRunning(h) == /\ h # NoProc
                /\ os[h] \in {"alive", "killed", "zombie", "stolen"}

(* XrayService.DidXrayCrash. *)
DidXrayCrash == ~IsRunning(p) /\ ~manual

(* Start has got as far as refreshAPIPort. *)
PortKnown == \A t \in Threads : pc[t] # "version"

(* Children that serve clients and will go on doing so. *)
Serving == {h \in Procs : os[h] = "alive"}

Goto(t, l) == pc' = [pc EXCEPT ![t] = l]

(* Where Stop returns to: StopXray ends, RestartXray goes on to start. *)
AfterStop(t) == Goto(t, IF mode[t] = "stop" THEN "return" ELSE "launch")

-----------------------------------------------------------------------------
(* Threads outside the lock.                                               *)

(* The panel (or the bot) calls StopXray or RestartXray(true). *)
Request(t, m) ==
    /\ t \in Panels /\ m \in {"stop", "force"}
    /\ pc[t] = "idle"
    /\ mode' = [mode EXCEPT ![t] = m]
    /\ Goto(t, "acquire")
    /\ UNCHANGED <<procVars, p, lock, flagVars, dataVars, edit>>

(* CheckXrayRunningJob.Run reads IsXrayRunning first ...                   *)
CheckRunning(t) ==
    /\ t \in CrashTicks /\ pc[t] = "idle"
    /\ IF IsRunning(p)
       THEN checkTime' = 0 /\ UNCHANGED pc
       ELSE Goto(t, "flag") /\ UNCHANGED checkTime
    /\ UNCHANGED <<procVars, p, lock, need, manual, dataVars, mode, edit>>

(* Mutant of CheckManual: restart on the third tick in a row. *)
CheckManual_Third(t) ==
    /\ t \in CrashTicks /\ pc[t] = "flag"
    /\ IF manual
       THEN checkTime' = 0 /\ Goto(t, "idle")
       ELSE /\ checkTime' = checkTime + 1
            /\ Goto(t, IF checkTime < 2 THEN "idle" ELSE "acquire")
    /\ UNCHANGED <<procVars, p, lock, need, manual, dataVars, mode, edit>>

(* ... and isManuallyStopped after it, without the lock; the second tick   *)
(* in a row that finds Xray down calls RestartXray(false).                 *)
CheckManual(t) ==
    /\ t \in CrashTicks /\ pc[t] = "flag"
    /\ IF manual
       THEN checkTime' = 0 /\ Goto(t, "idle")
       ELSE IF checkTime = 0
            THEN checkTime' = 1 /\ Goto(t, "idle")
            ELSE checkTime' = 2 /\ Goto(t, "acquire")
    /\ UNCHANGED <<procVars, p, lock, need, manual, dataVars, mode, edit>>

(* The 30 s function: IsNeedRestartAndSetFalse, then RestartXray(false).   *)
TakeRequest(t) ==
    /\ t \in RestartTicks /\ pc[t] = "idle"
    /\ need
    /\ need' = FALSE
    /\ Goto(t, "acquire")
    /\ UNCHANGED <<procVars, p, lock, manual, checkTime, dataVars, mode, edit>>

(* A handler pushes its edit to the live Xray; the push fails when there   *)
(* is none, when its API port is not known yet, or for Xray's own reasons. *)
PushEdit(t, u) ==
    /\ t \in Handlers /\ pc[t] = "idle"
    /\ \E ok \in BOOLEAN :
        /\ ok => p # NoProc /\ os[p] \in {"alive", "killed"} /\ PortKnown
        /\ edit' = [edit EXCEPT ![t] = [user |-> u, add |-> u \notin db, pushed |-> ok]]
        /\ users' = IF ~ok THEN users
                    ELSE IF u \in db THEN users \ {u} ELSE users \cup {u}
    /\ Goto(t, "commit")
    /\ UNCHANGED <<procVars, p, lock, flagVars, cfg, db, built, mode>>

(* The transaction that began before the push commits. *)
CommitEdit(t) ==
    /\ t \in Handlers /\ pc[t] = "commit"
    /\ db' = IF edit[t].add THEN db \cup {edit[t].user} ELSE db \ {edit[t].user}
    /\ Goto(t, IF edit[t].pushed THEN "idle" ELSE "request")
    /\ edit' = [edit EXCEPT ![t].add = FALSE, ![t].pushed = FALSE]
    /\ UNCHANGED <<procVars, p, lock, flagVars, cfg, users, built, mode>>

(* The controller calls SetToNeedRestart after a push that failed. *)
SetToNeedRestart(t) ==
    /\ t \in Handlers /\ pc[t] = "request"
    /\ need' = TRUE
    /\ Goto(t, "idle")
    /\ UNCHANGED <<procVars, p, lock, manual, checkTime, dataVars, mode, edit>>

-----------------------------------------------------------------------------
(* RestartXray and StopXray, under the lock.                               *)

(* lock.Lock, then StopXray records that the stop was manual ...           *)
AcquireStop(t) ==
    /\ pc[t] = "acquire" /\ mode[t] = "stop"
    /\ lock = NoThread /\ lock' = t
    /\ manual' = TRUE
    /\ Goto(t, IF IsRunning(p) THEN "signal" ELSE "return")
    /\ UNCHANGED <<procVars, p, need, checkTime, dataVars, mode, edit>>

(* Mutant of AcquireRestart: RestartXray does not take the mutex. *)
AcquireRestart_NoLock(t) ==
    /\ pc[t] = "acquire" /\ mode[t] # "stop"
    /\ manual' = FALSE
    /\ Goto(t, "build")
    /\ UNCHANGED <<procVars, p, lock, need, checkTime, dataVars, mode, edit>>

(* ... and RestartXray that it was not. *)
AcquireRestart(t) ==
    /\ pc[t] = "acquire" /\ mode[t] # "stop"
    /\ lock = NoThread /\ lock' = t
    /\ manual' = FALSE
    /\ Goto(t, "build")
    /\ UNCHANGED <<procVars, p, need, checkTime, dataVars, mode, edit>>

(* GetXrayConfig reads the database. *)
Build(t) ==
    /\ pc[t] = "build"
    /\ built' = db
    /\ Goto(t, "decide")
    /\ UNCHANGED <<procVars, p, lock, flagVars, cfg, users, db, mode, edit>>

(* GetXrayConfig returns an error and so does RestartXray. *)
BuildFails(t) ==
    /\ pc[t] = "build"
    /\ Goto(t, "return")
    /\ UNCHANGED <<procVars, p, lock, flagVars, dataVars, mode, edit>>

(* A running Xray is left alone if the caller did not insist, its          *)
(* configuration is the one just built and no restart is pending.          *)
MayKeep(t) == mode[t] = "soft" /\ cfg = built /\ ~need

(* Mutant of Decide: the configurations are compared before IsRunning. *)
Decide_KeepFirst(t) ==
    /\ pc[t] = "decide"
    /\ Goto(t, IF MayKeep(t) THEN "return"
               ELSE IF IsRunning(p) THEN "signal" ELSE "launch")
    /\ UNCHANGED <<procVars, p, lock, flagVars, dataVars, mode, edit>>

Decide(t) ==
    /\ pc[t] = "decide"
    /\ Goto(t, IF ~IsRunning(p) THEN "launch"
               ELSE IF MayKeep(t) THEN "return" ELSE "signal")
    /\ UNCHANGED <<procVars, p, lock, flagVars, dataVars, mode, edit>>

(* Process.Stop sends SIGTERM and leaves a goroutine in Process.Wait, or   *)
(* returns at once: IsRunning turned false, or the child was reaped (then  *)
(* Signal fails with "process already finished").                          *)
Signal(t) ==
    /\ pc[t] = "signal"
    /\ IF IsRunning(p) /\ os[p] # "stolen"
       THEN waiters' = waiters \cup {p} /\ Goto(t, "wait")
       ELSE UNCHANGED waiters /\ AfterStop(t)
    /\ UNCHANGED <<os, collected, p, lock, flagVars, dataVars, mode, edit>>

(* The waiting goroutine reports within five seconds. *)
Stopped(t) ==
    /\ pc[t] = "wait" /\ os[p] \in {"reaped", "stolen"}
    /\ AfterStop(t)
    /\ UNCHANGED <<procVars, p, lock, flagVars, dataVars, mode, edit>>

(* Mutants of StopTimeout: giving up without SIGKILL; no timeout at all. *)
StopTimeout_NoKill(t) ==
    /\ pc[t] = "wait"
    /\ AfterStop(t)
    /\ UNCHANGED <<procVars, p, lock, flagVars, dataVars, mode, edit>>

StopTimeout_Never(t) ==
    /\ pc[t] = "wait" /\ FALSE
    /\ UNCHANGED vars

(* It does not: Process.Kill, without waiting for the child to be gone. *)
StopTimeout(t) ==
    /\ pc[t] = "wait"
    /\ os' = IF os[p] = "alive" THEN [os EXCEPT ![p] = "killed"] ELSE os
    /\ AfterStop(t)
    /\ UNCHANGED <<waiters, collected, p, lock, flagVars, dataVars, mode, edit>>

(* p = NewProcess(config); Start writes the file and starts a goroutine    *)
(* for cmd.Run.                                                            *)
Launch(t, h) ==
    /\ pc[t] = "launch" /\ os[h] = "free"
    /\ p' = h
    /\ os' = [os EXCEPT ![h] = "new"]
    /\ cfg' = built /\ users' = {}
    /\ Goto(t, "version")
    /\ UNCHANGED <<waiters, collected, lock, flagVars, db, built, mode, edit>>

(* Writing the file fails: p is replaced by a Process without a command. *)
LaunchFails(t, h) ==
    /\ pc[t] = "launch" /\ os[h] = "free"
    /\ p' = h
    /\ os' = [os EXCEPT ![h] = "failed"]
    /\ cfg' = built /\ users' = {}
    /\ Goto(t, "return")
    /\ UNCHANGED <<waiters, collected, lock, flagVars, db, built, mode, edit>>

(* refreshVersion runs "xray -version" to its end and refreshAPIPort makes *)
(* the API port known. Unless LateSpawn, the goroutine started before that *)
(* has forked (or failed to) by then.                                      *)
Version(t) ==
    /\ pc[t] = "version"
    /\ LateSpawn \/ os[p] # "new"
    /\ Goto(t, "return")
    /\ UNCHANGED <<procVars, p, lock, flagVars, dataVars, mode, edit>>

(* The deferred Unlock; CheckXrayRunningJob then clears its counter. *)
Return(t) ==
    /\ pc[t] = "return"
    /\ lock' = NoThread
    /\ checkTime' = IF t \in CrashTicks THEN 0 ELSE checkTime
    /\ built' = {}
    /\ Goto(t, "idle")
    /\ UNCHANGED <<procVars, p, need, manual, cfg, users, db, mode, edit>>

-----------------------------------------------------------------------------
(* The goroutine of Start, the operating system and the runtime.           *)

(* cmd.Start inside cmd.Run: the child comes up and reads its file.        *)
Fork(h) ==
    /\ os[h] = "new"
    /\ os' = [os EXCEPT ![h] = "alive"]
    /\ users' = IF h = p THEN cfg ELSE users
    /\ UNCHANGED <<waiters, collected, p, lock, flagVars, cfg, db, built,
                   threadVars>>

ForkFails(h) ==
    /\ os[h] = "new"
    /\ os' = [os EXCEPT ![h] = "failed"]
    /\ UNCHANGED <<waiters, collected, p, lock, flagVars, dataVars, threadVars>>

(* The child exits: on a signal, on an error of its own, on a bad config. *)
Exit(h) ==
    /\ os[h] \in {"alive", "killed"}
    /\ os' = [os EXCEPT ![h] = "zombie"]
    /\ users' = IF h = p THEN {} ELSE users
    /\ UNCHANGED <<waiters, collected, p, lock, flagVars, cfg, db, built,
                   threadVars>>

(* cmd.Wait reaps the child and stores cmd.ProcessState ...                *)
ReapByRun(h) ==
    /\ os[h] = "zombie"
    /\ os' = [os EXCEPT ![h] = "reaped"]
    /\ waiters' = waiters \ {h}
    /\ UNCHANGED <<collected, p, lock, flagVars, dataVars, threadVars>>

(* ... or Stop's Process.Wait reaps it first: then cmd.Wait gets ECHILD    *)
(* and a nil state, and cmd.ProcessState is never set.                     *)
ReapByStop(h) ==
    /\ os[h] = "zombie" /\ h \in waiters
    /\ os' = [os EXCEPT ![h] = "stolen"]
    /\ waiters' = waiters \ {h}
    /\ UNCHANGED <<collected, p, lock, flagVars, dataVars, threadVars>>

(* Mutant of Finalize: the finalizer sends SIGTERM and leaves it at that. *)
Finalize_NoKill(h) ==
    /\ h # p /\ os[h] \in {"new", "alive"} /\ h \notin collected
    /\ collected' = IF os[h] = "alive" THEN collected ELSE collected \cup {h}
    /\ UNCHANGED <<os, waiters, p, lock, flagVars, dataVars, threadVars>>

(* A Process nobody points to any more is collected; its finalizer calls   *)
(* Stop, which ends a child that is running and does nothing to a Process  *)
(* that has not forked yet, whose child is then out of the panel's reach.  *)
Finalize(h) ==
    /\ h # p /\ os[h] \in {"new", "alive"} /\ h \notin collected
    /\ IF os[h] = "alive"
       THEN os' = [os EXCEPT ![h] = "killed"] /\ UNCHANGED collected
       ELSE collected' = collected \cup {h} /\ UNCHANGED os
    /\ UNCHANGED <<waiters, p, lock, flagVars, dataVars, threadVars>>

(* Bookkeeping of the model: the slot of a dead, dropped Process is reused. *)
Recycle(h) ==
    /\ h # p /\ os[h] \in {"reaped", "stolen", "failed"}
    /\ os' = [os EXCEPT ![h] = "free"]
    /\ collected' = collected \ {h}
    /\ UNCHANGED <<waiters, p, lock, flagVars, dataVars, threadVars>>

-----------------------------------------------------------------------------
Outside(t) ==
    \/ \E m \in Mode : Request(t, m)
    \/ CheckRunning(t) \/ CheckManual(t) \/ TakeRequest(t)
    \/ \E u \in Users : PushEdit(t, u)
    \/ CommitEdit(t) \/ SetToNeedRestart(t)

Locked(t) ==
    \/ AcquireStop(t) \/ AcquireRestart(t)
    \/ Build(t) \/ BuildFails(t) \/ Decide(t)
    \/ Signal(t) \/ Stopped(t) \/ StopTimeout(t)
    \/ \E h \in Procs : Launch(t, h) \/ LaunchFails(t, h)
    \/ Version(t) \/ Return(t)

System(h) ==
    \/ Fork(h) \/ ForkFails(h) \/ Exit(h)
    \/ ReapByRun(h) \/ ReapByStop(h) \/ Finalize(h) \/ Recycle(h)

Next == \/ \E t \in Threads : Outside(t) \/ Locked(t)
        \/ \E h \in Procs : System(h)

Spec == Init /\ [][Next]_vars

(* Fairness. The cron ticks recur and a goroutine that can run does; users *)
(* need not do anything, children need not crash. The mutex is starvation- *)
(* free (sync.Mutex), hence SF for its acquisition. The children's exit is *)
(* certain only after SIGKILL. GetXrayConfig, the write of the file and    *)
(* the fork may fail any number of times, but not for ever: SF.            *)
Fairness ==
    /\ \A t \in CrashTicks : WF_vars(CheckRunning(t) \/ CheckManual(t))
    /\ \A t \in RestartTicks : WF_vars(TakeRequest(t))
    /\ \A t \in Handlers : WF_vars(CommitEdit(t) \/ SetToNeedRestart(t))
    /\ \A t \in Panels \cup CrashTicks \cup RestartTicks :
         /\ WF_vars(Locked(t))
         /\ SF_vars(AcquireStop(t) \/ AcquireRestart(t))
         /\ SF_vars(Build(t))
         /\ SF_vars(\E h \in Procs : Launch(t, h))
    /\ \A h \in Procs :
         /\ WF_vars(Fork(h) \/ ForkFails(h)) /\ SF_vars(Fork(h))
         /\ WF_vars((os[h] = "killed" /\ Exit(h)) \/ ReapByRun(h) \/ ReapByStop(h)
                      \/ Finalize(h) \/ Recycle(h))

FairSpec == Spec /\ Fairness

-----------------------------------------------------------------------------
(* Properties.                                                             *)

(* However StopXray, RestartXray and the cron ticks interleave, and even   *)
(* when a child ignores SIGTERM, two children never serve at once and none *)
(* is replaced while it serves: the supervisor implements Worker.          *)
W == INSTANCE Worker WITH serving <- Serving
OneXray == W!Spec

(* StopXray keeps its promise to whoever called it: once it has released   *)
(* the lock no child serves, until RestartXray clears the flag again.      *)
StopHolds == manual /\ lock = NoThread => Serving = {}

(* Xray that crashed comes back without anybody's help, unless somebody    *)
(* stops it by hand meanwhile: the point of CheckXrayRunningJob.           *)
CrashRecovered == DidXrayCrash ~> (Serving # {} \/ manual)

(* If a fork comes after Start has returned and p has moved on, the panel  *)
(* has lost sight of a serving child. The finalizer stops it in the end    *)
(* (unless it ran before the fork).                                        *)
OrphansStopped == \A h \in Procs :
    h # p /\ os[h] = "alive" /\ h \notin collected ~> os[h] # "alive"

(* Every StopXray and RestartXray returns, although all of them queue on   *)
(* one lock and the holder may wait for a child that ignores SIGTERM. An   *)
(* orphan beyond the finalizer's reach keeps its slot for good, and the    *)
(* model has too few of them to launch in then: that case is left out.     *)
EveryCallReturns == \A t \in Threads :
    pc[t] = "acquire" ~> (pc[t] = "idle" \/ collected # {})

(* xray.go:36: IsXrayRunning tells whether Xray is running. Once the child *)
(* is gone and reaped and no call is under way, it should say no.          *)
RunningIsTrue == lock = NoThread /\ p # NoProc /\ os[p] \in {"reaped", "stolen"}
                     => ~IsRunning(p)
=============================================================================
