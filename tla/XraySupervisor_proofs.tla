----------------------- MODULE XraySupervisor_proofs -----------------------
(***************************************************************************)
(* For any number of goroutines, clients and process slots: the types of   *)
(* XraySupervisor, the inductive invariant behind its safety properties,   *)
(* and the refinement of Worker. The two safety theorems assume that a     *)
(* fork is never late (~LateSpawn): that is when they hold.                *)
(***************************************************************************)
EXTENDS XraySupervisor, TLAPS

(* No child serves, and none is about to without a new Start. *)
Quiet == \A h \in Procs : os[h] \notin {"new", "alive"}

(* The lock is held by the one thread in its critical section. *)
LockInv == \A t \in Threads : pc[t] \in Critical <=> lock = t

(* Only the child of p may serve; only a Start still under way has not     *)
(* forked yet.                                                             *)
ProcInv ==
    /\ \A h \in Procs : os[h] \in {"new", "alive"} => h = p
    /\ \A h \in Procs : os[h] = "new" => \E t \in Threads : pc[t] = "version"

(* RestartXray reaches its launch, and StopXray its return, only when      *)
(* nothing serves; StopXray never launches.                                *)
StepInv == \A t \in Threads :
    /\ pc[t] = "launch" => Quiet
    /\ pc[t] = "return" /\ mode[t] = "stop" => Quiet
    /\ pc[t] \in {"build", "decide", "launch", "version"} => mode[t] # "stop"

(* The manual flag speaks of the last critical section. *)
ManualInv ==
    /\ manual /\ lock = NoThread => Quiet
    /\ \A t \in Threads : manual /\ lock = t => mode[t] = "stop"

IInv == TypeOK /\ LockInv /\ ProcInv /\ StepInv /\ ManualInv

-----------------------------------------------------------------------------
LEMMA InitType == Init => TypeOK
  <1> SUFFICES ASSUME Init PROVE TypeOK
    OBVIOUS
  <1>1. pc \in [Threads -> PcState]
    BY DEF Init, PcState
  <1>2. mode \in [Threads -> Mode]
    BY DEF Init, Mode
  <1>3. edit \in [Handlers -> Edit]
    BY DEF Init
  <1>4. os \in [Procs -> OsState]
    BY DEF Init, OsState
  <1>5. /\ waiters = {} /\ collected = {} /\ p = NoProc /\ lock = NoThread
        /\ need = FALSE /\ manual = FALSE /\ checkTime = 0
        /\ db \in SUBSET Users /\ cfg = {} /\ users = {} /\ built = {}
    BY DEF Init
  <1>6. need \in BOOLEAN /\ manual \in BOOLEAN
    BY <1>5
  <1>7. checkTime \in 0..2
    BY <1>5
  <1>8. /\ waiters \subseteq Procs /\ collected \subseteq Procs
        /\ p \in Procs \cup {NoProc} /\ lock \in Threads \cup {NoThread}
        /\ cfg \subseteq Users /\ users \subseteq Users
        /\ db \subseteq Users /\ built \subseteq Users
    BY <1>5
  <1>9. QED
    BY <1>1, <1>2, <1>3, <1>4, <1>6, <1>7, <1>8 DEF TypeOK

(* What the steps outside the lock, under it and of the system do to types. *)
LEMMA OutsideType ==
  ASSUME TypeOK, NEW t \in Threads, Outside(t) PROVE TypeOK'
  <1> USE DEF TypeOK, Goto, procVars, flagVars, dataVars, OsState, PcState, Critical, Mode
  <1>1. ASSUME NEW m \in Mode, Request(t, m) PROVE TypeOK'
    BY <1>1 DEF Request
  <1>2. CASE CheckRunning(t)
    BY <1>2 DEF CheckRunning
  <1>3. CASE CheckManual(t)
    BY <1>3 DEF CheckManual
  <1>4. CASE TakeRequest(t)
    BY <1>4 DEF TakeRequest
  <1>5. ASSUME NEW u \in Users, PushEdit(t, u) PROVE TypeOK'
    BY <1>5 DEF PushEdit, Edit
  <1>6. CASE CommitEdit(t)
    <2>1. edit[t] \in Edit
      BY <1>6 DEF CommitEdit
    <2>2. db' \subseteq Users
      BY <1>6, <2>1 DEF CommitEdit, Edit
    <2>3. edit' \in [Handlers -> Edit]
      BY <1>6, <2>1 DEF CommitEdit, Edit
    <2>4. QED
      BY <1>6, <2>2, <2>3 DEF CommitEdit
  <1>7. CASE SetToNeedRestart(t)
    BY <1>7 DEF SetToNeedRestart
  <1>8. QED
    BY <1>1, <1>2, <1>3, <1>4, <1>5, <1>6, <1>7 DEF Outside

LEMMA LockedType ==
  ASSUME TypeOK, NEW t \in Threads, Locked(t) PROVE TypeOK'
  <1> USE DEF TypeOK, Goto, AfterStop, IsRunning, procVars, flagVars, dataVars,
              OsState, PcState, Critical, Mode
  <1>1. CASE AcquireStop(t)
    BY <1>1 DEF AcquireStop
  <1>2. CASE AcquireRestart(t)
    BY <1>2 DEF AcquireRestart
  <1>3. CASE Build(t)
    BY <1>3 DEF Build
  <1>4. CASE BuildFails(t)
    BY <1>4 DEF BuildFails
  <1>5. CASE Decide(t)
    BY <1>5 DEF Decide
  <1>6. CASE Signal(t)
    BY <1>6, ProcsAssumption DEF Signal
  <1>7. CASE Stopped(t)
    BY <1>7 DEF Stopped
  <1>8. CASE StopTimeout(t)
    BY <1>8 DEF StopTimeout
  <1>9. ASSUME NEW h \in Procs, Launch(t, h) \/ LaunchFails(t, h) PROVE TypeOK'
    BY <1>9 DEF Launch, LaunchFails
  <1>10. CASE Version(t)
    BY <1>10 DEF Version
  <1>11. CASE Return(t)
    BY <1>11 DEF Return
  <1>12. QED
    BY <1>1, <1>2, <1>3, <1>4, <1>5, <1>6, <1>7, <1>8, <1>9, <1>10, <1>11 DEF Locked

LEMMA SystemType ==
  ASSUME TypeOK, NEW h \in Procs, System(h) PROVE TypeOK'
  BY DEF System, Fork, ForkFails, Exit, ReapByRun, ReapByStop, Finalize, Recycle,
         TypeOK, OsState, flagVars, dataVars, threadVars

LEMMA NextType == TypeOK /\ [Next]_vars => TypeOK'
  <1>1. CASE UNCHANGED vars
    BY <1>1 DEF TypeOK, vars, procVars, flagVars, dataVars, threadVars
  <1>2. QED
    BY <1>1, OutsideType, LockedType, SystemType DEF Next

(* Every variable stays in its type, whatever the constants. *)
THEOREM TypeCorrect == Spec => []TypeOK
  BY InitType, NextType, PTL DEF Spec
-----------------------------------------------------------------------------
LEMMA InitInv == Init => IInv
  <1> SUFFICES ASSUME Init PROVE IInv
    OBVIOUS
  <1>1. \A t \in Threads : pc[t] \in {"idle", "acquire"}
    BY DEF Init
  <1>2. LockInv
    BY <1>1, ThreadsAssumption DEF Init, LockInv, Critical
  <1>3. ProcInv /\ StepInv /\ ManualInv
    BY <1>1 DEF Init, ProcInv, StepInv, ManualInv, Quiet
  <1>4. QED
    BY <1>2, <1>3, InitType DEF IInv

(* When a thread other than a Start under way holds the lock, or nobody    *)
(* does, no fork is pending; if p does not run either, nothing serves.     *)
LEMMA NoForkPending ==
  ASSUME TypeOK, LockInv, ProcInv,
         lock = NoThread \/ \E t \in Threads : lock = t /\ pc[t] # "version"
  PROVE  /\ \A h \in Procs : os[h] # "new"
         /\ ~IsRunning(p) \/ os[p] \in {"killed", "zombie", "reaped", "stolen"} => Quiet
  <1>1. \A t \in Threads : pc[t] # "version"
    BY ThreadsAssumption DEF LockInv, Critical
  <1>2. QED
    BY <1>1, ProcsAssumption DEF ProcInv, Quiet, IsRunning

LEMMA OutsideInv ==
  ASSUME IInv, NEW t \in Threads, Outside(t) PROVE IInv'
  <1>1. TypeOK'
    BY OutsideType DEF IInv
  <1>2. /\ UNCHANGED <<os, p, lock, manual>>
        /\ lock # t
        /\ \A x \in Threads : x # t => pc'[x] = pc[x] /\ mode'[x] = mode[x]
        /\ pc[t] \notin Critical /\ pc'[t] \notin Critical
    BY ThreadsAssumption
       DEF IInv, TypeOK, LockInv, Outside, Request, CheckRunning, CheckManual, TakeRequest,
           PushEdit, CommitEdit, SetToNeedRestart, Goto, Critical, procVars, flagVars, dataVars
  <1>3. LockInv'
    BY <1>2 DEF IInv, LockInv
  <1>4. ProcInv'
    BY <1>2 DEF IInv, ProcInv, Critical
  <1>5. StepInv'
    BY <1>2 DEF IInv, StepInv, Quiet, Critical
  <1>6. ManualInv'
    BY <1>2 DEF IInv, ManualInv, Quiet
  <1>7. QED
    BY <1>1, <1>3, <1>4, <1>5, <1>6 DEF IInv

LEMMA LockedInv ==
  ASSUME IInv, ~LateSpawn, NEW t \in Threads, Locked(t) PROVE IInv'
  <1>1. TypeOK'
    BY LockedType DEF IInv
  <1> USE DEF IInv, LockInv, ProcInv, StepInv, ManualInv, Quiet, TypeOK,
              Goto, AfterStop, Critical, procVars, flagVars, dataVars
  <1>2. CASE AcquireStop(t)
    <2>1. ~IsRunning(p) => Quiet
      BY <1>2, NoForkPending DEF AcquireStop
    <2>2. QED
      BY <1>1, <1>2, <2>1, ThreadsAssumption DEF AcquireStop
  <1>3. CASE AcquireRestart(t)
    BY <1>1, <1>3, ThreadsAssumption DEF AcquireRestart
  <1>4. CASE Build(t) \/ BuildFails(t)
    BY <1>1, <1>4, ThreadsAssumption DEF Build, BuildFails
  <1>5. CASE Decide(t)
    <2>1. ~IsRunning(p) => Quiet
      BY <1>5, NoForkPending DEF Decide
    <2>2. QED
      BY <1>1, <1>5, <2>1, ThreadsAssumption DEF Decide
  <1>6. CASE Signal(t)
    <2>1. ~IsRunning(p) \/ os[p] = "stolen" => Quiet
      BY <1>6, NoForkPending DEF Signal
    <2>2. QED
      BY <1>1, <1>6, <2>1, ThreadsAssumption DEF Signal
  <1>7. CASE Stopped(t)
    <2>1. Quiet
      BY <1>7, NoForkPending DEF Stopped
    <2>2. QED
      BY <1>1, <1>7, <2>1, ThreadsAssumption DEF Stopped
  <1>8. CASE StopTimeout(t)
    <2>1. \A h \in Procs : os'[h] \notin {"new", "alive"}
      BY <1>8, NoForkPending DEF StopTimeout
    <2>2. QED
      BY <1>1, <1>8, <2>1, ThreadsAssumption DEF StopTimeout
  <1>9. ASSUME NEW h \in Procs, Launch(t, h) \/ LaunchFails(t, h) PROVE IInv'
    <2>1. Quiet /\ lock = t /\ mode[t] # "stop"
      BY <1>9 DEF Launch, LaunchFails
    <2>2. /\ \A x \in Procs : x # h => os'[x] \notin {"new", "alive"}
          /\ os'[h] = "new" => pc'[t] = "version"
          /\ os'[h] # "alive" /\ p' = h
      BY <1>9, <2>1 DEF Launch, LaunchFails
    <2>3. /\ UNCHANGED <<lock, manual, mode>>
          /\ pc'[t] \in {"version", "return"}
          /\ \A x \in Threads : x # t => pc'[x] = pc[x]
      BY <1>9 DEF Launch, LaunchFails
    <2>4. LockInv' /\ ProcInv'
      BY <2>1, <2>2, <2>3
    <2>5. StepInv' /\ ManualInv'
      BY <2>1, <2>3, ThreadsAssumption
    <2>6. QED
      BY <1>1, <2>4, <2>5
  <1>10. CASE Version(t)
    BY <1>1, <1>10, ThreadsAssumption DEF Version
  <1>11. CASE Return(t)
    <2>1. manual => Quiet
      BY <1>11 DEF Return
    <2>2. QED
      BY <1>1, <1>11, <2>1, ThreadsAssumption DEF Return
  <1>12. QED
    BY <1>2, <1>3, <1>4, <1>5, <1>6, <1>7, <1>8, <1>9, <1>10, <1>11 DEF Locked

LEMMA SystemInv ==
  ASSUME IInv, NEW h \in Procs, System(h) PROVE IInv'
  <1>1. TypeOK'
    BY SystemType DEF IInv
  <1>2. /\ UNCHANGED <<p, lock, manual, pc, mode>>
        /\ \A x \in Procs : x # h => os'[x] = os[x]
        /\ os'[h] # "new" \/ os[h] = "new"
        /\ os'[h] = "alive" => os[h] \in {"new", "alive"}
    BY DEF System, Fork, ForkFails, Exit, ReapByRun, ReapByStop, Finalize, Recycle,
           IInv, TypeOK, flagVars, dataVars, threadVars
  <1>3. LockInv'
    BY <1>2 DEF IInv, LockInv
  <1>4. Quiet => Quiet'
    BY <1>2 DEF Quiet
  <1>5. ProcInv'
    BY <1>2 DEF IInv, ProcInv
  <1>6. StepInv' /\ ManualInv'
    BY <1>2, <1>4 DEF IInv, StepInv, ManualInv
  <1>7. QED
    BY <1>1, <1>3, <1>5, <1>6 DEF IInv

LEMMA NextInv == ~LateSpawn /\ IInv /\ [Next]_vars => IInv'
  <1>1. CASE UNCHANGED vars
    <2>1. UNCHANGED <<os, p, lock, manual, pc, mode>>
      BY <1>1 DEF vars, procVars, flagVars, threadVars
    <2>2. IInv => LockInv' /\ ProcInv' /\ StepInv' /\ ManualInv'
      BY <2>1 DEF IInv, LockInv, ProcInv, StepInv, ManualInv, Quiet
    <2>3. QED
      BY <1>1, <2>2, NextType DEF IInv
  <1>2. QED
    BY <1>1, OutsideInv, LockedInv, SystemInv DEF Next

LEMMA InvCorrect == ASSUME ~LateSpawn PROVE Spec => []IInv
  BY InitInv, NextInv, PTL DEF Spec

(* Once StopXray has returned, nothing serves until a restart is asked for.*)
THEOREM StopHoldsAlways == ASSUME ~LateSpawn PROVE Spec => []StopHolds
  <1>1. IInv => StopHolds
    BY DEF IInv, ManualInv, StopHolds, Quiet, Serving
  <1>2. QED
    BY <1>1, InvCorrect, PTL

-----------------------------------------------------------------------------
(* How each step shows in Worker: a fork is an Up, an exit or the SIGKILL  *)
(* of the serving child a Down, everything else a stutter.                 *)
LEMMA ServingStep ==
  ASSUME IInv, IInv', Next PROVE W!Next \/ UNCHANGED Serving
  <1>1. \A h \in Procs : h \in Serving => Serving = {h} /\ h = p
    BY DEF IInv, ProcInv, Serving
  <1>2. ASSUME NEW t \in Threads, Outside(t) PROVE UNCHANGED Serving
    BY <1>2 DEF Outside, Request, CheckRunning, CheckManual, TakeRequest, PushEdit,
                CommitEdit, SetToNeedRestart, Serving, procVars
  <1>3. ASSUME NEW t \in Threads, Locked(t) PROVE W!Next \/ UNCHANGED Serving
    <2>1. CASE StopTimeout(t)
      <3>1. CASE os[p] = "alive" /\ p \in Procs
        <4>1. Serving = {p} /\ Serving' = {}
          BY <2>1, <3>1, <1>1 DEF StopTimeout, Serving, IInv, TypeOK
        <4>2. QED
          BY <3>1, <4>1 DEF W!Next, W!Down
      <3>2. CASE ~(os[p] = "alive" /\ p \in Procs)
        BY <2>1, <3>2 DEF StopTimeout, Serving, IInv, TypeOK
      <3>3. QED
        BY <3>1, <3>2
    <2>2. ASSUME NEW h \in Procs, Launch(t, h) \/ LaunchFails(t, h)
          PROVE  UNCHANGED Serving
      BY <2>2 DEF Launch, LaunchFails, Serving, IInv, TypeOK
    <2>3. CASE UNCHANGED os
      BY <2>3 DEF Serving
    <2>4. QED
      BY <1>3, <2>1, <2>2, <2>3
         DEF Locked, AcquireStop, AcquireRestart, Build, BuildFails, Decide, Signal,
             Stopped, Version, Return, procVars
  <1>4. ASSUME NEW h \in Procs, System(h) PROVE W!Next \/ UNCHANGED Serving
    <2>1. CASE Fork(h)
      <3>1. Serving = {} /\ Serving' = {h}
        BY <2>1, <1>1 DEF Fork, Serving, IInv, TypeOK, ProcInv
      <3>2. QED
        BY <3>1 DEF W!Next, W!Up
    <2>2. CASE Exit(h)
      <3>1. CASE h \in Serving
        <4>1. Serving = {h} /\ Serving' = {}
          BY <2>2, <3>1, <1>1 DEF Exit, Serving, IInv, TypeOK
        <4>2. QED
          BY <4>1 DEF W!Next, W!Down
      <3>2. CASE h \notin Serving
        BY <2>2, <3>2 DEF Exit, Serving, IInv, TypeOK
      <3>3. QED
        BY <3>1, <3>2
    <2>3. CASE Finalize(h)
      BY <2>3 DEF Finalize, Serving, IInv, TypeOK, ProcInv
    <2>4. CASE ForkFails(h) \/ ReapByRun(h) \/ ReapByStop(h) \/ Recycle(h)
      BY <2>4 DEF ForkFails, ReapByRun, ReapByStop, Recycle, Serving, IInv, TypeOK
    <2>5. QED
      BY <1>4, <2>1, <2>2, <2>3, <2>4 DEF System
  <1>5. QED
    BY <1>2, <1>3, <1>4 DEF Next

(* The supervisor implements Worker: never two Xray processes serving.     *)
THEOREM ImplementsWorker == ASSUME ~LateSpawn PROVE Spec => OneXray
  <1>1. Init => W!Init
    BY DEF Init, W!Init, Serving
  <1>2. IInv /\ IInv' /\ [Next]_vars => [W!Next]_Serving
    <2>1. UNCHANGED vars => UNCHANGED Serving
      BY DEF vars, procVars, Serving
    <2>2. QED
      BY <2>1, ServingStep
  <1>3. QED
    BY <1>1, <1>2, InvCorrect, PTL DEF Spec, OneXray, W!Spec
=============================================================================
