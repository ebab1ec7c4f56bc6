------------------------- MODULE ClientSync_proofs -------------------------
(***************************************************************************)
(* For any number of clients: the types of ClientSync with any number of   *)
(* handlers, and, with one handler at a time,                              *)
(*                                                                         *)
(*   PairedAlways   settings and traffic rows stay paired,                 *)
(*   OwnClientsAlways   no save touches another client,                    *)
(*   NoGhostEver    Xray lets nobody in whom the database excludes, while  *)
(*                  clients run out and are disabled, as long as nobody    *)
(*                  renews and nothing asks for a restart, and             *)
(*   NoLockoutEver  Xray lets in everybody the database admits, restarts   *)
(*                  and deaths of the panel included, as long as nobody    *)
(*                  runs out.                                              *)
(*                                                                         *)
(* All but the types have premises that the code does not meet by itself   *)
(* (README, section 5).  The last two are not inductive: both speak of     *)
(* quiet moments, and what must hold at the places in between is which     *)
(* clients Xray has already been told of and the tables have not, or the   *)
(* other way round.                                                        *)
(***************************************************************************)
EXTENDS ClientSync, TLAPS

(* A handler's arguments are clients where it uses them. *)
ArgInv == \A h \in Handlers :
    /\ pc[h] \in {"add.push", "add.save", "del.stat", "del.push", "del.save",
                  "reset.push", "reset.save"} => job[h].c \in E
    /\ pc[h] \in {"edit.push", "edit.save"} => job[h].c \in E /\ job[h].d \in E

TypeInv == TypeOK /\ ArgInv

-----------------------------------------------------------------------------
LEMMA NoneTyped ==
  /\ NoRow \in Row /\ NoJob \in Job /\ NoBatch \in Batch /\ NoConfig \in Config
  <1>1. NoRow \in Row
    BY DEF NoRow, Row, Mark
  <1>2. NoJob \in Job
    BY <1>1 DEF NoJob, Job
  <1>3. NoBatch \in Batch
    BY DEF NoBatch, Batch
  <1>4. NoConfig \in Config
    BY DEF NoConfig, Config
  <1>5. QED
    BY <1>1, <1>2, <1>3, <1>4

LEMMA ConfigTyped == ASSUME row \in Row PROVE DbConfig \in Config
  BY DEF DbConfig, Config, Admitted, Row

LEMMA InitType == Init => TypeInv
  <1> SUFFICES ASSUME Init PROVE TypeInv
    OBVIOUS
  <1>1. row \in Row
    BY DEF Init
  <1>2. stat \in [E -> Mark]
    BY DEF Init, Mark
  <1>3. due = {} /\ over = FALSE /\ need = FALSE /\ writer = Nobody
    BY DEF Init
  <1>4. cfg \in Config
    BY <1>1, ConfigTyped DEF Init
  <1>5. live \in [up : BOOLEAN, inb : BOOLEAN, users : SUBSET E]
    BY <1>4 DEF Init, Config
  <1>6. \A t \in Threads : pc[t] = "idle"
    BY DEF Init
  <1>7. pc \in [Threads -> HandlerPc \cup JobPc]
    BY DEF Init, HandlerPc, JobPc
  <1>8. /\ \A h \in Handlers : pc[h] \in HandlerPc
        /\ \A t \in Jobs : pc[t] \in JobPc
    BY <1>6 DEF Threads, HandlerPc, JobPc
  <1>9. \A t \in Threads : writer = t <=> pc[t] \in Writing
    BY <1>3, <1>6, NamesAssumption DEF Writing
  <1>10. job \in [Handlers -> Job] /\ batch \in [Jobs -> Batch]
    BY NoneTyped DEF Init
  <1>11. built \in [config : Config, force : BOOLEAN]
    BY NoneTyped DEF Init
  <1>12. ArgInv
    BY <1>6 DEF ArgInv, Threads
  <1>13. over \in BOOLEAN /\ need \in BOOLEAN /\ proc \in {"nil", "zero", "set"} /\ cut \subseteq E
    BY <1>3 DEF Init
  <1>14. QED
    BY <1>1, <1>2, <1>3, <1>4, <1>5, <1>7, <1>8, <1>9, <1>10, <1>11, <1>12,
       <1>13 DEF TypeInv, TypeOK

(* A thread that goes from one place to the next keeps the other threads,  *)
(* and the lock, in order.                                                 *)
LEMMA PcTyped ==
  ASSUME TypeOK, NEW t \in Threads, NEW l, Goto(t, l),
         t \in Handlers => l \in HandlerPc, t \in Jobs => l \in JobPc,
         IF l \in Writing THEN writer' = t /\ (writer = Nobody \/ writer = t)
         ELSE IF pc[t] \in Writing THEN writer' = Nobody ELSE writer' = writer
  PROVE  /\ pc' \in [Threads -> HandlerPc \cup JobPc]
         /\ \A h \in Handlers : pc'[h] \in HandlerPc
         /\ \A s \in Jobs : pc'[s] \in JobPc
         /\ writer' \in Threads \cup {Nobody}
         /\ \A s \in Threads : writer' = s <=> pc'[s] \in Writing
  <1>1. /\ pc \in [Threads -> HandlerPc \cup JobPc]
        /\ \A h \in Handlers : pc[h] \in HandlerPc
        /\ \A s \in Jobs : pc[s] \in JobPc
        /\ writer \in Threads \cup {Nobody}
        /\ \A s \in Threads : writer = s <=> pc[s] \in Writing
    BY DEF TypeOK
  <1>2. \A s \in Threads : pc'[s] = IF s = t THEN l ELSE pc[s]
    BY <1>1 DEF Goto
  <1>3. pc' \in [Threads -> HandlerPc \cup JobPc]
    BY <1>1 DEF Goto, Threads
  <1>4. /\ \A h \in Handlers : pc'[h] \in HandlerPc
        /\ \A s \in Jobs : pc'[s] \in JobPc
    BY <1>1, <1>2 DEF Threads
  <1>5. writer' \in Threads \cup {Nobody}
    BY <1>1
  <1>6. \A s \in Threads : writer' = s <=> pc'[s] \in Writing
    BY <1>1, <1>2, NamesAssumption
  <1>7. QED
    BY <1>3, <1>4, <1>5, <1>6
-----------------------------------------------------------------------------
(* The conjuncts of TypeOK about data, and one lemma per kind of update.   *)
DataOK ==
    /\ row \in Row /\ stat \in [E -> Mark]
    /\ due \subseteq {e \in E : stat[e] # "none"} /\ over \in BOOLEAN
    /\ live \in [up : BOOLEAN, inb : BOOLEAN, users : SUBSET E]
    /\ cfg \in Config /\ need \in BOOLEAN
    /\ job \in [Handlers -> Job]
    /\ batch \in [Jobs -> Batch]
    /\ built \in [config : Config, force : BOOLEAN]
    /\ proc \in {"nil", "zero", "set"} /\ cut \subseteq E

LEMMA TypeData == TypeOK => DataOK
  BY DEF TypeOK, DataOK

(* The step of handler h to l, under or outside the write lock. *)
HandlerStep(h, l) ==
    /\ Goto(h, l) /\ l \in HandlerPc
    /\ IF l \in Writing THEN writer' = h /\ (writer = Nobody \/ writer = h)
       ELSE IF pc[h] \in Writing THEN writer' = Nobody ELSE writer' = writer
    /\ \A g \in Handlers : g # h => job'[g] = job[g]
    /\ l \in {"add.push", "add.save", "del.stat", "del.push", "del.save",
              "reset.push", "reset.save"} => job'[h].c \in E
    /\ l \in {"edit.push", "edit.save"} => job'[h].c \in E /\ job'[h].d \in E

LEMMA HandlerStepType ==
  ASSUME TypeInv, NEW h \in Handlers, NEW l, HandlerStep(h, l), DataOK'
  PROVE  TypeInv'
  <1>1. h \in Threads /\ h \notin Jobs
    BY NamesAssumption DEF Threads
  <1>2. /\ pc' \in [Threads -> HandlerPc \cup JobPc]
        /\ \A g \in Handlers : pc'[g] \in HandlerPc
        /\ \A s \in Jobs : pc'[s] \in JobPc
        /\ writer' \in Threads \cup {Nobody}
        /\ \A s \in Threads : writer' = s <=> pc'[s] \in Writing
    BY <1>1, PcTyped DEF HandlerStep, TypeInv
  <1>3. TypeOK'
    BY <1>2 DEF TypeOK, DataOK
  <1>4. \A g \in Handlers : pc'[g] = IF g = h THEN l ELSE pc[g]
    BY <1>1 DEF HandlerStep, Goto, TypeInv, TypeOK, Threads
  <1>5. ArgInv'
    BY <1>4 DEF ArgInv, HandlerStep, TypeInv
  <1>6. QED
    BY <1>3, <1>5 DEF TypeInv

LEMMA RememberTyped ==
  ASSUME job \in [Handlers -> Job], NEW h \in Handlers, NEW j \in Job, NEW l,
         Remember(h, j, l)
  PROVE  /\ job' \in [Handlers -> Job] /\ job'[h] = j /\ Goto(h, l)
         /\ \A g \in Handlers : g # h => job'[g] = job[g]
  BY DEF Remember

LEMMA FinishTyped ==
  ASSUME DataOK, NEW h \in Handlers, NEW r \in BOOLEAN, Finish(h, r)
  PROVE  /\ job' \in [Handlers -> Job] /\ need' \in BOOLEAN /\ Goto(h, "idle")
         /\ \A g \in Handlers : g # h => job'[g] = job[g]
  <1>1. NoJob \in Job
    BY NoneTyped
  <1>2. need' \in BOOLEAN
    BY DEF Finish, DataOK
  <1>3. job' \in [Handlers -> Job] /\ \A g \in Handlers : g # h => job'[g] = job[g]
    BY <1>1 DEF Finish, DataOK
  <1>4. QED
    BY <1>2, <1>3 DEF Finish

LEMMA FlagTyped ==
  ASSUME NEW j \in Job, NEW f \in BOOLEAN
  PROVE  /\ [j EXCEPT !.flag = f] \in Job
         /\ [j EXCEPT !.flag = f].c = j.c /\ [j EXCEPT !.flag = f].d = j.d
         /\ [j EXCEPT !.flag = f].snap = j.snap
  BY DEF Job

LEMMA SetTyped ==
  ASSUME NEW r \in Row, NEW c \in E, NEW m \in Mark
  PROVE  /\ [r EXCEPT !.set[c] = m] \in Row
         /\ [r EXCEPT !.set[c] = m].set = [r.set EXCEPT ![c] = m]
         /\ [r EXCEPT !.set[c] = m].there = r.there
         /\ [r EXCEPT !.set[c] = m].enable = r.enable
  BY DEF Row

LEMMA MarkTyped == ASSUME NEW b PROVE MarkOf(b) \in Mark /\ MarkOf(b) # "none"
  BY DEF MarkOf, Mark

LEMMA StatsTyped ==
  ASSUME DataOK, NEW S
  PROVE  /\ WithStats(S) \in [E -> Mark]
         /\ \A e \in E : WithStats(S)[e] # "none" <=> stat[e] # "none" \/ e \in S
  BY DEF WithStats, DataOK, Mark

LEMMA LiveTyped ==
  ASSUME DataOK, NEW S \in SUBSET E
  PROVE  /\ [live EXCEPT !.users = @ \cup S] \in [up : BOOLEAN, inb : BOOLEAN, users : SUBSET E]
         /\ [live EXCEPT !.users = @ \ S] \in [up : BOOLEAN, inb : BOOLEAN, users : SUBSET E]
  BY DEF DataOK

LEMMA RenamedTyped ==
  ASSUME DataOK, NEW c \in E, NEW d \in E
  PROVE  /\ Renamed(c, d) \in [E -> Mark]
         /\ \A S \in NewLimits(c, d) : S \subseteq {e \in E : Renamed(c, d)[e] # "none"}
  BY DEF Renamed, NewLimits, DataOK, Mark
-----------------------------------------------------------------------------
(* One handler's steps.                                                    *)
LEMMA AddType ==
  ASSUME TypeInv, NEW h \in Handlers PROVE
    /\ \A c \in E, en \in BOOLEAN : AddRead(h, c, en) => TypeInv'
    /\ AddPush(h) => TypeInv'
    /\ AddCommit(h) => TypeInv'
  <1> USE DEF dbVars, xrayVars
  <1>d. DataOK /\ job[h] \in Job
    BY TypeData DEF TypeInv, DataOK
  <1>1. ASSUME NEW c \in E, NEW en \in BOOLEAN, AddRead(h, c, en) PROVE TypeInv'
    <2> DEFINE j == [NoJob EXCEPT !.c = c, !.en = en, !.snap = row]
    <2>1. j \in Job /\ j.c = c
      BY <1>d, NoneTyped DEF Job, DataOK
    <2>2. Remember(h, j, "add.push")
      BY <1>1 DEF AddRead
    <2> HIDE DEF j
    <2>3. /\ job' \in [Handlers -> Job] /\ job'[h] = j /\ Goto(h, "add.push")
          /\ \A g \in Handlers : g # h => job'[g] = job[g]
      BY <1>d, <2>1, <2>2, RememberTyped DEF DataOK
    <2>4. DataOK'
      BY <1>1, <1>d, <2>3 DEF DataOK, AddRead
    <2>5. HandlerStep(h, "add.push")
      BY <1>1, <2>1, <2>3 DEF HandlerStep, AddRead, MayBegin, HandlerPc, Writing
    <2>6. QED
      BY <2>4, <2>5, HandlerStepType
  <1>2. ASSUME AddPush(h) PROVE TypeInv'
    <2>1. job[h].c \in E
      BY <1>2 DEF AddPush, TypeInv, ArgInv
    <2>2. PICK j \in Job : /\ Remember(h, j, "add.save") /\ j.c = job[h].c
                          /\ live' \in [up : BOOLEAN, inb : BOOLEAN, users : SUBSET E]
      <3>1. CASE job[h].en
        <4>1. PICK ok \in BOOLEAN : /\ AddUser(job[h].c, ok)
                                   /\ Remember(h, [job[h] EXCEPT !.flag = ~ok], "add.save")
          BY <1>2, <3>1 DEF AddPush
        <4>2. live' \in [up : BOOLEAN, inb : BOOLEAN, users : SUBSET E]
          BY <1>d, <2>1, <4>1, LiveTyped DEF AddUser, LetIn
        <4>3. [job[h] EXCEPT !.flag = ~ok] \in Job /\ [job[h] EXCEPT !.flag = ~ok].c = job[h].c
          BY <1>d, FlagTyped
        <4>4. QED
          BY <4>1, <4>2, <4>3
      <3>2. CASE ~job[h].en
        BY <1>2, <1>d, <3>2 DEF AddPush, DataOK
      <3>3. QED
        BY <3>1, <3>2
    <2>3. /\ job' \in [Handlers -> Job] /\ job'[h] = j /\ Goto(h, "add.save")
          /\ \A g \in Handlers : g # h => job'[g] = job[g]
      BY <1>d, <2>2, RememberTyped DEF DataOK
    <2>4. DataOK'
      BY <1>2, <1>d, <2>2, <2>3 DEF DataOK, AddPush
    <2>5. HandlerStep(h, "add.save")
      BY <1>2, <2>1, <2>2, <2>3 DEF HandlerStep, AddPush, HandlerPc, Writing
    <2>6. QED
      BY <2>4, <2>5, HandlerStepType
  <1>3. ASSUME AddCommit(h) PROVE TypeInv'
    <2>1. job[h].c \in E /\ job[h].snap \in Row /\ job[h].flag \in BOOLEAN
      BY <1>3, <1>d DEF AddCommit, TypeInv, ArgInv, Job
    <2>2. row' \in Row
      BY <1>3, <2>1, SetTyped, MarkTyped DEF AddCommit
    <2>3. stat' \in [E -> Mark] /\ due' \subseteq {e \in E : stat'[e] # "none"}
      BY <1>3, <1>d, StatsTyped DEF AddCommit, DataOK
    <2>4. /\ job' \in [Handlers -> Job] /\ need' \in BOOLEAN /\ Goto(h, "idle")
          /\ \A g \in Handlers : g # h => job'[g] = job[g]
      BY <1>3, <1>d, <2>1, FinishTyped DEF AddCommit
    <2>5. DataOK'
      BY <1>3, <1>d, <2>2, <2>3, <2>4 DEF DataOK, AddCommit
    <2>6. HandlerStep(h, "idle")
      BY <1>3, <2>4 DEF HandlerStep, AddCommit, HandlerPc, Writing
    <2>7. QED
      BY <2>5, <2>6, HandlerStepType
  <1>4. QED
    BY <1>1, <1>2, <1>3

LEMMA DelType ==
  ASSUME TypeInv, NEW h \in Handlers PROVE
    /\ \A c \in E : DelRead(h, c) => TypeInv'
    /\ DelStat(h) => TypeInv'
    /\ DelPush(h) => TypeInv'
    /\ DelSave(h) => TypeInv'
  <1> USE DEF dbVars, xrayVars
  <1>d. DataOK /\ job[h] \in Job
    BY TypeData DEF TypeInv, DataOK
  <1>1. ASSUME NEW c \in E, DelRead(h, c) PROVE TypeInv'
    <2> DEFINE j == [NoJob EXCEPT !.c = c, !.snap = row]
    <2>1. j \in Job /\ j.c = c
      BY <1>d, NoneTyped DEF Job, DataOK
    <2>2. Remember(h, j, "del.stat")
      BY <1>1 DEF DelRead
    <2> HIDE DEF j
    <2>3. /\ job' \in [Handlers -> Job] /\ job'[h] = j /\ Goto(h, "del.stat")
          /\ \A g \in Handlers : g # h => job'[g] = job[g]
      BY <1>d, <2>1, <2>2, RememberTyped DEF DataOK
    <2>4. DataOK'
      BY <1>1, <1>d, <2>3 DEF DataOK, DelRead
    <2>5. HandlerStep(h, "del.stat")
      BY <1>1, <2>1, <2>3 DEF HandlerStep, DelRead, MayBegin, HandlerPc, Writing
    <2>6. QED
      BY <2>4, <2>5, HandlerStepType
  <1>2. ASSUME DelStat(h) PROVE TypeInv'
    <2>1. job[h].c \in E
      BY <1>2 DEF DelStat, TypeInv, ArgInv
    <2>2. CASE stat[job[h].c] = "none"
      <3>1. /\ job' \in [Handlers -> Job] /\ need' \in BOOLEAN /\ Goto(h, "idle")
            /\ \A g \in Handlers : g # h => job'[g] = job[g]
        BY <1>2, <1>d, <2>2, FinishTyped DEF DelStat
      <3>2. DataOK'
        BY <1>2, <1>d, <2>2, <3>1 DEF DataOK, DelStat
      <3>3. HandlerStep(h, "idle")
        BY <1>2, <3>1 DEF HandlerStep, DelStat, HandlerPc, Writing
      <3>4. QED
        BY <3>2, <3>3, HandlerStepType
    <2>3. CASE stat[job[h].c] # "none"
      <3>1. PICK l \in {"del.push", "del.save"} : Goto(h, l)
        BY <1>2, <2>3 DEF DelStat
      <3>2. DataOK'
        BY <1>2, <1>d, <2>1, <2>3 DEF DataOK, DelStat, Mark
      <3>3. HandlerStep(h, l)
        BY <1>2, <2>1, <2>3, <3>1 DEF HandlerStep, DelStat, HandlerPc, Writing
      <3>4. QED
        BY <3>2, <3>3, HandlerStepType
    <2>4. QED
      BY <2>2, <2>3
  <1>3. ASSUME DelPush(h) PROVE TypeInv'
    <2>1. job[h].c \in E
      BY <1>3 DEF DelPush, TypeInv, ArgInv
    <2>2. PICK ok \in BOOLEAN : /\ RemoveUser(job[h].c, ok)
                               /\ Remember(h, [job[h] EXCEPT !.flag = ~ok], "del.save")
      BY <1>3 DEF DelPush
    <2>3. live' \in [up : BOOLEAN, inb : BOOLEAN, users : SUBSET E]
      BY <1>d, <2>1, <2>2, LiveTyped DEF RemoveUser, ShutOut
    <2>4. [job[h] EXCEPT !.flag = ~ok] \in Job /\ [job[h] EXCEPT !.flag = ~ok].c = job[h].c
      BY <1>d, FlagTyped
    <2>5. /\ job' \in [Handlers -> Job] /\ job'[h].c = job[h].c /\ Goto(h, "del.save")
          /\ \A g \in Handlers : g # h => job'[g] = job[g]
      BY <1>d, <2>2, <2>4, RememberTyped DEF DataOK
    <2>6. DataOK'
      BY <1>3, <1>d, <2>3, <2>5 DEF DataOK, DelPush
    <2>7. HandlerStep(h, "del.save")
      BY <1>3, <2>1, <2>5 DEF HandlerStep, DelPush, HandlerPc, Writing
    <2>8. QED
      BY <2>6, <2>7, HandlerStepType
  <1>4. ASSUME DelSave(h) PROVE TypeInv'
    <2>1. job[h].c \in E /\ job[h].snap \in Row /\ job[h].flag \in BOOLEAN
      BY <1>4, <1>d DEF DelSave, TypeInv, ArgInv, Job
    <2>2. row' \in Row
      BY <1>4, <1>d, <2>1, SetTyped DEF DelSave, Mark
    <2>3. /\ job' \in [Handlers -> Job] /\ need' \in BOOLEAN /\ Goto(h, "idle")
          /\ \A g \in Handlers : g # h => job'[g] = job[g]
      BY <1>4, <1>d, <2>1, FinishTyped DEF DelSave
    <2>4. DataOK'
      BY <1>4, <1>d, <2>2, <2>3 DEF DataOK, DelSave
    <2>5. HandlerStep(h, "idle")
      BY <1>4, <2>3 DEF HandlerStep, DelSave, HandlerPc, Writing
    <2>6. QED
      BY <2>4, <2>5, HandlerStepType
  <1>5. QED
    BY <1>1, <1>2, <1>3, <1>4

LEMMA EditType ==
  ASSUME TypeInv, NEW h \in Handlers PROVE
    /\ \A c, d \in E, en \in BOOLEAN : EditRead(h, c, d, en) => TypeInv'
    /\ EditPush(h) => TypeInv'
    /\ EditSave(h) => TypeInv'
  <1> USE DEF dbVars, xrayVars
  <1>d. DataOK /\ job[h] \in Job
    BY TypeData DEF TypeInv, DataOK
  <1>1. ASSUME NEW c \in E, NEW d \in E, NEW en \in BOOLEAN, EditRead(h, c, d, en) PROVE TypeInv'
    <2> DEFINE j == [NoJob EXCEPT !.c = c, !.d = d, !.en = en, !.snap = row]
    <2>1. j \in Job /\ j.c = c /\ j.d = d
      BY <1>d, NoneTyped DEF Job, DataOK
    <2>2. Remember(h, j, "edit.push")
      BY <1>1 DEF EditRead
    <2> HIDE DEF j
    <2>3. /\ job' \in [Handlers -> Job] /\ job'[h] = j /\ Goto(h, "edit.push")
          /\ \A g \in Handlers : g # h => job'[g] = job[g]
      BY <1>d, <2>1, <2>2, RememberTyped DEF DataOK
    <2>4. DataOK'
      BY <1>1, <1>d, <2>3 DEF DataOK, EditRead
    <2>5. HandlerStep(h, "edit.push")
      BY <1>1, <2>1, <2>3 DEF HandlerStep, EditRead, MayBegin, HandlerPc, Writing
    <2>6. QED
      BY <2>4, <2>5, HandlerStepType
  <1>2. ASSUME EditPush(h) PROVE TypeInv'
    <2> DEFINE c == job[h].c
               d == job[h].d
               drop == job[h].snap.set[c] = "on"
               fails == c # d /\ stat[c] # "none" /\ stat[d] # "none"
    <2>1. c \in E /\ d \in E
      BY <1>2 DEF EditPush, WasOn, TypeInv, ArgInv
    <2>2. CASE fails
      <3>1. /\ job' \in [Handlers -> Job] /\ need' \in BOOLEAN /\ Goto(h, "idle")
            /\ \A g \in Handlers : g # h => job'[g] = job[g]
        BY <1>2, <1>d, <2>2, FinishTyped DEF EditPush, WasOn
      <3>2. DataOK'
        BY <1>2, <1>d, <2>2, <3>1 DEF DataOK, EditPush, WasOn
      <3>3. HandlerStep(h, "idle")
        BY <1>2, <2>2, <3>1 DEF HandlerStep, EditPush, WasOn, HandlerPc, Writing
      <3>4. QED
        BY <3>2, <3>3, HandlerStepType
    <2>3. CASE ~fails
      <3>1. PICK gone \in BOOLEAN, ok \in BOOLEAN :
               LET rest == IF drop /\ gone THEN live.users \ {c} ELSE live.users IN
               /\ live' = [live EXCEPT !.users = IF job[h].en /\ ok THEN rest \cup {d} ELSE rest]
               /\ Remember(h, [job[h] EXCEPT !.flag = (drop /\ ~gone) \/ (job[h].en /\ ~ok)],
                           "edit.save")
               /\ writer' = h /\ UNCHANGED need
        BY <1>2, <2>3 DEF EditPush, WasOn, Outcomes
      <3> DEFINE f == (drop /\ ~gone) \/ (job[h].en /\ ~ok)
                 rest == IF drop /\ gone THEN live.users \ {c} ELSE live.users
                 users == IF job[h].en /\ ok THEN rest \cup {d} ELSE rest
      <3>2. f \in BOOLEAN /\ Remember(h, [job[h] EXCEPT !.flag = f], "edit.save")
        BY <3>1
      <3>3. users \in SUBSET E
        BY <1>d, <2>1 DEF DataOK
      <3>4. live' = [live EXCEPT !.users = users]
        BY <3>1
      <3> HIDE DEF f, users, rest
      <3>5. live' \in [up : BOOLEAN, inb : BOOLEAN, users : SUBSET E]
        BY <1>d, <3>3, <3>4 DEF DataOK
      <3>6. /\ [job[h] EXCEPT !.flag = f] \in Job /\ [job[h] EXCEPT !.flag = f].c = c
            /\ [job[h] EXCEPT !.flag = f].d = d
        BY <1>d, <3>2, FlagTyped
      <3>7. /\ job' \in [Handlers -> Job] /\ job'[h].c = c /\ job'[h].d = d
            /\ Goto(h, "edit.save") /\ \A g \in Handlers : g # h => job'[g] = job[g]
        BY <1>d, <3>2, <3>6, RememberTyped DEF DataOK
      <3>8. DataOK'
        BY <1>2, <1>d, <3>1, <3>5, <3>7 DEF DataOK, EditPush, WasOn
      <3>9. HandlerStep(h, "edit.save")
        BY <1>2, <2>1, <3>1, <3>7 DEF HandlerStep, EditPush, WasOn, HandlerPc, Writing
      <3>10. QED
        BY <3>8, <3>9, HandlerStepType
    <2>4. QED
      BY <2>2, <2>3
  <1>3. ASSUME EditSave(h) PROVE TypeInv'
    <2> DEFINE c == job[h].c
               d == job[h].d
    <2>1. c \in E /\ d \in E /\ job[h].snap \in Row /\ job[h].flag \in BOOLEAN
      BY <1>3, <1>d DEF EditSave, TypeInv, ArgInv, Job
    <2>2. row' \in Row
      BY <1>3, <2>1, MarkTyped DEF EditSave, Row, Mark
    <2>3. stat' = Renamed(c, d) /\ due' \in NewLimits(c, d)
      BY <1>3 DEF EditSave
    <2>4. stat' \in [E -> Mark]
      BY <1>d, <2>1, <2>3, RenamedTyped
    <2>5. due' \subseteq {e \in E : stat'[e] # "none"}
      BY <1>d, <2>1, <2>3, RenamedTyped
    <2>6. /\ job' \in [Handlers -> Job] /\ need' \in BOOLEAN /\ Goto(h, "idle")
          /\ \A g \in Handlers : g # h => job'[g] = job[g]
      BY <1>3, <1>d, <2>1, FinishTyped DEF EditSave
    <2>7. cut' \in SUBSET E
      BY <1>3, <1>d, <2>1 DEF EditSave, DataOK
    <2>8. /\ UNCHANGED <<over, live, cfg, batch, built, proc>>
      BY <1>3 DEF EditSave
    <2>9. DataOK'
      BY <1>d, <2>2, <2>4, <2>5, <2>6, <2>7, <2>8 DEF DataOK
    <2>10. HandlerStep(h, "idle")
      BY <1>3, <2>6 DEF HandlerStep, EditSave, HandlerPc, Writing
    <2>11. QED
      BY <2>9, <2>10, HandlerStepType
  <1>4. QED
    BY <1>1, <1>2, <1>3

LEMMA ResetType ==
  ASSUME TypeInv, NEW h \in Handlers PROVE
    /\ \A c \in E : ResetRead(h, c) => TypeInv'
    /\ ResetPush(h) => TypeInv'
    /\ ResetSave(h) => TypeInv'
  <1> USE DEF dbVars, xrayVars
  <1>d. DataOK /\ job[h] \in Job
    BY TypeData DEF TypeInv, DataOK
  <1>1. ASSUME NEW c \in E, ResetRead(h, c) PROVE TypeInv'
    <2> DEFINE j == [NoJob EXCEPT !.c = c]
    <2>1. j \in Job /\ j.c = c
      BY <1>d, NoneTyped DEF Job
    <2>2. PICK l \in {"reset.push", "reset.save"} : Remember(h, j, l)
      BY <1>1 DEF ResetRead
    <2> HIDE DEF j
    <2>3. /\ job' \in [Handlers -> Job] /\ job'[h] = j /\ Goto(h, l)
          /\ \A g \in Handlers : g # h => job'[g] = job[g]
      BY <1>d, <2>1, <2>2, RememberTyped DEF DataOK
    <2>4. DataOK'
      BY <1>1, <1>d, <2>3 DEF DataOK, ResetRead
    <2>5. HandlerStep(h, l)
      BY <1>1, <2>1, <2>3 DEF HandlerStep, ResetRead, MayBegin, HandlerPc, Writing
    <2>6. QED
      BY <2>4, <2>5, HandlerStepType
  <1>2. ASSUME ResetPush(h) PROVE TypeInv'
    <2>1. job[h].c \in E
      BY <1>2 DEF ResetPush, TypeInv, ArgInv
    <2>2. PICK ok \in BOOLEAN : /\ AddUser(job[h].c, ok)
                               /\ Remember(h, [job[h] EXCEPT !.flag = ~ok], "reset.save")
      BY <1>2 DEF ResetPush
    <2>3. live' \in [up : BOOLEAN, inb : BOOLEAN, users : SUBSET E]
      BY <1>d, <2>1, <2>2, LiveTyped DEF AddUser, LetIn
    <2>4. [job[h] EXCEPT !.flag = ~ok] \in Job /\ [job[h] EXCEPT !.flag = ~ok].c = job[h].c
      BY <1>d, FlagTyped
    <2>5. /\ job' \in [Handlers -> Job] /\ job'[h].c = job[h].c /\ Goto(h, "reset.save")
          /\ \A g \in Handlers : g # h => job'[g] = job[g]
      BY <1>d, <2>2, <2>4, RememberTyped DEF DataOK
    <2>6. DataOK'
      BY <1>2, <1>d, <2>3, <2>5 DEF DataOK, ResetPush
    <2>7. HandlerStep(h, "reset.save")
      BY <1>2, <2>1, <2>5 DEF HandlerStep, ResetPush, HandlerPc, Writing
    <2>8. QED
      BY <2>6, <2>7, HandlerStepType
  <1>3. ASSUME ResetSave(h) PROVE TypeInv'
    <2>1. job[h].c \in E /\ job[h].snap \in Row /\ job[h].flag \in BOOLEAN
      BY <1>3, <1>d DEF ResetSave, TypeInv, ArgInv, Job
    <2>2. stat' \in [E -> Mark] /\ due' \subseteq {e \in E : stat'[e] # "none"}
      BY <1>3, <1>d, <2>1 DEF ResetSave, DataOK, Mark
    <2>3. /\ job' \in [Handlers -> Job] /\ need' \in BOOLEAN /\ Goto(h, "idle")
          /\ \A g \in Handlers : g # h => job'[g] = job[g]
      BY <1>3, <1>d, <2>1, FinishTyped DEF ResetSave
    <2>4. DataOK'
      BY <1>3, <1>d, <2>2, <2>3 DEF DataOK, ResetSave
    <2>5. HandlerStep(h, "idle")
      BY <1>3, <2>3 DEF HandlerStep, ResetSave, HandlerPc, Writing
    <2>6. QED
      BY <2>4, <2>5, HandlerStepType
  <1>4. QED
    BY <1>1, <1>2, <1>3

LEMMA DepType ==
  ASSUME TypeInv, NEW h \in Handlers PROVE
    /\ DepRead(h) => TypeInv'
    /\ DepSave(h) => TypeInv'
    /\ DepPurge(h) => TypeInv'
  <1> USE DEF dbVars, xrayVars
  <1>d. DataOK /\ job[h] \in Job
    BY TypeData DEF TypeInv, DataOK
  <1>1. ASSUME DepRead(h) PROVE TypeInv'
    <2> DEFINE j == [NoJob EXCEPT !.snap = row, !.drop = Depleted]
    <2>1. j \in Job
      BY <1>d, NoneTyped DEF Job, DataOK, Depleted
    <2>2. PICK l \in {"dep.delinb", "dep.save"} : Remember(h, j, l)
      BY <1>1 DEF DepRead
    <2> HIDE DEF j
    <2>3. /\ job' \in [Handlers -> Job] /\ job'[h] = j /\ Goto(h, l)
          /\ \A g \in Handlers : g # h => job'[g] = job[g]
      BY <1>d, <2>1, <2>2, RememberTyped DEF DataOK
    <2>4. DataOK'
      BY <1>1, <1>d, <2>3 DEF DataOK, DepRead
    <2>5. HandlerStep(h, l)
      BY <1>1, <2>1, <2>3 DEF HandlerStep, DepRead, MayBegin, HandlerPc, Writing
    <2>6. QED
      BY <2>4, <2>5, HandlerStepType
  <1>2. ASSUME DepSave(h) PROVE TypeInv'
    <2>1. job[h].snap \in Row /\ job[h].flag \in BOOLEAN
      BY <1>2, <1>d DEF DepSave, TypeInv, ArgInv, Job
    <2>2. row' \in Row
      BY <1>2, <1>d, <2>1 DEF DepSave, Row, Mark
    <2>3. stat' \in [E -> Mark] /\ due' \subseteq {e \in E : stat'[e] # "none"}
      BY <1>2, <1>d, <2>1 DEF DepSave, WithoutDepleted, DataOK, Mark
    <2>4. /\ job' \in [Handlers -> Job] /\ need' \in BOOLEAN /\ Goto(h, "idle")
          /\ \A g \in Handlers : g # h => job'[g] = job[g]
      BY <1>2, <1>d, <2>1, FinishTyped DEF DepSave
    <2>5. DataOK'
      BY <1>2, <1>d, <2>2, <2>3, <2>4 DEF DataOK, DepSave
    <2>6. HandlerStep(h, "idle")
      BY <1>2, <2>4 DEF HandlerStep, DepSave, HandlerPc, Writing
    <2>7. QED
      BY <2>5, <2>6, HandlerStepType
  <1>3. ASSUME DepPurge(h) PROVE TypeInv'
    <2>1. job[h].snap \in Row /\ job[h].flag \in BOOLEAN
      BY <1>3, <1>d DEF DepPurge, TypeInv, ArgInv, Job
    <2>2. stat' \in [E -> Mark] /\ due' \subseteq {e \in E : stat'[e] # "none"}
      BY <1>3, <1>d, <2>1 DEF DepPurge, WithoutDepleted, DataOK, Mark
    <2>3. /\ job' \in [Handlers -> Job] /\ need' \in BOOLEAN /\ Goto(h, "idle")
          /\ \A g \in Handlers : g # h => job'[g] = job[g]
      BY <1>3, <1>d, <2>1, FinishTyped DEF DepPurge
    <2>4. DataOK'
      BY <1>3, <1>d, <2>2, <2>3 DEF DataOK, DepPurge
    <2>5. HandlerStep(h, "idle")
      BY <1>3, <2>3 DEF HandlerStep, DepPurge, HandlerPc, Writing
    <2>6. QED
      BY <2>4, <2>5, HandlerStepType
  <1>4. QED
    BY <1>1, <1>2, <1>3

LEMMA AddInbType ==
  ASSUME TypeInv, NEW h \in Handlers PROVE
    /\ \A s \in [E -> Mark], en \in BOOLEAN : AddInbRead(h, s, en) => TypeInv'
    /\ AddInbPush(h) => TypeInv'
    /\ AddInbSave(h) => TypeInv'
  <1> USE DEF dbVars, xrayVars
  <1>d. DataOK /\ job[h] \in Job
    BY TypeData DEF TypeInv, DataOK
  <1>1. ASSUME NEW s \in [E -> Mark], NEW en \in BOOLEAN, AddInbRead(h, s, en) PROVE TypeInv'
    <2> DEFINE j == [NoJob EXCEPT !.snap = [there |-> TRUE, enable |-> en, set |-> s]]
    <2>1. j \in Job
      BY <1>d, NoneTyped DEF Job, Row
    <2>2. Remember(h, j, "addinb.push")
      BY <1>1 DEF AddInbRead
    <2> HIDE DEF j
    <2>3. /\ job' \in [Handlers -> Job] /\ job'[h] = j /\ Goto(h, "addinb.push")
          /\ \A g \in Handlers : g # h => job'[g] = job[g]
      BY <1>d, <2>1, <2>2, RememberTyped DEF DataOK
    <2>4. DataOK'
      BY <1>1, <1>d, <2>3 DEF DataOK, AddInbRead
    <2>5. HandlerStep(h, "addinb.push")
      BY <1>1, <2>3 DEF HandlerStep, AddInbRead, MayBegin, HandlerPc, Writing
    <2>6. QED
      BY <2>4, <2>5, HandlerStepType
  <1>2. ASSUME AddInbPush(h) PROVE TypeInv'
    <2>1. job[h].snap \in Row /\ Clients(job[h].snap) \in SUBSET E
      BY <1>d DEF Job, Clients
    <2>2. PICK j \in Job : /\ Remember(h, j, "addinb.save")
                          /\ live' \in [up : BOOLEAN, inb : BOOLEAN, users : SUBSET E]
      <3>1. CASE job[h].snap.enable
        <4>1. PICK ok \in BOOLEAN :
                /\ live' = IF ok THEN [live EXCEPT !.inb = TRUE, !.users = Clients(job[h].snap)]
                           ELSE live
                /\ Remember(h, [job[h] EXCEPT !.flag = ~ok], "addinb.save")
          BY <1>2, <3>1 DEF AddInbPush, Outcomes
        <4>2. live' \in [up : BOOLEAN, inb : BOOLEAN, users : SUBSET E]
          BY <1>d, <2>1, <4>1 DEF DataOK
        <4>3. [job[h] EXCEPT !.flag = ~ok] \in Job
          BY <1>d, FlagTyped
        <4>4. QED
          BY <4>1, <4>2, <4>3
      <3>2. CASE ~job[h].snap.enable
        BY <1>2, <1>d, <3>2 DEF AddInbPush, DataOK
      <3>3. QED
        BY <3>1, <3>2
    <2>3. /\ job' \in [Handlers -> Job] /\ job'[h] = j /\ Goto(h, "addinb.save")
          /\ \A g \in Handlers : g # h => job'[g] = job[g]
      BY <1>d, <2>2, RememberTyped DEF DataOK
    <2>4. DataOK'
      BY <1>2, <1>d, <2>2, <2>3 DEF DataOK, AddInbPush
    <2>5. HandlerStep(h, "addinb.save")
      BY <1>2, <2>3 DEF HandlerStep, AddInbPush, HandlerPc, Writing
    <2>6. QED
      BY <2>4, <2>5, HandlerStepType
  <1>3. ASSUME AddInbSave(h) PROVE TypeInv'
    <2>1. job[h].snap \in Row /\ job[h].flag \in BOOLEAN
      BY <1>d DEF Job
    <2>2. stat' \in [E -> Mark] /\ due' \subseteq {e \in E : stat'[e] # "none"}
      BY <1>3, <1>d, StatsTyped DEF AddInbSave, DataOK
    <2>3. /\ job' \in [Handlers -> Job] /\ need' \in BOOLEAN /\ Goto(h, "idle")
          /\ \A g \in Handlers : g # h => job'[g] = job[g]
      BY <1>3, <1>d, <2>1, FinishTyped DEF AddInbSave
    <2>4. DataOK'
      BY <1>3, <1>d, <2>1, <2>2, <2>3 DEF DataOK, AddInbSave
    <2>5. HandlerStep(h, "idle")
      BY <1>3, <2>3 DEF HandlerStep, AddInbSave, HandlerPc, Writing
    <2>6. QED
      BY <2>4, <2>5, HandlerStepType
  <1>4. QED
    BY <1>1, <1>2, <1>3

LEMMA DelInbType ==
  ASSUME TypeInv, NEW h \in Handlers PROVE
    /\ DelInbPush(h) => TypeInv'
    /\ DelInbStats(h) => TypeInv'
    /\ DelInbRow(h) => TypeInv'
  <1> USE DEF dbVars, xrayVars
  <1>d. DataOK /\ job[h] \in Job
    BY TypeData DEF TypeInv, DataOK
  <1>1. ASSUME DelInbPush(h) PROVE TypeInv'
    <2>1. pc[h] \notin Writing
      BY <1>1 DEF DelInbPush, MayBegin, Writing
    <2>2. PICK j \in Job : /\ Remember(h, j, "delinb.stats")
                          /\ live' \in [up : BOOLEAN, inb : BOOLEAN, users : SUBSET E]
      <3>1. CASE row.enable
        <4>1. PICK ok \in BOOLEAN :
                /\ live' = IF ok THEN [live EXCEPT !.inb = FALSE, !.users = {}] ELSE live
                /\ Remember(h, [job[h] EXCEPT !.flag = ~ok], "delinb.stats")
          BY <1>1, <3>1 DEF DelInbPush, Outcomes
        <4>2. live' \in [up : BOOLEAN, inb : BOOLEAN, users : SUBSET E]
          BY <1>d, <4>1 DEF DataOK
        <4>3. [job[h] EXCEPT !.flag = ~ok] \in Job
          BY <1>d, FlagTyped
        <4>4. QED
          BY <4>1, <4>2, <4>3
      <3>2. CASE ~row.enable
        BY <1>1, <1>d, <3>2 DEF DelInbPush, DataOK
      <3>3. QED
        BY <3>1, <3>2
    <2>3. /\ job' \in [Handlers -> Job] /\ job'[h] = j /\ Goto(h, "delinb.stats")
          /\ \A g \in Handlers : g # h => job'[g] = job[g]
      BY <1>d, <2>2, RememberTyped DEF DataOK
    <2>4. DataOK'
      BY <1>1, <1>d, <2>2, <2>3 DEF DataOK, DelInbPush
    <2>5. HandlerStep(h, "delinb.stats")
      BY <1>1, <2>1, <2>3 DEF HandlerStep, DelInbPush, HandlerPc, Writing
    <2>6. QED
      BY <2>4, <2>5, HandlerStepType
  <1>2. ASSUME DelInbStats(h) PROVE TypeInv'
    <2>1. stat' \in [E -> Mark] /\ due' \subseteq {e \in E : stat'[e] # "none"}
      BY <1>2, <1>d DEF DelInbStats, DataOK, Mark
    <2>2. DataOK'
      BY <1>2, <1>d, <2>1 DEF DataOK, DelInbStats
    <2>3. HandlerStep(h, "delinb.row")
      BY <1>2 DEF HandlerStep, DelInbStats, HandlerPc, Writing
    <2>4. QED
      BY <2>2, <2>3, HandlerStepType
  <1>3. ASSUME DelInbRow(h) PROVE TypeInv'
    <2>1. CASE job[h].drop # {}
      <3>1. Goto(h, "dep.purge") /\ UNCHANGED <<need, job>>
        BY <1>3, <2>1 DEF DelInbRow
      <3>2. DataOK'
        BY <1>3, <1>d, <3>1, NoneTyped DEF DataOK, DelInbRow
      <3>3. HandlerStep(h, "dep.purge")
        BY <1>3, <3>1 DEF HandlerStep, DelInbRow, HandlerPc, Writing
      <3>4. QED
        BY <3>2, <3>3, HandlerStepType
    <2>2. CASE job[h].drop = {}
      <3>1. job[h].flag \in BOOLEAN
        BY <1>d DEF Job
      <3>2. /\ job' \in [Handlers -> Job] /\ need' \in BOOLEAN /\ Goto(h, "idle")
            /\ \A g \in Handlers : g # h => job'[g] = job[g]
        BY <1>3, <1>d, <2>2, <3>1, FinishTyped DEF DelInbRow
      <3>3. DataOK'
        BY <1>3, <1>d, <3>2, NoneTyped DEF DataOK, DelInbRow
      <3>4. HandlerStep(h, "idle")
        BY <1>3, <3>2 DEF HandlerStep, DelInbRow, HandlerPc, Writing
      <3>5. QED
        BY <3>3, <3>4, HandlerStepType
    <2>3. QED
      BY <2>1, <2>2
  <1>4. QED
    BY <1>1, <1>2, <1>3

LEMMA UpdType ==
  ASSUME TypeInv, NEW h \in Handlers PROVE
    /\ \A en \in BOOLEAN : UpdLoad(h, en) => TypeInv'
    /\ UpdPush(h) => TypeInv'
    /\ UpdSave(h) => TypeInv'
  <1> USE DEF dbVars, xrayVars
  <1>d. DataOK /\ job[h] \in Job
    BY TypeData DEF TypeInv, DataOK
  <1>1. ASSUME NEW en \in BOOLEAN, UpdLoad(h, en) PROVE TypeInv'
    <2> DEFINE j == [NoJob EXCEPT !.snap = [row EXCEPT !.enable = en]]
    <2>1. j \in Job
      BY <1>d, NoneTyped DEF Job, Row, DataOK
    <2>2. Remember(h, j, "updinb.push")
      BY <1>1 DEF UpdLoad
    <2> HIDE DEF j
    <2>3. /\ job' \in [Handlers -> Job] /\ job'[h] = j /\ Goto(h, "updinb.push")
          /\ \A g \in Handlers : g # h => job'[g] = job[g]
      BY <1>d, <2>1, <2>2, RememberTyped DEF DataOK
    <2>4. DataOK'
      BY <1>1, <1>d, <2>3 DEF DataOK, UpdLoad
    <2>5. HandlerStep(h, "updinb.push")
      BY <1>1, <2>3 DEF HandlerStep, UpdLoad, MayBegin, HandlerPc, Writing
    <2>6. QED
      BY <2>4, <2>5, HandlerStepType
  <1>2. ASSUME UpdPush(h) PROVE TypeInv'
    <2> DEFINE form == job[h].snap
               fails == \/ ~row.there
                        \/ \E e \in {e \in Clients(form) : e \notin Clients(row)} :
                              stat[e] # "none"
    <2>1. form \in Row /\ Clients(form) \in SUBSET E
      BY <1>d DEF Job, Clients
    <2>2. CASE fails
      <3>1. /\ job' \in [Handlers -> Job] /\ need' \in BOOLEAN /\ Goto(h, "idle")
            /\ \A g \in Handlers : g # h => job'[g] = job[g]
        BY <1>2, <1>d, <2>2, FinishTyped DEF UpdPush
      <3>2. DataOK'
        BY <1>2, <1>d, <2>2, <3>1 DEF DataOK, UpdPush
      <3>3. HandlerStep(h, "idle")
        BY <1>2, <2>2, <3>1 DEF HandlerStep, UpdPush, HandlerPc, Writing
      <3>4. QED
        BY <3>2, <3>3, HandlerStepType
    <2>3. CASE ~fails
      <3>1. PICK gone \in BOOLEAN, ok \in BOOLEAN :
               LET left == IF gone THEN [live EXCEPT !.inb = FALSE, !.users = {}] ELSE live IN
               /\ live' = IF form.enable /\ ok
                          THEN [left EXCEPT !.inb = TRUE, !.users = Clients(form)] ELSE left
               /\ Remember(h, [job[h] EXCEPT !.flag = form.enable /\ ~ok], "updinb.save")
               /\ writer' = h /\ UNCHANGED need
        BY <1>2, <2>3 DEF UpdPush, Outcomes
      <3> DEFINE f == form.enable /\ ~ok
      <3>2. f \in BOOLEAN /\ Remember(h, [job[h] EXCEPT !.flag = f], "updinb.save")
        BY <2>1, <3>1 DEF Row
      <3>3. live' \in [up : BOOLEAN, inb : BOOLEAN, users : SUBSET E]
        BY <1>d, <2>1, <3>1 DEF DataOK
      <3> HIDE DEF f
      <3>4. [job[h] EXCEPT !.flag = f] \in Job
        BY <1>d, <3>2, FlagTyped
      <3>5. /\ job' \in [Handlers -> Job] /\ Goto(h, "updinb.save")
            /\ \A g \in Handlers : g # h => job'[g] = job[g]
        BY <1>d, <3>2, <3>4, RememberTyped DEF DataOK
      <3>6. DataOK'
        BY <1>2, <1>d, <3>1, <3>3, <3>5 DEF DataOK, UpdPush
      <3>7. HandlerStep(h, "updinb.save")
        BY <1>2, <3>1, <3>5 DEF HandlerStep, UpdPush, HandlerPc, Writing
      <3>8. QED
        BY <3>6, <3>7, HandlerStepType
    <2>4. QED
      BY <2>2, <2>3
  <1>3. ASSUME UpdSave(h) PROVE TypeInv'
    <2>1. job[h].snap \in Row /\ job[h].flag \in BOOLEAN
      BY <1>d DEF Job
    <2> DEFINE lost == Clients(row) \ Clients(job[h].snap)
               new == Clients(job[h].snap) \ Clients(row)
    <2>2. /\ row' = job[h].snap
          /\ stat' = [e \in E |-> IF e \in lost THEN "none" ELSE WithStats(new)[e]]
          /\ due' = due \ lost
      BY <1>3 DEF UpdSave
    <2> HIDE DEF lost, new
    <2>3. stat' \in [E -> Mark] /\ due' \subseteq {e \in E : stat'[e] # "none"}
      BY <1>d, <2>2, StatsTyped DEF DataOK, Mark
    <2>4. /\ job' \in [Handlers -> Job] /\ need' \in BOOLEAN /\ Goto(h, "idle")
          /\ \A g \in Handlers : g # h => job'[g] = job[g]
      BY <1>3, <1>d, <2>1, FinishTyped DEF UpdSave
    <2>5. over' \in BOOLEAN
      BY <1>3, <1>d DEF UpdSave, DataOK
    <2>6. DataOK'
      BY <1>3, <1>d, <2>1, <2>2, <2>3, <2>4, <2>5 DEF DataOK, UpdSave
    <2>7. HandlerStep(h, "idle")
      BY <1>3, <2>4 DEF HandlerStep, UpdSave, HandlerPc, Writing
    <2>8. QED
      BY <2>6, <2>7, HandlerStepType
  <1>4. QED
    BY <1>1, <1>2, <1>3

(* A call that panics. *)
Break(h) == \/ AddBreak(h) \/ DelBreak(h) \/ EditBreak(h) \/ ResetBreak(h)
            \/ AddInbBreak(h) \/ DelInbBreak(h) \/ UpdBreak(h)

LEMMA UnwindType ==
  ASSUME TypeInv, NEW h \in Handlers, NEW S \in SUBSET E, Unwind(h, S), pc[h] \notin Writing,
         row' \in Row, stat' \in [E -> Mark], due' \subseteq {e \in E : stat'[e] # "none"},
         over' \in BOOLEAN, live' \in [up : BOOLEAN, inb : BOOLEAN, users : SUBSET E]
  PROVE  TypeInv'
  <1>d. DataOK
    BY TypeData DEF TypeInv
  <1>1. /\ job' \in [Handlers -> Job] /\ \A g \in Handlers : g # h => job'[g] = job[g]
    BY <1>d, NoneTyped DEF Unwind, DataOK
  <1>2. DataOK'
    BY <1>d, <1>1 DEF DataOK, Unwind
  <1>3. HandlerStep(h, "idle")
    BY <1>1 DEF HandlerStep, Unwind, HandlerPc, Writing
  <1>4. QED
    BY <1>2, <1>3, HandlerStepType

LEMMA BreakType == ASSUME TypeInv, NEW h \in Handlers, Break(h) PROVE TypeInv'
  <1> USE DEF dbVars, xrayVars
  <1>d. DataOK /\ job[h] \in Job
    BY TypeData DEF TypeInv, DataOK
  <1>1. CASE AddBreak(h)
    <2>1. job[h].c \in E /\ pc[h] \notin Writing
      BY <1>1 DEF AddBreak, TypeInv, ArgInv, Writing
    <2>2. PICK S \in SUBSET E : Unwind(h, S)
      BY <1>1, <2>1 DEF AddBreak
    <2>3. stat' \in [E -> Mark] /\ due' \subseteq {e \in E : stat'[e] # "none"}
      BY <1>1, <1>d, StatsTyped DEF AddBreak, DataOK
    <2>4. QED
      BY <1>1, <1>d, <2>1, <2>2, <2>3, UnwindType DEF AddBreak, DataOK
  <1>2. CASE DelBreak(h)
    <2>1. job[h].c \in E /\ pc[h] \notin Writing
      BY <1>2 DEF DelBreak, TypeInv, ArgInv, Writing
    <2>2. QED
      BY <1>2, <1>d, <2>1, UnwindType DEF DelBreak, DataOK
  <1>3. CASE EditBreak(h)
    <2> DEFINE c == job[h].c
               d == job[h].d
    <2>1. c \in E /\ d \in E /\ pc[h] \notin Writing
      BY <1>3 DEF EditBreak, TypeInv, ArgInv, Writing
    <2>2. PICK S \in SUBSET E : Unwind(h, S)
      BY <1>3, <2>1 DEF EditBreak
    <2>3. stat' \in [E -> Mark] /\ due' \subseteq {e \in E : stat'[e] # "none"}
      BY <1>3, <1>d, <2>1, RenamedTyped DEF EditBreak
    <2>4. live' \in [up : BOOLEAN, inb : BOOLEAN, users : SUBSET E]
      BY <1>3, <1>d DEF EditBreak, DataOK
    <2>5. QED
      BY <1>3, <1>d, <2>1, <2>2, <2>3, <2>4, UnwindType DEF EditBreak, DataOK
  <1>4. CASE ResetBreak(h)
    BY <1>4, <1>d, UnwindType DEF ResetBreak, DataOK, Writing
  <1>5. CASE AddInbBreak(h)
    <2>1. job[h].snap \in Row /\ pc[h] \notin Writing
      BY <1>5, <1>d DEF AddInbBreak, Job, Writing
    <2>2. stat' \in [E -> Mark] /\ due' \subseteq {e \in E : stat'[e] # "none"}
      BY <1>5, <1>d, StatsTyped DEF AddInbBreak, DataOK
    <2>3. QED
      BY <1>5, <1>d, <2>1, <2>2, UnwindType DEF AddInbBreak, DataOK
  <1>6. CASE DelInbBreak(h)
    BY <1>6, <1>d, UnwindType DEF DelInbBreak, MayBegin, DataOK, Writing
  <1>7. CASE UpdBreak(h)
    <2> DEFINE lost == Clients(row) \ Clients(job[h].snap)
               new == Clients(job[h].snap) \ Clients(row)
    <2>1. /\ stat' = [e \in E |-> IF e \in lost THEN "none" ELSE WithStats(new)[e]]
          /\ due' = due \ lost /\ Unwind(h, lost \cup new) /\ pc[h] \notin Writing
      BY <1>7 DEF UpdBreak, Writing
    <2>2. lost \cup new \in SUBSET E
      BY DEF Clients
    <2> HIDE DEF lost, new
    <2>3. stat' \in [E -> Mark] /\ due' \subseteq {e \in E : stat'[e] # "none"}
      BY <1>d, <2>1, StatsTyped DEF DataOK, Mark
    <2>4. live' \in [up : BOOLEAN, inb : BOOLEAN, users : SUBSET E]
      BY <1>7, <1>d DEF UpdBreak, DataOK
    <2>5. QED
      BY <1>7, <1>d, <2>1, <2>2, <2>3, <2>4, UnwindType DEF UpdBreak, DataOK
  <1>8. QED
    BY <1>1, <1>2, <1>3, <1>4, <1>5, <1>6, <1>7 DEF Break

LEMMA HandleType == ASSUME TypeInv, NEW h \in Handlers, Handle(h) PROVE TypeInv'
  BY AddType, DelType, EditType, ResetType, DepType, AddInbType, DelInbType, UpdType, BreakType
  DEF Handle, Break
-----------------------------------------------------------------------------
(* The jobs' steps.                                                        *)
JobStep(t, l) ==
    /\ Goto(t, l) /\ l \in JobPc /\ job' = job
    /\ IF l \in Writing THEN writer' = t /\ (writer = Nobody \/ writer = t)
       ELSE IF pc[t] \in Writing THEN writer' = Nobody ELSE writer' = writer

LEMMA JobStepType ==
  ASSUME TypeInv, NEW t \in Jobs, NEW l, JobStep(t, l), DataOK'
  PROVE  TypeInv'
  <1>1. t \in Threads /\ t \notin Handlers
    BY NamesAssumption DEF Threads
  <1>2. /\ pc' \in [Threads -> HandlerPc \cup JobPc]
        /\ \A g \in Handlers : pc'[g] \in HandlerPc
        /\ \A s \in Jobs : pc'[s] \in JobPc
        /\ writer' \in Threads \cup {Nobody}
        /\ \A s \in Threads : writer' = s <=> pc'[s] \in Writing
    BY <1>1, PcTyped DEF JobStep, TypeInv
  <1>3. TypeOK'
    BY <1>2 DEF TypeOK, DataOK
  <1>4. \A g \in Handlers : pc'[g] = pc[g]
    BY <1>1 DEF JobStep, Goto, TypeInv, TypeOK, Threads
  <1>5. ArgInv'
    BY <1>4 DEF ArgInv, JobStep, TypeInv
  <1>6. QED
    BY <1>3, <1>5 DEF TypeInv

LEMMA JobsTyped == Ticker \in Jobs /\ Restarter \in Jobs
  BY DEF Jobs

LEMMA TrafficType ==
  ASSUME TypeInv, NEW t \in Jobs PROVE
    /\ AddTraffic(t) => TypeInv'
    /\ Disable(t) => TypeInv'
    /\ CommitTraffic(t) => TypeInv'
  <1> USE DEF dbVars, xrayVars
  <1>d. DataOK /\ batch[t] \in Batch
    BY TypeData DEF TypeInv, DataOK
  <1>1. ASSUME AddTraffic(t) PROVE TypeInv'
    <2>1. PICK dated \in SUBSET Renewable, in \in SUBSET Renewable, f \in BOOLEAN :
            /\ LetIn(in)
            /\ batch' = [batch EXCEPT ![t] = [NoBatch EXCEPT !.renew = dated, !.flag = f]]
      BY <1>1 DEF AddTraffic
    <2>2. dated \in SUBSET E /\ in \in SUBSET E
      BY <1>d DEF Renewable, DataOK
    <2>3. live' \in [up : BOOLEAN, inb : BOOLEAN, users : SUBSET E]
      BY <1>d, <2>1, <2>2, LiveTyped DEF LetIn
    <2>4. [NoBatch EXCEPT !.renew = dated, !.flag = f] \in Batch
      BY <2>2, NoneTyped DEF Batch
    <2>5. batch' \in [Jobs -> Batch]
      BY <1>d, <2>1, <2>4 DEF DataOK
    <2>6. DataOK'
      BY <1>1, <1>d, <2>3, <2>5 DEF DataOK, AddTraffic
    <2>7. JobStep(t, "disable")
      BY <1>1 DEF JobStep, AddTraffic, JobPc, Writing
    <2>8. QED
      BY <2>6, <2>7, JobStepType
  <1>2. ASSUME Disable(t) PROVE TypeInv'
    <2> DEFINE r == batch[t].renew
               drop == {e \in due \ r : stat[e] = "on"}
               told == IF row.there THEN drop ELSE {}
               inb == over /\ row.enable
    <2>1. PICK out \in SUBSET told, gone \in BOOLEAN :
            /\ live' = IF inb /\ gone THEN [live EXCEPT !.inb = FALSE, !.users = {}]
                       ELSE [live EXCEPT !.users = @ \ out]
            /\ batch' = [batch EXCEPT ![t] = [renew |-> r, drop |-> drop, inb |-> inb,
                           flag |-> @.flag \/ out # told \/ (inb /\ ~gone)]]
      BY <1>2 DEF Disable, Outcomes
    <2>2. /\ r \in SUBSET E /\ drop \in SUBSET E /\ out \in SUBSET E /\ inb \in BOOLEAN
      BY <1>d, <2>1 DEF DataOK, Batch, Row
    <2>3. batch' = [batch EXCEPT ![t] = [renew |-> r, drop |-> drop, inb |-> inb,
                       flag |-> batch[t].flag \/ out # told \/ (inb /\ ~gone)]]
      BY <1>d, <2>1 DEF DataOK
    <2> DEFINE f == batch[t].flag \/ out # told \/ (inb /\ ~gone)
    <2>4. f \in BOOLEAN
      OBVIOUS
    <2>5. live' \in [up : BOOLEAN, inb : BOOLEAN, users : SUBSET E]
      <3>1. CASE inb /\ gone
        BY <1>d, <2>1, <3>1 DEF DataOK
      <3>2. CASE ~(inb /\ gone)
        BY <1>d, <2>1, <2>2, <3>2, LiveTyped
      <3>3. QED
        BY <3>1, <3>2
    <2> HIDE DEF r, drop, told, inb, f
    <2>6. [renew |-> r, drop |-> drop, inb |-> inb, flag |-> f] \in Batch
      BY <2>2, <2>4 DEF Batch
    <2>7. batch' \in [Jobs -> Batch]
      BY <1>d, <2>3, <2>6 DEF DataOK, f
    <2>8. DataOK'
      BY <1>2, <1>d, <2>5, <2>7 DEF DataOK, Disable
    <2>9. JobStep(t, "save")
      <3>1. writer = t
        BY <1>2 DEF Disable, TypeInv, TypeOK, Writing, Threads
      <3>2. QED
        BY <1>2, <3>1 DEF JobStep, Disable, JobPc, Writing
    <2>10. QED
      BY <2>8, <2>9, JobStepType
  <1>3. ASSUME CommitTraffic(t) PROVE TypeInv'
    <2>1. row' \in Row
      BY <1>3, <1>d DEF CommitTraffic, DataOK, Row
    <2>2. stat' \in [E -> Mark] /\ \A e \in E : stat[e] # "none" => stat'[e] # "none"
      BY <1>3, <1>d DEF CommitTraffic, Marked, DataOK, Mark
    <2>3. due' \subseteq {e \in E : stat'[e] # "none"}
      BY <1>3, <1>d, <2>2 DEF CommitTraffic, DataOK
    <2>4. need' \in BOOLEAN
      BY <1>3, <1>d DEF CommitTraffic, DataOK, Batch
    <2>5. batch' \in [Jobs -> Batch]
      BY <1>3, <1>d, NoneTyped DEF CommitTraffic, DataOK
    <2>6. DataOK'
      BY <1>3, <1>d, <2>1, <2>2, <2>3, <2>4, <2>5 DEF DataOK, CommitTraffic
    <2>7. PICK l \in {"idle", "decide"} : Goto(t, l)
      BY <1>3 DEF CommitTraffic
    <2>8. JobStep(t, l)
      BY <1>3, <2>7 DEF JobStep, CommitTraffic, JobPc, Writing
    <2>9. QED
      BY <2>6, <2>8, JobStepType
  <1>4. QED
    BY <1>1, <1>2, <1>3

LEMMA RestartType ==
  ASSUME TypeInv PROVE
    /\ Tick => TypeInv'
    /\ \A force \in BOOLEAN : RestartBegin(force) => TypeInv'
    /\ Keep => TypeInv'
    /\ StopXray => TypeInv'
    /\ NewProcess => TypeInv'
    /\ StartXray => TypeInv'
  <1> USE DEF dbVars, xrayVars
  <1>d. DataOK /\ DbConfig \in Config /\ NoConfig \in Config
    BY TypeData, ConfigTyped, NoneTyped DEF TypeInv, DataOK
  <1>1. ASSUME Tick PROVE TypeInv'
    <2>1. DataOK'
      BY <1>1, <1>d DEF DataOK, Tick
    <2>2. JobStep(Ticker, "traffic")
      BY <1>1 DEF JobStep, Tick, JobPc, Writing
    <2>3. QED
      BY <2>1, <2>2, JobStepType, JobsTyped
  <1>2. ASSUME NEW force \in BOOLEAN, RestartBegin(force) PROVE TypeInv'
    <2>1. need' \in BOOLEAN
      BY <1>2, <1>d DEF DataOK, RestartBegin
    <2>2. built' \in [config : Config, force : BOOLEAN]
      BY <1>2, <1>d DEF RestartBegin
    <2>3. DataOK'
      BY <1>2, <1>d, <2>1, <2>2 DEF DataOK, RestartBegin
    <2>4. JobStep(Restarter, "traffic")
      BY <1>2 DEF JobStep, RestartBegin, JobPc, Writing
    <2>5. QED
      BY <2>3, <2>4, JobStepType, JobsTyped
  <1>3. ASSUME Keep PROVE TypeInv'
    <2>1. built' \in [config : Config, force : BOOLEAN]
      BY <1>3, <1>d DEF Keep
    <2>2. DataOK'
      BY <1>3, <1>d, <2>1 DEF DataOK, Keep
    <2>3. JobStep(Restarter, "idle")
      BY <1>3 DEF JobStep, Keep, JobPc, Writing
    <2>4. QED
      BY <2>2, <2>3, JobStepType, JobsTyped
  <1>4. ASSUME StopXray PROVE TypeInv'
    <2>1. DataOK'
      BY <1>4, <1>d DEF DataOK, StopXray
    <2>2. JobStep(Restarter, "boot")
      BY <1>4 DEF JobStep, StopXray, JobPc, Writing
    <2>3. QED
      BY <2>1, <2>2, JobStepType, JobsTyped
  <1>5. ASSUME StartXray PROVE TypeInv'
    <2>1. built.config \in Config
      BY <1>d DEF DataOK
    <2>2. cfg' \in Config /\ built' \in [config : Config, force : BOOLEAN]
      BY <1>5, <1>d, <2>1 DEF StartXray
    <2>3. live' \in [up : BOOLEAN, inb : BOOLEAN, users : SUBSET E]
      BY <1>5, <2>2 DEF StartXray, Config
    <2>4. DataOK'
      BY <1>5, <1>d, <2>2, <2>3 DEF DataOK, StartXray
    <2>5. JobStep(Restarter, "idle")
      BY <1>5 DEF JobStep, StartXray, JobPc, Writing
    <2>6. QED
      BY <2>4, <2>5, JobStepType, JobsTyped
  <1>6. ASSUME NewProcess PROVE TypeInv'
    <2>1. DataOK'
      BY <1>6, <1>d DEF DataOK, NewProcess
    <2>2. JobStep(Restarter, "start")
      BY <1>6 DEF JobStep, NewProcess, JobPc, Writing
    <2>3. QED
      BY <2>1, <2>2, JobStepType, JobsTyped
  <1>7. QED
    BY <1>1, <1>2, <1>3, <1>4, <1>5, <1>6
-----------------------------------------------------------------------------
(* Steps that move no thread.                                              *)
LEMMA SameControl ==
  ASSUME TypeInv, DataOK', UNCHANGED <<writer, pc, job>>
  PROVE  TypeInv'
  <1>1. TypeOK'
    BY DEF TypeInv, TypeOK, DataOK
  <1>2. ArgInv'
    BY DEF TypeInv, ArgInv
  <1>3. QED
    BY <1>1, <1>2 DEF TypeInv

LEMMA OtherType ==
  ASSUME TypeInv PROVE
    /\ ResetAllClientTraffics => TypeInv'
    /\ ResetAllTraffics => TypeInv'
    /\ \A e \in E : Expire(e) => TypeInv'
    /\ InboundOver => TypeInv'
  <1> USE DEF dbVars, xrayVars
  <1>d. DataOK
    BY TypeData DEF TypeInv
  <1>1. ASSUME ResetAllClientTraffics PROVE TypeInv'
    <2>1. stat' \in [E -> Mark] /\ due' \subseteq {e \in E : stat'[e] # "none"}
      BY <1>1, <1>d DEF ResetAllClientTraffics, DataOK, Mark
    <2>2. DataOK'
      BY <1>1, <1>d, <2>1 DEF DataOK, ResetAllClientTraffics
    <2>3. QED
      BY <1>1, <2>2, SameControl DEF ResetAllClientTraffics
  <1>2. ASSUME ResetAllTraffics PROVE TypeInv'
    <2>1. DataOK'
      BY <1>2, <1>d DEF DataOK, ResetAllTraffics
    <2>2. QED
      BY <1>2, <2>1, SameControl DEF ResetAllTraffics
  <1>3. ASSUME NEW e \in E, Expire(e) PROVE TypeInv'
    <2>1. due' \subseteq {x \in E : stat'[x] # "none"}
      BY <1>3, <1>d DEF DataOK, Expire
    <2>2. DataOK'
      BY <1>3, <1>d, <2>1 DEF DataOK, Expire
    <2>3. QED
      BY <1>3, <2>2, SameControl DEF Expire
  <1>4. ASSUME InboundOver PROVE TypeInv'
    <2>1. DataOK'
      BY <1>4, <1>d DEF DataOK, InboundOver
    <2>2. QED
      BY <1>4, <2>1, SameControl DEF InboundOver
  <1>5. QED
    BY <1>1, <1>2, <1>3, <1>4

LEMMA DiesType ==
  ASSUME TypeInv, PanelDies, row' \in Row, stat' \in [E -> Mark], over' \in BOOLEAN,
         due' \subseteq {e \in E : stat'[e] # "none"}
  PROVE  TypeInv'
  <1>d. DataOK /\ ArgInv
    BY TypeData DEF TypeInv
  <1>1. /\ job' \in [Handlers -> Job] /\ batch' \in [Jobs -> Batch]
        /\ built' \in [config : Config, force : BOOLEAN]
    BY NoneTyped DEF PanelDies
  <1>2. \A h \in Handlers : CutOff(h) \subseteq E
    BY <1>d DEF CutOff, ArgInv, Clients
  <1>3. cut' \subseteq E
    BY <1>d, <1>2 DEF PanelDies, DataOK
  <1>4. DataOK'
    BY <1>d, <1>1, <1>3 DEF DataOK, PanelDies
  <1>5. \A t \in Threads : pc'[t] = "idle"
    BY DEF PanelDies
  <1>6. pc' \in [Threads -> HandlerPc \cup JobPc]
    BY DEF PanelDies, HandlerPc, JobPc
  <1>7. /\ \A h \in Handlers : pc'[h] \in HandlerPc
        /\ \A t \in Jobs : pc'[t] \in JobPc
    BY <1>5 DEF Threads, HandlerPc, JobPc
  <1>8. \A t \in Threads : writer' = t <=> pc'[t] \in Writing
    BY <1>5, NamesAssumption DEF Writing, PanelDies
  <1>9. TypeOK'
    BY <1>4, <1>6, <1>7, <1>8 DEF TypeOK, DataOK, PanelDies
  <1>10. ArgInv'
    BY <1>5 DEF ArgInv, Threads
  <1>11. QED
    BY <1>9, <1>10 DEF TypeInv

LEMMA MarkedTyped ==
  ASSUME DataOK, NEW b \in Batch
  PROVE  Marked(b) \in [E -> Mark] /\ \A e \in E : stat[e] # "none" => Marked(b)[e] # "none"
  BY DEF Marked, DataOK, Mark

LEMMA PanelType ==
  ASSUME TypeInv PROVE (PanelCrash => TypeInv') /\ (TickPanic => TypeInv')
  <1>d. DataOK /\ batch[Ticker] \in Batch
    BY TypeData, JobsTyped DEF TypeInv, DataOK
  <1>1. ASSUME PanelCrash PROVE TypeInv'
    BY <1>1, <1>d, DiesType DEF PanelCrash, dbVars, DataOK
  <1>2. ASSUME TickPanic PROVE TypeInv'
    <2> DEFINE b == [NoBatch EXCEPT !.renew = batch[Ticker].renew]
    <2>1. b \in Batch
      BY <1>d, NoneTyped DEF Batch
    <2>2. /\ PanelDies /\ stat' = Marked(b) /\ due' \subseteq due /\ UNCHANGED <<row, over>>
      BY <1>2 DEF TickPanic
    <2> HIDE DEF b
    <2>3. stat' \in [E -> Mark] /\ due' \subseteq {e \in E : stat'[e] # "none"}
      BY <1>d, <2>1, <2>2, MarkedTyped DEF DataOK
    <2>4. QED
      BY <1>d, <2>2, <2>3, DiesType DEF DataOK
  <1>3. QED
    BY <1>1, <1>2

LEMMA NextType == TypeInv /\ [Next]_vars => TypeInv'
  <1> SUFFICES ASSUME TypeInv, [Next]_vars PROVE TypeInv'
    OBVIOUS
  <1>1. CASE Next
    <2>1. CASE \E h \in Handlers : Handle(h)
      BY <2>1, HandleType
    <2>2. CASE \E t \in Jobs : AddTraffic(t) \/ Disable(t) \/ CommitTraffic(t)
      BY <2>2, TrafficType
    <2>3. CASE \/ Tick \/ (\E force \in BOOLEAN : RestartBegin(force))
               \/ Keep \/ StopXray \/ NewProcess \/ StartXray
      BY <2>3, RestartType
    <2>4. CASE \/ ResetAllClientTraffics \/ ResetAllTraffics
               \/ (\E e \in E : Expire(e)) \/ InboundOver
      BY <2>4, OtherType
    <2>5. CASE PanelCrash \/ TickPanic
      BY <2>5, PanelType
    <2>6. QED
      BY <1>1, <2>1, <2>2, <2>3, <2>4, <2>5 DEF Next
  <1>2. CASE UNCHANGED vars
    BY <1>2 DEF vars, dbVars, xrayVars, TypeInv, TypeOK, ArgInv
  <1>3. QED
    BY <1>1, <1>2

(* Every reachable state is typed, a thread holds SQLite's write lock      *)
(* exactly while its transaction has written, and only clients with a      *)
(* traffic row are due.                                                    *)
THEOREM TypeCorrect == Spec => []TypeOK
  <1>1. Spec => []TypeInv
    BY InitType, NextType, PTL DEF Spec
  <1>2. QED
    BY <1>1, PTL DEF TypeInv
-----------------------------------------------------------------------------
(* Settings and traffic rows, with one handler at a time. What the handler *)
(* finds is what it read; the rows differ from the settings, but for the   *)
(* clients of requests that were cut off, only where it is inside a        *)
(* deletion, which has no transaction.                                     *)
OneHandler == \E h : Handlers = {h}
CleanOps == "depleted" \notin Ops

Rows == {e \in E : stat[e] # "none"}
Even == Clients(row) \ cut = Rows \ cut

InAdd == {"add.push", "add.save"}
InDel == {"del.push", "del.save"}
InEdit == {"edit.push", "edit.save"}
InReset == {"reset.push", "reset.save"}
InAddInb == {"addinb.push", "addinb.save"}
InUpd == {"updinb.push", "updinb.save"}
Level == InAdd \cup InEdit \cup InReset \cup InAddInb \cup InUpd
           \cup {"idle", "del.stat", "delinb.stats"}

HandlerInv(h) ==
    /\ pc[h] \in Level \cup InDel \cup {"delinb.row"}
    /\ pc[h] \in Level => Even
    /\ pc[h] \in InDel => Rows \ cut = (Clients(row) \ {job[h].c}) \ cut
    /\ pc[h] = "delinb.row" => Rows = {}
    /\ pc[h] \in InAdd \cup InDel \cup InEdit \cup InUpd \cup {"del.stat"} =>
          job[h].snap.set = row.set /\ job[h].snap.there
    /\ pc[h] \in InAddInb => Clients(row) = {} /\ job[h].snap.there
    /\ pc[h] \in InAdd => job[h].c \notin Clients(row)
    /\ pc[h] \in InEdit \cup InDel \cup {"del.stat"} => job[h].c \in Clients(row)
    /\ pc[h] \in InReset => job[h].c \in Rows
    /\ pc[h] \in InEdit => job[h].d = job[h].c \/ job[h].d \notin Clients(row)
    /\ pc[h] \in InAddInb \cup {"idle", "delinb.stats", "delinb.row"} =>
          job[h].c = NoClient /\ job[h].drop = {}

RowInv == row.there \/ Clients(row) = {}
BatchInv == \A t \in Jobs : pc[t] \in {"disable", "save"} =>
              batch[t].renew \subseteq Rows /\ batch[t].drop \subseteq Rows

PairInv == TypeInv /\ RowInv /\ BatchInv /\ \A h \in Handlers : HandlerInv(h)

(* A step of the one handler, outside the other threads' transactions.     *)
LEMMA HandlerPairs ==
  ASSUME PairInv, TypeInv', NEW h \in Handlers, OneHandler, NEW l, Goto(h, l),
         batch' = batch, stat' = stat \/ writer \in {Nobody, h},
         RowInv', HandlerInv(h)'
  PROVE  PairInv'
  <1>1. \A t \in Jobs : t \in Threads /\ t # h /\ t # Nobody
    BY NamesAssumption DEF Threads
  <1>2. \A t \in Jobs : pc'[t] = pc[t]
    BY <1>1 DEF Goto, PairInv, TypeInv, TypeOK
  <1>3. BatchInv'
    <2> SUFFICES ASSUME NEW t \in Jobs, pc[t] \in {"disable", "save"}
                 PROVE  batch[t].renew \subseteq Rows' /\ batch[t].drop \subseteq Rows'
      BY <1>2 DEF BatchInv
    <2>1. writer = t
      BY <1>1 DEF PairInv, TypeInv, TypeOK, Writing
    <2>2. stat' = stat
      BY <1>1, <2>1
    <2>3. QED
      BY <2>2 DEF PairInv, BatchInv, Rows
  <1>4. \A g \in Handlers : g = h
    BY DEF OneHandler
  <1>5. \A g \in Handlers : HandlerInv(g)'
    BY <1>4
  <1>6. QED
    BY <1>3, <1>5 DEF PairInv

(* What changes in the settings is the handler's own.                      *)
OwnRow(h) == \A e \in E : row'.set[e] # row.set[e] => e \in Target(h)
OwnStep == \A e \in E : row'.set[e] # row.set[e] =>
              \E h \in Handlers : pc'[h] # pc[h] /\ e \in Target(h)

LEMMA NoneNoClient == NoClient \notin E
  BY NamesAssumption

LEMMA PcOf ==
  ASSUME TypeOK, NEW h \in Handlers, NEW l, Goto(h, l) PROVE pc'[h] = l
  BY DEF Goto, TypeOK, Threads

LEMMA HereInv ==
  ASSUME PairInv, NEW h \in Handlers
  PROVE  /\ TypeInv /\ TypeOK /\ RowInv /\ HandlerInv(h) /\ row \in Row /\ stat \in [E -> Mark]
         /\ job[h] \in Job /\ job \in [Handlers -> Job]
  BY DEF PairInv, TypeInv, TypeOK

LEMMA RememberHere ==
  ASSUME PairInv, NEW h \in Handlers, NEW j, NEW l, Remember(h, j, l)
  PROVE  job'[h] = j /\ pc'[h] = l /\ Goto(h, l)
  BY HereInv, PcOf DEF Remember

LEMMA FinishHere ==
  ASSUME PairInv, NEW h \in Handlers, NEW r, Finish(h, r)
  PROVE  job'[h] = NoJob /\ pc'[h] = "idle" /\ Goto(h, "idle")
  BY HereInv, PcOf DEF Finish

LEMMA FlagKeeps ==
  ASSUME NEW j \in Job, NEW f
  PROVE  /\ [j EXCEPT !.flag = f].c = j.c /\ [j EXCEPT !.flag = f].d = j.d
         /\ [j EXCEPT !.flag = f].snap = j.snap /\ [j EXCEPT !.flag = f].drop = j.drop
  BY DEF Job

(* A handler that returns with settings and rows level.                    *)
LEMMA IdleInv ==
  ASSUME NEW h \in Handlers, pc'[h] = "idle", job'[h] = NoJob, Even'
  PROVE  HandlerInv(h)'
  BY DEF HandlerInv, NoJob, Level, InAdd, InDel, InEdit, InReset, InAddInb, InUpd

(* A step that leaves settings and rows as they are, within one operation. *)
LEMMA SameData ==
  ASSUME row.set' = row.set, row.there' = row.there, stat' = stat, cut' = cut
  PROVE  /\ Clients(row)' = Clients(row) /\ Rows' = Rows /\ (RowInv <=> RowInv')
         /\ (Even <=> Even')
         /\ \A h \in Handlers : OwnRow(h)
  BY DEF Clients, Rows, RowInv, OwnRow, Even

LEMMA OwnSame == ASSUME row.set' = row.set PROVE OwnStep
  BY DEF OwnStep

LEMMA OwnHere ==
  ASSUME NEW h \in Handlers, pc'[h] # pc[h], OwnRow(h) PROVE OwnStep
  BY DEF OwnRow, OwnStep

LEMMA AddPairs ==
  ASSUME PairInv, TypeInv', NEW h \in Handlers, OneHandler PROVE
    /\ \A c \in E, en \in BOOLEAN : AddRead(h, c, en) => PairInv' /\ OwnStep
    /\ AddPush(h) => PairInv' /\ OwnStep
    /\ AddCommit(h) => PairInv' /\ OwnStep
  <1> USE DEF dbVars, xrayVars, Level, InAdd, InDel, InEdit, InReset, InAddInb, InUpd
  <1>h. /\ HandlerInv(h) /\ RowInv /\ row \in Row /\ stat \in [E -> Mark]
        /\ job[h] \in Job
    BY HereInv
  <1>1. ASSUME NEW c \in E, NEW en \in BOOLEAN, AddRead(h, c, en) PROVE PairInv' /\ OwnStep
    <2> DEFINE j == [NoJob EXCEPT !.c = c, !.en = en, !.snap = row]
    <2>1. Remember(h, j, "add.push") /\ j.c = c /\ j.snap = row
      BY <1>1 DEF AddRead, NoJob
    <2> HIDE DEF j
    <2>2. job'[h] = j /\ pc'[h] = "add.push" /\ Goto(h, "add.push")
      BY <2>1, RememberHere
    <2>3. UNCHANGED <<row, stat, batch, cut>>
      BY <1>1 DEF AddRead
    <2>4. /\ Clients(row)' = Clients(row) /\ Rows' = Rows /\ (Even <=> Even') /\ RowInv' /\ OwnStep
      BY <1>h, <2>3, SameData, OwnSame
    <2>5. Even /\ c \notin Clients(row) /\ row.there
      BY <1>1, <1>h DEF AddRead, MayBegin, HandlerInv, Clients
    <2>6. HandlerInv(h)'
      BY <2>1, <2>2, <2>3, <2>4, <2>5 DEF HandlerInv
    <2>7. QED
      BY <2>2, <2>3, <2>4, <2>6, HandlerPairs
  <1>2. ASSUME AddPush(h) PROVE PairInv' /\ OwnStep
    <2>1. PICK j : Remember(h, j, "add.save") /\ j.c = job[h].c /\ j.snap = job[h].snap
      <3>1. CASE job[h].en
        <4>1. PICK ok \in BOOLEAN : Remember(h, [job[h] EXCEPT !.flag = ~ok], "add.save")
          BY <1>2, <3>1 DEF AddPush
        <4> DEFINE k == [job[h] EXCEPT !.flag = ~ok]
        <4>2. k.c = job[h].c /\ k.snap = job[h].snap
          BY <1>h, FlagKeeps
        <4>3. Remember(h, k, "add.save")
          BY <4>1
        <4> HIDE DEF k
        <4>4. QED
          BY <4>2, <4>3
      <3>2. CASE ~job[h].en
        BY <1>2, <3>2 DEF AddPush
      <3>3. QED
        BY <3>1, <3>2
    <2>2. job'[h] = j /\ pc'[h] = "add.save" /\ Goto(h, "add.save")
      BY <2>1, RememberHere
    <2>3. UNCHANGED <<row, stat, batch, cut>> /\ pc[h] = "add.push"
      BY <1>2 DEF AddPush
    <2>4. /\ Clients(row)' = Clients(row) /\ Rows' = Rows /\ (Even <=> Even') /\ RowInv' /\ OwnStep
      BY <1>h, <2>3, SameData, OwnSame
    <2>5. HandlerInv(h)'
      BY <1>h, <2>1, <2>2, <2>3, <2>4 DEF HandlerInv
    <2>6. QED
      BY <2>2, <2>3, <2>4, <2>5, HandlerPairs
  <1>3. ASSUME AddCommit(h) PROVE PairInv' /\ OwnStep
    <2> DEFINE c == job[h].c
    <2>1. /\ pc[h] = "add.save" /\ writer = h /\ batch' = batch /\ cut' = cut
          /\ Finish(h, job[h].flag)
      BY <1>3 DEF AddCommit, PairInv, TypeInv, TypeOK, Writing, Threads
    <2>2. /\ c \in E /\ Even
          /\ job[h].snap.set = row.set /\ job[h].snap.there /\ job[h].snap \in Row
      BY <1>h, <2>1 DEF HandlerInv, Job, PairInv, TypeInv, ArgInv
    <2>3. /\ row' = [job[h].snap EXCEPT !.set[c] = MarkOf(job[h].en)]
          /\ stat' = WithStats({c})
      BY <1>3 DEF AddCommit
    <2>4. row'.set = [row.set EXCEPT ![c] = MarkOf(job[h].en)] /\ row'.there
      BY <2>2, <2>3, SetTyped, MarkTyped
    <2>5. Clients(row)' = Clients(row) \cup {c}
      BY <1>h, <2>2, <2>4, MarkTyped DEF Clients, Row
    <2>6. Rows' = Rows \cup {c}
      BY <1>h, <2>2, <2>3 DEF Rows, WithStats
    <2>7. job'[h] = NoJob /\ pc'[h] = "idle" /\ Goto(h, "idle")
      BY <2>1, FinishHere
    <2>8. HandlerInv(h)' /\ RowInv'
      <3>1. Even'
        BY <2>1, <2>2, <2>5, <2>6 DEF Even
      <3>2. QED
        BY <3>1, <2>4, <2>7, IdleInv DEF RowInv
    <2>9. OwnRow(h)
      BY <1>h, <2>2, <2>4, NoneNoClient DEF OwnRow, Target, Row
    <2>10. QED
      BY <2>1, <2>7, <2>8, <2>9, HandlerPairs, OwnHere
  <1>4. QED
    BY <1>1, <1>2, <1>3

(* From a place of one operation to another: nothing stored changes, and   *)
(* the handler remembers at most whether Xray has answered.                *)
LEMMA PushPairs ==
  ASSUME PairInv, TypeInv', NEW h \in Handlers, OneHandler, NEW f, NEW l,
         Remember(h, [job[h] EXCEPT !.flag = f], l) \/ Remember(h, job[h], l),
         UNCHANGED <<row, stat, batch, cut>>,
         \E G \in {InAdd, InDel, InEdit, InReset, InAddInb, InUpd} : pc[h] \in G /\ l \in G
  PROVE  PairInv' /\ OwnStep
  <1> USE DEF Level, InAdd, InDel, InEdit, InReset, InAddInb, InUpd
  <1>1. /\ HandlerInv(h) /\ RowInv /\ job[h] \in Job
    BY HereInv
  <1>2. PICK j : /\ Remember(h, j, l) /\ j.c = job[h].c /\ j.d = job[h].d
                 /\ j.snap = job[h].snap /\ j.drop = job[h].drop
    <2> DEFINE k == [job[h] EXCEPT !.flag = f]
    <2>1. k.c = job[h].c /\ k.d = job[h].d /\ k.snap = job[h].snap /\ k.drop = job[h].drop
      BY <1>1, FlagKeeps
    <2>2. Remember(h, k, l) \/ Remember(h, job[h], l)
      OBVIOUS
    <2> HIDE DEF k
    <2>3. QED
      BY <2>1, <2>2
  <1>3. job'[h] = j /\ pc'[h] = l /\ Goto(h, l)
    BY <1>2, RememberHere
  <1>4. /\ Clients(row)' = Clients(row) /\ Rows' = Rows /\ (Even <=> Even') /\ RowInv' /\ OwnStep
    BY <1>1, SameData, OwnSame
  <1>5. HandlerInv(h)'
    BY <1>1, <1>2, <1>3, <1>4 DEF HandlerInv
  <1>6. QED
    BY <1>3, <1>4, <1>5, HandlerPairs

LEMMA DelPairs ==
  ASSUME PairInv, TypeInv', NEW h \in Handlers, OneHandler PROVE
    /\ \A c \in E : DelRead(h, c) => PairInv' /\ OwnStep
    /\ DelStat(h) => PairInv' /\ OwnStep
    /\ DelPush(h) => PairInv' /\ OwnStep
    /\ DelSave(h) => PairInv' /\ OwnStep
  <1> USE DEF dbVars, xrayVars, Level, InAdd, InDel, InEdit, InReset, InAddInb, InUpd
  <1>h. /\ HandlerInv(h) /\ RowInv /\ row \in Row /\ stat \in [E -> Mark]
        /\ job[h] \in Job
    BY HereInv
  <1>1. ASSUME NEW c \in E, DelRead(h, c) PROVE PairInv' /\ OwnStep
    <2> DEFINE j == [NoJob EXCEPT !.c = c, !.snap = row]
    <2>1. Remember(h, j, "del.stat") /\ j.c = c /\ j.snap = row
      BY <1>1 DEF DelRead, NoJob
    <2> HIDE DEF j
    <2>2. job'[h] = j /\ pc'[h] = "del.stat" /\ Goto(h, "del.stat")
      BY <2>1, RememberHere
    <2>3. UNCHANGED <<row, stat, batch, cut>>
      BY <1>1 DEF DelRead
    <2>4. /\ Clients(row)' = Clients(row) /\ Rows' = Rows /\ (Even <=> Even') /\ RowInv' /\ OwnStep
      BY <1>h, <2>3, SameData, OwnSame
    <2>5. Even /\ c \in Clients(row) /\ row.there
      BY <1>1, <1>h DEF DelRead, MayBegin, HandlerInv, RowInv
    <2>6. HandlerInv(h)'
      BY <2>1, <2>2, <2>3, <2>4, <2>5 DEF HandlerInv
    <2>7. QED
      BY <2>2, <2>3, <2>4, <2>6, HandlerPairs
  <1>2. ASSUME DelStat(h) PROVE PairInv' /\ OwnStep
    <2> DEFINE c == job[h].c
    <2>1. /\ c \in E /\ c \in Clients(row) /\ Even /\ writer = Nobody
          /\ job[h].snap.set = row.set /\ job[h].snap.there /\ UNCHANGED <<row, batch, cut>>
      BY <1>2, <1>h DEF DelStat, HandlerInv, Clients
    <2>2. CASE stat[c] = "none"
      <3>1. Finish(h, FALSE) /\ stat' = stat
        BY <1>2, <2>2 DEF DelStat
      <3>2. job'[h] = NoJob /\ pc'[h] = "idle" /\ Goto(h, "idle")
        BY <3>1, FinishHere
      <3>3. Even' /\ RowInv' /\ OwnStep
        BY <1>h, <2>1, <3>1, SameData, OwnSame
      <3>4. HandlerInv(h)'
        BY <3>2, <3>3, IdleInv
      <3>5. QED
        BY <2>1, <3>1, <3>2, <3>3, <3>4, HandlerPairs
    <2>3. CASE stat[c] # "none"
      <3>1. PICK l \in InDel : Goto(h, l)
        BY <1>2, <2>3 DEF DelStat
      <3>2. stat' = [stat EXCEPT ![c] = "none"] /\ job' = job
        BY <1>2, <2>3 DEF DelStat
      <3>3. Rows' = Rows \ {c}
        BY <1>h, <2>1, <3>2 DEF Rows
      <3>4. Clients(row)' = Clients(row) /\ RowInv' /\ OwnStep
        BY <1>h, <2>1, OwnSame DEF Clients, RowInv
      <3>5. pc'[h] = l
        BY <3>1, PcOf, HereInv
      <3>6. (Rows \ cut = (Clients(row) \ {c}) \ cut)'
        BY <2>1, <3>2, <3>3, <3>4 DEF Even
      <3>7. HandlerInv(h)'
        BY <2>1, <3>2, <3>4, <3>5, <3>6 DEF HandlerInv
      <3>8. QED
        BY <2>1, <3>1, <3>4, <3>7, HandlerPairs
    <2>4. QED
      BY <2>2, <2>3
  <1>3. ASSUME DelPush(h) PROVE PairInv' /\ OwnStep
    <2>1. PICK ok \in BOOLEAN : Remember(h, [job[h] EXCEPT !.flag = ~ok], "del.save")
      BY <1>3 DEF DelPush
    <2>2. pc[h] = "del.push" /\ UNCHANGED <<row, stat, batch, cut>>
      BY <1>3 DEF DelPush
    <2>3. QED
      BY <2>1, <2>2, PushPairs
  <1>4. ASSUME DelSave(h) PROVE PairInv' /\ OwnStep
    <2> DEFINE c == job[h].c
    <2>1. /\ pc[h] = "del.save" /\ batch' = batch /\ stat' = stat /\ cut' = cut
          /\ Finish(h, job[h].flag)
      BY <1>4 DEF DelSave
    <2>2. /\ c \in E /\ Rows \ cut = (Clients(row) \ {c}) \ cut
          /\ job[h].snap.set = row.set /\ job[h].snap.there /\ job[h].snap \in Row
      BY <1>h, <2>1 DEF HandlerInv, Job, Clients
    <2>3. row' = [job[h].snap EXCEPT !.set[c] = "none"]
      BY <1>4 DEF DelSave
    <2>4. row'.set = [row.set EXCEPT ![c] = "none"] /\ row'.there
      BY <2>2, <2>3, SetTyped DEF Mark
    <2>5. Clients(row)' = Clients(row) \ {c}
      BY <1>h, <2>2, <2>4 DEF Clients, Row
    <2>6. Rows' = Rows
      BY <2>1 DEF Rows
    <2>7. job'[h] = NoJob /\ pc'[h] = "idle" /\ Goto(h, "idle")
      BY <2>1, FinishHere
    <2>8. HandlerInv(h)' /\ RowInv'
      <3>1. Even'
        BY <2>1, <2>2, <2>5, <2>6 DEF Even
      <3>2. QED
        BY <3>1, <2>4, <2>7, IdleInv DEF RowInv
    <2>9. OwnRow(h)
      BY <1>h, <2>2, <2>4, NoneNoClient DEF OwnRow, Target, Row
    <2>10. QED
      BY <2>1, <2>7, <2>8, <2>9, HandlerPairs, OwnHere
  <1>5. QED
    BY <1>1, <1>2, <1>3, <1>4

(* A traffic row is renamed with its client, if there is one.              *)
LEMMA RenamedRows ==
  ASSUME stat \in [E -> Mark], NEW c \in E, NEW d \in E, stat' = Renamed(c, d)
  PROVE  /\ c \in Rows => Rows' = (Rows \ {c}) \cup {d}
         /\ c \notin Rows => Rows' = Rows
  BY DEF Rows, Renamed

LEMMA EditPairs ==
  ASSUME PairInv, TypeInv', NEW h \in Handlers, OneHandler PROVE
    /\ \A c, d \in E, en \in BOOLEAN : EditRead(h, c, d, en) => PairInv' /\ OwnStep
    /\ EditPush(h) => PairInv' /\ OwnStep
    /\ EditSave(h) => PairInv' /\ OwnStep
  <1> USE DEF dbVars, xrayVars, Level, InAdd, InDel, InEdit, InReset, InAddInb, InUpd
  <1>h. /\ HandlerInv(h) /\ RowInv /\ row \in Row /\ stat \in [E -> Mark]
        /\ job[h] \in Job
    BY HereInv
  <1>1. ASSUME NEW c \in E, NEW d \in E, NEW en \in BOOLEAN, EditRead(h, c, d, en)
        PROVE  PairInv' /\ OwnStep
    <2> DEFINE j == [NoJob EXCEPT !.c = c, !.d = d, !.en = en, !.snap = row]
    <2>1. Remember(h, j, "edit.push") /\ j.c = c /\ j.d = d /\ j.snap = row
      BY <1>1 DEF EditRead, NoJob
    <2> HIDE DEF j
    <2>2. job'[h] = j /\ pc'[h] = "edit.push" /\ Goto(h, "edit.push")
      BY <2>1, RememberHere
    <2>3. UNCHANGED <<row, stat, batch, cut>>
      BY <1>1 DEF EditRead
    <2>4. /\ Clients(row)' = Clients(row) /\ Rows' = Rows /\ (Even <=> Even') /\ RowInv' /\ OwnStep
      BY <1>h, <2>3, SameData, OwnSame
    <2>5. Even /\ c \in Clients(row) /\ (d = c \/ d \notin Clients(row)) /\ row.there
      BY <1>1, <1>h DEF EditRead, MayBegin, HandlerInv, RowInv
    <2>6. HandlerInv(h)'
      BY <2>1, <2>2, <2>3, <2>4, <2>5 DEF HandlerInv
    <2>7. QED
      BY <2>2, <2>3, <2>4, <2>6, HandlerPairs
  <1>2. ASSUME EditPush(h) PROVE PairInv' /\ OwnStep
    <2>1. pc[h] = "edit.push" /\ UNCHANGED <<row, stat, batch, cut>>
      BY <1>2 DEF EditPush, WasOn
    <2>2. CASE Finish(h, FALSE)
      <3>1. job'[h] = NoJob /\ pc'[h] = "idle" /\ Goto(h, "idle")
        BY <2>2, FinishHere
      <3>2. /\ Clients(row)' = Clients(row) /\ Rows' = Rows /\ (Even <=> Even') /\ RowInv' /\ OwnStep
        BY <1>h, <2>1, SameData, OwnSame
      <3>3. Even
        BY <1>h, <2>1 DEF HandlerInv
      <3>4. HandlerInv(h)'
        BY <3>1, <3>2, <3>3, IdleInv
      <3>5. QED
        BY <2>1, <3>1, <3>2, <3>4, HandlerPairs
    <2>3. CASE \E f : Remember(h, [job[h] EXCEPT !.flag = f], "edit.save")
      BY <2>1, <2>3, PushPairs
    <2>4. QED
      BY <1>2, <2>2, <2>3 DEF EditPush, WasOn
  <1>3. ASSUME EditSave(h) PROVE PairInv' /\ OwnStep
    <2> DEFINE c == job[h].c
               d == job[h].d
               m == MarkOf(job[h].en)
    <2>1. /\ pc[h] = "edit.save" /\ writer = h /\ batch' = batch
          /\ Finish(h, job[h].flag)
      BY <1>3 DEF EditSave, PairInv, TypeInv, TypeOK, Writing, Threads
    <2>2. /\ c \in E /\ d \in E /\ c \in Clients(row) /\ Even
          /\ job[h].snap.set = row.set /\ job[h].snap.there /\ job[h].snap \in Row
      BY <1>h, <2>1 DEF HandlerInv, Job, PairInv, TypeInv, ArgInv
    <2>3. /\ row' = [job[h].snap EXCEPT !.set[c] = "none", !.set[d] = m]
          /\ stat' = Renamed(c, d) /\ cut' = IF c \in cut THEN cut \cup {d} ELSE cut
      BY <1>3 DEF EditSave
    <2>4. m # "none"
      BY MarkTyped
    <2>5. row'.set = [row.set EXCEPT ![c] = "none", ![d] = m] /\ row'.there
      BY <2>2, <2>3 DEF Row
    <2> HIDE DEF m
    <2>6. Clients(row)' = (Clients(row) \ {c}) \cup {d}
      BY <1>h, <2>2, <2>4, <2>5 DEF Clients, Row
    <2>7. Rows' \ cut' = ((Rows \ {c}) \cup {d}) \ cut'
      <3>1. CASE c \in Rows
        BY <1>h, <2>2, <2>3, <3>1, RenamedRows
      <3>2. CASE c \notin Rows
        <4>1. c \in cut
          BY <2>2, <3>2 DEF Even
        <4>2. Rows' = Rows
          BY <1>h, <2>2, <2>3, <3>2, RenamedRows
        <4>3. QED
          BY <2>3, <3>2, <4>1, <4>2
      <3>3. QED
        BY <3>1, <3>2
    <2>8. cut \subseteq cut'
      BY <2>3
    <2>9. Even'
      BY <2>2, <2>6, <2>7, <2>8 DEF Even
    <2>10. job'[h] = NoJob /\ pc'[h] = "idle" /\ Goto(h, "idle")
      BY <2>1, FinishHere
    <2>11. HandlerInv(h)' /\ RowInv'
      BY <2>5, <2>9, <2>10, IdleInv DEF RowInv
    <2>12. OwnRow(h)
      BY <1>h, <2>2, <2>5, NoneNoClient DEF OwnRow, Target, Row
    <2>13. QED
      BY <2>1, <2>10, <2>11, <2>12, HandlerPairs, OwnHere
  <1>4. QED
    BY <1>1, <1>2, <1>3

LEMMA ResetPairs ==
  ASSUME PairInv, TypeInv', NEW h \in Handlers, OneHandler PROVE
    /\ \A c \in E : ResetRead(h, c) => PairInv' /\ OwnStep
    /\ ResetPush(h) => PairInv' /\ OwnStep
    /\ ResetSave(h) => PairInv' /\ OwnStep
  <1> USE DEF dbVars, xrayVars, Level, InAdd, InDel, InEdit, InReset, InAddInb, InUpd
  <1>h. /\ HandlerInv(h) /\ RowInv /\ row \in Row /\ stat \in [E -> Mark]
        /\ job[h] \in Job
    BY HereInv
  <1>1. ASSUME NEW c \in E, ResetRead(h, c) PROVE PairInv' /\ OwnStep
    <2> DEFINE j == [NoJob EXCEPT !.c = c]
    <2>1. j.c = c /\ \E l \in InReset : Remember(h, j, l)
      BY <1>1 DEF ResetRead, NoJob
    <2> HIDE DEF j
    <2>2. PICK l \in InReset : job'[h] = j /\ pc'[h] = l /\ Goto(h, l)
      BY <2>1, RememberHere
    <2>3. UNCHANGED <<row, stat, batch, cut>>
      BY <1>1 DEF ResetRead
    <2>4. /\ Clients(row)' = Clients(row) /\ Rows' = Rows /\ (Even <=> Even') /\ RowInv' /\ OwnStep
      BY <1>h, <2>3, SameData, OwnSame
    <2>5. Even /\ c \in Rows
      BY <1>1, <1>h DEF ResetRead, MayBegin, HandlerInv, Rows
    <2>6. HandlerInv(h)'
      BY <2>1, <2>2, <2>4, <2>5 DEF HandlerInv
    <2>7. QED
      BY <2>2, <2>3, <2>4, <2>6, HandlerPairs
  <1>2. ASSUME ResetPush(h) PROVE PairInv' /\ OwnStep
    <2>1. PICK ok \in BOOLEAN : Remember(h, [job[h] EXCEPT !.flag = ~ok], "reset.save")
      BY <1>2 DEF ResetPush
    <2>2. pc[h] = "reset.push" /\ UNCHANGED <<row, stat, batch, cut>>
      BY <1>2 DEF ResetPush
    <2>3. QED
      BY <2>1, <2>2, PushPairs
  <1>3. ASSUME ResetSave(h) PROVE PairInv' /\ OwnStep
    <2> DEFINE c == job[h].c
    <2>1. /\ pc[h] = "reset.save" /\ UNCHANGED <<row, batch, cut>> /\ writer = Nobody
          /\ Finish(h, job[h].flag) /\ stat' = [stat EXCEPT ![c] = "on"]
      BY <1>3 DEF ResetSave
    <2>2. c \in Rows /\ Even
      BY <1>h, <2>1 DEF HandlerInv
    <2>3. Rows' = Rows
      BY <1>h, <2>1, <2>2 DEF Rows
    <2>4. Clients(row)' = Clients(row) /\ RowInv' /\ OwnStep
      BY <1>h, <2>1, OwnSame DEF Clients, RowInv
    <2>5. job'[h] = NoJob /\ pc'[h] = "idle" /\ Goto(h, "idle")
      BY <2>1, FinishHere
    <2>6. HandlerInv(h)'
      BY <2>1, <2>2, <2>3, <2>4, <2>5, IdleInv DEF Even
    <2>7. QED
      BY <2>1, <2>4, <2>5, <2>6, HandlerPairs
  <1>4. QED
    BY <1>1, <1>2, <1>3

(* The new inbound and the rows of its clients are stored.                 *)
LEMMA AddedInbound ==
  ASSUME PairInv, NEW h \in Handlers, pc[h] \in InAddInb, row' = job[h].snap,
         stat' = WithStats(Clients(job[h].snap)), cut' = cut
  PROVE  Even' /\ RowInv' /\ OwnRow(h)
  <1>1. /\ Clients(row) = {} /\ job[h].snap.there /\ job[h].c = NoClient /\ Even
        /\ stat \in [E -> Mark]
    BY HereInv DEF HandlerInv, Level
  <1>2. Rows' = Rows \cup Clients(row)'
    BY <1>1 DEF Rows, WithStats, Clients
  <1>3. QED
    BY <1>1, <1>2 DEF Even, RowInv, OwnRow, Target

LEMMA AddInbPairs ==
  ASSUME PairInv, TypeInv', NEW h \in Handlers, OneHandler PROVE
    /\ \A s \in [E -> Mark], en \in BOOLEAN : AddInbRead(h, s, en) => PairInv' /\ OwnStep
    /\ AddInbPush(h) => PairInv' /\ OwnStep
    /\ AddInbSave(h) => PairInv' /\ OwnStep
  <1> USE DEF dbVars, xrayVars, Level, InAdd, InDel, InEdit, InReset, InAddInb, InUpd
  <1>h. /\ HandlerInv(h) /\ RowInv /\ row \in Row /\ stat \in [E -> Mark]
        /\ job[h] \in Job
    BY HereInv
  <1>1. ASSUME NEW s \in [E -> Mark], NEW en \in BOOLEAN, AddInbRead(h, s, en)
        PROVE  PairInv' /\ OwnStep
    <2> DEFINE j == [NoJob EXCEPT !.snap = [there |-> TRUE, enable |-> en, set |-> s]]
    <2>1. Remember(h, j, "addinb.push") /\ j.c = NoClient /\ j.drop = {} /\ j.snap.there
      BY <1>1 DEF AddInbRead, NoJob
    <2> HIDE DEF j
    <2>2. job'[h] = j /\ pc'[h] = "addinb.push" /\ Goto(h, "addinb.push")
      BY <2>1, RememberHere
    <2>3. UNCHANGED <<row, stat, batch, cut>>
      BY <1>1 DEF AddInbRead
    <2>4. /\ Clients(row)' = Clients(row) /\ Rows' = Rows /\ (Even <=> Even') /\ RowInv' /\ OwnStep
      BY <1>h, <2>3, SameData, OwnSame
    <2>5. Even /\ Clients(row) = {}
      BY <1>1, <1>h DEF AddInbRead, MayBegin, HandlerInv, RowInv
    <2>6. HandlerInv(h)'
      BY <2>1, <2>2, <2>4, <2>5 DEF HandlerInv
    <2>7. QED
      BY <2>2, <2>3, <2>4, <2>6, HandlerPairs
  <1>2. ASSUME AddInbPush(h) PROVE PairInv' /\ OwnStep
    <2>1. pc[h] = "addinb.push" /\ UNCHANGED <<row, stat, batch, cut>>
      BY <1>2 DEF AddInbPush
    <2>2. \/ \E f : Remember(h, [job[h] EXCEPT !.flag = f], "addinb.save")
          \/ Remember(h, job[h], "addinb.save")
      BY <1>2 DEF AddInbPush
    <2>3. QED
      BY <2>1, <2>2, PushPairs
  <1>3. ASSUME AddInbSave(h) PROVE PairInv' /\ OwnStep
    <2>1. /\ pc[h] = "addinb.save" /\ writer = h /\ batch' = batch /\ cut' = cut
          /\ Finish(h, job[h].flag)
      BY <1>3 DEF AddInbSave, PairInv, TypeInv, TypeOK, Writing, Threads
    <2>2. row' = job[h].snap /\ stat' = WithStats(Clients(job[h].snap))
      BY <1>3 DEF AddInbSave
    <2>3. Even' /\ RowInv' /\ OwnRow(h)
      BY <2>1, <2>2, AddedInbound
    <2>4. job'[h] = NoJob /\ pc'[h] = "idle" /\ Goto(h, "idle")
      BY <2>1, FinishHere
    <2>5. HandlerInv(h)'
      BY <2>3, <2>4, IdleInv
    <2>6. QED
      BY <2>1, <2>3, <2>4, <2>5, HandlerPairs, OwnHere
  <1>4. QED
    BY <1>1, <1>2, <1>3

LEMMA DelInbPairs ==
  ASSUME PairInv, TypeInv', NEW h \in Handlers, OneHandler PROVE
    /\ DelInbPush(h) => PairInv' /\ OwnStep
    /\ DelInbStats(h) => PairInv' /\ OwnStep
    /\ DelInbRow(h) => PairInv' /\ OwnStep
  <1> USE DEF dbVars, xrayVars, Level, InAdd, InDel, InEdit, InReset, InAddInb, InUpd
  <1>h. /\ HandlerInv(h) /\ RowInv /\ row \in Row /\ stat \in [E -> Mark]
        /\ job[h] \in Job
    BY HereInv
  <1>1. ASSUME DelInbPush(h) PROVE PairInv' /\ OwnStep
    <2>1. pc[h] = "idle" /\ UNCHANGED <<row, stat, batch, cut>>
      BY <1>1, <1>h DEF DelInbPush, MayBegin, HandlerInv
    <2>2. PICK j : Remember(h, j, "delinb.stats") /\ j.c = job[h].c /\ j.drop = job[h].drop
      <3>1. CASE row.enable
        <4>1. PICK f : Remember(h, [job[h] EXCEPT !.flag = f], "delinb.stats")
          BY <1>1, <3>1 DEF DelInbPush
        <4> DEFINE k == [job[h] EXCEPT !.flag = f]
        <4>2. k.c = job[h].c /\ k.drop = job[h].drop
          BY <1>h, FlagKeeps
        <4>3. Remember(h, k, "delinb.stats")
          BY <4>1
        <4> HIDE DEF k
        <4>4. QED
          BY <4>2, <4>3
      <3>2. CASE ~row.enable
        BY <1>1, <3>2 DEF DelInbPush
      <3>3. QED
        BY <3>1, <3>2
    <2>3. job'[h] = j /\ pc'[h] = "delinb.stats" /\ Goto(h, "delinb.stats")
      BY <2>2, RememberHere
    <2>4. /\ Clients(row)' = Clients(row) /\ Rows' = Rows /\ (Even <=> Even') /\ RowInv' /\ OwnStep
      BY <1>h, <2>1, SameData, OwnSame
    <2>5. Even /\ j.c = NoClient /\ j.drop = {}
      BY <1>h, <2>1, <2>2 DEF HandlerInv
    <2>6. HandlerInv(h)'
      BY <2>1, <2>3, <2>4, <2>5 DEF HandlerInv
    <2>7. QED
      BY <2>1, <2>3, <2>4, <2>6, HandlerPairs
  <1>2. ASSUME DelInbStats(h) PROVE PairInv' /\ OwnStep
    <2>1. /\ pc[h] = "delinb.stats" /\ UNCHANGED <<row, batch, job>> /\ writer = Nobody
          /\ Goto(h, "delinb.row") /\ stat' = [e \in E |-> "none"]
      BY <1>2 DEF DelInbStats
    <2>2. Rows' = {} /\ pc'[h] = "delinb.row"
      BY <2>1, PcOf, HereInv DEF Rows
    <2>3. RowInv' /\ OwnStep
      BY <1>h, <2>1, OwnSame DEF RowInv, Clients
    <2>4. HandlerInv(h)'
      BY <1>h, <2>1, <2>2 DEF HandlerInv
    <2>5. QED
      BY <2>1, <2>3, <2>4, HandlerPairs
  <1>3. ASSUME DelInbRow(h) PROVE PairInv' /\ OwnStep
    <2>1. /\ pc[h] = "delinb.row" /\ stat' = stat /\ batch' = batch /\ row' = NoRow
      BY <1>3 DEF DelInbRow
    <2>2. Rows = {} /\ job[h].c = NoClient /\ job[h].drop = {}
      BY <1>h, <2>1 DEF HandlerInv
    <2>3. Finish(h, job[h].flag)
      BY <1>3, <2>2 DEF DelInbRow
    <2>4. job'[h] = NoJob /\ pc'[h] = "idle" /\ Goto(h, "idle")
      BY <2>3, FinishHere
    <2>5. Rows' = {} /\ Clients(row)' = {}
      BY <2>1, <2>2 DEF Rows, Clients, NoRow
    <2>6. HandlerInv(h)' /\ RowInv'
      BY <2>4, <2>5, IdleInv DEF RowInv, Even
    <2>7. OwnRow(h)
      BY <2>2 DEF OwnRow, Target
    <2>8. QED
      BY <2>1, <2>4, <2>6, <2>7, HandlerPairs, OwnHere
  <1>4. QED
    BY <1>1, <1>2, <1>3

LEMMA UpdPairs ==
  ASSUME PairInv, TypeInv', NEW h \in Handlers, OneHandler PROVE
    /\ \A en \in BOOLEAN : UpdLoad(h, en) => PairInv' /\ OwnStep
    /\ UpdPush(h) => PairInv' /\ OwnStep
    /\ UpdSave(h) => PairInv' /\ OwnStep
  <1> USE DEF dbVars, xrayVars, Level, InAdd, InDel, InEdit, InReset, InAddInb, InUpd
  <1>h. /\ HandlerInv(h) /\ RowInv /\ row \in Row /\ stat \in [E -> Mark]
        /\ job[h] \in Job
    BY HereInv
  <1>1. ASSUME NEW en \in BOOLEAN, UpdLoad(h, en) PROVE PairInv' /\ OwnStep
    <2> DEFINE form == [row EXCEPT !.enable = en]
               j == [NoJob EXCEPT !.snap = form]
    <2>1. Remember(h, j, "updinb.push") /\ j.snap = form
      BY <1>1 DEF UpdLoad, NoJob
    <2>2. form.set = row.set /\ form.there = row.there
      BY <1>h DEF Row
    <2> HIDE DEF j, form
    <2>3. job'[h] = j /\ pc'[h] = "updinb.push" /\ Goto(h, "updinb.push")
      BY <2>1, RememberHere
    <2>4. UNCHANGED <<row, stat, batch, cut>>
      BY <1>1 DEF UpdLoad
    <2>5. /\ Clients(row)' = Clients(row) /\ Rows' = Rows /\ (Even <=> Even') /\ RowInv' /\ OwnStep
      BY <1>h, <2>4, SameData, OwnSame
    <2>6. Even /\ row.there
      BY <1>1, <1>h DEF UpdLoad, MayBegin, HandlerInv
    <2>7. HandlerInv(h)'
      BY <2>1, <2>2, <2>3, <2>4, <2>5, <2>6 DEF HandlerInv
    <2>8. QED
      BY <2>3, <2>4, <2>5, <2>7, HandlerPairs
  <1>2. ASSUME UpdPush(h) PROVE PairInv' /\ OwnStep
    <2>1. pc[h] = "updinb.push" /\ UNCHANGED <<row, stat, batch, cut>>
      BY <1>2 DEF UpdPush
    <2>2. CASE Finish(h, FALSE)
      <3>1. job'[h] = NoJob /\ pc'[h] = "idle" /\ Goto(h, "idle")
        BY <2>2, FinishHere
      <3>2. /\ Clients(row)' = Clients(row) /\ Rows' = Rows /\ (Even <=> Even') /\ RowInv' /\ OwnStep
        BY <1>h, <2>1, SameData, OwnSame
      <3>3. Even
        BY <1>h, <2>1 DEF HandlerInv
      <3>4. HandlerInv(h)'
        BY <3>1, <3>2, <3>3, IdleInv
      <3>5. QED
        BY <2>1, <3>1, <3>2, <3>4, HandlerPairs
    <2>3. CASE \E f : Remember(h, [job[h] EXCEPT !.flag = f], "updinb.save")
      BY <2>1, <2>3, PushPairs
    <2>4. QED
      BY <1>2, <2>2, <2>3 DEF UpdPush
  <1>3. ASSUME UpdSave(h) PROVE PairInv' /\ OwnStep
    <2> DEFINE form == job[h].snap
               lost == Clients(row) \ Clients(form)
               new == Clients(form) \ Clients(row)
    <2>1. /\ pc[h] = "updinb.save" /\ writer = h /\ batch' = batch /\ cut' = cut
          /\ Finish(h, job[h].flag)
      BY <1>3 DEF UpdSave, PairInv, TypeInv, TypeOK, Writing, Threads
    <2>2. form.set = row.set /\ form.there /\ Even
      BY <1>h, <2>1 DEF HandlerInv
    <2>3. /\ row' = form
          /\ stat' = [e \in E |-> IF e \in lost THEN "none" ELSE WithStats(new)[e]]
      BY <1>3 DEF UpdSave
    <2>4. lost = {} /\ new = {}
      BY <2>2 DEF Clients
    <2> HIDE DEF lost, new
    <2>5. Rows' = Rows
      BY <1>h, <2>3, <2>4 DEF Rows, WithStats
    <2>6. Clients(row)' = Clients(row) /\ RowInv' /\ OwnStep
      BY <2>2, <2>3, OwnSame DEF Clients, RowInv
    <2>7. job'[h] = NoJob /\ pc'[h] = "idle" /\ Goto(h, "idle")
      BY <2>1, FinishHere
    <2>8. HandlerInv(h)'
      BY <2>1, <2>2, <2>5, <2>6, <2>7, IdleInv DEF Even
    <2>9. QED
      BY <2>1, <2>6, <2>7, <2>8, HandlerPairs
  <1>4. QED
    BY <1>1, <1>2, <1>3

(* A request that is cut off: what it has written and not completed        *)
(* concerns the clients that join cut.                                     *)
LEMMA CutPairs ==
  ASSUME PairInv, TypeInv', NEW h \in Handlers, OneHandler, NEW lost, Unwind(h, lost),
         stat' = stat \/ writer = Nobody, Even', RowInv', pc[h] # "idle" => OwnRow(h),
         pc[h] = "idle" => row' = row
  PROVE  PairInv' /\ OwnStep
  <1>1. job'[h] = NoJob /\ pc'[h] = "idle" /\ Goto(h, "idle") /\ batch' = batch
    BY HereInv, PcOf DEF Unwind
  <1>2. HandlerInv(h)'
    BY <1>1, IdleInv
  <1>3. OwnStep
    BY <1>1, OwnHere, OwnSame
  <1>4. QED
    BY <1>1, <1>2, <1>3, HandlerPairs

LEMMA BreakPairs ==
  ASSUME PairInv, TypeInv', NEW h \in Handlers, OneHandler, CleanOps, Break(h)
  PROVE  PairInv' /\ OwnStep
  <1> USE DEF dbVars, xrayVars, Level, InAdd, InDel, InEdit, InReset, InAddInb, InUpd
  <1>h. /\ HandlerInv(h) /\ RowInv /\ row \in Row /\ stat \in [E -> Mark]
        /\ job[h] \in Job
    BY HereInv
  <1>s. ASSUME row' = row PROVE RowInv' /\ OwnRow(h) /\ Clients(row)' = Clients(row)
    BY <1>h, <1>s DEF RowInv, OwnRow, Clients
  <1>1. CASE AddBreak(h)
    <2> DEFINE c == job[h].c
    <2>1. Even /\ row' = row /\ writer = Nobody
      BY <1>1, <1>h DEF AddBreak, HandlerInv
    <2>2. CASE proc = "nil"
      <3>1. stat' = stat /\ Unwind(h, {})
        BY <1>1, <2>2 DEF AddBreak
      <3>2. Even'
        BY <2>1, <3>1, SameData DEF Unwind
      <3>3. QED
        BY <1>s, <2>1, <3>1, <3>2, CutPairs
    <2>3. CASE proc # "nil"
      <3>1. stat' = WithStats({c}) /\ Unwind(h, {c})
        BY <1>1, <2>3 DEF AddBreak
      <3>2. Rows' \ {c} = Rows \ {c} /\ cut' = cut \cup {c}
        BY <1>h, <3>1 DEF Rows, WithStats, Unwind
      <3>3. Even'
        BY <1>s, <2>1, <3>2 DEF Even
      <3>4. QED
        BY <1>s, <2>1, <3>1, <3>3, CutPairs
    <2>4. QED
      BY <2>2, <2>3
  <1>2. CASE DelBreak(h)
    <2>1. /\ row' = row /\ stat' = stat /\ Unwind(h, {job[h].c})
          /\ Rows \ cut = (Clients(row) \ {job[h].c}) \ cut
      BY <1>2, <1>h DEF DelBreak, HandlerInv
    <2>2. cut' = cut \cup {job[h].c} /\ Rows' = Rows
      BY <2>1 DEF Unwind, Rows
    <2>3. Even'
      BY <1>s, <2>1, <2>2 DEF Even
    <2>4. QED
      BY <1>s, <2>1, <2>3, CutPairs
  <1>3. CASE EditBreak(h)
    <2> DEFINE c == job[h].c
               d == job[h].d
    <2>1. /\ Even /\ row' = row /\ writer = Nobody /\ c \in E /\ d \in E
          /\ stat' = Renamed(c, d) /\ Unwind(h, IF c = d THEN {} ELSE {c, d})
      BY <1>3, <1>h DEF EditBreak, HandlerInv, PairInv, TypeInv, ArgInv
    <2>2. /\ c \in Rows => Rows' = (Rows \ {c}) \cup {d}
          /\ c \notin Rows => Rows' = Rows
      BY <1>h, <2>1, RenamedRows
    <2>3. cut' = cut \cup (IF c = d THEN {} ELSE {c, d})
      BY <2>1 DEF Unwind
    <2>4. Even'
      BY <1>s, <2>1, <2>2, <2>3 DEF Even
    <2>5. QED
      BY <1>s, <2>1, <2>4, CutPairs
  <1>4. CASE AddInbBreak(h)
    <2>1. /\ row' = job[h].snap /\ stat' = WithStats(Clients(job[h].snap)) /\ writer = Nobody
          /\ Unwind(h, {}) /\ pc[h] \in InAddInb
      BY <1>4 DEF AddInbBreak
    <2>2. cut' = cut
      BY <2>1 DEF Unwind
    <2>3. Even' /\ RowInv' /\ OwnRow(h)
      BY <2>1, <2>2, AddedInbound
    <2>4. QED
      BY <2>1, <2>3, CutPairs
  <1>5. CASE UpdBreak(h)
    <2> DEFINE lost == Clients(row) \ Clients(job[h].snap)
               new == Clients(job[h].snap) \ Clients(row)
    <2>1. /\ Even /\ row' = row /\ writer = Nobody /\ job[h].snap.set = row.set
      BY <1>5, <1>h DEF UpdBreak, HandlerInv
    <2>2. /\ stat' = [e \in E |-> IF e \in lost THEN "none" ELSE WithStats(new)[e]]
          /\ Unwind(h, lost \cup new)
      BY <1>5 DEF UpdBreak
    <2>3. lost = {} /\ new = {}
      BY <2>1 DEF Clients
    <2> HIDE DEF lost, new
    <2>4. Rows' = Rows /\ cut' = cut
      BY <1>h, <2>2, <2>3 DEF Rows, WithStats, Unwind
    <2>5. Even'
      BY <1>s, <2>1, <2>4 DEF Even
    <2>6. QED
      BY <1>s, <2>1, <2>2, <2>5, CutPairs
  <1>6. CASE ResetBreak(h) \/ DelInbBreak(h)
    <2>1. /\ row' = row /\ stat' = stat /\ Unwind(h, {})
          /\ pc[h] \in {"reset.push", "idle", "dep.delinb"}
      BY <1>6 DEF ResetBreak, DelInbBreak, MayBegin
    <2>2. Even
      BY <1>h, <2>1 DEF HandlerInv
    <2>3. Even'
      BY <2>1, <2>2, SameData DEF Unwind
    <2>4. QED
      BY <1>s, <2>1, <2>3, CutPairs
  <1>7. QED
    BY <1>1, <1>2, <1>3, <1>4, <1>5, <1>6 DEF Break

LEMMA HandlePairs ==
  ASSUME PairInv, TypeInv', NEW h \in Handlers, Handle(h), OneHandler, CleanOps
  PROVE  PairInv' /\ OwnStep
  <1>1. ~DepRead(h) /\ ~DepSave(h) /\ ~DepPurge(h)
    BY HereInv DEF DepRead, DepSave, DepPurge, MayBegin, CleanOps, HandlerInv, Level, InAdd,
                   InDel, InEdit, InReset, InAddInb, InUpd
  <1>2. QED
    BY <1>1, AddPairs, DelPairs, EditPairs, ResetPairs, AddInbPairs, DelInbPairs, UpdPairs,
       BreakPairs
    DEF Handle, Break

(* Steps of the jobs and of the environment keep the settings' clients and *)
(* which rows there are.                                                   *)
LEMMA SamePairs ==
  ASSUME PairInv, TypeInv', row'.set = row.set, row'.there = row.there, Rows' = Rows,
         \A h \in Handlers : pc'[h] = pc[h] /\ job'[h] = job[h],
         BatchInv', cut' = cut
  PROVE  PairInv' /\ OwnStep
  <1>1. Clients(row)' = Clients(row) /\ RowInv' /\ OwnStep
    BY OwnSame DEF PairInv, RowInv, Clients
  <1>2. \A h \in Handlers : HandlerInv(h)'
    BY <1>1 DEF PairInv, HandlerInv, Even
  <1>3. QED
    BY <1>1, <1>2 DEF PairInv

LEMMA JobElsewhere ==
  ASSUME TypeOK, NEW t \in Jobs, NEW l, Goto(t, l)
  PROVE  /\ \A h \in Handlers : pc'[h] = pc[h]
         /\ \A s \in Jobs : pc'[s] = IF s = t THEN l ELSE pc[s]
  <1>1. \A s \in Threads : pc'[s] = IF s = t THEN l ELSE pc[s]
    BY DEF Goto, TypeOK
  <1>2. QED
    BY <1>1, NamesAssumption DEF Threads

(* A job outside AddTraffic's transaction. *)
LEMMA ControlPairs ==
  ASSUME PairInv, TypeInv', NEW t \in Jobs, NEW l, Goto(t, l),
         l \notin {"disable", "save"}, UNCHANGED <<row, stat, batch, job, cut>>
  PROVE  PairInv' /\ OwnStep
  <1>1. /\ \A h \in Handlers : pc'[h] = pc[h]
        /\ \A s \in Jobs : pc'[s] = IF s = t THEN l ELSE pc[s]
    BY JobElsewhere DEF PairInv, TypeInv
  <1>2. Rows' = Rows
    BY DEF Rows
  <1>3. BatchInv'
    BY <1>1, <1>2 DEF PairInv, BatchInv
  <1>4. QED
    BY <1>1, <1>2, <1>3, SamePairs

LEMMA TrafficPairs ==
  ASSUME PairInv, TypeInv', NEW t \in Jobs PROVE
    /\ AddTraffic(t) => PairInv' /\ OwnStep
    /\ Disable(t) => PairInv' /\ OwnStep
    /\ CommitTraffic(t) => PairInv' /\ OwnStep
  <1> USE DEF dbVars, xrayVars
  <1>h. TypeOK /\ BatchInv /\ batch \in [Jobs -> Batch] /\ stat \in [E -> Mark] /\ row \in Row
    BY DEF PairInv, TypeInv, TypeOK
  <1>1. ASSUME AddTraffic(t) PROVE PairInv' /\ OwnStep
    <2>1. UNCHANGED <<row, stat, job, cut>> /\ Goto(t, "disable")
      BY <1>1 DEF AddTraffic
    <2>2. PICK dated \in SUBSET Renewable, f \in BOOLEAN :
             batch' = [batch EXCEPT ![t] = [NoBatch EXCEPT !.renew = dated, !.flag = f]]
      BY <1>1 DEF AddTraffic
    <2>3. /\ batch'[t].renew = dated /\ batch'[t].drop = {}
          /\ \A s \in Jobs : s # t => batch'[s] = batch[s]
      BY <1>h, <2>2 DEF NoBatch
    <2>4. dated \subseteq Rows
      BY <1>h DEF Renewable, Rows, TypeOK
    <2>5. Rows' = Rows
      BY <2>1 DEF Rows
    <2>6. /\ \A h \in Handlers : pc'[h] = pc[h]
          /\ \A s \in Jobs : pc'[s] = IF s = t THEN "disable" ELSE pc[s]
      BY <1>h, <2>1, JobElsewhere
    <2>7. BatchInv'
      BY <1>h, <2>3, <2>4, <2>5, <2>6 DEF BatchInv
    <2>8. QED
      BY <2>1, <2>5, <2>6, <2>7, SamePairs
  <1>2. ASSUME Disable(t) PROVE PairInv' /\ OwnStep
    <2> DEFINE r == batch[t].renew
               drop == {e \in due \ r : stat[e] = "on"}
    <2>1. UNCHANGED <<row, stat, job, cut>> /\ Goto(t, "save") /\ pc[t] = "disable"
      BY <1>2 DEF Disable
    <2>2. PICK inb, f :
             batch' = [batch EXCEPT ![t] = [renew |-> r, drop |-> drop, inb |-> inb,
                                            flag |-> f]]
      BY <1>2 DEF Disable
    <2>3. drop \subseteq Rows /\ r \subseteq Rows
      BY <1>h, <2>1 DEF BatchInv, Rows, TypeOK
    <2> HIDE DEF r, drop
    <2>4. /\ batch'[t].renew = r /\ batch'[t].drop = drop
          /\ \A s \in Jobs : s # t => batch'[s] = batch[s]
      BY <1>h, <2>2
    <2>5. Rows' = Rows
      BY <2>1 DEF Rows
    <2>6. /\ \A h \in Handlers : pc'[h] = pc[h]
          /\ \A s \in Jobs : pc'[s] = IF s = t THEN "save" ELSE pc[s]
      BY <1>h, <2>1, JobElsewhere
    <2>7. BatchInv'
      BY <1>h, <2>3, <2>4, <2>5, <2>6 DEF BatchInv
    <2>8. QED
      BY <2>1, <2>5, <2>6, <2>7, SamePairs
  <1>3. ASSUME CommitTraffic(t) PROVE PairInv' /\ OwnStep
    <2>1. /\ job' = job /\ cut' = cut /\ pc[t] = "save" /\ batch' = [batch EXCEPT ![t] = NoBatch]
          /\ stat' = Marked(batch[t])
      BY <1>3 DEF CommitTraffic
    <2>2. PICK l \in {"idle", "decide"} : Goto(t, l)
      BY <1>3 DEF CommitTraffic
    <2>3. row'.set = row.set /\ row'.there = row.there
      BY <1>3, <1>h DEF CommitTraffic, Row
    <2>4. batch[t].renew \subseteq Rows /\ batch[t].drop \subseteq Rows
      BY <1>h, <2>1 DEF BatchInv
    <2>5. Rows' = Rows
      BY <1>h, <2>1, <2>4 DEF Rows, Marked
    <2>6. /\ \A h \in Handlers : pc'[h] = pc[h]
          /\ \A s \in Jobs : pc'[s] = IF s = t THEN l ELSE pc[s]
      BY <1>h, <2>2, JobElsewhere
    <2>7. \A s \in Jobs : s # t => batch'[s] = batch[s]
      BY <1>h, <2>1
    <2>8. BatchInv'
      BY <1>h, <2>2, <2>5, <2>6, <2>7 DEF BatchInv
    <2>9. QED
      BY <2>1, <2>3, <2>5, <2>6, <2>8, SamePairs
  <1>4. QED
    BY <1>1, <1>2, <1>3

LEMMA RestartPairs ==
  ASSUME PairInv, TypeInv',
         \/ Tick \/ (\E force \in BOOLEAN : RestartBegin(force))
         \/ Keep \/ StopXray \/ NewProcess \/ StartXray
  PROVE  PairInv' /\ OwnStep
  <1>1. PICK t \in Jobs, l \in {"traffic", "idle", "boot", "start"} : Goto(t, l)
    BY JobsTyped DEF Tick, RestartBegin, Keep, StopXray, NewProcess, StartXray
  <1>2. UNCHANGED <<row, stat, batch, job, cut>>
    BY DEF Tick, RestartBegin, Keep, StopXray, NewProcess, StartXray, dbVars
  <1>3. QED
    BY <1>1, <1>2, ControlPairs

LEMMA StillPairs ==
  ASSUME PairInv, TypeInv', row' = row, Rows' = Rows, UNCHANGED <<pc, job, batch, cut>>
  PROVE  PairInv' /\ OwnStep
  <1>1. BatchInv'
    BY DEF PairInv, BatchInv
  <1>2. QED
    BY <1>1, SamePairs

LEMMA OtherPairs ==
  ASSUME PairInv, TypeInv',
         \/ ResetAllClientTraffics \/ ResetAllTraffics
         \/ (\E e \in E : Expire(e)) \/ InboundOver
  PROVE  PairInv' /\ OwnStep
  <1> USE DEF dbVars, xrayVars
  <1>1. row' = row /\ UNCHANGED <<pc, job, batch, cut>>
    BY DEF ResetAllClientTraffics, ResetAllTraffics, Expire, InboundOver
  <1>2. Rows' = Rows
    <2>1. CASE ResetAllClientTraffics
      BY <2>1, HereInv DEF ResetAllClientTraffics, Rows, PairInv, TypeInv, TypeOK
    <2>2. CASE ResetAllTraffics \/ (\E e \in E : Expire(e)) \/ InboundOver
      BY <2>2 DEF ResetAllTraffics, Expire, InboundOver, Rows
    <2>3. QED
      BY <2>1, <2>2
  <1>3. QED
    BY <1>1, <1>2, StillPairs

(* A panel that dies inside a deletion cuts it off; the transactions are   *)
(* rolled back, or have only renewed clients.                              *)
LEMMA DiesPairs ==
  ASSUME PairInv, TypeInv', PanelDies, row' = row, Rows' = Rows, OneHandler
  PROVE  PairInv' /\ OwnStep
  <1> USE DEF Level, InAdd, InDel, InEdit, InReset, InAddInb, InUpd
  <1>1. PICK h \in Handlers : Handlers = {h}
    BY DEF OneHandler
  <1>2. cut' = cut \cup CutOff(h)
    BY <1>1 DEF PanelDies
  <1>3. Even'
    <2>1. Clients(row)' = Clients(row)
      BY DEF Clients
    <2>2. HandlerInv(h)
      BY HereInv
    <2>3. CASE pc[h] \in InDel
      BY <1>2, <2>1, <2>2, <2>3 DEF HandlerInv, CutOff, Even
    <2>4. CASE pc[h] = "delinb.row"
      BY <1>2, <2>1, <2>2, <2>4 DEF HandlerInv, CutOff, Even
    <2>5. CASE pc[h] \in Level
      BY <1>2, <2>1, <2>2, <2>5 DEF HandlerInv, CutOff, Even
    <2>6. QED
      BY <2>2, <2>3, <2>4, <2>5 DEF HandlerInv
  <1>4. \A t \in Threads : pc'[t] = "idle"
    BY DEF PanelDies
  <1>5. \A g \in Handlers : HandlerInv(g)'
    <2> SUFFICES ASSUME NEW g \in Handlers PROVE HandlerInv(g)'
      OBVIOUS
    <2>1. pc'[g] = "idle" /\ job'[g] = NoJob
      BY <1>4 DEF PanelDies, Threads
    <2>2. QED
      BY <1>3, <2>1, IdleInv
  <1>6. BatchInv' /\ RowInv' /\ OwnStep
    BY <1>4, OwnSame DEF BatchInv, Threads, PairInv, RowInv, Clients
  <1>7. QED
    BY <1>5, <1>6 DEF PairInv

LEMMA CrashPairs ==
  ASSUME PairInv, TypeInv', PanelCrash \/ TickPanic, OneHandler
  PROVE  PairInv' /\ OwnStep
  <1>1. PanelDies /\ row' = row
    BY DEF PanelCrash, TickPanic, dbVars
  <1>2. Rows' = Rows
    <2>1. CASE PanelCrash
      BY <2>1 DEF PanelCrash, dbVars, Rows
    <2>2. CASE TickPanic
      <3> DEFINE r == batch[Ticker].renew
      <3>1. r \subseteq Rows
        BY <2>2, JobsTyped DEF TickPanic, PairInv, BatchInv
      <3>2. stat' = Marked([NoBatch EXCEPT !.renew = r])
        BY <2>2 DEF TickPanic
      <3> HIDE DEF r
      <3>3. stat' = [e \in E |-> IF e \in r THEN "on" ELSE stat[e]]
        BY <3>2 DEF Marked, NoBatch
      <3>4. QED
        BY <3>1, <3>3 DEF Rows
    <2>3. QED
      BY <2>1, <2>2
  <1>3. QED
    BY <1>1, <1>2, DiesPairs

LEMMA InitPairs == Init => PairInv
  <1> SUFFICES ASSUME Init PROVE PairInv
    OBVIOUS
  <1>1. TypeInv
    BY InitType
  <1>2. \A t \in Threads : pc[t] = "idle"
    BY DEF Init
  <1>3. Even
    BY DEF Init, Clients, Rows, Even
  <1>4. RowInv
    BY DEF Init, RowInv, Clients, NoRow
  <1>5. BatchInv
    BY <1>2 DEF BatchInv, Threads
  <1>6. \A h \in Handlers : HandlerInv(h)
    BY <1>2, <1>3 DEF Init, HandlerInv, NoJob, Threads, Level, InAdd, InDel, InEdit, InReset,
                      InAddInb, InUpd
  <1>7. QED
    BY <1>1, <1>4, <1>5, <1>6 DEF PairInv

LEMMA NextPairs ==
  ASSUME OneHandler, CleanOps PROVE PairInv /\ [Next]_vars => PairInv' /\ OwnStep
  <1> SUFFICES ASSUME PairInv, [Next]_vars PROVE PairInv' /\ OwnStep
    OBVIOUS
  <1>1. TypeInv'
    BY NextType DEF PairInv
  <1>2. CASE Next
    <2>1. CASE \E h \in Handlers : Handle(h)
      BY <1>1, <2>1, HandlePairs
    <2>2. CASE \E t \in Jobs : AddTraffic(t) \/ Disable(t) \/ CommitTraffic(t)
      BY <1>1, <2>2, TrafficPairs
    <2>3. CASE \/ Tick \/ (\E force \in BOOLEAN : RestartBegin(force))
               \/ Keep \/ StopXray \/ NewProcess \/ StartXray
      BY <1>1, <2>3, RestartPairs
    <2>4. CASE \/ ResetAllClientTraffics \/ ResetAllTraffics
               \/ (\E e \in E : Expire(e)) \/ InboundOver
      BY <1>1, <2>4, OtherPairs
    <2>5. CASE PanelCrash \/ TickPanic
      BY <1>1, <2>5, CrashPairs
    <2>6. QED
      BY <1>2, <2>1, <2>2, <2>3, <2>4, <2>5 DEF Next
  <1>3. CASE UNCHANGED vars
    BY <1>1, <1>3, StillPairs DEF vars, dbVars, xrayVars, Rows
  <1>4. QED
    BY <1>2, <1>3

LEMMA PairedFollows == ASSUME OneHandler PROVE PairInv => Paired
  <1> SUFFICES ASSUME PairInv, NoHandler PROVE \A e \in E \ cut : row.set[e] = "none" <=> stat[e] = "none"
    BY DEF Paired
  <1>1. PICK h \in Handlers : pc[h] = "idle"
    BY DEF OneHandler, NoHandler
  <1>2. Even
    BY <1>1, HereInv DEF HandlerInv, Level
  <1>3. QED
    BY <1>2 DEF Clients, Rows, Even

(* With one handler at a time, however many clients: whenever no handler   *)
(* is at work, the clients of the settings are those with a traffic row,   *)
(* whatever the jobs and restarts do meanwhile and whatever the API does,  *)
(* but for the clients of requests that were cut off between two writes,   *)
(* by a call that panicked or by the end of the panel's process.           *)
THEOREM PairedAlways == ASSUME OneHandler, CleanOps PROVE Spec => []Paired
  <1>1. Init => PairInv
    BY InitPairs
  <1>2. PairInv /\ [Next]_vars => PairInv'
    BY NextPairs
  <1>3. PairInv => Paired
    BY PairedFollows
  <1>4. QED
    BY <1>1, <1>2, <1>3, PTL DEF Spec

(* With one handler at a time, no save of the inbound row changes a client *)
(* the handler was not asked to change.                                    *)
THEOREM OwnClientsAlways == ASSUME OneHandler, CleanOps PROVE Spec => OwnClientsOnly
  <1>1. Init => PairInv
    BY InitPairs
  <1>2. PairInv /\ [Next]_vars => PairInv'
    BY NextPairs
  <1>3. PairInv /\ [Next]_vars => [OwnStep]_vars
    BY NextPairs
  <1>4. Spec => [][OwnStep]_vars
    BY <1>1, <1>2, <1>3, PTL DEF Spec
  <1>5. QED
    BY <1>4 DEF OwnStep, OwnClientsOnly

-----------------------------------------------------------------------------
(* Nobody is let in who is excluded.                                       *)

(* What may go on. A restart filters by traffic rows read before they are  *)
(* disabled, a renewal lets in who is switched off, and AddInbound and     *)
(* UpdateInbound give Xray all clients.                                    *)
GhostWays ==
    /\ OneHandler /\ ~ApiMayFail /\ ~RestartsOverlap /\ Renewing = {}
    /\ Ops \subseteq {"add", "del", "edit", "reset", "delinb", "depleted", "tick", "expire"}

Removing == {"delinb.stats", "delinb.row"}

(* Xray has the inbound exactly when it is enabled and not being deleted.  *)
(* While the inbound is enabled Xray is up and its port known, so that no  *)
(* call panics.                                                            *)
XrayInv(h) ==
    /\ live.inb <=> row.enable /\ pc[h] \notin Removing
    /\ ~live.inb => live.users = {}
    /\ row.enable => row.there /\ live.up /\ proc = "set"

(* A call fails, and a restart is asked for and made, for a disabled or    *)
(* deleted inbound only: it brings nobody back.                            *)
RestartInv(h) ==
    /\ pc[Restarter] # "idle" => /\ pc[h] = "idle" /\ ~row.enable
                                 /\ ~built.config.inb /\ built.config.users = {}
    /\ need \/ job[h].flag \/ (\E t \in Jobs : batch[t].flag)
          => ~row.enable \/ pc[h] \in Removing

TrafficInv ==
    /\ ~over
    /\ \A t \in Jobs : /\ batch[t].renew = {} /\ ~batch[t].inb
                       /\ pc[t] = "save" => \A e \in batch[t].drop : stat[e] = "on"

(* What a handler has read still stands, and no row outlives its client    *)
(* (in a disabled inbound one may: a request may have been cut off there). *)
SnapPc == InAdd \cup InDel \cup InEdit \cup {"del.stat", "dep.save"}
StatInv(h) ==
    /\ pc[h] \notin InAddInb \cup InUpd
    /\ pc[h] \in SnapPc => job[h].snap = row
    /\ row.enable =>
        /\ \A e \in E : row.set[e] = "none" => stat[e] = "none"
        /\ pc[h] \in InAdd => row.set[job[h].c] = "none"
        /\ pc[h] \in InDel => stat[job[h].c] = "none"
        /\ pc[h] \in InEdit => job[h].d = job[h].c \/ row.set[job[h].d] = "none"
        /\ pc[h] \in InReset => row.set[job[h].c] # "none"
        /\ pc[h] = "reset.push" => row.set[job[h].c] = "on" /\ stat[job[h].c] = "off"
        /\ pc[h] = "dep.save" => \A e \in job[h].drop : stat[e] = "off"
        /\ pc[h] \in {"delinb.row", "dep.purge"} => \A e \in E : stat[e] = "none"

(* The clients that Xray has lost and the tables will disable; those it    *)
(* has been given, and those it has lost, ahead of the handler's save.     *)
Leaving == {e \in E : \E t \in Jobs : pc[t] = "save" /\ e \in batch[t].drop}
Added(h) == {e \in E : \/ pc[h] = "add.save" /\ job[h].en /\ e = job[h].c
                       \/ pc[h] = "edit.save" /\ job[h].en /\ e = job[h].d
                       \/ pc[h] = "reset.save" /\ row.set[e] = "on" /\ e = job[h].c}
Removed(h) == {e \in E : pc[h] \in {"del.save", "edit.save"} /\ e = job[h].c}
LetInBy(h) == (Admitted \ Removed(h)) \cup Added(h)
UsersInv(h) == live.users \subseteq LetInBy(h) \ Leaving

GhostInv ==
    /\ TypeInv /\ TrafficInv
    /\ \A h \in Handlers : XrayInv(h) /\ RestartInv(h) /\ StatInv(h) /\ UsersInv(h)

LEMMA GhostHere ==
  ASSUME GhostInv, NEW h \in Handlers
  PROVE  /\ TypeInv /\ TypeOK /\ TrafficInv /\ DataOK
         /\ XrayInv(h) /\ RestartInv(h) /\ StatInv(h) /\ UsersInv(h)
         /\ row \in Row /\ stat \in [E -> Mark] /\ job[h] \in Job /\ h \in Threads
         /\ live \in [up : BOOLEAN, inb : BOOLEAN, users : SUBSET E]
         /\ pc[h] \in HandlerPc
  BY TypeData DEF GhostInv, TypeInv, TypeOK, DataOK, Threads

LEMMA RememberAt ==
  ASSUME TypeOK, NEW h \in Handlers, NEW j, NEW l, Remember(h, j, l)
  PROVE  job'[h] = j /\ pc'[h] = l /\ Goto(h, l)
  BY PcOf DEF Remember, TypeOK

LEMMA FinishAt ==
  ASSUME TypeOK, NEW h \in Handlers, NEW r, Finish(h, r)
  PROVE  job'[h] = NoJob /\ pc'[h] = "idle" /\ Goto(h, "idle") /\ need' = (need \/ r)
  BY PcOf DEF Finish, TypeOK

LEMMA NoJobPlain == ~NoJob.flag /\ NoJob.drop = {}
  BY DEF NoJob

(* A handler's step leaves the jobs where they are. *)
LEMMA JobsStay ==
  ASSUME TypeOK, NEW h \in Handlers, NEW l, Goto(h, l)
  PROVE  \A t \in Jobs : pc'[t] = pc[t]
  BY NamesAssumption DEF Goto, TypeOK, Threads

(* Nobody is leaving while a handler may write. *)
LEMMA NoneLeaving ==
  ASSUME TypeOK, NEW h \in Handlers, writer \in {Nobody, h} PROVE Leaving = {}
  BY NamesAssumption DEF Leaving, TypeOK, Writing, Threads

(* A handler's step, of which is known what it does to the row and to Xray. *)
LEMMA GhostStep ==
  ASSUME GhostWays, GhostInv, TypeInv', NEW h \in Handlers, NEW l, Goto(h, l),
         pc[h] # "idle" \/ pc[Restarter] = "idle",
         UNCHANGED <<over, batch>>, writer \in {Nobody, h} \/ stat' = stat,
         need' => need \/ job[h].flag,
         row'.enable => row.enable,
         job'[h].flag \/ pc[h] \in Removing => ~row'.enable \/ l \in Removing,
         XrayInv(h)', StatInv(h)',
         live'.users \subseteq LetInBy(h)', (live'.users \ live.users) \cap Leaving = {}
  PROVE  GhostInv'
  <1>h. TypeOK /\ TrafficInv /\ RestartInv(h) /\ UsersInv(h) /\ pc'[h] = l
    BY GhostHere, PcOf
  <1>1. \A t \in Jobs : pc'[t] = pc[t]
    BY <1>h, JobsStay
  <1>2. Leaving' = Leaving
    BY <1>1 DEF Leaving
  <1>3. pc'[Restarter] = "idle"
    BY <1>1, <1>h, JobsTyped DEF RestartInv
  <1>4. TrafficInv'
    <2>1. CASE stat' = stat
      BY <1>h, <1>1, <2>1 DEF TrafficInv
    <2>2. CASE writer \in {Nobody, h}
      <3>1. \A t \in Jobs : pc[t] # "save"
        BY <1>h, <2>2, NamesAssumption DEF TypeOK, Writing, Threads
      <3>2. QED
        BY <1>h, <1>1, <3>1 DEF TrafficInv
    <2>3. QED
      BY <2>1, <2>2
  <1>5. RestartInv(h)'
    BY <1>h, <1>3 DEF RestartInv
  <1>6. UsersInv(h)'
    BY <1>h, <1>2 DEF UsersInv
  <1>7. \A g \in Handlers : g = h
    BY DEF GhostWays, OneHandler
  <1>8. QED
    BY <1>4, <1>5, <1>6, <1>7 DEF GhostInv

LEMMA AddGhost ==
  ASSUME GhostWays, GhostInv, TypeInv', NEW h \in Handlers, row.enable PROVE
    /\ \A c \in E, en \in BOOLEAN : AddRead(h, c, en) => GhostInv'
    /\ AddPush(h) => GhostInv'
    /\ AddCommit(h) => GhostInv'
  <1> USE DEF dbVars, xrayVars, SnapPc, InAdd, InDel, InEdit, InReset, InAddInb, InUpd, Removing
  <1>h. /\ TypeOK /\ XrayInv(h) /\ RestartInv(h) /\ StatInv(h) /\ UsersInv(h) /\ row \in Row
        /\ stat \in [E -> Mark] /\ job[h] \in Job /\ h \in Threads
        /\ live \in [up : BOOLEAN, inb : BOOLEAN, users : SUBSET E]
    BY GhostHere
  <1>1. ASSUME NEW c \in E, NEW en \in BOOLEAN, AddRead(h, c, en) PROVE GhostInv'
    <2> DEFINE j == [NoJob EXCEPT !.c = c, !.en = en, !.snap = row]
    <2>1. Remember(h, j, "add.push") /\ j.c = c /\ j.snap = row /\ ~j.flag
      BY <1>1 DEF AddRead, NoJob
    <2> HIDE DEF j
    <2>2. job'[h] = j /\ pc'[h] = "add.push" /\ Goto(h, "add.push")
      BY <1>h, <2>1, RememberAt
    <2>3. /\ UNCHANGED <<row, stat, live, need, over, batch, proc>> /\ row.set[c] = "none"
          /\ pc[h] = "idle" /\ pc[Restarter] = "idle"
      BY <1>1 DEF AddRead, MayBegin, GhostWays
    <2>4. XrayInv(h)' /\ StatInv(h)'
      BY <1>h, <2>1, <2>2, <2>3 DEF XrayInv, StatInv
    <2>5. live'.users \subseteq LetInBy(h)'
      BY <1>h, <2>2, <2>3 DEF UsersInv, LetInBy, Admitted, Removed, Added
    <2>6. QED
      BY <2>1, <2>2, <2>3, <2>4, <2>5, GhostStep
  <1>2. ASSUME AddPush(h) PROVE GhostInv'
    <2> DEFINE c == job[h].c
    <2>1. /\ pc[h] = "add.push" /\ writer = Nobody
          /\ UNCHANGED <<row, stat, need, over, batch, proc>>
      BY <1>2 DEF AddPush
    <2>2. c \in E /\ c \notin live.users
      BY <1>h, <2>1 DEF TypeInv, ArgInv, GhostInv, StatInv, UsersInv, LetInBy, Admitted, Added
    <2>3. PICK j \in Job :
                          /\ Remember(h, j, "add.save")
                          /\ j.c = c /\ j.en = job[h].en /\ j.snap = job[h].snap
                          /\ j.flag => job[h].flag \/ ~row.enable
                          /\ live'.up = live.up /\ live'.inb = live.inb
                          /\ \/ live'.users = live.users
                             \/ job[h].en /\ live.inb /\ live'.users = live.users \cup {c}
      <3>1. CASE job[h].en
        <4>1. PICK ok \in BOOLEAN : /\ AddUser(c, ok)
                                    /\ Remember(h, [job[h] EXCEPT !.flag = ~ok], "add.save")
          BY <1>2, <3>1 DEF AddPush
        <4>2. /\ ok <=> live.up /\ live.inb
              /\ live' = [live EXCEPT !.users = @ \cup (IF ok THEN {c} ELSE {})]
          BY <2>2, <4>1 DEF AddUser, Outcomes, CanAdd, HasInbound, LetIn, GhostWays
        <4>3. live.inb => live.up
          BY <1>h, <2>1 DEF XrayInv, RestartInv
        <4> DEFINE k == [job[h] EXCEPT !.flag = ~ok]
        <4>4. /\ k \in Job /\ k.c = c /\ k.en = job[h].en /\ k.snap = job[h].snap /\ k.flag = ~ok
          BY <1>h DEF Job
        <4>5. ~ok => ~row.enable
          BY <1>h, <2>1, <4>2, <4>3 DEF XrayInv
        <4>6. Remember(h, k, "add.save")
          BY <4>1
        <4> HIDE DEF k
        <4>7. /\ live'.up = live.up /\ live'.inb = live.inb
              /\ \/ live'.users = live.users
                 \/ job[h].en /\ live.inb /\ live'.users = live.users \cup {c}
          BY <1>h, <3>1, <4>2
        <4>8. QED
          BY <4>4, <4>5, <4>6, <4>7
      <3>2. CASE ~job[h].en
        BY <1>2, <1>h, <3>2 DEF AddPush
      <3>3. QED
        BY <3>1, <3>2
    <2>4. job'[h] = j /\ pc'[h] = "add.save" /\ Goto(h, "add.save")
      BY <1>h, <2>3, RememberAt
    <2>5. XrayInv(h)'
      <3>1. pc'[Restarter] = pc[Restarter]
        BY <1>h, <2>4, JobsStay, JobsTyped
      <3>2. QED
        BY <1>h, <2>1, <2>3, <2>4, <3>1 DEF XrayInv
    <2>6. StatInv(h)'
      BY <1>h, <2>1, <2>3, <2>4 DEF StatInv
    <2>7. live'.users \subseteq LetInBy(h)'
      BY <1>h, <2>1, <2>2, <2>3, <2>4 DEF UsersInv, LetInBy, Admitted, Removed, Added
    <2>8. Leaving = {}
      BY <1>h, <2>1, NoneLeaving
    <2>9. job'[h].flag => ~row'.enable
      BY <1>h, <2>1, <2>3, <2>4 DEF RestartInv
    <2>10. QED
      BY <2>1, <2>4, <2>5, <2>6, <2>7, <2>8, <2>9, GhostStep
  <1>3. ASSUME AddCommit(h) PROVE GhostInv'
    <2> DEFINE c == job[h].c
    <2>1. /\ pc[h] = "add.save" /\ writer = h /\ UNCHANGED <<live, over, batch, proc>>
          /\ Finish(h, job[h].flag)
      BY <1>3, <1>h DEF AddCommit, TypeOK, Writing
    <2>2. c \in E /\ job[h].snap = row /\ row.set[c] = "none" /\ stat[c] = "none"
      BY <1>h, <2>1 DEF TypeInv, ArgInv, GhostInv, StatInv
    <2>3. row' = [row EXCEPT !.set[c] = MarkOf(job[h].en)] /\ stat' = WithStats({c})
      BY <1>3, <2>2 DEF AddCommit
    <2>4. /\ row'.enable = row.enable /\ row'.there = row.there
          /\ row'.set = [row.set EXCEPT ![c] = MarkOf(job[h].en)]
      BY <1>h, <2>2, <2>3 DEF Row
    <2>5. \A e \in E : stat'[e] = IF e = c THEN "on" ELSE stat[e]
      BY <1>h, <2>2, <2>3 DEF WithStats
    <2>6. /\ job'[h] = NoJob /\ pc'[h] = "idle" /\ Goto(h, "idle")
          /\ need' = (need \/ job[h].flag)
      BY <1>h, <2>1, FinishAt
    <2>7. XrayInv(h)'
      <3>1. pc'[Restarter] = pc[Restarter]
        BY <1>h, <2>6, JobsStay, JobsTyped
      <3>2. QED
        BY <1>h, <2>1, <2>4, <2>6, <3>1 DEF XrayInv
    <2>8. StatInv(h)'
      BY <1>h, <2>2, <2>4, <2>5, <2>6, MarkTyped DEF StatInv, Row
    <2>9. live'.users \subseteq LetInBy(h)'
      BY <1>h, <2>1, <2>2, <2>4, <2>5, <2>6
      DEF XrayInv, UsersInv, LetInBy, Admitted, Removed, Added, MarkOf, Row
    <2>10. ~job'[h].flag
      BY <2>6 DEF NoJob
    <2>11. QED
      BY <2>1, <2>4, <2>6, <2>7, <2>8, <2>9, <2>10, GhostStep
  <1>4. QED
    BY <1>1, <1>2, <1>3

(* The steps that neither remove the inbound nor change whether it is on. *)
LEMMA SameXray ==
  ASSUME GhostInv, NEW h \in Handlers, NEW l, Goto(h, l),
         pc[h] \notin Removing, l \notin Removing,
         row'.enable = row.enable, row'.there = row.there,
         live'.up = live.up, live'.inb = live.inb, ~live.inb => live'.users = {},
         proc' = proc
  PROVE  XrayInv(h)'
  <1>h. TypeOK /\ XrayInv(h)
    BY GhostHere
  <1>1. pc'[Restarter] = pc[Restarter] /\ pc'[h] = l
    BY <1>h, JobsStay, JobsTyped, PcOf
  <1>2. QED
    BY <1>h, <1>1 DEF XrayInv

LEMMA DelGhost ==
  ASSUME GhostWays, GhostInv, TypeInv', NEW h \in Handlers, row.enable PROVE
    /\ \A c \in E : DelRead(h, c) => GhostInv'
    /\ DelStat(h) => GhostInv'
    /\ DelPush(h) => GhostInv'
    /\ DelSave(h) => GhostInv'
  <1> USE DEF dbVars, xrayVars, SnapPc, InAdd, InDel, InEdit, InReset, InAddInb, InUpd, Removing
  <1>h. /\ TypeOK /\ XrayInv(h) /\ RestartInv(h) /\ StatInv(h) /\ UsersInv(h) /\ row \in Row
        /\ stat \in [E -> Mark] /\ job[h] \in Job /\ h \in Threads
        /\ live \in [up : BOOLEAN, inb : BOOLEAN, users : SUBSET E]
    BY GhostHere
  <1>1. ASSUME NEW c \in E, DelRead(h, c) PROVE GhostInv'
    <2> DEFINE j == [NoJob EXCEPT !.c = c, !.snap = row]
    <2>1. Remember(h, j, "del.stat") /\ j.c = c /\ j.snap = row /\ ~j.flag
      BY <1>1 DEF DelRead, NoJob
    <2> HIDE DEF j
    <2>2. job'[h] = j /\ pc'[h] = "del.stat" /\ Goto(h, "del.stat")
      BY <1>h, <2>1, RememberAt
    <2>3. /\ UNCHANGED <<row, stat, live, need, over, batch, proc>>
          /\ pc[h] = "idle" /\ pc[Restarter] = "idle"
      BY <1>1 DEF DelRead, MayBegin, GhostWays
    <2>4. XrayInv(h)'
      BY <1>h, <2>2, <2>3, SameXray DEF XrayInv
    <2>5. StatInv(h)'
      BY <1>h, <2>1, <2>2, <2>3 DEF StatInv
    <2>6. live'.users \subseteq LetInBy(h)'
      BY <1>h, <2>2, <2>3 DEF UsersInv, LetInBy, Admitted, Removed, Added
    <2>7. QED
      BY <2>1, <2>2, <2>3, <2>4, <2>5, <2>6, GhostStep
  <1>2. ASSUME DelStat(h) PROVE GhostInv'
    <2> DEFINE c == job[h].c
    <2>1. /\ pc[h] = "del.stat" /\ writer = Nobody /\ UNCHANGED <<row, live, over, batch, proc>>
      BY <1>2 DEF DelStat
    <2>2. c \in E /\ job[h].snap = row
      BY <1>h, <2>1 DEF TypeInv, ArgInv, GhostInv, StatInv
    <2>3. CASE stat[c] = "none"
      <3>1. Finish(h, FALSE) /\ stat' = stat
        BY <1>2, <2>3 DEF DelStat
      <3>2. /\ job'[h] = NoJob /\ pc'[h] = "idle" /\ Goto(h, "idle") /\ need' = (need \/ FALSE)
            /\ ~job'[h].flag
        BY <1>h, <3>1, FinishAt, NoJobPlain
      <3>3. XrayInv(h)'
        BY <1>h, <2>1, <3>2, SameXray DEF XrayInv
      <3>4. StatInv(h)'
        BY <1>h, <2>1, <3>1, <3>2 DEF StatInv
      <3>5. live'.users \subseteq LetInBy(h)'
        BY <1>h, <2>1, <3>1, <3>2 DEF UsersInv, LetInBy, Admitted, Removed, Added
      <3>6. QED
        BY <2>1, <3>1, <3>2, <3>3, <3>4, <3>5, GhostStep
    <2>4. CASE stat[c] # "none"
      <3> DEFINE l == IF row.set[c] = "on" /\ stat[c] = "on" THEN "del.push" ELSE "del.save"
      <3>1. stat' = [stat EXCEPT ![c] = "none"] /\ Goto(h, l) /\ UNCHANGED <<job, need>>
        BY <1>2, <2>2, <2>4 DEF DelStat
      <3>2. pc'[h] = l
        BY <1>h, <3>1, PcOf
      <3>3. XrayInv(h)'
        BY <1>h, <2>1, <3>1, SameXray DEF XrayInv
      <3>4. StatInv(h)'
        BY <1>h, <2>1, <2>2, <3>1, <3>2 DEF StatInv
      <3>5. live'.users \subseteq LetInBy(h)'
        BY <1>h, <2>1, <2>2, <2>4, <3>1, <3>2
        DEF UsersInv, LetInBy, Admitted, Removed, Added, Mark, Row
      <3>6. job'[h].flag => ~row'.enable
        BY <1>h, <2>1, <3>1 DEF RestartInv
      <3>7. QED
        BY <2>1, <3>1, <3>3, <3>4, <3>5, <3>6, GhostStep
    <2>5. QED
      BY <2>3, <2>4
  <1>3. ASSUME DelPush(h) PROVE GhostInv'
    <2> DEFINE c == job[h].c
    <2>1. /\ pc[h] = "del.push" /\ UNCHANGED <<row, stat, need, over, batch, proc>>
      BY <1>3 DEF DelPush
    <2>2. c \in E
      BY <2>1 DEF TypeInv, ArgInv, GhostInv
    <2>3. PICK ok \in BOOLEAN : /\ RemoveUser(c, ok)
                                /\ Remember(h, [job[h] EXCEPT !.flag = ~ok], "del.save")
      BY <1>3 DEF DelPush
    <2>4. /\ ok <=> live.up /\ live.inb
          /\ live' = [live EXCEPT !.users = @ \ (IF ok THEN {c} ELSE {})]
      BY <2>3 DEF RemoveUser, Outcomes, HasInbound, ShutOut, GhostWays
    <2>5. live.inb => live.up
      BY <1>h, <2>1 DEF XrayInv, RestartInv
    <2>6. /\ live'.up = live.up /\ live'.inb = live.inb
          /\ ~live.inb => live'.users = {}
          /\ live'.users = live.users \ {c}
      BY <1>h, <2>4, <2>5 DEF XrayInv
    <2> DEFINE j == [job[h] EXCEPT !.flag = ~ok]
    <2>7. j.c = c /\ j.snap = job[h].snap /\ j.flag = ~ok /\ Remember(h, j, "del.save")
      BY <1>h, <2>3 DEF Job
    <2> HIDE DEF j
    <2>8. job'[h] = j /\ pc'[h] = "del.save" /\ Goto(h, "del.save")
      BY <1>h, <2>7, RememberAt
    <2>9. XrayInv(h)'
      BY <2>1, <2>6, <2>8, SameXray
    <2>10. StatInv(h)'
      BY <1>h, <2>1, <2>7, <2>8 DEF StatInv
    <2>11. live'.users \subseteq LetInBy(h)'
      BY <1>h, <2>1, <2>2, <2>6, <2>7, <2>8 DEF UsersInv, LetInBy, Admitted, Removed, Added
    <2>12. job'[h].flag => ~row'.enable
      BY <1>h, <2>1, <2>4, <2>5, <2>7, <2>8 DEF XrayInv
    <2>13. QED
      BY <2>1, <2>6, <2>8, <2>9, <2>10, <2>11, <2>12, GhostStep
  <1>4. ASSUME DelSave(h) PROVE GhostInv'
    <2> DEFINE c == job[h].c
    <2>1. /\ pc[h] = "del.save" /\ writer = Nobody /\ UNCHANGED <<live, stat, over, batch, proc>>
          /\ Finish(h, job[h].flag)
      BY <1>4 DEF DelSave
    <2>2. c \in E /\ job[h].snap = row /\ stat[c] = "none"
      BY <1>h, <2>1 DEF TypeInv, ArgInv, GhostInv, StatInv
    <2>3. row' = [row EXCEPT !.set[c] = "none"]
      BY <1>4, <2>2 DEF DelSave
    <2>4. /\ row'.enable = row.enable /\ row'.there = row.there
          /\ row'.set = [row.set EXCEPT ![c] = "none"]
      BY <1>h, <2>2, <2>3, SetTyped DEF Mark
    <2>5. /\ job'[h] = NoJob /\ pc'[h] = "idle" /\ Goto(h, "idle")
          /\ need' = (need \/ job[h].flag) /\ ~job'[h].flag
      BY <1>h, <2>1, FinishAt, NoJobPlain
    <2>6. XrayInv(h)'
      BY <1>h, <2>1, <2>4, <2>5, SameXray DEF XrayInv
    <2>7. StatInv(h)'
      BY <1>h, <2>1, <2>2, <2>4, <2>5 DEF StatInv, Row
    <2>8. live'.users \subseteq LetInBy(h)'
      BY <1>h, <2>1, <2>2, <2>4, <2>5 DEF UsersInv, LetInBy, Admitted, Removed, Added, Row
    <2>9. QED
      BY <2>1, <2>4, <2>5, <2>6, <2>7, <2>8, GhostStep
  <1>5. QED
    BY <1>1, <1>2, <1>3, <1>4

LEMMA EditGhost ==
  ASSUME GhostWays, GhostInv, TypeInv', NEW h \in Handlers, row.enable PROVE
    /\ \A c, d \in E, en \in BOOLEAN : EditRead(h, c, d, en) => GhostInv'
    /\ EditPush(h) => GhostInv'
    /\ EditSave(h) => GhostInv'
  <1> USE DEF dbVars, xrayVars, SnapPc, InAdd, InDel, InEdit, InReset, InAddInb, InUpd, Removing
  <1>h. /\ TypeOK /\ XrayInv(h) /\ RestartInv(h) /\ StatInv(h) /\ UsersInv(h) /\ row \in Row
        /\ stat \in [E -> Mark] /\ job[h] \in Job /\ h \in Threads
        /\ live \in [up : BOOLEAN, inb : BOOLEAN, users : SUBSET E]
    BY GhostHere
  <1>1. ASSUME NEW c \in E, NEW d \in E, NEW en \in BOOLEAN, EditRead(h, c, d, en) PROVE GhostInv'
    <2> DEFINE j == [NoJob EXCEPT !.c = c, !.d = d, !.en = en, !.snap = row]
    <2>1. Remember(h, j, "edit.push") /\ j.c = c /\ j.d = d /\ j.snap = row /\ ~j.flag
      BY <1>1 DEF EditRead, NoJob
    <2> HIDE DEF j
    <2>2. job'[h] = j /\ pc'[h] = "edit.push" /\ Goto(h, "edit.push")
      BY <1>h, <2>1, RememberAt
    <2>3. /\ UNCHANGED <<row, stat, live, need, over, batch, proc>>
          /\ pc[h] = "idle" /\ pc[Restarter] = "idle"
          /\ d = c \/ row.set[d] = "none"
      BY <1>1 DEF EditRead, MayBegin, GhostWays, Clients
    <2>4. XrayInv(h)'
      BY <1>h, <2>2, <2>3, SameXray DEF XrayInv
    <2>5. StatInv(h)'
      BY <1>h, <2>1, <2>2, <2>3 DEF StatInv
    <2>6. live'.users \subseteq LetInBy(h)'
      BY <1>h, <2>2, <2>3 DEF UsersInv, LetInBy, Admitted, Removed, Added
    <2>7. QED
      BY <2>1, <2>2, <2>3, <2>4, <2>5, <2>6, GhostStep
  <1>2. ASSUME EditPush(h) PROVE GhostInv'
    <2> DEFINE c == job[h].c
               d == job[h].d
    <2>1. /\ pc[h] = "edit.push" /\ writer = Nobody /\ UNCHANGED <<row, stat, over, batch, proc>>
      BY <1>2 DEF EditPush
    <2>2. c \in E /\ d \in E /\ job[h].snap = row /\ (d = c \/ row.set[d] = "none")
      BY <1>h, <2>1 DEF TypeInv, ArgInv, GhostInv, StatInv
    <2>3. CASE c # d /\ stat[c] # "none" /\ stat[d] # "none"
      <3>1. Finish(h, FALSE) /\ live' = live
        BY <1>2, <2>3 DEF EditPush
      <3>2. /\ job'[h] = NoJob /\ pc'[h] = "idle" /\ Goto(h, "idle") /\ need' = (need \/ FALSE)
            /\ ~job'[h].flag
        BY <1>h, <3>1, FinishAt, NoJobPlain
      <3>3. XrayInv(h)'
        BY <1>h, <2>1, <3>1, <3>2, SameXray DEF XrayInv
      <3>4. StatInv(h)'
        BY <1>h, <2>1, <3>2 DEF StatInv
      <3>5. live'.users \subseteq LetInBy(h)'
        BY <1>h, <2>1, <3>1, <3>2 DEF UsersInv, LetInBy, Admitted, Removed, Added
      <3>6. QED
        BY <2>1, <3>1, <3>2, <3>3, <3>4, <3>5, GhostStep
    <2>4. CASE ~(c # d /\ stat[c] # "none" /\ stat[d] # "none")
      <3> DEFINE drop == WasOn(h)
      <3>1. PICK gone \in Outcomes(HasInbound) :
              LET rest == IF drop /\ gone THEN live.users \ {c} ELSE live.users IN
              \E ok \in Outcomes(HasInbound /\ d \notin rest) :
                 /\ live' = [live EXCEPT !.users = IF job[h].en /\ ok THEN rest \cup {d} ELSE rest]
                 /\ Remember(h, [job[h] EXCEPT !.flag = (drop /\ ~gone) \/ (job[h].en /\ ~ok)],
                             "edit.save")
                 /\ UNCHANGED need
        BY <1>2, <2>4 DEF EditPush
      <3> DEFINE rest == IF drop /\ gone THEN live.users \ {c} ELSE live.users
      <3>2. PICK ok \in Outcomes(HasInbound /\ d \notin rest) :
              /\ live' = [live EXCEPT !.users = IF job[h].en /\ ok THEN rest \cup {d} ELSE rest]
              /\ Remember(h, [job[h] EXCEPT !.flag = (drop /\ ~gone) \/ (job[h].en /\ ~ok)],
                          "edit.save")
              /\ UNCHANGED need
        BY <3>1
      <3>3. /\ drop <=> row.set[c] = "on"
            /\ gone <=> live.inb
            /\ ok <=> live.inb /\ d \notin rest
        BY <1>h, <2>1, <2>2, <3>1, <3>2
        DEF Outcomes, HasInbound, GhostWays, WasOn, XrayInv, RestartInv
      <3>4. d = c \/ d \notin live.users
        BY <1>h, <2>1, <2>2 DEF UsersInv, LetInBy, Admitted, Added
      <3>5. live.users \ {c} = rest
        BY <1>h, <2>1, <2>2, <3>3 DEF UsersInv, LetInBy, Admitted, Added, XrayInv
      <3>6. live.inb => ok
        BY <3>3, <3>4, <3>5
      <3> DEFINE f == (drop /\ ~gone) \/ (job[h].en /\ ~ok)
                 j == [job[h] EXCEPT !.flag = f]
      <3>7. /\ j.c = c /\ j.d = d /\ j.en = job[h].en /\ j.snap = row /\ j.flag = f
            /\ Remember(h, j, "edit.save")
        BY <1>h, <2>2, <3>2 DEF Job
      <3>8. f => ~row.enable
        BY <1>h, <2>1, <3>3, <3>6 DEF XrayInv
      <3>9. /\ live'.up = live.up /\ live'.inb = live.inb
            /\ live'.users = IF job[h].en /\ ok THEN (live.users \ {c}) \cup {d}
                             ELSE live.users \ {c}
        BY <1>h, <3>2, <3>5
      <3> HIDE DEF j, f, drop, rest
      <3>10. job'[h] = j /\ pc'[h] = "edit.save" /\ Goto(h, "edit.save")
        BY <1>h, <3>7, RememberAt
      <3>11. XrayInv(h)'
        BY <1>h, <2>1, <3>3, <3>9, <3>10, SameXray DEF XrayInv
      <3>12. StatInv(h)'
        BY <1>h, <2>1, <2>2, <3>7, <3>10 DEF StatInv
      <3>13. live'.users \subseteq LetInBy(h)'
        BY <1>h, <2>1, <2>2, <3>7, <3>9, <3>10 DEF UsersInv, LetInBy, Admitted, Removed, Added
      <3>14. Leaving = {}
        BY <1>h, <2>1, NoneLeaving
      <3>15. QED
        BY <2>1, <3>2, <3>7, <3>8, <3>10, <3>11, <3>12, <3>13, <3>14, GhostStep
    <2>5. QED
      BY <2>3, <2>4
  <1>3. ASSUME EditSave(h) PROVE GhostInv'
    <2> DEFINE c == job[h].c
               d == job[h].d
    <2>1. /\ pc[h] = "edit.save" /\ writer = h /\ UNCHANGED <<live, over, batch, proc>>
          /\ Finish(h, job[h].flag)
      BY <1>3, <1>h DEF EditSave, TypeOK, Writing
    <2>2. c \in E /\ d \in E /\ job[h].snap = row /\ (d = c \/ row.set[d] = "none")
      BY <1>h, <2>1 DEF TypeInv, ArgInv, GhostInv, StatInv
    <2>3. /\ row' = [row EXCEPT !.set[c] = "none", !.set[d] = MarkOf(job[h].en)]
          /\ stat' = [stat EXCEPT ![c] = "none", ![d] = IF stat[c] = "none" THEN @ ELSE "on"]
      BY <1>3, <2>2 DEF EditSave, Renamed
    <2>4. /\ row'.enable = row.enable /\ row'.there = row.there
          /\ \A e \in E : row'.set[e] = IF e = d THEN MarkOf(job[h].en)
                                        ELSE IF e = c THEN "none" ELSE row.set[e]
      BY <1>h, <2>2, <2>3 DEF Row
    <2>5. d # c => stat[d] = "none"
      BY <1>h, <2>2 DEF StatInv
    <2>6. \A e \in E : stat'[e] = IF e = d THEN (IF stat[c] = "none" THEN "none" ELSE "on")
                                  ELSE IF e = c THEN "none" ELSE stat[e]
      BY <1>h, <2>2, <2>3, <2>5
    <2>7. /\ job'[h] = NoJob /\ pc'[h] = "idle" /\ Goto(h, "idle")
          /\ need' = (need \/ job[h].flag) /\ ~job'[h].flag
      BY <1>h, <2>1, FinishAt, NoJobPlain
    <2>8. XrayInv(h)'
      BY <1>h, <2>1, <2>4, <2>7, SameXray DEF XrayInv
    <2>9. StatInv(h)'
      BY <1>h, <2>1, <2>4, <2>6, <2>7, MarkTyped DEF StatInv
    <2>10. live'.users \subseteq LetInBy(h)'
      BY <1>h, <2>1, <2>2, <2>4, <2>6, <2>7
      DEF XrayInv, UsersInv, LetInBy, Admitted, Removed, Added, MarkOf
    <2>11. QED
      BY <2>1, <2>4, <2>7, <2>8, <2>9, <2>10, GhostStep
  <1>4. QED
    BY <1>1, <1>2, <1>3

LEMMA ResetGhost ==
  ASSUME GhostWays, GhostInv, TypeInv', NEW h \in Handlers, row.enable PROVE
    /\ \A c \in E : ResetRead(h, c) => GhostInv'
    /\ ResetPush(h) => GhostInv'
    /\ ResetSave(h) => GhostInv'
  <1> USE DEF dbVars, xrayVars, SnapPc, InAdd, InDel, InEdit, InReset, InAddInb, InUpd, Removing
  <1>h. /\ TypeOK /\ XrayInv(h) /\ RestartInv(h) /\ StatInv(h) /\ UsersInv(h) /\ row \in Row
        /\ stat \in [E -> Mark] /\ job[h] \in Job /\ h \in Threads /\ TrafficInv
        /\ live \in [up : BOOLEAN, inb : BOOLEAN, users : SUBSET E]
    BY GhostHere
  <1>1. ASSUME NEW c \in E, ResetRead(h, c) PROVE GhostInv'
    <2> DEFINE j == [NoJob EXCEPT !.c = c]
               l == IF stat[c] = "off" /\ row.set[c] = "on" THEN "reset.push" ELSE "reset.save"
    <2>1. Remember(h, j, l) /\ j.c = c /\ ~j.flag
      BY <1>1 DEF ResetRead, NoJob
    <2> HIDE DEF j
    <2>2. job'[h] = j /\ pc'[h] = l /\ Goto(h, l)
      BY <1>h, <2>1, RememberAt
    <2>3. /\ UNCHANGED <<row, stat, live, need, over, batch, proc>> /\ stat[c] # "none"
          /\ pc[h] = "idle" /\ pc[Restarter] = "idle"
      BY <1>1 DEF ResetRead, MayBegin, GhostWays
    <2>4. XrayInv(h)'
      BY <1>h, <2>2, <2>3, SameXray DEF XrayInv
    <2>5. StatInv(h)'
      BY <1>h, <2>1, <2>2, <2>3 DEF StatInv
    <2>6. live'.users \subseteq LetInBy(h)'
      BY <1>h, <2>2, <2>3 DEF UsersInv, LetInBy, Admitted, Removed, Added
    <2>7. QED
      BY <2>1, <2>2, <2>3, <2>4, <2>5, <2>6, GhostStep
  <1>2. ASSUME ResetPush(h) PROVE GhostInv'
    <2> DEFINE c == job[h].c
    <2>1. pc[h] = "reset.push" /\ UNCHANGED <<row, stat, need, over, batch, proc>>
      BY <1>2 DEF ResetPush
    <2>2. c \in E /\ row.set[c] = "on" /\ stat[c] = "off"
      BY <1>h, <2>1 DEF TypeInv, ArgInv, GhostInv, StatInv
    <2>3. c \notin live.users
      BY <1>h, <2>1, <2>2 DEF UsersInv, LetInBy, Admitted, Added
    <2>4. PICK ok \in BOOLEAN : /\ AddUser(c, ok)
                                /\ Remember(h, [job[h] EXCEPT !.flag = ~ok], "reset.save")
      BY <1>2 DEF ResetPush
    <2>5. /\ ok <=> live.up /\ live.inb
          /\ live' = [live EXCEPT !.users = @ \cup (IF ok THEN {c} ELSE {})]
      BY <2>3, <2>4 DEF AddUser, Outcomes, CanAdd, HasInbound, LetIn, GhostWays
    <2>6. live.inb => live.up
      BY <1>h, <2>1 DEF XrayInv, RestartInv
    <2>7. /\ live'.up = live.up /\ live'.inb = live.inb
          /\ ~live.inb => live'.users = {}
          /\ live'.users \subseteq live.users \cup {c}
      BY <1>h, <2>5 DEF XrayInv
    <2> DEFINE j == [job[h] EXCEPT !.flag = ~ok]
    <2>8. j.c = c /\ j.flag = ~ok /\ Remember(h, j, "reset.save")
      BY <1>h, <2>4 DEF Job
    <2> HIDE DEF j
    <2>9. job'[h] = j /\ pc'[h] = "reset.save" /\ Goto(h, "reset.save")
      BY <1>h, <2>8, RememberAt
    <2>10. XrayInv(h)'
      BY <2>1, <2>7, <2>9, SameXray
    <2>11. StatInv(h)'
      BY <1>h, <2>1, <2>2, <2>8, <2>9 DEF StatInv
    <2>12. live'.users \subseteq LetInBy(h)'
      BY <1>h, <2>1, <2>2, <2>7, <2>8, <2>9 DEF UsersInv, LetInBy, Admitted, Removed, Added
    <2>13. job'[h].flag => ~row'.enable
      BY <1>h, <2>1, <2>5, <2>6, <2>8, <2>9 DEF XrayInv
    <2>14. (live'.users \ live.users) \cap Leaving = {}
      BY <1>h, <2>2, <2>7 DEF TrafficInv, Leaving
    <2>15. QED
      BY <2>1, <2>9, <2>10, <2>11, <2>12, <2>13, <2>14, GhostStep
  <1>3. ASSUME ResetSave(h) PROVE GhostInv'
    <2> DEFINE c == job[h].c
    <2>1. /\ pc[h] = "reset.save" /\ writer = Nobody /\ UNCHANGED <<row, live, over, batch, proc>>
          /\ Finish(h, job[h].flag) /\ stat' = [stat EXCEPT ![c] = "on"]
      BY <1>3 DEF ResetSave
    <2>2. c \in E /\ row.set[c] # "none"
      BY <1>h, <2>1 DEF TypeInv, ArgInv, GhostInv, StatInv
    <2>3. /\ job'[h] = NoJob /\ pc'[h] = "idle" /\ Goto(h, "idle")
          /\ need' = (need \/ job[h].flag) /\ ~job'[h].flag
      BY <1>h, <2>1, FinishAt, NoJobPlain
    <2>4. XrayInv(h)'
      BY <1>h, <2>1, <2>3, SameXray DEF XrayInv
    <2>5. StatInv(h)'
      BY <1>h, <2>1, <2>2, <2>3 DEF StatInv
    <2>6. live'.users \subseteq LetInBy(h)'
      BY <1>h, <2>1, <2>2, <2>3 DEF XrayInv, UsersInv, LetInBy, Admitted, Removed, Added
    <2>7. QED
      BY <2>1, <2>3, <2>4, <2>5, <2>6, GhostStep
  <1>4. QED
    BY <1>1, <1>2, <1>3

LEMMA DepGhost ==
  ASSUME GhostWays, GhostInv, TypeInv', NEW h \in Handlers, row.enable PROVE
    /\ DepRead(h) => GhostInv'
    /\ DepSave(h) => GhostInv'
    /\ DepPurge(h) => GhostInv'
  <1> USE DEF dbVars, xrayVars, SnapPc, InAdd, InDel, InEdit, InReset, InAddInb, InUpd, Removing
  <1>h. /\ TypeOK /\ XrayInv(h) /\ RestartInv(h) /\ StatInv(h) /\ UsersInv(h) /\ row \in Row
        /\ stat \in [E -> Mark] /\ job[h] \in Job /\ h \in Threads
        /\ live \in [up : BOOLEAN, inb : BOOLEAN, users : SUBSET E]
    BY GhostHere
  <1>1. ASSUME DepRead(h) PROVE GhostInv'
    <2> DEFINE j == [NoJob EXCEPT !.snap = row, !.drop = Depleted]
               l == IF Clients(row) \subseteq Depleted THEN "dep.delinb" ELSE "dep.save"
    <2>1. Remember(h, j, l) /\ j.snap = row /\ j.drop = Depleted /\ ~j.flag
      BY <1>1 DEF DepRead, NoJob
    <2> HIDE DEF j
    <2>2. job'[h] = j /\ pc'[h] = l /\ Goto(h, l)
      BY <1>h, <2>1, RememberAt
    <2>3. /\ UNCHANGED <<row, stat, live, need, over, batch, proc>>
          /\ pc[h] = "idle" /\ pc[Restarter] = "idle"
      BY <1>1 DEF DepRead, MayBegin, GhostWays
    <2>4. XrayInv(h)'
      BY <1>h, <2>2, <2>3, SameXray DEF XrayInv
    <2>5. StatInv(h)'
      BY <1>h, <2>1, <2>2, <2>3 DEF StatInv, Depleted
    <2>6. live'.users \subseteq LetInBy(h)'
      BY <1>h, <2>2, <2>3 DEF UsersInv, LetInBy, Admitted, Removed, Added
    <2>7. QED
      BY <2>1, <2>2, <2>3, <2>4, <2>5, <2>6, GhostStep
  <1>2. ASSUME DepSave(h) PROVE GhostInv'
    <2> DEFINE drop == job[h].drop
    <2>1. /\ pc[h] = "dep.save" /\ writer = Nobody /\ UNCHANGED <<live, over, batch, proc>>
          /\ Finish(h, FALSE) /\ stat' = WithoutDepleted
      BY <1>2 DEF DepSave
    <2>2. job[h].snap = row /\ \A e \in drop : stat[e] = "off"
      BY <1>h, <2>1 DEF StatInv
    <2>3. row' = [row EXCEPT !.set = [e \in E |-> IF e \in drop THEN "none" ELSE @[e]]]
      BY <1>2, <2>2 DEF DepSave
    <2>4. /\ row'.enable = row.enable /\ row'.there = row.there
          /\ \A e \in E : row'.set[e] = IF e \in drop THEN "none" ELSE row.set[e]
      BY <1>h, <2>3 DEF Row
    <2>5. \A e \in E : stat'[e] = IF stat[e] = "off" THEN "none" ELSE stat[e]
      BY <2>1 DEF WithoutDepleted, Depleted, GhostWays
    <2>6. /\ job'[h] = NoJob /\ pc'[h] = "idle" /\ Goto(h, "idle")
          /\ need' = (need \/ FALSE) /\ ~job'[h].flag
      BY <1>h, <2>1, FinishAt, NoJobPlain
    <2>7. XrayInv(h)'
      BY <1>h, <2>1, <2>4, <2>6, SameXray DEF XrayInv
    <2>8. StatInv(h)'
      BY <1>h, <2>2, <2>4, <2>5, <2>6 DEF StatInv
    <2>9. live'.users \subseteq LetInBy(h)'
      BY <1>h, <2>1, <2>2, <2>4, <2>5, <2>6 DEF UsersInv, LetInBy, Admitted, Removed, Added
    <2>10. QED
      BY <2>1, <2>4, <2>6, <2>7, <2>8, <2>9, GhostStep
  <1>3. ASSUME DepPurge(h) PROVE GhostInv'
    <2>1. /\ pc[h] = "dep.purge" /\ writer = Nobody /\ UNCHANGED <<row, live, over, batch, proc>>
          /\ Finish(h, FALSE) /\ stat' = WithoutDepleted
      BY <1>3 DEF DepPurge
    <2>2. \A e \in E : stat[e] = "none" /\ stat'[e] = "none"
      BY <1>h, <2>1 DEF StatInv, WithoutDepleted
    <2>3. /\ job'[h] = NoJob /\ pc'[h] = "idle" /\ Goto(h, "idle")
          /\ need' = (need \/ FALSE) /\ ~job'[h].flag
      BY <1>h, <2>1, FinishAt, NoJobPlain
    <2>4. XrayInv(h)'
      BY <1>h, <2>1, <2>3, SameXray DEF XrayInv
    <2>5. StatInv(h)'
      BY <1>h, <2>2, <2>3 DEF StatInv
    <2>6. live'.users \subseteq LetInBy(h)'
      BY <1>h, <2>1, <2>2, <2>3 DEF UsersInv, LetInBy, Admitted, Removed, Added
    <2>7. QED
      BY <2>1, <2>3, <2>4, <2>5, <2>6, GhostStep
  <1>4. QED
    BY <1>1, <1>2, <1>3

LEMMA DelInbGhost ==
  ASSUME GhostWays, GhostInv, TypeInv', NEW h \in Handlers, row.enable PROVE
    /\ DelInbPush(h) => GhostInv'
    /\ DelInbStats(h) => GhostInv'
    /\ DelInbRow(h) => GhostInv'
  <1> USE DEF dbVars, xrayVars, SnapPc, InAdd, InDel, InEdit, InReset, InAddInb, InUpd, Removing
  <1>h. /\ TypeOK /\ XrayInv(h) /\ RestartInv(h) /\ StatInv(h) /\ UsersInv(h) /\ row \in Row
        /\ stat \in [E -> Mark] /\ job[h] \in Job /\ h \in Threads
        /\ live \in [up : BOOLEAN, inb : BOOLEAN, users : SUBSET E]
    BY GhostHere
  <1>1. ASSUME DelInbPush(h) PROVE GhostInv'
    <2>1. /\ pc[h] \in {"idle", "dep.delinb"} /\ UNCHANGED <<row, stat, need, over, batch, proc>>
          /\ pc[h] # "idle" \/ pc[Restarter] = "idle"
      BY <1>1 DEF DelInbPush, MayBegin, GhostWays
    <2>2. /\ live'.up = live.up /\ ~live'.inb /\ live'.users = {}
          /\ \E j : Remember(h, j, "delinb.stats")
      <3>1. CASE row.enable
        <4>1. PICK ok \in Outcomes(HasInbound) :
                /\ live' = IF ok THEN [live EXCEPT !.inb = FALSE, !.users = {}] ELSE live
                /\ Remember(h, [job[h] EXCEPT !.flag = ~ok], "delinb.stats")
          BY <1>1, <3>1 DEF DelInbPush
        <4>2. ok
          BY <1>h, <2>1, <3>1, <4>1
          DEF Outcomes, HasInbound, GhostWays, XrayInv, RestartInv
        <4>3. QED
          BY <1>h, <4>1, <4>2
      <3>2. CASE ~row.enable
        BY <1>1, <1>h, <2>1, <3>2 DEF DelInbPush, XrayInv
      <3>3. QED
        BY <3>1, <3>2
    <2>3. PICK j : Remember(h, j, "delinb.stats")
      BY <2>2
    <2>4. job'[h] = j /\ pc'[h] = "delinb.stats" /\ Goto(h, "delinb.stats")
      BY <1>h, <2>3, RememberAt
    <2>5. XrayInv(h)'
      <3>1. pc'[Restarter] = pc[Restarter]
        BY <1>h, <2>4, JobsStay, JobsTyped
      <3>2. QED
        BY <1>h, <2>1, <2>2, <2>4, <3>1 DEF XrayInv
    <2>6. StatInv(h)'
      BY <1>h, <2>1, <2>4 DEF StatInv
    <2>7. live'.users \subseteq LetInBy(h)' /\ (live'.users \ live.users) \cap Leaving = {}
      BY <2>2
    <2>8. QED
      BY <2>1, <2>4, <2>5, <2>6, <2>7, GhostStep
  <1>2. ASSUME DelInbStats(h) PROVE GhostInv'
    <2>1. /\ pc[h] = "delinb.stats" /\ writer = Nobody
          /\ UNCHANGED <<row, live, need, over, job, batch, proc>>
          /\ stat' = [e \in E |-> "none"] /\ Goto(h, "delinb.row")
      BY <1>2 DEF DelInbStats
    <2>2. pc'[h] = "delinb.row"
      BY <1>h, <2>1, PcOf
    <2>3. live.users = {}
      BY <1>h, <2>1 DEF XrayInv
    <2>4. XrayInv(h)'
      <3>1. pc'[Restarter] = pc[Restarter]
        BY <1>h, <2>1, JobsStay, JobsTyped
      <3>2. QED
        BY <1>h, <2>1, <2>2, <3>1 DEF XrayInv
    <2>5. StatInv(h)'
      BY <1>h, <2>1, <2>2 DEF StatInv
    <2>6. live'.users \subseteq LetInBy(h)' /\ (live'.users \ live.users) \cap Leaving = {}
      BY <2>1, <2>3
    <2>7. QED
      BY <2>1, <2>4, <2>5, <2>6, GhostStep
  <1>3. ASSUME DelInbRow(h) PROVE GhostInv'
    <2> DEFINE l == IF job[h].drop # {} THEN "dep.purge" ELSE "idle"
    <2>1. /\ pc[h] = "delinb.row" /\ writer = Nobody /\ UNCHANGED <<stat, live, batch, proc>>
          /\ row' = NoRow /\ over' = FALSE
      BY <1>3 DEF DelInbRow
    <2>2. Goto(h, l) /\ pc'[h] = l /\ (need' => need \/ job[h].flag)
      <3>1. CASE job[h].drop # {}
        BY <1>3, <1>h, <3>1, PcOf DEF DelInbRow
      <3>2. CASE job[h].drop = {}
        <4>1. Finish(h, job[h].flag)
          BY <1>3, <3>2 DEF DelInbRow
        <4>2. Goto(h, "idle") /\ pc'[h] = "idle" /\ need' = (need \/ job[h].flag)
          BY <1>h, <4>1, FinishAt
        <4>3. QED
          BY <3>2, <4>2
      <3>3. QED
        BY <3>1, <3>2
    <2>3. live.users = {} /\ ~live.inb /\ \A e \in E : stat[e] = "none"
      BY <1>h, <2>1 DEF XrayInv, StatInv
    <2>4. ~row'.enable /\ ~over
      BY <2>1, GhostHere DEF NoRow, TrafficInv
    <2>5. XrayInv(h)'
      <3>1. pc'[Restarter] = pc[Restarter]
        BY <1>h, <2>2, JobsStay, JobsTyped
      <3>2. QED
        BY <1>h, <2>1, <2>2, <2>3, <2>4, <3>1 DEF XrayInv
    <2>6. StatInv(h)'
      BY <1>h, <2>1, <2>2, <2>3 DEF StatInv
    <2>7. live'.users \subseteq LetInBy(h)' /\ (live'.users \ live.users) \cap Leaving = {}
      BY <2>1, <2>3
    <2>8. over' = over
      BY <2>1, <2>4, <1>h DEF TypeOK
    <2>9. QED
      BY <2>1, <2>2, <2>4, <2>5, <2>6, <2>7, <2>8, GhostStep
  <1>4. QED
    BY <1>1, <1>2, <1>3

(* A handler's step while the inbound is disabled: Xray has nobody in it,  *)
(* and nothing switches it on again.                                       *)
OffMove(h) ==
    /\ \E l : /\ Goto(h, l) /\ l \notin InAddInb \cup InUpd
              /\ l \in SnapPc => job'[h].snap = row'
    /\ pc[h] # "idle" \/ pc[Restarter] = "idle"
    /\ UNCHANGED <<over, batch, proc>>
    /\ writer \in {Nobody, h} \/ stat' = stat
    /\ ~row'.enable /\ ~live'.inb /\ live'.users = {}

LEMMA OffStep ==
  ASSUME GhostWays, GhostInv, TypeInv', NEW h \in Handlers, OffMove(h) PROVE GhostInv'
  <1>h. TypeOK /\ TrafficInv /\ RestartInv(h)
    BY GhostHere
  <1>0. PICK l : /\ Goto(h, l) /\ l \notin InAddInb \cup InUpd
                 /\ l \in SnapPc => job'[h].snap = row'
    BY DEF OffMove
  <1>1. pc'[h] = l /\ \A t \in Jobs : pc'[t] = pc[t]
    BY <1>0, <1>h, JobsStay, PcOf
  <1>2. pc'[Restarter] = "idle"
    BY <1>1, <1>h, JobsTyped DEF RestartInv, OffMove
  <1>3. TrafficInv'
    <2>1. CASE stat' = stat
      BY <1>h, <1>1, <2>1 DEF TrafficInv, OffMove
    <2>2. CASE writer \in {Nobody, h}
      <3>1. \A t \in Jobs : pc[t] # "save"
        BY <1>h, <2>2, NamesAssumption DEF TypeOK, Writing, Threads
      <3>2. QED
        BY <1>h, <1>1, <3>1 DEF TrafficInv, OffMove
    <2>3. QED
      BY <2>1, <2>2 DEF OffMove
  <1>4. XrayInv(h)' /\ RestartInv(h)' /\ UsersInv(h)'
    BY <1>2 DEF OffMove, XrayInv, RestartInv, UsersInv
  <1>5. StatInv(h)'
    BY <1>0, <1>1 DEF OffMove, StatInv
  <1>6. \A g \in Handlers : g = h
    BY DEF GhostWays, OneHandler
  <1>7. QED
    BY <1>3, <1>4, <1>5, <1>6 DEF GhostInv

LEMMA OffGhost ==
  ASSUME GhostWays, GhostInv, TypeInv', NEW h \in Handlers, Handle(h), ~row.enable
  PROVE  GhostInv'
  <1> USE DEF dbVars, xrayVars, SnapPc, InAdd, InDel, InEdit, InReset, InAddInb, InUpd
  <1>h. /\ TypeOK /\ TrafficInv /\ XrayInv(h) /\ StatInv(h) /\ row \in Row
        /\ job[h] \in Job /\ h \in Threads
        /\ live \in [up : BOOLEAN, inb : BOOLEAN, users : SUBSET E]
    BY GhostHere
  <1>1. ~live.inb /\ live.users = {} /\ ~over
    BY <1>h DEF XrayInv, TrafficInv
  <1>2. Outcomes(HasInbound) = {FALSE} /\ \A e : Outcomes(CanAdd(e)) = {FALSE}
    BY <1>1 DEF Outcomes, HasInbound, CanAdd
  <1>3. "addinb" \notin Ops /\ "updinb" \notin Ops
    BY DEF GhostWays
  <1>r. ASSUME NEW op, MayBegin(h, op) PROVE pc[h] = "idle" /\ pc[Restarter] = "idle"
    BY <1>r DEF MayBegin, GhostWays
  <1>m. ASSUME NEW j, NEW l, Remember(h, j, l) PROVE Goto(h, l) /\ job'[h] = j
    BY <1>h, <1>m, RememberAt
  <1>f. ASSUME NEW r, Finish(h, r) PROVE Goto(h, "idle")
    BY <1>f DEF Finish
  <1>k. ASSUME NEW f PROVE [job[h] EXCEPT !.flag = f].snap = job[h].snap
    BY <1>h DEF Job
  <1>4. CASE \/ \E c \in E, en \in BOOLEAN : AddRead(h, c, en)
             \/ \E c \in E : DelRead(h, c)
             \/ \E c, d \in E, en \in BOOLEAN : EditRead(h, c, d, en)
             \/ \E c \in E : ResetRead(h, c)
             \/ DepRead(h)
    <2>1. \E l : /\ Goto(h, l) /\ l \notin InAddInb \cup InUpd
                 /\ l \in SnapPc => job'[h].snap = row
      <3>1. CASE \E c \in E, en \in BOOLEAN : AddRead(h, c, en)
        <4>1. PICK c \in E, en \in BOOLEAN :
                Remember(h, [NoJob EXCEPT !.c = c, !.en = en, !.snap = row], "add.push")
          BY <3>1 DEF AddRead
        <4>2. [NoJob EXCEPT !.c = c, !.en = en, !.snap = row].snap = row
          BY DEF NoJob
        <4>3. QED
          BY <1>m, <4>1, <4>2
      <3>2. CASE \E c \in E : DelRead(h, c)
        <4>1. PICK c \in E : Remember(h, [NoJob EXCEPT !.c = c, !.snap = row], "del.stat")
          BY <3>2 DEF DelRead
        <4>2. [NoJob EXCEPT !.c = c, !.snap = row].snap = row
          BY DEF NoJob
        <4>3. QED
          BY <1>m, <4>1, <4>2
      <3>3. CASE \E c, d \in E, en \in BOOLEAN : EditRead(h, c, d, en)
        <4>1. PICK c \in E, d \in E, en \in BOOLEAN :
                Remember(h, [NoJob EXCEPT !.c = c, !.d = d, !.en = en, !.snap = row], "edit.push")
          BY <3>3 DEF EditRead
        <4>2. [NoJob EXCEPT !.c = c, !.d = d, !.en = en, !.snap = row].snap = row
          BY DEF NoJob
        <4>3. QED
          BY <1>m, <4>1, <4>2
      <3>4. CASE \E c \in E : ResetRead(h, c)
        <4>1. PICK c \in E :
                Remember(h, [NoJob EXCEPT !.c = c],
                         IF stat[c] = "off" /\ row.set[c] = "on" THEN "reset.push"
                         ELSE "reset.save")
          BY <3>4 DEF ResetRead
        <4> DEFINE l == IF stat[c] = "off" /\ row.set[c] = "on" THEN "reset.push"
                        ELSE "reset.save"
        <4>2. Goto(h, l)
          BY <4>1 DEF Remember
        <4>3. QED
          BY <4>2
      <3>5. CASE DepRead(h)
        <4>1. PICK l \in {"dep.delinb", "dep.save"} :
                Remember(h, [NoJob EXCEPT !.snap = row, !.drop = Depleted], l)
          BY <3>5 DEF DepRead
        <4>2. [NoJob EXCEPT !.snap = row, !.drop = Depleted].snap = row
          BY DEF NoJob
        <4>3. QED
          BY <1>m, <4>1, <4>2
      <3>6. QED
        BY <1>4, <3>1, <3>2, <3>3, <3>4, <3>5
    <2>2. UNCHANGED <<row, stat, live, over, batch, proc>> /\ \E op : MayBegin(h, op)
      BY <1>4 DEF AddRead, DelRead, EditRead, ResetRead, DepRead
    <2>3. OffMove(h)
      BY <1>1, <1>r, <2>1, <2>2 DEF OffMove
    <2>4. QED
      BY <2>3, OffStep
  <1>5. CASE AddPush(h) \/ DelPush(h) \/ EditPush(h) \/ ResetPush(h)
    <2>1. \E l : /\ Goto(h, l) /\ l \notin InAddInb \cup InUpd
                 /\ l \in SnapPc => job'[h].snap = row
      <3>1. pc[h] \in InAdd \cup InDel \cup InEdit => job[h].snap = row
        BY <1>h DEF StatInv
      <3>2. CASE \E f, l : /\ Remember(h, [job[h] EXCEPT !.flag = f], l)
                           /\ \/ l = "reset.save"
                              \/ l \in {"add.save", "del.save", "edit.save"} /\ job[h].snap = row
        <4>1. PICK f, l : /\ Remember(h, [job[h] EXCEPT !.flag = f], l)
                          /\ \/ l = "reset.save"
                             \/ l \in {"add.save", "del.save", "edit.save"} /\ job[h].snap = row
          BY <3>2
        <4> DEFINE j == [job[h] EXCEPT !.flag = f]
        <4>2. j.snap = job[h].snap /\ Remember(h, j, l)
          BY <1>k, <4>1
        <4> HIDE DEF j
        <4>3. Goto(h, l) /\ job'[h] = j
          BY <1>m, <4>2
        <4>4. QED
          BY <4>1, <4>2, <4>3
      <3>3. CASE Remember(h, job[h], "add.save") /\ job[h].snap = row
        BY <1>m, <3>3
      <3>4. CASE Finish(h, FALSE)
        <4>1. Goto(h, "idle")
          BY <3>4 DEF Finish
        <4>2. QED
          BY <4>1
      <3>5. QED
        <4>1. CASE AddPush(h)
          BY <3>1, <3>2, <3>3, <4>1 DEF AddPush
        <4>2. CASE DelPush(h)
          BY <3>1, <3>2, <4>2 DEF DelPush
        <4>3. CASE EditPush(h)
          BY <3>1, <3>2, <3>4, <4>3 DEF EditPush
        <4>4. CASE ResetPush(h)
          BY <3>2, <4>4 DEF ResetPush
        <4>5. QED
          BY <1>5, <4>1, <4>2, <4>3, <4>4
    <2>2. /\ UNCHANGED <<row, stat, over, batch, proc>>
          /\ pc[h] \in {"add.push", "del.push", "edit.push", "reset.push"}
      BY <1>5 DEF AddPush, DelPush, EditPush, ResetPush
    <2>3. ~live'.inb /\ live'.users = {}
      <3>1. CASE AddPush(h) \/ ResetPush(h)
        <4>1. LetIn({}) \/ live' = live
          BY <1>2, <3>1 DEF AddPush, ResetPush, AddUser
        <4>2. QED
          BY <1>h, <1>1, <4>1 DEF LetIn
      <3>2. CASE DelPush(h)
        <4>1. \E S : ShutOut(S)
          BY <3>2 DEF DelPush, RemoveUser
        <4>2. QED
          BY <1>h, <1>1, <4>1 DEF ShutOut
      <3>3. CASE EditPush(h)
        <4>1. \/ live' = live
              \/ live' = [live EXCEPT !.users = live.users]
          BY <1>2, <3>3 DEF EditPush, Outcomes, HasInbound
        <4>2. QED
          BY <1>h, <1>1, <4>1
      <3>4. QED
        BY <1>5, <3>1, <3>2, <3>3
    <2>4. OffMove(h)
      BY <2>1, <2>2, <2>3 DEF OffMove
    <2>5. QED
      BY <2>4, OffStep
  <1>6. CASE AddCommit(h) \/ DelSave(h) \/ EditSave(h) \/ DepSave(h)
    <2>1. Goto(h, "idle") /\ UNCHANGED <<live, over, batch, proc>>
      BY <1>6 DEF AddCommit, DelSave, EditSave, DepSave, Finish
    <2>2. pc[h] \in {"add.save", "del.save", "edit.save", "dep.save"}
      BY <1>6 DEF AddCommit, DelSave, EditSave, DepSave
    <2>3. writer \in {Nobody, h}
      BY <1>6, <1>h DEF AddCommit, DelSave, EditSave, DepSave, TypeOK, Writing
    <2>4. job[h].snap = row
      BY <1>h, <2>2 DEF StatInv
    <2>5. \E set : row' = [row EXCEPT !.set = set]
      <3>1. CASE AddCommit(h) \/ DelSave(h)
        BY <1>h, <2>4, <3>1 DEF AddCommit, DelSave, Row
      <3>2. CASE EditSave(h)
        <4>1. row' = [row EXCEPT !.set[job[h].c] = "none", !.set[job[h].d] = MarkOf(job[h].en)]
          BY <2>4, <3>2 DEF EditSave
        <4>2. QED
          BY <1>h, <4>1 DEF Row
      <3>3. CASE DepSave(h)
        BY <1>h, <2>4, <3>3 DEF DepSave, Row
      <3>4. QED
        BY <1>6, <3>1, <3>2, <3>3
    <2>6. ~row'.enable
      BY <1>h, <2>5 DEF Row
    <2>7. OffMove(h)
      BY <1>1, <2>1, <2>2, <2>3, <2>6 DEF OffMove
    <2>8. QED
      BY <2>7, OffStep
  <1>7. CASE DelStat(h) \/ ResetSave(h) \/ DepPurge(h)
    <2>1. /\ UNCHANGED <<row, live, over, batch, proc>> /\ writer = Nobody
          /\ pc[h] \in {"del.stat", "reset.save", "dep.purge"}
      BY <1>7 DEF DelStat, ResetSave, DepPurge
    <2>2. \/ Goto(h, "idle")
          \/ /\ Goto(h, "del.push") \/ Goto(h, "del.save")
             /\ job' = job /\ job[h].snap = row
      BY <1>7, <1>h DEF DelStat, ResetSave, DepPurge, Finish, StatInv
    <2>3. OffMove(h)
      BY <1>1, <2>1, <2>2 DEF OffMove
    <2>4. QED
      BY <2>3, OffStep
  <1>8. CASE DelInbPush(h) \/ DelInbStats(h) \/ DelInbRow(h)
    <2>1. /\ \E l \in {"delinb.stats", "delinb.row", "dep.purge", "idle"} : Goto(h, l)
          /\ UNCHANGED <<live, batch, proc>> /\ (over' = over \/ over' = FALSE)
          /\ row' = row \/ row' = NoRow
      BY <1>8 DEF DelInbPush, DelInbStats, DelInbRow, Finish, Remember
    <2>2. pc[h] # "idle" \/ pc[Restarter] = "idle"
      BY <1>8, <1>r DEF DelInbPush, DelInbStats, DelInbRow
    <2>3. writer \in {Nobody, h} \/ stat' = stat
      BY <1>8 DEF DelInbPush, DelInbStats, DelInbRow
    <2>4. over' = over /\ ~row'.enable
      <3>1. over = FALSE
        BY <1>1, <1>h DEF TypeOK
      <3>2. over' = over
        BY <2>1, <3>1, Zenon
      <3>3. NoRow.enable = FALSE
        BY DEF NoRow
      <3>4. ~row'.enable
        BY <1>1, <2>1, <3>3
      <3>5. QED
        BY <3>2, <3>4
    <2>5. OffMove(h)
      BY <1>1, <2>1, <2>2, <2>3, <2>4 DEF OffMove
    <2>6. QED
      BY <2>5, OffStep
  <1>9. CASE AddBreak(h) \/ DelBreak(h) \/ EditBreak(h) \/ ResetBreak(h)
    <2>1. /\ Goto(h, "idle") /\ UNCHANGED <<row, over, batch, proc>>
          /\ pc[h] \in {"add.push", "del.push", "edit.push", "reset.push"}
          /\ writer = Nobody \/ stat' = stat
      BY <1>9 DEF AddBreak, DelBreak, EditBreak, ResetBreak, Unwind
    <2>2. live' = live \/ \E c : live' = [live EXCEPT !.users = @ \ {c}]
      BY <1>9 DEF AddBreak, DelBreak, EditBreak, ResetBreak
    <2>3. ~live'.inb /\ live'.users = {}
      BY <1>h, <1>1, <2>2
    <2>4. OffMove(h)
      BY <2>1, <2>3 DEF OffMove
    <2>5. QED
      BY <2>4, OffStep
  <1>10. ~DelInbBreak(h)
    BY DEF DelInbBreak
  <1>11. /\ \A s \in [E -> Mark], en \in BOOLEAN : ~AddInbRead(h, s, en)
         /\ \A en \in BOOLEAN : ~UpdLoad(h, en)
         /\ ~AddInbPush(h) /\ ~AddInbBreak(h) /\ ~AddInbSave(h)
         /\ ~UpdPush(h) /\ ~UpdBreak(h) /\ ~UpdSave(h)
    BY <1>3, <1>h DEF AddInbRead, UpdLoad, MayBegin, AddInbPush, AddInbBreak, AddInbSave,
                      UpdPush, UpdBreak, UpdSave, StatInv
  <1>12. QED
    BY <1>4, <1>5, <1>6, <1>7, <1>8, <1>9, <1>10, <1>11 DEF Handle

(* What a handler has read, and whom it has let in, stand when the tables do. *)
LEMMA StillGhost ==
  ASSUME NEW h \in Handlers, pc'[h] = pc[h], job'[h] = job[h], row' = row, stat' = stat
  PROVE  (StatInv(h) => StatInv(h)') /\ LetInBy(h)' = LetInBy(h)
  BY DEF StatInv, LetInBy, Admitted, Removed, Added

(* Steps that leave the tables, the handlers and what AddTraffic has found. *)
LEMMA ControlGhost ==
  ASSUME GhostWays, GhostInv, TypeInv', UNCHANGED <<row, stat, over, job, batch>>,
         \A h \in Handlers : pc'[h] = pc[h],
         \A t \in Jobs : pc'[t] = "save" <=> pc[t] = "save",
         need' => need, live'.users \subseteq live.users,
         \A h \in Handlers : XrayInv(h)',
         pc'[Restarter] # "idle" => \A h \in Handlers : /\ pc[h] = "idle" /\ ~row.enable
                                      /\ ~built'.config.inb /\ built'.config.users = {}
  PROVE  GhostInv'
  <1>1. TrafficInv /\ \A h \in Handlers : RestartInv(h) /\ StatInv(h) /\ UsersInv(h)
    BY DEF GhostInv
  <1>2. TrafficInv'
    BY <1>1 DEF TrafficInv
  <1>3. Leaving' = Leaving
    BY DEF Leaving
  <1>4. ASSUME NEW h \in Handlers PROVE RestartInv(h)' /\ StatInv(h)' /\ UsersInv(h)'
    <2>1. StatInv(h)' /\ LetInBy(h)' = LetInBy(h)
      BY <1>1, StillGhost
    <2>2. RestartInv(h)'
      BY <1>1 DEF RestartInv
    <2>3. UsersInv(h)'
      BY <1>1, <1>3, <2>1 DEF UsersInv
    <2>4. QED
      BY <2>1, <2>2, <2>3
  <1>5. QED
    BY <1>2, <1>4 DEF GhostInv

LEMMA SameXrayJobs ==
  ASSUME NEW h \in Handlers, XrayInv(h), row' = row, pc'[h] = pc[h],
         live'.up = live.up, live'.inb = live.inb, live'.users \subseteq live.users,
         proc' = proc
  PROVE  XrayInv(h)'
  BY DEF XrayInv

LEMMA OneHere == ASSUME OneHandler PROVE \E h \in Handlers : \A g \in Handlers : g = h
  BY DEF OneHandler

LEMMA RestartGhost ==
  ASSUME GhostWays, GhostInv, TypeInv',
         \/ Tick \/ (\E force \in BOOLEAN : RestartBegin(force))
         \/ Keep \/ StopXray \/ NewProcess \/ StartXray
  PROVE  GhostInv'
  <1> USE DEF dbVars, xrayVars
  <1>h. /\ TypeOK /\ Ticker # Restarter /\ Ticker \in Jobs /\ Restarter \in Jobs
        /\ \A h \in Handlers : XrayInv(h) /\ RestartInv(h)
    BY GhostHere, NamesAssumption, JobsTyped DEF GhostInv, TypeInv
  <1>0. PICK h \in Handlers : \A g \in Handlers : g = h
    BY OneHere DEF GhostWays
  <1>1. CASE Tick
    <2>1. Goto(Ticker, "traffic") /\ UNCHANGED <<row, stat, over, job, batch, need, live, built, proc>>
          /\ pc[Ticker] = "idle"
      BY <1>1 DEF Tick
    <2>2. /\ \A g \in Handlers : pc'[g] = pc[g]
          /\ \A t \in Jobs : pc'[t] = IF t = Ticker THEN "traffic" ELSE pc[t]
      BY <1>h, <2>1, JobElsewhere
    <2>3. pc'[Restarter] = pc[Restarter]
      BY <1>h, <2>2
    <2>4. \A g \in Handlers : XrayInv(g)'
      BY <1>h, <2>1, <2>2, <2>3, SameXrayJobs
    <2>5. QED
      BY <1>h, <2>1, <2>2, <2>3, <2>4, ControlGhost DEF RestartInv
  <1>2. ASSUME NEW force \in BOOLEAN, RestartBegin(force) PROVE GhostInv'
    <2>1. /\ pc[Restarter] = "idle" /\ Goto(Restarter, "traffic")
          /\ UNCHANGED <<row, stat, over, job, batch, live, proc>>
          /\ \A g \in Handlers : pc[g] = "idle"
          /\ built' = [config |-> DbConfig, force |-> force]
      BY <1>2 DEF RestartBegin, GhostWays
    <2>2. (need \/ ~live.up) /\ (need' => need)
      BY <1>2 DEF RestartBegin, GhostWays
    <2>3. ~row.enable
      BY <1>h, <1>0, <2>1, <2>2 DEF XrayInv, RestartInv, Removing
    <2>5. ~built'.config.inb /\ built'.config.users = {}
      BY <2>1, <2>3 DEF DbConfig, Admitted
    <2>6. /\ \A g \in Handlers : pc'[g] = pc[g]
          /\ \A t \in Jobs : pc'[t] = IF t = Restarter THEN "traffic" ELSE pc[t]
      BY <1>h, <2>1, JobElsewhere
    <2>7. \A g \in Handlers : XrayInv(g)'
      BY <1>h, <2>1, <2>6, SameXrayJobs
    <2>8. QED
      BY <2>1, <2>2, <2>3, <2>5, <2>6, <2>7, ControlGhost
  <1>3. CASE Keep
    <2>1. /\ pc[Restarter] = "decide" /\ Goto(Restarter, "idle")
          /\ UNCHANGED <<row, stat, over, job, batch, live, need, proc>>
      BY <1>3 DEF Keep
    <2>2. /\ \A g \in Handlers : pc'[g] = pc[g]
          /\ \A t \in Jobs : pc'[t] = IF t = Restarter THEN "idle" ELSE pc[t]
      BY <1>h, <2>1, JobElsewhere
    <2>3. \A g \in Handlers : XrayInv(g)'
      BY <1>h, <2>1, <2>2, SameXrayJobs
    <2>4. QED
      BY <1>h, <2>1, <2>2, <2>3, ControlGhost
  <1>4. CASE StopXray
    <2>1. /\ pc[Restarter] = "decide" /\ Goto(Restarter, "boot")
          /\ UNCHANGED <<row, stat, over, job, batch, need, built>>
          /\ ~live'.inb /\ live'.users = {}
      BY <1>4 DEF StopXray
    <2>2. /\ \A g \in Handlers : pc'[g] = pc[g]
          /\ \A t \in Jobs : pc'[t] = IF t = Restarter THEN "boot" ELSE pc[t]
      BY <1>h, <2>1, JobElsewhere
    <2>3. \A g \in Handlers : XrayInv(g)'
      BY <1>h, <2>1, <2>2 DEF XrayInv, RestartInv
    <2>4. QED
      BY <1>h, <2>1, <2>2, <2>3, ControlGhost DEF RestartInv
  <1>5. CASE StartXray
    <2>1. /\ pc[Restarter] = "start" /\ Goto(Restarter, "idle")
          /\ UNCHANGED <<row, stat, over, job, batch, need>>
          /\ live' = [up |-> TRUE, inb |-> built.config.inb, users |-> built.config.users]
      BY <1>5 DEF StartXray
    <2>2. /\ \A g \in Handlers : pc'[g] = pc[g]
          /\ \A t \in Jobs : pc'[t] = IF t = Restarter THEN "idle" ELSE pc[t]
      BY <1>h, <2>1, JobElsewhere
    <2>3. live'.up /\ ~live'.inb /\ live'.users = {}
      BY <1>h, <1>0, <2>1 DEF RestartInv
    <2>4. \A g \in Handlers : XrayInv(g)'
      BY <1>h, <2>1, <2>2, <2>3 DEF XrayInv, RestartInv
    <2>5. QED
      BY <1>h, <2>1, <2>2, <2>3, <2>4, ControlGhost
  <1>6. CASE NewProcess
    <2>1. /\ pc[Restarter] = "boot" /\ Goto(Restarter, "start")
          /\ UNCHANGED <<row, stat, over, job, batch, live, need, built>>
      BY <1>6 DEF NewProcess
    <2>2. /\ \A g \in Handlers : pc'[g] = pc[g]
          /\ \A t \in Jobs : pc'[t] = IF t = Restarter THEN "start" ELSE pc[t]
      BY <1>h, <2>1, JobElsewhere
    <2>3. \A g \in Handlers : XrayInv(g)'
      BY <1>h, <2>1, <2>2 DEF XrayInv, RestartInv
    <2>4. QED
      BY <1>h, <2>1, <2>2, <2>3, ControlGhost DEF RestartInv
  <1>7. QED
    BY <1>1, <1>2, <1>3, <1>4, <1>5, <1>6

(* The traffic job dies with the panel only while the inbound is disabled. *)
LEMMA PanicGhost ==
  ASSUME GhostWays, GhostInv, TypeInv', TickPanic PROVE GhostInv'
  <1>1. PICK h \in Handlers : \A g \in Handlers : g = h
    BY OneHere DEF GhostWays
  <1>2. /\ proc = "zero" /\ PanelDies /\ row' = row /\ over' = over
    BY DEF TickPanic
  <1>3. ~row.enable /\ ~over
    BY <1>1, <1>2, GhostHere DEF XrayInv, TrafficInv
  <1>4. /\ \A t \in Threads : pc'[t] = "idle"
        /\ \A t \in Jobs : batch'[t] = NoBatch
        /\ job'[h] = NoJob /\ ~need' /\ ~live'.inb /\ live'.users = {}
    BY <1>2 DEF PanelDies
  <1>5. pc'[h] = "idle" /\ pc'[Restarter] = "idle" /\ \A t \in Jobs : pc'[t] = "idle"
    BY <1>4, JobsTyped DEF Threads
  <1>6. TrafficInv'
    BY <1>2, <1>3, <1>4, <1>5 DEF TrafficInv, NoBatch
  <1>7. XrayInv(h)' /\ UsersInv(h)'
    BY <1>2, <1>3, <1>4, <1>5 DEF XrayInv, UsersInv
  <1>8. RestartInv(h)'
    BY <1>2, <1>3, <1>5 DEF RestartInv
  <1>9. StatInv(h)'
    BY <1>2, <1>3, <1>5 DEF StatInv, SnapPc, InAdd, InDel, InEdit, InAddInb, InUpd
  <1>10. QED
    BY <1>1, <1>6, <1>7, <1>8, <1>9 DEF GhostInv

LEMMA ExpireGhost ==
  ASSUME GhostWays, GhostInv, TypeInv', NEW e \in E, Expire(e) PROVE GhostInv'
  <1>1. UNCHANGED <<row, stat, over, job, batch, need, live, built, proc, pc>>
    BY DEF Expire, xrayVars
  <1>2. \A h \in Handlers : XrayInv(h) /\ RestartInv(h)
    BY DEF GhostInv
  <1>3. \A h \in Handlers : XrayInv(h)'
    BY <1>1, <1>2, SameXrayJobs
  <1>4. QED
    BY <1>1, <1>2, <1>3, ControlGhost DEF RestartInv

LEMMA TrafficGhost ==
  ASSUME GhostWays, GhostInv, TypeInv', NEW t \in Jobs PROVE
    /\ AddTraffic(t) => GhostInv'
    /\ Disable(t) => GhostInv'
    /\ CommitTraffic(t) => GhostInv'
  <1> USE DEF dbVars, xrayVars
  <1>h. /\ TypeOK /\ TrafficInv /\ row \in Row /\ stat \in [E -> Mark]
        /\ batch \in [Jobs -> Batch] /\ t \in Threads
        /\ live \in [up : BOOLEAN, inb : BOOLEAN, users : SUBSET E]
        /\ \A h \in Handlers : XrayInv(h) /\ RestartInv(h) /\ StatInv(h) /\ UsersInv(h)
    BY DEF GhostInv, TypeInv, TypeOK, Threads
  <1>1. ASSUME AddTraffic(t) PROVE GhostInv'
    <2>1. /\ UNCHANGED <<row, stat, over, job, need, built, proc>> /\ Goto(t, "disable")
          /\ pc[t] = "traffic"
      BY <1>1 DEF AddTraffic
    <2>2. Renewable = {}
      BY DEF Renewable, GhostWays
    <2>3. /\ LetIn({})
          /\ batch' = [batch EXCEPT ![t] = [NoBatch EXCEPT !.renew = {}, !.flag = FALSE]]
      BY <1>1, <2>2 DEF AddTraffic
    <2>4. live' = live
      BY <1>h, <2>3 DEF LetIn
    <2>5. /\ batch'[t].renew = {} /\ ~batch'[t].inb /\ ~batch'[t].flag
          /\ \A s \in Jobs : s # t => batch'[s] = batch[s]
      BY <1>h, <2>3 DEF NoBatch
    <2>6. /\ \A g \in Handlers : pc'[g] = pc[g]
          /\ \A s \in Jobs : pc'[s] = IF s = t THEN "disable" ELSE pc[s]
      BY <1>h, <2>1, JobElsewhere
    <2>7. TrafficInv'
      BY <1>h, <2>1, <2>5, <2>6 DEF TrafficInv
    <2>8. Leaving' = Leaving
      BY <2>1, <2>5, <2>6 DEF Leaving
    <2>9. ASSUME NEW h \in Handlers
          PROVE  XrayInv(h)' /\ RestartInv(h)' /\ StatInv(h)' /\ UsersInv(h)'
      <3>1. XrayInv(h)'
        BY <1>h, <2>1, <2>4, <2>6, SameXrayJobs, JobsTyped
      <3>2. RestartInv(h)'
        BY <1>h, <2>1, <2>5, <2>6, JobsTyped DEF RestartInv
      <3>3. StatInv(h)' /\ LetInBy(h)' = LetInBy(h)
        BY <1>h, <2>1, <2>6, StillGhost
      <3>4. UsersInv(h)'
        BY <1>h, <2>4, <2>8, <3>3 DEF UsersInv
      <3>5. QED
        BY <3>1, <3>2, <3>3, <3>4
    <2>10. QED
      BY <2>7, <2>9 DEF GhostInv
  <1>2. ASSUME Disable(t) PROVE GhostInv'
    <2> DEFINE drop == {e \in due : stat[e] = "on"}
               told == IF row.there THEN drop ELSE {}
    <2>1. /\ UNCHANGED <<row, stat, over, job, need, built, proc>> /\ Goto(t, "save")
          /\ pc[t] = "disable"
      BY <1>2 DEF Disable
    <2>2. batch[t].renew = {} /\ ~over /\ due \subseteq E
      BY <1>h DEF TrafficInv, TypeOK
    <2>3. PICK out \in SUBSET told :
            /\ \A e \in told : (e \in out) \in Outcomes(HasInbound)
            /\ live' = [live EXCEPT !.users = @ \ out]
            /\ batch' = [batch EXCEPT ![t] = [renew |-> {}, drop |-> drop, inb |-> FALSE,
                                              flag |-> batch[t].flag \/ out # told]]
      <3>1. drop = {e \in due \ batch[t].renew : stat[e] = "on"}
        BY <2>2
      <3>2. (over /\ row.enable) = FALSE
        BY <2>2
      <3>3. PICK out \in SUBSET told, gone \in Outcomes(HasInbound) :
              /\ \A e \in told : (e \in out) \in Outcomes(HasInbound)
              /\ live' = IF FALSE /\ gone THEN [live EXCEPT !.inb = FALSE, !.users = {}]
                         ELSE [live EXCEPT !.users = @ \ out]
              /\ batch' = [batch EXCEPT ![t] = [renew |-> {}, drop |-> drop, inb |-> FALSE,
                             flag |-> @.flag \/ out # told \/ (FALSE /\ ~gone)]]
        BY <1>2, <2>2, <3>1, <3>2 DEF Disable
      <3>4. QED
        BY <1>h, <3>3
    <2>4. drop \subseteq E /\ \A e \in drop : stat[e] = "on"
      BY <2>2
    <2>5. out = told \/ ~live.inb \/ ~live.up
      <3>1. CASE live.inb /\ live.up
        <4>1. Outcomes(HasInbound) = {TRUE}
          BY <3>1 DEF Outcomes, HasInbound, GhostWays
        <4>2. \A e \in told : e \in out
          BY <2>3, <4>1
        <4>3. QED
          BY <2>3, <4>2
      <3>2. QED
        BY <3>1
    <2>6. /\ live'.up = live.up /\ live'.inb = live.inb /\ live'.users = live.users \ out
      BY <1>h, <2>3
    <2> DEFINE b == [renew |-> {}, drop |-> drop, inb |-> FALSE,
                     flag |-> batch[t].flag \/ out # told]
    <2>7. /\ b.renew = {} /\ b.drop = drop /\ ~b.inb
          /\ b.flag => batch[t].flag \/ out # told
          /\ batch' = [batch EXCEPT ![t] = b]
      BY <2>3
    <2> HIDE DEF b, drop
    <2>8. batch'[t] = b /\ \A s \in Jobs : s # t => batch'[s] = batch[s]
      BY <1>h, <2>7
    <2>9. /\ \A g \in Handlers : pc'[g] = pc[g]
          /\ \A s \in Jobs : pc'[s] = IF s = t THEN "save" ELSE pc[s]
      BY <1>h, <2>1, JobElsewhere
    <2>10. TrafficInv'
      BY <1>h, <2>1, <2>4, <2>7, <2>8, <2>9 DEF TrafficInv
    <2>11. Leaving' = Leaving \cup drop
      BY <2>1, <2>4, <2>7, <2>8, <2>9 DEF Leaving
    <2>12. ASSUME NEW h \in Handlers
           PROVE  XrayInv(h)' /\ RestartInv(h)' /\ StatInv(h)' /\ UsersInv(h)'
      <3>1. XrayInv(h)'
        BY <1>h, <2>1, <2>6, <2>9, SameXrayJobs, JobsTyped
      <3>2. live.inb => live.up /\ row.there
        BY <1>h, JobsTyped DEF XrayInv, RestartInv
      <3>3. out # told => ~row.enable \/ pc[h] \in Removing
        BY <1>h, <2>5, <3>2 DEF XrayInv
      <3>4. RestartInv(h)'
        BY <1>h, <2>1, <2>7, <2>8, <2>9, <3>3, JobsTyped DEF RestartInv
      <3>5. StatInv(h)' /\ LetInBy(h)' = LetInBy(h)
        BY <1>h, <2>1, <2>9, StillGhost
      <3>6. live'.users \cap drop = {}
        <4>1. CASE live.inb
          BY <2>5, <2>6, <3>2, <4>1
        <4>2. CASE ~live.inb
          BY <1>h, <2>6, <4>2 DEF XrayInv
        <4>3. QED
          BY <4>1, <4>2
      <3>7. UsersInv(h)'
        BY <1>h, <2>6, <2>11, <3>5, <3>6 DEF UsersInv
      <3>8. QED
        BY <3>1, <3>4, <3>5, <3>7
    <2>13. QED
      BY <2>10, <2>12 DEF GhostInv
  <1>3. ASSUME CommitTraffic(t) PROVE GhostInv'
    <2> DEFINE drop == batch[t].drop
               l == IF t = Ticker THEN "idle" ELSE "decide"
    <2>1. /\ UNCHANGED <<over, job, live, built, proc>> /\ Goto(t, l) /\ pc[t] = "save"
          /\ batch' = [batch EXCEPT ![t] = NoBatch] /\ stat' = Marked(batch[t])
      BY <1>3 DEF CommitTraffic
    <2>2. batch[t].renew = {} /\ ~batch[t].inb /\ \A e \in drop : stat[e] = "on"
      BY <1>h, <2>1 DEF TrafficInv
    <2>3. row' = row /\ (need' => need \/ batch[t].flag)
      BY <1>3, <2>2 DEF CommitTraffic
    <2>4. \A e \in E : stat'[e] = IF e \in drop THEN "off" ELSE stat[e]
      BY <2>1, <2>2 DEF Marked
    <2>5. /\ batch'[t] = NoBatch /\ ~batch'[t].flag /\ batch'[t].renew = {} /\ ~batch'[t].inb
          /\ \A s \in Jobs : s # t => batch'[s] = batch[s]
      BY <1>h, <2>1 DEF NoBatch
    <2>6. /\ \A g \in Handlers : pc'[g] = pc[g]
          /\ \A s \in Jobs : pc'[s] = IF s = t THEN l ELSE pc[s]
      BY <1>h, <2>1, JobElsewhere
    <2>7. \A s \in Jobs : pc'[s] # "save"
      <3>1. \A s \in Jobs : pc[s] = "save" => s = t
        BY <1>h, <2>1 DEF TypeOK, Writing, Threads
      <3>2. QED
        BY <2>6, <3>1
    <2>8. TrafficInv'
      BY <1>h, <2>1, <2>5, <2>7 DEF TrafficInv
    <2>9. Leaving' = {}
      BY <2>7 DEF Leaving
    <2>10. \A e \in E : e \in drop => e \in Leaving
      BY <2>1 DEF Leaving
    <2>11. ASSUME NEW h \in Handlers
           PROVE  XrayInv(h)' /\ RestartInv(h)' /\ StatInv(h)' /\ UsersInv(h)'
      <3> USE DEF SnapPc, InAdd, InDel, InEdit, InReset, InAddInb, InUpd
      <3>1. XrayInv(h)'
        BY <1>h, <2>1, <2>3, <2>6, SameXrayJobs, JobsTyped
      <3>2. pc'[Restarter] # "idle" => pc[Restarter] # "idle"
        BY <2>1, <2>6, JobsTyped
      <3>3. RestartInv(h)'
        BY <1>h, <2>1, <2>3, <2>5, <2>6, <3>2 DEF RestartInv
      <3>4. /\ pc'[h] = pc[h] /\ job'[h] = job[h] /\ row' = row
            /\ \A e \in E : /\ stat[e] # "on" => stat'[e] = stat[e]
                            /\ e \notin drop => stat'[e] = stat[e]
        BY <2>1, <2>2, <2>3, <2>4, <2>6
      <3>5. StatInv(h)'
        <4>1. pc[h] \in InDel \cup InReset => job[h].c \in E
          BY DEF GhostInv, TypeInv, ArgInv
        <4>2. job[h].drop \subseteq E
          BY GhostHere DEF Job
        <4>3. QED
          BY <1>h, <3>4, <4>1, <4>2 DEF StatInv
      <3>6. UsersInv(h)'
        BY <1>h, <2>1, <2>9, <2>10, <3>4
        DEF UsersInv, LetInBy, Admitted, Removed, Added
      <3>7. QED
        BY <3>1, <3>3, <3>5, <3>6
    <2>12. QED
      BY <2>8, <2>11 DEF GhostInv
  <1>4. QED
    BY <1>1, <1>2, <1>3

LEMMA HandleGhost ==
  ASSUME GhostWays, GhostInv, TypeInv', NEW h \in Handlers, Handle(h) PROVE GhostInv'
  <1>1. CASE row.enable
    <2>1. "addinb" \notin Ops /\ "updinb" \notin Ops
      BY DEF GhostWays
    <2>2. pc[h] \notin InAddInb \cup InUpd
      BY GhostHere DEF StatInv
    <2>3. /\ \A s \in [E -> Mark], en \in BOOLEAN : ~AddInbRead(h, s, en)
          /\ \A en \in BOOLEAN : ~UpdLoad(h, en)
          /\ ~AddInbPush(h) /\ ~AddInbSave(h) /\ ~UpdPush(h) /\ ~UpdSave(h)
      BY <2>1, <2>2 DEF AddInbRead, UpdLoad, MayBegin, AddInbPush, AddInbSave, UpdPush, UpdSave,
                        InAddInb, InUpd
    <2>4. ~MayPanic(h)
      <3>1. proc = "set"
        BY <1>1, GhostHere DEF XrayInv
      <3>2. Handlers \ {h} = {}
        BY DEF GhostWays, OneHandler
      <3>3. QED
        BY <3>1, <3>2 DEF MayPanic
    <2>5. ~Break(h)
      BY <2>4 DEF Break, AddBreak, DelBreak, EditBreak, ResetBreak, AddInbBreak, DelInbBreak,
                  UpdBreak, Unwind
    <2>6. QED
      BY <1>1, <2>3, <2>5, AddGhost, DelGhost, EditGhost, ResetGhost, DepGhost, DelInbGhost
      DEF Handle, Break
  <1>2. QED
    BY <1>1, OffGhost

LEMMA InitGhost == Init => GhostInv
  <1> SUFFICES ASSUME Init PROVE GhostInv
    OBVIOUS
  <1>1. TypeInv
    BY InitType
  <1>2. \A t \in Threads : pc[t] = "idle"
    BY DEF Init
  <1>3. /\ \A h \in Handlers : pc[h] = "idle" /\ job[h] = NoJob
        /\ \A t \in Jobs : pc[t] = "idle" /\ batch[t] = NoBatch
        /\ pc[Restarter] = "idle"
    BY <1>2, JobsTyped DEF Init, Threads
  <1>4. /\ live.up /\ proc = "set" /\ live.inb = row.enable /\ live.users = Admitted /\ ~need /\ ~over
        /\ row.enable => row.there
    BY DEF Init, DbConfig, NoRow
  <1>5. TrafficInv /\ Leaving = {}
    BY <1>3, <1>4 DEF TrafficInv, Leaving, NoBatch
  <1>6. ASSUME NEW h \in Handlers PROVE XrayInv(h) /\ RestartInv(h) /\ StatInv(h) /\ UsersInv(h)
    <2>1. XrayInv(h)
      BY <1>1, <1>3, <1>4 DEF XrayInv, Removing, Admitted, TypeInv, TypeOK
    <2>2. RestartInv(h)
      BY <1>3, <1>4 DEF RestartInv, NoBatch, NoJob
    <2>3. StatInv(h)
      BY <1>3 DEF Init, StatInv, SnapPc, InAdd, InDel, InEdit, InReset, InAddInb, InUpd
    <2>4. UsersInv(h)
      BY <1>3, <1>4, <1>5 DEF UsersInv, LetInBy, Removed
    <2>5. QED
      BY <2>1, <2>2, <2>3, <2>4
  <1>7. QED
    BY <1>1, <1>5, <1>6 DEF GhostInv

LEMMA NextGhost == ASSUME GhostWays PROVE GhostInv /\ [Next]_vars => GhostInv'
  <1> SUFFICES ASSUME GhostInv, [Next]_vars PROVE GhostInv'
    OBVIOUS
  <1>1. TypeInv'
    BY NextType DEF GhostInv
  <1>2. CASE Next
    <2>1. CASE \E h \in Handlers : Handle(h)
      BY <1>1, <2>1, HandleGhost
    <2>2. CASE \E t \in Jobs : AddTraffic(t) \/ Disable(t) \/ CommitTraffic(t)
      BY <1>1, <2>2, TrafficGhost
    <2>3. CASE \/ Tick \/ (\E force \in BOOLEAN : RestartBegin(force))
               \/ Keep \/ StopXray \/ NewProcess \/ StartXray
      BY <1>1, <2>3, RestartGhost
    <2>4. CASE \E e \in E : Expire(e)
      BY <1>1, <2>4, ExpireGhost
    <2>5. ~ResetAllClientTraffics /\ ~ResetAllTraffics /\ ~InboundOver /\ ~PanelCrash
      BY DEF ResetAllClientTraffics, ResetAllTraffics, InboundOver, PanelCrash, GhostWays
    <2>6. CASE TickPanic
      BY <1>1, <2>6, PanicGhost
    <2>7. QED
      BY <1>2, <2>1, <2>2, <2>3, <2>4, <2>5, <2>6 DEF Next
  <1>3. CASE UNCHANGED vars
    <2>1. UNCHANGED <<row, stat, over, job, batch, need, live, built, proc, pc>>
      BY <1>3 DEF vars, dbVars, xrayVars
    <2>2. \A h \in Handlers : XrayInv(h) /\ RestartInv(h)
      BY DEF GhostInv
    <2>3. \A h \in Handlers : XrayInv(h)'
      BY <2>1, <2>2, SameXrayJobs
    <2>4. QED
      BY <1>1, <2>1, <2>2, <2>3, ControlGhost DEF RestartInv
  <1>4. QED
    BY <1>2, <1>3

LEMMA NoGhostFollows == ASSUME GhostWays PROVE GhostInv => NoGhost
  <1> SUFFICES ASSUME GhostInv, Quiet PROVE live.users \subseteq Admitted
    BY DEF NoGhost
  <1>1. PICK h \in Handlers : pc[h] = "idle"
    BY DEF GhostWays, OneHandler, Quiet, NoHandler
  <1>2. UsersInv(h)
    BY GhostHere
  <1>3. QED
    BY <1>1, <1>2 DEF UsersInv, LetInBy, Removed, Added

(* With one handler at a time and calls that work, however many clients:   *)
(* when all is quiet, a client who was deleted, switched off, or disabled  *)
(* for an expired date or a spent quota is not let in by Xray, whatever    *)
(* the job found while the handler was at work.                            *)
THEOREM NoGhostEver == ASSUME GhostWays PROVE Spec => []NoGhost
  <1>1. Init => GhostInv
    BY InitGhost
  <1>2. GhostInv /\ [Next]_vars => GhostInv'
    BY NextGhost
  <1>3. GhostInv => NoGhost
    BY NoGhostFollows
  <1>4. QED
    BY <1>1, <1>2, <1>3, PTL DEF Spec

-----------------------------------------------------------------------------
(* Everybody is let in who is admitted.                                    *)

(* Nobody runs out, so AddTraffic finds nobody to renew or to disable. All *)
(* other operations may go on, and the panel may die at any step.          *)
LockWays ==
    /\ OneHandler /\ ~ApiMayFail /\ ~RestartsOverlap
    /\ "expire" \notin Ops /\ "over" \notin Ops

Calm ==
    /\ due = {} /\ ~over /\ \A e \in E : stat[e] # "off"
    /\ \A t \in Jobs : batch[t].renew = {} /\ batch[t].drop = {} /\ ~batch[t].inb

(* A restart that has built its configuration starts what the tables hold. *)
LockRestart(h) ==
    /\ pc[Restarter] # "idle" => /\ pc[h] = "idle" /\ built.config.inb = row.enable
                                 /\ Admitted \subseteq built.config.users
    /\ row.enable => row.there

LockSnap(h) ==
    /\ pc[h] \notin {"reset.push", "dep.delinb", "dep.save", "dep.purge"} /\ job[h].drop = {}
    /\ pc[h] \in InAdd \cup InDel \cup InEdit \cup {"del.stat"} => job[h].snap = row
    /\ pc[h] \in InAddInb => ~row.there
    /\ pc[h] \in InAddInb \cup InUpd => job[h].snap.there

(* What Xray has been given, ahead of the handler's save. Xray that is up  *)
(* has the inbound exactly when the tables are about to say so, and in it  *)
(* those they are about to admit.                                          *)
Saving == {"addinb.save", "updinb.save"}
GivenInb(h) == IF pc[h] \in Saving THEN job[h].snap.enable
               ELSE row.enable /\ pc[h] \notin Removing
GivenUsers(h) == IF pc[h] \in Saving THEN {e \in E : job[h].snap.set[e] = "on"}
                 ELSE LetInBy(h)
LockLive(h) ==
    /\ live.inb <=> live.up /\ GivenInb(h)
    /\ live.inb => GivenUsers(h) \subseteq live.users

(* Without its port, and while a restart has stopped it, Xray is down. *)
Down == proc # "set" \/ pc[Restarter] \in {"boot", "start"} => ~live.up

LockInv ==
    /\ TypeInv /\ Calm /\ Down
    /\ \A h \in Handlers : LockRestart(h) /\ LockSnap(h) /\ LockLive(h)

LEMMA LockHere ==
  ASSUME LockInv, NEW h \in Handlers
  PROVE  /\ TypeInv /\ TypeOK /\ Calm /\ Down /\ LockRestart(h) /\ LockSnap(h) /\ LockLive(h)
         /\ row \in Row /\ stat \in [E -> Mark] /\ job[h] \in Job /\ h \in Threads
         /\ live \in [up : BOOLEAN, inb : BOOLEAN, users : SUBSET E]
  BY DEF LockInv, TypeInv, TypeOK, Threads

(* A handler's step. *)
LEMMA LockStep ==
  ASSUME LockWays, LockInv, TypeInv', NEW h \in Handlers, NEW l, Goto(h, l),
         pc[h] # "idle" \/ pc[Restarter] = "idle",
         batch' = batch, proc' = proc, live'.up = live.up,
         due' = {}, ~over', \A e \in E : stat'[e] # "off",
         row'.enable => row'.there, LockSnap(h)', LockLive(h)'
  PROVE  LockInv'
  <1>1. TypeOK /\ Calm /\ LockRestart(h)
    BY LockHere
  <1>2. pc'[Restarter] = "idle"
    BY <1>1, JobsStay, JobsTyped DEF LockRestart
  <1>3. Calm'
    BY <1>1 DEF Calm
  <1>4. LockRestart(h)'
    BY <1>2 DEF LockRestart
  <1>5. Down'
    BY <1>2, LockHere DEF Down
  <1>6. \A g \in Handlers : g = h
    BY DEF LockWays, OneHandler
  <1>7. QED
    BY <1>3, <1>4, <1>5, <1>6 DEF LockInv

(* A step that reads only, and a return without a change. *)
LEMMA LockRead ==
  ASSUME LockWays, LockInv, TypeInv', NEW h \in Handlers, NEW l, Goto(h, l),
         pc[h] # "idle" \/ pc[Restarter] = "idle",
         pc[h] \notin Saving \cup Removing, l \notin Saving \cup Removing,
         row' = row, live' = live, batch' = batch, proc' = proc, due' = {}, ~over',
         \A e \in E : stat'[e] # "off", row.enable => LetInBy(h)' \subseteq LetInBy(h),
         LockSnap(h)'
  PROVE  LockInv'
  <1>1. TypeOK /\ LockRestart(h) /\ LockLive(h) /\ pc'[h] = l
    BY LockHere, PcOf
  <1>2. LockLive(h)'
    BY <1>1 DEF LockLive, GivenInb, GivenUsers
  <1>3. QED
    BY <1>1, <1>2, LockStep DEF LockRestart

LEMMA StaysUnder == ASSUME ~over, over' \in {over, FALSE} PROVE ~over'
  <1>1. over' = over \/ over' = FALSE
    OBVIOUS
  <1>2. QED
    BY <1>1, Zenon

LEMMA AddLock ==
  ASSUME LockWays, LockInv, TypeInv', NEW h \in Handlers PROVE
    /\ \A c \in E, en \in BOOLEAN : AddRead(h, c, en) => LockInv'
    /\ AddPush(h) => LockInv'
    /\ AddCommit(h) => LockInv'
  <1> USE DEF dbVars, xrayVars, InAdd, InDel, InEdit, InAddInb, InUpd, Removing, Saving
  <1>h. /\ TypeOK /\ LockRestart(h) /\ LockSnap(h) /\ LockLive(h) /\ row \in Row
        /\ stat \in [E -> Mark] /\ job[h] \in Job /\ h \in Threads
        /\ live \in [up : BOOLEAN, inb : BOOLEAN, users : SUBSET E]
        /\ due = {} /\ ~over /\ \A e \in E : stat[e] # "off"
    BY LockHere DEF Calm
  <1>1. ASSUME NEW c \in E, NEW en \in BOOLEAN, AddRead(h, c, en) PROVE LockInv'
    <2> DEFINE j == [NoJob EXCEPT !.c = c, !.en = en, !.snap = row]
    <2>1. Remember(h, j, "add.push") /\ j.snap = row /\ j.drop = {}
      BY <1>1 DEF AddRead, NoJob
    <2> HIDE DEF j
    <2>2. job'[h] = j /\ pc'[h] = "add.push" /\ Goto(h, "add.push")
      BY <1>h, <2>1, RememberAt
    <2>3. /\ UNCHANGED <<row, stat, due, over, live, batch, proc>>
          /\ pc[h] = "idle" /\ pc[Restarter] = "idle"
      BY <1>1 DEF AddRead, MayBegin, LockWays
    <2>4. LockSnap(h)'
      BY <1>h, <2>1, <2>2, <2>3 DEF LockSnap
    <2>5. LetInBy(h)' = LetInBy(h)
      BY <2>2, <2>3 DEF LetInBy, Admitted, Removed, Added
    <2>6. QED
      BY <1>h, <2>2, <2>3, <2>4, <2>5, LockRead
  <1>2. ASSUME AddPush(h) PROVE LockInv'
    <2> DEFINE c == job[h].c
    <2>1. pc[h] = "add.push" /\ UNCHANGED <<row, stat, due, over, batch, proc>>
      BY <1>2 DEF AddPush
    <2>2. c \in E /\ job[h].snap = row /\ job[h].drop = {}
      BY <1>h, <2>1, LockHere DEF TypeInv, ArgInv, LockSnap
    <2>3. PICK j \in Job :
                          /\ Remember(h, j, "add.save")
                          /\ j.c = c /\ j.en = job[h].en /\ j.snap = row /\ j.drop = {}
                          /\ live'.up = live.up /\ live'.inb = live.inb
                          /\ live.users \subseteq live'.users
                          /\ live.inb /\ job[h].en => c \in live'.users
      <3>1. CASE job[h].en
        <4>1. PICK ok \in BOOLEAN : /\ AddUser(c, ok)
                                    /\ Remember(h, [job[h] EXCEPT !.flag = ~ok], "add.save")
          BY <1>2, <3>1 DEF AddPush
        <4>2. /\ ok <=> live.up /\ live.inb /\ c \notin live.users
              /\ live' = [live EXCEPT !.users = @ \cup (IF ok THEN {c} ELSE {})]
          BY <4>1 DEF AddUser, Outcomes, CanAdd, HasInbound, LetIn, LockWays
        <4>3. live.inb => live.up
          BY <1>h DEF LockLive
        <4> DEFINE k == [job[h] EXCEPT !.flag = ~ok]
        <4>4. k \in Job /\ k.c = c /\ k.en = job[h].en /\ k.snap = row /\ k.drop = {}
          BY <1>h, <2>2 DEF Job
        <4>5. Remember(h, k, "add.save")
          BY <4>1
        <4> HIDE DEF k
        <4>6. /\ live'.up = live.up /\ live'.inb = live.inb
              /\ live.users \subseteq live'.users
              /\ live.inb /\ job[h].en => c \in live'.users
          BY <1>h, <4>2, <4>3
        <4>7. QED
          BY <4>4, <4>5, <4>6
      <3>2. CASE ~job[h].en
        BY <1>2, <1>h, <2>2, <3>2 DEF AddPush
      <3>3. QED
        BY <3>1, <3>2
    <2>4. job'[h] = j /\ pc'[h] = "add.save" /\ Goto(h, "add.save")
      BY <1>h, <2>3, RememberAt
    <2>5. LockSnap(h)'
      BY <1>h, <2>1, <2>3, <2>4 DEF LockSnap
    <2>6. LockLive(h)'
      <3>1. LetInBy(h)' \subseteq LetInBy(h) \cup (IF job[h].en THEN {c} ELSE {})
        BY <2>1, <2>3, <2>4 DEF LetInBy, Admitted, Removed, Added
      <3>2. GivenInb(h)' = GivenInb(h) /\ GivenUsers(h)' = LetInBy(h)' /\ GivenUsers(h) = LetInBy(h)
        BY <2>1, <2>4 DEF GivenInb, GivenUsers
      <3>3. QED
        BY <1>h, <2>3, <3>1, <3>2 DEF LockLive
    <2>7. QED
      BY <1>h, <2>1, <2>3, <2>4, <2>5, <2>6, LockStep DEF LockRestart
  <1>3. ASSUME AddCommit(h) PROVE LockInv'
    <2> DEFINE c == job[h].c
    <2>1. pc[h] = "add.save" /\ UNCHANGED <<live, due, over, batch, proc>> /\ Finish(h, job[h].flag)
      BY <1>3 DEF AddCommit
    <2>2. c \in E /\ job[h].snap = row
      BY <1>h, <2>1, LockHere DEF TypeInv, ArgInv, LockSnap
    <2>3. row' = [row EXCEPT !.set[c] = MarkOf(job[h].en)] /\ stat' = WithStats({c})
      BY <1>3, <2>2 DEF AddCommit
    <2>4. /\ row'.enable = row.enable /\ row'.there = row.there
          /\ \A e \in E : row'.set[e] = IF e = c THEN MarkOf(job[h].en) ELSE row.set[e]
      BY <1>h, <2>2, <2>3 DEF Row
    <2>5. \A e \in E : stat'[e] # "off"
      BY <1>h, <2>3 DEF WithStats
    <2>6. job'[h] = NoJob /\ pc'[h] = "idle" /\ Goto(h, "idle") /\ job'[h].drop = {}
      BY <1>h, <2>1, FinishAt, NoJobPlain
    <2>7. LockSnap(h)'
      BY <2>6 DEF LockSnap
    <2>8. LockLive(h)'
      <3>1. live.inb => LetInBy(h)' \subseteq LetInBy(h)
        BY <1>h, <2>1, <2>2, <2>4, <2>6 DEF LetInBy, Admitted, Removed, Added, MarkOf
      <3>2. GivenInb(h)' = GivenInb(h) /\ GivenUsers(h)' = LetInBy(h)' /\ GivenUsers(h) = LetInBy(h)
        BY <2>1, <2>4, <2>6 DEF GivenInb, GivenUsers
      <3>3. QED
        BY <1>h, <2>1, <3>1, <3>2 DEF LockLive
    <2>9. QED
      BY <1>h, <2>1, <2>4, <2>5, <2>6, <2>7, <2>8, LockStep DEF LockRestart
  <1>4. QED
    BY <1>1, <1>2, <1>3

LEMMA DelLock ==
  ASSUME LockWays, LockInv, TypeInv', NEW h \in Handlers PROVE
    /\ \A c \in E : DelRead(h, c) => LockInv'
    /\ DelStat(h) => LockInv'
    /\ DelPush(h) => LockInv'
    /\ DelSave(h) => LockInv'
  <1> USE DEF dbVars, xrayVars, InAdd, InDel, InEdit, InAddInb, InUpd, Removing, Saving
  <1>h. /\ TypeOK /\ LockRestart(h) /\ LockSnap(h) /\ LockLive(h) /\ row \in Row
        /\ stat \in [E -> Mark] /\ job[h] \in Job /\ h \in Threads
        /\ live \in [up : BOOLEAN, inb : BOOLEAN, users : SUBSET E]
        /\ due = {} /\ ~over /\ \A e \in E : stat[e] # "off"
    BY LockHere DEF Calm
  <1>1. ASSUME NEW c \in E, DelRead(h, c) PROVE LockInv'
    <2> DEFINE j == [NoJob EXCEPT !.c = c, !.snap = row]
    <2>1. Remember(h, j, "del.stat") /\ j.snap = row /\ j.drop = {}
      BY <1>1 DEF DelRead, NoJob
    <2> HIDE DEF j
    <2>2. job'[h] = j /\ pc'[h] = "del.stat" /\ Goto(h, "del.stat")
      BY <1>h, <2>1, RememberAt
    <2>3. /\ UNCHANGED <<row, stat, due, over, live, batch, proc>>
          /\ pc[h] = "idle" /\ pc[Restarter] = "idle"
      BY <1>1 DEF DelRead, MayBegin, LockWays
    <2>4. LockSnap(h)'
      BY <1>h, <2>1, <2>2, <2>3 DEF LockSnap
    <2>5. LetInBy(h)' = LetInBy(h)
      BY <2>2, <2>3 DEF LetInBy, Admitted, Removed, Added
    <2>6. QED
      BY <1>h, <2>2, <2>3, <2>4, <2>5, LockRead
  <1>2. ASSUME DelStat(h) PROVE LockInv'
    <2> DEFINE c == job[h].c
    <2>1. pc[h] = "del.stat" /\ UNCHANGED <<row, live, over, batch, proc>>
      BY <1>2 DEF DelStat
    <2>2. c \in E /\ job[h].snap = row /\ job[h].drop = {}
      BY <1>h, <2>1, LockHere DEF TypeInv, ArgInv, LockSnap
    <2>3. CASE stat[c] = "none"
      <3>1. Finish(h, FALSE) /\ stat' = stat /\ due' = due
        BY <1>2, <2>3 DEF DelStat
      <3>2. job'[h] = NoJob /\ pc'[h] = "idle" /\ Goto(h, "idle") /\ job'[h].drop = {}
        BY <1>h, <3>1, FinishAt, NoJobPlain
      <3>3. LockSnap(h)'
        BY <3>2 DEF LockSnap
      <3>4. LetInBy(h)' \subseteq LetInBy(h)
        BY <2>1, <3>1, <3>2 DEF LetInBy, Admitted, Removed, Added
      <3>5. QED
        BY <1>h, <2>1, <3>1, <3>2, <3>3, <3>4, LockRead
    <2>4. CASE stat[c] # "none"
      <3> DEFINE l == IF row.set[c] = "on" /\ stat[c] = "on" THEN "del.push" ELSE "del.save"
      <3>1. /\ stat' = [stat EXCEPT ![c] = "none"] /\ due' = {}
            /\ Goto(h, l) /\ job' = job
        BY <1>h, <1>2, <2>2, <2>4 DEF DelStat
      <3>2. pc'[h] = l
        BY <1>h, <3>1, PcOf
      <3>3. LockSnap(h)'
        BY <1>h, <2>1, <2>2, <3>1, <3>2 DEF LockSnap
      <3>4. LetInBy(h)' \subseteq LetInBy(h) /\ \A e \in E : stat'[e] # "off"
        BY <1>h, <2>1, <2>2, <3>1, <3>2 DEF LetInBy, Admitted, Removed, Added
      <3>5. QED
        BY <1>h, <2>1, <3>1, <3>2, <3>3, <3>4, LockRead
    <2>5. QED
      BY <2>3, <2>4
  <1>3. ASSUME DelPush(h) PROVE LockInv'
    <2> DEFINE c == job[h].c
    <2>1. pc[h] = "del.push" /\ UNCHANGED <<row, stat, due, over, batch, proc>>
      BY <1>3 DEF DelPush
    <2>2. c \in E /\ job[h].snap = row /\ job[h].drop = {}
      BY <1>h, <2>1, LockHere DEF TypeInv, ArgInv, LockSnap
    <2>3. PICK ok \in BOOLEAN : /\ RemoveUser(c, ok)
                                /\ Remember(h, [job[h] EXCEPT !.flag = ~ok], "del.save")
      BY <1>3 DEF DelPush
    <2>4. live' = [live EXCEPT !.users = @ \ (IF ok THEN {c} ELSE {})]
      BY <2>3 DEF RemoveUser, ShutOut
    <2>5. live'.up = live.up /\ live'.inb = live.inb /\ live.users \ {c} \subseteq live'.users
      BY <1>h, <2>4
    <2> DEFINE j == [job[h] EXCEPT !.flag = ~ok]
    <2>6. j.c = c /\ j.snap = row /\ j.drop = {} /\ Remember(h, j, "del.save")
      BY <1>h, <2>2, <2>3 DEF Job
    <2> HIDE DEF j
    <2>7. job'[h] = j /\ pc'[h] = "del.save" /\ Goto(h, "del.save")
      BY <1>h, <2>6, RememberAt
    <2>8. LockSnap(h)'
      BY <1>h, <2>1, <2>6, <2>7 DEF LockSnap
    <2>9. LockLive(h)'
      <3>1. LetInBy(h)' \subseteq LetInBy(h) \ {c}
        BY <2>1, <2>6, <2>7 DEF LetInBy, Admitted, Removed, Added
      <3>2. GivenInb(h)' = GivenInb(h) /\ GivenUsers(h)' = LetInBy(h)' /\ GivenUsers(h) = LetInBy(h)
        BY <2>1, <2>7 DEF GivenInb, GivenUsers
      <3>3. QED
        BY <1>h, <2>5, <3>1, <3>2 DEF LockLive
    <2>10. QED
      BY <1>h, <2>1, <2>5, <2>7, <2>8, <2>9, LockStep DEF LockRestart
  <1>4. ASSUME DelSave(h) PROVE LockInv'
    <2> DEFINE c == job[h].c
    <2>1. /\ pc[h] = "del.save" /\ UNCHANGED <<live, stat, due, over, batch, proc>>
          /\ Finish(h, job[h].flag)
      BY <1>4 DEF DelSave
    <2>2. c \in E /\ job[h].snap = row
      BY <1>h, <2>1, LockHere DEF TypeInv, ArgInv, LockSnap
    <2>3. row' = [row EXCEPT !.set[c] = "none"]
      BY <1>4, <2>2 DEF DelSave
    <2>4. /\ row'.enable = row.enable /\ row'.there = row.there
          /\ \A e \in E : row'.set[e] = IF e = c THEN "none" ELSE row.set[e]
      BY <1>h, <2>2, <2>3 DEF Row
    <2>5. job'[h] = NoJob /\ pc'[h] = "idle" /\ Goto(h, "idle") /\ job'[h].drop = {}
      BY <1>h, <2>1, FinishAt, NoJobPlain
    <2>6. LockSnap(h)'
      BY <2>5 DEF LockSnap
    <2>7. LockLive(h)'
      <3>1. LetInBy(h)' \subseteq LetInBy(h)
        BY <2>1, <2>2, <2>4, <2>5 DEF LetInBy, Admitted, Removed, Added
      <3>2. GivenInb(h)' = GivenInb(h) /\ GivenUsers(h)' = LetInBy(h)' /\ GivenUsers(h) = LetInBy(h)
        BY <2>1, <2>4, <2>5 DEF GivenInb, GivenUsers
      <3>3. QED
        BY <1>h, <2>1, <3>1, <3>2 DEF LockLive
    <2>8. QED
      BY <1>h, <2>1, <2>4, <2>5, <2>6, <2>7, LockStep DEF LockRestart
  <1>5. QED
    BY <1>1, <1>2, <1>3, <1>4

LEMMA EditLock ==
  ASSUME LockWays, LockInv, TypeInv', NEW h \in Handlers PROVE
    /\ \A c, d \in E, en \in BOOLEAN : EditRead(h, c, d, en) => LockInv'
    /\ EditPush(h) => LockInv'
    /\ EditSave(h) => LockInv'
  <1> USE DEF dbVars, xrayVars, InAdd, InDel, InEdit, InAddInb, InUpd, Removing, Saving
  <1>h. /\ TypeOK /\ LockRestart(h) /\ LockSnap(h) /\ LockLive(h) /\ row \in Row
        /\ stat \in [E -> Mark] /\ job[h] \in Job /\ h \in Threads
        /\ live \in [up : BOOLEAN, inb : BOOLEAN, users : SUBSET E]
        /\ due = {} /\ ~over /\ \A e \in E : stat[e] # "off"
    BY LockHere DEF Calm
  <1>1. ASSUME NEW c \in E, NEW d \in E, NEW en \in BOOLEAN, EditRead(h, c, d, en) PROVE LockInv'
    <2> DEFINE j == [NoJob EXCEPT !.c = c, !.d = d, !.en = en, !.snap = row]
    <2>1. Remember(h, j, "edit.push") /\ j.snap = row /\ j.drop = {}
      BY <1>1 DEF EditRead, NoJob
    <2> HIDE DEF j
    <2>2. job'[h] = j /\ pc'[h] = "edit.push" /\ Goto(h, "edit.push")
      BY <1>h, <2>1, RememberAt
    <2>3. /\ UNCHANGED <<row, stat, due, over, live, batch, proc>>
          /\ pc[h] = "idle" /\ pc[Restarter] = "idle"
      BY <1>1 DEF EditRead, MayBegin, LockWays
    <2>4. LockSnap(h)'
      BY <1>h, <2>1, <2>2, <2>3 DEF LockSnap
    <2>5. LetInBy(h)' = LetInBy(h)
      BY <2>2, <2>3 DEF LetInBy, Admitted, Removed, Added
    <2>6. QED
      BY <1>h, <2>2, <2>3, <2>4, <2>5, LockRead
  <1>2. ASSUME EditPush(h) PROVE LockInv'
    <2> DEFINE c == job[h].c
               d == job[h].d
    <2>1. pc[h] = "edit.push" /\ UNCHANGED <<row, stat, due, over, batch, proc>>
      BY <1>2 DEF EditPush
    <2>2. c \in E /\ d \in E /\ job[h].snap = row /\ job[h].drop = {}
      BY <1>h, <2>1, LockHere DEF TypeInv, ArgInv, LockSnap
    <2>3. CASE c # d /\ stat[c] # "none" /\ stat[d] # "none"
      <3>1. Finish(h, FALSE) /\ live' = live
        BY <1>2, <2>3 DEF EditPush
      <3>2. job'[h] = NoJob /\ pc'[h] = "idle" /\ Goto(h, "idle") /\ job'[h].drop = {}
        BY <1>h, <3>1, FinishAt, NoJobPlain
      <3>3. LockSnap(h)'
        BY <3>2 DEF LockSnap
      <3>4. LetInBy(h)' \subseteq LetInBy(h)
        BY <2>1, <3>1, <3>2 DEF LetInBy, Admitted, Removed, Added
      <3>5. QED
        BY <1>h, <2>1, <3>1, <3>2, <3>3, <3>4, LockRead
    <2>4. CASE ~(c # d /\ stat[c] # "none" /\ stat[d] # "none")
      <3> DEFINE drop == WasOn(h)
      <3>1. PICK gone \in Outcomes(HasInbound) :
              LET rest == IF drop /\ gone THEN live.users \ {c} ELSE live.users IN
              \E ok \in Outcomes(HasInbound /\ d \notin rest) :
                 /\ live' = [live EXCEPT !.users = IF job[h].en /\ ok THEN rest \cup {d} ELSE rest]
                 /\ Remember(h, [job[h] EXCEPT !.flag = (drop /\ ~gone) \/ (job[h].en /\ ~ok)],
                             "edit.save")
        BY <1>2, <2>4 DEF EditPush
      <3> DEFINE rest == IF drop /\ gone THEN live.users \ {c} ELSE live.users
      <3>2. PICK ok \in Outcomes(HasInbound /\ d \notin rest) :
              /\ live' = [live EXCEPT !.users = IF job[h].en /\ ok THEN rest \cup {d} ELSE rest]
              /\ Remember(h, [job[h] EXCEPT !.flag = (drop /\ ~gone) \/ (job[h].en /\ ~ok)],
                          "edit.save")
        BY <3>1
      <3>3. live.inb => (ok <=> d \notin rest)
        BY <1>h, <3>2 DEF Outcomes, HasInbound, LockWays, LockLive
      <3> DEFINE f == (drop /\ ~gone) \/ (job[h].en /\ ~ok)
                 j == [job[h] EXCEPT !.flag = f]
      <3>4. /\ j.c = c /\ j.d = d /\ j.en = job[h].en /\ j.snap = row /\ j.drop = {}
            /\ Remember(h, j, "edit.save")
        BY <1>h, <2>2, <3>2 DEF Job
      <3>5. /\ live'.up = live.up /\ live'.inb = live.inb
            /\ live.users \ {c} \subseteq live'.users
            /\ live.inb /\ job[h].en => d \in live'.users
        BY <1>h, <3>2, <3>3
      <3> HIDE DEF j, f, drop, rest
      <3>6. job'[h] = j /\ pc'[h] = "edit.save" /\ Goto(h, "edit.save")
        BY <1>h, <3>4, RememberAt
      <3>7. LockSnap(h)'
        BY <1>h, <2>1, <3>4, <3>6 DEF LockSnap
      <3>8. LockLive(h)'
        <4>1. LetInBy(h)' \subseteq (LetInBy(h) \ {c}) \cup (IF job[h].en THEN {d} ELSE {})
          BY <2>1, <3>4, <3>6 DEF LetInBy, Admitted, Removed, Added
        <4>2. GivenInb(h)' = GivenInb(h) /\ GivenUsers(h)' = LetInBy(h)' /\ GivenUsers(h) = LetInBy(h)
          BY <2>1, <3>6 DEF GivenInb, GivenUsers
        <4>3. QED
          BY <1>h, <3>5, <4>1, <4>2 DEF LockLive
      <3>9. QED
        BY <1>h, <2>1, <3>5, <3>6, <3>7, <3>8, LockStep DEF LockRestart
    <2>5. QED
      BY <2>3, <2>4
  <1>3. ASSUME EditSave(h) PROVE LockInv'
    <2> DEFINE c == job[h].c
               d == job[h].d
    <2>1. /\ pc[h] = "edit.save" /\ UNCHANGED <<live, over, batch, proc>>
          /\ Finish(h, job[h].flag) /\ due' \in NewLimits(c, d)
      BY <1>3 DEF EditSave
    <2>2. c \in E /\ d \in E /\ job[h].snap = row
      BY <1>h, <2>1, LockHere DEF TypeInv, ArgInv, LockSnap
    <2>3. /\ row' = [row EXCEPT !.set[c] = "none", !.set[d] = MarkOf(job[h].en)]
          /\ stat' = [stat EXCEPT ![c] = "none", ![d] = IF stat[c] = "none" THEN @ ELSE "on"]
      BY <1>3, <2>2 DEF EditSave, Renamed
    <2>4. /\ row'.enable = row.enable /\ row'.there = row.there
          /\ \A e \in E : row'.set[e] = IF e = d THEN MarkOf(job[h].en)
                                        ELSE IF e = c THEN "none" ELSE row.set[e]
      BY <1>h, <2>2, <2>3 DEF Row
    <2>5. due' = {} /\ \A e \in E : stat'[e] # "off"
      BY <1>h, <2>1, <2>2, <2>3 DEF NewLimits, LockWays
    <2>6. job'[h] = NoJob /\ pc'[h] = "idle" /\ Goto(h, "idle") /\ job'[h].drop = {}
      BY <1>h, <2>1, FinishAt, NoJobPlain
    <2>7. LockSnap(h)'
      BY <2>6 DEF LockSnap
    <2>8. LockLive(h)'
      <3>1. live.inb => LetInBy(h)' \subseteq LetInBy(h)
        BY <1>h, <2>1, <2>2, <2>4, <2>6 DEF LetInBy, Admitted, Removed, Added, MarkOf
      <3>2. GivenInb(h)' = GivenInb(h) /\ GivenUsers(h)' = LetInBy(h)' /\ GivenUsers(h) = LetInBy(h)
        BY <2>1, <2>4, <2>6 DEF GivenInb, GivenUsers
      <3>3. QED
        BY <1>h, <2>1, <3>1, <3>2 DEF LockLive
    <2>9. QED
      BY <1>h, <2>1, <2>4, <2>5, <2>6, <2>7, <2>8, LockStep DEF LockRestart
  <1>4. QED
    BY <1>1, <1>2, <1>3

LEMMA ResetLock ==
  ASSUME LockWays, LockInv, TypeInv', NEW h \in Handlers PROVE
    /\ \A c \in E : ResetRead(h, c) => LockInv'
    /\ ~ResetPush(h)
    /\ ResetSave(h) => LockInv'
    /\ ~DepRead(h) /\ ~DepSave(h) /\ ~DepPurge(h)
  <1> USE DEF dbVars, xrayVars, InAdd, InDel, InEdit, InAddInb, InUpd, Removing, Saving
  <1>h. /\ TypeOK /\ LockRestart(h) /\ LockSnap(h) /\ LockLive(h) /\ row \in Row
        /\ stat \in [E -> Mark] /\ job[h] \in Job /\ h \in Threads
        /\ live \in [up : BOOLEAN, inb : BOOLEAN, users : SUBSET E]
        /\ due = {} /\ ~over /\ \A e \in E : stat[e] # "off"
    BY LockHere DEF Calm
  <1>1. ASSUME NEW c \in E, ResetRead(h, c) PROVE LockInv'
    <2> DEFINE j == [NoJob EXCEPT !.c = c]
    <2>1. Remember(h, j, "reset.save") /\ j.c = c /\ j.drop = {}
      BY <1>h, <1>1 DEF ResetRead, NoJob
    <2> HIDE DEF j
    <2>2. job'[h] = j /\ pc'[h] = "reset.save" /\ Goto(h, "reset.save")
      BY <1>h, <2>1, RememberAt
    <2>3. /\ UNCHANGED <<row, stat, due, over, live, batch, proc>>
          /\ pc[h] = "idle" /\ pc[Restarter] = "idle"
      BY <1>1 DEF ResetRead, MayBegin, LockWays
    <2>4. LockSnap(h)'
      BY <1>h, <2>1, <2>2, <2>3 DEF LockSnap
    <2>5. row.enable => LetInBy(h)' \subseteq LetInBy(h)
      BY <1>h, <2>1, <2>2, <2>3 DEF LetInBy, Admitted, Removed, Added
    <2>6. QED
      BY <1>h, <2>2, <2>3, <2>4, <2>5, LockRead
  <1>2. ASSUME ResetSave(h) PROVE LockInv'
    <2>1. /\ pc[h] = "reset.save" /\ UNCHANGED <<row, live, over, batch, proc>>
          /\ Finish(h, job[h].flag) /\ stat' = [stat EXCEPT ![job[h].c] = "on"]
          /\ due' \in {due, due \ {job[h].c}}
      BY <1>2 DEF ResetSave
    <2>2. due' = {} /\ \A e \in E : stat'[e] # "off"
      BY <1>h, <2>1
    <2>3. job'[h] = NoJob /\ pc'[h] = "idle" /\ Goto(h, "idle") /\ job'[h].drop = {}
      BY <1>h, <2>1, FinishAt, NoJobPlain
    <2>4. LockSnap(h)'
      BY <2>3 DEF LockSnap
    <2>5. LetInBy(h)' \subseteq LetInBy(h)
      BY <1>h, <2>1, <2>3 DEF LetInBy, Admitted, Removed, Added
    <2>6. QED
      BY <1>h, <2>1, <2>2, <2>3, <2>4, <2>5, LockRead
  <1>3. ~ResetPush(h) /\ ~DepSave(h) /\ ~DepPurge(h)
    BY <1>h DEF LockSnap, ResetPush, DepSave, DepPurge
  <1>4. ~DepRead(h)
    BY <1>h DEF DepRead, Depleted
  <1>5. QED
    BY <1>1, <1>2, <1>3, <1>4

LEMMA AddInbLock ==
  ASSUME LockWays, LockInv, TypeInv', NEW h \in Handlers PROVE
    /\ \A s \in [E -> Mark], en \in BOOLEAN : AddInbRead(h, s, en) => LockInv'
    /\ AddInbPush(h) => LockInv'
    /\ AddInbSave(h) => LockInv'
  <1> USE DEF dbVars, xrayVars, InAdd, InDel, InEdit, InAddInb, InUpd, Removing, Saving
  <1>h. /\ TypeOK /\ LockRestart(h) /\ LockSnap(h) /\ LockLive(h) /\ row \in Row
        /\ stat \in [E -> Mark] /\ job[h] \in Job /\ h \in Threads
        /\ live \in [up : BOOLEAN, inb : BOOLEAN, users : SUBSET E]
        /\ due = {} /\ ~over /\ \A e \in E : stat[e] # "off"
    BY LockHere DEF Calm
  <1>1. ASSUME NEW s \in [E -> Mark], NEW en \in BOOLEAN, AddInbRead(h, s, en) PROVE LockInv'
    <2> DEFINE j == [NoJob EXCEPT !.snap = [there |-> TRUE, enable |-> en, set |-> s]]
    <2>1. Remember(h, j, "addinb.push") /\ j.snap.there /\ j.drop = {}
      BY <1>1 DEF AddInbRead, NoJob
    <2> HIDE DEF j
    <2>2. job'[h] = j /\ pc'[h] = "addinb.push" /\ Goto(h, "addinb.push")
      BY <1>h, <2>1, RememberAt
    <2>3. /\ UNCHANGED <<row, stat, due, over, live, batch, proc>> /\ ~row.there
          /\ pc[h] = "idle" /\ pc[Restarter] = "idle"
      BY <1>1 DEF AddInbRead, MayBegin, LockWays
    <2>4. LockSnap(h)'
      BY <1>h, <2>1, <2>2, <2>3 DEF LockSnap
    <2>5. LetInBy(h)' = LetInBy(h)
      BY <2>2, <2>3 DEF LetInBy, Admitted, Removed, Added
    <2>6. QED
      BY <1>h, <2>2, <2>3, <2>4, <2>5, LockRead
  <1>2. ASSUME AddInbPush(h) PROVE LockInv'
    <2> DEFINE form == job[h].snap
    <2>1. pc[h] = "addinb.push" /\ UNCHANGED <<row, stat, due, over, batch, proc>>
      BY <1>2 DEF AddInbPush
    <2>2. form.there /\ job[h].drop = {} /\ ~row.there /\ ~row.enable /\ ~live.inb
      BY <1>h, <2>1 DEF LockSnap, LockRestart, LockLive, GivenInb
    <2>3. PICK j \in Job : /\ Remember(h, j, "addinb.save")
                           /\ j.snap = form /\ j.drop = {}
                           /\ live'.up = live.up /\ (live'.inb <=> live.up /\ form.enable)
                           /\ live'.inb => live'.users = Clients(form)
      <3>1. CASE form.enable
        <4>1. PICK ok \in Outcomes(live.up /\ ~live.inb) :
                /\ live' = IF ok THEN [live EXCEPT !.inb = TRUE, !.users = Clients(form)] ELSE live
                /\ Remember(h, [job[h] EXCEPT !.flag = ~ok], "addinb.save")
          BY <1>2, <3>1 DEF AddInbPush
        <4>2. ok <=> live.up
          BY <2>2, <4>1 DEF Outcomes, LockWays
        <4> DEFINE k == [job[h] EXCEPT !.flag = ~ok]
        <4>3. k.snap = form /\ k.drop = {} /\ Remember(h, k, "addinb.save")
          BY <1>h, <2>2, <4>1 DEF Job
        <4>4. k \in Job
          BY <1>h, <4>2 DEF Job
        <4> HIDE DEF k
        <4>5. /\ live'.up = live.up /\ (live'.inb <=> live.up /\ form.enable)
              /\ live'.inb => live'.users = Clients(form)
          BY <1>h, <2>2, <3>1, <4>1, <4>2
        <4>6. QED
          BY <4>3, <4>4, <4>5
      <3>2. CASE ~form.enable
        BY <1>2, <1>h, <2>2, <3>2 DEF AddInbPush
      <3>3. QED
        BY <3>1, <3>2
    <2>4. job'[h] = j /\ pc'[h] = "addinb.save" /\ Goto(h, "addinb.save")
      BY <1>h, <2>3, RememberAt
    <2>5. LockSnap(h)'
      BY <1>h, <2>1, <2>2, <2>3, <2>4 DEF LockSnap
    <2>6. LockLive(h)'
      BY <2>3, <2>4 DEF LockLive, GivenInb, GivenUsers, Clients
    <2>7. QED
      BY <1>h, <2>1, <2>3, <2>4, <2>5, <2>6, LockStep DEF LockRestart
  <1>3. ASSUME AddInbSave(h) PROVE LockInv'
    <2> DEFINE form == job[h].snap
    <2>1. /\ pc[h] = "addinb.save" /\ UNCHANGED <<live, due, batch, proc>> /\ ~over'
          /\ Finish(h, job[h].flag) /\ row' = form /\ stat' = WithStats(Clients(form))
      BY <1>3 DEF AddInbSave
    <2>2. form.there
      BY <1>h, <2>1 DEF LockSnap
    <2>3. \A e \in E : stat'[e] # "off"
      BY <1>h, <2>1 DEF WithStats
    <2>4. job'[h] = NoJob /\ pc'[h] = "idle" /\ Goto(h, "idle") /\ job'[h].drop = {}
      BY <1>h, <2>1, FinishAt, NoJobPlain
    <2>5. LockSnap(h)'
      BY <2>4 DEF LockSnap
    <2>6. LockLive(h)'
      BY <1>h, <2>1, <2>4
      DEF LockLive, GivenInb, GivenUsers, LetInBy, Admitted, Removed, Added
    <2>7. QED
      BY <1>h, <2>1, <2>2, <2>3, <2>4, <2>5, <2>6, LockStep
  <1>4. QED
    BY <1>1, <1>2, <1>3

LEMMA DelInbLock ==
  ASSUME LockWays, LockInv, TypeInv', NEW h \in Handlers PROVE
    /\ DelInbPush(h) => LockInv'
    /\ DelInbStats(h) => LockInv'
    /\ DelInbRow(h) => LockInv'
  <1> USE DEF dbVars, xrayVars, InAdd, InDel, InEdit, InAddInb, InUpd, Removing, Saving
  <1>h. /\ TypeOK /\ LockRestart(h) /\ LockSnap(h) /\ LockLive(h) /\ row \in Row
        /\ stat \in [E -> Mark] /\ job[h] \in Job /\ h \in Threads
        /\ live \in [up : BOOLEAN, inb : BOOLEAN, users : SUBSET E]
        /\ due = {} /\ ~over /\ \A e \in E : stat[e] # "off"
    BY LockHere DEF Calm
  <1>1. ASSUME DelInbPush(h) PROVE LockInv'
    <2>1. /\ pc[h] = "idle" /\ pc[Restarter] = "idle"
          /\ UNCHANGED <<row, stat, due, over, batch, proc>>
      BY <1>h, <1>1 DEF DelInbPush, MayBegin, LockWays, LockSnap
    <2>2. PICK j : /\ Remember(h, j, "delinb.stats") /\ ~live'.inb /\ j.drop = {}
                   /\ live'.up = live.up
      <3>0. job[h].drop = {}
        BY <1>h DEF LockSnap
      <3>1. CASE row.enable
        <4>1. PICK ok \in Outcomes(HasInbound) :
                /\ live' = IF ok THEN [live EXCEPT !.inb = FALSE, !.users = {}] ELSE live
                /\ Remember(h, [job[h] EXCEPT !.flag = ~ok], "delinb.stats")
          BY <1>1, <3>1 DEF DelInbPush
        <4>2. live.inb => ok
          BY <1>h, <4>1 DEF Outcomes, HasInbound, LockWays, LockLive
        <4>3. ~live'.inb /\ live'.up = live.up
          BY <1>h, <4>1, <4>2
        <4> DEFINE k == [job[h] EXCEPT !.flag = ~ok]
        <4>4. k.drop = {} /\ Remember(h, k, "delinb.stats")
          BY <1>h, <3>0, <4>1 DEF Job
        <4>5. QED
          BY <4>3, <4>4
      <3>2. CASE ~row.enable
        <4>1. Remember(h, job[h], "delinb.stats") /\ live' = live
          BY <1>1, <3>2 DEF DelInbPush
        <4>2. ~live.inb
          BY <1>h, <2>1, <3>2 DEF LockLive, GivenInb
        <4>3. QED
          BY <3>0, <4>1, <4>2
      <3>3. QED
        BY <3>1, <3>2
    <2>3. job'[h] = j /\ pc'[h] = "delinb.stats" /\ Goto(h, "delinb.stats")
      BY <1>h, <2>2, RememberAt
    <2>4. LockSnap(h)'
      BY <2>2, <2>3 DEF LockSnap
    <2>5. LockLive(h)'
      BY <2>2, <2>3 DEF LockLive, GivenInb
    <2>6. QED
      BY <1>h, <2>1, <2>2, <2>3, <2>4, <2>5, LockStep DEF LockRestart
  <1>2. ASSUME DelInbStats(h) PROVE LockInv'
    <2>1. /\ pc[h] = "delinb.stats" /\ UNCHANGED <<row, live, over, job, batch, proc>>
          /\ stat' = [e \in E |-> "none"] /\ due' = {} /\ Goto(h, "delinb.row")
      BY <1>2 DEF DelInbStats
    <2>2. pc'[h] = "delinb.row" /\ ~live.inb
      BY <1>h, <2>1, PcOf DEF LockLive, GivenInb
    <2>3. LockSnap(h)'
      BY <1>h, <2>1, <2>2 DEF LockSnap
    <2>4. LockLive(h)'
      BY <2>1, <2>2 DEF LockLive, GivenInb
    <2>5. QED
      BY <1>h, <2>1, <2>3, <2>4, LockStep DEF LockRestart
  <1>3. ASSUME DelInbRow(h) PROVE LockInv'
    <2>1. /\ pc[h] = "delinb.row" /\ job[h].drop = {} /\ ~live.inb
      BY <1>h, <1>3 DEF DelInbRow, LockSnap, LockLive, GivenInb
    <2>2. /\ UNCHANGED <<stat, due, live, batch, proc>> /\ ~over' /\ row' = NoRow
          /\ Finish(h, job[h].flag)
      BY <1>3, <2>1 DEF DelInbRow
    <2>3. ~row'.enable
      BY <2>2 DEF NoRow
    <2>4. job'[h] = NoJob /\ pc'[h] = "idle" /\ Goto(h, "idle") /\ job'[h].drop = {}
      BY <1>h, <2>2, FinishAt, NoJobPlain
    <2>5. LockSnap(h)'
      BY <2>4 DEF LockSnap
    <2>6. LockLive(h)'
      BY <2>1, <2>2, <2>3, <2>4 DEF LockLive, GivenInb
    <2>7. QED
      BY <1>h, <2>1, <2>2, <2>3, <2>4, <2>5, <2>6, LockStep
  <1>4. QED
    BY <1>1, <1>2, <1>3

LEMMA UpdLock ==
  ASSUME LockWays, LockInv, TypeInv', NEW h \in Handlers PROVE
    /\ \A en \in BOOLEAN : UpdLoad(h, en) => LockInv'
    /\ UpdPush(h) => LockInv'
    /\ UpdSave(h) => LockInv'
  <1> USE DEF dbVars, xrayVars, InAdd, InDel, InEdit, InAddInb, InUpd, Removing, Saving
  <1>h. /\ TypeOK /\ LockRestart(h) /\ LockSnap(h) /\ LockLive(h) /\ row \in Row
        /\ stat \in [E -> Mark] /\ job[h] \in Job /\ h \in Threads
        /\ live \in [up : BOOLEAN, inb : BOOLEAN, users : SUBSET E]
        /\ due = {} /\ ~over /\ \A e \in E : stat[e] # "off"
    BY LockHere DEF Calm
  <1>1. ASSUME NEW en \in BOOLEAN, UpdLoad(h, en) PROVE LockInv'
    <2> DEFINE form == [row EXCEPT !.enable = en]
               j == [NoJob EXCEPT !.snap = form]
    <2>1. row.there /\ form.there
      BY <1>h, <1>1 DEF UpdLoad, Row
    <2>2. Remember(h, j, "updinb.push") /\ j.snap.there /\ j.drop = {}
      BY <1>1, <2>1 DEF UpdLoad, NoJob
    <2> HIDE DEF j
    <2>3. job'[h] = j /\ pc'[h] = "updinb.push" /\ Goto(h, "updinb.push")
      BY <1>h, <2>2, RememberAt
    <2>4. /\ UNCHANGED <<row, stat, due, over, live, batch, proc>>
          /\ pc[h] = "idle" /\ pc[Restarter] = "idle"
      BY <1>1 DEF UpdLoad, MayBegin, LockWays
    <2>5. LockSnap(h)'
      BY <1>h, <2>2, <2>3, <2>4 DEF LockSnap
    <2>6. LetInBy(h)' = LetInBy(h)
      BY <2>3, <2>4 DEF LetInBy, Admitted, Removed, Added
    <2>7. QED
      BY <1>h, <2>3, <2>4, <2>5, <2>6, LockRead
  <1>2. ASSUME UpdPush(h) PROVE LockInv'
    <2> DEFINE form == job[h].snap
               new == {e \in Clients(form) : e \notin Clients(row)}
    <2>1. /\ pc[h] = "updinb.push" /\ UNCHANGED <<row, stat, due, over, batch, proc>>
          /\ form.there /\ job[h].drop = {}
      BY <1>h, <1>2 DEF UpdPush, LockSnap
    <2>2. CASE ~row.there \/ \E e \in new : stat[e] # "none"
      <3>1. Finish(h, FALSE) /\ live' = live
        BY <1>2, <2>2 DEF UpdPush
      <3>2. job'[h] = NoJob /\ pc'[h] = "idle" /\ Goto(h, "idle") /\ job'[h].drop = {}
        BY <1>h, <3>1, FinishAt, NoJobPlain
      <3>3. LockSnap(h)'
        BY <3>2 DEF LockSnap
      <3>4. LetInBy(h)' = LetInBy(h)
        BY <2>1, <3>1, <3>2 DEF LetInBy, Admitted, Removed, Added
      <3>5. QED
        BY <1>h, <2>1, <3>1, <3>2, <3>3, <3>4, LockRead
    <2>3. CASE ~(~row.there \/ \E e \in new : stat[e] # "none")
      <3>1. PICK gone \in Outcomes(HasInbound) :
              LET left == IF gone THEN [live EXCEPT !.inb = FALSE, !.users = {}] ELSE live IN
              \E ok \in Outcomes(left.up /\ ~left.inb) :
                 /\ live' = IF form.enable /\ ok
                            THEN [left EXCEPT !.inb = TRUE, !.users = Clients(form)] ELSE left
                 /\ Remember(h, [job[h] EXCEPT !.flag = form.enable /\ ~ok], "updinb.save")
        BY <1>2, <2>3 DEF UpdPush
      <3> DEFINE left == IF gone THEN [live EXCEPT !.inb = FALSE, !.users = {}] ELSE live
      <3>2. PICK ok \in Outcomes(left.up /\ ~left.inb) :
              /\ live' = IF form.enable /\ ok
                         THEN [left EXCEPT !.inb = TRUE, !.users = Clients(form)] ELSE left
              /\ Remember(h, [job[h] EXCEPT !.flag = form.enable /\ ~ok], "updinb.save")
        BY <3>1
      <3>3. live.inb => gone
        BY <1>h, <3>1 DEF Outcomes, HasInbound, LockWays, LockLive
      <3>4. /\ left.up = live.up /\ ~left.inb
            /\ left \in [up : BOOLEAN, inb : BOOLEAN, users : SUBSET E]
        BY <1>h, <3>3
      <3> HIDE DEF left
      <3>5. ok <=> live.up
        BY <3>2, <3>4 DEF Outcomes, LockWays
      <3>6. /\ live'.up = live.up
            /\ live'.inb <=> live'.up /\ form.enable
            /\ live'.inb => live'.users = Clients(form)
        BY <1>h, <3>2, <3>4, <3>5
      <3> DEFINE j == [job[h] EXCEPT !.flag = form.enable /\ ~ok]
      <3>7. j.snap = form /\ j.drop = {} /\ Remember(h, j, "updinb.save")
        BY <1>h, <2>1, <3>2 DEF Job
      <3> HIDE DEF j
      <3>8. job'[h] = j /\ pc'[h] = "updinb.save" /\ Goto(h, "updinb.save")
        BY <1>h, <3>7, RememberAt
      <3>9. LockSnap(h)'
        BY <2>1, <3>7, <3>8 DEF LockSnap
      <3>10. LockLive(h)'
        BY <3>6, <3>7, <3>8 DEF LockLive, GivenInb, GivenUsers, Clients
      <3>11. QED
        BY <1>h, <2>1, <3>6, <3>8, <3>9, <3>10, LockStep DEF LockRestart
    <2>4. QED
      BY <2>2, <2>3
  <1>3. ASSUME UpdSave(h) PROVE LockInv'
    <2> DEFINE form == job[h].snap
               lost == Clients(row) \ Clients(form)
               new == Clients(form) \ Clients(row)
    <2>1. /\ pc[h] = "updinb.save" /\ UNCHANGED <<live, batch, proc>>
          /\ Finish(h, job[h].flag) /\ row' = form
          /\ stat' = [e \in E |-> IF e \in lost THEN "none" ELSE WithStats(new)[e]]
          /\ due' = due \ lost /\ over' \in {over, FALSE}
      BY <1>3 DEF UpdSave
    <2>2. form.there
      BY <1>h, <2>1 DEF LockSnap
    <2>3. \A e \in E : WithStats(new)[e] # "off"
      BY <1>h DEF WithStats
    <2> HIDE DEF lost, new
    <2>4. due' = {} /\ ~over' /\ \A e \in E : stat'[e] # "off"
      <3>1. due' = {} /\ ~over'
        BY <1>h, <2>1, StaysUnder
      <3>2. \A e \in E : stat'[e] # "off"
        BY <2>1, <2>3
      <3>3. QED
        BY <3>1, <3>2
    <2>5. job'[h] = NoJob /\ pc'[h] = "idle" /\ Goto(h, "idle") /\ job'[h].drop = {}
      BY <1>h, <2>1, FinishAt, NoJobPlain
    <2>6. LockSnap(h)'
      BY <2>5 DEF LockSnap
    <2>7. LockLive(h)'
      BY <1>h, <2>1, <2>5
      DEF LockLive, GivenInb, GivenUsers, LetInBy, Admitted, Removed, Added
    <2>8. QED
      BY <1>h, <2>1, <2>2, <2>4, <2>5, <2>6, <2>7, LockStep
  <1>4. QED
    BY <1>1, <1>2, <1>3

(* A request is cut off only while Xray is down, and the restart that will *)
(* bring it up has yet to read the tables.                                 *)
LEMMA BreakLock ==
  ASSUME LockWays, LockInv, TypeInv', NEW h \in Handlers, Break(h) PROVE LockInv'
  <1> USE DEF dbVars
  <1>h. /\ TypeOK /\ LockRestart(h) /\ LockSnap(h) /\ LockLive(h) /\ Down /\ row \in Row
        /\ stat \in [E -> Mark] /\ job[h] \in Job /\ h \in Threads
        /\ live \in [up : BOOLEAN, inb : BOOLEAN, users : SUBSET E]
        /\ due = {} /\ ~over /\ \A e \in E : stat[e] # "off"
    BY LockHere DEF Calm
  <1>1. /\ MayPanic(h) /\ Goto(h, "idle") /\ job' = [job EXCEPT ![h] = NoJob]
        /\ UNCHANGED <<batch, proc>>
    BY DEF Break, AddBreak, DelBreak, EditBreak, ResetBreak, AddInbBreak, DelInbBreak,
           UpdBreak, Unwind
  <1>2. proc # "set" /\ ~live.up /\ ~live.inb
    <2>1. Handlers \ {h} = {}
      BY DEF LockWays, OneHandler
    <2>2. QED
      BY <1>h, <1>1, <2>1 DEF MayPanic, Down, LockLive
  <1>3. pc[h] # "idle" \/ pc[Restarter] = "idle"
    BY DEF Break, AddBreak, DelBreak, EditBreak, ResetBreak, AddInbBreak, DelInbBreak,
           UpdBreak, MayBegin, LockWays
  <1>4. live' = live
    BY <1>2 DEF Break, AddBreak, DelBreak, EditBreak, ResetBreak, AddInbBreak, DelInbBreak,
                UpdBreak
  <1>5. job'[h] = NoJob /\ pc'[h] = "idle" /\ job'[h].drop = {}
    BY <1>h, <1>1, NoJobPlain DEF TypeOK, Goto
  <1>6. LockSnap(h)' /\ LockLive(h)'
    BY <1>2, <1>4, <1>5
    DEF LockSnap, LockLive, InAdd, InDel, InEdit, InAddInb, InUpd
  <1>7. /\ due' = {} /\ ~over' /\ \A e \in E : stat'[e] # "off"
        /\ row'.enable => row'.there
    <2>0. row.enable => row.there
      BY <1>h DEF LockRestart
    <2>1. CASE AddBreak(h)
      BY <1>h, <2>0, <2>1 DEF AddBreak, WithStats
    <2>2. CASE DelBreak(h) \/ ResetBreak(h) \/ DelInbBreak(h)
      BY <1>h, <2>0, <2>2 DEF DelBreak, ResetBreak, DelInbBreak
    <2>3. CASE EditBreak(h)
      <3>1. job[h].c \in E /\ job[h].d \in E
        BY <1>h, <2>3, LockHere DEF TypeInv, ArgInv, EditBreak, InEdit
      <3>2. QED
        BY <1>h, <2>0, <2>3, <3>1 DEF EditBreak, Renamed, NewLimits, LockWays
    <2>4. CASE AddInbBreak(h)
      BY <1>h, <2>4 DEF AddInbBreak, WithStats, LockSnap, InAddInb
    <2>5. CASE UpdBreak(h)
      <3> DEFINE lost == Clients(row) \ Clients(job[h].snap)
                 new == Clients(job[h].snap) \ Clients(row)
      <3>1. /\ stat' = [e \in E |-> IF e \in lost THEN "none" ELSE WithStats(new)[e]]
            /\ due' = due \ lost /\ UNCHANGED <<row, over>>
        BY <2>5 DEF UpdBreak
      <3>2. \A e \in E : WithStats(new)[e] # "off"
        BY <1>h DEF WithStats
      <3> HIDE DEF lost, new
      <3>3. QED
        BY <1>h, <2>0, <3>1, <3>2
    <2>6. QED
      BY <2>1, <2>2, <2>3, <2>4, <2>5 DEF Break
  <1>8. live'.up = live.up
    BY <1>4
  <1>9. QED
    BY <1>1, <1>3, <1>6, <1>7, <1>8, LockStep

(* What a handler is about to save, and what Xray has been given for it,   *)
(* stand when the tables do.                                               *)
LEMMA StillLock ==
  ASSUME NEW h \in Handlers, pc'[h] = pc[h], job'[h] = job[h], row' = row, stat' = stat
  PROVE  /\ LockSnap(h)' <=> LockSnap(h)
         /\ GivenInb(h)' = GivenInb(h) /\ GivenUsers(h)' = GivenUsers(h) /\ Admitted' = Admitted
  BY DEF LockSnap, GivenInb, GivenUsers, LetInBy, Admitted, Removed, Added

(* A step of the jobs that leaves the tables and the handlers alone. *)
LEMMA ControlLock ==
  ASSUME LockInv, TypeInv', UNCHANGED <<row, stat, job>>, due' = {}, ~over', Down',
         \A h \in Handlers : pc'[h] = pc[h],
         \A t \in Jobs : batch'[t].renew = {} /\ batch'[t].drop = {} /\ ~batch'[t].inb,
         pc'[Restarter] # "idle" =>
           \/ pc[Restarter] # "idle" /\ built' = built
           \/ /\ \A h \in Handlers : pc[h] = "idle"
              /\ built'.config.inb = row.enable /\ Admitted \subseteq built'.config.users,
         \/ live' = live
         \/ ~live'.up /\ ~live'.inb
         \/ /\ \A h \in Handlers : pc[h] = "idle"
            /\ live'.up /\ live'.inb = row.enable /\ Admitted \subseteq live'.users
  PROVE  LockInv'
  <1>1. Calm'
    BY DEF LockInv, Calm
  <1>2. ASSUME NEW h \in Handlers PROVE LockRestart(h)' /\ LockSnap(h)' /\ LockLive(h)'
    <2>1. /\ LockRestart(h) /\ LockSnap(h) /\ LockLive(h) /\ row \in Row
          /\ LockSnap(h)' /\ GivenInb(h)' = GivenInb(h) /\ GivenUsers(h)' = GivenUsers(h)
          /\ Admitted' = Admitted
      BY StillLock, LockHere DEF LockInv
    <2>2. LockRestart(h)'
      BY <2>1 DEF LockRestart
    <2>3. CASE live' = live \/ (~live'.up /\ ~live'.inb)
      BY <2>1, <2>2, <2>3 DEF LockLive
    <2>4. CASE /\ \A g \in Handlers : pc[g] = "idle"
               /\ live'.up /\ live'.inb = row.enable /\ Admitted \subseteq live'.users
      <3>1. pc[h] = "idle"
        BY <2>4
      <3>2. GivenInb(h) = row.enable /\ GivenUsers(h) = Admitted
        BY <2>1, <3>1 DEF GivenInb, GivenUsers, Saving, Removing, LetInBy, Removed, Added, Row
      <3>3. QED
        BY <2>1, <2>2, <2>4, <3>2 DEF LockLive
    <2>5. QED
      BY <2>3, <2>4
  <1>3. QED
    BY <1>1, <1>2 DEF LockInv

LEMMA RestartLock ==
  ASSUME LockWays, LockInv, TypeInv',
         \/ Tick \/ (\E force \in BOOLEAN : RestartBegin(force)) \/ Keep \/ StopXray \/ NewProcess
         \/ StartXray
  PROVE  LockInv'
  <1> USE DEF dbVars, xrayVars
  <1>h. /\ TypeOK /\ due = {} /\ ~over /\ Down
        /\ \A t \in Jobs : batch[t].renew = {} /\ batch[t].drop = {} /\ ~batch[t].inb
        /\ \A h \in Handlers : LockRestart(h)
        /\ Ticker # Restarter /\ Ticker \in Jobs /\ Restarter \in Jobs
    BY NamesAssumption, JobsTyped DEF LockInv, Calm, TypeInv
  <1>1. UNCHANGED <<row, stat, due, over, job, batch>>
    BY DEF Tick, RestartBegin, Keep, StopXray, NewProcess, StartXray
  <1>2. CASE Tick
    <2>1. Goto(Ticker, "traffic") /\ live' = live /\ built' = built /\ proc' = proc
      BY <1>2 DEF Tick
    <2>2. (\A h \in Handlers : pc'[h] = pc[h]) /\ pc'[Restarter] = pc[Restarter]
      BY <1>h, <2>1, JobElsewhere
    <2>3. Down'
      BY <1>h, <2>1, <2>2 DEF Down
    <2>4. QED
      BY <1>h, <1>1, <2>1, <2>2, <2>3, ControlLock
  <1>3. ASSUME NEW force \in BOOLEAN, RestartBegin(force) PROVE LockInv'
    <2>1. /\ Goto(Restarter, "traffic") /\ live' = live /\ proc' = proc
          /\ \A h \in Handlers : pc[h] = "idle"
          /\ built' = [config |-> DbConfig, force |-> force]
      BY <1>3 DEF RestartBegin, LockWays
    <2>2. (\A h \in Handlers : pc'[h] = pc[h]) /\ pc'[Restarter] = "traffic"
      BY <1>h, <2>1, JobElsewhere
    <2>3. built'.config.inb = row.enable /\ built'.config.users = Admitted
      BY <2>1 DEF DbConfig
    <2>4. Down'
      BY <1>h, <2>1, <2>2 DEF Down
    <2>5. QED
      BY <1>h, <1>1, <2>1, <2>2, <2>3, <2>4, ControlLock
  <1>4. CASE Keep
    <2>1. Goto(Restarter, "idle") /\ live' = live /\ proc' = proc
      BY <1>4 DEF Keep
    <2>2. (\A h \in Handlers : pc'[h] = pc[h]) /\ pc'[Restarter] = "idle"
      BY <1>h, <2>1, JobElsewhere
    <2>3. Down'
      BY <1>h, <2>1, <2>2 DEF Down
    <2>4. QED
      BY <1>h, <1>1, <2>1, <2>2, <2>3, ControlLock
  <1>5. CASE StopXray
    <2>1. /\ Goto(Restarter, "boot") /\ ~live'.up /\ ~live'.inb
          /\ pc[Restarter] = "decide" /\ built' = built
      BY <1>5 DEF StopXray
    <2>2. \A h \in Handlers : pc'[h] = pc[h]
      BY <1>h, <2>1, JobElsewhere
    <2>3. Down'
      BY <2>1 DEF Down
    <2>4. QED
      BY <1>h, <1>1, <2>1, <2>2, <2>3, ControlLock
  <1>6. CASE NewProcess
    <2>1. /\ Goto(Restarter, "start") /\ live' = live
          /\ pc[Restarter] = "boot" /\ built' = built
      BY <1>6 DEF NewProcess
    <2>2. \A h \in Handlers : pc'[h] = pc[h]
      BY <1>h, <2>1, JobElsewhere
    <2>3. Down'
      BY <1>h, <2>1 DEF Down
    <2>4. QED
      BY <1>h, <1>1, <2>1, <2>2, <2>3, ControlLock
  <1>7. CASE StartXray
    <2>1. /\ Goto(Restarter, "idle") /\ pc[Restarter] = "start" /\ proc' = "set"
          /\ live' = [up |-> TRUE, inb |-> built.config.inb, users |-> built.config.users]
      BY <1>7 DEF StartXray
    <2>2. (\A h \in Handlers : pc'[h] = pc[h]) /\ pc'[Restarter] = "idle"
      BY <1>h, <2>1, JobElsewhere
    <2>3. (\A h \in Handlers : pc[h] = "idle") /\ \E h \in Handlers : TRUE
      BY <1>h, <2>1 DEF LockRestart, LockWays, OneHandler
    <2>4. /\ live'.up /\ live'.inb = row.enable /\ Admitted \subseteq live'.users
      BY <1>h, <2>1, <2>3 DEF LockRestart
    <2>5. Down'
      BY <2>1, <2>2 DEF Down
    <2>6. QED
      BY <1>h, <1>1, <2>2, <2>3, <2>4, <2>5, ControlLock
  <1>8. QED
    BY <1>2, <1>3, <1>4, <1>5, <1>6, <1>7

LEMMA TrafficLock ==
  ASSUME LockWays, LockInv, TypeInv', NEW t \in Jobs,
         AddTraffic(t) \/ Disable(t) \/ CommitTraffic(t)
  PROVE  LockInv'
  <1> USE DEF dbVars, xrayVars
  <1>h. /\ TypeOK /\ due = {} /\ ~over /\ Down /\ row \in Row /\ stat \in [E -> Mark]
        /\ batch \in [Jobs -> Batch] /\ t \in Threads
        /\ live \in [up : BOOLEAN, inb : BOOLEAN, users : SUBSET E]
        /\ \A s \in Jobs : batch[s].renew = {} /\ batch[s].drop = {} /\ ~batch[s].inb
    BY DEF LockInv, Calm, TypeInv, TypeOK, Threads
  <1>1. CASE AddTraffic(t)
    <2>1. UNCHANGED <<row, stat, due, over, job, built, proc>> /\ Goto(t, "disable") /\ pc[t] = "traffic"
      BY <1>1 DEF AddTraffic
    <2>2. Renewable = {}
      BY <1>h DEF Renewable
    <2>3. /\ LetIn({})
          /\ batch' = [batch EXCEPT ![t] = [NoBatch EXCEPT !.renew = {}, !.flag = FALSE]]
      BY <1>1, <2>2 DEF AddTraffic
    <2>4. live' = live
      BY <1>h, <2>3 DEF LetIn
    <2>5. \A s \in Jobs : batch'[s].renew = {} /\ batch'[s].drop = {} /\ ~batch'[s].inb
      BY <1>h, <2>3 DEF NoBatch
    <2>6. /\ \A h \in Handlers : pc'[h] = pc[h]
          /\ pc'[Restarter] # "idle" => pc[Restarter] # "idle"
          /\ pc'[Restarter] \in {"boot", "start"} => pc[Restarter] \in {"boot", "start"}
      BY <1>h, <2>1, JobElsewhere, JobsTyped
    <2>7. Down'
      BY <1>h, <2>1, <2>4, <2>6 DEF Down
    <2>8. QED
      BY <1>h, <2>1, <2>4, <2>5, <2>6, <2>7, ControlLock
  <1>2. CASE Disable(t)
    <2>1. UNCHANGED <<row, stat, due, over, job, built, proc>> /\ Goto(t, "save") /\ pc[t] = "disable"
      BY <1>2 DEF Disable
    <2>2. PICK out \in SUBSET {}, f \in BOOLEAN :
            /\ live' = [live EXCEPT !.users = @ \ out]
            /\ batch' = [batch EXCEPT ![t] = [renew |-> {}, drop |-> {}, inb |-> FALSE, flag |-> f]]
      <3>1. {e \in due \ batch[t].renew : stat[e] = "on"} = {}
        BY <1>h
      <3>2. (over /\ row.enable) = FALSE
        BY <1>h
      <3>3. QED
        BY <1>h, <1>2, <3>1, <3>2 DEF Disable
    <2>3. live' = live
      BY <1>h, <2>2
    <2>4. \A s \in Jobs : batch'[s].renew = {} /\ batch'[s].drop = {} /\ ~batch'[s].inb
      BY <1>h, <2>2
    <2>5. /\ \A h \in Handlers : pc'[h] = pc[h]
          /\ pc'[Restarter] # "idle" => pc[Restarter] # "idle"
          /\ pc'[Restarter] \in {"boot", "start"} => pc[Restarter] \in {"boot", "start"}
      BY <1>h, <2>1, JobElsewhere, JobsTyped
    <2>6. Down'
      BY <1>h, <2>1, <2>3, <2>5 DEF Down
    <2>7. QED
      BY <1>h, <2>1, <2>3, <2>4, <2>5, <2>6, ControlLock
  <1>3. CASE CommitTraffic(t)
    <2> DEFINE l == IF t = Ticker THEN "idle" ELSE "decide"
    <2>1. /\ UNCHANGED <<over, job, live, built, proc>> /\ Goto(t, l) /\ pc[t] = "save"
          /\ batch' = [batch EXCEPT ![t] = NoBatch] /\ stat' = Marked(batch[t])
          /\ due' = due \ batch[t].renew
      BY <1>3 DEF CommitTraffic
    <2>2. row' = row
      BY <1>3, <1>h DEF CommitTraffic
    <2>3. stat' = stat /\ due' = {}
      BY <1>h, <2>1 DEF Marked
    <2>4. \A s \in Jobs : batch'[s].renew = {} /\ batch'[s].drop = {} /\ ~batch'[s].inb
      BY <1>h, <2>1 DEF NoBatch
    <2>5. /\ \A h \in Handlers : pc'[h] = pc[h]
          /\ pc'[Restarter] # "idle" => pc[Restarter] # "idle"
          /\ pc'[Restarter] \in {"boot", "start"} => pc[Restarter] \in {"boot", "start"}
      BY <1>h, <2>1, JobElsewhere, JobsTyped
    <2>6. Down'
      BY <1>h, <2>1, <2>5 DEF Down
    <2>7. QED
      BY <1>h, <2>1, <2>2, <2>3, <2>4, <2>5, <2>6, ControlLock
  <1>4. QED
    BY <1>1, <1>2, <1>3

(* A reset of the inbound's traffic puts nobody over a limit. *)
LEMMA ResetAllLock ==
  ASSUME LockWays, LockInv, TypeInv', ResetAllClientTraffics \/ ResetAllTraffics
  PROVE  LockInv'
  <1>h. /\ TypeOK /\ due = {} /\ ~over /\ Down /\ stat \in [E -> Mark] /\ \A e \in E : stat[e] # "off"
        /\ \A s \in Jobs : batch[s].renew = {} /\ batch[s].drop = {} /\ ~batch[s].inb
    BY DEF LockInv, Calm, TypeInv, TypeOK
  <1>1. UNCHANGED <<row, live, job, batch, pc, built, proc>>
    BY DEF ResetAllClientTraffics, ResetAllTraffics, xrayVars
  <1>2. stat' = stat /\ due' = {} /\ ~over'
    <2>1. CASE ResetAllClientTraffics
      BY <1>h, <2>1 DEF ResetAllClientTraffics
    <2>2. CASE ResetAllTraffics
      <3>1. over' \in {over, FALSE} /\ stat' = stat /\ due' = due
        BY <2>2 DEF ResetAllTraffics
      <3>2. QED
        BY <1>h, <3>1, StaysUnder
    <2>3. QED
      BY <2>1, <2>2
  <1>3. Down'
    BY <1>h, <1>1 DEF Down
  <1>4. QED
    BY <1>h, <1>1, <1>2, <1>3, ControlLock

(* A panel that dies leaves the tables as they were committed, and Xray down. *)
LEMMA CrashLock ==
  ASSUME LockWays, LockInv, TypeInv', PanelCrash PROVE LockInv'
  <1>h. TypeOK /\ Calm
    BY DEF LockInv, TypeInv
  <1>1. /\ UNCHANGED <<row, stat, due, over>> /\ ~live'.up /\ ~live'.inb
        /\ \A h \in Handlers : pc'[h] = "idle" /\ job'[h] = NoJob
        /\ \A t \in Jobs : pc'[t] = "idle" /\ batch'[t] = NoBatch
    BY DEF PanelCrash, PanelDies, dbVars, Threads
  <1>2. Calm'
    BY <1>h, <1>1 DEF Calm, NoBatch
  <1>3. ASSUME NEW h \in Handlers PROVE LockRestart(h)' /\ LockSnap(h)' /\ LockLive(h)'
    <2>1. LockRestart(h)'
      BY <1>1, LockHere, JobsTyped DEF LockRestart
    <2>2. LockSnap(h)'
      BY <1>1, NoJobPlain DEF LockSnap, InAdd, InDel, InEdit, InAddInb, InUpd
    <2>3. LockLive(h)'
      BY <1>1 DEF LockLive
    <2>4. QED
      BY <2>1, <2>2, <2>3
  <1>4. Down'
    BY <1>1 DEF Down
  <1>5. QED
    BY <1>2, <1>3, <1>4 DEF LockInv

LEMMA HandleLock ==
  ASSUME LockWays, LockInv, TypeInv', NEW h \in Handlers, Handle(h) PROVE LockInv'
  BY AddLock, DelLock, EditLock, ResetLock, AddInbLock, DelInbLock, UpdLock, BreakLock
  DEF Handle, Break

LEMMA InitLock == Init => LockInv
  <1> SUFFICES ASSUME Init PROVE LockInv
    OBVIOUS
  <1>1. TypeInv
    BY InitType
  <1>2. /\ \A h \in Handlers : pc[h] = "idle" /\ job[h] = NoJob
        /\ \A t \in Jobs : pc[t] = "idle" /\ batch[t] = NoBatch
    BY DEF Init, Threads
  <1>3. /\ live.up /\ live.inb = row.enable /\ live.users = Admitted /\ row \in Row
        /\ row.enable => row.there
    BY DEF Init, DbConfig, NoRow
  <1>4. Calm
    BY <1>2 DEF Init, Calm, NoBatch
  <1>5. ASSUME NEW h \in Handlers PROVE LockRestart(h) /\ LockSnap(h) /\ LockLive(h)
    <2>1. LockRestart(h)
      BY <1>2, <1>3, JobsTyped DEF LockRestart
    <2>2. LockSnap(h)
      BY <1>2, NoJobPlain DEF LockSnap, InAdd, InDel, InEdit, InAddInb, InUpd
    <2>3. GivenInb(h) = row.enable /\ GivenUsers(h) = Admitted
      BY <1>2, <1>3 DEF GivenInb, GivenUsers, Saving, Removing, LetInBy, Removed, Added, Row
    <2>4. LockLive(h)
      BY <1>3, <2>3 DEF LockLive, Row
    <2>5. QED
      BY <2>1, <2>2, <2>4
  <1>6. Down
    BY <1>2, JobsTyped DEF Init, Down
  <1>7. QED
    BY <1>1, <1>4, <1>5, <1>6 DEF LockInv

LEMMA NextLock == ASSUME LockWays PROVE LockInv /\ [Next]_vars => LockInv'
  <1> SUFFICES ASSUME LockInv, [Next]_vars PROVE LockInv'
    OBVIOUS
  <1>1. TypeInv'
    BY NextType DEF LockInv
  <1>2. CASE Next
    <2>1. CASE \E h \in Handlers : Handle(h)
      BY <1>1, <2>1, HandleLock
    <2>2. CASE \E t \in Jobs : AddTraffic(t) \/ Disable(t) \/ CommitTraffic(t)
      BY <1>1, <2>2, TrafficLock
    <2>3. CASE \/ Tick \/ (\E force \in BOOLEAN : RestartBegin(force)) \/ Keep \/ StopXray
               \/ NewProcess \/ StartXray
      BY <1>1, <2>3, RestartLock
    <2>4. CASE ResetAllClientTraffics \/ ResetAllTraffics
      BY <1>1, <2>4, ResetAllLock
    <2>5. CASE PanelCrash
      BY <1>1, <2>5, CrashLock
    <2>6. (\A e \in E : ~Expire(e)) /\ ~InboundOver
      BY DEF Expire, InboundOver, LockWays
    <2>7. ~TickPanic
      BY DEF TickPanic, LockInv, Calm
    <2>8. QED
      BY <1>2, <2>1, <2>2, <2>3, <2>4, <2>5, <2>6, <2>7 DEF Next
  <1>3. CASE UNCHANGED vars
    <2>1. UNCHANGED <<row, stat, due, over, live, pc, job, batch, built, proc>>
      BY <1>3 DEF vars, dbVars, xrayVars
    <2>2. Calm /\ Down'
      BY <2>1 DEF LockInv, Down
    <2>3. QED
      BY <1>1, <2>1, <2>2, ControlLock DEF Calm
  <1>4. QED
    BY <1>2, <1>3

LEMMA NoLockoutFollows == ASSUME LockWays PROVE LockInv => NoLockout
  <1> SUFFICES ASSUME LockInv, Quiet PROVE Admitted \subseteq live.users
    BY DEF NoLockout
  <1>1. PICK h \in Handlers : pc[h] = "idle"
    BY DEF LockWays, OneHandler, Quiet, NoHandler
  <1>2. LockLive(h) /\ live.up
    BY LockHere DEF Quiet
  <1>3. GivenInb(h) = row.enable /\ GivenUsers(h) = Admitted
    BY <1>1, LockHere DEF GivenInb, GivenUsers, Saving, Removing, LetInBy, Removed, Added, Row
  <1>4. QED
    BY <1>2, <1>3 DEF LockLive, Admitted

(* With one handler at a time, calls that work and nobody who runs out,    *)
(* however many clients: when all is quiet, Xray lets in every client the  *)
(* database admits, although requests, restarts and deaths of the panel at *)
(* any of their steps came before.                                         *)
THEOREM NoLockoutEver == ASSUME LockWays PROVE Spec => []NoLockout
  <1>1. Init => LockInv
    BY InitLock
  <1>2. LockInv /\ [Next]_vars => LockInv'
    BY NextLock
  <1>3. LockInv => NoLockout
    BY NoLockoutFollows
  <1>4. QED
    BY <1>1, <1>2, <1>3, PTL DEF Spec
=============================================================================
