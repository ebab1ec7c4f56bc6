-------------------------- MODULE TrafficAccounting --------------------------
(***************************************************************************)
(* How the bytes Xray has carried reach the panel's tables, and the dates  *)
(* that depend on them:                                                    *)
(*                                                                         *)
(*   web/job/xray_traffic_job.go   Run, once a minute                      *)
(*   xray/api.go                   GetTraffic(true) takes Xray's counters  *)
(*                                 and sets them to zero                   *)
(*   web/service/inbound.go        AddTraffic: one transaction that adds   *)
(*                                 them, turns a negative expiry ("so long *)
(*                                 after first use") into a date, renews   *)
(*                                 and disables                            *)
(*   web/service/outbound.go       AddTraffic of the outbounds, a second   *)
(*                                 transaction                             *)
(*                                                                         *)
(* Beside it the handlers write the same tables: an edit of a client saves *)
(* the inbound's settings as it read them, a reset saves the traffic row   *)
(* as it read it.  SQLite lets no transaction see or write between another *)
(* one's reads and its writes, so each is one step; what is read before a  *)
(* transaction is remembered.  Bytes and days are small numbers.           *)
(***************************************************************************)
EXTENDS Integers, FiniteSets

CONSTANTS
    Metered,     \* the clients
    Outbound,    \* an outbound, metered beside them
    Nobody,      \* no client
    Quota,       \* of each client: its totalGB, 0 for none
    Period,      \* of each client: its reset in days, 0 for none
    Terms,       \* the expiry times an edit may set
    MaxCarried,  \* bound: bytes carried for each
    MaxNow,      \* bound: days
    MaxWork      \* bound: what handlers and restarts do

Keys == Metered \cup {Outbound}

ASSUME MeteredAssumption == Outbound \notin Metered /\ Nobody \notin Metered
ASSUME LimitsAssumption ==
    /\ Quota \in [Metered -> Nat] /\ Period \in [Metered -> Nat]
    /\ Terms \subseteq Int /\ MaxCarried \in Nat /\ MaxNow \in Nat /\ MaxWork \in Nat

VARIABLES
    now,         \* the clock
    carried,     \* what Xray has carried for each, ever
    counter,     \* what its counters hold
    listed,      \* the clients it has a counter for
    run,         \* the job: where it is and what it took
    traffic,     \* the rows of client_traffics
    outbound,    \* the total of the outbound's row
    expiry,      \* expiryTime of each client in the inbound's settings
    told,        \* what the remote panel was told of each client
    edit,        \* a handler that has read the settings: of which client, and what they were
    reset,       \* a handler that has read a traffic row: of which client, and what it was
    crossed,     \* clients whose settings or row a handler has saved as they were before
    lowered,     \* disabled clients whose bytes were set by hand
    work         \* what handlers and restarts have done

meters == <<carried, counter, listed>>
tables == <<traffic, outbound, expiry>>
forms  == <<edit, reset, crossed, lowered>>
trafficVars == <<now, meters, run, tables, told, forms, work>>

Zero == [k \in Keys |-> 0]
Idle == [pc |-> "idle", batch |-> Zero, listed |-> {}]

Due(row, c) == \/ Quota[c] > 0 /\ row.used >= Quota[c]
               \/ row.expiry > 0 /\ row.expiry <= now

TrafficInit ==
    /\ now = 1
    /\ carried = Zero /\ counter = Zero /\ listed = {}
    /\ run = Idle
    /\ expiry \in [Metered -> Terms]
    /\ traffic = [c \in Metered |-> [used |-> 0, all |-> 0, expiry |-> expiry[c], enable |-> TRUE]]
    /\ outbound = 0 /\ told = [c \in Metered |-> 0]
    /\ edit = [of |-> Nobody, settings |-> expiry]
    /\ reset = [of |-> Nobody, row |-> [used |-> 0, all |-> 0, expiry |-> 0, enable |-> TRUE]]
    /\ crossed = {} /\ lowered = {} /\ work = 0

(*-------------------------------- around it -----------------------------*)
Works == work < MaxWork /\ work' = work + 1

Day == now < MaxNow /\ now' = now + 1 /\ UNCHANGED <<meters, run, tables, told, forms, work>>

Carry(k) ==
    /\ carried[k] < MaxCarried
    /\ carried' = [carried EXCEPT ![k] = @ + 1] /\ counter' = [counter EXCEPT ![k] = @ + 1]
    /\ listed' = listed \cup ({k} \cap Metered)
    /\ UNCHANGED <<now, run, tables, told, forms, work>>

\* A new Xray counts from zero; what the old one had not handed over is lost.
XrayRestarts ==
    /\ counter' = Zero /\ listed' = {}
    /\ Works
    /\ UNCHANGED <<now, carried, run, tables, told, forms>>

\* The panel stops: what the job had in hand is lost.
PanelStops ==
    /\ run' = Idle
    /\ edit' = [edit EXCEPT !.of = Nobody] /\ reset' = [reset EXCEPT !.of = Nobody]
    /\ Works
    /\ UNCHANGED <<now, meters, tables, told, crossed, lowered>>

(*--------------------------------- the job ------------------------------*)
\* Mistake: the counters are read without being set to zero.
GetTraffic_Keeps(answered) ==
    /\ run.pc = "idle"
    /\ run' = IF answered THEN [pc |-> "inbounds", batch |-> counter, listed |-> listed] ELSE run
    /\ UNCHANGED <<now, meters, tables, told, forms, work>>

\* GetXrayTraffic: the counters are zero even when the answer is lost.
GetTraffic(answered) ==
    /\ run.pc = "idle"
    /\ counter' = Zero
    /\ run' = IF answered THEN [pc |-> "inbounds", batch |-> counter, listed |-> listed] ELSE run
    /\ UNCHANGED <<now, carried, listed, tables, told, forms, work>>

\* adjustTraffics: of every client Xray lists, bytes or none; the time left is read
\* from the settings, and the date is written to both.
Started(c) == c \in run.listed /\ traffic[c].expiry < 0
Adjusted(c) == IF Started(c) THEN now - expiry[c] ELSE traffic[c].expiry
Added(c) == [traffic[c] EXCEPT !.expiry = Adjusted(c),
                               !.used = @ + run.batch[c], !.all = @ + run.batch[c]]

\* autoRenewClients: whole periods are added until the date is not in the past, so
\* it may be now; a client that was disabled is enabled again.
Renews(row, c) == Period[c] > 0 /\ row.expiry > 0 /\ row.expiry <= now
NextDate_Late(date, period) == date + ((now - date + period) \div period) * period   \* mistake
NextDate(date, period) == date + ((now - date + period - 1) \div period) * period
Renewed_StaysOff(row, c) ==   \* mistake: the client is not enabled
    IF Renews(row, c) THEN [row EXCEPT !.expiry = NextDate(@, Period[c]), !.used = 0] ELSE row
Renewed(row, c) ==
    IF Renews(row, c)
    THEN [row EXCEPT !.expiry = NextDate(@, Period[c]), !.used = 0, !.enable = TRUE]
    ELSE row

\* The date the settings then have.
Dated_WhenStarted(c) == IF Started(c) THEN Renewed(Added(c), c).expiry ELSE expiry[c]   \* mistake
Dated(c) == IF Started(c) \/ Renews(Added(c), c) THEN Renewed(Added(c), c).expiry ELSE expiry[c]

\* disableInvalidClients.
Disabled_DayAfter(row, c) ==   \* mistake: not on the day itself
    IF Due(row, c) /\ row.expiry # now THEN [row EXCEPT !.enable = FALSE] ELSE row
Disabled(row, c) == IF Due(row, c) THEN [row EXCEPT !.enable = FALSE] ELSE row

\* AddTraffic: all of it, or nothing when its first write does not get the lock (the
\* errors of later statements are not followed); the bytes are gone from Xray either
\* way.
AddTraffic(commits) ==
    /\ run.pc = "inbounds"
    /\ run' = [run EXCEPT !.pc = "outbounds"]
    /\ IF commits
       THEN /\ traffic' = [c \in Metered |-> Disabled(Renewed(Added(c), c), c)]
            /\ expiry' = [c \in Metered |-> Dated(c)]
            /\ crossed' = {c \in crossed : ~Started(c) /\ ~Renews(Added(c), c)}
            /\ lowered' = {c \in lowered : ~traffic'[c].enable /\ ~Due(traffic'[c], c)}
       ELSE UNCHANGED <<traffic, expiry, crossed, lowered>>
    /\ UNCHANGED <<now, meters, outbound, told, edit, reset, work>>

\* OutboundService.AddTraffic runs whatever became of the first transaction.
AddOutboundTraffic(commits) ==
    /\ run.pc = "outbounds"
    /\ run' = [run EXCEPT !.pc = "report"]
    /\ outbound' = IF commits THEN outbound + run.batch[Outbound] ELSE outbound
    /\ UNCHANGED <<now, meters, traffic, expiry, told, forms, work>>

\* reportTrafficToV2board tells the remote panel the same numbers, committed or not.
ReportTraffic(arrives) ==
    /\ run.pc = "report"
    /\ run' = Idle
    /\ told' = IF arrives THEN [c \in Metered |-> told[c] + run.batch[c]] ELSE told
    /\ UNCHANGED <<now, meters, tables, forms, work>>

(*-------------------------------- handlers ------------------------------*)
\* UpdateInboundClient and UpdateInbound (of = Nobody) read the settings, or are
\* sent them from a page that did ...
ReadSettings(c) ==
    /\ edit.of = Nobody /\ (c # Nobody \/ edit.settings # expiry)
    /\ edit' = [of |-> c, settings |-> expiry]
    /\ Works
    /\ UNCHANGED <<now, meters, run, tables, told, reset, crossed, lowered>>

Crossing(settings, rows) == {c \in Metered : settings[c] # rows[c].expiry}

\* ... and save them: with another expiry for one client, whose row gets it too and
\* is enabled,
UpdateInboundClient(term) ==
    /\ edit.of # Nobody
    /\ expiry' = [edit.settings EXCEPT ![edit.of] = term]
    /\ traffic' = [traffic EXCEPT ![edit.of].expiry = term, ![edit.of].enable = TRUE]
    /\ edit' = [edit EXCEPT !.of = Nobody]
    /\ crossed' = (crossed \ {edit.of}) \cup Crossing(expiry', traffic')
    /\ lowered' = lowered \ {edit.of}
    /\ UNCHANGED <<now, meters, run, outbound, told, reset, work>>

\* or as they were, which the page may have kept for any time.
UpdateInbound ==
    /\ edit.of = Nobody /\ edit.settings # expiry
    /\ expiry' = edit.settings
    /\ crossed' = crossed \cup Crossing(expiry', traffic)
    /\ Works
    /\ UNCHANGED <<now, meters, run, traffic, outbound, told, edit, reset, lowered>>

\* ResetClientTraffic reads the row, and saves all of it later.
ReadTraffic(c) ==
    /\ reset.of = Nobody
    /\ reset' = [of |-> c, row |-> traffic[c]]
    /\ Works
    /\ UNCHANGED <<now, meters, run, tables, told, edit, crossed, lowered>>

ResetClientTraffic ==
    /\ reset.of # Nobody
    /\ traffic' = [traffic EXCEPT ![reset.of] = [reset.row EXCEPT !.used = 0, !.enable = TRUE]]
    /\ reset' = [reset EXCEPT !.of = Nobody]
    /\ crossed' = crossed \cup Crossing(expiry, traffic')
    /\ lowered' = lowered \ {reset.of}
    /\ UNCHANGED <<now, meters, run, outbound, expiry, told, edit, work>>

\* ResetAllClientTraffics and ResetClientTrafficByEmail, one statement each.
ResetTraffics(cs) ==
    /\ traffic' = [c \in Metered |-> IF c \in cs THEN [traffic[c] EXCEPT !.used = 0, !.enable = TRUE]
                                     ELSE traffic[c]]
    /\ lowered' = lowered \ cs
    /\ Works
    /\ UNCHANGED <<now, meters, run, outbound, expiry, told, edit, reset, crossed>>

ResetOutboundTraffic ==
    /\ outbound' = 0
    /\ Works
    /\ UNCHANGED <<now, meters, run, traffic, expiry, told, forms>>

\* UpdateClientTrafficByEmail sets the bytes and does not enable the client again.
UpdateClientTraffic(c, bytes) ==
    /\ traffic' = [traffic EXCEPT ![c].used = bytes]
    /\ lowered' = IF traffic[c].enable THEN lowered ELSE lowered \cup {c}
    /\ Works
    /\ UNCHANGED <<now, meters, run, outbound, expiry, told, edit, reset, crossed>>

TrafficNext ==
    \/ Day \/ XrayRestarts \/ PanelStops
    \/ UpdateInbound \/ ResetClientTraffic \/ ResetOutboundTraffic
    \/ \E k \in Keys : Carry(k)
    \/ \E ok \in BOOLEAN : GetTraffic(ok) \/ AddTraffic(ok) \/ AddOutboundTraffic(ok) \/ ReportTraffic(ok)
    \/ \E c \in Metered \cup {Nobody} : ReadSettings(c)
    \/ \E term \in Terms : UpdateInboundClient(term)
    \/ \E c \in Metered : ReadTraffic(c) \/ UpdateClientTraffic(c, 0)
    \/ \E cs \in {Metered} \cup {{c} : c \in Metered} : ResetTraffics(cs)

TrafficSpec == TrafficInit /\ [][TrafficNext]_trafficVars

(*------------------------------- properties -----------------------------*)
TrafficRow == [used : Nat, all : Nat, expiry : Int, enable : BOOLEAN]

\* Every variable keeps its type.
TrafficTypeOK ==
    /\ now \in Nat /\ carried \in [Keys -> Nat] /\ counter \in [Keys -> Nat] /\ listed \subseteq Metered
    /\ run \in [pc : {"idle", "inbounds", "outbounds", "report"}, batch : [Keys -> Nat], listed : SUBSET Metered]
    /\ traffic \in [Metered -> TrafficRow]
    /\ outbound \in Nat /\ expiry \in [Metered -> Int] /\ told \in [Metered -> Nat]
    /\ edit \in [of : Metered \cup {Nobody}, settings : [Metered -> Int]]
    /\ reset \in [of : Metered \cup {Nobody}, row : TrafficRow]
    /\ crossed \subseteq Metered /\ lowered \subseteq Metered /\ work \in Nat

\* No byte is credited to a client, to an outbound or to the remote panel twice:
\* what a total holds, what the job has yet to add to it and what Xray has yet to
\* hand over are together no more than was carried, through failed transactions,
\* restarts, resets and rows saved as they were before.
InHand(k, steps) == counter[k] + (IF run.pc \in steps THEN run.batch[k] ELSE 0)
CreditedOnce ==
    /\ \A c \in Metered :
         /\ traffic[c].all + InHand(c, {"inbounds"}) <= carried[c]
         /\ told[c] + InHand(c, {"inbounds", "outbounds", "report"}) <= carried[c]
    /\ outbound + InHand(Outbound, {"inbounds", "outbounds"}) <= carried[Outbound]

\* Whom a commit leaves enabled is under the quota and before the date it leaves:
\* bytes are added before clients are renewed, and renewed before they are disabled.
CutInTime ==
    [][run.pc = "inbounds" /\ run'.pc = "outbounds" /\ traffic' # traffic =>
         \A c \in Metered : traffic'[c].enable => ~Due(traffic'[c], c)]_trafficVars

\* A client that is disabled is so for a cause that still stands, through edits,
\* renewals, resets and rows saved as they were, unless its bytes were set by hand.
DisabledForCause ==
    \A c \in Metered : ~traffic[c].enable => Due(traffic[c], c) \/ c \in lowered

\* The settings and the traffic row of a client name the same date, unless a handler
\* has saved one of them as it was before the other changed.
DatesAgree == \A c \in Metered \ crossed : expiry[c] = traffic[c].expiry

\* A period that has begun ends when it should: a date is moved only to renew a
\* client whose date has come, to zero bytes and by whole periods to the first date
\* that is not past, or by a handler that saves the row.
PeriodRuns ==
    [][\A c \in Metered :
         traffic[c].expiry > 0 /\ traffic'[c].expiry # traffic[c].expiry =>
           \/ edit.of = c \/ reset.of = c
           \/ /\ traffic[c].expiry <= now /\ traffic'[c].expiry \in now .. now + Period[c] - 1
              /\ traffic'[c].used = 0]_trafficVars

==============================================================================
