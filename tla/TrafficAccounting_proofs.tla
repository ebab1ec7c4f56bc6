----------------------- MODULE TrafficAccounting_proofs -----------------------
(***************************************************************************)
(* No byte is credited twice, no client is left enabled beyond its limits  *)
(* or disabled without a cause, the two copies of a date agree and periods *)
(* run out when they should, for any clients, quotas, periods and terms.   *)
(***************************************************************************)
EXTENDS TrafficAccounting, TLAPS

\* A row that was read before is no further than the row is now: totals only grow.
ReadBefore == reset.of # Nobody => reset.row.all <= traffic[reset.of].all

CreditInv == TrafficTypeOK /\ CreditedOnce /\ ReadBefore

USE DEF Keys

(*--------------------------------- the types ----------------------------*)
\* What the minute's transaction makes of a row is a row, with no fewer bytes ever.
LEMMA AddedRow ==
    ASSUME NEW c \in Metered, TrafficTypeOK
    PROVE  /\ Added(c) \in TrafficRow
           /\ Added(c).all = traffic[c].all + run.batch[c]
           /\ Added(c).used = traffic[c].used + run.batch[c]
           /\ Added(c).expiry = Adjusted(c) /\ Added(c).enable = traffic[c].enable
<1> DEFINE Sum(row, date, bytes) == [row EXCEPT !.expiry = date, !.used = @ + bytes, !.all = @ + bytes]
<1>1. traffic[c] \in TrafficRow /\ run.batch[c] \in Nat /\ expiry[c] \in Int /\ now \in Int
  BY DEF TrafficTypeOK
<1>2. Adjusted(c) \in Int
  BY <1>1 DEF Adjusted, TrafficRow
<1>3. ASSUME NEW row \in TrafficRow, NEW date \in Int, NEW bytes \in Nat
      PROVE  /\ Sum(row, date, bytes) \in TrafficRow
             /\ Sum(row, date, bytes).all = row.all + bytes
             /\ Sum(row, date, bytes).used = row.used + bytes
             /\ Sum(row, date, bytes).expiry = date
             /\ Sum(row, date, bytes).enable = row.enable
  <2>1. /\ row.used \in Nat /\ row.all \in Nat /\ row.enable \in BOOLEAN
        /\ DOMAIN row = {"used", "all", "expiry", "enable"}
    BY DEF TrafficRow
  <2>2. Sum(row, date, bytes).all = row.all + bytes
    BY <2>1
  <2>3. Sum(row, date, bytes).used = row.used + bytes
    BY <2>1
  <2>4. Sum(row, date, bytes).expiry = date
    BY <2>1
  <2>5. Sum(row, date, bytes).enable = row.enable
    BY <2>1
  <2>6. Sum(row, date, bytes) \in TrafficRow
    <3>1. /\ row.used + bytes \in Nat /\ row.all + bytes \in Nat
      BY <2>1
    <3>2. \A used \in Nat, all \in Nat :
            [row EXCEPT !.expiry = date, !.used = used, !.all = all] \in TrafficRow
      BY DEF TrafficRow
    <3> QED BY <3>1, <3>2
  <2> QED BY <2>2, <2>3, <2>4, <2>5, <2>6
<1>4. Added(c) = Sum(traffic[c], Adjusted(c), run.batch[c])
  BY DEF Added
<1> HIDE DEF Sum
<1> QED BY <1>1, <1>2, <1>3, <1>4

\* A renewed row is a row.
LEMMA RenewedRow ==
    ASSUME NEW c \in Metered, TrafficTypeOK, NEW row \in TrafficRow
    PROVE  /\ Renewed(row, c) \in TrafficRow /\ Renewed(row, c).all = row.all
           /\ Renews(row, c) => Renewed(row, c).enable
           /\ ~Renews(row, c) => Renewed(row, c) = row
<1>1. Period[c] \in Nat /\ now \in Int /\ row.expiry \in Int
  BY LimitsAssumption DEF TrafficTypeOK, TrafficRow
<1>2. ASSUME Renews(row, c) PROVE NextDate(row.expiry, Period[c]) \in Int
  <2>1. Period[c] > 0
    BY <1>2 DEF Renews
  <2>2. (now - row.expiry + Period[c] - 1) \div Period[c] \in Int
    BY <1>1, <2>1
  <2> QED BY <1>1, <2>2 DEF NextDate
<1> QED BY <1>2 DEF Renewed, TrafficRow

\* A row disabled when it is due is a row, otherwise itself.
LEMMA DisabledRow ==
    ASSUME NEW c \in Metered, NEW row \in TrafficRow
    PROVE  /\ Disabled(row, c) \in TrafficRow /\ Disabled(row, c).all = row.all
           /\ Due(row, c) => Due(Disabled(row, c), c)
           /\ ~Due(row, c) => Disabled(row, c) = row
  BY DEF Disabled, Due, TrafficRow

\* A commit writes rows, and adds what the job has in hand.
LEMMA CommitRows ==
    ASSUME TrafficTypeOK, AddTraffic(TRUE)
    PROVE  /\ traffic' \in [Metered -> TrafficRow]
           /\ \A c \in Metered : traffic'[c].all = traffic[c].all + run.batch[c]
           /\ expiry' \in [Metered -> Int]
<1>1. traffic' = [c \in Metered |-> Disabled(Renewed(Added(c), c), c)]
      /\ expiry' = [c \in Metered |-> Dated(c)]
  BY DEF AddTraffic
<1>2. ASSUME NEW c \in Metered
      PROVE  /\ Disabled(Renewed(Added(c), c), c) \in TrafficRow
             /\ Disabled(Renewed(Added(c), c), c).all = traffic[c].all + run.batch[c]
             /\ Dated(c) \in Int
  <2>1. Added(c) \in TrafficRow /\ Added(c).all = traffic[c].all + run.batch[c]
    BY AddedRow
  <2>2. Renewed(Added(c), c) \in TrafficRow /\ Renewed(Added(c), c).all = Added(c).all
    BY <2>1, RenewedRow
  <2>3. /\ Disabled(Renewed(Added(c), c), c) \in TrafficRow
        /\ Disabled(Renewed(Added(c), c), c).all = Renewed(Added(c), c).all
    BY <2>2, DisabledRow
  <2>4. Dated(c) \in Int
    BY <2>2 DEF Dated, TrafficRow, TrafficTypeOK
  <2> QED BY <2>1, <2>2, <2>3, <2>4
<1> QED BY <1>1, <1>2

\* The job's own steps keep the types.
LEMMA JobTypes ==
    ASSUME TrafficTypeOK, NEW ok \in BOOLEAN,
           GetTraffic(ok) \/ AddTraffic(ok) \/ AddOutboundTraffic(ok) \/ ReportTraffic(ok)
    PROVE  TrafficTypeOK'
<1>1. CASE GetTraffic(ok)
  <2>1. counter' \in [Keys -> Nat] /\ run' \in [pc : {"idle", "inbounds", "outbounds", "report"}, batch : [Keys -> Nat], listed : SUBSET Metered]
    BY <1>1 DEF TrafficTypeOK, GetTraffic, Zero
  <2> QED BY <1>1, <2>1 DEF TrafficTypeOK, GetTraffic, tables, forms
<1>2. CASE AddTraffic(ok)
  <2>1. run' \in [pc : {"idle", "inbounds", "outbounds", "report"}, batch : [Keys -> Nat], listed : SUBSET Metered]
    BY <1>2 DEF TrafficTypeOK, AddTraffic
  <2>2. traffic' \in [Metered -> TrafficRow] /\ expiry' \in [Metered -> Int]
    BY <1>2, CommitRows DEF TrafficTypeOK, AddTraffic
  <2>3. crossed' \subseteq Metered /\ lowered' \subseteq Metered
    BY <1>2 DEF TrafficTypeOK, AddTraffic
  <2> QED BY <1>2, <2>1, <2>2, <2>3 DEF TrafficTypeOK, AddTraffic, meters
<1>3. CASE AddOutboundTraffic(ok)
  <2>1. run' \in [pc : {"idle", "inbounds", "outbounds", "report"}, batch : [Keys -> Nat], listed : SUBSET Metered]
    BY <1>3 DEF TrafficTypeOK, AddOutboundTraffic
  <2>2. outbound' \in Nat
    BY <1>3 DEF TrafficTypeOK, AddOutboundTraffic
  <2> QED BY <1>3, <2>1, <2>2 DEF TrafficTypeOK, AddOutboundTraffic, meters, forms
<1>4. CASE ReportTraffic(ok)
  <2>1. run' \in [pc : {"idle", "inbounds", "outbounds", "report"}, batch : [Keys -> Nat], listed : SUBSET Metered]
    BY <1>4 DEF ReportTraffic, Idle, Zero
  <2>2. told' \in [Metered -> Nat]
    BY <1>4 DEF TrafficTypeOK, ReportTraffic
  <2> QED BY <1>4, <2>1, <2>2 DEF TrafficTypeOK, ReportTraffic, meters, tables, forms
<1> QED BY <1>1, <1>2, <1>3, <1>4

\* So do the handlers'.
LEMMA HandlerTypes ==
    ASSUME TrafficTypeOK,
           \/ \E c \in Metered \cup {Nobody} : ReadSettings(c)
           \/ \E term \in Terms : UpdateInboundClient(term)
           \/ UpdateInbound \/ ResetClientTraffic \/ ResetOutboundTraffic
           \/ \E c \in Metered : ReadTraffic(c) \/ UpdateClientTraffic(c, 0)
           \/ \E cs \in SUBSET Metered : ResetTraffics(cs)
    PROVE  TrafficTypeOK'
<1>1. ASSUME NEW c \in Metered \cup {Nobody}, ReadSettings(c) PROVE TrafficTypeOK'
  BY <1>1 DEF TrafficTypeOK, ReadSettings, Works, meters, tables
<1>2. ASSUME NEW term \in Terms, UpdateInboundClient(term) PROVE TrafficTypeOK'
  <2>1. term \in Int /\ edit.of \in Metered /\ edit.settings \in [Metered -> Int]
    BY <1>2, LimitsAssumption DEF TrafficTypeOK, UpdateInboundClient
  <2>2. expiry' \in [Metered -> Int]
    BY <1>2, <2>1 DEF UpdateInboundClient
  <2>3. [traffic[edit.of] EXCEPT !.expiry = term, !.enable = TRUE] \in TrafficRow
    BY <2>1 DEF TrafficTypeOK, TrafficRow
  <2>4. traffic' = [traffic EXCEPT ![edit.of] = [@ EXCEPT !.expiry = term, !.enable = TRUE]]
    BY <1>2, <2>1 DEF UpdateInboundClient, TrafficTypeOK, TrafficRow
  <2>5. traffic' \in [Metered -> TrafficRow]
    BY <2>3, <2>4 DEF TrafficTypeOK
  <2>6. edit' \in [of : Metered \cup {Nobody}, settings : [Metered -> Int]]
    BY <1>2 DEF UpdateInboundClient, TrafficTypeOK
  <2>7. crossed' \subseteq Metered /\ lowered' \subseteq Metered
    BY <1>2 DEF UpdateInboundClient, TrafficTypeOK, Crossing
  <2> QED BY <1>2, <2>2, <2>5, <2>6, <2>7 DEF TrafficTypeOK, UpdateInboundClient, meters
<1>3. CASE UpdateInbound
  BY <1>3 DEF TrafficTypeOK, UpdateInbound, Works, meters, Crossing
<1>4. CASE ResetClientTraffic
  <2>1. [reset.row EXCEPT !.used = 0, !.enable = TRUE] \in TrafficRow
    BY DEF TrafficTypeOK, TrafficRow
  <2>2. traffic' \in [Metered -> TrafficRow]
    BY <1>4, <2>1 DEF TrafficTypeOK, ResetClientTraffic
  <2>3. reset' \in [of : Metered \cup {Nobody}, row : TrafficRow]
    BY <1>4 DEF TrafficTypeOK, ResetClientTraffic
  <2>4. crossed' \subseteq Metered /\ lowered' \subseteq Metered
    BY <1>4 DEF TrafficTypeOK, ResetClientTraffic, Crossing
  <2> QED BY <1>4, <2>2, <2>3, <2>4 DEF TrafficTypeOK, ResetClientTraffic, meters
<1>5. CASE ResetOutboundTraffic
  BY <1>5 DEF TrafficTypeOK, ResetOutboundTraffic, Works, meters, forms
<1>6. ASSUME NEW c \in Metered, ReadTraffic(c) PROVE TrafficTypeOK'
  BY <1>6 DEF TrafficTypeOK, ReadTraffic, Works, meters, tables
<1>7. ASSUME NEW c \in Metered, UpdateClientTraffic(c, 0) PROVE TrafficTypeOK'
  <2>1. traffic' \in [Metered -> TrafficRow]
    BY <1>7 DEF TrafficTypeOK, UpdateClientTraffic, TrafficRow
  <2> QED BY <1>7, <2>1 DEF TrafficTypeOK, UpdateClientTraffic, Works, meters
<1>8. ASSUME NEW cs \in SUBSET Metered, ResetTraffics(cs) PROVE TrafficTypeOK'
  <2>1. \A c \in Metered : [traffic[c] EXCEPT !.used = 0, !.enable = TRUE] \in TrafficRow
    BY DEF TrafficTypeOK, TrafficRow
  <2>2. traffic' \in [Metered -> TrafficRow]
    BY <1>8, <2>1 DEF TrafficTypeOK, ResetTraffics
  <2>3. lowered' \subseteq Metered
    BY <1>8 DEF TrafficTypeOK, ResetTraffics
  <2>4. work' = work + 1 /\ work \in Nat
    BY <1>8 DEF TrafficTypeOK, ResetTraffics, Works
  <2>5. UNCHANGED <<now, carried, counter, listed, run, outbound, expiry, told, edit, reset, crossed>>
    BY <1>8 DEF ResetTraffics, meters
  <2> QED BY <2>2, <2>3, <2>4, <2>5 DEF TrafficTypeOK
<1> QED BY <1>1, <1>2, <1>3, <1>4, <1>5, <1>6, <1>7, <1>8

\* And what happens around them.
LEMMA AroundTypes ==
    ASSUME TrafficTypeOK,
           Day \/ XrayRestarts \/ PanelStops \/ (\E k \in Keys : Carry(k)) \/ UNCHANGED trafficVars
    PROVE  TrafficTypeOK'
<1>1. CASE Day
  BY <1>1 DEF TrafficTypeOK, Day, meters, tables, forms
<1>2. CASE XrayRestarts
  BY <1>2 DEF TrafficTypeOK, XrayRestarts, Works, Zero, tables, forms
<1>3. CASE PanelStops
  BY <1>3 DEF TrafficTypeOK, PanelStops, Works, Idle, Zero, meters, tables
<1>4. CASE \E k \in Keys : Carry(k)
  BY <1>4 DEF TrafficTypeOK, Carry, tables, forms
<1>5. CASE UNCHANGED trafficVars
  BY <1>5 DEF TrafficTypeOK, trafficVars, meters, tables, forms
<1> QED BY <1>1, <1>2, <1>3, <1>4, <1>5

\* Every step keeps the types.
LEMMA NextTypes == TrafficTypeOK /\ [TrafficNext]_trafficVars => TrafficTypeOK'
<1> SUFFICES ASSUME TrafficTypeOK, [TrafficNext]_trafficVars PROVE TrafficTypeOK'
  OBVIOUS
<1>1. CASE \E cs \in {Metered} \cup {{c} : c \in Metered} : ResetTraffics(cs)
  BY <1>1, HandlerTypes
<1>2. CASE \E ok \in BOOLEAN : GetTraffic(ok) \/ AddTraffic(ok) \/ AddOutboundTraffic(ok) \/ ReportTraffic(ok)
  BY <1>2, JobTypes
<1>3. CASE \/ \E c \in Metered \cup {Nobody} : ReadSettings(c)
           \/ \E term \in Terms : UpdateInboundClient(term)
           \/ UpdateInbound \/ ResetClientTraffic \/ ResetOutboundTraffic
           \/ \E c \in Metered : ReadTraffic(c) \/ UpdateClientTraffic(c, 0)
  BY <1>3, HandlerTypes
<1>4. CASE Day \/ XrayRestarts \/ PanelStops \/ (\E k \in Keys : Carry(k)) \/ UNCHANGED trafficVars
  BY <1>4, AroundTypes
<1> QED BY <1>1, <1>2, <1>3, <1>4 DEF TrafficNext

\* The variables of the traffic tables, the job and the handlers keep their types.
THEOREM TrafficTypes == TrafficSpec => []TrafficTypeOK
<1>1. TrafficInit => TrafficTypeOK
  <2> SUFFICES ASSUME TrafficInit PROVE TrafficTypeOK
    OBVIOUS
  <2>1. /\ expiry \in [Metered -> Int]
        /\ traffic = [c \in Metered |-> [used |-> 0, all |-> 0, expiry |-> expiry[c], enable |-> TRUE]]
    BY LimitsAssumption DEF TrafficInit
  <2>2. traffic \in [Metered -> TrafficRow]
    BY <2>1 DEF TrafficRow
  <2>3. reset \in [of : Metered \cup {Nobody}, row : TrafficRow]
    BY DEF TrafficInit, TrafficRow
  <2>4. edit \in [of : Metered \cup {Nobody}, settings : [Metered -> Int]]
    BY <2>1 DEF TrafficInit
  <2>5. run \in [pc : {"idle", "inbounds", "outbounds", "report"}, batch : [Keys -> Nat], listed : SUBSET Metered]
    BY DEF TrafficInit, Idle, Zero
  <2> QED BY <2>1, <2>2, <2>3, <2>4, <2>5 DEF TrafficInit, TrafficTypeOK, Zero
<1> QED BY <1>1, NextTypes, PTL DEF TrafficSpec


(*--------------------------- credited once ------------------------------*)
\* The steps of the job move bytes on, or lose them.
LEMMA JobCredits ==
    ASSUME CreditInv, NEW ok \in BOOLEAN,
           GetTraffic(ok) \/ AddTraffic(ok) \/ AddOutboundTraffic(ok) \/ ReportTraffic(ok)
    PROVE  CreditedOnce' /\ ReadBefore'
<1>0. /\ counter \in [Keys -> Nat] /\ carried \in [Keys -> Nat] /\ run.batch \in [Keys -> Nat]
      /\ traffic \in [Metered -> TrafficRow] /\ told \in [Metered -> Nat] /\ outbound \in Nat
      /\ reset.of \in Metered \cup {Nobody} /\ reset.row \in TrafficRow
      /\ \A c \in Metered : traffic[c].all \in Nat
  BY DEF CreditInv, TrafficTypeOK, TrafficRow
<1>1. CASE GetTraffic(ok)
  <2>1. /\ UNCHANGED <<carried, traffic, outbound, told, reset>> /\ run.pc = "idle"
        /\ \A k \in Keys : counter'[k] = 0
        /\ \/ run' = run
           \/ run'.pc = "inbounds" /\ run'.batch = counter
    BY <1>1 DEF GetTraffic, tables, forms, Zero
  <2> QED BY <1>0, <2>1 DEF CreditInv, CreditedOnce, ReadBefore, InHand
<1>2. CASE AddTraffic(ok)
  <2>1. /\ UNCHANGED <<carried, counter, outbound, told, reset>> /\ run.pc = "inbounds"
        /\ run'.pc = "outbounds" /\ run'.batch = run.batch
    BY <1>2 DEF AddTraffic, meters, CreditInv, TrafficTypeOK
  <2>2. \A c \in Metered : traffic'[c].all \in traffic[c].all .. traffic[c].all + run.batch[c]
    <3>1. CASE ok
      BY <1>0, <1>2, <3>1, CommitRows DEF CreditInv
    <3>2. CASE ~ok
      BY <1>0, <1>2, <3>2 DEF AddTraffic
    <3> QED BY <3>1, <3>2
  <2>3. CreditedOnce'
    BY <1>0, <2>1, <2>2 DEF CreditInv, CreditedOnce, InHand
  <2>4. ReadBefore'
    BY <1>0, <2>1, <2>2, MeteredAssumption DEF CreditInv, ReadBefore, TrafficRow
  <2> QED BY <2>3, <2>4
<1>3. CASE AddOutboundTraffic(ok)
  <2>1. /\ UNCHANGED <<carried, counter, traffic, told, reset>> /\ run.pc = "outbounds"
        /\ run'.pc = "report" /\ run'.batch = run.batch
        /\ outbound' \in {outbound, outbound + run.batch[Outbound]}
    BY <1>3 DEF AddOutboundTraffic, meters, forms, CreditInv, TrafficTypeOK
  <2> QED BY <1>0, <2>1 DEF CreditInv, CreditedOnce, ReadBefore, InHand
<1>4. CASE ReportTraffic(ok)
  <2>1. /\ UNCHANGED <<carried, counter, traffic, outbound, reset>> /\ run.pc = "report"
        /\ run'.pc = "idle" /\ run'.batch = Zero
        /\ \A c \in Metered : told'[c] \in {told[c], told[c] + run.batch[c]}
    BY <1>4 DEF ReportTraffic, meters, tables, forms, Idle
  <2> QED BY <1>0, <2>1 DEF CreditInv, CreditedOnce, ReadBefore, InHand
<1> QED BY <1>1, <1>2, <1>3, <1>4

\* The handlers leave the totals, or put an older one back.
LEMMA HandlerCredits ==
    ASSUME CreditInv,
           \/ \E c \in Metered \cup {Nobody} : ReadSettings(c)
           \/ \E term \in Terms : UpdateInboundClient(term)
           \/ UpdateInbound \/ ResetClientTraffic \/ ResetOutboundTraffic
           \/ \E c \in Metered : ReadTraffic(c) \/ UpdateClientTraffic(c, 0)
           \/ \E cs \in SUBSET Metered : ResetTraffics(cs)
    PROVE  CreditedOnce' /\ ReadBefore'
<1>0. /\ counter \in [Keys -> Nat] /\ carried \in [Keys -> Nat] /\ run.batch \in [Keys -> Nat]
      /\ traffic \in [Metered -> TrafficRow] /\ told \in [Metered -> Nat] /\ outbound \in Nat
      /\ reset.of \in Metered \cup {Nobody} /\ reset.row \in TrafficRow /\ edit.of \in Metered \cup {Nobody}
      /\ \A c \in Metered : traffic[c].all \in Nat
  BY DEF CreditInv, TrafficTypeOK, TrafficRow
<1>1. ASSUME UNCHANGED <<carried, counter, run, told>>, outbound' \in {outbound, 0},
             \A c \in Metered : traffic'[c].all \in Nat /\ traffic'[c].all <= traffic[c].all
      PROVE  CreditedOnce'
  BY <1>0, <1>1 DEF CreditInv, CreditedOnce, InHand
<1>2. ASSUME \A c \in Metered : traffic'[c].all = traffic[c].all, UNCHANGED reset
      PROVE  ReadBefore'
  BY <1>0, <1>2, MeteredAssumption DEF CreditInv, ReadBefore
<1>3. ASSUME NEW c \in Metered \cup {Nobody}, ReadSettings(c) PROVE CreditedOnce' /\ ReadBefore'
  BY <1>0, <1>1, <1>2, <1>3 DEF ReadSettings, meters, tables
<1>4. ASSUME NEW term \in Terms, UpdateInboundClient(term) PROVE CreditedOnce' /\ ReadBefore'
  <2>1. traffic' = [traffic EXCEPT ![edit.of] = [@ EXCEPT !.expiry = term, !.enable = TRUE]]
    BY <1>0, <1>4 DEF UpdateInboundClient, TrafficRow
  <2>2. \A c \in Metered : traffic'[c].all = traffic[c].all
    BY <1>0, <2>1 DEF TrafficRow
  <2>3. UNCHANGED <<carried, counter, run, told, outbound, reset>>
    BY <1>4 DEF UpdateInboundClient, meters
  <2> QED BY <1>0, <1>1, <1>2, <2>2, <2>3
<1>5. CASE UpdateInbound
  BY <1>0, <1>1, <1>2, <1>5 DEF UpdateInbound, meters
<1>6. CASE ResetClientTraffic
  <2>1. /\ reset.of \in Metered /\ reset'.of = Nobody /\ UNCHANGED <<carried, counter, run, told, outbound>>
    BY <1>0, <1>6 DEF ResetClientTraffic, meters
  <2>2. traffic' = [traffic EXCEPT ![reset.of] = [reset.row EXCEPT !.used = 0, !.enable = TRUE]]
    BY <1>6 DEF ResetClientTraffic
  <2>3. reset.row.all <= traffic[reset.of].all /\ reset.row.all \in Nat
    BY <1>0, <2>1, MeteredAssumption DEF CreditInv, ReadBefore, TrafficRow
  <2>4. [reset.row EXCEPT !.used = 0, !.enable = TRUE].all = reset.row.all
    BY <1>0 DEF TrafficRow
  <2>5. \A c \in Metered : traffic'[c].all \in Nat /\ traffic'[c].all <= traffic[c].all
    BY <1>0, <2>1, <2>2, <2>3, <2>4
  <2> QED BY <1>1, <2>1, <2>5 DEF ReadBefore
<1>7. CASE ResetOutboundTraffic
  BY <1>0, <1>1, <1>2, <1>7 DEF ResetOutboundTraffic, meters, forms
<1>8. ASSUME NEW c \in Metered, ReadTraffic(c) PROVE CreditedOnce' /\ ReadBefore'
  BY <1>0, <1>1, <1>8 DEF ReadTraffic, meters, tables, ReadBefore
<1>9. ASSUME NEW c \in Metered, UpdateClientTraffic(c, 0) PROVE CreditedOnce' /\ ReadBefore'
  <2>1. /\ UNCHANGED <<carried, counter, run, told, outbound, reset>>
        /\ \A d \in Metered : traffic'[d].all = traffic[d].all
    BY <1>0, <1>9 DEF UpdateClientTraffic, meters, TrafficRow
  <2> QED BY <1>0, <1>1, <1>2, <2>1
<1>10. ASSUME NEW cs \in SUBSET Metered, ResetTraffics(cs) PROVE CreditedOnce' /\ ReadBefore'
  <2>1. \A d \in Metered : [traffic[d] EXCEPT !.used = 0, !.enable = TRUE].all = traffic[d].all
    BY <1>0 DEF TrafficRow
  <2>2. \A d \in Metered : traffic'[d].all = traffic[d].all
    BY <1>10, <2>1 DEF ResetTraffics
  <2>3. UNCHANGED <<carried, counter, run, told, outbound, reset>>
    BY <1>10 DEF ResetTraffics, meters
  <2> QED BY <1>0, <1>1, <1>2, <2>2, <2>3
<1> QED BY <1>3, <1>4, <1>5, <1>6, <1>7, <1>8, <1>9, <1>10

\* Around them bytes appear once, in a counter, and are lost with a process.
LEMMA AroundCredits ==
    ASSUME CreditInv,
           Day \/ XrayRestarts \/ PanelStops \/ (\E k \in Keys : Carry(k)) \/ UNCHANGED trafficVars
    PROVE  CreditedOnce' /\ ReadBefore'
<1>0. /\ counter \in [Keys -> Nat] /\ carried \in [Keys -> Nat] /\ run.batch \in [Keys -> Nat]
      /\ told \in [Metered -> Nat] /\ outbound \in Nat
      /\ \A c \in Metered : traffic[c].all \in Nat
  BY DEF CreditInv, TrafficTypeOK, TrafficRow
<1> USE DEF CreditInv, CreditedOnce, ReadBefore, InHand
<1>1. CASE Day
  BY <1>1 DEF Day, meters, tables, forms
<1>2. CASE XrayRestarts
  BY <1>0, <1>2 DEF XrayRestarts, Zero, tables, forms
<1>3. CASE PanelStops
  <2>1. /\ UNCHANGED <<carried, counter, traffic, outbound, told>>
        /\ run'.pc = "idle" /\ reset'.of = Nobody
    BY <1>3 DEF PanelStops, Idle, meters, tables, TrafficTypeOK
  <2> QED BY <1>0, <2>1
<1>4. ASSUME NEW k \in Keys, Carry(k) PROVE CreditedOnce' /\ ReadBefore'
  <2>1. /\ UNCHANGED <<run, traffic, outbound, told, reset>>
        /\ \A j \in Keys : /\ counter'[j] = IF j = k THEN counter[j] + 1 ELSE counter[j]
                           /\ carried'[j] = IF j = k THEN carried[j] + 1 ELSE carried[j]
    BY <1>0, <1>4 DEF Carry, tables, forms
  <2> QED BY <1>0, <2>1
<1>5. CASE UNCHANGED trafficVars
  BY <1>5 DEF trafficVars, meters, tables, forms
<1> QED BY <1>1, <1>2, <1>3, <1>4, <1>5

\* XrayTrafficJob.Run, AddTraffic, OutboundService.AddTraffic and
\* reportTrafficToV2board together credit no byte twice, for any clients and any
\* number of failures, restarts and resets.
THEOREM BytesCreditedOnce == TrafficSpec => []CreditedOnce
<1>1. TrafficInit => CreditedOnce /\ ReadBefore
  BY DEF TrafficInit, CreditedOnce, ReadBefore, InHand, Zero, Idle
<1>2. CreditInv /\ [TrafficNext]_trafficVars => CreditedOnce' /\ ReadBefore'
  <2> SUFFICES ASSUME CreditInv, [TrafficNext]_trafficVars PROVE CreditedOnce' /\ ReadBefore'
    OBVIOUS
  <2>1. CASE \E cs \in {Metered} \cup {{c} : c \in Metered} : ResetTraffics(cs)
    BY <2>1, HandlerCredits
  <2>2. CASE \E ok \in BOOLEAN : GetTraffic(ok) \/ AddTraffic(ok) \/ AddOutboundTraffic(ok) \/ ReportTraffic(ok)
    BY <2>2, JobCredits
  <2>3. CASE \/ \E c \in Metered \cup {Nobody} : ReadSettings(c)
             \/ \E term \in Terms : UpdateInboundClient(term)
             \/ UpdateInbound \/ ResetClientTraffic \/ ResetOutboundTraffic
             \/ \E c \in Metered : ReadTraffic(c) \/ UpdateClientTraffic(c, 0)
    BY <2>3, HandlerCredits
  <2>4. CASE Day \/ XrayRestarts \/ PanelStops \/ (\E k \in Keys : Carry(k)) \/ UNCHANGED trafficVars
    BY <2>4, AroundCredits
  <2> QED BY <2>1, <2>2, <2>3, <2>4 DEF TrafficNext
<1> QED BY <1>1, <1>2, TrafficTypes, NextTypes, PTL DEF TrafficSpec, CreditInv


(*------------------------- disabled, and for a cause --------------------*)
\* Only a commit of the job takes it from the inbounds to the outbounds with other
\* rows; each of them is what it makes of the row before.
LEMMA Commits ==
    ASSUME TrafficTypeOK, [TrafficNext]_trafficVars,
           run.pc = "inbounds", run'.pc = "outbounds", traffic' # traffic
    PROVE  now' = now /\ traffic' = [c \in Metered |-> Disabled(Renewed(Added(c), c), c)]
<1>1. run' # run
  OBVIOUS
<1>2. \E ok \in BOOLEAN : AddTraffic(ok)
  <2>1. ~(\E ok \in BOOLEAN : GetTraffic(ok) \/ AddOutboundTraffic(ok) \/ ReportTraffic(ok))
    BY DEF GetTraffic, AddOutboundTraffic, ReportTraffic
  <2>2. ~PanelStops
    BY DEF PanelStops, Idle
  <2>3. ~(Day \/ XrayRestarts \/ (\E k \in Keys : Carry(k)) \/ UNCHANGED trafficVars)
    BY <1>1 DEF Day, XrayRestarts, Carry, trafficVars
  <2>4. ~(\/ \E c \in Metered \cup {Nobody} : ReadSettings(c)
          \/ \E term \in Terms : UpdateInboundClient(term)
          \/ UpdateInbound \/ ResetClientTraffic \/ ResetOutboundTraffic)
    BY <1>1 DEF ReadSettings, UpdateInboundClient, UpdateInbound, ResetClientTraffic, ResetOutboundTraffic
  <2>5. ~(\/ \E c \in Metered : ReadTraffic(c) \/ UpdateClientTraffic(c, 0)
          \/ \E cs \in {Metered} \cup {{c} : c \in Metered} : ResetTraffics(cs))
    BY <1>1 DEF ReadTraffic, UpdateClientTraffic, ResetTraffics
  <2> QED BY <2>1, <2>2, <2>3, <2>4, <2>5 DEF TrafficNext
<1> QED BY <1>2 DEF AddTraffic

\* AddTraffic leaves enabled no client that is over its quota or past its date, for
\* any quotas, periods and terms.
THEOREM EnabledWithinLimits == TrafficSpec => CutInTime
<1>1. TrafficTypeOK /\ [TrafficNext]_trafficVars =>
        [run.pc = "inbounds" /\ run'.pc = "outbounds" /\ traffic' # traffic =>
           \A c \in Metered : traffic'[c].enable => ~Due(traffic'[c], c)]_trafficVars
  <2> SUFFICES ASSUME TrafficTypeOK, [TrafficNext]_trafficVars,
                      run.pc = "inbounds", run'.pc = "outbounds", traffic' # traffic,
                      NEW c \in Metered, traffic'[c].enable
               PROVE  ~Due(traffic'[c], c)
    OBVIOUS
  <2>1. traffic'[c] = Disabled(Renewed(Added(c), c), c)
    BY Commits
  <2>2. Renewed(Added(c), c) \in TrafficRow
    BY AddedRow, RenewedRow
  <2>3. Due(Renewed(Added(c), c), c) => ~Disabled(Renewed(Added(c), c), c).enable
    BY <2>2 DEF Disabled, TrafficRow
  <2> QED BY <2>1, <2>2, <2>3, DisabledRow
<1> QED BY <1>1, TrafficTypes, PTL DEF TrafficSpec, CutInTime

\* A commit leaves disabled whom it finds due, or found disabled and did not renew.
LEMMA CommitCause ==
    ASSUME TrafficTypeOK, DisabledForCause, NEW ok \in BOOLEAN, AddTraffic(ok)
    PROVE  DisabledForCause'
<1>1. CASE ~ok
  BY <1>1 DEF AddTraffic, DisabledForCause, Due, meters
<1>2. CASE ok
  <2> SUFFICES ASSUME NEW c \in Metered, ~traffic'[c].enable, ~Due(traffic'[c], c)
               PROVE  c \in lowered'
    BY <1>2 DEF DisabledForCause, Due, AddTraffic
  <2> DEFINE row == Renewed(Added(c), c)
  <2>1. /\ traffic'[c] = Disabled(row, c)
        /\ lowered' = {d \in lowered : ~traffic'[d].enable /\ ~Due(traffic'[d], d)}
    BY <1>2 DEF AddTraffic
  <2>2. Added(c) \in TrafficRow /\ row \in TrafficRow
    BY AddedRow, RenewedRow
  <2> HIDE DEF row
  <2>3. ~Due(row, c) /\ ~row.enable
    BY <2>1, <2>2, DisabledRow
  <2>4. row = Added(c) /\ ~Renews(Added(c), c)
    BY <2>2, <2>3, RenewedRow DEF row
  <2>5. ~Due(Added(c), c) /\ ~Added(c).enable
    BY <2>3, <2>4
  <2>6. /\ Added(c).used >= traffic[c].used /\ traffic[c].used \in Nat /\ Added(c).used \in Nat
        /\ traffic[c].expiry > 0 => Added(c).expiry = traffic[c].expiry
        /\ Added(c).enable = traffic[c].enable /\ Quota[c] \in Nat
    <3>1. traffic[c] \in TrafficRow /\ run.batch[c] \in Nat /\ Quota[c] \in Nat
      BY LimitsAssumption DEF TrafficTypeOK
    <3>2. traffic[c].used \in Nat /\ traffic[c].expiry \in Int
      BY <3>1 DEF TrafficRow
    <3>3. /\ Added(c).used = traffic[c].used + run.batch[c] /\ Added(c).expiry = Adjusted(c)
          /\ Added(c).enable = traffic[c].enable
      BY AddedRow
    <3>4. traffic[c].expiry > 0 => Adjusted(c) = traffic[c].expiry
      BY <3>2 DEF Adjusted, Started
    <3> QED BY <3>1, <3>2, <3>3, <3>4
  <2>7. ~Due(traffic[c], c)
    BY <2>5, <2>6 DEF Due
  <2>8. c \in lowered
    BY <2>5, <2>6, <2>7 DEF DisabledForCause
  <2> QED BY <2>1, <2>8
<1> QED BY <1>1, <1>2

\* The handlers enable what they write, or say whose bytes they lower.
LEMMA HandlerCause ==
    ASSUME TrafficTypeOK, DisabledForCause,
           \/ \E term \in Terms : UpdateInboundClient(term)
           \/ ResetClientTraffic
           \/ \E c \in Metered : UpdateClientTraffic(c, 0)
           \/ \E cs \in SUBSET Metered : ResetTraffics(cs)
    PROVE  DisabledForCause'
<1>0. /\ traffic \in [Metered -> TrafficRow] /\ reset.row \in TrafficRow
      /\ edit.of \in Metered \cup {Nobody} /\ reset.of \in Metered \cup {Nobody}
  BY DEF TrafficTypeOK
\* It is enough that the step leaves disabled only clients that were, with the same
\* row, or that are in lowered.
<1>1. ASSUME now' = now,
             \A c \in Metered : ~traffic'[c].enable =>
               \/ c \in lowered'
               \/ traffic'[c] = traffic[c] /\ (c \in lowered => c \in lowered')
      PROVE  DisabledForCause'
  BY <1>1 DEF DisabledForCause, Due
<1>2. ASSUME NEW term \in Terms, UpdateInboundClient(term) PROVE DisabledForCause'
  <2>1. /\ now' = now /\ edit.of \in Metered /\ lowered' = lowered \ {edit.of}
        /\ traffic' = [traffic EXCEPT ![edit.of] = [@ EXCEPT !.expiry = term, !.enable = TRUE]]
    BY <1>0, <1>2 DEF UpdateInboundClient, TrafficRow
  <2>2. [traffic[edit.of] EXCEPT !.expiry = term, !.enable = TRUE].enable = TRUE
    BY <1>0, <2>1 DEF TrafficRow
  <2>3. \A c \in Metered : ~traffic'[c].enable => c # edit.of /\ traffic'[c] = traffic[c]
    BY <1>0, <2>1, <2>2
  <2> QED BY <1>1, <2>1, <2>3
<1>3. CASE ResetClientTraffic
  <2>1. /\ now' = now /\ reset.of \in Metered /\ lowered' = lowered \ {reset.of}
        /\ traffic' = [traffic EXCEPT ![reset.of] = [reset.row EXCEPT !.used = 0, !.enable = TRUE]]
    BY <1>0, <1>3 DEF ResetClientTraffic
  <2>2. [reset.row EXCEPT !.used = 0, !.enable = TRUE].enable = TRUE
    BY <1>0 DEF TrafficRow
  <2>3. \A c \in Metered : ~traffic'[c].enable => c # reset.of /\ traffic'[c] = traffic[c]
    BY <1>0, <2>1, <2>2
  <2> QED BY <1>1, <2>1, <2>3
<1>4. ASSUME NEW c \in Metered, UpdateClientTraffic(c, 0) PROVE DisabledForCause'
  <2>1. /\ now' = now /\ lowered' = IF traffic[c].enable THEN lowered ELSE lowered \cup {c}
        /\ traffic' = [traffic EXCEPT ![c] = [@ EXCEPT !.used = 0]]
    BY <1>0, <1>4 DEF UpdateClientTraffic, TrafficRow
  <2>2. [traffic[c] EXCEPT !.used = 0].enable = traffic[c].enable
    BY <1>0 DEF TrafficRow
  <2>3. \A d \in Metered : ~traffic'[d].enable => d \in lowered' \/ traffic'[d] = traffic[d]
    BY <1>0, <2>1, <2>2
  <2> QED BY <1>1, <2>1, <2>3
<1>5. ASSUME NEW cs \in SUBSET Metered, ResetTraffics(cs) PROVE DisabledForCause'
  <2>1. /\ now' = now /\ lowered' = lowered \ cs
        /\ traffic' = [c \in Metered |-> IF c \in cs THEN [traffic[c] EXCEPT !.used = 0, !.enable = TRUE]
                                         ELSE traffic[c]]
    BY <1>5 DEF ResetTraffics
  <2>2. \A c \in Metered : [traffic[c] EXCEPT !.used = 0, !.enable = TRUE].enable = TRUE
    BY <1>0 DEF TrafficRow
  <2>3. \A c \in Metered : ~traffic'[c].enable => c \notin cs /\ traffic'[c] = traffic[c]
    BY <2>1, <2>2
  <2> QED BY <1>1, <2>1, <2>3
<1> QED BY <1>2, <1>3, <1>4, <1>5

\* The other steps leave the rows alone, and the clock only goes on.
LEMMA OthersCause ==
    ASSUME TrafficTypeOK, DisabledForCause,
           \/ \E ok \in BOOLEAN : GetTraffic(ok) \/ AddOutboundTraffic(ok) \/ ReportTraffic(ok)
           \/ \E c \in Metered \cup {Nobody} : ReadSettings(c)
           \/ UpdateInbound \/ ResetOutboundTraffic
           \/ \E c \in Metered : ReadTraffic(c)
           \/ Day \/ XrayRestarts \/ PanelStops \/ (\E k \in Keys : Carry(k)) \/ UNCHANGED trafficVars
    PROVE  DisabledForCause'
<1>1. ASSUME UNCHANGED <<traffic, lowered>>, now' \in {now, now + 1} PROVE DisabledForCause'
  <2>1. /\ now \in Nat /\ \A c \in Metered : traffic[c].expiry \in Int
    BY DEF TrafficTypeOK, TrafficRow
  <2> QED BY <1>1, <2>1 DEF DisabledForCause, Due
<1>2. CASE \E ok \in BOOLEAN : GetTraffic(ok) \/ AddOutboundTraffic(ok) \/ ReportTraffic(ok)
  BY <1>1, <1>2 DEF GetTraffic, AddOutboundTraffic, ReportTraffic, tables, forms
<1>3. CASE \/ \E c \in Metered \cup {Nobody} : ReadSettings(c)
           \/ UpdateInbound \/ ResetOutboundTraffic
           \/ \E c \in Metered : ReadTraffic(c)
  BY <1>1, <1>3 DEF ReadSettings, UpdateInbound, ResetOutboundTraffic, ReadTraffic, tables, forms
<1>4. CASE Day \/ XrayRestarts \/ PanelStops \/ (\E k \in Keys : Carry(k)) \/ UNCHANGED trafficVars
  BY <1>1, <1>4 DEF Day, XrayRestarts, PanelStops, Carry, trafficVars, tables, forms
<1> QED BY <1>2, <1>3, <1>4

\* disableInvalidClients, autoRenewClients and the handlers together keep disabled
\* only clients whose quota is used up or whose date has come.
THEOREM DisabledWithCause == TrafficSpec => []DisabledForCause
<1>1. TrafficInit => DisabledForCause
  BY DEF TrafficInit, DisabledForCause
<1>2. TrafficTypeOK /\ DisabledForCause /\ [TrafficNext]_trafficVars => DisabledForCause'
  <2> SUFFICES ASSUME TrafficTypeOK, DisabledForCause, [TrafficNext]_trafficVars PROVE DisabledForCause'
    OBVIOUS
  <2>1. CASE \E cs \in {Metered} \cup {{c} : c \in Metered} : ResetTraffics(cs)
    BY <2>1, HandlerCause
  <2>2. CASE \/ \E term \in Terms : UpdateInboundClient(term)
             \/ ResetClientTraffic
             \/ \E c \in Metered : UpdateClientTraffic(c, 0)
    BY <2>2, HandlerCause
  <2>3. CASE \E ok \in BOOLEAN : AddTraffic(ok)
    BY <2>3, CommitCause
  <2>4. CASE \/ \E ok \in BOOLEAN : GetTraffic(ok) \/ AddOutboundTraffic(ok) \/ ReportTraffic(ok)
             \/ \E c \in Metered \cup {Nobody} : ReadSettings(c)
             \/ UpdateInbound \/ ResetOutboundTraffic
             \/ \E c \in Metered : ReadTraffic(c)
             \/ Day \/ XrayRestarts \/ PanelStops \/ (\E k \in Keys : Carry(k)) \/ UNCHANGED trafficVars
    BY <2>4, OthersCause
  <2> QED BY <2>1, <2>2, <2>3, <2>4 DEF TrafficNext
<1> QED BY <1>1, <1>2, TrafficTypes, PTL DEF TrafficSpec

(*----------------------------- dates that agree -------------------------*)
\* A commit moves the dates of the settings and of the row together, or neither.
LEMMA CommitDates ==
    ASSUME TrafficTypeOK, AddTraffic(TRUE), NEW c \in Metered
    PROVE  /\ traffic'[c].expiry = Renewed(Added(c), c).expiry
           /\ expiry'[c] = Dated(c)
           /\ ~Started(c) /\ ~Renews(Added(c), c) =>
                traffic'[c].expiry = traffic[c].expiry /\ expiry'[c] = expiry[c]
<1>1. Added(c) \in TrafficRow /\ Renewed(Added(c), c) \in TrafficRow
  BY AddedRow, RenewedRow
<1>2. \A row \in TrafficRow : Disabled(row, c).expiry = row.expiry
  BY DEF Disabled, TrafficRow
<1>3. traffic'[c] = Disabled(Renewed(Added(c), c), c) /\ expiry'[c] = Dated(c)
  BY DEF AddTraffic
<1>4. ASSUME ~Started(c), ~Renews(Added(c), c)
      PROVE  Renewed(Added(c), c).expiry = traffic[c].expiry /\ Dated(c) = expiry[c]
  <2>1. Renewed(Added(c), c) = Added(c)
    BY <1>1, <1>4, RenewedRow
  <2>2. Added(c).expiry = traffic[c].expiry
    BY <1>4, AddedRow DEF Adjusted
  <2> QED BY <1>4, <2>1, <2>2 DEF Dated
<1> QED BY <1>1, <1>2, <1>3, <1>4

\* After a commit they are the same, but for whom a handler parted and the commit did
\* not touch.
LEMMA CommitAgrees ==
    ASSUME TrafficTypeOK, DatesAgree, NEW ok \in BOOLEAN, AddTraffic(ok)
    PROVE  DatesAgree'
<1>1. CASE ~ok
  BY <1>1 DEF AddTraffic, DatesAgree
<1>2. CASE ok
  <2>1. AddTraffic(TRUE) /\ crossed' = {c \in crossed : ~Started(c) /\ ~Renews(Added(c), c)}
    BY <1>2 DEF AddTraffic
  <2>2. ASSUME NEW c \in Metered, c \notin crossed' PROVE expiry'[c] = traffic'[c].expiry
    <3>1. CASE Started(c) \/ Renews(Added(c), c)
      BY <2>1, <3>1, CommitDates DEF Dated
    <3>2. CASE ~Started(c) /\ ~Renews(Added(c), c)
      <4>1. c \notin crossed
        BY <2>1, <2>2, <3>2
      <4> QED BY <2>1, <3>2, <4>1, CommitDates DEF DatesAgree
    <3> QED BY <3>1, <3>2
  <2> QED BY <2>2 DEF DatesAgree
<1> QED BY <1>1, <1>2

\* A handler that saves one of the two without the other counts the clients it parts.
LEMMA HandlerAgrees ==
    ASSUME TrafficTypeOK, DatesAgree,
           \/ \E term \in Terms : UpdateInboundClient(term)
           \/ UpdateInbound \/ ResetClientTraffic
    PROVE  DatesAgree'
<1>1. ASSUME NEW term \in Terms, UpdateInboundClient(term) PROVE DatesAgree'
  <2>1. crossed' = (crossed \ {edit.of}) \cup Crossing(expiry', traffic')
    BY <1>1 DEF UpdateInboundClient
  <2> QED BY <2>1 DEF DatesAgree, Crossing
<1>2. CASE UpdateInbound
  <2>1. crossed' = crossed \cup Crossing(expiry', traffic) /\ traffic' = traffic
    BY <1>2 DEF UpdateInbound
  <2> QED BY <2>1 DEF DatesAgree, Crossing
<1>3. CASE ResetClientTraffic
  <2>1. crossed' = crossed \cup Crossing(expiry, traffic') /\ expiry' = expiry
    BY <1>3 DEF ResetClientTraffic
  <2> QED BY <2>1 DEF DatesAgree, Crossing
<1> QED BY <1>1, <1>2, <1>3

\* Bytes that are set or reset leave the dates alone.
LEMMA BytesAgree ==
    ASSUME TrafficTypeOK,
           \/ \E c \in Metered : UpdateClientTraffic(c, 0)
           \/ \E cs \in SUBSET Metered : ResetTraffics(cs)
    PROVE  /\ \A c \in Metered : traffic'[c].expiry = traffic[c].expiry
           /\ UNCHANGED <<expiry, crossed>>
<1>0. traffic \in [Metered -> TrafficRow]
  BY DEF TrafficTypeOK
<1>1. ASSUME NEW c \in Metered, UpdateClientTraffic(c, 0)
      PROVE  \A d \in Metered : traffic'[d].expiry = traffic[d].expiry
  BY <1>0, <1>1 DEF UpdateClientTraffic, TrafficRow
<1>2. ASSUME NEW cs \in SUBSET Metered, ResetTraffics(cs)
      PROVE  \A d \in Metered : traffic'[d].expiry = traffic[d].expiry
  <2>1. \A d \in Metered : [traffic[d] EXCEPT !.used = 0, !.enable = TRUE].expiry = traffic[d].expiry
    BY <1>0 DEF TrafficRow
  <2> QED BY <1>2, <2>1 DEF ResetTraffics
<1> QED BY <1>1, <1>2 DEF UpdateClientTraffic, ResetTraffics

\* AddTraffic and the handlers keep the date in an inbound's settings and the one in
\* the traffic row the same, but where a handler saves what it read before.
THEOREM DatesAlwaysAgree == TrafficSpec => []DatesAgree
<1>1. TrafficInit => DatesAgree
  BY DEF TrafficInit, DatesAgree
<1>2. TrafficTypeOK /\ DatesAgree /\ [TrafficNext]_trafficVars => DatesAgree'
  <2> SUFFICES ASSUME TrafficTypeOK, DatesAgree, [TrafficNext]_trafficVars PROVE DatesAgree'
    OBVIOUS
  <2>1. CASE \/ \E c \in Metered : UpdateClientTraffic(c, 0)
             \/ \E cs \in {Metered} \cup {{c} : c \in Metered} : ResetTraffics(cs)
    BY <2>1, BytesAgree DEF DatesAgree
  <2>2. CASE \/ \E term \in Terms : UpdateInboundClient(term)
             \/ UpdateInbound \/ ResetClientTraffic
    BY <2>2, HandlerAgrees
  <2>3. CASE \E ok \in BOOLEAN : AddTraffic(ok)
    BY <2>3, CommitAgrees
  <2>4. CASE \/ \E ok \in BOOLEAN : GetTraffic(ok) \/ AddOutboundTraffic(ok) \/ ReportTraffic(ok)
             \/ \E c \in Metered \cup {Nobody} : ReadSettings(c)
             \/ ResetOutboundTraffic
             \/ \E c \in Metered : ReadTraffic(c)
             \/ Day \/ XrayRestarts \/ PanelStops \/ (\E k \in Keys : Carry(k)) \/ UNCHANGED trafficVars
    <3>1. UNCHANGED <<traffic, expiry, crossed>>
      BY <2>4 DEF GetTraffic, AddOutboundTraffic, ReportTraffic, ReadSettings, ResetOutboundTraffic,
           ReadTraffic, Day, XrayRestarts, PanelStops, Carry, trafficVars, tables, forms
    <3> QED BY <3>1 DEF DatesAgree
  <2> QED BY <2>1, <2>2, <2>3, <2>4 DEF TrafficNext
<1> QED BY <1>1, <1>2, TrafficTypes, PTL DEF TrafficSpec

(*------------------------- periods that run out -------------------------*)
\* A date that has come moves by whole periods to the first that is not past.
LEMMA FirstDate ==
    ASSUME NEW date \in Int, NEW period \in Nat, period > 0, now \in Int, date <= now
    PROVE  NextDate(date, period) \in now .. now + period - 1
<1> DEFINE ahead == now - date + period - 1
           periods == ahead \div period
<1>1. ahead \in Int /\ periods \in Int
  OBVIOUS
<1>2. periods * period <= ahead /\ ahead < periods * period + period
  <2> HIDE DEF ahead
  <2> QED BY <1>1
<1>3. periods * period \in Int
  BY <1>1
<1>4. NextDate(date, period) = date + periods * period
  BY DEF NextDate
<1> HIDE DEF periods
<1> QED BY <1>1, <1>2, <1>3, <1>4

\* A commit moves a date only to renew.
LEMMA CommitRenews ==
    ASSUME TrafficTypeOK, NEW ok \in BOOLEAN, AddTraffic(ok),
           NEW c \in Metered, traffic[c].expiry > 0, traffic'[c].expiry # traffic[c].expiry
    PROVE  /\ traffic[c].expiry <= now /\ traffic'[c].expiry \in now .. now + Period[c] - 1
           /\ traffic'[c].used = 0
<1>0. traffic[c].expiry \in Int /\ now \in Int /\ Period[c] \in Nat
  BY LimitsAssumption DEF TrafficTypeOK, TrafficRow
<1>1. ok /\ AddTraffic(TRUE)
  BY DEF AddTraffic
<1>2. ~Started(c) /\ Renews(Added(c), c)
  BY <1>0, <1>1, CommitDates DEF Started
<1>3. Added(c) \in TrafficRow /\ Added(c).expiry = traffic[c].expiry
  BY <1>2, AddedRow DEF Adjusted
<1>4. traffic[c].expiry <= now /\ Period[c] > 0
  BY <1>2, <1>3 DEF Renews
<1> DEFINE row == Added(c)
<1>5. Renewed(row, c) \in TrafficRow
  BY <1>3, RenewedRow
<1>6. Renewed(row, c).expiry = NextDate(row.expiry, Period[c]) /\ Renewed(row, c).used = 0
  <2> HIDE DEF row
  <2>1. Renewed(row, c) = [row EXCEPT !.expiry = NextDate(@, Period[c]), !.used = 0, !.enable = TRUE]
    BY <1>2 DEF row, Renewed
  <2>2. row \in TrafficRow
    BY <1>3 DEF row
  <2> QED BY <2>1, <2>2 DEF TrafficRow
<1>7. traffic'[c].expiry = NextDate(traffic[c].expiry, Period[c])
  BY <1>1, <1>3, <1>6, CommitDates
<1>8. traffic'[c].used = 0
  <2>1. \A r \in TrafficRow : Disabled(r, c).used = r.used
    BY DEF Disabled, TrafficRow
  <2>2. traffic'[c] = Disabled(Renewed(Added(c), c), c)
    BY <1>1 DEF AddTraffic
  <2> QED BY <1>5, <1>6, <2>1, <2>2
<1> QED BY <1>0, <1>4, <1>7, <1>8, FirstDate

\* A handler that saves a row saves that of the client it read.
LEMMA HandlerSaves ==
    ASSUME TrafficTypeOK, NEW c \in Metered, traffic'[c].expiry # traffic[c].expiry,
           ResetClientTraffic \/ (\E term \in Terms : UpdateInboundClient(term))
    PROVE  edit.of = c \/ reset.of = c
<1>0. traffic \in [Metered -> TrafficRow] /\ edit.of \in Metered \cup {Nobody}
  BY DEF TrafficTypeOK
<1>1. CASE ResetClientTraffic
  BY <1>0, <1>1 DEF ResetClientTraffic
<1>2. ASSUME NEW term \in Terms, UpdateInboundClient(term) PROVE edit.of = c
  <2>1. traffic' = [traffic EXCEPT ![edit.of] = [@ EXCEPT !.expiry = term, !.enable = TRUE]]
    BY <1>0, <1>2 DEF UpdateInboundClient, TrafficRow
  <2> QED BY <1>0, <2>1
<1> QED BY <1>1, <1>2

\* autoRenewClients moves a date only when it has come, to zero bytes and to the first
\* date of the period that is not past; nothing else moves one but a handler's save.
THEOREM PeriodsRunOut == TrafficSpec => PeriodRuns
<1>1. TrafficTypeOK /\ [TrafficNext]_trafficVars =>
        [\A c \in Metered :
           traffic[c].expiry > 0 /\ traffic'[c].expiry # traffic[c].expiry =>
             \/ edit.of = c \/ reset.of = c
             \/ /\ traffic[c].expiry <= now /\ traffic'[c].expiry \in now .. now + Period[c] - 1
                /\ traffic'[c].used = 0]_trafficVars
  <2> SUFFICES ASSUME TrafficTypeOK, [TrafficNext]_trafficVars,
                      NEW c \in Metered, traffic[c].expiry > 0, traffic'[c].expiry # traffic[c].expiry
               PROVE  \/ edit.of = c \/ reset.of = c
                      \/ /\ traffic[c].expiry <= now /\ traffic'[c].expiry \in now .. now + Period[c] - 1
                         /\ traffic'[c].used = 0
    OBVIOUS
  <2>1. ~ \/ \E d \in Metered : UpdateClientTraffic(d, 0)
          \/ \E cs \in {Metered} \cup {{d} : d \in Metered} : ResetTraffics(cs)
    BY BytesAgree
  <2>2. CASE ResetClientTraffic \/ (\E term \in Terms : UpdateInboundClient(term))
    BY <2>2, HandlerSaves
  <2>3. CASE \E ok \in BOOLEAN : AddTraffic(ok)
    BY <2>3, CommitRenews
  <2>4. ~ \/ \E ok \in BOOLEAN : GetTraffic(ok) \/ AddOutboundTraffic(ok) \/ ReportTraffic(ok)
          \/ \E d \in Metered \cup {Nobody} : ReadSettings(d)
          \/ ResetOutboundTraffic \/ UpdateInbound
          \/ \E d \in Metered : ReadTraffic(d)
          \/ Day \/ XrayRestarts \/ PanelStops \/ (\E k \in Keys : Carry(k)) \/ UNCHANGED trafficVars
    BY DEF GetTraffic, AddOutboundTraffic, ReportTraffic, ReadSettings, ResetOutboundTraffic, UpdateInbound,
         ReadTraffic, Day, XrayRestarts, PanelStops, Carry, trafficVars, tables
  <2> QED BY <2>1, <2>2, <2>3, <2>4 DEF TrafficNext
<1> QED BY <1>1, TrafficTypes, PTL DEF TrafficSpec, PeriodRuns

================================================================================
