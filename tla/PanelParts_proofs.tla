--------------------------- MODULE PanelParts_proofs ---------------------------
(***************************************************************************)
(* The parts side by side: a behaviour of them is one of each, so what is  *)
(* proved of a part, for all values of its constants, holds of the whole.  *)
(***************************************************************************)
EXTENDS PanelParts, Pages_proofs, TrafficAccounting_proofs, AccessLog_proofs,
        V2boardSync_proofs

\* A behaviour of the parts side by side is one of every part.
THEOREM PartsImplement ==
  PartsSpec => PagesSpec /\ OutSpec /\ TrafficSpec /\ LogSpec /\ SyncSpec
<1>1. PartsInit => PagesInit /\ OutInit /\ TrafficInit /\ LogInit /\ SyncInit
  BY DEF PartsInit
<1>2. [PartsNext]_partsVars => [PagesNext]_pageVars
  BY DEF PartsNext, partsVars
<1>3. [PartsNext]_partsVars => [OutNext]_outVars
  BY DEF PartsNext, partsVars
<1>4. [PartsNext]_partsVars => [TrafficNext]_trafficVars
  BY DEF PartsNext, partsVars
<1>5. [PartsNext]_partsVars => [LogNext]_logVars
  BY DEF PartsNext, partsVars
<1>6. [PartsNext]_partsVars => [SyncNext]_syncVars
  BY DEF PartsNext, partsVars
<1>7. QED
  BY <1>1, <1>2, <1>3, <1>4, <1>5, <1>6, PTL
     DEF PartsSpec, PagesSpec, OutSpec, TrafficSpec, LogSpec, SyncSpec

\* The variables of every part keep their types, side by side.
THEOREM PartsKeepType == PartsSpec => []PartsTypeOK
<1>1. PagesTypeOK /\ OutTypeOK /\ TrafficTypeOK /\ LogTypeOK /\ SyncTypeOK => PartsTypeOK
  BY DEF PartsTypeOK
<1>2. QED
  BY <1>1, PartsImplement, PagesKeepType, OutKeepsType, TrafficTypes, LogTypesKept, SyncTypes, PTL

\* What is proved of each part holds of the whole: keys, flows, passwords, tags and
\* balancers of the pages; bytes, causes and dates of the traffic; every line of the
\* log read once, and moved on; and every V2board user served, metered and kept.
THEOREM PartsSafe ==
  PartsSpec => /\ [](KeysPaired /\ SecurityFits /\ PasswordsFit)
               /\ [](OutTagsUnique /\ BalancersServed)
               /\ [](CreditedOnce /\ DisabledForCause /\ DatesAgree) /\ CutInTime /\ PeriodRuns
               /\ [](ReadOnce /\ ReadUpTo /\ LinesKept)
               /\ [](SyncServes /\ SyncMetered) /\ SyncKeeps
<1>1. PagesSpec => [](KeysPaired /\ SecurityFits /\ PasswordsFit)
  BY KeysStayPaired, SecurityStaysFit, PasswordsStayFit, PTL
<1>2. OutSpec => [](OutTagsUnique /\ BalancersServed)
  BY TagsStayUnique, BalancersStayServed, PTL
<1>3. TrafficSpec => [](CreditedOnce /\ DisabledForCause /\ DatesAgree) /\ CutInTime /\ PeriodRuns
  BY BytesCreditedOnce, DisabledWithCause, DatesAlwaysAgree, EnabledWithinLimits, PeriodsRunOut, PTL
<1>4. LogSpec => [](ReadOnce /\ ReadUpTo /\ LinesKept)
  BY LinesReadOnce, LinesReadUpTo, NoLineLost, PTL
<1>5. SyncSpec => [](SyncServes /\ SyncMetered) /\ SyncKeeps
  BY CalmRunServes, EveryClientMetered, GuestsKeep, PTL
<1>6. QED
  BY <1>1, <1>2, <1>3, <1>4, <1>5, PartsImplement, PTL

================================================================================
