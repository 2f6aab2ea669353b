----------------------- MODULE SettlementTruth_proofs -----------------------
(* What holds of a city-day's settlement for any lots, bins, finals, kills,   *)
(* caught errors and operator's commands.  The inductive invariant says of a  *)
(* lot that only settlement and expiry give it a high, of the ledger that it  *)
(* has paid what the journal shows, and of a verification row that it speaks  *)
(* of the booking.                                                            *)
EXTENDS SettlementTruth, TLAPS

USE ConstantsAssumption DEF Known, Statuses

LotType == [status : Statuses, high : Known]
DayType == [high : Known, yes : BOOLEAN, rank : 0..4]
AuditType == [status : {"NONE", "MATCH", "MISMATCH", "MISSING_FINAL"}, booked : Known, final : Known]
CheckType == [verdict : {"NONE", "MATCH", "MISMATCH", "KALSHI_PENDING", "UNCHECKED"}, booked : Known]
TickType == [step : {"idle", "settle", "record", "verify", "load", "recheck", "check", "write"}, truth : Known]
OpType == [step : {"idle", "verify", "restate", "backfill"}, truth : Known]
RunType == [step : {"idle", "write"}, seen : [Lots -> Known], result : [Markets -> {"final", "pending", "unread"}]]

Types ==
  /\ final \in Known /\ finals \in 0..Finals /\ exchange \in Known /\ completed \in BOOLEAN
  /\ cached \subseteq Markets
  /\ lot \in [Lots -> LotType]
  /\ paid \in [Lots -> Int]
  /\ day \in [Markets -> DayType]
  /\ audit \in [Lots -> AuditType]
  /\ check \in [Lots -> CheckType]
  /\ tick \in TickType
  /\ op \in OpType
  /\ guard \in [Runs -> RunType]
  /\ kills \in 0..Kills /\ failures \in 0..Failures

(* What a tick is about to book, it has read. *)
TickKnows == tick.step \in {"settle", "record"} => tick.truth # None

(* A settled lot has a high, and only a resolved one does. *)
Stamped ==
  \A l \in Lots : /\ Settled(l) => lot[l].high # None
                  /\ lot[l].high # None => lot[l].status \in {"settled", "expired"}

Inv == Types /\ TickKnows /\ Stamped /\ LedgerFollowsJournal /\ VerificationIsOfBooking

-----------------------------------------------------------------------------
(* Records built by the steps have their types. *)
LEMMA Rows ==
  /\ \A s \in Statuses, h \in Known : [status |-> s, high |-> h] \in LotType
  /\ \A h \in Known, y \in BOOLEAN, r \in 0..4 : [high |-> h, yes |-> y, rank |-> r] \in DayType
  /\ \A s \in {"NONE", "MATCH", "MISMATCH", "MISSING_FINAL"}, h, f \in Known :
       [status |-> s, booked |-> h, final |-> f] \in AuditType
  /\ \A v \in {"NONE", "MATCH", "MISMATCH", "KALSHI_PENDING", "UNCHECKED"}, h \in Known :
       [verdict |-> v, booked |-> h] \in CheckType
  /\ \A s \in {"idle", "settle", "record", "verify", "load", "recheck", "check", "write"}, h \in Known :
       [step |-> s, truth |-> h] \in TickType
  /\ \A s \in {"idle", "verify", "restate", "backfill"}, h \in Known : [step |-> s, truth |-> h] \in OpType
  BY DEF LotType, DayType, AuditType, CheckType, TickType, OpType

LEMMA Outcomes ==
  ASSUME NEW m \in Markets, NEW h \in Known, NEW r \in 0..4
  PROVE  Outcome(m, h, r) \in DayType
  BY DEF Outcome, DayType

LEMMA Upserts ==
  ASSUME NEW row \in DayType, NEW new \in DayType
  PROVE  Upsert(row, new) \in DayType
  BY DEF Upsert, DayType

LEMMA Recordings ==
  ASSUME Types, NEW ms \in SUBSET Markets, NEW h \in Known
  PROVE  Recorded(ms, h) \in [Markets -> DayType]
<1>1. \A m \in Markets : day[m] \in DayType BY DEF Types
<1>2. SettlementPath \in 0..4 BY DEF SettlementPath
<1> QED BY <1>1, <1>2, Outcomes, Upserts DEF Recorded

LEMMA RecordsTypes ==
  ASSUME Types, NEW ms \in SUBSET Markets, NEW h \in Known, RecordsDay(ms, h)
  PROVE  day' \in [Markets -> DayType] /\ failures' \in 0..Failures
<1>1. CASE day' = Recorded(ms, h) /\ failures' = failures BY <1>1, Recordings DEF Types
<1>2. CASE failures < Failures /\ failures' = failures + 1 /\ day' = day BY <1>2 DEF Types
<1> QED BY <1>1, <1>2 DEF RecordsDay

LEMMA Audits ==
  ASSUME Types, NEW l \in Lots, NEW h \in Known
  PROVE  Audited(l, h) \in AuditType
<1>1. lot[l].high \in Known BY DEF Types, LotType
<1> QED BY <1>1, Rows DEF Audited

LEMMA PaysIsInt == \A l \in Lots, h \in Known : Pays(l, h) \in {0, 1}
  BY DEF Pays

LEMMA GoesTypes ==
  ASSUME Types, NEW s \in {"idle", "settle", "record", "verify", "load", "recheck", "check", "write"}, Goes(s)
  PROVE  tick' \in TickType /\ tick'.step = s /\ tick'.truth = tick.truth
  BY DEF Goes, Types, TickType

-----------------------------------------------------------------------------
(* Steps that leave the orders, the ledger and the verification rows alone. *)
LEMMA Aside ==
  ASSUME Inv, UNCHANGED <<lot, paid, audit>>, Types', TickKnows'
  PROVE  Inv'
  BY DEF Inv, Stamped, LedgerFollowsJournal, VerificationIsOfBooking, Settled, Pays, Wins

LEMMA InitInv == Init => Inv
<1> SUFFICES ASSUME Init PROVE Inv OBVIOUS
<1>1. lot \in [Lots -> LotType] BY Rows DEF Init
<1>2. NoDay \in DayType BY DEF NoDay, DayType
<1>3. audit \in [Lots -> AuditType] BY Rows DEF Init, NoAudit
<1>4. check \in [Lots -> CheckType] BY Rows DEF Init, NoCheck
<1>5. tick \in TickType /\ op \in OpType BY Rows DEF Init
<1>6. guard \in [Runs -> RunType] BY DEF Init, Quiet, RunType
<1>7. day \in [Markets -> DayType] /\ paid \in [Lots -> Int] BY <1>2 DEF Init
<1>8. /\ final \in Known /\ finals \in 0..Finals /\ exchange \in Known /\ completed \in BOOLEAN
      /\ cached \subseteq Markets /\ kills \in 0..Kills /\ failures \in 0..Failures
  <2>1. /\ completed = FALSE /\ final = None /\ finals = 0 /\ exchange = None
        /\ cached = {} /\ kills = 0 /\ failures = 0
    BY DEF Init
  <2>2. Finals \in Nat /\ Kills \in Nat /\ Failures \in Nat BY ConstantsAssumption DEF ConstantsAssumption
  <2>3. None \in Known BY DEF Known
  <2>4. finals \in 0..Finals /\ kills \in 0..Kills /\ failures \in 0..Failures BY <2>1, <2>2
  <2>5. completed \in BOOLEAN BY <2>1
  <2>6. final \in Known /\ exchange \in Known /\ cached \subseteq Markets BY <2>1, <2>3
  <2> QED BY <2>4, <2>5, <2>6
<1>9. Types BY <1>1, <1>3, <1>4, <1>5, <1>6, <1>7, <1>8 DEF Types
<1> QED BY <1>9 DEF Init, Inv, TickKnows, Stamped, LedgerFollowsJournal, VerificationIsOfBooking, Settled, NoAudit

LEMMA EnterStep == ASSUME Inv, NEW l \in Lots, Enter(l) PROVE Inv'
<1>1. lot' \in [Lots -> LotType] BY DEF Enter, Inv, Types, LotType
<1>2. Types' BY <1>1 DEF Enter, Inv, Types, env, faults
<1> QED BY <1>1, <1>2 DEF Enter, Inv, Types, LotType, TickKnows, Stamped, LedgerFollowsJournal,
                         VerificationIsOfBooking, Settled, Pays, Wins

LEMMA MonitorStep == ASSUME Inv, NEW l \in Lots, Monitor(l) PROVE Inv'
<1>1. lot' \in [Lots -> LotType] BY DEF Monitor, Inv, Types, LotType
<1>2. Types' BY <1>1 DEF Monitor, Inv, Types, env, faults
<1>3. /\ lot[l].status \in {"resting", "filled"} /\ lot'[l].status \notin {"settled"}
      /\ lot'[l].high = lot[l].high /\ \A k \in Lots \ {l} : lot'[k] = lot[k]
  BY DEF Monitor, Inv, Types, LotType
<1>4. UNCHANGED <<paid, audit, tick>> BY DEF Monitor
<1>5. lot[l].high = None BY <1>3 DEF Inv, Stamped
<1>6. Stamped' BY <1>3, <1>5 DEF Inv, Stamped, Settled
<1>7. LedgerFollowsJournal' BY <1>3, <1>4 DEF Inv, LedgerFollowsJournal, Settled, Pays, Wins
<1>8. VerificationIsOfBooking' BY <1>3, <1>4 DEF Inv, VerificationIsOfBooking, Settled
<1> QED BY <1>2, <1>4, <1>6, <1>7, <1>8 DEF Inv, TickKnows

LEMMA CompleteStep == ASSUME Inv, Complete PROVE Inv'
<1>1. Types' BY DEF Complete, Inv, Types, journal, faults
<1> QED BY <1>1, Aside DEF Complete, journal, Inv, TickKnows

LEMMA PublishStep == ASSUME Inv, NEW h \in Highs, Publish(h) PROVE Inv'
<1>1. Types' BY DEF Publish, Inv, Types, journal, faults
<1> QED BY <1>1, Aside DEF Publish, journal, Inv, TickKnows

LEMMA FinalizeStep == ASSUME Inv, NEW h \in Highs, Finalize(h) PROVE Inv'
<1>1. Types' BY DEF Finalize, Inv, Types, journal, faults
<1> QED BY <1>1, Aside DEF Finalize, journal, Inv, TickKnows

-----------------------------------------------------------------------------
(* A settlement: what it books, the ledger pays. *)
LEMMA SettlesInv ==
  ASSUME Inv, NEW h \in Highs, Settles(h), audit' = audit
  PROVE  /\ lot' \in [Lots -> LotType] /\ paid' \in [Lots -> Int]
         /\ day' \in [Markets -> DayType] /\ failures' \in 0..Failures
         /\ Stamped' /\ LedgerFollowsJournal' /\ VerificationIsOfBooking'
<1> DEFINE Next1(l) == CASE Filled(l) -> [status |-> "settled", high |-> h]
                         [] lot[l].status = "resting" -> [status |-> "expired", high |-> h]
                         [] OTHER -> lot[l]
<1>1. \A l \in Lots : lot'[l] = Next1(l) BY DEF Settles
<1>2. \A l \in Lots : Next1(l) \in LotType BY Rows DEF Inv, Types, Filled
<1>3. lot' \in [Lots -> LotType] BY <1>2 DEF Settles
<1>4. \A l \in Lots : paid'[l] = IF Filled(l) THEN paid[l] + Pays(l, h) ELSE paid[l] BY DEF Settles
<1>5. paid' \in [Lots -> Int] BY PaysIsInt DEF Settles, Inv, Types
<1>6. \A l \in Lots : \/ Filled(l) /\ lot'[l] = [status |-> "settled", high |-> h]
                      \/ lot[l].status = "resting" /\ lot'[l] = [status |-> "expired", high |-> h]
                      \/ ~Filled(l) /\ lot[l].status # "resting" /\ lot'[l] = lot[l]
  BY <1>1 DEF Filled
<1> HIDE DEF Next1
<1>7. Stamped' BY <1>6 DEF Inv, Stamped, Settled
<1>8. ASSUME NEW l \in Lots PROVE paid'[l] = IF Settled(l)' THEN Pays(l, lot'[l].high) ELSE 0
  <2>1. CASE Filled(l) BY <2>1, <1>4, <1>6, PaysIsInt DEF Inv, LedgerFollowsJournal, Settled, Filled
  <2>2. CASE lot[l].status = "resting" BY <2>2, <1>4, <1>6 DEF Inv, LedgerFollowsJournal, Settled, Filled
  <2>3. CASE ~Filled(l) /\ lot[l].status # "resting" BY <2>3, <1>4, <1>6 DEF Inv, LedgerFollowsJournal, Settled, Filled
  <2> QED BY <2>1, <2>2, <2>3
<1>9. LedgerFollowsJournal' BY <1>8 DEF LedgerFollowsJournal, Pays, Wins
<1>10. VerificationIsOfBooking' BY <1>6 DEF Inv, VerificationIsOfBooking, Settled, Filled
<1>11. day' \in [Markets -> DayType] /\ failures' \in 0..Failures
  BY RecordsTypes DEF Settles, Inv
<1> QED BY <1>3, <1>5, <1>7, <1>9, <1>10, <1>11

LEMMA TickSettlesStep == ASSUME Inv, TickSettles PROVE Inv'
<1>1. tick.truth \in Highs BY DEF TickSettles, Inv, TickKnows, Types, TickType
<1>2. tick' \in TickType /\ tick'.step \in {"verify", "load"} BY GoesTypes DEF TickSettles, Inv
<1>3. /\ lot' \in [Lots -> LotType] /\ paid' \in [Lots -> Int]
      /\ day' \in [Markets -> DayType] /\ failures' \in 0..Failures
      /\ Stamped' /\ LedgerFollowsJournal' /\ VerificationIsOfBooking'
  BY <1>1, SettlesInv DEF TickSettles
<1>4. Types' BY <1>2, <1>3 DEF TickSettles, Inv, Types, env
<1> QED BY <1>2, <1>3, <1>4 DEF Inv, TickKnows

LEMMA OpSettlesStep == ASSUME Inv, NEW h \in ManualHighs, OpSettles(h) PROVE Inv'
<1>1. h \in Highs OBVIOUS
<1>3. /\ lot' \in [Lots -> LotType] /\ paid' \in [Lots -> Int]
      /\ day' \in [Markets -> DayType] /\ failures' \in 0..Failures
      /\ Stamped' /\ LedgerFollowsJournal' /\ VerificationIsOfBooking'
  BY <1>1, SettlesInv DEF OpSettles
<1>4. Types' BY <1>3 DEF OpSettles, Inv, Types, env
<1> QED BY <1>3, <1>4 DEF OpSettles, Inv, TickKnows

-----------------------------------------------------------------------------
(* Audits: a row is written of the booking it reads. *)
LEMMA AuditsInv ==
  ASSUME Inv, NEW h \in Known, NEW S \in SUBSET {l \in Lots : Settled(l)},
         audit' = [l \in Lots |-> IF l \in S THEN Audited(l, h) ELSE audit[l]], lot' = lot
  PROVE  audit' \in [Lots -> AuditType] /\ VerificationIsOfBooking'
<1>1. audit' \in [Lots -> AuditType] BY Audits DEF Inv, Types
<1>2. ASSUME NEW l \in Lots, audit'[l].status # "NONE"
      PROVE  /\ Settled(l)' /\ audit'[l].booked = lot'[l].high
             /\ audit'[l].status = "MATCH" <=> audit'[l].final = lot'[l].high
  <2>1. CASE l \in S BY <2>1 DEF Inv, Stamped, Settled, Audited
  <2>2. CASE l \notin S BY <2>2, <1>2 DEF Inv, VerificationIsOfBooking, Settled
  <2> QED BY <2>1, <2>2
<1> QED BY <1>1, <1>2 DEF VerificationIsOfBooking

LEMMA VerifiesInv ==
  ASSUME Inv, NEW h \in Known, Verifies(h), lot' = lot
  PROVE  audit' \in [Lots -> AuditType] /\ VerificationIsOfBooking'
<1> DEFINE S == {l \in Lots : Settled(l)}
<1>1. audit' = [l \in Lots |-> IF l \in S THEN Audited(l, h) ELSE audit[l]] BY DEF Verifies
<1> HIDE DEF S
<1> QED BY <1>1, AuditsInv DEF S

LEMMA RechecksInv ==
  ASSUME Inv, NEW h \in Known, Rechecks(h), lot' = lot
  PROVE  audit' \in [Lots -> AuditType] /\ VerificationIsOfBooking'
<1> DEFINE S == {l \in Lots : Drifted(l, h)}
<1>1. audit' = [l \in Lots |-> IF l \in S THEN Audited(l, h) ELSE audit[l]] BY DEF Rechecks
<1>2. S \in SUBSET {l \in Lots : Settled(l)} BY DEF Drifted
<1> HIDE DEF S
<1> QED BY <1>1, <1>2, AuditsInv

LEMMA Reaudited ==
  ASSUME Inv, UNCHANGED <<lot, paid>>, Types', TickKnows', VerificationIsOfBooking'
  PROVE  Inv'
  BY DEF Inv, Stamped, LedgerFollowsJournal, Settled, Pays, Wins

LEMMA TickVerifiesStep == ASSUME Inv, TickVerifies PROVE Inv'
<1>1. tick' \in TickType /\ tick'.step = "load" BY GoesTypes DEF TickVerifies, Inv
<1>2. tick.truth \in Known BY DEF Inv, Types, TickType
<1>3. audit' \in [Lots -> AuditType] /\ VerificationIsOfBooking' BY <1>2, VerifiesInv DEF TickVerifies
<1>4. Types' BY <1>1, <1>3 DEF TickVerifies, Inv, Types, env, faults
<1> QED BY <1>1, <1>3, <1>4, Reaudited DEF TickVerifies, TickKnows

LEMMA OpVerifiesStep == ASSUME Inv, OpVerifies PROVE Inv'
<1>1. op' \in OpType BY Rows DEF OpVerifies, Ready
<1>2. op.truth \in Known BY DEF Inv, Types, OpType
<1>3. audit' \in [Lots -> AuditType] /\ VerificationIsOfBooking' BY <1>2, VerifiesInv DEF OpVerifies
<1>4. Types' BY <1>1, <1>3 DEF OpVerifies, Inv, Types, env, faults
<1> QED BY <1>3, <1>4, Reaudited DEF OpVerifies, Inv, TickKnows

LEMMA TickRechecksStep == ASSUME Inv, TickRechecks PROVE Inv'
<1>1. tick' \in TickType /\ tick'.step \in {"check", "idle"} BY GoesTypes DEF TickRechecks, Inv
<1>2. tick.truth \in Known BY DEF Inv, Types, TickType
<1>3. audit' \in [Lots -> AuditType] /\ VerificationIsOfBooking' /\ failures' \in 0..Failures
  <2>1. CASE Rechecks(tick.truth) /\ failures' = failures
    BY <2>1, <1>2, RechecksInv DEF TickRechecks, Inv, Types
  <2>2. CASE failures < Failures /\ failures' = failures + 1 /\ audit' = audit
    BY <2>2 DEF TickRechecks, Inv, Types, VerificationIsOfBooking, Settled
  <2> QED BY <2>1, <2>2 DEF TickRechecks
<1>4. Types' BY <1>1, <1>3 DEF TickRechecks, Inv, Types, env
<1> QED BY <1>1, <1>3, <1>4, Reaudited DEF TickRechecks, TickKnows

-----------------------------------------------------------------------------
(* The other steps of the timer. *)
LEMMA TickReadsStep == ASSUME Inv, TickReads PROVE Inv'
<1>1. /\ Work \in {"settle", "record", "load"}
      /\ Work \in {"settle", "record"} => final # None
  BY DEF Work
<1>2. tick' \in TickType /\ tick'.step = Work /\ tick'.truth = final
  BY <1>1, Rows DEF TickReads, Inv, Types
<1>3. Types' BY <1>2 DEF TickReads, Inv, Types, env, journal, faults
<1>4. TickKnows' BY <1>1, <1>2 DEF TickKnows
<1> QED BY <1>3, <1>4, Aside DEF TickReads, journal

LEMMA TickRecordsStep == ASSUME Inv, TickRecords PROVE Inv'
<1>1. tick' \in TickType /\ tick'.step = "load" BY GoesTypes DEF TickRecords, Inv
<1>2. tick.truth \in Known BY DEF Inv, Types, TickType
<1>3. day' \in [Markets -> DayType] /\ failures' \in 0..Failures BY <1>2, RecordsTypes DEF TickRecords, Inv
<1>4. Types' BY <1>1, <1>3 DEF TickRecords, Inv, Types, env
<1> QED BY <1>1, <1>4, Aside DEF TickRecords, TickKnows

LEMMA TickLoadsStep == ASSUME Inv, TickLoads PROVE Inv'
<1>1. tick' \in TickType /\ tick'.step = "recheck" BY Rows DEF TickLoads, Inv, Types
<1>2. Types' BY <1>1 DEF TickLoads, Inv, Types, env, journal, faults
<1> QED BY <1>1, <1>2, Aside DEF TickLoads, TickKnows, journal

LEMMA QuietRun == Quiet \in RunType
  BY DEF Quiet, RunType

LEMMA TickDiesStep == ASSUME Inv, TickDies PROVE Inv'
<1>1. tick' \in TickType /\ tick'.step = "idle" BY GoesTypes DEF TickDies, Inv
<1>2. guard' \in [Runs -> RunType] BY QuietRun DEF TickDies, Inv, Types
<1>3. kills' \in 0..Kills BY DEF TickDies, Inv, Types
<1>4. Types' BY <1>1, <1>2, <1>3 DEF TickDies, Inv, Types, env, journal
<1> QED BY <1>1, <1>4, Aside DEF TickDies, TickKnows, journal

-----------------------------------------------------------------------------
(* The exchange checks touch nothing but their own rows. *)
LEMMA FetchInv ==
  ASSUME Inv, NEW r \in Runs, NEW reached \in SUBSET Markets, Fetch(r, reached),
         tick' \in TickType, TickKnows'
  PROVE  Inv'
<1> DEFINE seen == [l \in Lots |-> IF l \in Selected(r) THEN lot[l].high ELSE None]
           result == [m \in Markets |->
             IF m \in cached \/ (m \in reached /\ exchange # None) THEN "final"
             ELSE IF m \in reached THEN "pending" ELSE "unread"]
<1>1. seen \in [Lots -> Known] BY DEF Inv, Types, LotType
<1>2. result \in [Markets -> {"final", "pending", "unread"}] OBVIOUS
<1>3. guard' = [guard EXCEPT ![r] = [step |-> "write", seen |-> seen, result |-> result]] BY DEF Fetch
<1> HIDE DEF seen, result
<1>4. [step |-> "write", seen |-> seen, result |-> result] \in RunType BY <1>1, <1>2 DEF RunType
<1>5. guard' \in [Runs -> RunType] BY <1>3, <1>4 DEF Inv, Types
<1>6. Types' BY <1>5 DEF Fetch, Inv, Types, env, journal, faults
<1> QED BY <1>6, Aside DEF Fetch, journal

LEMMA WriteInv ==
  ASSUME Inv, NEW r \in Runs, Write(r), tick' \in TickType, TickKnows'
  PROVE  Inv'
<1>1. ASSUME NEW l \in Lots PROVE Built(r, l) \in CheckType
  <2> DEFINE m == MarketOf[l]
             v == CASE guard[r].result[m] = "final" -> Verdict(m, guard[r].seen[l])
                    [] guard[r].result[m] = "pending" -> "KALSHI_PENDING"
                    [] OTHER -> "UNCHECKED"
  <2>1. guard[r].seen[l] \in Known BY DEF Inv, Types, RunType
  <2>2. v \in {"NONE", "MATCH", "MISMATCH", "KALSHI_PENDING", "UNCHECKED"} BY DEF Verdict
  <2>3. Built(r, l) = [booked |-> guard[r].seen[l], verdict |-> v] BY DEF Built
  <2> HIDE DEF v, m
  <2> QED BY <2>1, <2>2, <2>3 DEF CheckType
<1>2. check' \in [Lots -> CheckType] BY <1>1 DEF Write, Inv, Types
<1>3. guard' \in [Runs -> RunType] BY QuietRun DEF Write, Inv, Types
<1>4. Types' BY <1>2, <1>3 DEF Write, Inv, Types, env, journal, faults
<1> QED BY <1>4, Aside DEF Write, journal

LEMMA TickChecksStep == ASSUME Inv, "timer" \in Runs, NEW reached \in SUBSET Markets, TickChecks(reached) PROVE Inv'
<1>1. tick' \in TickType /\ tick'.step = "write" BY GoesTypes DEF TickChecks, Inv
<1> QED BY <1>1, FetchInv DEF TickChecks, TickKnows

LEMMA TickWritesStep == ASSUME Inv, "timer" \in Runs, TickWrites PROVE Inv'
<1>1. tick' \in TickType /\ tick'.step = "idle" BY GoesTypes DEF TickWrites, Inv
<1> QED BY <1>1, WriteInv DEF TickWrites, TickKnows

LEMMA OpChecksStep == ASSUME Inv, "operator" \in Runs, NEW reached \in SUBSET Markets, OpChecks(reached) PROVE Inv'
<1>1. tick' \in TickType /\ TickKnows' BY DEF OpChecks, Inv, Types, TickKnows
<1> QED BY <1>1, FetchInv DEF OpChecks

LEMMA OpWritesStep == ASSUME Inv, "operator" \in Runs, OpWrites PROVE Inv'
<1>1. tick' \in TickType /\ TickKnows' BY DEF OpWrites, Inv, Types, TickKnows
<1> QED BY <1>1, WriteInv DEF OpWrites

-----------------------------------------------------------------------------
(* The operator's commands. *)
LEMMA OpLoadsStep == ASSUME Inv, NEW c \in Commands, OpLoads(c) PROVE Inv'
<1>1. op' \in OpType BY Rows DEF OpLoads, Inv, Types
<1>2. Types' BY <1>1 DEF OpLoads, Inv, Types, env, journal, faults
<1> QED BY <1>2, Aside DEF OpLoads, journal, Inv, TickKnows

LEMMA OpGivesUpStep == ASSUME Inv, OpGivesUp PROVE Inv'
<1>1. op' \in OpType BY Rows DEF OpGivesUp, Inv, Types
<1>2. guard' \in [Runs -> RunType] BY QuietRun DEF OpGivesUp, Inv, Types
<1>3. Types' BY <1>1, <1>2 DEF OpGivesUp, Inv, Types, env, journal, faults
<1> QED BY <1>3, Aside DEF OpGivesUp, journal, Inv, TickKnows

LEMMA OpBackfillsStep == ASSUME Inv, NEW shown \in SUBSET Markets, OpBackfills(shown) PROVE Inv'
<1>1. op' \in OpType BY Rows DEF OpBackfills, Ready
<1>2. op.truth \in Known /\ Siblings \subseteq Known BY DEF Inv, Types, OpType, LotType, Siblings
<1>3. ASSUME NEW m \in Markets, NEW sibling \in Known PROVE Source(m, sibling, op.truth, shown) \in DayType
  <2>1. SettledSibling \in 0..4 /\ CliSettlement \in 0..4 BY DEF SettledSibling, CliSettlement
  <2>2. \A y \in BOOLEAN : [high |-> None, yes |-> y, rank |-> Dataset] \in DayType BY DEF Dataset, DayType
  <2>3. NoDay \in DayType BY DEF NoDay, DayType
  <2>4. (exchange \in Yes[m]) \in BOOLEAN OBVIOUS
  <2> QED BY <1>2, <2>1, <2>2, <2>3, <2>4, Outcomes DEF Source
<1>4. PICK sibling \in Siblings : day' = [m \in Markets |->
        LET new == Source(m, sibling, op.truth, shown) IN
        IF Traded(m) /\ new.rank > day[m].rank THEN Upsert(day[m], new) ELSE day[m]]
  BY DEF OpBackfills
<1>5. \A m \in Markets : day[m] \in DayType BY DEF Inv, Types
<1>6. day' \in [Markets -> DayType] BY <1>2, <1>3, <1>4, <1>5, Upserts
<1>7. Types' BY <1>1, <1>6 DEF OpBackfills, Inv, Types, env, faults
<1> QED BY <1>7, Aside DEF OpBackfills, Inv, TickKnows

(* A restatement moves the order, the ledger and the row together. *)
LEMMA OpRestatesStep == ASSUME Inv, NEW l \in Lots, OpRestates(l) PROVE Inv'
<1> DEFINE h == op.truth
           m == MarketOf[l]
<1>1. op' \in OpType BY Rows DEF OpRestates, Ready
<1>2. h \in Highs /\ m \in Markets /\ Settled(l)
  BY DEF OpRestates, MayRestate, Restatable, Inv, Types, OpType
<1>3. lot' \in [Lots -> LotType] BY <1>2 DEF OpRestates, Inv, Types, LotType
<1>4. /\ lot'[l].high = h /\ lot'[l].status = "settled" /\ \A k \in Lots \ {l} : lot'[k] = lot[k]
  BY <1>2 DEF OpRestates, Inv, Types, LotType, Settled
<1>5. lot[l].high \in Known BY DEF Inv, Types, LotType
<1>6. Pays(l, h) \in Int /\ Pays(l, lot[l].high) \in Int
  <2>1. \A k \in Known : Pays(l, k) \in Int BY PaysIsInt
  <2>2. h \in Known BY <1>2 DEF Known
  <2> QED BY <2>1, <2>2, <1>5
<1>7. /\ paid' \in [Lots -> Int] /\ paid'[l] = paid[l] + Pays(l, h) - Pays(l, lot[l].high)
      /\ \A k \in Lots \ {l} : paid'[k] = paid[k]
  BY <1>6 DEF OpRestates, Correction, Inv, Types
<1>8. audit' = [audit EXCEPT ![l] = [status |-> "MATCH", booked |-> h, final |-> h]] BY DEF OpRestates, Confirmed
<1>9. audit' \in [Lots -> AuditType] BY <1>2, <1>8, Rows DEF Inv, Types
<1>10. check' \in [Lots -> CheckType] BY <1>2, Rows DEF OpRestates, Inv, Types
<1>11. day' \in [Markets -> DayType] BY <1>2, Recordings DEF OpRestates, Inv
<1>12. Types' BY <1>1, <1>3, <1>7, <1>9, <1>10, <1>11 DEF OpRestates, Inv, Types, env, faults
<1> HIDE DEF h, m
<1>13. Stamped' BY <1>2, <1>4 DEF Inv, Stamped, Settled
<1>14. ASSUME NEW k \in Lots PROVE paid'[k] = IF Settled(k)' THEN Pays(k, lot'[k].high) ELSE 0
  <2>1. CASE k = l BY <2>1, <1>2, <1>4, <1>6, <1>7 DEF Inv, LedgerFollowsJournal, Settled
  <2>2. CASE k # l BY <2>2, <1>4, <1>7 DEF Inv, LedgerFollowsJournal, Settled
  <2> QED BY <2>1, <2>2
<1>15. LedgerFollowsJournal' BY <1>14 DEF LedgerFollowsJournal, Pays, Wins
<1>16. VerificationIsOfBooking'
  <2>1. ASSUME NEW k \in Lots, audit'[k].status # "NONE"
        PROVE  /\ Settled(k)' /\ audit'[k].booked = lot'[k].high
               /\ audit'[k].status = "MATCH" <=> audit'[k].final = lot'[k].high
    <3>1. CASE k = l BY <3>1, <1>4, <1>8 DEF Inv, Types, Settled
    <3>2. CASE k # l BY <3>2, <2>1, <1>4, <1>8 DEF Inv, Types, VerificationIsOfBooking, Settled
    <3> QED BY <3>1, <3>2
  <2> QED BY <2>1 DEF VerificationIsOfBooking
<1> QED BY <1>12, <1>13, <1>15, <1>16 DEF OpRestates, Inv, TickKnows

-----------------------------------------------------------------------------
LEMMA NextInv == ASSUME Inv, [Next]_vars PROVE Inv'
<1>1. CASE Outside
  BY <1>1, EnterStep, MonitorStep, CompleteStep, PublishStep, FinalizeStep DEF Outside
<1>2. CASE Tick
  BY <1>2, TickReadsStep, TickRecordsStep, TickSettlesStep, TickVerifiesStep, TickLoadsStep, TickRechecksStep,
     TickChecksStep, TickWritesStep DEF Tick
<1>3. CASE TickDies BY <1>3, TickDiesStep
<1>4. CASE Operator
  BY <1>4, OpLoadsStep, OpGivesUpStep, OpVerifiesStep, OpSettlesStep, OpRestatesStep, OpBackfillsStep,
     OpChecksStep, OpWritesStep DEF Operator
<1>5. CASE UNCHANGED vars
  <2>1. Types' BY <1>5 DEF vars, env, journal, faults, Inv, Types
  <2> QED BY <2>1, <1>5, Aside DEF vars, env, journal, faults, Inv, TickKnows
<1> QED BY <1>1, <1>2, <1>3, <1>4, <1>5 DEF Next

(* The invariant is inductive. *)
THEOREM Inductive == Spec => []Inv
  BY InitInv, NextInv, PTL DEF Spec

(* TypeOK for every value of the constants: the ledger pays a lot 0 or 1. *)
THEOREM TypeCorrect == Spec => []TypeOK
<1>1. Inv => TypeOK
  <2> SUFFICES ASSUME Inv PROVE TypeOK OBVIOUS
  <2>1. \A l \in Lots : lot[l].high \in Known BY DEF Inv, Types, LotType
  <2>2. paid \in [Lots -> {0, 1}] BY <2>1, PaysIsInt DEF Inv, Types, LedgerFollowsJournal
  <2> QED BY <2>2 DEF Inv, Types, TypeOK, LotType, DayType, AuditType, CheckType, TickType, OpType, RunType
<1> QED BY <1>1, Inductive, PTL

(* Whatever is settled, corrected and killed, the ledger has paid what the    *)
(* journal shows.                                                             *)
THEOREM LedgerCorrect == Spec => []LedgerFollowsJournal
<1>1. Inv => LedgerFollowsJournal BY DEF Inv
<1> QED BY <1>1, Inductive, PTL

(* A verification row always speaks of the current booking of its lot. *)
THEOREM VerificationCorrect == Spec => []VerificationIsOfBooking
<1>1. Inv => VerificationIsOfBooking BY DEF Inv
<1> QED BY <1>1, Inductive, PTL

-----------------------------------------------------------------------------
(* A settled lot of an active ledger is out of every step's reach: a second   *)
(* settlement takes filled lots only, a restatement archived ones.            *)
THEOREM SettledBooksCorrect == Spec => SettledBooksStand
<1>1. ASSUME Inv, [Next]_vars, NEW l \in Lots \ Archived, Settled(l)
      PROVE  lot'[l] = lot[l] /\ paid'[l] = paid[l]
  <2>1. lot[l].status = "settled" BY <1>1 DEF Settled
  <2>2. CASE Outside
    BY <1>1, <2>1, <2>2 DEF Outside, Enter, Monitor, Complete, Publish, Finalize, journal, Inv, Types, LotType
  <2>3. ASSUME NEW h, Settles(h) PROVE lot'[l] = lot[l] /\ paid'[l] = paid[l]
    BY <2>1, <2>3 DEF Settles, Filled
  <2>4. CASE Tick
    BY <2>3, <2>4 DEF Tick, TickReads, TickRecords, TickSettles, TickVerifies, TickLoads, TickRechecks,
                      TickChecks, TickWrites, Fetch, Write, journal
  <2>5. CASE TickDies BY <2>5 DEF TickDies, journal
  <2>6. ASSUME NEW k \in Lots, OpRestates(k) PROVE lot'[l] = lot[l] /\ paid'[l] = paid[l]
    <3>1. k # l BY <2>6 DEF OpRestates, MayRestate, Restatable
    <3> QED BY <2>6, <3>1 DEF OpRestates, Inv, Types
  <2>7. CASE Operator
    BY <2>3, <2>6, <2>7 DEF Operator, OpLoads, OpGivesUp, OpVerifies, OpSettles, OpBackfills, OpChecks, OpWrites,
                            Fetch, Write, journal
  <2>8. CASE UNCHANGED vars BY <2>8 DEF vars, journal
  <2> QED BY <1>1, <2>2, <2>4, <2>5, <2>7, <2>8 DEF Next
<1>2. Inv /\ [Next]_vars => [\A l \in Lots \ Archived : Settled(l) => lot'[l] = lot[l] /\ paid'[l] = paid[l]]_vars
  BY <1>1
<1> QED BY <1>2, Inductive, PTL DEF Spec, SettledBooksStand

-----------------------------------------------------------------------------
(* The verdicts of the exchange check: only the end of a run and a            *)
(* restatement write them.                                                    *)
LEMMA WriteKeepsDecided ==
  ASSUME NEW r, Write(r), NEW l \in Lots, Decided(check[l])
  PROVE  Decided(check'[l])
<1>1. check'[l] = IF guard[r].seen[l] # None /\ Replaces(Built(r, l), check[l]) THEN Built(r, l) ELSE check[l]
  BY DEF Write
<1>2. Replaces(Built(r, l), check[l]) => Decided(Built(r, l)) BY DEF Replaces
<1> QED BY <1>1, <1>2

LEMMA RestatementKeepsDecided ==
  ASSUME Inv, NEW k \in Lots, OpRestates(k), NEW l \in Lots, Decided(check[l])
  PROVE  Decided(check'[l]) \/ lot'[l].high # lot[l].high
<1>1. CASE l = k
  <2>1. lot[k].high # op.truth BY DEF OpRestates, MayRestate
  <2>2. lot'[k].high = op.truth BY DEF OpRestates, Inv, Types, LotType
  <2> QED BY <1>1, <2>1, <2>2
<1>2. CASE l # k
  <2>1. check'[l] = check[l] BY <1>2 DEF OpRestates, Inv, Types
  <2> QED BY <2>1
<1> QED BY <1>1, <1>2

(* A run that writes late never takes a decided verdict back: a result it did *)
(* not fetch, or fetched before the exchange finalized, loses to it.  A       *)
(* restatement does, and its lot then has another high to be judged by.       *)
THEOREM DecidedCorrect == Spec => DecidedStays
<1>1. ASSUME Inv, [Next]_vars, NEW l \in Lots, Decided(check[l])
      PROVE  Decided(check'[l]) \/ lot'[l].high # lot[l].high
  <2>1. CASE check' = check BY <1>1, <2>1
  <2>2. ASSUME NEW r, Write(r) PROVE Decided(check'[l])
    BY <1>1, <2>2, WriteKeepsDecided
  <2>3. CASE Outside
    BY <2>1, <2>3 DEF Outside, Enter, Monitor, Complete, Publish, Finalize
  <2>4. CASE Tick
    BY <2>1, <2>2, <2>4 DEF Tick, TickReads, TickRecords, TickSettles, TickVerifies, TickLoads, TickRechecks,
                            TickChecks, TickWrites, Fetch
  <2>5. CASE TickDies BY <2>1, <2>5 DEF TickDies
  <2>6. ASSUME NEW k \in Lots, OpRestates(k)
        PROVE  Decided(check'[l]) \/ lot'[l].high # lot[l].high
    BY <1>1, <2>6, RestatementKeepsDecided
  <2>7. CASE Operator
    BY <2>1, <2>2, <2>6, <2>7 DEF Operator, OpLoads, OpGivesUp, OpVerifies, OpSettles, OpBackfills, OpChecks,
                                  OpWrites, Fetch
  <2>8. CASE UNCHANGED vars BY <2>1, <2>8 DEF vars
  <2> QED BY <1>1, <2>3, <2>4, <2>5, <2>7, <2>8 DEF Next
<1>2. Inv /\ [Next]_vars =>
        [\A l \in Lots : Decided(check[l]) => Decided(check'[l]) \/ lot'[l].high # lot[l].high]_vars
  BY <1>1
<1> QED BY <1>2, Inductive, PTL DEF Spec, DecidedStays

-----------------------------------------------------------------------------
(* Without a manual paper-settle every high comes from one settlement: there  *)
(* is none before it, and nothing is left open after it.                      *)
Blank == \A l \in Lots : lot[l].high = None
OneSettlement ==
  /\ \A l \in Lots : lot[l].high # None => completed /\ lot[l].status \notin {"filled", "resting"}
  /\ Blank \/ (completed /\ OpenLots = {})
  /\ tick.step = "settle" => completed /\ Blank
  /\ OneHighPerDay

LEMMA SettlesOnce ==
  ASSUME Inv, Blank, completed, NEW h \in Highs, Settles(h)
  PROVE  /\ \A l \in Lots : lot'[l].status \notin {"filled", "resting"}
         /\ \A l \in Lots : lot'[l].high \in {None, h}
<1> DEFINE Next1(l) == CASE Filled(l) -> [status |-> "settled", high |-> h]
                         [] lot[l].status = "resting" -> [status |-> "expired", high |-> h]
                         [] OTHER -> lot[l]
<1>1. \A l \in Lots : lot'[l] = Next1(l) BY DEF Settles
<1>2. \A l \in Lots : \/ lot'[l] = [status |-> "settled", high |-> h]
                      \/ lot'[l] = [status |-> "expired", high |-> h]
                      \/ lot[l].status \notin {"filled", "resting"} /\ lot'[l] = lot[l]
  BY <1>1 DEF Filled
<1> QED BY <1>2 DEF Blank

LEMMA OneSettlementStep ==
  ASSUME Inv, OneSettlement, ManualHighs = {}, [Next]_vars
  PROVE  OneSettlement'
<1> USE DEF OneSettlement, OneHighPerDay, Blank, OpenLots
<1>1. ASSUME UNCHANGED lot, completed => completed', tick'.step # "settle" \/ UNCHANGED tick
      PROVE  OneSettlement'
  BY <1>1
<1>2. ASSUME NEW l \in Lots, Enter(l) PROVE OneSettlement'
  <2>1. ~completed /\ lot'[l].high = lot[l].high /\ \A k \in Lots \ {l} : lot'[k] = lot[k]
    BY <1>2 DEF Enter, Inv, Types, LotType
  <2>2. Blank /\ tick.step # "settle" BY <2>1
  <2>3. Blank' BY <2>1, <2>2
  <2> QED BY <2>2, <2>3, <1>2 DEF Enter
<1>3. ASSUME NEW l \in Lots, Monitor(l) PROVE OneSettlement'
  <2>1. /\ lot[l].status \in {"resting", "filled"} /\ lot'[l].high = lot[l].high
        /\ \A k \in Lots \ {l} : lot'[k] = lot[k]
    BY <1>3 DEF Monitor, Inv, Types, LotType
  <2>2. Blank BY <2>1
  <2>3. Blank' BY <2>1, <2>2
  <2>4. UNCHANGED <<completed, tick>> BY <1>3 DEF Monitor, env
  <2> QED BY <2>2, <2>3, <2>4
<1>4. CASE Outside
  BY <1>1, <1>2, <1>3, <1>4 DEF Outside, Complete, Publish, Finalize, journal
<1>5. CASE TickReads
  <2>1. UNCHANGED <<lot, completed>> BY <1>5 DEF TickReads, env, journal
  <2>2. tick'.step = Work BY <1>5 DEF TickReads
  <2>3. tick'.step = "settle" => completed /\ OpenLots # {} BY <2>2 DEF Work
  <2>4. tick'.step = "settle" => completed /\ Blank BY <2>3
  <2> QED BY <2>1, <2>4
<1>6. CASE TickSettles
  <2>1. completed /\ Blank /\ tick.truth \in Highs BY <1>6 DEF TickSettles, Inv, TickKnows, Types, TickType
  <2>2. completed' BY <2>1, <1>6 DEF TickSettles, env
  <2>3. /\ \A l \in Lots : lot'[l].status \notin {"filled", "resting"}
        /\ \A l \in Lots : lot'[l].high \in {None, tick.truth}
    BY <2>1, <1>6, SettlesOnce DEF TickSettles
  <2>4. tick'.step \in {"verify", "load"} BY <1>6, GoesTypes DEF TickSettles, Inv
  <2> QED BY <2>2, <2>3, <2>4
<1>7. ASSUME Inv, TickRecords \/ TickVerifies \/ TickLoads \/ TickRechecks \/ TickDies
      PROVE  OneSettlement'
  <2>1. UNCHANGED <<lot, completed>>
    BY <1>7 DEF TickRecords, TickVerifies, TickLoads, TickRechecks, TickDies, env, journal
  <2>2. tick'.step # "settle"
    BY <1>7, GoesTypes DEF TickRecords, TickVerifies, TickLoads, TickRechecks, TickDies, Inv
  <2> QED BY <2>1, <2>2, <1>1
<1>8. ASSUME NEW reached, TickChecks(reached) \/ OpChecks(reached) PROVE OneSettlement'
  <2>1. UNCHANGED <<lot, completed>> BY <1>8 DEF TickChecks, OpChecks, Fetch, env, journal
  <2>2. tick'.step # "settle" \/ UNCHANGED tick BY <1>8, GoesTypes DEF TickChecks, OpChecks, Inv
  <2> QED BY <2>1, <2>2, <1>1
<1>9. ASSUME TickWrites \/ OpWrites PROVE OneSettlement'
  <2>1. UNCHANGED <<lot, completed>> BY <1>9 DEF TickWrites, OpWrites, Write, env, journal
  <2>2. tick'.step # "settle" \/ UNCHANGED tick BY <1>9, GoesTypes DEF TickWrites, OpWrites, Inv
  <2> QED BY <2>1, <2>2, <1>1
<1>10. ASSUME NEW l \in Lots, OpRestates(l) PROVE OneSettlement'
  <2>1. /\ lot[l].status = "settled" /\ lot'[l].status = "settled" /\ lot'[l].high = op.truth
        /\ \A k \in Lots \ {l} : lot'[k] = lot[k] /\ lot[k].high \in {None, op.truth}
    BY <1>10 DEF OpRestates, MayRestate, Restatable, Settled, Alone, Inv, Types, LotType
  <2>2. UNCHANGED <<completed, tick>> BY <1>10 DEF OpRestates, env
  <2>3. lot[l].high # None BY <2>1 DEF Inv, Stamped, Settled
  <2>4. completed /\ OpenLots = {} /\ tick.step # "settle" BY <2>3
  <2>5. OpenLots' = {} BY <2>1, <2>4
  <2> QED BY <2>1, <2>2, <2>4, <2>5
<1>11. CASE Operator
  BY <1>1, <1>8, <1>9, <1>10, <1>11
     DEF Operator, OpLoads, OpGivesUp, OpVerifies, OpBackfills, env, journal
<1>12. CASE UNCHANGED vars BY <1>1, <1>12 DEF vars, env, journal
<1>13. CASE Tick BY <1>5, <1>6, <1>7, <1>8, <1>9, <1>13 DEF Tick
<1>14. CASE TickDies BY <1>7, <1>14
<1> QED BY <1>4, <1>11, <1>12, <1>13, <1>14 DEF Next

(* One city-day is booked at one high, for any finals, kills and caught       *)
(* errors, as long as paper-settle is left to the timer.                      *)
THEOREM OneHighCorrect == ASSUME ManualHighs = {} PROVE Spec => []OneHighPerDay
<1>1. Init => OneSettlement BY DEF Init, OneSettlement, OneHighPerDay, Blank, OpenLots
<1>2. Inv /\ OneSettlement /\ [Next]_vars => OneSettlement' BY OneSettlementStep
<1>3. OneSettlement => OneHighPerDay BY DEF OneSettlement
<1> QED BY <1>1, <1>2, <1>3, Inductive, PTL DEF Spec

-----------------------------------------------------------------------------
(* Without a caught recording error the settlement records every traded       *)
(* market with its lots, so no record-only pass comes after it.               *)
DayAgrees ==
  \A l \in Lots : Settled(l) /\ day[MarketOf[l]].rank = SettlementPath => day[MarketOf[l]].high = lot[l].high

RecordedWithSettlement ==
  /\ tick.step = "record" => \A l \in Lots : ~Settled(l)
  /\ \A l \in Lots, m \in Markets : Settled(l) /\ Traded(m) => day[m].rank # 0
  /\ DayAgrees

(* What a recording leaves: rank 4 and the high on every traded market named. *)
LEMMA RecordedMarkets ==
  ASSUME Inv, NEW ms \in SUBSET Markets, NEW h \in Highs, NEW m \in Markets
  PROVE  /\ m \in ms /\ Traded(m) => Recorded(ms, h)[m].rank = SettlementPath /\ Recorded(ms, h)[m].high = h
         /\ m \notin ms \/ ~Traded(m) => Recorded(ms, h)[m] = day[m]
<1>1. day[m].rank \in 0..4 BY DEF Inv, Types, DayType
<1>2. Outcome(m, h, SettlementPath) = [high |-> h, yes |-> h \in Yes[m], rank |-> 4] BY DEF Outcome, SettlementPath
<1>3. h # None OBVIOUS
<1>4. Upsert(day[m], Outcome(m, h, SettlementPath)) = Outcome(m, h, SettlementPath)
  BY <1>1, <1>2, <1>3 DEF Upsert
<1> QED BY <1>2, <1>4 DEF Recorded, SettlementPath

LEMMA SettlesRecords ==
  ASSUME Inv, failures' = 0, Blank, completed, NEW h \in Highs, Settles(h)
  PROVE  /\ \A l \in Lots, m \in Markets : Settled(l)' /\ Traded(m)' => day'[m].rank # 0
         /\ DayAgrees'
<1> DEFINE Next1(l) == CASE Filled(l) -> [status |-> "settled", high |-> h]
                         [] lot[l].status = "resting" -> [status |-> "expired", high |-> h]
                         [] OTHER -> lot[l]
<1>1. \A l \in Lots : lot'[l] = Next1(l) BY DEF Settles
<1>2. \A l \in Lots : \/ lot[l].status = "filled" /\ lot'[l] = [status |-> "settled", high |-> h]
                      \/ lot'[l] = [status |-> "expired", high |-> h]
                      \/ lot'[l] = lot[l]
  BY <1>1 DEF Filled
<1> HIDE DEF Next1
<1>3. \A m \in Markets : Traded(m)' => Traded(m) BY <1>2 DEF Traded
<1>4. \A l \in Lots : ~Settled(l) BY DEF Blank, Inv, Stamped
<1>5. \A l \in Lots : Settled(l)' => lot'[l].high = h /\ Traded(MarketOf[l]) BY <1>2, <1>4 DEF Settled, Traded
<1>6. day' = Recorded(Markets, h) BY DEF Settles, RecordsDay, Inv, Types
<1>7. \A m \in Markets : Traded(m) => day'[m].rank = SettlementPath /\ day'[m].high = h
  BY <1>6, RecordedMarkets
<1>8. MarketOf \in [Lots -> Markets] OBVIOUS
<1> QED BY <1>3, <1>5, <1>7, <1>8 DEF DayAgrees, SettlementPath

LEMMA RecordedStep ==
  ASSUME Inv, OneSettlement, OneSettlement', RecordedWithSettlement, ManualHighs = {}, failures' = 0, [Next]_vars
  PROVE  RecordedWithSettlement'
<1> USE DEF RecordedWithSettlement
<1>1. ASSUME UNCHANGED <<lot, day>>, tick'.step # "record" \/ UNCHANGED tick
      PROVE  RecordedWithSettlement'
  BY <1>1 DEF Settled, Traded, DayAgrees
<1>2. ASSUME NEW l \in Lots, Enter(l) \/ Monitor(l) PROVE RecordedWithSettlement'
  <2>1. \A k \in Lots : lot'[k].high = None
    <3>1. lot[l].status \notin {"filled", "resting"} => ~completed BY <1>2 DEF Enter, Monitor
    <3>2. Blank BY <3>1 DEF OneSettlement, OpenLots
    <3> QED BY <3>2, <1>2 DEF Blank, Enter, Monitor, Inv, Types, LotType
  <2>2. \A k \in Lots : lot[k].status # "settled" => lot'[k].status # "settled"
    BY <1>2 DEF Enter, Monitor, Inv, Types, LotType
  <2>3. \A k \in Lots : lot[k].status = "settled" => lot[k].high # None BY DEF Inv, Stamped, Settled
  <2>4. \A k \in Lots : lot'[k].high = lot[k].high
    <3>1. \A k \in Lots \ {l} : lot'[k] = lot[k] BY <1>2 DEF Enter, Monitor, Inv, Types
    <3>2. lot'[l].high = lot[l].high BY <1>2 DEF Enter, Monitor, Inv, Types, LotType
    <3> QED BY <3>1, <3>2
  <2>5. \A k \in Lots : ~Settled(k)' BY <2>1, <2>2, <2>3, <2>4 DEF Settled
  <2> QED BY <2>5 DEF DayAgrees, Settled
<1>3. CASE Outside
  BY <1>1, <1>2, <1>3 DEF Outside, Complete, Publish, Finalize, journal
<1>4. CASE TickReads
  <2>1. UNCHANGED <<lot, day>> /\ tick'.step = Work BY <1>4 DEF TickReads, journal
  <2>2. ASSUME Work = "record", NEW l \in Lots, Settled(l) PROVE FALSE
    <3>1. Unrecorded BY <2>2 DEF Work
    <3> QED BY <3>1, <2>2 DEF Unrecorded
  <2> QED BY <2>1, <2>2 DEF Settled, Traded, DayAgrees
<1>5. CASE TickRecords
  <2>1. \A l \in Lots : ~Settled(l) /\ lot' = lot BY <1>5 DEF TickRecords
  <2>2. tick'.step = "load" BY <1>5, GoesTypes DEF TickRecords, Inv
  <2> QED BY <2>1, <2>2 DEF Settled, DayAgrees
<1>6. CASE TickSettles
  <2>1. completed /\ Blank /\ tick.truth \in Highs /\ Settles(tick.truth)
    BY <1>6 DEF TickSettles, OneSettlement, Inv, TickKnows, Types, TickType
  <2>2. tick'.step \in {"verify", "load"} BY <1>6, GoesTypes DEF TickSettles, Inv
  <2> QED BY <2>1, <2>2, SettlesRecords
<1>7. ASSUME TickVerifies \/ TickLoads \/ TickRechecks \/ TickDies PROVE RecordedWithSettlement'
  <2>1. UNCHANGED <<lot, day>> BY <1>7 DEF TickVerifies, TickLoads, TickRechecks, TickDies, journal
  <2>2. tick'.step # "record" BY <1>7, GoesTypes DEF TickVerifies, TickLoads, TickRechecks, TickDies, Inv
  <2> QED BY <2>1, <2>2, <1>1
<1>8. ASSUME NEW reached, TickChecks(reached) \/ OpChecks(reached) PROVE RecordedWithSettlement'
  <2>1. UNCHANGED <<lot, day>> BY <1>8 DEF TickChecks, OpChecks, Fetch, journal
  <2>2. tick'.step # "record" \/ UNCHANGED tick BY <1>8, GoesTypes DEF TickChecks, OpChecks, Inv
  <2> QED BY <2>1, <2>2, <1>1
<1>9. ASSUME TickWrites \/ OpWrites PROVE RecordedWithSettlement'
  <2>1. UNCHANGED <<lot, day>> BY <1>9 DEF TickWrites, OpWrites, Write, journal
  <2>2. tick'.step # "record" \/ UNCHANGED tick BY <1>9, GoesTypes DEF TickWrites, OpWrites, Inv
  <2> QED BY <2>1, <2>2, <1>1
<1>10. ASSUME NEW l \in Lots, OpRestates(l) PROVE RecordedWithSettlement'
  <2> DEFINE h == op.truth
             m == MarketOf[l]
  <2>1. /\ h \in Highs /\ m \in Markets /\ Settled(l) /\ UNCHANGED tick
        /\ \A k \in Lots \ {l} : lot[k].high \in {None, h}
        /\ day' = Recorded({m}, h)
    BY <1>10 DEF OpRestates, MayRestate, Restatable, Alone, Inv, Types, OpType
  <2>2. /\ lot'[l].status = "settled" /\ lot'[l].high = h
        /\ \A k \in Lots \ {l} : lot'[k] = lot[k]
    BY <2>1, <1>10 DEF OpRestates, Settled, Inv, Types, LotType
  <2> HIDE DEF h, m
  <2>3. \A k \in Lots : Settled(k)' <=> Settled(k) BY <2>1, <2>2 DEF Settled
  <2>4. \A n \in Markets : Traded(n)' <=> Traded(n) BY <2>1, <2>2 DEF Traded, Settled
  <2>5. \A k \in Lots : Settled(k) => lot'[k].high = h BY <2>1, <2>2 DEF Inv, Stamped
  <2>6. Traded(m) BY <2>1 DEF Traded, Settled, m
  <2>7. \A n \in Markets : IF n = m THEN day'[n].rank = SettlementPath /\ day'[n].high = h ELSE day'[n] = day[n]
    BY <2>1, <2>6, RecordedMarkets
  <2>8. \A k \in Lots, n \in Markets : Settled(k)' /\ Traded(n)' => day'[n].rank # 0
    BY <2>3, <2>4, <2>7 DEF SettlementPath
  <2>9. ASSUME NEW k \in Lots, Settled(k)', day'[MarketOf[k]].rank = SettlementPath
        PROVE  day'[MarketOf[k]].high = lot'[k].high
    <3>1. CASE MarketOf[k] = m BY <3>1, <2>3, <2>5, <2>7, <2>9
    <3>2. CASE MarketOf[k] # m
      <4>1. day'[MarketOf[k]] = day[MarketOf[k]] /\ k # l BY <3>2, <2>7 DEF m
      <4> QED BY <4>1, <2>2, <2>3, <2>9 DEF DayAgrees
    <3> QED BY <3>1, <3>2
  <2> QED BY <2>1, <2>3, <2>8, <2>9 DEF DayAgrees
<1>11. ASSUME NEW shown \in SUBSET Markets, OpBackfills(shown) PROVE RecordedWithSettlement'
  <2>1. UNCHANGED <<lot, tick>> BY <1>11 DEF OpBackfills
  <2>2. PICK sibling \in Siblings : day' = [m \in Markets |->
          LET new == Source(m, sibling, op.truth, shown) IN
          IF Traded(m) /\ new.rank > day[m].rank THEN Upsert(day[m], new) ELSE day[m]]
    BY <1>11 DEF OpBackfills
  <2>3. ASSUME NEW m \in Markets PROVE day'[m] = day[m] \/ (day'[m].rank \in 1..3)
    <3> DEFINE new == Source(m, sibling, op.truth, shown)
    <3>1. new.rank \in 0..3
      BY DEF Source, Outcome, NoDay, SettledSibling, CliSettlement, Dataset
    <3>2. day[m].rank \in 0..4 BY DEF Inv, Types, DayType
    <3>3. day'[m] = IF Traded(m) /\ new.rank > day[m].rank THEN Upsert(day[m], new) ELSE day[m] BY <2>2
    <3>4. new.rank > day[m].rank => Upsert(day[m], new).rank = new.rank
      BY <3>1, <3>2 DEF Upsert, Source, Outcome, NoDay
    <3> HIDE DEF new
    <3> QED BY <3>1, <3>2, <3>3, <3>4
  <2>4. \A m \in Markets : day'[m].rank = 0 => day[m].rank = 0 BY <2>3
  <2>5. \A m \in Markets : day'[m].rank = SettlementPath => day'[m] = day[m] BY <2>3 DEF SettlementPath
  <2>6. MarketOf \in [Lots -> Markets] OBVIOUS
  <2> QED BY <2>1, <2>4, <2>5, <2>6 DEF Settled, Traded, DayAgrees
<1>12. CASE Operator
  BY <1>1, <1>8, <1>9, <1>10, <1>11, <1>12 DEF Operator, OpLoads, OpGivesUp, OpVerifies, journal
<1>13. CASE UNCHANGED vars BY <1>1, <1>13 DEF vars, journal
<1>14. CASE Tick BY <1>4, <1>5, <1>6, <1>7, <1>8, <1>9, <1>14 DEF Tick
<1>15. CASE TickDies BY <1>7, <1>15
<1> QED BY <1>3, <1>12, <1>13, <1>14, <1>15 DEF Next

(* Caught errors are only counted up.                                         *)
LEMMA FailuresGrow == ASSUME Inv, failures' = 0, [Next]_vars PROVE failures = 0
<1>1. failures \in Nat BY ConstantsAssumption DEF Inv, Types, ConstantsAssumption
<1>2. failures' = failures \/ failures' = failures + 1
  BY DEF Next, vars, faults, env, journal, Outside, Enter, Monitor, Complete, Publish, Finalize, Tick, TickReads,
         TickRecords, TickSettles, TickVerifies, TickLoads, TickRechecks, TickChecks, TickWrites, TickDies,
         Operator, OpSettles, OpLoads, OpGivesUp, OpVerifies, OpRestates, OpBackfills, OpChecks, OpWrites,
         Settles, RecordsDay, Fetch, Write
<1> QED BY <1>1, <1>2

(* A market-day the settlement path recorded holds what the ledger booked     *)
(* against, as long as no recording error was caught and paper-settle is left *)
(* to the timer.                                                              *)
THEOREM DayCorrect == ASSUME ManualHighs = {} PROVE Spec => []DayFollowsJournal
<1>1. Init => OneSettlement BY DEF Init, OneSettlement, OneHighPerDay, Blank, OpenLots
<1>2. Init => RecordedWithSettlement BY DEF Init, RecordedWithSettlement, DayAgrees, Settled
<1>3. Inv /\ OneSettlement /\ [Next]_vars => OneSettlement' BY OneSettlementStep
<1>4. Inv /\ OneSettlement /\ OneSettlement' /\ (failures = 0 => RecordedWithSettlement) /\ [Next]_vars
        => (failures = 0 => RecordedWithSettlement)'
  BY RecordedStep, FailuresGrow
<1>5. (failures = 0 => RecordedWithSettlement) => DayFollowsJournal
  BY DEF RecordedWithSettlement, DayFollowsJournal, DayAgrees
<1> QED BY <1>1, <1>2, <1>3, <1>4, <1>5, Inductive, PTL DEF Spec
=============================================================================
