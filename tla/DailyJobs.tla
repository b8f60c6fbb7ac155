------------------------------- MODULE DailyJobs -------------------------------
(***************************************************************************)
(* The two daily jobs of scheduler.py on the clock of RiskManager: the     *)
(* reset of the loss counter, and the report of report/daily_report.py     *)
(* over the rows of the trades table.  The report is followed through one  *)
(* trade, any one: in how many reports is it counted?                      *)
(*                                                                         *)
(* A cron trigger made without a time zone takes the host's, not the one   *)
(* of the scheduler, so both hours are parameters.  A job whose hour finds *)
(* the process down or the loop late by a second is skipped, and a report  *)
(* that fails is only logged.                                              *)
(***************************************************************************)
EXTENDS RiskManager

CONSTANTS
  KstOffset,   \* 9: KST is ahead of UTC
  ReportHour   \* when the daily_report job fires, in hours of UTC

ASSUME DailyJobsAssumption ==
  /\ KstOffset \in 1 .. HoursPerDay - 1
  /\ ReportHour \in 0 .. HoursPerDay - 1

VARIABLES
  traded,   \* the hour the trade was executed at, Never before
  reports,  \* the number of reports that counted it
  missed    \* history: a report was skipped or failed since then

tradeVars == <<traded, reports, missed>>

Never == -1

KstDay(h) == (h + KstOffset) \div HoursPerDay

\* target_utc: midnight of yesterday in KST, moved to UTC.
TargetUtc(h) == (KstDay(h) - 1) * HoursPerDay - KstOffset

\* Mutant: the end of the window is a day after target_utc, but still included.
CountsTwoDays(h) == Date(traded) \in {Date(TargetUtc(h)), Date(TargetUtc(h)) + 1}

\* Mutant: only the end of the window is moved to the end of the UTC day.
CountsFromTarget(h) == Date(traded) = Date(TargetUtc(h)) /\ traded >= TargetUtc(h)

\* get_daily_pnl cuts target_utc to its UTC day again.
Counts(h) == Date(traded) = Date(TargetUtc(h))

JobsInit ==
  /\ Init
  /\ traded = Never /\ reports = 0 /\ missed = FALSE

\* The trade is committed.
TradeCommitted ==
  /\ traded = Never
  /\ traded' = hour
  /\ UNCHANGED <<vars, reports, missed>>

\* DailyReportGenerator.generate at hour h.
Generate(h) ==
  /\ reports' = IF traded # Never /\ Counts(h) THEN reports + 1 ELSE reports
  /\ UNCHANGED <<traded, missed>>

\* The job is skipped, or the query or the message fails.
ReportMissed ==
  /\ missed' = (traded # Never)
  /\ UNCHANGED <<traded, reports>>

HourPasses ==
  /\ Tick \/ ResetDailyLoss
  /\ IF hour' % HoursPerDay = ReportHour THEN Generate(hour') \/ ReportMissed
                                         ELSE UNCHANGED tradeVars

Trading ==
  /\ \/ \E side \in {"buy", "sell"}, qty \in Quantities, price \in Prices,
           pos \in Positions, krw \in Balances : Check(side, qty, price, pos, krw)
     \/ \E amount \in Losses : RecordLoss(amount)
  /\ UNCHANGED tradeVars

JobsNext == HourPasses \/ Trading \/ TradeCommitted

JobsSpec == JobsInit /\ [][JobsNext]_<<vars, tradeVars>>

-------------------------------------------------------------------------------

\* RiskManager's variables keep their types under the jobs; the trade has an
\* hour, once it is executed.
JobsTypeOK ==
  /\ TypeOK
  /\ traded \in Nat \cup {Never} /\ reports \in Nat /\ missed \in BOOLEAN

\* No trade is in two reports, whatever the hour of the job, the day boundaries
\* of the two time zones between the trade and the report, and the reports that
\* were skipped (daily_report.py:37-47, trade_repo.py:31-32).
CountedOnce == reports <= 1

\* With no report skipped, three days after a trade it is in a report: the
\* windows leave no gap between two days.  It takes that long because the
\* window of a report is not yesterday but the UTC day that the midnight of
\* yesterday in KST falls on.
NoneForgotten ==
  traded # Never /\ ~missed /\ hour >= traded + 3 * HoursPerDay => reports = 1
===============================================================================
