---------------------------- MODULE MCScheduler ----------------------------
(* Finite instances of Scheduler for TLC: a scan for every hour, and one    *)
(* for half an hour.                                                        *)
EXTENDS Scheduler, TLC

CONSTANTS hourly, halfHourly

IntervalByName ==
    [s \in Scans |-> CASE s = hourly -> Hour
                      [] s = halfHourly -> Hour \div 2]
=============================================================================
