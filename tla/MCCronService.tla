---------------------------- MODULE MCCronService ----------------------------
(* CronService for TLC: a one-time reminder, a one-time job that is kept, and *)
(* recurring ones.                                                            *)
EXTENDS CronService

At(t, delete) == [kind |-> "at", ms |-> t, delete |-> delete]
Every(p) == [kind |-> "every", ms |-> p, delete |-> FALSE]
Daily == [kind |-> "cron", ms |-> 2, delete |-> FALSE]

MCSchedules == {At(1, TRUE), At(2, FALSE), Every(1)}
MCReminders == {At(1, TRUE), Daily}

\* The multiples of the period stand for the matches of the expression.
MCCronNext(p, t) == IF p = 0 THEN 0 ELSE ((t \div p) + 1) * p
=============================================================================
