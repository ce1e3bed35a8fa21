------------------------------ MODULE Schedule ------------------------------
(***************************************************************************)
(* The update schedules of config/profile/schedule.rs, shared by           *)
(* subscriptions and rule-sets.  Local time is a number of minutes since   *)
(* the midnight that starts day 0; a date is a number of days.             *)
(***************************************************************************)
EXTENDS Integers

\* The minutes of a day.
DayMinutes == 1440

\* What is kept by id or by key: the entries of new over those of old.
Put(old, new) ==
    [k \in DOMAIN old \cup DOMAIN new |-> IF k \in DOMAIN new THEN new[k] ELSE old[k]]

\* No date and no time; no retry state.
Unset == -1
NoRetry == [failures |-> 0, at |-> Unset, date |-> Unset]

Date(now) == now \div DayMinutes
Hour(now) == (now % DayMinutes) \div 60

\* UPDATE_WINDOW_HOUR and MAX_CONSECUTIVE_FAILURES.
WindowHour == 8
MaxConsecutiveFailures == 5

AutoUpdate == {"Off", "Every1h", "Every12h", "Every1d", "Every3d", "Every7d"}

IntervalMinutes(schedule) ==
    CASE schedule = "Off" -> 0
      [] schedule \in {"Every1h", "Every12h", "Every1d"} -> DayMinutes
      [] schedule = "Every3d" -> 3 * DayMinutes
      [] schedule = "Every7d" -> 7 * DayMinutes

IntervalDays(schedule) == IntervalMinutes(schedule) \div DayMinutes

\* The order in which the key cycles the intervals.
NextSchedule(schedule) ==
    CASE schedule \in {"Off", "Every1h", "Every12h"} -> "Every1d"
      [] schedule = "Every1d" -> "Every3d"
      [] schedule = "Every3d" -> "Every7d"
      [] schedule = "Every7d" -> "Off"

WindowOpen(now) == Hour(now) >= WindowHour

NextWindowDate(now) == IF WindowOpen(now) THEN Date(now) + 1 ELSE Date(now)

MinutesUntilNextWindow(now) ==
    (NextWindowDate(now) - Date(now)) * DayMinutes - (now % DayMinutes) + WindowHour * 60

RetryDelay(failures, now) ==
    IF failures <= 4 THEN <<1, 5, 15, 60>>[failures] ELSE MinutesUntilNextWindow(now)

\* The retry state after one more failure: the count goes on only on the
\* date of the failures already counted.
AfterFailure(previous, now) ==
    LET failures == IF previous /= NoRetry /\ previous.date = Date(now)
                    THEN previous.failures + 1 ELSE 1
    IN  [failures |-> failures, at |-> now + RetryDelay(failures, now), date |-> Date(now)]

\* A retry state written without a date governs on every date.
Governs(retry, now) == retry /= NoRetry /\ retry.date \in {Unset, Date(now)}

RetryDue(retry, now) == retry.failures < MaxConsecutiveFailures /\ now >= retry.at

\* Whether an automatic update is due: the retry state decides while it
\* governs; otherwise the window must be open and either the next date
\* reached or, without one, the last success an interval ago.
AutomaticDue(schedule, retry, next, last, now) ==
    IF Governs(retry, now)
    THEN RetryDue(retry, now)
    ELSE /\ WindowOpen(now)
         /\ IF next = Unset
            THEN last = Unset \/ now - last >= IntervalMinutes(schedule)
            ELSE Date(now) >= next
=============================================================================
