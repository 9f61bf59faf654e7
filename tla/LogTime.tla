------------------------------- MODULE LogTime --------------------------------
(***************************************************************************)
(* unix_to_utc of server/access_log.rs: the date and the time of a log     *)
(* line, from the seconds since 1970.  Days and the seconds within a day   *)
(* are kept apart, as the code does from its first lines on.               *)
(***************************************************************************)
EXTENDS Integers

\* Mutant of YearOfEra: the last day of an era counts for the next year.
YearOfEraShort(doe) == (doe - doe \div 1460 + doe \div 36524) \div 365

\* Years begin in March, and 400 of them make an era of 146097 days.
YearOfEra(doe) ==
    (doe - doe \div 1460 + doe \div 36524 - doe \div 146096) \div 365

EraDays == 146097

\* The date of a day, counted from 1970-01-01.
DateOf(days) ==
    LET z == days + 719468
        era == z \div EraDays
        doe == z - era * EraDays
        yoe == YearOfEra(doe)
        doy == doe - (365 * yoe + yoe \div 4 - yoe \div 100)
        mp == (5 * doy + 2) \div 153
        month == IF mp < 10 THEN mp + 3 ELSE mp - 9
    IN [year |-> yoe + era * 400 + (IF month <= 2 THEN 1 ELSE 0),
        month |-> month,
        day |-> doy - (153 * mp + 2) \div 5 + 1]

-----------------------------------------------------------------------------
(* Properties: the Gregorian calendar, by its rules.                        *)

Divides(n, y) == y % n = 0
Leap(y) == Divides(4, y) /\ (Divides(100, y) => Divides(400, y))

MonthLength(y, m) ==
    CASE m = 2 -> (IF Leap(y) THEN 29 ELSE 28)
      [] m \in {4, 6, 9, 11} -> 30
      [] OTHER -> 31

Date(y, m, d) == [year |-> y, month |-> m, day |-> d]

NextDate(d) ==
    IF d.day < MonthLength(d.year, d.month) THEN Date(d.year, d.month, d.day + 1)
    ELSE IF d.month < 12 THEN Date(d.year, d.month + 1, 1)
    ELSE Date(d.year + 1, 1, 1)

\* The first day is 1970-01-01, and each of the days has the date after that
\* of the day before.
FollowsCalendar(days) ==
    /\ DateOf(0) = Date(1970, 1, 1)
    /\ \A d \in days : DateOf(d + 1) = NextDate(DateOf(d))

\* 400 years of days, after which the calendar repeats.
Calendar == FollowsCalendar(0..(EraDays - 1))

=============================================================================
