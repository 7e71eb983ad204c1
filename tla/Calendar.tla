------------------------------ MODULE Calendar ------------------------------
(***************************************************************************)
(* seconds_to_rtcdate() of kernel/sysutil.c, checked month by month against *)
(* the rules of the Gregorian calendar. A time is the number of days since *)
(* 1970-01-01 and the seconds of the day, which the code gets by division. *)
(***************************************************************************)
EXTENDS Integers

CONSTANT LastYear  \* the calendar is followed to the end of this year

VARIABLES year, month,  \* a month, from January 1970
          first         \* days from 1970-01-01 to its first day

vars == <<year, month, first>>

\* Mutant of Civil: the leap day that ends an era is forgotten.
CivilLate(days) ==
    LET z == days + 719468
        era == z \div 146097
        doe == z - era * 146097
        yoe == (doe - doe \div 1460 + doe \div 36524) \div 365
        doy == doe - (365 * yoe + yoe \div 4 - yoe \div 100)
        mp == (5 * doy + 2) \div 153
        m == IF mp < 10 THEN mp + 3 ELSE mp - 9
    IN <<yoe + era * 400 + (IF m <= 2 THEN 1 ELSE 0), m, doy - (153 * mp + 2) \div 5 + 1>>

\* Year, month and day; days is not negative, so neither is z.
Civil(days) ==
    LET z == days + 719468
        era == z \div 146097
        doe == z - era * 146097
        yoe == (doe - doe \div 1460 + doe \div 36524 - doe \div 146096) \div 365
        doy == doe - (365 * yoe + yoe \div 4 - yoe \div 100)
        mp == (5 * doy + 2) \div 153
        m == IF mp < 10 THEN mp + 3 ELSE mp - 9
    IN <<yoe + era * 400 + (IF m <= 2 THEN 1 ELSE 0), m, doy - (153 * mp + 2) \div 5 + 1>>

-----------------------------------------------------------------------------
(* The reference.                                                          *)

Leap(y) == y % 4 = 0 /\ (y % 100 # 0 \/ y % 400 = 0)
Length(y, m) == IF m = 2 THEN (IF Leap(y) THEN 29 ELSE 28)
                ELSE IF m \in {4, 6, 9, 11} THEN 30 ELSE 31

Init == year = 1970 /\ month = 1 /\ first = 0

NextMonth ==
    /\ year <= LastYear
    /\ month' = (month % 12) + 1
    /\ year' = IF month = 12 THEN year + 1 ELSE year
    /\ first' = first + Length(year, month)

Next == NextMonth

\* Every day has the date that counting the days of the months gives it, in
\* particular around the ends of February in leap and century years.
DateIsRight ==
    \A d \in 1 .. Length(year, month) : Civil(first + d - 1) = <<year, month, d>>

=============================================================================
