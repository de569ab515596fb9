----------------------------- MODULE CivilDate ------------------------------
(***************************************************************************)
(* The date in an object key (src/src/oss.rs): ymd_from_unix computes it   *)
(* from the number of days since 1970-01-01, by Hinnant's civil-from-days. *)
(* Beside that number runs a calendar that turns its pages by the rules of *)
(* the Gregorian calendar, to compare it with.                             *)
(***************************************************************************)
EXTENDS Integers

VARIABLES
    day,   \* days since 1970-01-01
    date   \* history: the date on the calendar, <<year, month, day>>

\* Seeded defect: the years of an era are not corrected for its last day.
YoeUncorrected(doe) == (doe - doe \div 1460 + doe \div 36524) \div 365

\* Eras of 400 years begin on 1 March; the day of an era, the year of an era.
Era(z) == z \div 146097
Doe(z) == z - Era(z) * 146097
Yoe(doe) == (doe - doe \div 1460 + doe \div 36524 - doe \div 146096) \div 365
YearStart(yoe) == 365 * yoe + yoe \div 4 - yoe \div 100

\* The days are counted from 0000-03-01; u64 / 86400 is not negative.
Ymd(days) ==
    LET z   == days + 719468
        doe == Doe(z)
        yoe == Yoe(doe)
        doy == doe - YearStart(yoe)
        mp  == (5 * doy + 2) \div 153
        m   == IF mp < 10 THEN mp + 3 ELSE mp - 9
        y   == yoe + Era(z) * 400
    IN  << IF m <= 2 THEN y + 1 ELSE y,
           m,
           doy - (153 * mp + 2) \div 5 + 1 >>

-----------------------------------------------------------------------------
IsLeap(y) == y % 4 = 0 /\ (y % 100 # 0 \/ y % 400 = 0)

DaysIn(m, y) == CASE m = 2              -> IF IsLeap(y) THEN 29 ELSE 28
                  [] m \in {4, 6, 9, 11} -> 30
                  [] OTHER               -> 31

NextDate(ymd) ==
    LET y == ymd[1]
        m == ymd[2]
        d == ymd[3]
    IN  IF d < DaysIn(m, y) THEN <<y, m, d + 1>>
        ELSE IF m < 12      THEN <<y, m + 1, 1>>
        ELSE                     <<y + 1, 1, 1>>

DateInit == day = 0 /\ date = <<1970, 1, 1>>

Midnight == day' = day + 1 /\ date' = NextDate(date)

DateSpec == DateInit /\ [][Midnight]_<<day, date>>

\* The directory an object is filed under is named for the day of its upload,
\* at the ends of months and of years, leap years and centuries included:
\* three nested corrections by truncating division in ymd_from_unix.
DateRight == Ymd(day) = date
=============================================================================
