-------------------------- MODULE CivilDateProofs ---------------------------
(***************************************************************************)
(* ymd_from_unix is right on every day from 1970-01-01 on.                 *)
(*                                                                         *)
(* By induction over the days: one more day, in the computation, is what   *)
(* turning a page is on the calendar.  The computation is taken apart into *)
(* eras of 400 years, years within an era (from March to February), and    *)
(* months within a year; each part has its lemma.                          *)
(***************************************************************************)
EXTENDS CivilDate, TLAPS

\* The parts of Ymd: day of the year, month and day of the month, year.
Doy(doe)     == doe - YearStart(Yoe(doe))
Mp(doy)      == (5 * doy + 2) \div 153
MonthOf(doy) == IF Mp(doy) < 10 THEN Mp(doy) + 3 ELSE Mp(doy) - 9
DayOf(doy)   == doy - (153 * Mp(doy) + 2) \div 5 + 1
YearOf(era, doe) ==
    LET y == Yoe(doe) + era * 400
    IN  IF MonthOf(Doy(doe)) <= 2 THEN y + 1 ELSE y

YmdOf(era, doe) == <<YearOf(era, doe), MonthOf(Doy(doe)), DayOf(Doy(doe))>>

\* Ymd is put together from these parts.
LEMMA YmdParts ==
    ASSUME NEW days \in Nat
    PROVE  Ymd(days) = YmdOf(Era(days + 719468), Doe(days + 719468))
BY DEF Ymd, YmdOf, YearOf, MonthOf, DayOf, Doy, Mp

\* The next day is in the same era, or the first of the next one.
LEMMA NextDayInEra ==
    ASSUME NEW z \in Int, 0 <= z
    PROVE  /\ Era(z) \in Int /\ 0 <= Era(z)
           /\ Doe(z) \in Int /\ 0 <= Doe(z) /\ Doe(z) <= 146096
           /\ \/ Doe(z) < 146096 /\ Era(z + 1) = Era(z) /\ Doe(z + 1) = Doe(z) + 1
              \/ Doe(z) = 146096 /\ Era(z + 1) = Era(z) + 1 /\ Doe(z + 1) = 0
<1>  DEFINE e == z \div 146097
            f == (z + 1) \div 146097
<1>1. e \in Int /\ 146097 * e <= z /\ z <= 146097 * e + 146096
  BY SMT
<1>2. f \in Int /\ 146097 * f <= z + 1 /\ z + 1 <= 146097 * f + 146096
  BY SMT
<1>3. Era(z) = e /\ Doe(z) = z - 146097 * e
  BY <1>1, SMT DEF Era, Doe
<1>4. Era(z + 1) = f /\ Doe(z + 1) = z + 1 - 146097 * f
  BY <1>2, SMT DEF Era, Doe
<1>  HIDE DEF e, f
<1>5. 0 <= e
  BY <1>1, SMT
<1>6. f = e \/ f = e + 1
  BY <1>1, <1>2, SMT
<1>. QED
  BY <1>1, <1>2, <1>3, <1>4, <1>5, <1>6, SMT

\* Yoe divides an era into years of at most 366 days.
LEMMA YearsOfEra ==
    ASSUME NEW doe \in Int, 0 <= doe, doe <= 146096
    PROVE  /\ Yoe(doe) \in Int /\ 0 <= Yoe(doe) /\ Yoe(doe) <= 399
           /\ Doy(doe) \in Int /\ 0 <= Doy(doe) /\ Doy(doe) <= 365
BY SMTT(60) DEF Yoe, YearStart, Doy

\* A year, from March on, has 366 days if the February at its end, which is in
\* the next civil year, has 29.
LEMMA NextDayInYear ==
    ASSUME NEW doe \in Int, 0 <= doe, doe < 146096
    PROVE  \/ /\ Yoe(doe + 1) = Yoe(doe)
              /\ Doy(doe + 1) = Doy(doe) + 1
              /\ Doy(doe) # 365
              /\ Doy(doe) = 364 => IsLeap(Yoe(doe) + 1)
           \/ /\ Yoe(doe + 1) = Yoe(doe) + 1
              /\ Doy(doe + 1) = 0
              /\ Doy(doe) = 364 \/ Doy(doe) = 365
              /\ Doy(doe) = 364 => ~IsLeap(Yoe(doe) + 1)
              /\ Doy(doe) = 365 => IsLeap(Yoe(doe) + 1)
BY SMTT(120) DEF Yoe, YearStart, Doy, IsLeap

\* An era ends on the 29th of February of a year that 400 divides.
LEMMA EraEnds ==
    Yoe(0) = 0 /\ Doy(0) = 0 /\ Yoe(146096) = 399 /\ Doy(146096) = 365
BY SMT DEF Yoe, YearStart, Doy

\* The rule for leap years repeats every 400 years.
LEMMA LeapCycle ==
    ASSUME NEW y \in Int, NEW era \in Int
    PROVE  IsLeap(y + era * 400) <=> IsLeap(y)
BY SMTT(60) DEF IsLeap

\* Within a year, the computation knows the lengths of the months.
LEMMA NextDayInMonth ==
    ASSUME NEW doy \in Int, 0 <= doy, doy < 364, NEW y \in Int
    PROVE  /\ MonthOf(doy) \in Int /\ 1 <= MonthOf(doy) /\ MonthOf(doy) <= 12
           /\ DayOf(doy) \in Int
           /\ \/ /\ DayOf(doy) < DaysIn(MonthOf(doy), y)
                 /\ MonthOf(doy + 1) = MonthOf(doy)
                 /\ DayOf(doy + 1) = DayOf(doy) + 1
              \/ /\ ~(DayOf(doy) < DaysIn(MonthOf(doy), y))
                 /\ MonthOf(doy) < 12
                 /\ MonthOf(doy + 1) = MonthOf(doy) + 1
                 /\ MonthOf(doy) # 2
                 /\ DayOf(doy + 1) = 1
              \/ /\ ~(DayOf(doy) < DaysIn(MonthOf(doy), y))
                 /\ MonthOf(doy) = 12
                 /\ MonthOf(doy + 1) = 1
                 /\ DayOf(doy + 1) = 1
<1>  DEFINE p == Mp(doy)
            q == Mp(doy + 1)
            first(k) == (153 * k + 2) \div 5
<1>1. /\ p \in Int /\ 0 <= p /\ p <= 11
      /\ first(p) <= doy /\ doy < first(p + 1)
  BY SMT DEF Mp
<1>2. /\ q \in Int
      /\ first(q) <= doy + 1 /\ doy + 1 < first(q + 1)
  BY SMT DEF Mp
<1>3. \/ q = p
      \/ q = p + 1 /\ doy + 1 = first(p + 1) /\ p < 11
  BY <1>1, <1>2, SMT
<1>. QED
  BY <1>1, <1>2, <1>3, SMTT(60) DEF MonthOf, DayOf, DaysIn

\* A year begins on the 1st of March, and ends on the 28th or 29th of February.
LEMMA YearEnds ==
    /\ MonthOf(0) = 3 /\ DayOf(0) = 1
    /\ MonthOf(364) = 2 /\ DayOf(364) = 28
    /\ MonthOf(365) = 2 /\ DayOf(365) = 29
BY SMT DEF MonthOf, DayOf, Mp

-----------------------------------------------------------------------------
\* One more day in the computation is one more day on the calendar.
LEMMA NextYmd ==
    ASSUME NEW era \in Int, NEW doe \in Int, 0 <= doe, doe < 146096
    PROVE  YmdOf(era, doe + 1) = NextDate(YmdOf(era, doe))
<1>  DEFINE yoe == Yoe(doe)
            doy == Doy(doe)
            m   == MonthOf(doy)
            d   == DayOf(doy)
            y   == YearOf(era, doe)
<1>1. yoe \in Int /\ doy \in Int /\ 0 <= doy /\ doy <= 365
  BY YearsOfEra
<1>2. y = (IF m <= 2 THEN yoe + era * 400 + 1 ELSE yoe + era * 400)
  BY DEF YearOf
<1>3. IsLeap(yoe + 1 + era * 400) <=> IsLeap(yoe + 1)
  <2>1. yoe + 1 \in Int
    BY <1>1, SMT
  <2>. QED
    BY <2>1, LeapCycle
<1>4. NextDate(YmdOf(era, doe)) =
          IF d < DaysIn(m, y) THEN <<y, m, d + 1>>
          ELSE IF m < 12 THEN <<y, m + 1, 1>> ELSE <<y + 1, 1, 1>>
  BY DEF NextDate, YmdOf
<1>5. YmdOf(era, doe + 1) =
          <<YearOf(era, doe + 1), MonthOf(Doy(doe + 1)), DayOf(Doy(doe + 1))>>
  BY DEF YmdOf
<1>6. YearOf(era, doe + 1) =
          IF MonthOf(Doy(doe + 1)) <= 2 THEN Yoe(doe + 1) + era * 400 + 1
                                        ELSE Yoe(doe + 1) + era * 400
  BY DEF YearOf
<1>  HIDE DEF yoe, doy, m, d, y
<1>7. CASE Yoe(doe + 1) = yoe /\ Doy(doe + 1) = doy + 1 /\ doy < 364
  <2>1. /\ m \in Int /\ 1 <= m /\ m <= 12 /\ d \in Int
        /\ \/ d < DaysIn(m, y) /\ MonthOf(doy + 1) = m /\ DayOf(doy + 1) = d + 1
           \/ /\ ~(d < DaysIn(m, y)) /\ m < 12 /\ m # 2
              /\ MonthOf(doy + 1) = m + 1 /\ DayOf(doy + 1) = 1
           \/ /\ ~(d < DaysIn(m, y)) /\ m = 12
              /\ MonthOf(doy + 1) = 1 /\ DayOf(doy + 1) = 1
    <3>1. y \in Int
      BY <1>1, <1>2, SMT
    <3>. QED
      BY <1>1, <1>7, <3>1, NextDayInMonth DEF m, d
  <2>. QED
    BY <1>1, <1>2, <1>4, <1>5, <1>6, <1>7, <2>1, SMT
<1>8. CASE Yoe(doe + 1) = yoe /\ Doy(doe + 1) = doy + 1 /\ doy = 364 /\ IsLeap(yoe + 1)
  <2>1. m = 2 /\ d = 28 /\ MonthOf(365) = 2 /\ DayOf(365) = 29
    BY <1>8, YearEnds DEF m, d
  <2>2. y = yoe + 1 + era * 400
    BY <1>1, <1>2, <2>1, SMT
  <2>3. DaysIn(m, y) = 29
    BY <1>3, <1>8, <2>1, <2>2 DEF DaysIn
  <2>. QED
    BY <1>1, <1>4, <1>5, <1>6, <1>8, <2>1, <2>2, <2>3, SMT
<1>9. CASE /\ Yoe(doe + 1) = yoe + 1 /\ Doy(doe + 1) = 0
           /\ \/ doy = 364 /\ ~IsLeap(yoe + 1)
              \/ doy = 365 /\ IsLeap(yoe + 1)
  <2>1. /\ MonthOf(0) = 3 /\ DayOf(0) = 1 /\ m = 2
        /\ d = (IF doy = 364 THEN 28 ELSE 29)
    BY <1>9, YearEnds DEF m, d
  <2>2. y = yoe + 1 + era * 400
    BY <1>1, <1>2, <2>1, SMT
  <2>3. DaysIn(m, y) = d
    BY <1>3, <1>9, <2>1, <2>2 DEF DaysIn
  <2>. QED
    BY <1>1, <1>4, <1>5, <1>6, <1>9, <2>1, <2>2, <2>3, SMT
<1>. QED
  <2>1. \/ Yoe(doe + 1) = yoe /\ Doy(doe + 1) = doy + 1 /\ doy < 364
        \/ /\ Yoe(doe + 1) = yoe /\ Doy(doe + 1) = doy + 1
           /\ doy = 364 /\ IsLeap(yoe + 1)
        \/ /\ Yoe(doe + 1) = yoe + 1 /\ Doy(doe + 1) = 0
           /\ \/ doy = 364 /\ ~IsLeap(yoe + 1)
              \/ doy = 365 /\ IsLeap(yoe + 1)
    <3>1. \/ /\ Yoe(doe + 1) = yoe /\ Doy(doe + 1) = doy + 1
             /\ doy # 365 /\ (doy = 364 => IsLeap(yoe + 1))
          \/ /\ Yoe(doe + 1) = yoe + 1 /\ Doy(doe + 1) = 0
             /\ doy = 364 \/ doy = 365
             /\ doy = 364 => ~IsLeap(yoe + 1)
             /\ doy = 365 => IsLeap(yoe + 1)
      BY NextDayInYear DEF yoe, doy
    <3>2. doy < 364 \/ doy = 364 \/ doy = 365
      BY <1>1, SMT
    <3>. QED
      BY <3>1, <3>2
  <2>. QED
    BY <1>7, <1>8, <1>9, <2>1

\* So it is across the end of an era.
LEMMA NextEra ==
    ASSUME NEW era \in Int
    PROVE  YmdOf(era + 1, 0) = NextDate(YmdOf(era, 146096))
<1>1. YmdOf(era + 1, 0) = <<(era + 1) * 400, 3, 1>>
  BY EraEnds, YearEnds, SMT DEF YmdOf, YearOf
<1>2. YmdOf(era, 146096) = <<400 + era * 400, 2, 29>>
  BY EraEnds, YearEnds, SMT DEF YmdOf, YearOf
<1>3. DaysIn(2, 400 + era * 400) \in {28, 29}
  BY DEF DaysIn
<1>. QED
  BY <1>1, <1>2, <1>3, SMT DEF NextDate

\* Ymd turns its pages like the calendar.
LEMMA YmdStep ==
    ASSUME NEW days \in Nat
    PROVE  Ymd(days + 1) = NextDate(Ymd(days))
<1>  DEFINE z == days + 719468
<1>1. z \in Int /\ 0 <= z /\ days + 1 \in Nat /\ days + 1 + 719468 = z + 1
  BY SMT
<1>2. Ymd(days) = YmdOf(Era(z), Doe(z))
  BY YmdParts
<1>3. Ymd(days + 1) = YmdOf(Era(z + 1), Doe(z + 1))
  BY <1>1, YmdParts
<1>  HIDE DEF z
<1>4. CASE Doe(z) < 146096 /\ Era(z + 1) = Era(z) /\ Doe(z + 1) = Doe(z) + 1
  BY <1>1, <1>2, <1>3, <1>4, NextDayInEra, NextYmd
<1>5. CASE Doe(z) = 146096 /\ Era(z + 1) = Era(z) + 1 /\ Doe(z + 1) = 0
  BY <1>1, <1>2, <1>3, <1>5, NextDayInEra, NextEra
<1>. QED
  BY <1>1, <1>4, <1>5, NextDayInEra

\* The epoch is where it should be.
LEMMA Epoch == Ymd(0) = <<1970, 1, 1>>
BY SMT DEF Ymd, Era, Doe, Yoe, YearStart

-----------------------------------------------------------------------------
\* The induction, for any specification that turns pages or leaves the day
\* alone.
LEMMA DateStep ==
    ASSUME day \in Nat, DateRight, [Midnight]_<<day, date>>
    PROVE  day' \in Nat /\ DateRight'
<1>1. CASE Midnight
  <2>1. day' = day + 1 /\ date' = NextDate(date) /\ Ymd(day) = date
    BY <1>1 DEF Midnight, DateRight
  <2>2. Ymd(day + 1) = NextDate(Ymd(day))
    BY YmdStep
  <2>3. day + 1 \in Nat
    BY SMT
  <2>. QED
    BY <2>1, <2>2, <2>3 DEF DateRight
<1>2. CASE UNCHANGED <<day, date>>
  BY <1>2 DEF DateRight
<1>. QED
  BY <1>1, <1>2

\* ymd_from_unix gives the Gregorian date on every day from 1970-01-01 on.
THEOREM DateAlwaysRight == DateSpec => []DateRight
<1>  DEFINE Inv == day \in Nat /\ DateRight
<1>1. DateInit => Inv
  BY Epoch DEF DateInit, DateRight
<1>2. Inv /\ [Midnight]_<<day, date>> => Inv'
  BY DateStep
<1>. QED
  BY <1>1, <1>2, PTL DEF DateSpec
=============================================================================
