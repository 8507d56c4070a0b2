--------------------------- MODULE ReferenceProofs ---------------------------
(***************************************************************************)
(* Proofs about the calendar (Calendar, WallCalendar), about the filings   *)
(* history that is kept in it (Filings) and about the hash table behind    *)
(* the books and the symbols (FlatMap).                                    *)
(***************************************************************************)
EXTENDS WallCalendar, Filings, FlatMap, FiniteSetTheorems, SequenceTheorems, WellFoundedInduction, TLAPS

-----------------------------------------------------------------------------
(* Dates as numbers of days *)

\* Dates that a calendar shows, of any year.
Dates == {c \in [y : Int, m : 1 .. 12, d : 1 .. 31] : c.d <= MonthLength(c.y, c.m)}

\* The formulas count years from March: the day 1 March of a year is, and the
\* days from there to the first of a month.
MarchFirst(y) ==
  LET era == y \div 400
      yoe == y - era * 400
  IN era * 146097 + yoe * 365 + yoe \div 4 - yoe \div 100 - 719468
FromMarch(m) == CASE m = 3 -> 0 [] m = 4 -> 31 [] m = 5 -> 61 [] m = 6 -> 92 [] m = 7 -> 122 [] m = 8 -> 153
                  [] m = 9 -> 184 [] m = 10 -> 214 [] m = 11 -> 245 [] m = 12 -> 275 [] m = 1 -> 306 [] m = 2 -> 337
MarchYear(y, m) == IF m <= 2 THEN y - 1 ELSE y

\* A year in centuries, leap years and what is left of four years.
Parts(y, e, c, q, s) ==
  /\ e \in Int /\ c \in 0 .. 3 /\ q \in 0 .. 24 /\ s \in 0 .. 3
  /\ y = 400 * e + 100 * c + 4 * q + s
  /\ MarchFirst(y) = 146097 * e + 36524 * c + 1461 * q + 365 * s - 719468
  /\ Leap(y + 1) <=> s = 3 /\ (q # 24 \/ c = 3)

LEMMA YearParts == \A y \in Int : \E e, c, q, s : Parts(y, e, c, q, s)
<1> TAKE y \in Int
<1> DEFINE e == y \div 400
           yoe == y - e * 400
           c == yoe \div 100
           r == yoe - 100 * c
           q == r \div 4
           s == r - 4 * q
<1>1. e \in Int /\ yoe \in Int /\ 0 <= yoe /\ yoe <= 399
  BY SMT
<1> HIDE DEF e
<1>2. c \in 0 .. 3 /\ r \in Int /\ 0 <= r /\ r <= 99
  BY <1>1, SMT
<1>3. q \in 0 .. 24 /\ s \in 0 .. 3 /\ yoe = 100 * c + 4 * q + s
  BY <1>1, <1>2, SMT
<1>4. yoe \div 4 = 25 * c + q
  BY <1>1, <1>2, <1>3, SMT
<1>5. MarchFirst(y) = e * 146097 + yoe * 365 + yoe \div 4 - yoe \div 100 - 719468
  BY SMT DEF MarchFirst, e
<1>6. MarchFirst(y) = 146097 * e + 36524 * c + 1461 * q + 365 * s - 719468
  BY <1>1, <1>2, <1>3, <1>4, <1>5, SMT
<1>7. y = 400 * e + 100 * c + 4 * q + s
  BY <1>1, <1>3, SMT
<1> HIDE DEF yoe, c, r, q, s
<1>8. Leap(y + 1) <=> s = 3 /\ (q # 24 \/ c = 3)
  <2>2. (y + 1) % 4 = 0 <=> s = 3
    BY <1>7, <1>1, <1>2, <1>3, SMT
  <2>3. (y + 1) % 100 = 0 <=> s = 3 /\ q = 24
    BY <1>7, <1>1, <1>2, <1>3, SMT
  <2>4. (y + 1) % 400 = 0 <=> s = 3 /\ q = 24 /\ c = 3
    BY <1>7, <1>1, <1>2, <1>3, SMT
  <2> QED
    BY <2>2, <2>3, <2>4, SMT DEF Leap
<1>9. Parts(y, e, c, q, s)
  BY <1>1, <1>2, <1>3, <1>6, <1>7, <1>8, SMT DEF Parts
<1> QED
  BY <1>9, SMT

\* From one 1 March to the next.
LEMMA YearLength ==
  ASSUME NEW y \in Int
  PROVE  MarchFirst(y) \in Int /\ MarchFirst(y) = MarchFirst(y - 1) + 365 + Bool01(Leap(y))
<1>0. y - 1 \in Int /\ y - 1 + 1 = y
  BY SMT
<1>1. PICK e, c, q, s : Parts(y - 1, e, c, q, s)
  BY YearParts, <1>0, SMT
<1>2. PICK f, h, p, t : Parts(y, f, h, p, t)
  BY YearParts, SMT
<1>3. /\ e \in Int /\ c \in 0 .. 3 /\ q \in 0 .. 24 /\ s \in 0 .. 3
      /\ y - 1 = 400 * e + 100 * c + 4 * q + s
      /\ MarchFirst(y - 1) = 146097 * e + 36524 * c + 1461 * q + 365 * s - 719468
      /\ Leap(y) <=> s = 3 /\ (q # 24 \/ c = 3)
      /\ f \in Int /\ h \in 0 .. 3 /\ p \in 0 .. 24 /\ t \in 0 .. 3
      /\ y = 400 * f + 100 * h + 4 * p + t
      /\ MarchFirst(y) = 146097 * f + 36524 * h + 1461 * p + 365 * t - 719468
  BY <1>0, <1>1, <1>2, SMT DEF Parts
<1>4. 400 * e + 100 * c + 4 * q + s + 1 = 400 * f + 100 * h + 4 * p + t
  BY <1>3, SMT
<1>5. \/ s < 3 /\ t = s + 1 /\ p = q /\ h = c /\ f = e
      \/ s = 3 /\ q < 24 /\ t = 0 /\ p = q + 1 /\ h = c /\ f = e
      \/ s = 3 /\ q = 24 /\ c < 3 /\ t = 0 /\ p = 0 /\ h = c + 1 /\ f = e
      \/ s = 3 /\ q = 24 /\ c = 3 /\ t = 0 /\ p = 0 /\ h = 0 /\ f = e + 1
  BY <1>3, <1>4, SMT
<1> QED
  BY <1>3, <1>5, SMT DEF Bool01

LEMMA CivilForm ==
  ASSUME NEW y \in Int, NEW m \in 1 .. 12, NEW d \in Int
  PROVE  days_from_civil(y, m, d) = MarchFirst(MarchYear(y, m)) + FromMarch(m) + d - 1
<1>1. MarchYear(y, m) \in Int /\ y - Bool01(m <= 2) = MarchYear(y, m)
  BY SMT DEF MarchYear, Bool01
<1>2. (153 * (IF m > 2 THEN m - 3 ELSE m + 9) + 2) \div 5 = FromMarch(m)
  BY SMT DEF FromMarch
<1>3. FromMarch(m) \in Int
  BY SMT DEF FromMarch
<1>4. PICK Y \in Int : Y = MarchYear(y, m)
  BY <1>1, SMT
<1>5. Y \div 400 \in Int /\ Y - (Y \div 400) * 400 \in Int
  BY SMT
<1>6. days_from_civil(y, m, d) = (Y \div 400) * 146097 + (Y - (Y \div 400) * 400) * 365 + (Y - (Y \div 400) * 400) \div 4
                                  - (Y - (Y \div 400) * 400) \div 100 + (FromMarch(m) + d - 1) - 719468
  BY <1>1, <1>2, <1>4, SMT DEF days_from_civil
<1>7. MarchFirst(Y) = (Y \div 400) * 146097 + (Y - (Y \div 400) * 400) * 365 + (Y - (Y \div 400) * 400) \div 4
                                  - (Y - (Y \div 400) * 400) \div 100 - 719468
  BY SMT DEF MarchFirst
<1> QED
  BY <1>3, <1>4, <1>5, <1>6, <1>7, SMT

\* Day doe of 400 years, by the parts of the year it falls in, ...
OfEra(doe, c, q, s, doy) ==
  /\ c \in 0 .. 3 /\ q \in 0 .. 24 /\ s \in 0 .. 3
  /\ doy \in Int /\ 0 <= doy /\ doy <= 365 /\ (doy = 365 => s = 3 /\ (q # 24 \/ c = 3))
  /\ doe \in Int /\ doe = 36524 * c + 1461 * q + 365 * s + doy

LEMMA DayOfEra ==
  ASSUME NEW doe, NEW c, NEW q, NEW s, NEW doy, OfEra(doe, c, q, s, doy)
  PROVE  0 <= doe /\ doe <= 146096
  BY SMT DEF OfEra

LEMMA EraOfDay ==
  ASSUME NEW e \in Int, NEW doe \in Int, 0 <= doe, doe <= 146096, NEW x \in Int, x = 146097 * e + doe
  PROVE  x \div 146097 = e /\ x - e * 146097 = doe
  BY SMT

\* ... the year among them, which the formula finds with three corrections, ...
LEMMA YearOfEra ==
  ASSUME NEW doe, NEW c, NEW q, NEW s, NEW doy, OfEra(doe, c, q, s, doy)
  PROVE  (doe - doe \div 1460 + doe \div 36524 - doe \div 146096) \div 365 = 100 * c + 4 * q + s
  BY SMT DEF OfEra

\* ... and the day of the year.
LEMMA DayOfYear ==
  ASSUME NEW doe, NEW c, NEW q, NEW s, NEW doy, OfEra(doe, c, q, s, doy), NEW yoe, yoe = 100 * c + 4 * q + s
  PROVE  doe - (365 * yoe + yoe \div 4 - yoe \div 100) = doy
<1>1. yoe \in Int /\ yoe \div 4 = 25 * c + q /\ yoe \div 100 = c
  BY SMT DEF OfEra
<1> QED
  BY <1>1, SMT DEF OfEra

\* Whether a day of a month is one that the month has in some year.
DayOf(m, d) == (m \in {4, 6, 9, 11} => d <= 30) /\ (m = 2 => d <= 29)

\* Day doy of a year that starts in March is d of month m, ...
NumberOf(doy, m, d) == m \in 1 .. 12 /\ d \in 1 .. 31 /\ DayOf(m, d) /\ doy = FromMarch(m) + d - 1
\* ... and is taken for it.
OfMonth(doy, mp, m, d) == /\ (5 * doy + 2) \div 153 = mp
                          /\ (IF mp < 10 THEN mp + 3 ELSE mp - 9) = m
                          /\ doy - (153 * mp + 2) \div 5 + 1 = d

LEMMA MonthOfYear ==
  ASSUME NEW doy, NEW m, NEW d, NumberOf(doy, m, d)
  PROVE  \E mp : OfMonth(doy, mp, m, d)
<1>0. m \in 1 .. 12 /\ d \in 1 .. 31 /\ DayOf(m, d) /\ doy = FromMarch(m) + d - 1
  BY DEF NumberOf
<1> DEFINE mp == IF m > 2 THEN m - 3 ELSE m + 9
<1>1. mp \in Int /\ (IF mp < 10 THEN mp + 3 ELSE mp - 9) = m
  BY <1>0, SMT
<1>2. FromMarch(m) \in Int /\ (153 * mp + 2) \div 5 = FromMarch(m)
  BY <1>0, SMT DEF FromMarch
<1>3. 153 * mp <= 5 * (FromMarch(m) + d - 1) + 2 /\ 5 * (FromMarch(m) + d - 1) + 2 < 153 * mp + 153
  BY <1>0, SMT DEF FromMarch, DayOf
<1> HIDE DEF mp
<1>4. doy \in Int
  BY <1>0, <1>2, SMT
<1>5. (5 * doy + 2) \div 153 = mp
  BY <1>0, <1>1, <1>2, <1>3, <1>4, SMT
<1>6. doy - (153 * mp + 2) \div 5 + 1 = d
  BY <1>0, <1>1, <1>2, <1>4, SMT
<1>7. OfMonth(doy, mp, m, d)
  BY <1>1, <1>5, <1>6, SMT DEF OfMonth
<1> QED
  BY <1>7, SMT

\* The values civil_from_days goes through.
TakenApart(z, e, doe, yoe, doy) ==
  /\ (z + 719468) \div 146097 = e /\ z + 719468 - e * 146097 = doe
  /\ (doe - doe \div 1460 + doe \div 36524 - doe \div 146096) \div 365 = yoe
  /\ doe - (365 * yoe + yoe \div 4 - yoe \div 100) = doy

LEMMA CivilParts ==
  ASSUME NEW z \in Int, NEW e \in Int, NEW doe, NEW yoe, NEW doy, NEW mp, NEW m, NEW d,
         TakenApart(z, e, doe, yoe, doy), OfMonth(doy, mp, m, d)
  PROVE  civil_from_days(z) = [y |-> yoe + e * 400 + Bool01(m <= 2), m |-> m, d |-> d]
<1> DEFINE xx == z + 719468
           ee == xx \div 146097
           de == xx - ee * 146097
           ye == (de - de \div 1460 + de \div 36524 - de \div 146096) \div 365
           dy == de - (365 * ye + ye \div 4 - ye \div 100)
           mm == (5 * dy + 2) \div 153
           mo == IF mm < 10 THEN mm + 3 ELSE mm - 9
<1>1. civil_from_days(z) = [y |-> ye + ee * 400 + Bool01(mo <= 2), m |-> mo, d |-> dy - (153 * mm + 2) \div 5 + 1]
  BY SMT DEF civil_from_days
<1>2. ee = e
  BY SMT DEF TakenApart
<1>3. de = xx - ee * 146097
  BY SMT
<1>4. ye = (de - de \div 1460 + de \div 36524 - de \div 146096) \div 365
  BY SMT
<1>5. dy = de - (365 * ye + ye \div 4 - ye \div 100)
  BY SMT
<1>6. mm = (5 * dy + 2) \div 153
  BY SMT
<1>7. mo = IF mm < 10 THEN mm + 3 ELSE mm - 9
  BY SMT
<1> HIDE DEF ee, de, ye, dy, mm, mo
<1>8. de = doe
  BY <1>2, <1>3, SMT DEF TakenApart
<1>9. ye = yoe
  BY <1>4, <1>8, SMT DEF TakenApart
<1>10. dy = doy
  BY <1>5, <1>8, <1>9, SMT DEF TakenApart
<1>11. mm = mp
  BY <1>6, <1>10, SMT DEF OfMonth
<1>12. mo = m
  BY <1>7, <1>11, SMT DEF OfMonth
<1> QED
  BY <1>1, <1>2, <1>9, <1>10, <1>11, <1>12, SMT DEF OfMonth

InEra(z, e, doe) == z \in Int /\ e \in Int /\ doe \in Int /\ z + 719468 = 146097 * e + doe

YearIs(y, e, c, q, s, m) == y = 100 * c + 4 * q + s + e * 400 + Bool01(m <= 2)

\* The day with the given parts is taken apart again.
LEMMA YearOfDays ==
  ASSUME NEW e, NEW c, NEW q, NEW s, NEW doy, NEW doe, OfEra(doe, c, q, s, doy),
         NEW m, NEW d, NumberOf(doy, m, d), NEW z, InEra(z, e, doe), NEW y, YearIs(y, e, c, q, s, m)
  PROVE  civil_from_days(z) = [y |-> y, m |-> m, d |-> d]
<1>a. z \in Int /\ e \in Int /\ doe \in Int /\ z + 719468 = 146097 * e + doe
  BY SMT DEF InEra
<1>1. 0 <= doe /\ doe <= 146096 /\ doe \in Int
  BY DayOfEra, SMT DEF OfEra
<1>2. PICK yoe : yoe = 100 * c + 4 * q + s
  BY SMT
<1>3. PICK x \in Int : x = z + 719468 /\ x = 146097 * e + doe
  BY <1>a, SMT
<1>4. x \div 146097 = e /\ x - e * 146097 = doe
  BY <1>1, <1>3, <1>a, EraOfDay, SMT
<1>5. (doe - doe \div 1460 + doe \div 36524 - doe \div 146096) \div 365 = 100 * c + 4 * q + s
  BY YearOfEra, SMT
<1>6. doe - (365 * yoe + yoe \div 4 - yoe \div 100) = doy
  BY <1>2, DayOfYear, SMT
<1>7. TakenApart(z, e, doe, yoe, doy)
  BY <1>2, <1>3, <1>4, <1>5, <1>6, <1>a, SMT DEF TakenApart
<1>8. civil_from_days(z) = [y |-> yoe + e * 400 + Bool01(m <= 2), m |-> m, d |-> d]
  BY <1>7, <1>a, MonthOfYear, CivilParts, SMT
<1> QED
  BY <1>2, <1>8, SMT DEF YearIs

LEMMA DateParts ==
  ASSUME NEW c \in Dates
  PROVE  \E y \in Int, m \in 1 .. 12, d \in 1 .. 31 :
           c = [y |-> y, m |-> m, d |-> d] /\ c.y = y /\ c.m = m /\ c.d = d /\ d <= MonthLength(y, m)
<1>1. c \in [y : Int, m : 1 .. 12, d : 1 .. 31] /\ c.d <= MonthLength(c.y, c.m)
  BY SMT DEF Dates
<1>2. c = [y |-> c.y, m |-> c.m, d |-> c.d] /\ c.y \in Int /\ c.m \in 1 .. 12 /\ c.d \in 1 .. 31
  BY <1>1, SMT
<1> QED
  BY <1>1, <1>2, Zenon

\* The two formulas undo each other, whatever the year.
LEMMA CivilOfDays ==
  ASSUME NEW c \in Dates
  PROVE  days_from_civil(c.y, c.m, c.d) \in Int /\ civil_from_days(days_from_civil(c.y, c.m, c.d)) = c
<1>1. PICK y \in Int, m \in 1 .. 12, d \in 1 .. 31 :
           c = [y |-> y, m |-> m, d |-> d] /\ c.y = y /\ c.m = m /\ c.d = d /\ d <= MonthLength(y, m)
  BY DateParts, SMT
<1>2. MarchYear(y, m) \in Int /\ MarchYear(y, m) + Bool01(m <= 2) = y
  BY SMT DEF MarchYear, Bool01
<1>a. PICK e, n, q, s : Parts(MarchYear(y, m), e, n, q, s)
  BY YearParts, <1>2, SMT
<1>3. /\ e \in Int /\ n \in 0 .. 3 /\ q \in 0 .. 24 /\ s \in 0 .. 3
      /\ MarchYear(y, m) = 400 * e + 100 * n + 4 * q + s
      /\ MarchFirst(MarchYear(y, m)) = 146097 * e + 36524 * n + 1461 * q + 365 * s - 719468
      /\ Leap(MarchYear(y, m) + 1) <=> s = 3 /\ (q # 24 \/ n = 3)
  BY <1>a, SMT DEF Parts
<1>4. m = 2 => (d = 29 => Leap(MarchYear(y, m) + 1)) /\ d <= 29
  BY <1>1, SMT DEF MonthLength, Bool01, MarchYear
<1>5. DayOf(m, d)
  BY <1>1, <1>4, SMT DEF MonthLength, DayOf
<1>6. PICK doy \in Int : doy = FromMarch(m) + d - 1
  BY SMT DEF FromMarch
<1>7. 0 <= doy /\ doy <= 365 /\ (doy = 365 => m = 2 /\ d = 29)
  BY <1>4, <1>5, <1>6, SMT DEF FromMarch, DayOf
<1>8. doy = 365 => s = 3 /\ (q # 24 \/ n = 3)
  BY <1>3, <1>4, <1>7, SMT
<1>9. PICK doe \in Int : doe = 36524 * n + 1461 * q + 365 * s + doy
  BY <1>3, SMT
<1>b. OfEra(doe, n, q, s, doy)
  BY <1>3, <1>7, <1>8, <1>9, SMT DEF OfEra
<1>c. PICK z \in Int : z = 146097 * e + doe - 719468
  BY <1>3, <1>9, SMT
<1>10. days_from_civil(y, m, d) = z
  <2>1. FromMarch(m) \in Int
    BY SMT DEF FromMarch
  <2>2. days_from_civil(y, m, d) = MarchFirst(MarchYear(y, m)) + FromMarch(m) + d - 1
    BY CivilForm, SMT
  <2> QED
    BY <1>3, <1>6, <1>9, <1>c, <2>1, <2>2, SMT
<1>d. InEra(z, e, doe)
  BY <1>3, <1>9, <1>c, SMT DEF InEra
<1>11. YearIs(y, e, n, q, s, m)
  BY <1>2, <1>3, SMT DEF Bool01, YearIs
<1>e. NumberOf(doy, m, d)
  BY <1>5, <1>6 DEF NumberOf
<1>12. civil_from_days(z) = [y |-> y, m |-> m, d |-> d]
  BY YearOfDays, <1>11, <1>b, <1>d, <1>e, SMT
<1> QED
  BY <1>1, <1>10, <1>12, SMT

\* The date on the next page.
Turned(c) ==
  IF c.d # MonthLength(c.y, c.m) THEN [y |-> c.y, m |-> c.m, d |-> c.d + 1]
  ELSE IF c.m < 12 THEN [y |-> c.y, m |-> c.m + 1, d |-> 1]
  ELSE [y |-> c.y + 1, m |-> 1, d |-> 1]

DayOfDate(c) == days_from_civil(c.y, c.m, c.d)

\* Every day of 400 years has such parts, ...
LEMMA EraParts ==
  ASSUME NEW doe \in Int, 0 <= doe, doe <= 146096
  PROVE  \E c, q, s, doy : OfEra(doe, c, q, s, doy)
<1> DEFINE c == IF doe >= 109572 THEN 3 ELSE doe \div 36524
           r == doe - 36524 * c
           q == r \div 1461
           t == r - 1461 * q
           s == IF t >= 1095 THEN 3 ELSE t \div 365
           doy == t - 365 * s
<1>1. c \in 0 .. 3 /\ r \in Int /\ 0 <= r /\ r <= 36524 /\ (r = 36524 => c = 3)
  BY SMT
<1> HIDE DEF c
<1>2. q \in 0 .. 24 /\ t \in Int /\ 0 <= t /\ t <= 1460 /\ r = 1461 * q + t /\ (q = 24 /\ t = 1460 => c = 3)
  BY <1>1, SMT
<1>a. doe = 36524 * c + r
  BY <1>1, SMT
<1> HIDE DEF q, r, t
<1>3. s \in 0 .. 3 /\ doy \in Int /\ 0 <= doy /\ doy <= 365 /\ (doy = 365 => s = 3 /\ t = 1460) /\ t = 365 * s + doy
  BY <1>2, SMT
<1> HIDE DEF s, doy
<1>4. doy = 365 => s = 3 /\ (q # 24 \/ c = 3)
  BY <1>2, <1>3, SMT
<1>5. doe = 36524 * c + 1461 * q + 365 * s + doy
  BY <1>a, <1>1, <1>2, <1>3, SMT
<1>6. OfEra(doe, c, q, s, doy)
  BY <1>1, <1>2, <1>3, <1>4, <1>5, SMT DEF OfEra
<1> QED BY <1>6, SMT

\* ... and every day of a year is one of a month.
LEMMA MonthParts ==
  ASSUME NEW doy \in Int, 0 <= doy, doy <= 365
  PROVE  \E m \in 1 .. 12, d \in 1 .. 31 : NumberOf(doy, m, d)
<1>1. PICK m \in 1 .. 12, d \in 1 .. 31 : DayOf(m, d) /\ doy = FromMarch(m) + d - 1
  <2>1. CASE doy < 153
    <3>1. \/ doy < 31 /\ DayOf(3, doy + 1) /\ FromMarch(3) = 0
          \/ 31 <= doy /\ doy < 61 /\ DayOf(4, doy - 30) /\ FromMarch(4) = 31
          \/ 61 <= doy /\ doy < 92 /\ DayOf(5, doy - 60) /\ FromMarch(5) = 61
          \/ 92 <= doy /\ doy < 122 /\ DayOf(6, doy - 91) /\ FromMarch(6) = 92
          \/ 122 <= doy /\ doy < 153 /\ DayOf(7, doy - 121) /\ FromMarch(7) = 122
      BY <2>1, SMT DEF DayOf, FromMarch
    <3> QED BY <3>1, SMT
  <2>2. CASE 153 <= doy /\ doy < 275
    <3>1. \/ 153 <= doy /\ doy < 184 /\ DayOf(8, doy - 152) /\ FromMarch(8) = 153
          \/ 184 <= doy /\ doy < 214 /\ DayOf(9, doy - 183) /\ FromMarch(9) = 184
          \/ 214 <= doy /\ doy < 245 /\ DayOf(10, doy - 213) /\ FromMarch(10) = 214
          \/ 245 <= doy /\ doy < 275 /\ DayOf(11, doy - 244) /\ FromMarch(11) = 245
      BY <2>2, SMT DEF DayOf, FromMarch
    <3> QED BY <3>1, SMT
  <2>3. CASE 275 <= doy
    <3>1. \/ 275 <= doy /\ doy < 306 /\ DayOf(12, doy - 274) /\ FromMarch(12) = 275
          \/ 306 <= doy /\ doy < 337 /\ DayOf(1, doy - 305) /\ FromMarch(1) = 306
          \/ 337 <= doy /\ doy < 366 /\ DayOf(2, doy - 336) /\ FromMarch(2) = 337
      BY <2>3, SMT DEF DayOf, FromMarch
    <3> QED BY <3>1, SMT
  <2> QED BY <2>1, <2>2, <2>3, SMT
<1>2. NumberOf(doy, m, d)
  BY <1>1, SMT DEF NumberOf
<1> QED BY <1>2, SMT

\* The parts of a year are the only ones.
LEMMA PartsOfYear ==
  ASSUME NEW e \in Int, NEW c \in 0 .. 3, NEW q \in 0 .. 24, NEW s \in 0 .. 3, NEW y, y = 400 * e + 100 * c + 4 * q + s
  PROVE  MarchFirst(y) = 146097 * e + 36524 * c + 1461 * q + 365 * s - 719468
<1>0. y \in Int
  BY SMT
<1>1. PICK f, h, p, t : Parts(y, f, h, p, t)
  BY <1>0, YearParts, SMT
<1>2. /\ f \in Int /\ h \in 0 .. 3 /\ p \in 0 .. 24 /\ t \in 0 .. 3
      /\ y = 400 * f + 100 * h + 4 * p + t
      /\ MarchFirst(y) = 146097 * f + 36524 * h + 1461 * p + 365 * t - 719468
  BY <1>1, SMT DEF Parts
<1>3. f = e /\ h = c /\ p = q /\ t = s
  BY <1>2, SMT
<1> QED BY <1>2, <1>3, SMT

DayNumber(c) == days_from_civil(c.y, c.m, c.d)

\* A day number written as a date and read again is the same number, for every day.
LEMMA DaysOfCivil ==
  ASSUME NEW z \in Int
  PROVE  DayNumber(civil_from_days(z)) = z
<1> DEFINE x == z + 719468
           e == x \div 146097
           doe == x - 146097 * e
<1>1. e \in Int /\ doe \in Int /\ 0 <= doe /\ doe <= 146096 /\ z + 719468 = 146097 * e + doe
  BY SMT
<1> HIDE DEF x, e, doe
<1>2. PICK c, q, s, doy : OfEra(doe, c, q, s, doy)
  BY <1>1, EraParts, SMT
<1>3. /\ c \in 0 .. 3 /\ q \in 0 .. 24 /\ s \in 0 .. 3
      /\ doy \in Int /\ 0 <= doy /\ doy <= 365 /\ doe = 36524 * c + 1461 * q + 365 * s + doy
  BY <1>2, SMT DEF OfEra
<1>4. PICK m \in 1 .. 12, d \in 1 .. 31 : NumberOf(doy, m, d)
  BY <1>3, MonthParts, SMT
<1>5. PICK y \in Int : y = 100 * c + 4 * q + s + e * 400 + Bool01(m <= 2)
  BY <1>1, <1>3, SMT DEF Bool01
<1>6. InEra(z, e, doe) /\ YearIs(y, e, c, q, s, m)
  BY <1>1, <1>5, SMT DEF InEra, YearIs
<1>7. civil_from_days(z) = [y |-> y, m |-> m, d |-> d]
  BY <1>2, <1>4, <1>6, YearOfDays, SMT
<1>8. PICK w \in Int : w = MarchYear(y, m) /\ w = 400 * e + 100 * c + 4 * q + s
  BY <1>1, <1>3, <1>5, SMT DEF MarchYear, Bool01
<1>9. MarchFirst(w) = 146097 * e + 36524 * c + 1461 * q + 365 * s - 719468
  BY <1>1, <1>3, <1>8, PartsOfYear, SMT
<1>10. doy = FromMarch(m) + d - 1 /\ FromMarch(m) \in Int
  BY <1>4, SMT DEF NumberOf, FromMarch
<1>11. days_from_civil(y, m, d) = MarchFirst(w) + FromMarch(m) + d - 1
  <2>1. d \in Int
    BY SMT
  <2>2. days_from_civil(y, m, d) = MarchFirst(MarchYear(y, m)) + FromMarch(m) + d - 1
    BY <2>1, CivilForm
  <2> QED BY <2>2, <1>8, SMT
<1>12. days_from_civil(y, m, d) = z
  BY <1>1, <1>3, <1>9, <1>10, <1>11, SMT
<1> QED BY <1>7, <1>12, SMT DEF DayNumber

\* The formula counts a page as a day.
LEMMA NextDate ==
  ASSUME NEW c \in Dates
  PROVE  Turned(c) \in Dates /\ DayOfDate(c) \in Int /\ DayOfDate(Turned(c)) = DayOfDate(c) + 1
<1>1. PICK y \in Int, m \in 1 .. 12, d \in 1 .. 31 :
           c = [y |-> y, m |-> m, d |-> d] /\ c.y = y /\ c.m = m /\ c.d = d /\ d <= MonthLength(y, m)
  BY DateParts, SMT
<1>2. \A k \in 1 .. 12 : FromMarch(k) \in Int
  BY SMT DEF FromMarch
<1>3. MarchFirst(y) \in Int /\ MarchFirst(y - 1) \in Int /\ MarchFirst(y) = MarchFirst(y - 1) + 365 + Bool01(Leap(y))
  BY YearLength, y - 1 \in Int, SMT
<1>4. \A k \in 1 .. 12 : MonthLength(y, k) \in Int /\ 28 <= MonthLength(y, k) /\ MonthLength(y, k) <= 31
  BY SMT DEF MonthLength, Bool01
<1>5. DayOfDate(c) = MarchFirst(MarchYear(y, m)) + FromMarch(m) + d - 1
  BY <1>1, CivilForm, SMT DEF DayOfDate
<1>6. MarchFirst(MarchYear(y, m)) \in Int
  BY <1>3, SMT DEF MarchYear
<1>7. CASE d # MonthLength(y, m)
  <2>1. Turned(c) = [y |-> y, m |-> m, d |-> d + 1]
    BY <1>1, <1>7, SMT DEF Turned
  <2>2. d + 1 \in 1 .. 31 /\ d + 1 <= MonthLength(y, m)
    BY <1>1, <1>4, <1>7, SMT
  <2>3. Turned(c) \in Dates
    BY <2>1, <2>2, SMT DEF Dates
  <2>4. DayOfDate(Turned(c)) = MarchFirst(MarchYear(y, m)) + FromMarch(m) + (d + 1) - 1
    BY <2>1, <2>2, CivilForm, SMT DEF DayOfDate
  <2> QED
    BY <1>2, <1>5, <1>6, <2>3, <2>4, SMT
<1>8. CASE d = MonthLength(y, m) /\ m < 12
  <2>1. Turned(c) = [y |-> y, m |-> m + 1, d |-> 1]
    BY <1>1, <1>8, SMT DEF Turned
  <2>2. m + 1 \in 1 .. 12 /\ 1 \in 1 .. 31 /\ 1 <= MonthLength(y, m + 1)
    BY <1>8, <1>4, SMT
  <2>3. Turned(c) \in Dates
    BY <2>1, <2>2, SMT DEF Dates
  <2>4. DayOfDate(Turned(c)) = MarchFirst(MarchYear(y, m + 1)) + FromMarch(m + 1) + 1 - 1
    BY <2>1, <2>2, CivilForm, SMT DEF DayOfDate
  <2>5. CASE m = 2
    <3>1. MarchFirst(MarchYear(y, m)) = MarchFirst(y - 1) /\ MarchFirst(MarchYear(y, m + 1)) = MarchFirst(y)
      BY <2>5, SMT DEF MarchYear
    <3>2. FromMarch(m) = 337 /\ FromMarch(m + 1) = 0
      BY <2>5, SMT DEF FromMarch
    <3>3. d = 28 + Bool01(Leap(y)) /\ Bool01(Leap(y)) \in Int
      BY <1>8, <2>5, SMT DEF MonthLength, Bool01
    <3> QED
      BY <1>3, <1>5, <2>3, <2>4, <3>1, <3>2, <3>3, SMT
  <2>6. CASE m # 2
    <3>1. MarchYear(y, m + 1) = MarchYear(y, m)
      BY <1>8, <2>6, SMT DEF MarchYear
    <3>2. FromMarch(m + 1) = FromMarch(m) + d
      BY <1>8, <2>6, SMT DEF FromMarch, MonthLength
    <3> QED
      BY <1>2, <1>5, <1>6, <2>3, <2>4, <3>1, <3>2, SMT
  <2> QED
    BY <2>5, <2>6
<1>9. CASE d = MonthLength(y, m) /\ m = 12
  <2>1. Turned(c) = [y |-> y + 1, m |-> 1, d |-> 1]
    BY <1>1, <1>9, SMT DEF Turned
  <2>2. y + 1 \in Int /\ 1 <= MonthLength(y + 1, 1)
    BY SMT DEF MonthLength
  <2>3. Turned(c) \in Dates
    BY <2>1, <2>2, SMT DEF Dates
  <2>4. DayOfDate(Turned(c)) = MarchFirst(MarchYear(y + 1, 1)) + FromMarch(1) + 1 - 1
    BY <2>1, <2>2, CivilForm, SMT DEF DayOfDate
  <2>5. MarchYear(y + 1, 1) = y /\ MarchYear(y, m) = y
    BY <1>9, SMT DEF MarchYear
  <2>6. FromMarch(1) = 306 /\ FromMarch(m) = 275 /\ d = 31
    BY <1>9, SMT DEF FromMarch, MonthLength
  <2> QED
    BY <1>3, <1>5, <2>3, <2>4, <2>5, <2>6, SMT
<1> QED
  BY <1>7, <1>8, <1>9, SMT

-----------------------------------------------------------------------------
(* Sundays and the two switches *)

Spring(y) == FirstSunday(days_from_civil(y, 3, 1)) + 7
Autumn(y) == FirstSunday(days_from_civil(y, 11, 1))

LEMMA SundayAfter ==
  ASSUME NEW z \in Int
  PROVE  /\ FirstSunday(z) \in Int /\ z <= FirstSunday(z) /\ FirstSunday(z) <= z + 6
         /\ weekday_from_days(FirstSunday(z)) = 0
  BY SMT DEF FirstSunday, weekday_from_days

\* Both switches, counted from 1 March.
LEMMA SwitchDays ==
  ASSUME NEW y \in Int
  PROVE  /\ MarchFirst(y) \in Int /\ Spring(y) \in Int /\ Autumn(y) \in Int
         /\ MarchFirst(y) + 7 <= Spring(y) /\ Spring(y) <= MarchFirst(y) + 13
         /\ MarchFirst(y) + 245 <= Autumn(y) /\ Autumn(y) <= MarchFirst(y) + 251
         /\ weekday_from_days(Spring(y)) = 0 /\ weekday_from_days(Autumn(y)) = 0
<1>1. MarchFirst(y) \in Int
  BY YearLength, SMT
<1>2. days_from_civil(y, 3, 1) = MarchFirst(y)
  <2>1. days_from_civil(y, 3, 1) = MarchFirst(MarchYear(y, 3)) + FromMarch(3) + 1 - 1
    BY CivilForm, SMT
  <2> QED
    BY <1>1, <2>1, SMT DEF MarchYear, FromMarch
<1>3. days_from_civil(y, 11, 1) = MarchFirst(y) + 245
  <2>1. days_from_civil(y, 11, 1) = MarchFirst(MarchYear(y, 11)) + FromMarch(11) + 1 - 1
    BY CivilForm, SMT
  <2> QED
    BY <1>1, <2>1, SMT DEF MarchYear, FromMarch
<1>4. PICK a \in Int, b \in Int : a = MarchFirst(y) /\ b = MarchFirst(y) + 245
  BY <1>1, SMT
<1>5. /\ FirstSunday(a) \in Int /\ a <= FirstSunday(a) /\ FirstSunday(a) <= a + 6
      /\ weekday_from_days(FirstSunday(a)) = 0
      /\ FirstSunday(b) \in Int /\ b <= FirstSunday(b) /\ FirstSunday(b) <= b + 6
      /\ weekday_from_days(FirstSunday(b)) = 0
  BY SundayAfter, SMT
<1>6. Spring(y) = FirstSunday(a) + 7 /\ Autumn(y) = FirstSunday(b)
  BY <1>2, <1>3, <1>4, SMT DEF Spring, Autumn
<1>7. weekday_from_days(FirstSunday(a) + 7) = 0
  BY <1>5, SMT DEF weekday_from_days
<1> QED
  BY <1>1, <1>4, <1>5, <1>6, <1>7, SMT

\* Where in its year a date is.
LEMMA DayInYear ==
  ASSUME NEW c \in Dates
  PROVE  /\ c.y \in Int /\ c.m \in 1 .. 12 /\ c.d \in 1 .. 31 /\ DayOfDate(c) \in Int /\ MarchFirst(c.y) \in Int
         /\ c.m <= 2 => DayOfDate(c) < MarchFirst(c.y)
         /\ c.m = 3 => DayOfDate(c) = MarchFirst(c.y) + c.d - 1
         /\ c.m > 3 => MarchFirst(c.y) + 31 <= DayOfDate(c)
         /\ c.m < 11 => DayOfDate(c) < MarchFirst(c.y) + 245
         /\ c.m = 11 => DayOfDate(c) = MarchFirst(c.y) + 244 + c.d
         /\ c.m = 12 => MarchFirst(c.y) + 275 <= DayOfDate(c)
<1>1. PICK y \in Int, m \in 1 .. 12, d \in 1 .. 31 :
           c = [y |-> y, m |-> m, d |-> d] /\ c.y = y /\ c.m = m /\ c.d = d /\ d <= MonthLength(y, m)
  BY DateParts, SMT
<1>2. MarchFirst(y) \in Int /\ MarchFirst(y - 1) \in Int /\ MarchFirst(y) = MarchFirst(y - 1) + 365 + Bool01(Leap(y))
  BY YearLength, y - 1 \in Int, SMT
<1>3. DayOfDate(c) = MarchFirst(MarchYear(y, m)) + FromMarch(m) + d - 1
  BY <1>1, CivilForm, SMT DEF DayOfDate
<1>4. CASE m > 2
  <2>1. MarchYear(y, m) = y
    BY <1>4, SMT DEF MarchYear
  <2>2. DayOfDate(c) = MarchFirst(y) + FromMarch(m) + d - 1
    BY <1>3, <2>1, SMT
  <2> QED
    BY <1>1, <1>2, <1>4, <2>2, SMT DEF FromMarch, MonthLength
<1>5. CASE m <= 2
  <2>1. DayOfDate(c) = MarchFirst(y - 1) + FromMarch(m) + d - 1
    BY <1>3, <1>5, SMT DEF MarchYear
  <2>2. d <= 31 /\ (m = 2 => d <= 28 + Bool01(Leap(y))) /\ Bool01(Leap(y)) \in {0, 1}
    BY <1>1, SMT DEF MonthLength, Bool01
  <2> QED
    BY <1>1, <1>2, <1>5, <2>1, <2>2, SMT DEF FromMarch
<1> QED
  BY <1>4, <1>5, SMT

-----------------------------------------------------------------------------
(* The inductive invariant *)

\* Date, day number, day of the week and Sundays of a page.
OnWall(c, z, w, n) ==
  /\ c \in Dates /\ z = DayOfDate(c) /\ w = weekday_from_days(z) /\ n = (c.d - w + 6) \div 7
InSummer(y, z) == Spring(y) <= z /\ z < Autumn(y)

TwoDigits(y) == 2007 <= y /\ y <= 2069

CalendarIInv ==
  /\ OnWall(date, day, weekday, sundays)
  /\ TwoDigits(date.y)
  /\ summer \in BOOLEAN /\ (summer <=> InSummer(date.y, day))

\* Two Sundays less than a week apart are one.
LEMMA OneSunday ==
  ASSUME NEW a \in Int, NEW b \in Int, weekday_from_days(a) = 0, weekday_from_days(b) = 0, a - b < 7, b - a < 7
  PROVE  a = b
  BY SMT DEF weekday_from_days

\* The Sundays on the wall are the ones the formulas compute.
LEMMA SwitchIs ==
  ASSUME NEW c, NEW z, NEW w, NEW n, OnWall(c, z, w, n)
  PROVE  /\ c.m = 3 /\ w = 0 /\ n = 2 <=> z = Spring(c.y)
         /\ c.m = 11 /\ w = 0 /\ n = 1 <=> z = Autumn(c.y)
<1>1. c \in Dates /\ z = DayOfDate(c) /\ w = weekday_from_days(z) /\ n = (c.d - w + 6) \div 7
  BY SMT DEF OnWall
<1>2. PICK y \in Int, m \in 1 .. 12, d \in 1 .. 31, s \in Int, a \in Int, f \in Int :
          /\ y = c.y /\ m = c.m /\ d = c.d /\ s = Spring(y) /\ a = Autumn(y) /\ f = MarchFirst(y)
  <2>1. c.y \in Int /\ c.m \in 1 .. 12 /\ c.d \in 1 .. 31
    BY <1>1, DayInYear, SMT
  <2>2. Spring(c.y) \in Int /\ Autumn(c.y) \in Int /\ MarchFirst(c.y) \in Int
    BY <2>1, SwitchDays, SMT
  <2> QED
    BY <2>1, <2>2, Zenon
<1>3. /\ z \in Int
      /\ m <= 2 => z < f
      /\ m = 3 => z = f + d - 1
      /\ m > 3 => f + 31 <= z
      /\ m < 11 => z < f + 245
      /\ m = 11 => z = f + 244 + d
      /\ m = 12 => f + 275 <= z
  BY <1>1, <1>2, DayInYear, SMT
<1>4. /\ f + 7 <= s /\ s <= f + 13 /\ f + 245 <= a /\ a <= f + 251
      /\ weekday_from_days(s) = 0 /\ weekday_from_days(a) = 0
  BY <1>2, SwitchDays, SMT
<1>5. w \in 0 .. 6
  BY <1>1, <1>3, SMT DEF weekday_from_days
<1>6. ASSUME m = 3, w = 0, n = 2 PROVE z = s
  <2>1. 8 <= d /\ d <= 14
    BY <1>1, <1>2, <1>6, SMT
  <2>2. z - s < 7 /\ s - z < 7
    BY <1>3, <1>4, <1>6, <2>1, SMT
  <2>3. weekday_from_days(z) = 0
    BY <1>1, <1>6, SMT
  <2> QED
    BY <1>3, <1>4, <2>2, <2>3, OneSunday, SMT
<1>7. ASSUME z = s PROVE m = 3 /\ w = 0 /\ n = 2
  <2>1. m = 3 /\ 8 <= d /\ d <= 14
    BY <1>3, <1>4, <1>7, SMT
  <2>2. w = 0
    BY <1>1, <1>4, <1>7, SMT
  <2> QED
    BY <1>1, <1>2, <2>1, <2>2, SMT
<1>8. ASSUME m = 11, w = 0, n = 1 PROVE z = a
  <2>1. 1 <= d /\ d <= 7
    BY <1>1, <1>2, <1>8, SMT
  <2>2. z - a < 7 /\ a - z < 7
    BY <1>3, <1>4, <1>8, <2>1, SMT
  <2>3. weekday_from_days(z) = 0
    BY <1>1, <1>8, SMT
  <2> QED
    BY <1>3, <1>4, <2>2, <2>3, OneSunday, SMT
<1>9. ASSUME z = a PROVE m = 11 /\ w = 0 /\ n = 1
  <2>1. m = 11 /\ 1 <= d /\ d <= 7
    BY <1>3, <1>4, <1>9, SMT
  <2>2. w = 0
    BY <1>1, <1>4, <1>9, SMT
  <2> QED
    BY <1>1, <1>2, <2>1, <2>2, SMT
<1> QED
  BY <1>2, <1>6, <1>7, <1>8, <1>9, SMT

LEMMA SundayCount ==
  ASSUME NEW d \in 1 .. 31, NEW w \in 0 .. 6, NEW w2, w2 = IF w = 6 THEN 0 ELSE w + 1
  PROVE  /\ (d - w + 6) \div 7 + Bool01(w = 6) = (d + 1 - w2 + 6) \div 7
         /\ Bool01(w = 6) = (1 - w2 + 6) \div 7
<1>1. CASE w = 6
  BY <1>1, SMT DEF Bool01
<1>2. CASE w # 6
  BY <1>2, SMT DEF Bool01
<1> QED
  BY <1>1, <1>2

\* The next page of the wall.
LEMMA TurnedOnWall ==
  ASSUME NEW c, NEW z, NEW w, NEW n, OnWall(c, z, w, n), NEW n2,
         n2 = (IF c.d = MonthLength(c.y, c.m) THEN 0 ELSE n) + Bool01(w = 6)
  PROVE  OnWall(Turned(c), z + 1, (w + 1) % 7, n2)
<1>1. c \in Dates /\ z = DayOfDate(c) /\ w = weekday_from_days(z) /\ n = (c.d - w + 6) \div 7
  BY SMT DEF OnWall
<1>2. Turned(c) \in Dates /\ z \in Int /\ z + 1 = DayOfDate(Turned(c))
  BY <1>1, NextDate, SMT
<1>3. w \in 0 .. 6 /\ (w + 1) % 7 = weekday_from_days(z + 1)
  BY <1>1, <1>2, SMT DEF weekday_from_days
<1>4. PICK d \in 1 .. 31 : d = c.d
  BY <1>1, DayInYear, SMT
<1>a. PICK w2 \in 0 .. 6, z2 \in Int : w2 = (w + 1) % 7 /\ z2 = z + 1 /\ w2 = (IF w = 6 THEN 0 ELSE w + 1)
  BY <1>2, <1>3, SMT
<1>5. CASE d = MonthLength(c.y, c.m)
  <2>1. Turned(c).d = 1
    BY <1>4, <1>5, SMT DEF Turned
  <2>2. n2 = Bool01(w = 6)
    BY <1>4, <1>5, SMT DEF Bool01
  <2>3. n2 = (1 - w2 + 6) \div 7
    BY <1>3, <1>a, <2>2, SundayCount, SMT
  <2> QED
    BY <1>2, <1>3, <1>a, <2>1, <2>3, SMT DEF OnWall
<1>6. CASE d # MonthLength(c.y, c.m)
  <2>1. Turned(c).d = d + 1
    BY <1>4, <1>6, SMT DEF Turned
  <2>2. n2 = (d - w + 6) \div 7 + Bool01(w = 6)
    BY <1>1, <1>4, <1>6, SMT
  <2>3. n2 = (d + 1 - w2 + 6) \div 7
    BY <1>3, <1>a, <2>2, SundayCount, SMT
  <2> QED
    BY <1>2, <1>3, <1>a, <2>1, <2>3, SMT DEF OnWall
<1> QED
  BY <1>5, <1>6

LEMMA CalendarInitIInv == CalendarInit => CalendarIInv
<1> SUFFICES ASSUME CalendarInit PROVE CalendarIInv
  OBVIOUS
<1>1. date = [y |-> 2007, m |-> 1, d |-> 1] /\ day = 13514 /\ weekday = 1 /\ sundays = 0 /\ summer = FALSE
  BY DEF CalendarInit
<1>2. date \in Dates /\ date.y = 2007 /\ date.m = 1 /\ date.d = 1
  BY <1>1, SMT DEF Dates, MonthLength
<1>3. DayOfDate(date) = 13514
  <2>1. days_from_civil(2007, 1, 1) = 13514
    BY SMT DEF days_from_civil, Bool01
  <2> QED
    BY <1>2, <2>1, SMT DEF DayOfDate
<1>4. OnWall(date, day, weekday, sundays)
  BY <1>1, <1>2, <1>3, SMT DEF OnWall, weekday_from_days
<1>5. ~ InSummer(date.y, day)
  <2>1. DayOfDate(date) < MarchFirst(2007) /\ MarchFirst(2007) \in Int
    BY <1>2, DayInYear, SMT
  <2>2. Spring(2007) \in Int /\ MarchFirst(2007) + 7 <= Spring(2007)
    BY SwitchDays, SMT
  <2> QED
    BY <1>1, <1>2, <1>3, <2>1, <2>2, SMT DEF InSummer
<1>a. summer = FALSE
  BY <1>1, SMT
<1>6. summer \in BOOLEAN /\ ~ summer
  BY <1>a, Zenon
<1>7. TwoDigits(date.y)
  BY <1>2, SMT DEF TwoDigits
<1> QED
  BY <1>4, <1>5, <1>6, <1>7, Zenon DEF CalendarIInv

\* What a turned page does to the state, with the switches by their names.
LEMMA PageTurned ==
  ASSUME TurnPage, OnWall(date, day, weekday, sundays)
  PROVE  /\ date' = Turned(date) /\ day' = day + 1
         /\ OnWall(date', day', weekday', sundays')
         /\ date.y < LastYear \/ ~ (date.m = 12 /\ date.d = MonthLength(date.y, date.m))
         /\ day' = Spring(date'.y) => summer' = TRUE
         /\ day' = Autumn(date'.y) => summer' = FALSE
         /\ day' # Spring(date'.y) /\ day' # Autumn(date'.y) => summer' = summer
<1> DEFINE last == date.d = MonthLength(date.y, date.m)
           newDate == IF ~last THEN [date EXCEPT !.d = @ + 1]
                      ELSE IF date.m < 12 THEN [date EXCEPT !.m = @ + 1, !.d = 1]
                      ELSE [y |-> date.y + 1, m |-> 1, d |-> 1]
           newSundays == (IF last THEN 0 ELSE sundays) + Bool01(weekday = 6)
<1>1. /\ date.y < LastYear \/ ~(date.m = 12 /\ last)
      /\ date' = newDate /\ day' = day + 1 /\ weekday' = (weekday + 1) % 7 /\ sundays' = newSundays
      /\ summer' = CASE newDate.m = 3 /\ weekday' = 0 /\ newSundays = 2 -> TRUE
                     [] newDate.m = 11 /\ weekday' = 0 /\ newSundays = 1 -> FALSE
                     [] OTHER -> summer
  BY DEF TurnPage
<1>2. newDate = Turned(date)
  <2>1. PICK y \in Int, m \in 1 .. 12, d \in 1 .. 31 : date = [y |-> y, m |-> m, d |-> d]
    BY DateParts, SMT DEF OnWall
  <2>3. date.y = y /\ date.m = m /\ date.d = d
    BY <2>1, SMT
  <2>2. [date EXCEPT !.d = @ + 1] = [y |-> y, m |-> m, d |-> d + 1]
    BY <2>1, SMT
  <2>4. [date EXCEPT !.m = @ + 1, !.d = 1] = [y |-> y, m |-> m + 1, d |-> 1]
    <3>1. [date EXCEPT !.m = @ + 1] = [y |-> y, m |-> m + 1, d |-> d]
      BY <2>1, SMT
    <3>2. [date EXCEPT !.m = @ + 1, !.d = 1] = [[y |-> y, m |-> m + 1, d |-> d] EXCEPT !.d = 1]
      BY <3>1, Zenon
    <3> QED
      BY <3>2, SMT
  <2> QED
    BY <2>2, <2>3, <2>4, Zenon DEF Turned
<1>3. OnWall(date', day', weekday', sundays')
  <2>1. sundays' = (IF date.d = MonthLength(date.y, date.m) THEN 0 ELSE sundays) + Bool01(weekday = 6)
    BY <1>1
  <2>2. OnWall(Turned(date), day + 1, (weekday + 1) % 7, sundays')
    BY <2>1, TurnedOnWall, SMT
  <2> QED
    BY <1>1, <1>2, <2>2
<1>4. /\ date'.m = 3 /\ weekday' = 0 /\ sundays' = 2 <=> day' = Spring(date'.y)
      /\ date'.m = 11 /\ weekday' = 0 /\ sundays' = 1 <=> day' = Autumn(date'.y)
  BY <1>3, SwitchIs, SMT
<1>5. summer' = CASE date'.m = 3 /\ weekday' = 0 /\ sundays' = 2 -> TRUE
                  [] date'.m = 11 /\ weekday' = 0 /\ sundays' = 1 -> FALSE
                  [] OTHER -> summer
  BY <1>1
<1>6. /\ day' = Spring(date'.y) => summer' = TRUE
      /\ day' = Autumn(date'.y) => summer' = FALSE
      /\ day' # Spring(date'.y) /\ day' # Autumn(date'.y) => summer' = summer
  <2>1. ~ (date'.m = 3 /\ date'.m = 11)
    BY SMT
  <2> QED
    BY <1>4, <1>5, <2>1, Zenon
<1> HIDE DEF newDate, newSundays
<1> QED
  BY <1>1, <1>2, <1>3, <1>6

LEMMA CalendarStep == CalendarIInv /\ [CalendarNext]_calendarVars => CalendarIInv'
<1> SUFFICES ASSUME CalendarIInv, [CalendarNext]_calendarVars PROVE CalendarIInv'
  OBVIOUS
<1>1. CASE UNCHANGED calendarVars
  BY <1>1 DEF CalendarIInv, calendarVars
<1>2. CASE TurnPage
  <2>1. OnWall(date, day, weekday, sundays) /\ TwoDigits(date.y) /\ summer \in BOOLEAN
        /\ (summer <=> InSummer(date.y, day))
    BY DEF CalendarIInv
  <2>2. /\ date' = Turned(date) /\ day' = day + 1
        /\ OnWall(date', day', weekday', sundays')
        /\ date.y < LastYear \/ ~ (date.m = 12 /\ date.d = MonthLength(date.y, date.m))
        /\ day' = Spring(date'.y) => summer' = TRUE
        /\ day' = Autumn(date'.y) => summer' = FALSE
        /\ day' # Spring(date'.y) /\ day' # Autumn(date'.y) => summer' = summer
    BY <1>2, <2>1, PageTurned, Zenon
  <2>3. date \in Dates /\ date.y \in Int /\ date.m \in 1 .. 12 /\ day \in Int /\ day = DayOfDate(date)
    BY <2>1, DayInYear, SMT DEF OnWall
  <2>4. date' \in Dates /\ day' = DayOfDate(date')
    BY <2>2, SMT DEF OnWall
  <2>5. \/ date'.y = date.y
        \/ date'.y = date.y + 1 /\ date.m = 12 /\ date'.m = 1 /\ date.d = MonthLength(date.y, date.m)
    BY <2>2, <2>3, SMT DEF Turned
  <2>6. TwoDigits(date'.y)
    BY <2>1, <2>2, <2>3, <2>5, CalendarAssumption, SMT DEF TwoDigits
  <2>7. summer' \in BOOLEAN /\ (summer' <=> InSummer(date'.y, day'))
    <3>1. PICK y \in Int, s \in Int, a \in Int : y = date'.y /\ s = Spring(y) /\ a = Autumn(y) /\ s < a
      <4>1. date'.y \in Int
        BY <2>4, DayInYear, SMT
      <4>2. Spring(date'.y) \in Int /\ Autumn(date'.y) \in Int /\ Spring(date'.y) < Autumn(date'.y)
        BY <4>1, SwitchDays, SMT
      <4> QED
        BY <4>1, <4>2
    <3>2. CASE date'.y = date.y
      <4>1. summer <=> s <= day /\ day < a
        BY <2>1, <3>1, <3>2 DEF InSummer
      <4>2. InSummer(date'.y, day') <=> s <= day + 1 /\ day + 1 < a
        BY <2>2, <3>1 DEF InSummer
      <4>3. CASE day' = s
        <5>1. s <= day + 1 /\ day + 1 < a
          BY <2>2, <2>3, <3>1, <4>3, SMT
        <5> QED
          BY <2>2, <3>1, <4>2, <4>3, <5>1, Zenon
      <4>4. CASE day' = a
        <5>1. ~ (s <= day + 1 /\ day + 1 < a)
          BY <2>2, <2>3, <3>1, <4>4, SMT
        <5> QED
          BY <2>2, <3>1, <4>2, <4>4, <5>1, Zenon
      <4>5. CASE day' # s /\ day' # a
        <5>1. (s <= day + 1 /\ day + 1 < a) <=> (s <= day /\ day < a)
          BY <2>2, <2>3, <3>1, <4>5, SMT
        <5> QED
          BY <2>1, <2>2, <3>1, <4>1, <4>2, <4>5, <5>1, Zenon
      <4> QED
        BY <4>3, <4>4, <4>5
    <3>3. CASE date'.y = date.y + 1 /\ date.m = 12 /\ date'.m = 1
      <4>1. Autumn(date.y) \in Int /\ Autumn(date.y) <= MarchFirst(date.y) + 251 /\ MarchFirst(date.y) \in Int
        BY <2>3, SwitchDays, SMT
      <4>2. MarchFirst(date.y) + 275 <= day
        BY <2>3, <3>3, DayInYear, SMT
      <4>3. ~ InSummer(date.y, day)
        BY <2>3, <4>1, <4>2, SMT DEF InSummer
      <4>4. MarchFirst(y) \in Int /\ MarchFirst(y) + 7 <= s /\ MarchFirst(y) + 245 <= a
        BY <3>1, SwitchDays, SMT
      <4>5. day' \in Int /\ day' < MarchFirst(y)
        BY <2>4, <3>1, <3>3, DayInYear, SMT
      <4>6. day' # s /\ day' # a /\ ~ (s <= day')
        BY <3>1, <4>4, <4>5, SMT
      <4> QED
        BY <2>1, <2>2, <3>1, <4>3, <4>6, Zenon DEF InSummer
    <3> QED
      BY <2>5, <3>2, <3>3
  <2> QED
    BY <2>2, <2>6, <2>7, Zenon DEF CalendarIInv
<1> QED
  BY <1>1, <1>2 DEF CalendarNext

\* The formulas of util/time.cpp follow the calendar, page by page.
LEMMA CivilFromIInv == CalendarIInv => CivilIsCalendar
<1> SUFFICES ASSUME CalendarIInv PROVE CivilIsCalendar
  OBVIOUS
<1>1. date \in Dates /\ day = days_from_civil(date.y, date.m, date.d) /\ weekday = weekday_from_days(day)
  BY DEF CalendarIInv, OnWall, DayOfDate
<1> QED
  BY <1>1, CivilOfDays, SMT DEF CivilIsCalendar

-----------------------------------------------------------------------------
(* Eastern time *)

LEMMA OffsetIs ==
  ASSUME NEW s \in Int, NEW c \in Dates, s \div 86400 = DayOfDate(c)
  PROVE  eastern_utc_offset_s(s) =
           IF s >= Spring(c.y) * 86400 + 25200 /\ s < Autumn(c.y) * 86400 + 21600 THEN -14400 ELSE -18000
<1>1. civil_from_days(s \div 86400).y = c.y
  BY CivilOfDays, SMT DEF DayOfDate
<1>2. c.y \in Int /\ Spring(c.y) \in Int /\ Autumn(c.y) \in Int
  BY DayInYear, SwitchDays, SMT
<1>3. eastern_utc_offset_s(s) =
        IF s >= Spring(c.y) * 86400 + 7 * 3600 /\ s < Autumn(c.y) * 86400 + 6 * 3600 THEN -4 * 3600 ELSE -5 * 3600
  BY <1>1, SMT DEF eastern_utc_offset_s, Spring, Autumn
<1> QED
  BY <1>2, <1>3, SMT

\* The offset of the night before a day's two o'clock.
NightOffset(c) == IF Spring(c.y) < DayOfDate(c) /\ DayOfDate(c) <= Autumn(c.y) THEN -14400 ELSE -18000

LEMMA MidnightIs ==
  ASSUME NEW c \in Dates
  PROVE  /\ NightOffset(c) \in {-14400, -18000}
         /\ eastern_midnight(c.y, c.m, c.d) = DayOfDate(c) * 86400 - NightOffset(c)
<1>1. PICK z \in Int, a \in Int, b \in Int : z = DayOfDate(c) /\ a = Spring(c.y) /\ b = Autumn(c.y)
  <2>1. c.y \in Int /\ DayOfDate(c) \in Int
    BY DayInYear, SMT
  <2>2. Spring(c.y) \in Int /\ Autumn(c.y) \in Int
    BY <2>1, SwitchDays, SMT
  <2> QED
    BY <2>1, <2>2, SMT
<1>2. PICK s \in Int : s = z * 86400 + 18000
  BY SMT
<1>3. s \div 86400 = z
  BY <1>2, SMT
<1>4. eastern_utc_offset_s(s) = IF s >= a * 86400 + 25200 /\ s < b * 86400 + 21600 THEN -14400 ELSE -18000
  BY <1>1, <1>3, OffsetIs, SMT
<1>5. eastern_utc_offset_s(s) = NightOffset(c)
  BY <1>1, <1>2, <1>4, SMT DEF NightOffset
<1>6. eastern_midnight(c.y, c.m, c.d) = z * 86400 - eastern_utc_offset_s(z * 86400 + 5 * 3600)
  BY <1>1, SMT DEF eastern_midnight, DayOfDate
<1>7. z * 86400 + 5 * 3600 = s
  BY <1>2, SMT
<1>8. NightOffset(c) \in {-14400, -18000}
  BY SMT DEF NightOffset
<1> QED
  BY <1>1, <1>5, <1>6, <1>7, <1>8, SMT

\* The instant of a wall-clock time, and the UTC day it falls on.
TimeOf(s, c, h, mi) ==
  /\ c \in Dates /\ h \in 0 .. 23 /\ mi \in Int /\ 0 <= mi /\ mi <= 59
  /\ s = DayOfDate(c) * 86400 - NightOffset(c) + (h * 3600 + mi * 60)

LEMMA UtcDay ==
  ASSUME NEW s, NEW c, NEW h, NEW mi, TimeOf(s, c, h, mi)
  PROVE  /\ s \in Int
         /\ \E b \in Dates : (b = c \/ b = Turned(c)) /\ s \div 86400 = DayOfDate(b)
<1>1. PICK z \in Int, f \in {-14400, -18000} : z = DayOfDate(c) /\ f = NightOffset(c)
  BY DayInYear, MidnightIs, SMT DEF TimeOf
<1>2. s \in Int /\ s = z * 86400 - f + (h * 3600 + mi * 60) /\ h \in 0 .. 23 /\ mi \in Int /\ 0 <= mi /\ mi <= 59
  BY <1>1, SMT DEF TimeOf
<1>3. s \div 86400 = z \/ s \div 86400 = z + 1
  BY <1>1, <1>2, SMT
<1>4. c \in Dates /\ Turned(c) \in Dates /\ DayOfDate(Turned(c)) = z + 1
  BY <1>1, NextDate, SMT DEF TimeOf
<1> QED
  BY <1>1, <1>2, <1>3, <1>4, SMT

\* But for the days of the switches, midnight has the offset of the whole day.
LEMMA DayOffset ==
  ASSUME NEW s, NEW c, NEW h, NEW mi, TimeOf(s, c, h, mi), DayOfDate(c) # Spring(c.y), DayOfDate(c) # Autumn(c.y)
  PROVE  eastern_utc_offset_s(s) = NightOffset(c)
<1>1. s \in Int /\ c \in Dates
  BY UtcDay, SMT DEF TimeOf
<1>2. PICK b \in Dates : (b = c \/ b = Turned(c)) /\ s \div 86400 = DayOfDate(b)
  BY UtcDay, SMT
<1>3. /\ c.y \in Int /\ c.m \in 1 .. 12 /\ DayOfDate(c) \in Int /\ b.y \in Int /\ DayOfDate(b) \in Int
      /\ MarchFirst(b.y) \in Int /\ MarchFirst(c.y) \in Int
      /\ b.m <= 2 => DayOfDate(b) < MarchFirst(b.y)
      /\ c.m = 12 => MarchFirst(c.y) + 275 <= DayOfDate(c)
  BY <1>1, DayInYear, SMT
<1>4. /\ Spring(c.y) \in Int /\ Autumn(c.y) \in Int /\ Spring(b.y) \in Int /\ Autumn(b.y) \in Int
      /\ MarchFirst(b.y) + 7 <= Spring(b.y)
      /\ Autumn(c.y) <= MarchFirst(c.y) + 251
  BY <1>3, SwitchDays, SMT
<1>5. PICK z \in Int, v \in Int, a \in Int, e \in Int, a2 \in Int, e2 \in Int :
         z = DayOfDate(c) /\ v = DayOfDate(b) /\ a = Spring(c.y) /\ e = Autumn(c.y) /\ a2 = Spring(b.y) /\ e2 = Autumn(b.y)
  BY <1>3, <1>4, Zenon
<1>6. eastern_utc_offset_s(s) = IF s >= a2 * 86400 + 25200 /\ s < e2 * 86400 + 21600 THEN -14400 ELSE -18000
  BY <1>1, <1>2, <1>5, OffsetIs, SMT
<1>7. PICK f \in {-14400, -18000} : f = NightOffset(c) /\ f = (IF a < z /\ z <= e THEN -14400 ELSE -18000)
  BY <1>5, SMT DEF NightOffset
<1>8. s = z * 86400 - f + (h * 3600 + mi * 60) /\ h \in 0 .. 23 /\ mi \in Int /\ 0 <= mi /\ mi <= 59
  BY <1>5, <1>7, SMT DEF TimeOf
<1>9. z # a /\ z # e
  BY <1>5, SMT
<1>10. CASE b.y = c.y
  <2>1. a2 = a /\ e2 = e
    BY <1>5, <1>10, SMT
  <2> QED
    BY <1>6, <1>7, <1>8, <1>9, <2>1, SMT
<1>11. CASE b.y # c.y
  <2>1. b.m = 1 /\ c.m = 12 /\ b = Turned(c)
    BY <1>2, <1>3, <1>11, SMT DEF Turned
  <2>2. v < a2 /\ e < z /\ s \div 86400 = v
    BY <1>2, <1>3, <1>4, <1>5, <2>1, SMT
  <2>3. s < a2 * 86400
    BY <1>1, <2>2, SMT
  <2> QED
    BY <1>1, <1>6, <1>7, <2>2, <2>3, SMT
<1> QED
  BY <1>10, <1>11

LEMMA WallParts ==
  ASSUME CalendarIInv
  PROVE  /\ date \in Dates /\ DayOfDate(date) = day /\ day \in Int
         /\ date.y \in Int /\ date.m \in 1 .. 12 /\ date.d \in 1 .. 31 /\ 2007 <= date.y /\ date.y <= 2069
         /\ civil_from_days(day) = date
<1>1. date \in Dates /\ day = DayOfDate(date) /\ 2007 <= date.y /\ date.y <= 2069
  BY SMT DEF CalendarIInv, OnWall, TwoDigits
<1> QED
  BY <1>1, DayInYear, CivilOfDays, SMT DEF DayOfDate

\* What the halt feed's date and time is read as.
LEMMA ReadAs ==
  ASSUME CalendarIInv, NEW h \in 0 .. 23, NEW mi \in Int, 0 <= mi, mi <= 59
  PROVE  TimeOf(parse_eastern_mdy_time(At(h, mi)), date, h, mi)
<1> DEFINE t == At(h, mi)
<1>1. /\ date \in Dates /\ DayOfDate(date) = day /\ day \in Int
      /\ date.y \in Int /\ date.m \in 1 .. 12 /\ date.d \in 1 .. 31 /\ 2007 <= date.y
  BY WallParts, SMT
<1>2. t.y = date.y /\ t.m = date.m /\ t.d = date.d /\ t.hh = h /\ t.mi = mi /\ t.ss = -1
  BY SMT DEF At
<1> HIDE DEF t
<1>3. ValidDay(t) /\ ~ (t.y < 1900) /\ t.hh # -1 /\ t.mi # -1
  BY <1>1, <1>2, SMT DEF ValidDay
<1>4. ClockSeconds(Clock(t)) = h * 3600 + mi * 60
  BY <1>2, <1>3, SMT DEF ClockSeconds, Clock
<1>5. parse_eastern_mdy_time(t) = eastern_midnight(date.y, date.m, date.d) + ClockSeconds(Clock(t))
  BY <1>2, <1>3, SMT DEF parse_eastern_mdy_time
<1>6. NightOffset(date) \in {-14400, -18000} /\ eastern_midnight(date.y, date.m, date.d) = day * 86400 - NightOffset(date)
  BY <1>1, MidnightIs, SMT
<1>7. parse_eastern_mdy_time(t) = DayOfDate(date) * 86400 - NightOffset(date) + (h * 3600 + mi * 60)
  BY <1>1, <1>4, <1>5, <1>6, SMT
<1> QED
  BY <1>1, <1>7, SMT DEF TimeOf, t

LEMMA SwitchDayIs ==
  ASSUME CalendarIInv
  PROVE  SwitchDay <=> DayOfDate(date) = Spring(date.y) \/ DayOfDate(date) = Autumn(date.y)
<1>1. OnWall(date, day, weekday, sundays) /\ day = DayOfDate(date)
  BY DEF CalendarIInv, OnWall
<1>2. /\ date.m = 3 /\ weekday = 0 /\ sundays = 2 <=> day = Spring(date.y)
      /\ date.m = 11 /\ weekday = 0 /\ sundays = 1 <=> day = Autumn(date.y)
  BY <1>1, SwitchIs, SMT
<1> QED
  BY <1>1, <1>2, Zenon DEF SwitchDay

\* Seconds of a day as a clock shows them.
Showing(x, z, h, mi) == /\ x \in Int /\ z \in Int /\ h \in 0 .. 23 /\ mi \in Int /\ 0 <= mi /\ mi <= 59
                        /\ x = z * 86400 + (h * 3600 + mi * 60)
LEMMA ClockOfDay ==
  ASSUME NEW x, NEW z, NEW h, NEW mi, Showing(x, z, h, mi)
  PROVE  x \div 86400 = z /\ (x % 86400) \div 60 = h * 60 + mi
<1>1. PICK u \in Int : u = h * 3600 + mi * 60 /\ 0 <= u /\ u < 86400 /\ u = 60 * (h * 60 + mi)
  BY SMT DEF Showing
<1>2. x \div 86400 = z /\ x % 86400 = u
  BY <1>1, SMT DEF Showing
<1>3. u \div 60 = h * 60 + mi
  BY <1>1, SMT DEF Showing
<1> QED
  BY <1>2, <1>3

LEMMA ClockFields ==
  ASSUME NEW sod \in Int, 0 <= sod, sod < 86400
  PROVE  \E hh \in Int, mi \in Int, ss \in Int :
            /\ hh = sod \div 3600 /\ mi = (sod \div 60) % 60 /\ ss = sod % 60
            /\ 0 <= hh /\ 0 <= mi /\ 0 <= ss /\ hh * 3600 + mi * 60 + ss = sod
<1>1. PICK a \in Int, ss \in Int : a = sod \div 60 /\ ss = sod % 60 /\ sod = 60 * a + ss /\ 0 <= ss /\ ss < 60 /\ 0 <= a
  BY SMT
<1>2. PICK hh \in Int, mi \in Int : hh = a \div 60 /\ mi = a % 60 /\ a = 60 * hh + mi /\ 0 <= mi /\ mi < 60 /\ 0 <= hh
  BY <1>1, SMT
<1>3. sod \div 3600 = hh
  BY <1>1, <1>2, SMT
<1>4. hh * 3600 + mi * 60 + ss = sod
  BY <1>1, <1>2, SMT
<1>5. (sod \div 60) % 60 = mi
  BY <1>1, <1>2, SMT
<1> QED
  BY <1>1, <1>2, <1>3, <1>4, <1>5, SMT

\* A time read and turned back.
LEMMA ClockFromIInv == CalendarIInv => EasternClockKept
<1> SUFFICES ASSUME CalendarIInv, NEW t \in ClockTimes, ~ SwitchDay
             PROVE  LET s == parse_eastern_mdy_time(At(t[1], t[2]))
                    IN eastern_date(s) = date /\ eastern_minute_of_day(s) = t[1] * 60 + t[2]
  BY DEF EasternClockKept
<1>1. PICK h \in 0 .. 23, mi \in Int : h = t[1] /\ mi = t[2] /\ 0 <= mi /\ mi <= 59
  BY CalendarAssumption, SMT
<1>2. PICK s : s = parse_eastern_mdy_time(At(t[1], t[2]))
  OBVIOUS
<1>3. TimeOf(s, date, h, mi)
  BY <1>1, <1>2, ReadAs, SMT
<1>4. eastern_utc_offset_s(s) = NightOffset(date)
  BY <1>3, SwitchDayIs, DayOffset, SMT
<1>5. day \in Int /\ civil_from_days(day) = date /\ day = DayOfDate(date) /\ date \in Dates
  BY WallParts, SMT
<1>6. NightOffset(date) \in {-14400, -18000}
  BY <1>5, MidnightIs, SMT
<1>7. s \in Int /\ s = day * 86400 - NightOffset(date) + (h * 3600 + mi * 60)
  BY <1>3, <1>5, UtcDay, SMT DEF TimeOf
<1>8. PICK x \in Int : x = s + eastern_utc_offset_s(s) /\ x = day * 86400 + (h * 3600 + mi * 60)
  <2>1. PICK f \in Int : f = NightOffset(date)
    BY <1>6, SMT
  <2>2. s + f = day * 86400 + (h * 3600 + mi * 60) /\ s + f \in Int
    BY <1>1, <1>5, <1>7, <2>1, SMT
  <2> QED
    BY <1>4, <2>1, <2>2, SMT
<1>9. x \div 86400 = day /\ (x % 86400) \div 60 = h * 60 + mi
  <2>1. Showing(x, day, h, mi)
    BY <1>1, <1>5, <1>8, SMT DEF Showing
  <2> QED
    BY <2>1, ClockOfDay, SMT
<1>10. eastern_date(s) = date
  BY <1>5, <1>8, <1>9, SMT DEF eastern_date
<1>11. eastern_minute_of_day(s) = h * 60 + mi
  BY <1>8, <1>9, SMT DEF eastern_minute_of_day
<1> QED
  BY <1>1, <1>2, <1>10, <1>11, Zenon

\* What format_utc_iso writes is read as the same instant.
LEMMA IsoKept ==
  ASSUME NEW s \in Int, NEW b \in Dates, s \div 86400 = DayOfDate(b)
  PROVE  parse_iso8601(format_utc_iso(s)) = s
<1> DEFINE t == format_utc_iso(s)
<1>1. PICK z \in Int, sod \in Int : z = s \div 86400 /\ sod = s % 86400 /\ s = 86400 * z + sod /\ 0 <= sod /\ sod < 86400
  BY SMT
<1>2. civil_from_days(z) = b /\ days_from_civil(b.y, b.m, b.d) = z /\ b.m \in 1 .. 12 /\ b.d \in 1 .. 31
  BY <1>1, CivilOfDays, DayInYear, SMT DEF DayOfDate
<1>3. /\ t.y = b.y /\ t.m = b.m /\ t.d = b.d /\ t.hh = sod \div 3600 /\ t.mi = (sod \div 60) % 60 /\ t.ss = sod % 60
      /\ t.zone = "z"
  BY <1>1, <1>2, SMT DEF format_utc_iso
<1> HIDE DEF t
<1>4. PICK hh \in Int, mi \in Int, ss \in Int : /\ hh = t.hh /\ mi = t.mi /\ ss = t.ss
                                                /\ 0 <= hh /\ 0 <= mi /\ 0 <= ss /\ hh * 3600 + mi * 60 + ss = sod
  <2>1. PICK hh \in Int, mi \in Int, ss \in Int :
            /\ hh = sod \div 3600 /\ mi = (sod \div 60) % 60 /\ ss = sod % 60
            /\ 0 <= hh /\ 0 <= mi /\ 0 <= ss /\ hh * 3600 + mi * 60 + ss = sod
    BY <1>1, ClockFields, SMT
  <2> QED
    BY <1>3, <2>1, SMT
<1>5. ClockSeconds(Clock(t)) = sod /\ t.hh # -1 /\ t.mi # -1
  BY <1>4, SMT DEF ClockSeconds, Clock
<1>6. zone_offset_s(t.zone) = 0
  BY <1>3, SMT DEF zone_offset_s
<1>7. ValidDay(t)
  BY <1>2, <1>3, SMT DEF ValidDay
<1>8. parse_iso8601(t) = z * 86400 + sod - 0
  BY <1>2, <1>3, <1>5, <1>6, <1>7, SMT DEF parse_iso8601, Unknown
<1> QED
  BY <1>1, <1>8, SMT DEF t

LEMMA TextsFromIInv == CalendarIInv => TextsAgree
<1> SUFFICES ASSUME CalendarIInv, NEW t \in ClockTimes
             PROVE  LET s == parse_eastern_mdy_time(At(t[1], t[2]))
                        rss == [At(t[1], t[2]) EXCEPT !.zone = IF summer THEN "edt" ELSE "est",
                                                      !.y = date.y % 100, !.ydigits = 2]
                    IN /\ parse_iso8601(format_utc_iso(s)) = s
                       /\ SwitchDay \/ parse_rfc822(rss) = s
  BY DEF TextsAgree
<1>1. PICK h \in 0 .. 23, mi \in Int : h = t[1] /\ mi = t[2] /\ 0 <= mi /\ mi <= 59
  BY CalendarAssumption, SMT
<1>2. PICK s : s = parse_eastern_mdy_time(At(t[1], t[2]))
  OBVIOUS
<1>3. TimeOf(s, date, h, mi)
  BY <1>1, <1>2, ReadAs, SMT
<1>4. parse_iso8601(format_utc_iso(s)) = s
  BY <1>3, UtcDay, IsoKept, SMT
<1>5. PICK r : r = [At(t[1], t[2]) EXCEPT !.zone = IF summer THEN "edt" ELSE "est", !.y = date.y % 100, !.ydigits = 2]
  OBVIOUS
<1>6. ASSUME ~ SwitchDay PROVE parse_rfc822(r) = s
  <2>1. /\ date \in Dates /\ DayOfDate(date) = day /\ day \in Int
        /\ date.y \in Int /\ date.m \in 1 .. 12 /\ date.d \in 1 .. 31 /\ 2007 <= date.y /\ date.y <= 2069
    BY WallParts, SMT
  <2>2. /\ r.y = date.y % 100 /\ r.m = date.m /\ r.d = date.d /\ r.hh = h /\ r.mi = mi /\ r.ss = -1 /\ r.ydigits = 2
        /\ r.zone = IF summer THEN "edt" ELSE "est"
    BY <1>1, <1>5, SMT DEF At
  <2>3. ClockSeconds(Clock(r)) = h * 3600 + mi * 60 /\ r.hh # -1 /\ r.mi # -1
    BY <1>1, <2>2, SMT DEF ClockSeconds, Clock
  <2>4. ValidDay(r)
    BY <2>1, <2>2, SMT DEF ValidDay
  <2>5. r.y + (IF r.y < 70 THEN 2000 ELSE 1900) = date.y
    BY <2>1, <2>2, SMT
  <2>6. zone_offset_s(r.zone) = NightOffset(date)
    <3>1. summer <=> Spring(date.y) <= day /\ day < Autumn(date.y)
      BY Zenon DEF CalendarIInv, InSummer
    <3>2. day # Spring(date.y) /\ day # Autumn(date.y) /\ Spring(date.y) \in Int /\ Autumn(date.y) \in Int
      BY <1>6, <2>1, SwitchDayIs, SwitchDays, SMT
    <3>3. (Spring(date.y) <= day /\ day < Autumn(date.y)) <=> (Spring(date.y) < day /\ day <= Autumn(date.y))
      BY <2>1, <3>2, SMT
    <3>4. CASE summer
      <4>1. r.zone = "edt"
        BY <2>2, <3>4, Zenon
      <4>2. Spring(date.y) < day /\ day <= Autumn(date.y)
        BY <3>1, <3>3, <3>4, Zenon
      <4> QED
        BY <2>1, <4>1, <4>2, SMT DEF zone_offset_s, NightOffset
    <3>5. CASE ~ summer
      <4>1. r.zone = "est"
        BY <2>2, <3>5, Zenon
      <4>2. ~ (Spring(date.y) < day /\ day <= Autumn(date.y))
        BY <3>1, <3>3, <3>5, Zenon
      <4> QED
        BY <2>1, <4>1, <4>2, SMT DEF zone_offset_s, NightOffset
    <3> QED
      BY <3>4, <3>5
  <2>7. NightOffset(date) \in {-14400, -18000}
    BY <2>1, MidnightIs, SMT
  <2>8. parse_rfc822(r) = day * 86400 + (h * 3600 + mi * 60) - NightOffset(date)
    <3>1. days_from_civil(date.y, r.m, r.d) = day
      BY <2>1, <2>2, SMT DEF DayOfDate
    <3>2. NightOffset(date) # 1
      BY <2>7, SMT
    <3> QED
      BY <2>2, <2>3, <2>4, <2>5, <2>6, <3>1, <3>2, SMT DEF parse_rfc822, Unknown
  <2> QED
    BY <1>1, <1>3, <2>1, <2>7, <2>8, SMT DEF TimeOf
<1> QED
  BY <1>2, <1>4, <1>5, <1>6, Zenon

\* The pages of the wall calendar and the formulas agree, from 2007 on: the
\* invariant that carries the day number, the Sundays and the season along.
THEOREM CalendarInductive == CalendarSpec => []CalendarIInv
  BY CalendarInitIInv, CalendarStep, PTL DEF CalendarSpec

\* On every day on which a year of two digits is unambiguous, date, weekday,
\* Eastern clock and the three text forms of util/time.cpp are the day and the
\* time on the wall.
THEOREM EveryDayOnTheWall == CalendarSpec => []CalendarInv
<1>1. CalendarIInv => CalendarInv
  BY CivilFromIInv, ClockFromIInv, TextsFromIInv DEF CalendarInv
<1> QED
  BY <1>1, CalendarInductive, PTL

-----------------------------------------------------------------------------
(* Loops over sequences *)

LEMMA Least ==
  ASSUME NEW T, T \subseteq Nat, T # {}
  PROVE  \E n \in T : \A k \in T : n <= k
<1>1. PICK n \in T : \A k \in T : ~ (<<k, n>> \in OpToRel(<, Nat))
  BY NatLessThanWellFounded, WFMin
<1>2. \A k \in T : ~ (k < n)
  BY <1>1 DEF OpToRel
<1> QED BY <1>2

\* What holds before a loop and is kept by each of its N steps holds after each.
LEMMA EachStep ==
  ASSUME NEW N \in Nat, NEW T, 0 \in T, \A n \in 1 .. N : n - 1 \in T => n \in T
  PROVE  \A n \in 0 .. N : n \in T
<1> DEFINE Bad == {n \in 0 .. N : n \notin T}
<1>1. SUFFICES ASSUME Bad # {} PROVE FALSE
  OBVIOUS
<1>2. PICK n \in Bad : \A k \in Bad : n <= k
  <2>1. Bad \subseteq Nat
    OBVIOUS
  <2> HIDE DEF Bad
  <2> QED BY <1>1, <2>1, Least
<1>3. n \in 1 .. N
  BY <1>2
<1>4. n - 1 \in 0 .. N /\ n - 1 \notin Bad
  BY <1>2, <1>3
<1> QED BY <1>2, <1>3, <1>4

\* A loop of N steps over the values of S, ...
Steps(step, N, S) == N \in Nat /\ step \in [1 .. N -> [S -> S]]
\* ... and what it goes through from a first value on.
Goes(f, step, N, S, first) == f \in [0 .. N -> S] /\ f[0] = first /\ \A n \in 1 .. N : f[n] = step[n][f[n - 1]]

LEMMA LoopEnds ==
  ASSUME NEW N, NEW S, NEW step, Steps(step, N, S), NEW s0 \in S
  PROVE  \E f : Goes(f, step, N, S, s0)
<1>0. N \in Nat /\ step \in [1 .. N -> [S -> S]]
  BY DEF Steps
<1> DEFINE Loop(f, k) == f[0] = s0 /\ \A n \in 1 .. k : f[n] = step[n][f[n - 1]]
           T == {k \in 0 .. N : \E f \in [0 .. k -> S] : Loop(f, k)}
<1>1. 0 \in T
  <2>1. PICK f : f = [n \in 0 .. 0 |-> s0]
    OBVIOUS
  <2>2. f \in [0 .. 0 -> S] /\ Loop(f, 0)
    BY <2>1
  <2> HIDE DEF Loop
  <2> QED BY <2>2, <1>0
<1>2. ASSUME NEW n \in 1 .. N, n - 1 \in T PROVE n \in T
  <2>1. PICK f \in [0 .. n - 1 -> S] : Loop(f, n - 1)
    BY <1>0, <1>2
  <2>2. step[n][f[n - 1]] \in S
    BY <1>0
  <2>3. PICK g : g = [k \in 0 .. n |-> IF k = n THEN step[n][f[n - 1]] ELSE f[k]]
    OBVIOUS
  <2>4. g \in [0 .. n -> S]
    BY <1>0, <2>2, <2>3
  <2>5. g[0] = s0
    BY <1>0, <2>1, <2>3
  <2>6. ASSUME NEW k \in 1 .. n PROVE g[k] = step[k][g[k - 1]]
    <3>1. g[k - 1] = f[k - 1]
      BY <1>0, <2>3
    <3> QED BY <1>0, <2>1, <2>3, <3>1
  <2> QED BY <1>0, <2>4, <2>5, <2>6
<1>3. N \in T
  <2> HIDE DEF T
  <2>1. \A n \in 0 .. N : n \in T
    BY <1>0, <1>1, <1>2, EachStep
  <2> QED BY <2>1, <1>0
<1> QED BY <1>3 DEF Goes

-----------------------------------------------------------------------------
(* The facts in a history *)

Class == {"s1", "s3", "424b", "effect", "pre14", "def14", "s8", "8k", "6k", "10q", "10k", "nt", "other"}
Entry == [day : Int, cls : Class, items : SUBSET Item]
Histories == [Cik -> Seq(Entry)]
Row == [cik : Cik \cup {0}, day : Int, cls : Class, items : SUBSET Item]

Told(c, e) == Facts(c, e.day, e.cls, e.items)
FactsOf(h) == UNION {UNION {Told(c, h[c][n]) : n \in DOMAIN h[c]} : c \in Cik}
RowsFacts(rows) == UNION {Told(rows[n].cik, rows[n]) : n \in DOMAIN rows}

LEMMA InFacts ==
  ASSUME NEW h, NEW x
  PROVE  x \in FactsOf(h) <=> \E c \in Cik : \E n \in DOMAIN h[c] : x \in Told(c, h[c][n])
<1> DEFINE Of(c) == UNION {Told(c, h[c][n]) : n \in DOMAIN h[c]}
<1>1. \A c : x \in Of(c) <=> \E n \in DOMAIN h[c] : x \in Told(c, h[c][n])
  OBVIOUS
<1>2. FactsOf(h) = UNION {Of(c) : c \in Cik}
  BY DEF FactsOf
<1> HIDE DEF Of
<1>3. x \in FactsOf(h) <=> \E c \in Cik : x \in Of(c)
  BY <1>2
<1> QED BY <1>1, <1>3

LEMMA MoreItems ==
  ASSUME NEW c, NEW d, NEW cls, NEW a, NEW b
  PROVE  Facts(c, d, cls, a \cup b) = Facts(c, d, cls, a) \cup Facts(c, d, cls, b)
<1>1. CASE c = 0
  BY <1>1 DEF Facts
<1>2. CASE c # 0
  BY <1>2 DEF Facts
<1> QED BY <1>1, <1>2

\* add() adds the facts of its row and loses none, whether the filing was known or not.
LEMMA AddTells ==
  ASSUME NEW h \in Histories, NEW cik \in Cik \cup {0}, NEW d \in Int, NEW cls \in Class, NEW items \in SUBSET Item
  PROVE  /\ add(h, cik, d, cls, items) \in Histories
         /\ FactsOf(add(h, cik, d, cls, items)) = FactsOf(h) \cup Facts(cik, d, cls, items)
<1> DEFINE Known == \E n \in DOMAIN h[cik] : h[cik][n].day = d /\ h[cik][n].cls = cls
<1>0. \A c \in Cik : h[c] \in Seq(Entry)
  BY DEF Histories
<1>1. CASE cik = 0
  BY <1>1, Zenon DEF add, Facts
<1>2. CASE cik # 0 /\ Known
  <2>1. PICK n : n = CHOOSE k \in DOMAIN h[cik] : h[cik][k].day = d /\ h[cik][k].cls = cls
    OBVIOUS
  <2>2. n \in DOMAIN h[cik] /\ h[cik][n].day = d /\ h[cik][n].cls = cls /\ cik \in Cik
    BY <1>2, <2>1
  <2>3. PICK e \in Entry : e = h[cik][n]
    BY <1>0, <2>2
  <2>4. PICK e2 : e2 = [e EXCEPT !.items = @ \cup items]
    OBVIOUS
  <2>5. e2 \in Entry /\ e2.day = d /\ e2.cls = cls /\ e2.items = e.items \cup items
    BY <2>2, <2>3, <2>4 DEF Entry
  <2>6. PICK g : g = [h EXCEPT ![cik] = [h[cik] EXCEPT ![n] = e2]]
    OBVIOUS
  <2>7. add(h, cik, d, cls, items) = g
    <3>1. add(h, cik, d, cls, items) = [h EXCEPT ![cik][n].items = @ \cup items]
      BY <1>2, <2>1, Zenon DEF add
    <3>2. [h EXCEPT ![cik][n].items = @ \cup items] = [h EXCEPT ![cik] = [h[cik] EXCEPT ![n] = [h[cik][n] EXCEPT !.items = @ \cup items]]]
      OBVIOUS
    <3> QED BY <3>1, <3>2, <2>3, <2>4, <2>6
  <2>8. /\ [h[cik] EXCEPT ![n] = e2] \in Seq(Entry)
        /\ g \in Histories
        /\ DOMAIN g[cik] = DOMAIN h[cik] /\ g[cik][n] = e2
        /\ \A k \in DOMAIN h[cik] : k # n => g[cik][k] = h[cik][k]
        /\ \A c \in Cik : c # cik => g[c] = h[c]
    <3>1. [h[cik] EXCEPT ![n] = e2] \in Seq(Entry)
      BY <1>0, <2>2, <2>5
    <3> QED BY <3>1, <2>2, <2>6 DEF Histories
  <2>9. Told(cik, e2) = Told(cik, e) \cup Facts(cik, d, cls, items)
    BY <2>2, <2>3, <2>5, MoreItems DEF Told
  <2>10. ASSUME NEW x PROVE x \in FactsOf(g) <=> x \in FactsOf(h) \cup Facts(cik, d, cls, items)
    <3>1. ASSUME NEW c \in Cik, NEW k \in DOMAIN g[c], x \in Told(c, g[c][k])
          PROVE  x \in FactsOf(h) \cup Facts(cik, d, cls, items)
      <4>1. CASE c = cik /\ k = n
        BY <4>1, <3>1, <2>2, <2>3, <2>8, <2>9, InFacts, Zenon
      <4>2. CASE c = cik /\ k # n
        BY <4>2, <3>1, <2>2, <2>8, InFacts, Zenon
      <4>3. CASE c # cik
        BY <4>3, <3>1, <2>8, InFacts, Zenon
      <4> QED BY <4>1, <4>2, <4>3
    <3>2. ASSUME NEW c \in Cik, NEW k \in DOMAIN h[c], x \in Told(c, h[c][k])
          PROVE  x \in FactsOf(g)
      <4>1. CASE c = cik /\ k = n
        BY <4>1, <3>2, <2>2, <2>3, <2>8, <2>9, InFacts, Zenon
      <4>2. CASE c = cik /\ k # n
        BY <4>2, <3>2, <2>2, <2>8, InFacts, Zenon
      <4>3. CASE c # cik
        BY <4>3, <3>2, <2>8, InFacts, Zenon
      <4> QED BY <4>1, <4>2, <4>3
    <3>3. ASSUME x \in Facts(cik, d, cls, items) PROVE x \in FactsOf(g)
      BY <3>3, <2>2, <2>8, <2>9, InFacts, Zenon
    <3> QED BY <3>1, <3>2, <3>3, InFacts, Zenon
  <2> QED BY <2>7, <2>8, <2>10, Zenon
<1>3. CASE cik # 0 /\ ~ Known
  <2>1. PICK e : e = [day |-> d, cls |-> cls, items |-> items]
    OBVIOUS
  <2>2. cik \in Cik /\ e \in Entry /\ Told(cik, e) = Facts(cik, d, cls, items)
    BY <1>3, <2>1 DEF Entry, Told
  <2>3. PICK g : g = [h EXCEPT ![cik] = Append(h[cik], e)]
    OBVIOUS
  <2>4. add(h, cik, d, cls, items) = g
    BY <1>3, <2>1, <2>3 DEF add
  <2>5. PICK n : n = Len(h[cik]) + 1
    OBVIOUS
  <2>6. /\ g \in Histories
        /\ g[cik][n] = e /\ n \in DOMAIN g[cik]
        /\ DOMAIN h[cik] \subseteq DOMAIN g[cik]
        /\ \A k \in DOMAIN g[cik] : k # n => k \in DOMAIN h[cik] /\ g[cik][k] = h[cik][k]
        /\ \A k \in DOMAIN h[cik] : k # n
        /\ \A c \in Cik : c # cik => g[c] = h[c]
    <3>1. PICK s \in Seq(Entry) : s = h[cik]
      BY <1>0, <2>2
    <3>2. /\ Append(s, e) \in Seq(Entry) /\ DOMAIN s = 1 .. Len(s) /\ DOMAIN Append(s, e) = 1 .. Len(s) + 1
          /\ \A k \in 1 .. Len(s) : Append(s, e)[k] = s[k]
          /\ Append(s, e)[Len(s) + 1] = e /\ Len(s) \in Nat
      BY <2>2
    <3>3. g[cik] = Append(s, e) /\ g \in Histories /\ \A c \in Cik : c # cik => g[c] = h[c]
      BY <2>2, <2>3, <3>1, <3>2 DEF Histories
    <3> QED BY <2>5, <3>1, <3>2, <3>3
  <2>7. ASSUME NEW x PROVE x \in FactsOf(g) <=> x \in FactsOf(h) \cup Facts(cik, d, cls, items)
    <3>1. ASSUME NEW c \in Cik, NEW k \in DOMAIN g[c], x \in Told(c, g[c][k])
          PROVE  x \in FactsOf(h) \cup Facts(cik, d, cls, items)
      <4>1. CASE c = cik /\ k = n
        BY <4>1, <3>1, <2>2, <2>6, Zenon
      <4>2. CASE c = cik /\ k # n
        BY <4>2, <3>1, <2>2, <2>6, InFacts, Zenon
      <4>3. CASE c # cik
        BY <4>3, <3>1, <2>6, InFacts, Zenon
      <4> QED BY <4>1, <4>2, <4>3
    <3>2. ASSUME NEW c \in Cik, NEW k \in DOMAIN h[c], x \in Told(c, h[c][k])
          PROVE  x \in FactsOf(g)
      <4>1. CASE c = cik
        <5>1. k \in DOMAIN g[cik] /\ g[cik][k] = h[cik][k]
          BY <4>1, <2>6, Zenon
        <5> QED BY <5>1, <4>1, <3>2, <2>2, InFacts, Zenon
      <4>2. CASE c # cik
        BY <4>2, <3>2, <2>6, InFacts, Zenon
      <4> QED BY <4>1, <4>2
    <3>3. ASSUME x \in Facts(cik, d, cls, items) PROVE x \in FactsOf(g)
      BY <3>3, <2>2, <2>6, InFacts, Zenon
    <3> QED BY <3>1, <3>2, <3>3, InFacts, Zenon
  <2> QED BY <2>4, <2>6, <2>7, Zenon
<1> QED BY <1>1, <1>2, <1>3

\* Rows one after another: the facts of all of them.
LEMMA AddAllTells ==
  ASSUME NEW h \in Histories, NEW rows \in Seq(Row)
  PROVE  AddAll(h, rows) \in Histories /\ FactsOf(AddAll(h, rows)) = FactsOf(h) \cup RowsFacts(rows)
<1> DEFINE N == Len(rows)
           Add(g, n) == add(g, rows[n].cik, rows[n].day, rows[n].cls, rows[n].items)
           Body(f) == [n \in 0 .. N |-> IF n = 0 THEN h ELSE Add(f[n - 1], n)]
           after == CHOOSE f : f = Body(f)
           Upto(n) == UNION {Told(rows[k].cik, rows[k]) : k \in 1 .. n}
<1>0. N \in Nat /\ DOMAIN rows = 1 .. N
  OBVIOUS
<1>1. ASSUME NEW g \in Histories, NEW n \in 1 .. N
      PROVE  Add(g, n) \in Histories /\ FactsOf(Add(g, n)) = FactsOf(g) \cup Told(rows[n].cik, rows[n])
  <2>1. rows[n] \in Row
    BY <1>0
  <2>2. rows[n].cik \in Cik \cup {0} /\ rows[n].day \in Int /\ rows[n].cls \in Class /\ rows[n].items \in SUBSET Item
    BY <2>1 DEF Row
  <2> QED BY <2>2, AddTells DEF Told
<1>2. AddAll(h, rows) = after[N]
  BY DEF AddAll
<1> HIDE DEF N, Add
<1>3. PICK f \in [0 .. N -> Histories] : f = Body(f)
  <2>1. PICK step : step = [n \in 1 .. N |-> [g \in Histories |-> Add(g, n)]]
    OBVIOUS
  <2>2. Steps(step, N, Histories)
    BY <1>0, <1>1, <2>1 DEF Steps
  <2>3. PICK f \in [0 .. N -> Histories] : f[0] = h /\ \A n \in 1 .. N : f[n] = step[n][f[n - 1]]
    <3>1. PICK f : Goes(f, step, N, Histories, h)
      BY <2>2, LoopEnds
    <3> QED BY <3>1 DEF Goes
  <2>4. ASSUME NEW n \in 0 .. N PROVE f[n] = IF n = 0 THEN h ELSE Add(f[n - 1], n)
    <3>1. CASE n = 0
      BY <3>1, <2>3
    <3>2. CASE n # 0
      <4>1. n \in 1 .. N /\ n - 1 \in 0 .. N /\ f[n - 1] \in Histories
        BY <3>2, <1>0
      <4>2. f[n] = step[n][f[n - 1]]
        BY <4>1, <2>3
      <4> QED BY <4>1, <4>2, <2>1, <3>2
    <3> QED BY <3>1, <3>2
  <2> QED BY <2>4
<1>4. after = Body(after)
  BY <1>3
<1> HIDE DEF after
<1>5. after[0] = h /\ \A n \in 1 .. N : after[n] = Add(after[n - 1], n)
  BY <1>0, <1>4
<1> DEFINE T == {n \in 0 .. N : after[n] \in Histories /\ FactsOf(after[n]) = FactsOf(h) \cup Upto(n)}
<1>6. 0 \in T
  BY <1>0, <1>5
<1>7. ASSUME NEW n \in 1 .. N, n - 1 \in T PROVE n \in T
  <2>1. after[n - 1] \in Histories /\ FactsOf(after[n - 1]) = FactsOf(h) \cup Upto(n - 1)
    BY <1>7
  <2>2. after[n] \in Histories /\ FactsOf(after[n]) = FactsOf(after[n - 1]) \cup Told(rows[n].cik, rows[n])
    BY <2>1, <1>1, <1>5
  <2>3. Upto(n) = Upto(n - 1) \cup Told(rows[n].cik, rows[n])
    <3>1. 1 .. n = (1 .. n - 1) \cup {n}
      BY <1>0
    <3> QED BY <3>1
  <2> HIDE DEF Upto
  <2>4. FactsOf(after[n]) = FactsOf(h) \cup Upto(n)
    BY <2>1, <2>2, <2>3
  <2> QED BY <2>2, <2>4
<1>8. N \in T
  <2> HIDE DEF T
  <2>1. \A n \in 0 .. N : n \in T
    BY <1>0, <1>6, <1>7, EachStep
  <2> QED BY <2>1, <1>0
<1>9. Upto(N) = RowsFacts(rows)
  BY <1>0 DEF RowsFacts
<1> QED BY <1>2, <1>8, <1>9

\* A finite set put into some order.
LEMMA Ordered ==
  ASSUME NEW S, IsFiniteSet(S)
  PROVE  /\ SetToSeq(S) \in Seq(S)
         /\ \A x \in S : \E n \in DOMAIN SetToSeq(S) : SetToSeq(S)[n] = x
<1>1. PICK N \in Nat : N = Cardinality(S)
  BY FS_CardinalityType
<1>2. PICK g : g \in Bijection(1 .. N, S)
  BY <1>1, FS_CardinalityType, FS_Bijection, Zenon DEF ExistsBijection
<1>3. g \in [1 .. N -> S] /\ IsInjective(g)
  BY <1>2 DEF Bijection, Injection, IsInjective
<1>4. PICK f : f = SetToSeq(S)
  OBVIOUS
<1>5. f \in [1 .. N -> S] /\ IsInjective(f)
  BY <1>1, <1>3, <1>4 DEF SetToSeq
<1>6. ASSUME NEW x \in S PROVE \E n \in 1 .. N : f[n] = x
  <2> SUFFICES ASSUME \A n \in 1 .. N : f[n] # x PROVE FALSE
    OBVIOUS
  <2>1. f \in Injection(1 .. N, S \ {x})
    BY <1>5 DEF Injection, IsInjective
  <2>2. IsFiniteSet(S \ {x}) /\ Cardinality(S \ {x}) = N - 1
    BY <1>1, FS_RemoveElement
  <2>3. IsFiniteSet(1 .. N) /\ Cardinality(1 .. N) = N
    BY <1>1, FS_Interval
  <2>4. Cardinality(1 .. N) <= Cardinality(S \ {x})
    BY <2>1, <2>2, FS_Injection DEF ExistsInjection
  <2> QED BY <2>2, <2>3, <2>4
<1> QED BY <1>4, <1>5, <1>6

Holds(s, x) == \E k \in DOMAIN s : s[k] = x

\* Sequences one after another hold what each of them holds.
LEMMA Flattened ==
  ASSUME NEW X, NEW ss \in Seq(Seq(X))
  PROVE  /\ FlattenSeq(ss) \in Seq(X)
         /\ \A x : Holds(FlattenSeq(ss), x) <=> \E n \in DOMAIN ss : Holds(ss[n], x)
<1>1. CASE Len(ss) = 0
  <2>1. ss = <<>> /\ FlattenSeq(ss) = ss
    BY <1>1 DEF FlattenSeq
  <2>2. <<>> \in Seq(X) /\ DOMAIN <<>> = {}
    OBVIOUS
  <2> QED BY <2>1, <2>2, Zenon DEF Holds
<1>2. CASE Len(ss) # 0
  <2> DEFINE N == Len(ss)
             Body(f) == [n \in 1 .. N |-> IF n = 1 THEN ss[n] ELSE f[n - 1] \o ss[n]]
             flat == CHOOSE f : f = Body(f)
  <2>0. N \in Nat /\ N >= 1 /\ DOMAIN ss = 1 .. N /\ \A n \in 1 .. N : ss[n] \in Seq(X)
    BY <1>2
  <2>1. FlattenSeq(ss) = flat[N]
    BY <1>2 DEF FlattenSeq
  <2> HIDE DEF N
  <2>2. \E f : f = Body(f)
    <3>1. PICK step : step = [n \in 1 .. N |-> [s \in Seq(X) |-> s \o ss[n]]]
      OBVIOUS
    <3>2. Steps(step, N, Seq(X))
      <4>1. \A n \in 1 .. N : \A s \in Seq(X) : s \o ss[n] \in Seq(X)
        BY <2>0
      <4> QED BY <2>0, <3>1, <4>1 DEF Steps
    <3>3. PICK f \in [0 .. N -> Seq(X)] : f[0] = <<>> /\ \A n \in 1 .. N : f[n] = step[n][f[n - 1]]
      <4>1. <<>> \in Seq(X)
        OBVIOUS
      <4>2. PICK f : Goes(f, step, N, Seq(X), <<>>)
        BY <4>1, <3>2, LoopEnds
      <4> QED BY <4>2 DEF Goes
    <3>4. ASSUME NEW n \in 1 .. N PROVE f[n] = f[n - 1] \o ss[n] /\ f[n - 1] \in Seq(X)
      <4>1. n - 1 \in 0 .. N /\ f[n - 1] \in Seq(X)
        BY <2>0
      <4> QED BY <4>1, <3>1, <3>3
    <3>5. f[1] = ss[1]
      <4>1. 1 \in 1 .. N /\ 1 - 1 = 0
        BY <2>0
      <4>2. f[1] = <<>> \o ss[1] /\ ss[1] \in Seq(X)
        BY <4>1, <3>3, <3>4, <2>0
      <4> QED BY <4>2
    <3>6. PICK g : g = [n \in 1 .. N |-> f[n]]
      OBVIOUS
    <3>7. ASSUME NEW n \in 1 .. N PROVE g[n] = IF n = 1 THEN ss[n] ELSE g[n - 1] \o ss[n]
      <4>1. CASE n = 1
        BY <4>1, <3>5, <3>6
      <4>2. CASE n # 1
        <5>1. n - 1 \in 1 .. N
          BY <4>2, <2>0
        <5> QED BY <5>1, <4>2, <3>4, <3>6
      <4> QED BY <4>1, <4>2
    <3>8. g = Body(g)
      BY <3>6, <3>7
    <3> QED BY <3>8
  <2>3. flat = Body(flat)
    BY <2>2
  <2> HIDE DEF flat
  <2>4. flat[1] = ss[1] /\ \A n \in 2 .. N : flat[n] = flat[n - 1] \o ss[n]
    <3>1. 1 \in 1 .. N
      BY <2>0
    <3>2. flat[1] = ss[1]
      BY <2>3, <3>1
    <3>3. ASSUME NEW n \in 2 .. N PROVE flat[n] = flat[n - 1] \o ss[n]
      <4>1. n \in 1 .. N /\ n # 1
        BY <2>0
      <4> QED BY <2>3, <4>1
    <3> QED BY <3>2, <3>3
  <2> DEFINE Is(n) == /\ flat[n] \in Seq(X)
                      /\ \A x : Holds(flat[n], x) <=> \E k \in 1 .. n : Holds(ss[k], x)
             T == {n \in 0 .. N : n = 0 \/ Is(n)}
  <2>5. 0 \in T
    BY <2>0
  <2>6. ASSUME NEW n \in 1 .. N, n - 1 \in T PROVE n \in T
    <3>1. CASE n = 1
      <4>1. flat[1] \in Seq(X)
        BY <2>0, <2>4
      <4>2. 1 .. 1 = {1}
        OBVIOUS
      <4> QED BY <4>1, <4>2, <3>1, <2>4
    <3>2. CASE n # 1
      <4>1. n - 1 \in 1 .. N /\ n \in 2 .. N /\ 1 .. n = (1 .. n - 1) \cup {n}
        BY <3>2, <2>0
      <4>2. Is(n - 1)
        BY <2>6, <4>1
      <4>3. PICK s \in Seq(X), t \in Seq(X) : s = flat[n - 1] /\ t = ss[n]
        BY <4>2, <2>0
      <4>4. flat[n] = s \o t
        BY <4>1, <4>3, <2>4
      <4>5. s \o t \in Seq(X) /\ \A x : Holds(s \o t, x) <=> Holds(s, x) \/ Holds(t, x)
        <5>1. /\ Len(s) \in Nat /\ Len(t) \in Nat /\ DOMAIN s = 1 .. Len(s) /\ DOMAIN t = 1 .. Len(t)
              /\ s \o t \in Seq(X) /\ DOMAIN (s \o t) = 1 .. Len(s) + Len(t)
              /\ \A k \in 1 .. Len(s) + Len(t) : (s \o t)[k] = IF k <= Len(s) THEN s[k] ELSE t[k - Len(s)]
          OBVIOUS
        <5>2. ASSUME NEW x, NEW k \in DOMAIN s, s[k] = x PROVE k \in DOMAIN (s \o t) /\ (s \o t)[k] = x
          BY <5>1, <5>2
        <5>3. ASSUME NEW x, NEW k \in DOMAIN t, t[k] = x
              PROVE  Len(s) + k \in DOMAIN (s \o t) /\ (s \o t)[Len(s) + k] = x
          <6>1. Len(s) + k \in 1 .. Len(s) + Len(t) /\ ~ (Len(s) + k <= Len(s)) /\ Len(s) + k - Len(s) = k
            BY <5>1
          <6> QED BY <5>1, <5>3, <6>1
        <5>4. ASSUME NEW x, NEW k \in DOMAIN (s \o t), (s \o t)[k] = x
              PROVE  \/ k \in DOMAIN s /\ s[k] = x
                     \/ k - Len(s) \in DOMAIN t /\ t[k - Len(s)] = x
          BY <5>1, <5>4
        <5> QED BY <5>1, <5>2, <5>3, <5>4, Zenon DEF Holds
      <4>6. \A x : Holds(flat[n], x) <=> \E k \in 1 .. n : Holds(ss[k], x)
        BY <4>1, <4>2, <4>3, <4>4, <4>5
      <4>7. flat[n] \in Seq(X)
        BY <4>4, <4>5
      <4> QED BY <4>6, <4>7, <4>1
    <3> QED BY <3>1, <3>2
  <2>7. N \in T
    <3> HIDE DEF T
    <3>1. \A n \in 0 .. N : n \in T
      BY <2>0, <2>5, <2>6, EachStep
    <3> QED BY <3>1, <2>0
  <2>8. Is(N)
    BY <2>0, <2>7
  <2> QED BY <2>0, <2>1, <2>8
<1> QED BY <1>1, <1>2

RowOf(c, e) == [cik |-> c, day |-> e.day, cls |-> e.cls, items |-> e.items]

\* A history row by row: nothing is left out, nothing added.
LEMMA RowsTell ==
  ASSUME NEW h \in Histories
  PROVE  Rows(h) \in Seq(Row) /\ RowsFacts(Rows(h)) = FactsOf(h)
<1> DEFINE Of(c) == [n \in DOMAIN h[c] |-> RowOf(c, h[c][n])]
           S == {Of(c) : c \in Cik} \ {<<>>}
           ss == SetToSeq(S)
<1>1. Rows(h) = FlattenSeq(ss)
  BY DEF Rows, RowOf
<1>2. ASSUME NEW c \in Cik
      PROVE  /\ Of(c) \in Seq(Row) /\ DOMAIN Of(c) = DOMAIN h[c]
             /\ \A n \in DOMAIN h[c] : /\ Of(c)[n] = RowOf(c, h[c][n])
                                       /\ Told(RowOf(c, h[c][n]).cik, RowOf(c, h[c][n])) = Told(c, h[c][n])
  <2>1. h[c] \in Seq(Entry)
    BY DEF Histories
  <2>2. ASSUME NEW e \in Entry PROVE RowOf(c, e) \in Row /\ Told(RowOf(c, e).cik, RowOf(c, e)) = Told(c, e)
    BY DEF Entry, Row, RowOf, Told
  <2>3. DOMAIN h[c] = 1 .. Len(h[c]) /\ Len(h[c]) \in Nat /\ \A n \in DOMAIN h[c] : h[c][n] \in Entry
    BY <2>1
  <2> QED BY <2>2, <2>3
<1> HIDE DEF Of
<1>3. IsFiniteSet(S)
  <2>1. PICK g : g = [c \in Cik |-> Of(c)]
    OBVIOUS
  <2>2. g \in Surjection(Cik, {Of(c) : c \in Cik})
    BY <2>1 DEF Surjection
  <2>3. IsFiniteSet({Of(c) : c \in Cik})
    BY <2>2, FilingsAssumption, FS_Surjection
  <2> QED BY <2>3, FS_Subset
<1>4. ss \in Seq(S) /\ \A x \in S : \E n \in DOMAIN ss : ss[n] = x
  BY <1>3, Ordered
<1>5. S \subseteq Seq(Row)
  BY <1>2
<1> HIDE DEF ss, S
<1>6. ss \in Seq(Seq(Row)) /\ \A n \in DOMAIN ss : ss[n] \in S
  <2>1. ss \in Seq(Seq(Row))
    BY <1>4, <1>5, SeqMonotonic, Zenon
  <2> QED BY <2>1, <1>4
<1> USE DEF S
<1>7. PICK R : R = FlattenSeq(ss)
  OBVIOUS
<1>8. /\ R \in Seq(Row)
      /\ \A x : Holds(R, x) <=> \E n \in DOMAIN ss : Holds(ss[n], x)
  BY <1>6, <1>7, Flattened
<1>9. \A x : x \in RowsFacts(R) <=> \E k \in DOMAIN R : x \in Told(R[k].cik, R[k])
  BY DEF RowsFacts
<1>10. ASSUME NEW x, NEW k \in DOMAIN R, x \in Told(R[k].cik, R[k]) PROVE x \in FactsOf(h)
  <2>0. PICK n \in DOMAIN ss : \E j \in DOMAIN ss[n] : ss[n][j] = R[k]
    BY <1>8 DEF Holds
  <2>1. PICK j \in DOMAIN ss[n] : ss[n][j] = R[k]
    BY <2>0
  <2>2. PICK c \in Cik : ss[n] = Of(c)
    BY <1>6
  <2>3. j \in DOMAIN h[c] /\ R[k] = RowOf(c, h[c][j]) /\ x \in Told(c, h[c][j])
    BY <1>2, <1>10, <2>1, <2>2
  <2> QED BY <2>3, InFacts
<1>11. ASSUME NEW x, NEW c \in Cik, NEW j \in DOMAIN h[c], x \in Told(c, h[c][j]) PROVE x \in RowsFacts(R)
  <2>1. j \in DOMAIN Of(c) /\ Of(c)[j] = RowOf(c, h[c][j]) /\ x \in Told(Of(c)[j].cik, Of(c)[j])
    BY <1>2, <1>11
  <2>2. Of(c) \in S
    <3>1. Of(c) # <<>>
      <4>1. DOMAIN <<>> = {}
        OBVIOUS
      <4> QED BY <2>1, <4>1, Zenon
    <3> QED BY <3>1
  <2>3. PICK n \in DOMAIN ss : ss[n] = Of(c)
    BY <1>4, <2>2
  <2>4. PICK k \in DOMAIN R : R[k] = Of(c)[j]
    BY <1>8, <2>1, <2>3 DEF Holds
  <2> QED BY <1>9, <2>1, <2>4
<1>12. RowsFacts(R) = FactsOf(h)
  BY <1>9, <1>10, <1>11, InFacts, Zenon
<1> QED BY <1>1, <1>7, <1>8, <1>12

\* What is read back from the file.
Read(rows) == [n \in DOMAIN rows |-> [cik |-> rows[n].cik, cls |-> rows[n].cls, items |-> rows[n].items,
                                      day |-> DayNumber(rows[n].date)]]

\* A saved history is read back row by row: dates are kept.
LEMMA SavedAndRead ==
  ASSUME NEW h \in Histories
  PROVE  /\ Read(to_tsv(h)) = Rows(h)
         /\ \A n \in DOMAIN to_tsv(h) : to_tsv(h)[n].date = civil_from_days(Rows(h)[n].day)
<1>1. PICK r \in Seq(Row) : r = Rows(h)
  BY RowsTell
<1>2. PICK t : t = to_tsv(h)
  OBVIOUS
<1>3. t = [n \in DOMAIN r |-> [cik |-> r[n].cik, date |-> civil_from_days(r[n].day), cls |-> r[n].cls, items |-> r[n].items]]
  BY <1>1, <1>2, Zenon DEF to_tsv
<1>4. DOMAIN t = DOMAIN r /\ \A n \in DOMAIN r : /\ t[n].cik = r[n].cik /\ t[n].date = civil_from_days(r[n].day)
                                                 /\ t[n].cls = r[n].cls /\ t[n].items = r[n].items
  BY <1>3
<1>5. ASSUME NEW n \in DOMAIN r PROVE DayNumber(t[n].date) = r[n].day /\ r[n] \in Row
  <2>1. r[n] \in Row
    BY <1>1
  <2>2. r[n].day \in Int
    BY <2>1 DEF Row
  <2> QED BY <1>4, <2>1, <2>2, DaysOfCivil
<1>6. ASSUME NEW n \in DOMAIN r
      PROVE  [cik |-> t[n].cik, cls |-> t[n].cls, items |-> t[n].items, day |-> DayNumber(t[n].date)] = r[n]
  BY <1>4, <1>5 DEF Row
<1>7. Read(t) = [n \in DOMAIN r |-> r[n]]
  BY <1>4, <1>6 DEF Read
<1>8. Read(t) = r
  BY <1>7
<1> QED BY <1>1, <1>2, <1>4, <1>8

LEMMA LoadIs ==
  ASSUME NEW h, NEW rows
  PROVE  load_tsv(h, rows) = AddAll(h, Read(rows))
  BY DEF load_tsv, Read, DayNumber

LEMMA NothingTold == Nothing \in Histories /\ FactsOf(Nothing) = {}
<1>1. Nothing \in Histories
  BY DEF Nothing, Histories
<1>2. \A c \in Cik : DOMAIN Nothing[c] = {}
  BY DEF Nothing
<1> QED BY <1>1, <1>2 DEF FactsOf

\* The entries before a day are those before the day, all of them.
LEMMA EarlierHolds ==
  ASSUME NEW s \in Seq(Entry), NEW d \in Int
  PROVE  /\ Earlier(s, d) \in Seq(Entry)
         /\ \A e : Holds(Earlier(s, d), e) <=> Holds(s, e) /\ e.day < d
<1> DEFINE N == Len(s)
           Take(t, n) == IF s[n].day < d THEN Append(t, s[n]) ELSE t
           Body(f) == [n \in 0 .. N |-> IF n = 0 THEN <<>> ELSE Take(f[n - 1], n)]
           kept == CHOOSE f : f = Body(f)
<1>0. N \in Nat /\ DOMAIN s = 1 .. N /\ (\A n \in 1 .. N : s[n] \in Entry) /\ <<>> \in Seq(Entry)
  OBVIOUS
<1>1. Earlier(s, d) = kept[N]
  BY DEF Earlier
<1>2. ASSUME NEW t \in Seq(Entry), NEW n \in 1 .. N
      PROVE  /\ Take(t, n) \in Seq(Entry)
             /\ \A e : Holds(Take(t, n), e) <=> Holds(t, e) \/ (e = s[n] /\ e.day < d)
  <2>1. CASE s[n].day < d
    <3>1. /\ DOMAIN t = 1 .. Len(t) /\ Len(t) \in Nat
          /\ Append(t, s[n]) \in Seq(Entry) /\ DOMAIN Append(t, s[n]) = 1 .. Len(t) + 1
          /\ \A k \in 1 .. Len(t) : Append(t, s[n])[k] = t[k]
          /\ Append(t, s[n])[Len(t) + 1] = s[n]
      BY <1>0
    <3>2. ASSUME NEW e PROVE Holds(Append(t, s[n]), e) <=> Holds(t, e) \/ e = s[n]
      <4>1. ASSUME NEW k \in DOMAIN Append(t, s[n]), Append(t, s[n])[k] = e PROVE (k \in DOMAIN t /\ t[k] = e) \/ e = s[n]
        BY <3>1, <4>1
      <4>2. ASSUME NEW k \in DOMAIN t PROVE k \in DOMAIN Append(t, s[n]) /\ Append(t, s[n])[k] = t[k]
        BY <3>1
      <4>3. Len(t) + 1 \in DOMAIN Append(t, s[n])
        BY <3>1
      <4> QED BY <3>1, <4>1, <4>2, <4>3, Zenon DEF Holds
    <3> QED BY <2>1, <3>1, <3>2
  <2>2. CASE ~ (s[n].day < d)
    BY <2>2
  <2> QED BY <2>1, <2>2
<1> HIDE DEF N, Take
<1>3. \E f : f = Body(f)
  <2>1. PICK step : step = [n \in 1 .. N |-> [t \in Seq(Entry) |-> Take(t, n)]]
    OBVIOUS
  <2>2. Steps(step, N, Seq(Entry))
    BY <1>0, <1>2, <2>1 DEF Steps
  <2>3. PICK f : Goes(f, step, N, Seq(Entry), <<>>)
    BY <1>0, <2>2, LoopEnds
  <2>4. f \in [0 .. N -> Seq(Entry)] /\ f[0] = <<>> /\ \A n \in 1 .. N : f[n] = step[n][f[n - 1]]
    BY <2>3 DEF Goes
  <2>5. ASSUME NEW n \in 0 .. N PROVE f[n] = IF n = 0 THEN <<>> ELSE Take(f[n - 1], n)
    <3>1. CASE n = 0
      BY <3>1, <2>4
    <3>2. CASE n # 0
      <4>1. n \in 1 .. N /\ n - 1 \in 0 .. N /\ f[n - 1] \in Seq(Entry)
        BY <3>2, <1>0, <2>4
      <4>2. f[n] = step[n][f[n - 1]]
        BY <4>1, <2>4
      <4> QED BY <4>1, <4>2, <2>1, <3>2
    <3> QED BY <3>1, <3>2
  <2> QED BY <2>4, <2>5
<1>4. kept = Body(kept)
  BY <1>3
<1> HIDE DEF kept
<1>5. kept[0] = <<>> /\ \A n \in 1 .. N : kept[n] = Take(kept[n - 1], n)
  BY <1>0, <1>4
<1> DEFINE Is(n) == /\ kept[n] \in Seq(Entry)
                    /\ \A e : Holds(kept[n], e) <=> \E k \in 1 .. n : s[k] = e /\ e.day < d
           T == {n \in 0 .. N : Is(n)}
<1>6. 0 \in T
  <2>1. DOMAIN <<>> = {} /\ 1 .. 0 = {} /\ 0 \in 0 .. N
    BY <1>0
  <2>2. \A e : ~ Holds(kept[0], e)
    BY <1>5, <2>1, Zenon DEF Holds
  <2>3. \A e : ~ \E k \in 1 .. 0 : s[k] = e /\ e.day < d
    BY <2>1
  <2>4. Is(0)
    BY <1>0, <1>5, <2>2, <2>3
  <2> HIDE DEF Is
  <2> QED BY <2>1, <2>4
<1>7. ASSUME NEW n \in 1 .. N, n - 1 \in T PROVE n \in T
  <2>1. Is(n - 1)
    BY <1>7
  <2>2. kept[n] \in Seq(Entry) /\ \A e : Holds(kept[n], e) <=> Holds(kept[n - 1], e) \/ (e = s[n] /\ e.day < d)
    BY <1>2, <1>5, <2>1
  <2>3. 1 .. n = (1 .. n - 1) \cup {n} /\ n \in 0 .. N
    BY <1>0
  <2>4. ASSUME NEW e PROVE Holds(kept[n], e) <=> \E k \in 1 .. n : s[k] = e /\ e.day < d
    BY <2>1, <2>2, <2>3
  <2> QED BY <2>2, <2>3, <2>4
<1>8. Is(N)
  <2>1. N \in T
    <3> HIDE DEF T
    <3>1. \A n \in 0 .. N : n \in T
      BY <1>0, <1>6, <1>7, EachStep
    <3> QED BY <3>1, <1>0
  <2> QED BY <2>1
<1>9. ASSUME NEW e PROVE (\E k \in 1 .. N : s[k] = e /\ e.day < d) <=> Holds(s, e) /\ e.day < d
  BY <1>0, Zenon DEF Holds
<1> QED BY <1>1, <1>8, <1>9

\* The history before a day has the facts before the day.
LEMMA BeforeTells ==
  ASSUME NEW h \in Histories, NEW d \in Int
  PROVE  before(h, d) \in Histories /\ FactsOf(before(h, d)) = {x \in FactsOf(h) : x.day < d}
<1>1. PICK g : g = before(h, d)
  OBVIOUS
<1>2. /\ g = [c \in Cik |-> Earlier(h[c], d)]
      /\ \A c \in Cik : h[c] \in Seq(Entry)
  BY <1>1, Zenon DEF before, Histories
<1>3. /\ g \in Histories
      /\ \A c \in Cik : \A e : Holds(g[c], e) <=> Holds(h[c], e) /\ e.day < d
  BY <1>2, EarlierHolds DEF Histories
<1>4. ASSUME NEW c \in Cik, NEW e, NEW x \in Told(c, e) PROVE x.day = e.day
  BY DEF Told, Facts
<1>5. ASSUME NEW i \in Histories, NEW x
      PROVE  x \in FactsOf(i) <=> \E c \in Cik : \E e : Holds(i[c], e) /\ x \in Told(c, e)
  BY InFacts, Zenon DEF Holds
<1>6. ASSUME NEW x PROVE x \in FactsOf(g) <=> x \in FactsOf(h) /\ x.day < d
  <2>1. ASSUME x \in FactsOf(g) PROVE x \in FactsOf(h) /\ x.day < d
    <3>1. PICK c \in Cik : \E e : Holds(g[c], e) /\ x \in Told(c, e)
      BY <1>3, <1>5, <2>1
    <3>2. PICK e : Holds(g[c], e) /\ x \in Told(c, e)
      BY <3>1
    <3>3. Holds(h[c], e) /\ e.day < d /\ x.day = e.day
      BY <1>3, <1>4, <3>2
    <3> QED BY <1>5, <3>2, <3>3
  <2>2. ASSUME x \in FactsOf(h), x.day < d PROVE x \in FactsOf(g)
    <3>1. PICK c \in Cik : \E e : Holds(h[c], e) /\ x \in Told(c, e)
      BY <1>5, <2>2
    <3>2. PICK e : Holds(h[c], e) /\ x \in Told(c, e)
      BY <3>1
    <3>3. x.day = e.day /\ Holds(g[c], e)
      BY <1>3, <1>4, <2>2, <3>2
    <3> QED BY <1>3, <1>5, <3>2, <3>3
  <2> QED BY <2>1, <2>2
<1> QED BY <1>1, <1>3, <1>6

\* The flag that one fact raises.
Raise(x) == IF Itemised(x.cls) THEN FlagOfItem(x.item) ELSE FlagOfClass(x.cls)

\* The flags of a history depend on its facts only.
LEMMA FlagsOf ==
  ASSUME NEW h \in Histories, NEW c \in Cik, NEW d \in Int
  PROVE  flags(h, c, d) = FlagsOfFacts(FactsOf(h), c, d)
<1>0. c # 0 /\ FlagOfItem(NoItem) = "none"
  BY FilingsAssumption DEF FlagOfItem
<1>1. ASSUME NEW e \in Entry, NEW f
      PROVE  f \in EntryFlags(e, d)
             <=> f # "none" /\ e.day <= d /\ d - e.day <= Window[f] /\ \E x \in Told(c, e) : f = Raise(x)
  <2> DEFINE raised == IF Itemised(e.cls) THEN {FlagOfItem(i) : i \in e.items} ELSE {FlagOfClass(e.cls)}
  <2>1. e.day \in Int /\ (d - e.day >= 0 <=> e.day <= d)
    BY DEF Entry
  <2>2. f \in EntryFlags(e, d) <=> f \in raised /\ f # "none" /\ d - e.day >= 0 /\ d - e.day <= Window[f]
    BY Zenon DEF EntryFlags
  <2>3. ASSUME f # "none" PROVE f \in raised <=> \E x \in Told(c, e) : f = Raise(x)
    <3>1. Told(c, e) = {[cik |-> c, day |-> e.day, cls |-> e.cls, item |-> i] : i \in e.items \cup {NoItem}}
      BY <1>0, Zenon DEF Told, Facts
    <3>a. ASSUME NEW i
          PROVE  Raise([cik |-> c, day |-> e.day, cls |-> e.cls, item |-> i])
                 = IF Itemised(e.cls) THEN FlagOfItem(i) ELSE FlagOfClass(e.cls)
      BY DEF Raise
    <3>b. (\E x \in Told(c, e) : f = Raise(x))
          <=> \E i \in e.items \cup {NoItem} : f = IF Itemised(e.cls) THEN FlagOfItem(i) ELSE FlagOfClass(e.cls)
      BY <3>1, <3>a
    <3>2. CASE Itemised(e.cls)
      <4>1. (\E x \in Told(c, e) : f = Raise(x)) <=> \E i \in e.items \cup {NoItem} : f = FlagOfItem(i)
        BY <3>b, <3>2
      <4> QED BY <4>1, <3>2, <2>3, <1>0
    <3>3. CASE ~Itemised(e.cls)
      <4>1. (\E x \in Told(c, e) : f = Raise(x)) <=> \E i \in e.items \cup {NoItem} : f = FlagOfClass(e.cls)
        BY <3>b, <3>3
      <4> QED BY <4>1, <3>3
    <3> QED BY <3>2, <3>3
  <2> HIDE DEF raised
  <2> QED BY <2>1, <2>2, <2>3
<1>2. ASSUME NEW F, NEW f
      PROVE  f \in FlagsOfFacts(F, c, d)
             <=> f # "none" /\ \E x \in F : x.cik = c /\ x.day <= d /\ d - x.day <= Window[f] /\ f = Raise(x)
  <2>1. ASSUME NEW x \in F, f = Raise(x)
        PROVE  f \in {FlagOfClass(y.cls) : y \in {z \in F : ~Itemised(z.cls)}}
                     \cup {FlagOfItem(y.item) : y \in {z \in F : Itemised(z.cls)}}
    BY <2>1 DEF Raise
  <2> QED BY <2>1 DEF FlagsOfFacts, Raise
<1>3. ASSUME NEW b \in Cik, NEW e, NEW x \in Told(b, e) PROVE x.cik = b /\ x.day = e.day
  BY DEF Told, Facts
<1>4. \A b \in Cik : \A n \in DOMAIN h[b] : h[b][n] \in Entry
  BY DEF Histories
<1>5. ASSUME NEW f PROVE f \in flags(h, c, d) <=> \E n \in DOMAIN h[c] : f \in EntryFlags(h[c][n], d)
  BY DEF flags
<1>6. ASSUME NEW f, f \in flags(h, c, d) PROVE f \in FlagsOfFacts(FactsOf(h), c, d)
  <2>1. PICK n \in DOMAIN h[c] : f \in EntryFlags(h[c][n], d)
    BY <1>5, <1>6
  <2>2. PICK e \in Entry : e = h[c][n]
    BY <1>4
  <2>3. f # "none" /\ e.day <= d /\ d - e.day <= Window[f]
    BY <1>1, <2>1, <2>2
  <2>4. PICK x \in Told(c, e) : f = Raise(x)
    BY <1>1, <2>1, <2>2
  <2>5. x.cik = c /\ x.day = e.day /\ x \in FactsOf(h)
    BY <1>3, <2>2, <2>4, InFacts
  <2> QED BY <1>2, <2>3, <2>4, <2>5
<1>7. ASSUME NEW f, f \in FlagsOfFacts(FactsOf(h), c, d) PROVE f \in flags(h, c, d)
  <2>1. PICK x \in FactsOf(h) : x.cik = c /\ x.day <= d /\ d - x.day <= Window[f] /\ f = Raise(x)
    BY <1>2, <1>7
  <2>2. PICK b \in Cik : \E n \in DOMAIN h[b] : x \in Told(b, h[b][n])
    BY InFacts
  <2>3. PICK n \in DOMAIN h[b] : x \in Told(b, h[b][n])
    BY <2>2
  <2>4. b = c /\ x.day = h[c][n].day /\ h[c][n] \in Entry
    BY <1>3, <1>4, <2>1, <2>3
  <2>5. f # "none"
    BY <1>2, <1>7
  <2>6. f \in EntryFlags(h[c][n], d)
    BY <1>1, <2>1, <2>3, <2>4, <2>5
  <2> QED BY <1>5, <2>3, <2>4, <2>6
<1> QED BY <1>6, <1>7

-----------------------------------------------------------------------------
(* The filings history across the two programs *)

\* A history holds the facts it was told, in stokd and in stok-ref.
HistoriesTell ==
  /\ history \in Histories /\ FactsOf(history) = known
  /\ ref = [pc |-> ref.pc, hist |-> ref.hist, facts |-> ref.facts, done |-> ref.done]
  /\ ref.hist \in Histories /\ FactsOf(ref.hist) = ref.facts

\* So does the file, and its dates are those of days.
FileTells ==
  /\ Read(file) \in Seq(Row) /\ RowsFacts(Read(file)) = saved
  /\ \A n \in DOMAIN file : file[n].date = civil_from_days(Read(file)[n].day)

\* The days marked are among the facts, on disk and in stok-ref.
DaysKept ==
  /\ \A d \in done_days : IndexFacts(d) \subseteq saved
  /\ \A d \in ref.done : IndexFacts(d) \subseteq ref.facts

\* One program has the file, and what it knows only grows.
OneProgram ==
  /\ up => saved \subseteq known
  /\ ref.pc # "idle" => ~up /\ saved \subseteq ref.facts
  /\ ref.pc = "written" => ref.facts \subseteq saved

FilingsIInv == today \in Int /\ HistoriesTell /\ FileTells /\ DaysKept /\ OneProgram

\* The rows of a day's index tell its facts.
LEMMA IndexTells ==
  ASSUME NEW d \in FirstDay .. LastDay
  PROVE  IndexRows(d) \in Seq(Row) /\ RowsFacts(IndexRows(d)) = IndexFacts(d)
<1> DEFINE A == {x \in Index[d] : Relevant(x.form)}
           Of(r) == [cik |-> r.cik, day |-> d, cls |-> classify_form(r.form), items |-> {}]
           S == {Of(r) : r \in A}
<1>1. d \in Int /\ IsFiniteSet(A) /\ \A r \in A : r.cik \in Cik \cup {0}
  <2>1. IsFiniteSet(Index[d]) /\ \A r \in Index[d] : r.cik \in Cik \cup {0}
    BY FilingsAssumption
  <2>2. d \in Int
    BY FilingsAssumption
  <2> QED BY <2>1, <2>2, FS_Subset
<1>2. \A f : classify_form(f) \in Class
  BY DEF classify_form, Class
<1>3. ASSUME NEW r \in A PROVE Of(r) \in Row /\ Told(Of(r).cik, Of(r)) = Facts(r.cik, d, classify_form(r.form), {})
  BY <1>1, <1>2 DEF Row, Told
<1>4. IndexRows(d) = SetToSeq(S)
  BY DEF IndexRows
<1>5. \A x : x \in IndexFacts(d) <=> \E r \in A : x \in Facts(r.cik, d, classify_form(r.form), {})
  BY DEF IndexFacts
<1> HIDE DEF A, Of
<1>6. IsFiniteSet(S)
  <2>1. PICK g : g = [r \in A |-> Of(r)]
    OBVIOUS
  <2>2. g \in Surjection(A, S)
    BY <2>1 DEF Surjection
  <2> QED BY <1>1, <2>2, FS_Surjection
<1>7. PICK rows : rows = SetToSeq(S)
  OBVIOUS
<1>8. rows \in Seq(S) /\ \A x \in S : \E n \in DOMAIN rows : rows[n] = x
  BY <1>6, <1>7, Ordered
<1>9. S \subseteq Row /\ rows \in Seq(Row) /\ \A n \in DOMAIN rows : rows[n] \in S
  <2>1. S \subseteq Row
    BY <1>3
  <2> HIDE DEF S
  <2>2. rows \in Seq(Row)
    BY <1>8, <2>1, SeqMonotonic, Zenon
  <2> QED BY <2>1, <2>2, <1>8
<1>10. \A x : x \in RowsFacts(rows) <=> \E n \in DOMAIN rows : x \in Told(rows[n].cik, rows[n])
  BY DEF RowsFacts
<1>11. ASSUME NEW x, x \in RowsFacts(rows) PROVE x \in IndexFacts(d)
  <2>1. PICK n \in DOMAIN rows : x \in Told(rows[n].cik, rows[n])
    BY <1>10, <1>11
  <2>2. PICK r \in A : rows[n] = Of(r)
    BY <1>9
  <2> QED BY <1>3, <1>5, <2>1, <2>2
<1>12. ASSUME NEW x, x \in IndexFacts(d) PROVE x \in RowsFacts(rows)
  <2>1. PICK r \in A : x \in Facts(r.cik, d, classify_form(r.form), {})
    BY <1>5, <1>12
  <2>2. PICK n \in DOMAIN rows : rows[n] = Of(r)
    BY <1>8
  <2> QED BY <1>3, <1>10, <2>1, <2>2
<1> QED BY <1>4, <1>7, <1>9, <1>11, <1>12

LEMMA LoadTells ==
  ASSUME FileTells
  PROVE  load_tsv(Nothing, file) \in Histories /\ FactsOf(load_tsv(Nothing, file)) = saved
  BY LoadIs, NothingTold, AddAllTells DEF FileTells

LEMMA SaveTells ==
  ASSUME NEW h \in Histories, file' = to_tsv(h), saved' = FactsOf(h)
  PROVE  FileTells'
<1>1. Read(file') = Rows(h) /\ \A n \in DOMAIN file' : file'[n].date = civil_from_days(Read(file')[n].day)
  BY SavedAndRead
<1> QED BY <1>1, RowsTell DEF FileTells

LEMMA FilingsInitIInv == FilingsInit => FilingsIInv
<1> SUFFICES ASSUME FilingsInit PROVE FilingsIInv
  OBVIOUS
<1>1. today \in Int
  BY FilingsAssumption DEF FilingsInit
<1>2. HistoriesTell /\ DaysKept /\ OneProgram
  BY NothingTold DEF FilingsInit, Idle, HistoriesTell, DaysKept, OneProgram
<1>3. FileTells
  <2>1. file = <<>> /\ saved = {}
    BY DEF FilingsInit
  <2>2. DOMAIN file = {}
    BY <2>1
  <2>3. Read(file) = <<>>
    BY <2>2 DEF Read
  <2>4. RowsFacts(<<>>) = {} /\ <<>> \in Seq(Row)
    BY DEF RowsFacts
  <2> QED BY <2>1, <2>2, <2>3, <2>4 DEF FileTells
<1> QED BY <1>1, <1>2, <1>3 DEF FilingsIInv

LEMMA FilingsStep == FilingsIInv /\ [FilingsNext]_filingsVars => FilingsIInv'
<1> SUFFICES ASSUME FilingsIInv, [FilingsNext]_filingsVars PROVE FilingsIInv'
  OBVIOUS
<1>0. today \in Int /\ HistoriesTell /\ FileTells /\ DaysKept /\ OneProgram
  BY DEF FilingsIInv
<1>f. UNCHANGED <<file, saved>> => FileTells'
  BY <1>0 DEF FileTells
<1>1. ASSUME NEW cik \in Cik \cup {0}, NEW form \in Form, NEW items \in SUBSET Item, LiveFiling(cik, form, items)
      PROVE  FilingsIInv'
  <2>1. classify_form(form) \in Class
    BY DEF classify_form, Class
  <2>2. history' \in Histories /\ FactsOf(history') = known' /\ known \subseteq known'
    BY <1>0, <1>1, <2>1, AddTells DEF LiveFiling, HistoriesTell
  <2>3. up /\ UNCHANGED <<up, file, saved, done_days, ref, today>>
    BY <1>1 DEF LiveFiling
  <2>4. HistoriesTell' /\ DaysKept' /\ OneProgram'
    BY <1>0, <2>2, <2>3 DEF HistoriesTell, DaysKept, OneProgram
  <2> QED BY <1>0, <1>f, <2>3, <2>4 DEF FilingsIInv
<1>2. ASSUME NEW d \in FirstDay .. LastDay, add_master_index(d) PROVE FilingsIInv'
  <2>1. ref.pc = "fetch" /\ UNCHANGED <<up, history, known, file, saved, done_days, today>>
    BY <1>2 DEF add_master_index
  <2>2. /\ ref'.pc = ref.pc /\ ref'.hist = AddAll(ref.hist, IndexRows(d))
        /\ ref'.facts = ref.facts \cup IndexFacts(d) /\ ref'.done = ref.done \cup {d}
        /\ ref' = [pc |-> ref'.pc, hist |-> ref'.hist, facts |-> ref'.facts, done |-> ref'.done]
    BY <1>0, <1>2 DEF add_master_index, HistoriesTell
  <2>3. ref'.hist \in Histories /\ FactsOf(ref'.hist) = ref'.facts
    BY <1>0, <2>2, IndexTells, AddAllTells DEF HistoriesTell
  <2>4. HistoriesTell'
    BY <1>0, <2>1, <2>2, <2>3 DEF HistoriesTell
  <2>5. DaysKept' /\ OneProgram'
    BY <1>0, <2>1, <2>2 DEF DaysKept, OneProgram
  <2> QED BY <1>0, <1>f, <2>1, <2>4, <2>5 DEF FilingsIInv
<1>3. CASE DaemonStart
  <2>1. /\ ref.pc = "idle" /\ history' = load_tsv(Nothing, file) /\ known' = saved
        /\ UNCHANGED <<file, saved, done_days, ref, today>>
    BY <1>3 DEF DaemonStart
  <2>2. HistoriesTell' /\ DaysKept' /\ OneProgram'
    BY <1>0, <2>1, LoadTells DEF HistoriesTell, DaysKept, OneProgram
  <2> QED BY <1>0, <1>f, <2>1, <2>2 DEF FilingsIInv
<1>4. CASE DaemonSave
  <2>1. /\ up /\ ~up' /\ file' = to_tsv(history) /\ saved' = known /\ history' = Nothing /\ known' = {}
        /\ UNCHANGED <<done_days, ref, today>>
    BY <1>4 DEF DaemonSave
  <2>2. FileTells'
    BY <1>0, <2>1, SaveTells DEF HistoriesTell
  <2>3. HistoriesTell' /\ DaysKept' /\ OneProgram'
    BY <1>0, <2>1, NothingTold DEF HistoriesTell, DaysKept, OneProgram
  <2> QED BY <1>0, <2>1, <2>2, <2>3 DEF FilingsIInv
<1>5. CASE DaemonDies
  <2>1. up /\ ~up' /\ history' = Nothing /\ known' = {} /\ UNCHANGED <<file, saved, done_days, ref, today>>
    BY <1>5 DEF DaemonDies
  <2>2. HistoriesTell' /\ DaysKept' /\ OneProgram'
    BY <1>0, <2>1, NothingTold DEF HistoriesTell, DaysKept, OneProgram
  <2> QED BY <1>0, <1>f, <2>1, <2>2 DEF FilingsIInv
<1>6. CASE RefStart
  <2>1. ~up /\ UNCHANGED <<up, history, known, file, saved, done_days, today>>
    BY <1>6 DEF RefStart
  <2>2. /\ ref'.pc = "fetch" /\ ref'.hist = load_tsv(Nothing, file) /\ ref'.facts = saved /\ ref'.done = done_days
        /\ ref' = [pc |-> ref'.pc, hist |-> ref'.hist, facts |-> ref'.facts, done |-> ref'.done]
    BY <1>6 DEF RefStart
  <2>3. HistoriesTell' /\ DaysKept' /\ OneProgram'
    BY <1>0, <2>1, <2>2, LoadTells DEF HistoriesTell, DaysKept, OneProgram
  <2> QED BY <1>0, <1>f, <2>1, <2>3 DEF FilingsIInv
<1>7. CASE RefWrite
  <2>0. UNCHANGED <<up, history, known, today>>
    BY <1>7 DEF RefWrite
  <2>1. CASE ref.pc = "fetch" /\ WriteHistory /\ ref' = [ref EXCEPT !.pc = "written"]
    <3>1. file' = to_tsv(ref.hist) /\ saved' = ref.facts /\ UNCHANGED done_days
      BY <2>1 DEF WriteHistory
    <3>2. FileTells'
      BY <1>0, <3>1, SaveTells DEF HistoriesTell
    <3>3. /\ ref'.pc = "written" /\ ref'.hist = ref.hist /\ ref'.facts = ref.facts /\ ref'.done = ref.done
          /\ ref' = [pc |-> ref'.pc, hist |-> ref'.hist, facts |-> ref'.facts, done |-> ref'.done]
      BY <1>0, <2>1 DEF HistoriesTell
    <3>4. HistoriesTell' /\ DaysKept' /\ OneProgram'
      BY <1>0, <2>0, <2>1, <3>1, <3>3 DEF HistoriesTell, DaysKept, OneProgram
    <3> QED BY <1>0, <2>0, <3>2, <3>4 DEF FilingsIInv
  <2>2. CASE ref.pc = "written" /\ WriteDays /\ ref' = Idle
    <3>1. done_days' = ref.done /\ UNCHANGED <<file, saved>>
      BY <2>2 DEF WriteDays
    <3>2. HistoriesTell' /\ DaysKept' /\ OneProgram'
      BY <1>0, <2>0, <2>2, <3>1, NothingTold DEF Idle, HistoriesTell, DaysKept, OneProgram
    <3> QED BY <1>0, <1>f, <2>0, <3>1, <3>2 DEF FilingsIInv
  <2> QED BY <1>7, <2>1, <2>2 DEF RefWrite
<1>8. CASE RefDies
  <2>1. ref' = Idle /\ UNCHANGED <<up, history, known, file, saved, done_days, today>>
    BY <1>8 DEF RefDies
  <2>2. HistoriesTell' /\ DaysKept' /\ OneProgram'
    BY <1>0, <2>1, NothingTold DEF Idle, HistoriesTell, DaysKept, OneProgram
  <2> QED BY <1>0, <1>f, <2>1, <2>2 DEF FilingsIInv
<1>9. CASE NextDay \/ UNCHANGED filingsVars
  <2>1. UNCHANGED <<up, history, known, file, saved, done_days, ref>> /\ today' \in Int
    BY <1>0, <1>9 DEF NextDay, filingsVars
  <2>2. HistoriesTell' /\ DaysKept' /\ OneProgram'
    BY <1>0, <2>1 DEF HistoriesTell, DaysKept, OneProgram
  <2> QED BY <1>f, <2>1, <2>2 DEF FilingsIInv
<1> QED BY <1>1, <1>2, <1>3, <1>4, <1>5, <1>6, <1>7, <1>8, <1>9 DEF FilingsNext

\* A history, a file and a run of stok-ref hold the facts they were told, on
\* any day, however the two programs start, save and die (filings.cpp:120,
\* stok_ref.cpp:183-235).
THEOREM FilingsInductive == FilingsSpec => []FilingsIInv
  BY FilingsInitIInv, FilingsStep, PTL DEF FilingsSpec

LEMMA IndexFromIInv == FilingsIInv => IndexKept
<1> SUFFICES ASSUME FilingsIInv, NEW d \in done_days, NEW x \in IndexFacts(d)
             PROVE  \E n \in DOMAIN file : /\ file[n].cik = x.cik /\ file[n].cls = x.cls
                                           /\ file[n].date = civil_from_days(d)
  BY DEF IndexKept
<1>1. FileTells /\ x \in saved
  BY DEF FilingsIInv, DaysKept
<1>2. PICK n \in DOMAIN Read(file) : x \in Told(Read(file)[n].cik, Read(file)[n])
  BY <1>1 DEF FileTells, RowsFacts
<1>3. n \in DOMAIN file /\ Read(file)[n].cik = file[n].cik /\ Read(file)[n].cls = file[n].cls
  BY <1>2 DEF Read
<1>4. x.cik = file[n].cik /\ x.cls = file[n].cls /\ x.day = Read(file)[n].day
  BY <1>2, <1>3 DEF Told, Facts
<1>5. x.day = d
  BY DEF IndexFacts, Facts
<1> QED BY <1>1, <1>3, <1>4, <1>5 DEF FileTells

\* What is known of an issuer is what was filed, in whatever order the index
\* and the live feed told it, through saves, crashes and restarts; a day that
\* is marked is on disk; and a replayed day knows nothing of itself or later
\* (filings.cpp:120-187, stok_ref.cpp:183-235).
THEOREM FilingsAreKept == FilingsSpec => []FilingsInv
<1>1. FilingsIInv => FilingsInv
  <2> SUFFICES ASSUME FilingsIInv PROVE FilingsInv
    OBVIOUS
  <2>1. today \in Int /\ history \in Histories /\ FactsOf(history) = known
    BY DEF FilingsIInv, HistoriesTell
  <2>2. FlagsExact
    BY <2>1, FlagsOf DEF FlagsExact
  <2>3. ASSUME NEW c \in Cik, NEW d \in FirstDay .. LastDay
        PROVE  /\ flags(before(history, d), c, d) = FlagsOfFacts({x \in known : x.day < d}, c, d)
               /\ flags(merge(before(history, d), history), c, today) = flags(history, c, today)
    <3>1. d \in Int
      BY FilingsAssumption
    <3>2. PICK start \in Histories : start = before(history, d) /\ FactsOf(start) = {x \in known : x.day < d}
      BY <2>1, <3>1, BeforeTells
    <3>3. PICK both \in Histories : both = merge(start, history) /\ FactsOf(both) = FactsOf(start) \cup known
      BY <2>1, RowsTell, AddAllTells DEF merge
    <3>4. FactsOf(both) = FactsOf(history)
      BY <2>1, <3>2, <3>3
    <3> QED BY <2>1, <3>1, <3>2, <3>3, <3>4, FlagsOf
  <2>4. NoLookAhead
    BY <2>3, Zenon DEF NoLookAhead
  <2> QED BY <2>2, <2>4, IndexFromIInv DEF FilingsInv
<1> QED BY <1>1, FilingsInductive, PTL

-----------------------------------------------------------------------------
(* The open-addressing table *)

Slot == [key : Key \cup {EmptyKey}, value : Value \cup {EmptyKey}]
Table(t, C) == C \in Nat \ {0} /\ t \in [0 .. C - 1 -> Slot]

\* Slots from one to another, forwards and round the end.
Dist(a, b, C) == IF a <= b THEN b - a ELSE b - a + C
Ideal(k, C) == mix64[k] % C

\* A lookup comes to every key without meeting an empty slot, ...
Path(t, C) ==
  \A p \in 0 .. C - 1 : t[p].key # EmptyKey =>
    \A q \in 0 .. C - 1 : Dist(Ideal(t[p].key, C), q, C) < Dist(Ideal(t[p].key, C), p, C) => t[q].key # EmptyKey
\* ... a key is in one slot, and a slot is empty.
Once(t, C) == \A p, q \in 0 .. C - 1 : t[p].key = t[q].key /\ t[p].key # EmptyKey => p = q
Free(t, C) == \E p \in 0 .. C - 1 : t[p].key = EmptyKey

\* The table holds the entries of a map.
Maps(t, C, m) ==
  /\ DOMAIN m \subseteq Key
  /\ \A k \in Key : k \in DOMAIN m <=> \E p \in 0 .. C - 1 : t[p].key = k
  /\ \A p \in 0 .. C - 1 : t[p].key # EmptyKey => t[p].value = m[t[p].key]

HashType == mix64 \in [Key -> Nat]

LEMMA Remainder ==
  ASSUME NEW C \in Nat \ {0}, NEW x \in Nat
  PROVE  /\ x % C \in 0 .. C - 1
         /\ x < C => x % C = x
         /\ C <= x /\ x < 2 * C => x % C = x - C
<1>1. x % C \in 0 .. C - 1
  BY SMT
<1>2. x = C * (x \div C) + (x % C) /\ x \div C \in Int
  BY SMT
<1>3. ASSUME x < C PROVE x \div C = 0
  BY <1>1, <1>2, <1>3, SMT
<1>4. ASSUME C <= x, x < 2 * C PROVE x \div C = 1
  BY <1>1, <1>2, <1>4, SMT
<1> QED BY <1>1, <1>2, <1>3, <1>4, SMT

LEMMA IdealIn ==
  ASSUME HashType, NEW C \in Nat \ {0}, NEW k \in Key
  PROVE  Ideal(k, C) \in 0 .. C - 1
  BY Remainder DEF HashType, Ideal

LEMMA CapacityIs ==
  ASSUME NEW t, NEW C, Table(t, C)
  PROVE  Capacity(t) = C /\ DOMAIN t = 0 .. C - 1
<1>1. DOMAIN t = 0 .. C - 1 /\ C \in Nat \ {0}
  BY DEF Table
<1>2. Cardinality(0 .. C - 1) = C
  <2>1. 0 \in Int /\ C - 1 \in Int
    BY <1>1
  <2>2. Cardinality(0 .. C - 1) = IF 0 > C - 1 THEN 0 ELSE C - 1 - 0 + 1
    BY <2>1, FS_Interval
  <2> QED BY <1>1, <2>2
<1> QED BY <1>1, <1>2 DEF Capacity

\* Slot o behind another, round the end.
LEMMA Behind ==
  ASSUME NEW C \in Nat \ {0}, NEW a \in 0 .. C - 1
  PROVE  /\ \A o \in 0 .. C - 1 : (a + o) % C \in 0 .. C - 1 /\ Dist(a, (a + o) % C, C) = o
         /\ \A b \in 0 .. C - 1 : Dist(a, b, C) \in 0 .. C - 1 /\ (a + Dist(a, b, C)) % C = b
<1>1. ASSUME NEW o \in 0 .. C - 1
      PROVE  (a + o) % C \in 0 .. C - 1 /\ Dist(a, (a + o) % C, C) = o
  <2>1. a + o \in Nat
    OBVIOUS
  <2>2. PICK x \in Nat : x = a + o
    BY <2>1
  <2>3. x % C = IF x < C THEN x ELSE x - C
    <3>1. x < 2 * C
      BY <2>2
    <3>2. (x < C => x % C = x) /\ (C <= x /\ x < 2 * C => x % C = x - C)
      BY Remainder
    <3> QED BY <3>1, <3>2
  <2> QED BY <2>2, <2>3 DEF Dist
<1>2. ASSUME NEW b \in 0 .. C - 1
      PROVE  Dist(a, b, C) \in 0 .. C - 1 /\ (a + Dist(a, b, C)) % C = b
  <2>1. Dist(a, b, C) \in 0 .. C - 1 /\ a + Dist(a, b, C) = IF a <= b THEN b ELSE b + C
    BY DEF Dist
  <2>2. PICK x \in Nat : x = a + Dist(a, b, C)
    BY <2>1
  <2>3. x % C = b
    <3>1. x = b \/ (x = b + C /\ C <= x /\ x < 2 * C)
      BY <2>1, <2>2
    <3> QED BY <3>1, Remainder
  <2> QED BY <2>1, <2>2, <2>3
<1> QED BY <1>1, <1>2

LEMMA SameSlotDist ==
  ASSUME NEW C \in Nat \ {0}, NEW a \in 0 .. C - 1, NEW p \in 0 .. C - 1, NEW q \in 0 .. C - 1,
         Dist(a, p, C) = Dist(a, q, C)
  PROVE  p = q
  BY DEF Dist

\* The loop of a lookup stops at the first slot with the key or without one.
First(t, C, k, p) ==
  /\ p \in 0 .. C - 1 /\ t[p].key \in {k, EmptyKey}
  /\ \A q \in 0 .. C - 1 : Dist(Ideal(k, C), q, C) < Dist(Ideal(k, C), p, C) => t[q].key \notin {k, EmptyKey}

LEMMA ProbeIs ==
  ASSUME HashType, NEW C, NEW t, Table(t, C), Free(t, C), NEW k \in Key
  PROVE  First(t, C, k, Probe(t, k))
<1>0. C \in Nat \ {0} /\ Capacity(t) = C /\ C \in Int
  <2>1. Capacity(t) = C
    BY CapacityIs
  <2> QED BY <2>1 DEF Table
<1>1. PICK a \in 0 .. C - 1 : a = Ideal(k, C)
  BY <1>0, IdealIn
<1> DEFINE Nth(o) == (a + o) % C
           S == {o \in 0 .. C - 1 : t[Nth(o)].key \in {k, EmptyKey}}
<1>2. Probe(t, k) = Nth(Min(S))
  BY <1>0, <1>1 DEF Probe, index, Ideal
<1>3. S # {}
  <2>1. PICK p \in 0 .. C - 1 : t[p].key = EmptyKey
    BY DEF Free
  <2>2. Dist(a, p, C) \in 0 .. C - 1 /\ Nth(Dist(a, p, C)) = p
    BY <1>0, Behind
  <2> QED BY <2>1, <2>2
<1>4. S \subseteq Nat
  BY <1>0
<1>5. \A o \in S : o \in 0 .. C - 1 /\ t[Nth(o)].key \in {k, EmptyKey}
  OBVIOUS
<1>6. \A o \in 0 .. C - 1 : t[Nth(o)].key \in {k, EmptyKey} => o \in S
  OBVIOUS
<1> HIDE DEF S, Nth
<1>7. Min(S) \in S /\ \A o \in S : Min(S) <= o
  <2>1. \E o \in S : \A j \in S : o <= j
    BY <1>3, <1>4, Least
  <2> QED BY <2>1 DEF Min
<1>8. PICK m \in 0 .. C - 1 : m = Min(S)
  BY <1>5, <1>7
<1>9. Nth(m) \in 0 .. C - 1 /\ Dist(a, Nth(m), C) = m
  BY <1>0, Behind DEF Nth
<1>10. ASSUME NEW q \in 0 .. C - 1, Dist(a, q, C) < m PROVE t[q].key \notin {k, EmptyKey}
  <2>1. Dist(a, q, C) \in 0 .. C - 1 /\ Nth(Dist(a, q, C)) = q
    BY <1>0, Behind DEF Nth
  <2>2. Dist(a, q, C) \notin S
    BY <1>7, <1>8, <1>10, <2>1
  <2> QED BY <1>6, <2>1, <2>2
<1> QED BY <1>1, <1>2, <1>5, <1>7, <1>8, <1>9, <1>10 DEF First

\* A lookup finds its key where it is, and an empty slot if it is nowhere.
LEMMA ProbeFinds ==
  ASSUME HashType, NEW C, NEW t, Table(t, C), Free(t, C), Path(t, C), Once(t, C), NEW k \in Key
  PROVE  /\ \A p \in 0 .. C - 1 : t[p].key = k => Probe(t, k) = p
         /\ (\A p \in 0 .. C - 1 : t[p].key # k) => t[Probe(t, k)].key = EmptyKey
<1>0. PICK r \in 0 .. C - 1 : r = Probe(t, k) /\ First(t, C, k, r)
  BY ProbeIs DEF First
<1>1. C \in Nat \ {0} /\ k # EmptyKey
  BY FlatAssumption DEF Table
<1>2. PICK a \in 0 .. C - 1 : a = Ideal(k, C)
  BY <1>1, IdealIn
<1>3. ASSUME NEW p \in 0 .. C - 1, t[p].key = k PROVE r = p
  <2>1. CASE t[r].key = k
    BY <1>1, <1>3, <2>1 DEF Once
  <2>2. CASE t[r].key = EmptyKey
    <3>1. ~ (Dist(a, r, C) < Dist(a, p, C))
      BY <1>1, <1>2, <1>3, <2>2 DEF Path
    <3>2. ~ (Dist(a, p, C) < Dist(a, r, C))
      BY <1>0, <1>2, <1>3 DEF First
    <3>3. Dist(a, r, C) \in Int /\ Dist(a, p, C) \in Int
      BY <1>1 DEF Dist
    <3> QED BY <1>1, <3>1, <3>2, <3>3, SameSlotDist
  <2> QED BY <1>0, <2>1, <2>2 DEF First
<1>4. ASSUME \A p \in 0 .. C - 1 : t[p].key # k PROVE t[r].key = EmptyKey
  BY <1>0, <1>4 DEF First
<1> QED BY <1>0, <1>3, <1>4

\* A table that is in order and holds the entries of a map.
Keeps(t, C, m) == Table(t, C) /\ Path(t, C) /\ Once(t, C) /\ Maps(t, C, m)

\* A map with one entry more, or changed.
With(m, k, v) == [x \in DOMAIN m \cup {k} |-> IF x = k THEN v ELSE m[x]]

\* As long as there are fewer keys than slots, a slot is empty.
LEMMA EmptyLeft ==
  ASSUME NEW C, NEW t, NEW m, Keeps(t, C, m), IsFiniteSet(DOMAIN m), Cardinality(DOMAIN m) < C
  PROVE  Free(t, C)
<1> SUFFICES ASSUME ~ Free(t, C) PROVE FALSE
  OBVIOUS
<1>0. C \in Nat \ {0} /\ Table(t, C) /\ Once(t, C) /\ Maps(t, C, m)
  BY DEF Keeps, Table
<1>1. \A p \in 0 .. C - 1 : t[p].key # EmptyKey /\ t[p].key \in Key
  BY <1>0 DEF Free, Table, Slot
<1>2. PICK f : f = [p \in 0 .. C - 1 |-> t[p].key]
  OBVIOUS
<1>3. f \in Injection(0 .. C - 1, DOMAIN m)
  <2>1. \A p \in 0 .. C - 1 : t[p].key \in DOMAIN m
    BY <1>0, <1>1 DEF Maps
  <2>2. \A p, q \in 0 .. C - 1 : f[p] = f[q] => p = q
    BY <1>0, <1>1, <1>2 DEF Once
  <2> QED BY <1>2, <2>1, <2>2 DEF Injection, IsInjective
<1>4. Cardinality(0 .. C - 1) = C
  BY <1>0, CapacityIs DEF Capacity
<1>5. Cardinality(0 .. C - 1) <= Cardinality(DOMAIN m)
  BY <1>3, FS_Injection
<1>6. Cardinality(DOMAIN m) \in Nat
  BY FS_CardinalityType
<1> QED BY <1>0, <1>4, <1>5, <1>6

\* Storing an entry in the slot a lookup of its key stops at.
LEMMA Placed ==
  ASSUME HashType, NEW C, NEW t, NEW m, Keeps(t, C, m), Free(t, C), NEW k \in Key, NEW v \in Value \cup {EmptyKey}
  PROVE  /\ Probe(t, k) \in 0 .. C - 1
         /\ t[Probe(t, k)].key = k <=> k \in DOMAIN m
         /\ Keeps([t EXCEPT ![Probe(t, k)] = [key |-> k, value |-> v]], C, With(m, k, v))
<1>0. C \in Nat \ {0} /\ Table(t, C) /\ Path(t, C) /\ Once(t, C) /\ Maps(t, C, m) /\ k # EmptyKey
      /\ t \in [0 .. C - 1 -> Slot]
  BY FlatAssumption DEF Keeps, Table
<1>1. PICK r \in 0 .. C - 1 : r = Probe(t, k) /\ First(t, C, k, r)
  BY <1>0, ProbeIs DEF First
<1>2. t[r].key \in {k, EmptyKey}
  BY <1>1 DEF First
<1>3. \A p \in 0 .. C - 1 : t[p].key = k => r = p
  BY <1>0, <1>1, ProbeFinds
<1>4. t[r].key = k <=> k \in DOMAIN m
  BY <1>0, <1>1, <1>3 DEF Maps
<1>5. PICK u : u = [t EXCEPT ![r] = [key |-> k, value |-> v]]
  OBVIOUS
<1>6. u \in [0 .. C - 1 -> Slot] /\ u[r].key = k /\ u[r].value = v /\ \A p \in 0 .. C - 1 : p # r => u[p] = t[p]
  BY <1>0, <1>1, <1>5 DEF Slot
<1>7. Path(u, C)
  <2> SUFFICES ASSUME NEW p \in 0 .. C - 1, u[p].key # EmptyKey, NEW q \in 0 .. C - 1,
                      Dist(Ideal(u[p].key, C), q, C) < Dist(Ideal(u[p].key, C), p, C)
               PROVE  u[q].key # EmptyKey
    BY DEF Path
  <2>1. CASE q = r
    BY <2>1, <1>0, <1>6
  <2>2. CASE q # r /\ p # r
    BY <2>2, <1>0, <1>6 DEF Path
  <2>3. CASE q # r /\ p = r
    BY <2>3, <1>1, <1>6 DEF First
  <2> QED BY <2>1, <2>2, <2>3
<1>8. Once(u, C)
  <2> SUFFICES ASSUME NEW p \in 0 .. C - 1, NEW q \in 0 .. C - 1, u[p].key = u[q].key, u[p].key # EmptyKey
               PROVE  p = q
    BY DEF Once
  <2>1. CASE p = r
    BY <2>1, <1>3, <1>6
  <2>2. CASE q = r
    BY <2>2, <1>3, <1>6
  <2>3. CASE p # r /\ q # r
    BY <2>3, <1>0, <1>6 DEF Once
  <2> QED BY <2>1, <2>2, <2>3
<1>9. Maps(u, C, With(m, k, v))
  <2>0. DOMAIN With(m, k, v) = DOMAIN m \cup {k} /\ \A x \in DOMAIN m \cup {k} : With(m, k, v)[x] = IF x = k THEN v ELSE m[x]
    BY DEF With
  <2>1. DOMAIN m \cup {k} \subseteq Key
    BY <1>0 DEF Maps
  <2>2. ASSUME NEW x \in Key PROVE x \in DOMAIN m \cup {k} <=> \E p \in 0 .. C - 1 : u[p].key = x
    <3>1. CASE x = k
      BY <3>1, <1>6
    <3>2. CASE x # k
      <4>1. x # EmptyKey
        BY FlatAssumption
      <4>2. \A p \in 0 .. C - 1 : u[p].key = x <=> t[p].key = x
        BY <3>2, <4>1, <1>2, <1>6
      <4> QED BY <4>2, <3>2, <1>0 DEF Maps
    <3> QED BY <3>1, <3>2
  <2>3. ASSUME NEW p \in 0 .. C - 1, u[p].key # EmptyKey PROVE u[p].value = With(m, k, v)[u[p].key]
    <3>1. CASE p = r
      BY <3>1, <2>0, <1>6
    <3>2. CASE p # r
      <4>1. u[p] = t[p] /\ t[p].key # k /\ t[p].key \in Key
        BY <3>2, <2>3, <1>0, <1>3, <1>6 DEF Slot
      <4>2. t[p].key \in DOMAIN m /\ t[p].value = m[t[p].key]
        BY <4>1, <2>3, <1>0 DEF Maps
      <4> QED BY <4>1, <4>2, <2>0
    <3> QED BY <3>1, <3>2
  <2> QED BY <2>0, <2>1, <2>2, <2>3 DEF Maps
<1> QED BY <1>0, <1>1, <1>4, <1>5, <1>6, <1>7, <1>8, <1>9 DEF Keeps, Table

\* The entries of the first n slots.
Upto(t, m, n) == [k \in {k \in DOMAIN m : \E p \in 0 .. n - 1 : t[p].key = k} |-> m[k]]

\* Growing: each entry of the old table is stored in one twice the size.
LEMMA Grown ==
  ASSUME HashType, NEW C, NEW t, NEW m, Keeps(t, C, m), IsFiniteSet(DOMAIN m), Cardinality(DOMAIN m) < C
  PROVE  Keeps(rehash(t), 2 * C, Upto(t, m, C))
<1>0. /\ C \in Nat /\ C # 0 /\ Table(t, C) /\ Once(t, C) /\ Maps(t, C, m) /\ t \in [0 .. C - 1 -> Slot]
      /\ 2 * C \in Nat \ {0} /\ Capacity(t) = C
  <2>1. Table(t, C)
    BY DEF Keeps
  <2>2. Capacity(t) = C
    BY <2>1, CapacityIs
  <2> QED BY <2>1, <2>2 DEF Keeps, Table
<1> DEFINE D == 2 * C
           Tables == [0 .. D - 1 -> Slot]
           Empty == [i \in 0 .. D - 1 |-> EmptySlot]
           Put(u, n) == IF t[n - 1].key = EmptyKey THEN u ELSE [u EXCEPT ![Probe(u, t[n - 1].key)] = t[n - 1]]
           Body(f) == [n \in 0 .. C |-> IF n = 0 THEN Empty ELSE Put(f[n - 1], n)]
           moved == CHOOSE f : f = Body(f)
<1>1. rehash(t) = moved[C]
  BY <1>0 DEF rehash
<1>2. Empty \in Tables
  BY DEF EmptySlot, Slot
<1>3. \A n \in 1 .. C, u \in Tables : Put(u, n) \in Tables
  <2> SUFFICES ASSUME NEW n \in 1 .. C, NEW u \in Tables PROVE Put(u, n) \in Tables
    OBVIOUS
  <2>1. n - 1 \in 0 .. C - 1 /\ t[n - 1] \in Slot
    BY <1>0
  <2> QED BY <2>1
<1> HIDE DEF Put, Empty, D
<1>4. \E f : f = Body(f)
  <2>1. PICK step : step = [n \in 1 .. C |-> [u \in Tables |-> Put(u, n)]]
    OBVIOUS
  <2>2. Steps(step, C, Tables)
    BY <1>0, <1>3, <2>1 DEF Steps
  <2>3. PICK f : Goes(f, step, C, Tables, Empty)
    BY <1>2, <2>2, LoopEnds
  <2>4. f \in [0 .. C -> Tables] /\ f[0] = Empty /\ \A n \in 1 .. C : f[n] = step[n][f[n - 1]]
    BY <2>3 DEF Goes
  <2>5. ASSUME NEW n \in 0 .. C PROVE f[n] = IF n = 0 THEN Empty ELSE Put(f[n - 1], n)
    <3>1. CASE n = 0
      BY <3>1, <2>4
    <3>2. CASE n # 0
      <4>1. n \in 1 .. C /\ n - 1 \in 0 .. C /\ f[n - 1] \in Tables
        BY <3>2, <1>0, <2>4
      <4>2. f[n] = step[n][f[n - 1]]
        BY <4>1, <2>4
      <4> QED BY <4>1, <4>2, <2>1, <3>2
    <3> QED BY <3>1, <3>2
  <2> QED BY <2>4, <2>5
<1>5. moved = Body(moved)
  BY <1>4
<1> HIDE DEF moved
<1>6. moved[0] = Empty /\ \A n \in 1 .. C : moved[n] = Put(moved[n - 1], n)
  BY <1>0, <1>5
<1> DEFINE T == {n \in 0 .. C : Keeps(moved[n], D, Upto(t, m, n))}
<1>7. 0 \in T
  <2>1. DOMAIN Upto(t, m, 0) = {}
    BY DEF Upto
  <2>2. \A p \in 0 .. D - 1 : Empty[p].key = EmptyKey
    BY DEF Empty, EmptySlot
  <2>3. Path(Empty, D) /\ Once(Empty, D)
    BY <2>2 DEF Path, Once
  <2>4. Maps(Empty, D, Upto(t, m, 0))
    BY <2>1, <2>2, FlatAssumption DEF Maps
  <2>5. Table(Empty, D)
    BY <1>0, <1>2 DEF Table, D
  <2> QED BY <1>0, <1>6, <2>3, <2>4, <2>5 DEF Keeps
<1>8. ASSUME NEW n \in 1 .. C, n - 1 \in T PROVE n \in T
  <2>1. n - 1 \in 0 .. C - 1 /\ n \in 0 .. C /\ t[n - 1] \in Slot /\ n - 1 \in Int
    BY <1>0
  <2>2. PICK u : u = moved[n - 1] /\ Keeps(u, D, Upto(t, m, n - 1))
    BY <1>8
  <2>3. moved[n] = Put(u, n)
    BY <1>6, <2>2
  <2>4. \A p : p \in 0 .. n - 1 <=> p \in 0 .. n - 2 \/ p = n - 1
    BY <2>1
  <2>a. n - 1 - 1 = n - 2
    BY <2>1
  <2>5. CASE t[n - 1].key = EmptyKey
    <3>1. Upto(t, m, n) = Upto(t, m, n - 1)
      <4>1. \A k \in DOMAIN m : k # EmptyKey
        BY <1>0, FlatAssumption DEF Maps
      <4>2. \A k \in DOMAIN m : (\E p \in 0 .. n - 1 : t[p].key = k) <=> (\E p \in 0 .. n - 2 : t[p].key = k)
        BY <4>1, <2>4, <2>5
      <4> QED BY <4>2, <2>a DEF Upto
    <3>2. moved[n] = u
      BY <2>3, <2>5 DEF Put
    <3> QED BY <2>1, <2>2, <3>1, <3>2
  <2>6. CASE t[n - 1].key # EmptyKey
    <3>1. PICK k \in Key : k = t[n - 1].key
      BY <2>1, <2>6 DEF Slot
    <3>2. PICK v \in Value \cup {EmptyKey} : v = t[n - 1].value
      BY <2>1 DEF Slot
    <3>3. t[n - 1] = [key |-> k, value |-> v] /\ k \in DOMAIN m /\ v = m[k]
      BY <1>0, <2>1, <2>6, <3>1, <3>2 DEF Slot, Maps
    <3>4. Free(u, D)
      <4>1. DOMAIN Upto(t, m, n - 1) \subseteq DOMAIN m
        BY DEF Upto
      <4>2. IsFiniteSet(DOMAIN Upto(t, m, n - 1)) /\ Cardinality(DOMAIN Upto(t, m, n - 1)) <= Cardinality(DOMAIN m)
        BY <4>1, FS_Subset
      <4>3. Cardinality(DOMAIN Upto(t, m, n - 1)) \in Nat /\ Cardinality(DOMAIN m) \in Nat
        BY <4>2, FS_CardinalityType
      <4>4. Cardinality(DOMAIN Upto(t, m, n - 1)) < D
        BY <1>0, <4>2, <4>3 DEF D
      <4> QED BY <2>2, <4>2, <4>4, EmptyLeft
    <3>5. Keeps([u EXCEPT ![Probe(u, k)] = [key |-> k, value |-> v]], D, With(Upto(t, m, n - 1), k, v))
      BY <2>2, <3>4, Placed
    <3>6. With(Upto(t, m, n - 1), k, v) = Upto(t, m, n)
      <4>1. DOMAIN Upto(t, m, n) = DOMAIN Upto(t, m, n - 1) \cup {k}
        <5>1. \A x \in DOMAIN m : (\E p \in 0 .. n - 1 : t[p].key = x) <=> (\E p \in 0 .. n - 2 : t[p].key = x) \/ x = k
          BY <2>4, <3>1
        <5> QED BY <5>1, <2>a, <3>3 DEF Upto
      <4>2. \A x \in DOMAIN Upto(t, m, n) : Upto(t, m, n)[x] = IF x = k THEN v ELSE Upto(t, m, n - 1)[x]
        BY <4>1, <3>3 DEF Upto
      <4>3. Upto(t, m, n) = [x \in DOMAIN Upto(t, m, n) |-> Upto(t, m, n)[x]]
        BY DEF Upto
      <4> QED BY <4>1, <4>2, <4>3 DEF With
    <3>7. moved[n] = [u EXCEPT ![Probe(u, k)] = [key |-> k, value |-> v]]
      BY <2>3, <2>6, <3>1, <3>3 DEF Put
    <3> QED BY <2>1, <3>5, <3>6, <3>7
  <2> QED BY <2>5, <2>6
<1>9. C \in T
  <2> HIDE DEF T
  <2>1. \A n \in 0 .. C : n \in T
    BY <1>0, <1>7, <1>8, EachStep
  <2> QED BY <2>1, <1>0
<1> QED BY <1>1, <1>9 DEF D

\* The slots in a line behind an empty one; L is the place in it.
OnLine(L, C, z) ==
  /\ L \in [0 .. C - 1 -> 0 .. C - 1] /\ L[z] = 0
  /\ \A p, q \in 0 .. C - 1 : L[p] = L[q] => p = q
  \* A way along the ring that does not pass z is one along the line.
  /\ \A a, p, q \in 0 .. C - 1 :
       L[a] <= L[p] => (Dist(a, q, C) < Dist(a, p, C) <=> L[a] <= L[q] /\ L[q] < L[p])
  /\ \A a, p \in 0 .. C - 1 : L[p] < L[a] /\ p # z => Dist(a, z, C) < Dist(a, p, C)
  /\ \A a, p, q \in 0 .. C - 1 : L[q] < L[p] /\ L[a] <= L[p] => (movable(a, q, p) <=> L[a] <= L[q])

LEMMA LineIs ==
  ASSUME NEW C \in Nat \ {0}, NEW z \in 0 .. C - 1
  PROVE  \E L : /\ OnLine(L, C, z)
                /\ \A i \in 0 .. C - 1, o \in 1 .. C :
                     /\ (i + o) % C \in 0 .. C - 1
                     /\ L[i] + o < C => L[(i + o) % C] = L[i] + o
                     /\ L[i] + o = C => (i + o) % C = z
<1>1. PICK L : L = [p \in 0 .. C - 1 |-> Dist(z, p, C)]
  OBVIOUS
<1>0. \A p \in 0 .. C - 1 : L[p] = IF z <= p THEN p - z ELSE p - z + C
  BY <1>1 DEF Dist
<1>2. L \in [0 .. C - 1 -> 0 .. C - 1] /\ L[z] = 0
  BY <1>1 DEF Dist
<1>3. ASSUME NEW p \in 0 .. C - 1, NEW q \in 0 .. C - 1, L[p] = L[q] PROVE p = q
  BY <1>0, <1>3
<1>4. ASSUME NEW a \in 0 .. C - 1, NEW p \in 0 .. C - 1, NEW q \in 0 .. C - 1, L[a] <= L[p]
      PROVE  Dist(a, q, C) < Dist(a, p, C) <=> L[a] <= L[q] /\ L[q] < L[p]
  BY <1>0, <1>4 DEF Dist
<1>5. ASSUME NEW a \in 0 .. C - 1, NEW p \in 0 .. C - 1, L[p] < L[a], p # z
      PROVE  Dist(a, z, C) < Dist(a, p, C)
  BY <1>0, <1>5 DEF Dist
<1>6. ASSUME NEW a \in 0 .. C - 1, NEW p \in 0 .. C - 1, NEW q \in 0 .. C - 1, L[q] < L[p], L[a] <= L[p]
      PROVE  movable(a, q, p) <=> L[a] <= L[q]
  BY <1>0, <1>6 DEF movable
<1>7. ASSUME NEW i \in 0 .. C - 1, NEW o \in 1 .. C
      PROVE  /\ (i + o) % C \in 0 .. C - 1
             /\ L[i] + o < C => L[(i + o) % C] = L[i] + o
             /\ L[i] + o = C => (i + o) % C = z
  <2>1. PICK x \in Nat : x = i + o
    OBVIOUS
  <2>2. x % C = IF x < C THEN x ELSE x - C
    <3>1. x < 2 * C
      BY <2>1
    <3>2. (x < C => x % C = x) /\ (C <= x /\ x < 2 * C => x % C = x - C)
      BY Remainder
    <3> QED BY <3>1, <3>2
  <2> QED BY <1>0, <2>1, <2>2
<1>8. OnLine(L, C, z)
  BY <1>2, <1>3, <1>4, <1>5, <1>6, Zenon DEF OnLine
<1> QED BY <1>7, <1>8, Zenon

\* Along the line from its ideal slot to its place an entry meets no empty
\* slot, or only the hole if it is further than B.
Line(v, C, L, h, B) ==
  \A p \in 0 .. C - 1 : v[p].key # EmptyKey =>
    /\ 1 <= L[Ideal(v[p].key, C)] /\ L[Ideal(v[p].key, C)] <= L[p]
    /\ \A q \in 0 .. C - 1 : L[Ideal(v[p].key, C)] <= L[q] /\ L[q] < L[p] =>
         v[q].key # EmptyKey \/ (q = h /\ L[p] > B)

LEMMA KeyIdeal ==
  ASSUME HashType, NEW C, NEW v, Table(v, C), NEW p \in 0 .. C - 1, v[p].key # EmptyKey
  PROVE  v[p].key \in Key /\ Ideal(v[p].key, C) \in 0 .. C - 1
<1>1. C \in Nat \ {0} /\ v[p].key \in Key
  BY DEF Table, Slot
<1> QED BY <1>1, IdealIn

LEMMA PathOnLine ==
  ASSUME HashType, NEW C, NEW t, Table(t, C), NEW z \in 0 .. C - 1, t[z].key = EmptyKey, NEW L, OnLine(L, C, z)
  PROVE  Path(t, C) <=> Line(t, C, L, z, C)
<1>0. C \in Nat \ {0} /\ L \in [0 .. C - 1 -> 0 .. C - 1]
  BY DEF Table, OnLine
<1>1. ASSUME Path(t, C) PROVE Line(t, C, L, z, C)
  <2> SUFFICES ASSUME NEW p \in 0 .. C - 1, t[p].key # EmptyKey
               PROVE  /\ 1 <= L[Ideal(t[p].key, C)] /\ L[Ideal(t[p].key, C)] <= L[p]
                      /\ \A q \in 0 .. C - 1 : L[Ideal(t[p].key, C)] <= L[q] /\ L[q] < L[p] => t[q].key # EmptyKey
    BY DEF Line
  <2>1. PICK a \in 0 .. C - 1 : a = Ideal(t[p].key, C)
    BY KeyIdeal
  <2>2. \A q \in 0 .. C - 1 : Dist(a, q, C) < Dist(a, p, C) => t[q].key # EmptyKey
    BY <1>1, <2>1 DEF Path
  <2>3. L[a] <= L[p]
    <3>1. ~ (L[p] < L[a])
      BY <2>2 DEF OnLine
    <3> QED BY <1>0, <3>1
  <2>4. \A q \in 0 .. C - 1 : L[a] <= L[q] /\ L[q] < L[p] => t[q].key # EmptyKey
    BY <2>2, <2>3 DEF OnLine
  <2>5. L[z] = 0 /\ L[p] # L[z]
    BY DEF OnLine
  <2>6. 1 <= L[a]
    <3>1. L[a] \in 0 .. C - 1 /\ L[p] \in 0 .. C - 1
      BY <1>0
    <3>2. L[a] # 0
      BY <2>4, <2>5, <3>1
    <3> QED BY <1>0, <3>1, <3>2
  <2> QED BY <2>1, <2>3, <2>4, <2>6
<1>2. ASSUME Line(t, C, L, z, C) PROVE Path(t, C)
  <2> SUFFICES ASSUME NEW p \in 0 .. C - 1, t[p].key # EmptyKey, NEW q \in 0 .. C - 1,
                      Dist(Ideal(t[p].key, C), q, C) < Dist(Ideal(t[p].key, C), p, C)
               PROVE  t[q].key # EmptyKey
    BY DEF Path
  <2>1. PICK a \in 0 .. C - 1 : a = Ideal(t[p].key, C)
    BY KeyIdeal
  <2>2. L[a] <= L[p] /\ ~ (L[p] > C)
    <3>1. L[a] <= L[p]
      BY <1>2, <2>1 DEF Line
    <3>2. L[p] \in 0 .. C - 1
      BY <1>0
    <3> QED BY <1>0, <3>1, <3>2
  <2>3. L[a] <= L[q] /\ L[q] < L[p]
    BY <2>1, <2>2 DEF OnLine
  <2> QED BY <1>2, <2>1, <2>2, <2>3 DEF Line
<1> QED BY <1>1, <1>2

\* The table without the entry at h.
Vacant(t, h) == [t EXCEPT ![h].key = EmptyKey]

Vacates(t, v, C, h) == Table(v, C) /\ v[h].key = EmptyKey /\ \A p \in 0 .. C - 1 : p # h => v[p] = t[p]

LEMMA Vacated ==
  ASSUME NEW C, NEW t, Table(t, C), NEW h \in 0 .. C - 1
  PROVE  Vacates(t, Vacant(t, h), C, h)
  BY DEF Vacates, Table, Vacant, Slot

\* An entry is pulled from j back to the empty slot h.
Pulled(v, w, C, h, j) ==
  /\ Table(v, C) /\ Table(w, C) /\ h \in 0 .. C - 1 /\ j \in 0 .. C - 1 /\ h # j
  /\ v[h].key = EmptyKey /\ v[j].key # EmptyKey /\ w[h] = v[j] /\ w[j].key = EmptyKey
  /\ \A p \in 0 .. C - 1 : p # h /\ p # j => w[p] = v[p]

LEMMA PulledMaps ==
  ASSUME NEW C, NEW v, NEW w, NEW h, NEW j, Pulled(v, w, C, h, j), NEW m, Once(v, C), Maps(v, C, m)
  PROVE  Once(w, C) /\ Maps(w, C, m)
<1>0. h \in 0 .. C - 1 /\ j \in 0 .. C - 1 /\ h # j
      /\ v[h].key = EmptyKey /\ v[j].key # EmptyKey /\ w[h] = v[j] /\ w[j].key = EmptyKey
      /\ \A p \in 0 .. C - 1 : p # h /\ p # j => w[p] = v[p]
  BY DEF Pulled
<1>1. PICK from : from = [p \in 0 .. C - 1 |-> IF p = h THEN j ELSE IF p = j THEN h ELSE p]
  OBVIOUS
<1>2. \A p \in 0 .. C - 1 : from[p] \in 0 .. C - 1 /\ from[from[p]] = p
  BY <1>0, <1>1
<1>3. \A p \in 0 .. C - 1 : w[p].key = v[from[p]].key /\ (w[p].key # EmptyKey => w[p] = v[from[p]])
  BY <1>0, <1>1
<1>4. Once(w, C)
  BY <1>2, <1>3 DEF Once
<1>5. \A k \in Key : k \in DOMAIN m <=> \E p \in 0 .. C - 1 : w[p].key = k
  <2> SUFFICES ASSUME NEW k \in Key PROVE k \in DOMAIN m <=> \E p \in 0 .. C - 1 : w[p].key = k
    OBVIOUS
  <2>1. (\E p \in 0 .. C - 1 : w[p].key = k) <=> \E p \in 0 .. C - 1 : v[p].key = k
    BY <1>2, <1>3
  <2> QED BY <2>1 DEF Maps
<1>6. \A p \in 0 .. C - 1 : w[p].key # EmptyKey => w[p].value = m[w[p].key]
  BY <1>2, <1>3 DEF Maps
<1> QED BY <1>4, <1>5, <1>6 DEF Maps

LEMMA Places ==
  ASSUME NEW C, NEW t, Table(t, C), NEW z, NEW L, OnLine(L, C, z)
  PROVE  C \in Nat /\ (\A p \in 0 .. C - 1 : L[p] \in Nat /\ L[p] < C) /\ \A p, q \in 0 .. C - 1 : L[p] = L[q] => p = q
<1>1. C \in Nat
  BY DEF Table
<1>2. L \in [0 .. C - 1 -> 0 .. C - 1] /\ \A p, q \in 0 .. C - 1 : L[p] = L[q] => p = q
  BY DEF OnLine
<1>3. ASSUME NEW p \in 0 .. C - 1 PROVE L[p] \in Nat /\ L[p] < C
  <2>1. L[p] \in 0 .. C - 1
    BY <1>2
  <2> QED BY <1>1, <2>1
<1> QED BY <1>1, <1>2, <1>3

\* The loop looks at the slot j behind those up to B: its entry is pulled
\* back, ...
LEMMA LinePulled ==
  ASSUME HashType, NEW C, NEW z \in 0 .. C - 1, NEW L, OnLine(L, C, z),
         NEW v, NEW w, NEW h, NEW j, Pulled(v, w, C, h, j),
         NEW B \in Nat, L[h] <= B, L[j] = B + 1, Line(v, C, L, h, B), L[Ideal(v[j].key, C)] <= L[h]
  PROVE  Line(w, C, L, j, B + 1)
<1>0. h \in 0 .. C - 1 /\ j \in 0 .. C - 1 /\ h # j /\ Table(v, C) /\ Table(w, C)
      /\ v[h].key = EmptyKey /\ v[j].key # EmptyKey /\ w[h] = v[j] /\ w[j].key = EmptyKey
      /\ \A p \in 0 .. C - 1 : p # h /\ p # j => w[p] = v[p]
  BY DEF Pulled
<1>1. C \in Nat /\ (\A p \in 0 .. C - 1 : L[p] \in Nat) /\ \A p, q \in 0 .. C - 1 : L[p] = L[q] => p = q
  BY <1>0, Places
<1> SUFFICES ASSUME NEW p \in 0 .. C - 1, w[p].key # EmptyKey
             PROVE  /\ 1 <= L[Ideal(w[p].key, C)] /\ L[Ideal(w[p].key, C)] <= L[p]
                    /\ \A q \in 0 .. C - 1 : L[Ideal(w[p].key, C)] <= L[q] /\ L[q] < L[p] =>
                         w[q].key # EmptyKey \/ (q = j /\ L[p] > B + 1)
  BY DEF Line
<1>2. PICK a \in 0 .. C - 1 : a = Ideal(w[p].key, C)
  BY <1>0, KeyIdeal
<1>3. p # j
  BY <1>0
<1>4. CASE p = h
  <2>1. a = Ideal(v[j].key, C) /\ 1 <= L[a] /\ L[a] <= L[h]
    BY <1>0, <1>2, <1>4 DEF Line
  <2>2. \A q \in 0 .. C - 1 : L[a] <= L[q] /\ L[q] < L[j] => v[q].key # EmptyKey \/ q = h
    BY <1>0, <2>1 DEF Line
  <2>3. ASSUME NEW q \in 0 .. C - 1, L[a] <= L[q], L[q] < L[p] PROVE w[q].key # EmptyKey
    <3>1. q # h /\ q # j /\ L[q] < L[j]
      BY <1>0, <1>1, <1>4, <2>3
    <3> QED BY <1>0, <2>2, <2>3, <3>1
  <2> QED BY <1>2, <1>4, <2>1, <2>3
<1>5. CASE p # h
  <2>1. w[p] = v[p]
    BY <1>0, <1>3, <1>5
  <2>2. /\ 1 <= L[a] /\ L[a] <= L[p]
        /\ \A q \in 0 .. C - 1 : L[a] <= L[q] /\ L[q] < L[p] => v[q].key # EmptyKey \/ (q = h /\ L[p] > B)
    BY <1>2, <2>1 DEF Line
  <2>3. ASSUME NEW q \in 0 .. C - 1, L[a] <= L[q], L[q] < L[p]
        PROVE  w[q].key # EmptyKey \/ (q = j /\ L[p] > B + 1)
    <3>1. CASE q = j
      BY <3>1, <2>3, <1>1
    <3>2. CASE q = h
      BY <3>2, <1>0
    <3>3. CASE q # j /\ q # h
      BY <3>3, <2>2, <2>3, <1>0
    <3> QED BY <3>1, <3>2, <3>3
  <2> QED BY <1>2, <2>2, <2>3
<1> QED BY <1>4, <1>5

\* ... or stays, as the hole is in front of its ideal slot, ...
LEMMA LineStays ==
  ASSUME HashType, NEW C, NEW z \in 0 .. C - 1, NEW L, OnLine(L, C, z), NEW v, Table(v, C),
         NEW h \in 0 .. C - 1, NEW j \in 0 .. C - 1, v[j].key # EmptyKey,
         NEW B \in Nat, L[j] = B + 1, Line(v, C, L, h, B), ~ (L[Ideal(v[j].key, C)] <= L[h])
  PROVE  Line(v, C, L, h, B + 1)
<1>1. C \in Nat /\ (\A p \in 0 .. C - 1 : L[p] \in Nat) /\ \A p, q \in 0 .. C - 1 : L[p] = L[q] => p = q
  BY Places
<1> SUFFICES ASSUME NEW p \in 0 .. C - 1, v[p].key # EmptyKey
             PROVE  /\ 1 <= L[Ideal(v[p].key, C)] /\ L[Ideal(v[p].key, C)] <= L[p]
                    /\ \A q \in 0 .. C - 1 : L[Ideal(v[p].key, C)] <= L[q] /\ L[q] < L[p] =>
                         v[q].key # EmptyKey \/ (q = h /\ L[p] > B + 1)
  BY DEF Line
<1>2. PICK a \in 0 .. C - 1 : a = Ideal(v[p].key, C)
  BY KeyIdeal
<1>3. /\ 1 <= L[a] /\ L[a] <= L[p]
      /\ \A q \in 0 .. C - 1 : L[a] <= L[q] /\ L[q] < L[p] => v[q].key # EmptyKey \/ (q = h /\ L[p] > B)
  BY <1>2 DEF Line
<1>4. ASSUME NEW q \in 0 .. C - 1, L[a] <= L[q], L[q] < L[p], v[q].key = EmptyKey PROVE q = h /\ L[p] > B + 1
  <2>1. q = h /\ L[p] > B
    BY <1>3, <1>4
  <2>2. p # j
    BY <1>2, <1>4, <2>1
  <2> QED BY <1>1, <2>1, <2>2
<1> QED BY <1>2, <1>3, <1>4

\* ... or there is none, and what is behind does not need the hole.
LEMMA LineOver ==
  ASSUME HashType, NEW C, NEW z \in 0 .. C - 1, NEW L, OnLine(L, C, z), NEW v, Table(v, C),
         NEW h \in 0 .. C - 1, NEW j \in 0 .. C - 1, v[j].key = EmptyKey,
         NEW B \in Nat, L[h] <= B, L[j] = B + 1 \/ B + 1 = C, Line(v, C, L, h, B)
  PROVE  Line(v, C, L, h, C)
<1>1. C \in Nat /\ (\A p \in 0 .. C - 1 : L[p] \in Nat /\ L[p] < C) /\ \A p, q \in 0 .. C - 1 : L[p] = L[q] => p = q
  BY Places
<1> SUFFICES ASSUME NEW p \in 0 .. C - 1, v[p].key # EmptyKey
             PROVE  /\ 1 <= L[Ideal(v[p].key, C)] /\ L[Ideal(v[p].key, C)] <= L[p]
                    /\ \A q \in 0 .. C - 1 : L[Ideal(v[p].key, C)] <= L[q] /\ L[q] < L[p] => v[q].key # EmptyKey
  BY DEF Line
<1>2. PICK a \in 0 .. C - 1 : a = Ideal(v[p].key, C)
  BY KeyIdeal
<1>3. /\ 1 <= L[a] /\ L[a] <= L[p]
      /\ \A q \in 0 .. C - 1 : L[a] <= L[q] /\ L[q] < L[p] => v[q].key # EmptyKey \/ (q = h /\ L[p] > B)
  BY <1>2 DEF Line
<1>4. ASSUME NEW q \in 0 .. C - 1, L[a] <= L[q], L[q] < L[p], v[q].key = EmptyKey PROVE FALSE
  <2>1. q = h /\ L[p] > B
    BY <1>3, <1>4
  <2>2. L[j] = B + 1
    BY <1>1, <2>1
  <2>3. p # j /\ L[p] # L[j]
    BY <1>1
  <2>4. L[a] <= L[j] /\ L[j] < L[p] /\ j # h
    BY <1>1, <1>4, <2>1, <2>2, <2>3
  <2> QED BY <1>3, <2>4
<1> QED BY <1>2, <1>3, <1>4

\* States of the loop of erase(), ...
Shifts(C) == [tab : [0 .. C - 1 -> Slot], hole : 0 .. C - 1, over : BOOLEAN]
\* ... and what holds of one after o slots, with an empty slot at the start of
\* the line: only the entries not looked at yet may need the hole.
Shifting(s, o, C, L, z, i, m) ==
  /\ s \in Shifts(C) /\ s.tab[z].key = EmptyKey /\ L[i] <= L[s.hole]
  /\ Once(Vacant(s.tab, s.hole), C) /\ Maps(Vacant(s.tab, s.hole), C, m)
  /\ IF s.over THEN Line(Vacant(s.tab, s.hole), C, L, s.hole, C)
     ELSE L[i] + o < C /\ L[s.hole] <= L[i] + o /\ Line(Vacant(s.tab, s.hole), C, L, s.hole, L[i] + o)

\* One round of the loop, at the slot j.
Round(s, j, C) ==
  IF s.over \/ s.tab[j].key = EmptyKey THEN [s EXCEPT !.over = TRUE]
  ELSE IF movable(Ideal(s.tab[j].key, C), s.hole, j) THEN [s EXCEPT !.tab[s.hole] = s.tab[j], !.hole = j]
  ELSE s

LEMMA RoundType ==
  ASSUME NEW C, NEW s \in Shifts(C), NEW j \in 0 .. C - 1
  PROVE  Round(s, j, C) \in Shifts(C)
<1>1. s.tab \in [0 .. C - 1 -> Slot] /\ s.tab[j] \in Slot
  BY DEF Shifts
<1>2. [s EXCEPT !.over = TRUE] \in Shifts(C)
  BY DEF Shifts
<1>3. [s EXCEPT !.tab[s.hole] = s.tab[j], !.hole = j] \in Shifts(C)
  BY <1>1 DEF Shifts
<1> QED BY <1>2, <1>3 DEF Round

LEMMA RoundKeeps ==
  ASSUME HashType, NEW C \in Nat \ {0}, NEW z \in 0 .. C - 1, NEW L, OnLine(L, C, z), NEW i \in 0 .. C - 1, 1 <= L[i],
         NEW m, NEW o \in 1 .. C, NEW s, Shifting(s, o - 1, C, L, z, i, m), NEW j \in 0 .. C - 1,
         L[i] + o < C => L[j] = L[i] + o, L[i] + o = C => j = z
  PROVE  Shifting(Round(s, j, C), o, C, L, z, i, m)
<1> DEFINE h == s.hole
           v == Vacant(s.tab, s.hole)
<1>0. s \in Shifts(C) /\ s.tab[z].key = EmptyKey /\ L[i] <= L[h] /\ Once(v, C) /\ Maps(v, C, m) /\ h \in 0 .. C - 1
      /\ s.over \in BOOLEAN /\ Table(s.tab, C)
  BY DEF Shifting, Shifts, Table
<1>1. Table(v, C) /\ v[h].key = EmptyKey /\ \A p \in 0 .. C - 1 : p # h => v[p] = s.tab[p]
  <2>1. PICK g \in 0 .. C - 1, t \in {s.tab} : t = s.tab /\ g = h /\ Table(t, C)
    BY <1>0
  <2>2. Vacates(t, Vacant(t, g), C, g)
    BY <2>1, Vacated
  <2> QED BY <2>1, <2>2 DEF Vacates
<1>2. (\A p \in 0 .. C - 1 : L[p] \in Nat /\ L[p] < C) /\ (\A p, q \in 0 .. C - 1 : L[p] = L[q] => p = q) /\ L[z] = 0
  <2>1. L[z] = 0
    BY DEF OnLine
  <2> QED BY <1>0, <2>1, Places
<1>3. CASE s.over
  <2>1. Round(s, j, C) = s
    BY <1>0, <1>3 DEF Round, Shifts
  <2> QED BY <1>3, <2>1 DEF Shifting
<1>4. CASE ~ s.over
  <2>1. PICK B \in Nat : B = L[i] + (o - 1) /\ B + 1 = L[i] + o
    BY <1>2
  <2>2. B < C /\ L[h] <= B /\ Line(v, C, L, h, B)
    BY <1>4, <2>1 DEF Shifting
  <2>3. L[j] = B + 1 \/ (B + 1 = C /\ j = z)
    BY <2>1, <2>2
  <2>4. j # h
    BY <1>2, <1>0, <2>2, <2>3
  <2>5. v[j] = s.tab[j]
    BY <1>1, <2>4
  <2>6. CASE s.tab[j].key = EmptyKey
    <3>1. Line(v, C, L, h, C)
      BY <1>0, <1>1, <2>2, <2>3, <2>5, <2>6, LineOver
    <3>2. PICK r : r = Round(s, j, C)
      OBVIOUS
    <3>3. r = [s EXCEPT !.over = TRUE]
      BY <2>6, <3>2 DEF Round
    <3>4. r \in Shifts(C) /\ r.tab = s.tab /\ r.hole = s.hole /\ r.over
      BY <1>0, <3>3 DEF Shifts
    <3> QED BY <1>0, <3>1, <3>2, <3>4 DEF Shifting
  <2>7. CASE s.tab[j].key # EmptyKey
    <3>1. L[j] = B + 1 /\ B + 1 < C
      BY <1>0, <1>2, <2>3, <2>7
    <3>2. PICK a \in 0 .. C - 1 : a = Ideal(s.tab[j].key, C)
      BY <1>0, <2>7, KeyIdeal
    <3>3. 1 <= L[a] /\ L[a] <= L[j]
      BY <2>2, <2>5, <2>7, <3>2 DEF Line
    <3>4. movable(a, h, j) <=> L[a] <= L[h]
      <4>1. L[h] < L[j]
        BY <1>0, <1>2, <2>2, <3>1
      <4> QED BY <1>0, <3>3, <4>1 DEF OnLine
    <3>5. CASE movable(a, h, j)
      <4>1. PICK r : r = Round(s, j, C)
        OBVIOUS
      <4>2. r = [s EXCEPT !.tab[s.hole] = s.tab[j], !.hole = j]
        BY <1>4, <2>7, <3>2, <3>5, <4>1 DEF Round
      <4>3. r \in Shifts(C)
        BY <1>0, <4>1, RoundType
      <4>4. r.hole = j /\ r.over = s.over /\ r.tab = [s.tab EXCEPT ![h] = s.tab[j]]
        BY <1>0, <4>2 DEF Shifts
      <4>5. r.tab[h] = s.tab[j] /\ (\A p \in 0 .. C - 1 : p # h => r.tab[p] = s.tab[p]) /\ Table(r.tab, C)
        BY <1>0, <4>3, <4>4 DEF Table, Shifts
      <4>6. PICK w : w = Vacant(r.tab, j)
        OBVIOUS
      <4>7. Table(w, C) /\ w[j].key = EmptyKey /\ \A p \in 0 .. C - 1 : p # j => w[p] = r.tab[p]
        <5>1. PICK t : t = r.tab /\ Table(t, C)
          BY <4>5
        <5>2. Vacates(t, Vacant(t, j), C, j)
          BY <5>1, Vacated
        <5> QED BY <4>6, <5>1, <5>2 DEF Vacates
      <4>8. Pulled(v, w, C, h, j)
        <5>1. w[h] = v[j]
          BY <1>0, <2>4, <2>5, <4>5, <4>7
        <5>2. \A p \in 0 .. C - 1 : p # h /\ p # j => w[p] = v[p]
          BY <1>1, <4>5, <4>7
        <5> QED BY <1>0, <1>1, <2>4, <2>5, <2>7, <4>7, <5>1, <5>2 DEF Pulled
      <4>9. Once(w, C) /\ Maps(w, C, m)
        BY <1>0, <4>8, PulledMaps
      <4>10. Line(w, C, L, j, B + 1)
        <5>1. L[Ideal(v[j].key, C)] <= L[h]
          BY <2>5, <3>2, <3>4, <3>5
        <5> QED BY <2>2, <3>1, <4>8, <5>1, LinePulled
      <4>11. r.tab[z].key = EmptyKey
        <5>1. z # h
          BY <1>0, <1>2
        <5> QED BY <1>0, <4>5, <5>1
      <4>12. L[i] <= L[j]
        BY <1>0, <1>2, <2>1, <3>1
      <4> HIDE DEF v, h
      <4> QED BY <1>4, <2>1, <3>1, <4>1, <4>3, <4>4, <4>6, <4>9, <4>10, <4>11, <4>12 DEF Shifting
    <3>6. CASE ~ movable(a, h, j)
      <4>1. Round(s, j, C) = s
        BY <1>4, <2>7, <3>2, <3>6 DEF Round
      <4>2. Line(v, C, L, h, B + 1)
        <5>1. ~ (L[Ideal(v[j].key, C)] <= L[h])
          BY <2>5, <3>2, <3>4, <3>6
        <5> QED BY <1>0, <1>1, <2>2, <2>5, <2>7, <3>1, <5>1, LineStays
      <4>3. L[h] <= B + 1
        BY <1>0, <1>2, <2>2
      <4> QED BY <1>0, <1>4, <2>1, <3>1, <4>1, <4>2, <4>3 DEF Shifting
    <3> QED BY <3>5, <3>6
  <2> QED BY <2>6, <2>7
<1> QED BY <1>3, <1>4

\* Erasing: the entries behind are pulled back and the key is gone.
LEMMA Erased ==
  ASSUME HashType, NEW C, NEW t, NEW m, Keeps(t, C, m), Free(t, C), NEW i \in 0 .. C - 1, NEW k \in Key, t[i].key = k
  PROVE  Keeps(shifted(t, i), C, Restrict(m, DOMAIN m \ {k}))
<1>0. /\ C \in Nat \ {0} /\ Table(t, C) /\ Path(t, C) /\ Once(t, C) /\ Maps(t, C, m) /\ t \in [0 .. C - 1 -> Slot]
      /\ Capacity(t) = C /\ k # EmptyKey
  <2>1. Table(t, C)
    BY DEF Keeps
  <2>2. Capacity(t) = C
    BY <2>1, CapacityIs
  <2> QED BY <2>1, <2>2, FlatAssumption DEF Keeps, Table
<1>1. PICK z \in 0 .. C - 1 : t[z].key = EmptyKey
  BY DEF Free
<1>2. PICK L : /\ OnLine(L, C, z)
               /\ \A p \in 0 .. C - 1, o \in 1 .. C :
                    /\ (p + o) % C \in 0 .. C - 1
                    /\ L[p] + o < C => L[(p + o) % C] = L[p] + o
                    /\ L[p] + o = C => (p + o) % C = z
  BY <1>0, LineIs
<1>3. (\A p \in 0 .. C - 1 : L[p] \in Nat /\ L[p] < C) /\ (\A p, q \in 0 .. C - 1 : L[p] = L[q] => p = q) /\ L[z] = 0
  <2>1. L[z] = 0
    BY <1>2 DEF OnLine
  <2>2. C \in Nat /\ (\A p \in 0 .. C - 1 : L[p] \in Nat /\ L[p] < C) /\ \A p, q \in 0 .. C - 1 : L[p] = L[q] => p = q
    <3>1. Table(t, C) /\ OnLine(L, C, z)
      BY <1>0, <1>2
    <3> QED BY <3>1, Places
  <2> QED BY <2>1, <2>2
<1> DEFINE first == [tab |-> t, hole |-> i, over |-> FALSE]
           m1 == Restrict(m, DOMAIN m \ {k})
           Body(f) == [o \in 0 .. C |-> IF o = 0 THEN first ELSE Round(f[o - 1], (i + o) % C, C)]
           after == CHOOSE f : f = Body(f)
<1>4. shifted(t, i) = Vacant(after[C].tab, after[C].hole)
  BY <1>0 DEF shifted, Round, Vacant, index, Ideal
<1>5. first \in Shifts(C)
  BY <1>0 DEF Shifts
<1> HIDE DEF first, m1
<1>6. \E f : f = Body(f)
  <2>1. PICK step : step = [o \in 1 .. C |-> [s \in Shifts(C) |-> Round(s, (i + o) % C, C)]]
    OBVIOUS
  <2>2. Steps(step, C, Shifts(C))
    <3>1. ASSUME NEW o \in 1 .. C, NEW s \in Shifts(C) PROVE Round(s, (i + o) % C, C) \in Shifts(C)
      <4>1. PICK j \in 0 .. C - 1 : j = (i + o) % C
        BY <1>2
      <4> QED BY <4>1, RoundType
    <3> QED BY <1>0, <2>1, <3>1 DEF Steps
  <2>3. PICK f : Goes(f, step, C, Shifts(C), first)
    BY <1>5, <2>2, LoopEnds
  <2>4. f \in [0 .. C -> Shifts(C)] /\ f[0] = first /\ \A o \in 1 .. C : f[o] = step[o][f[o - 1]]
    BY <2>3 DEF Goes
  <2>5. ASSUME NEW o \in 0 .. C PROVE f[o] = IF o = 0 THEN first ELSE Round(f[o - 1], (i + o) % C, C)
    <3>1. CASE o = 0
      BY <3>1, <2>4
    <3>2. CASE o # 0
      <4>1. o \in 1 .. C /\ o - 1 \in 0 .. C /\ f[o - 1] \in Shifts(C)
        BY <3>2, <1>0, <2>4
      <4>2. f[o] = step[o][f[o - 1]]
        BY <4>1, <2>4
      <4> QED BY <4>1, <4>2, <2>1, <3>2
    <3> QED BY <3>1, <3>2
  <2> QED BY <2>4, <2>5
<1>7. after = Body(after)
  BY <1>6
<1> HIDE DEF after
<1>8. after[0] = first /\ \A o \in 1 .. C : after[o] = Round(after[o - 1], (i + o) % C, C)
  BY <1>0, <1>7
<1>9. 1 <= L[i]
  <2>1. i # z
    BY <1>0, <1>1
  <2> QED BY <1>3, <2>1
<1> DEFINE T == {o \in 0 .. C : Shifting(after[o], o, C, L, z, i, m1)}
<1>10. 0 \in T
  <2>1. PICK v : v = Vacant(t, i)
    OBVIOUS
  <2>2. Table(v, C) /\ v[i].key = EmptyKey /\ \A p \in 0 .. C - 1 : p # i => v[p] = t[p]
    <3>1. Vacates(t, v, C, i)
      BY <1>0, <2>1, Vacated
    <3> QED BY <3>1 DEF Vacates
  <2>3. Once(v, C)
    BY <1>0, <2>2 DEF Once
  <2>4. Maps(v, C, m1)
    <3>1. DOMAIN m1 = DOMAIN m \ {k} /\ \A x \in DOMAIN m \ {k} : m1[x] = m[x]
      BY DEF m1, Restrict
    <3>2. \A p \in 0 .. C - 1 : p # i => t[p].key # k
      BY <1>0 DEF Once
    <3>3. ASSUME NEW x \in Key PROVE x \in DOMAIN m1 <=> \E p \in 0 .. C - 1 : v[p].key = x
      <4>1. x # EmptyKey
        BY FlatAssumption
      <4>2. x \in DOMAIN m <=> \E p \in 0 .. C - 1 : t[p].key = x
        BY <1>0 DEF Maps
      <4>3. \A p \in 0 .. C - 1 : v[p].key = x <=> t[p].key = x /\ x # k
        BY <2>2, <3>2, <4>1
      <4> QED BY <3>1, <4>2, <4>3
    <3>4. ASSUME NEW p \in 0 .. C - 1, v[p].key # EmptyKey PROVE v[p].value = m1[v[p].key]
      <4>1. p # i /\ v[p] = t[p] /\ t[p].key # k /\ t[p].key \in Key
        BY <1>0, <2>2, <3>2, <3>4 DEF Slot
      <4>2. t[p].key \in DOMAIN m /\ t[p].value = m[t[p].key]
        BY <1>0, <3>4, <4>1 DEF Maps
      <4> QED BY <3>1, <4>1, <4>2
    <3>5. DOMAIN m1 \subseteq Key
      BY <1>0, <3>1 DEF Maps
    <3> QED BY <3>3, <3>4, <3>5 DEF Maps
  <2>5. Line(t, C, L, z, C)
    BY <1>0, <1>1, <1>2, PathOnLine
  <2>6. Line(v, C, L, i, L[i])
    <3> SUFFICES ASSUME NEW p \in 0 .. C - 1, v[p].key # EmptyKey
                 PROVE  /\ 1 <= L[Ideal(v[p].key, C)] /\ L[Ideal(v[p].key, C)] <= L[p]
                        /\ \A q \in 0 .. C - 1 : L[Ideal(v[p].key, C)] <= L[q] /\ L[q] < L[p] =>
                             v[q].key # EmptyKey \/ (q = i /\ L[p] > L[i])
      BY DEF Line
    <3>1. v[p] = t[p] /\ ~ (L[p] > C)
      BY <1>0, <1>3, <2>2
    <3>2. /\ 1 <= L[Ideal(v[p].key, C)] /\ L[Ideal(v[p].key, C)] <= L[p]
          /\ \A q \in 0 .. C - 1 : L[Ideal(v[p].key, C)] <= L[q] /\ L[q] < L[p] => t[q].key # EmptyKey
      BY <2>5, <3>1 DEF Line
    <3> QED BY <1>3, <2>2, <3>2
  <2>7. first.tab = t /\ first.hole = i /\ ~ first.over
    BY DEF first
  <2>8. L[i] + 0 = L[i] /\ L[i] < C /\ L[i] <= L[i] /\ 0 \in 0 .. C
    BY <1>0, <1>3
  <2>9. Shifting(first, 0, C, L, z, i, m1)
    BY <1>1, <1>5, <2>1, <2>3, <2>4, <2>6, <2>7, <2>8 DEF Shifting
  <2> QED BY <1>8, <2>8, <2>9
<1>11. ASSUME NEW o \in 1 .. C, o - 1 \in T PROVE o \in T
  <2>1. PICK s : s = after[o - 1] /\ Shifting(s, o - 1, C, L, z, i, m1)
    BY <1>11
  <2>2. PICK j \in 0 .. C - 1 : j = (i + o) % C /\ (L[i] + o < C => L[j] = L[i] + o) /\ (L[i] + o = C => j = z)
    BY <1>2
  <2>3. Shifting(Round(s, j, C), o, C, L, z, i, m1)
    BY <1>0, <1>2, <1>9, <2>1, <2>2, RoundKeeps
  <2>4. after[o] = Round(s, j, C) /\ o \in 0 .. C
    BY <1>8, <2>1, <2>2
  <2> QED BY <2>3, <2>4
<1>12. C \in T
  <2> HIDE DEF T
  <2>0. C \in Nat
    BY <1>0
  <2>1. \A o \in 0 .. C : o \in T
    BY <2>0, <1>10, <1>11, EachStep
  <2> QED BY <2>1, <2>0
<1>13. PICK s : s = after[C] /\ Shifting(s, C, C, L, z, i, m1)
  BY <1>12
<1>14. PICK h \in 0 .. C - 1, u \in {s.tab} : h = s.hole /\ u = s.tab /\ Table(u, C)
  BY <1>0, <1>13 DEF Shifting, Shifts, Table
<1>15. PICK v : v = Vacant(u, h) /\ v = shifted(t, i)
  BY <1>4, <1>13, <1>14
<1>16. Table(v, C) /\ \A p \in 0 .. C - 1 : p # h => v[p] = u[p]
  <2>1. Vacates(u, v, C, h)
    BY <1>14, <1>15, Vacated
  <2> QED BY <2>1 DEF Vacates
<1>17. s.over
  BY <1>0, <1>3, <1>13 DEF Shifting
<1>18. Line(v, C, L, h, C) /\ Once(v, C) /\ Maps(v, C, m1)
  BY <1>13, <1>14, <1>15, <1>17 DEF Shifting
<1>19. v[z].key = EmptyKey
  <2>1. z # h /\ u[z].key = EmptyKey
    BY <1>3, <1>9, <1>13, <1>14 DEF Shifting
  <2> QED BY <1>16, <2>1
<1>20. Line(v, C, L, z, C)
  <2>1. \A p \in 0 .. C - 1 : ~ (L[p] > C)
    BY <1>0, <1>3
  <2> QED BY <1>18, <2>1 DEF Line
<1>21. Path(v, C)
  BY <1>2, <1>16, <1>19, <1>20, PathOnLine
<1> QED BY <1>15, <1>16, <1>18, <1>21 DEF Keeps, m1

-----------------------------------------------------------------------------
(* The map through insertions, erasures, growths and clears *)

\* The invariant: the table is in order, holds the map, and is never full.
FlatIInv ==
  /\ HashType
  /\ Keeps(slots, Capacity(slots), contents)
  /\ IsFiniteSet(DOMAIN contents) /\ size_ = Cardinality(DOMAIN contents) /\ size_ < Capacity(slots)

\* A table of empty slots holds the empty map.
LEMMA NothingIn ==
  ASSUME NEW C, NEW t, Table(t, C), \A p \in 0 .. C - 1 : t[p].key = EmptyKey, NEW m, DOMAIN m = {}
  PROVE  Keeps(t, C, m)
  BY FlatAssumption DEF Keeps, Path, Once, Maps

LEMMA FlatInitIInv == FlatInit => FlatIInv
<1> SUFFICES ASSUME NEW hash \in [Key -> Hashes], FlatStart(hash) PROVE FlatIInv
  BY DEF FlatInit
<1>1. PICK C \in Nat \ {0} : C = InitCap
  BY FlatAssumption
<1>2. Table(slots, C) /\ \A p \in 0 .. C - 1 : slots[p].key = EmptyKey
  BY <1>1 DEF FlatStart, EmptySlot, Table, Slot
<1>3. Capacity(slots) = C
  BY <1>2, CapacityIs
<1>4. DOMAIN contents = {} /\ size_ = 0
  BY DEF FlatStart
<1>5. Keeps(slots, C, contents)
  BY <1>2, <1>4, NothingIn
<1>6. IsFiniteSet(DOMAIN contents) /\ Cardinality(DOMAIN contents) = 0
  BY <1>4, FS_EmptySet
<1>7. HashType
  BY FlatAssumption DEF FlatStart, HashType
<1> QED BY <1>1, <1>3, <1>4, <1>5, <1>6, <1>7 DEF FlatIInv

LEMMA FlatStep == FlatIInv /\ [FlatNext]_flatVars => FlatIInv'
<1> SUFFICES ASSUME FlatIInv, [FlatNext]_flatVars PROVE FlatIInv'
  OBVIOUS
<1>1. PICK C : C = Capacity(slots) /\ Keeps(slots, C, contents) /\ size_ < C
  BY DEF FlatIInv
<1>2. /\ HashType /\ IsFiniteSet(DOMAIN contents) /\ size_ = Cardinality(DOMAIN contents) /\ size_ \in Nat
      /\ C \in Nat \ {0} /\ Table(slots, C) /\ Free(slots, C) /\ Maps(slots, C, contents)
  <2>1. HashType /\ IsFiniteSet(DOMAIN contents) /\ size_ = Cardinality(DOMAIN contents)
    BY DEF FlatIInv
  <2>2. size_ \in Nat
    BY <2>1, FS_CardinalityType
  <2>3. Free(slots, C)
    BY <1>1, <2>1, EmptyLeft
  <2> QED BY <1>1, <2>1, <2>2, <2>3 DEF Keeps, Table
<1>3. ASSUME mix64' = mix64, NEW D, Keeps(slots', D, contents'), IsFiniteSet(DOMAIN contents'),
             size_' = Cardinality(DOMAIN contents'), size_' < D
      PROVE  FlatIInv'
  <2>1. HashType'
    BY <1>2, <1>3 DEF HashType
  <2>2. Capacity(slots') = D
    <3>1. Table(slots', D)
      BY <1>3 DEF Keeps
    <3> QED BY <3>1, CapacityIs
  <2>3. Keeps(slots, Capacity(slots), contents)'
    BY <1>3, <2>2 DEF Keeps, Path, Once, Maps, Table, Slot, Ideal, Dist, Capacity
  <2> QED BY <1>3, <2>1, <2>2, <2>3 DEF FlatIInv, Capacity
<1>4. ASSUME NEW k \in Key, NEW v \in Value, insert_or_assign(k, v) PROVE FlatIInv'
  <2>1. PICK t : /\ t = IF size_ + 1 > grow_at(slots) THEN rehash(slots) ELSE slots
                 /\ slots' = [t EXCEPT ![Probe(t, k)] = [key |-> k, value |-> v]]
                 /\ size_' = IF t[Probe(t, k)].key = k THEN size_ ELSE size_ + 1
                 /\ contents' = [x \in DOMAIN contents \cup {k} |-> IF x = k THEN v ELSE contents[x]]
                 /\ mix64' = mix64
    BY <1>4 DEF insert_or_assign
  <2>2. contents' = With(contents, k, v) /\ DOMAIN contents' = DOMAIN contents \cup {k}
    BY <2>1 DEF With
  <2>3. PICK D \in Nat : Keeps(t, D, contents) /\ size_ + 1 < D
    <3>1. CASE size_ + 1 > grow_at(slots)
      <4>1. Keeps(rehash(slots), 2 * C, Upto(slots, contents, C))
        BY <1>1, <1>2, Grown
      <4>2. Upto(slots, contents, C) = [x \in DOMAIN contents |-> contents[x]]
        <5>1. \A x \in DOMAIN contents : \E p \in 0 .. C - 1 : slots[p].key = x
          BY <1>2 DEF Maps
        <5> QED BY <5>1 DEF Upto
      <4>3. Keeps(rehash(slots), 2 * C, contents)
        <5>1. DOMAIN Upto(slots, contents, C) = DOMAIN contents /\ \A x \in DOMAIN contents : Upto(slots, contents, C)[x] = contents[x]
          BY <4>2
        <5>2. Maps(rehash(slots), 2 * C, Upto(slots, contents, C)) /\ Table(rehash(slots), 2 * C)
          BY <4>1 DEF Keeps
        <5>3. Maps(rehash(slots), 2 * C, contents)
          <6>1. \A p \in 0 .. 2 * C - 1 : rehash(slots)[p].key # EmptyKey => rehash(slots)[p].key \in DOMAIN contents
            BY <5>1, <5>2 DEF Maps, Table, Slot
          <6> QED BY <5>1, <5>2, <6>1 DEF Maps
        <5> QED BY <4>1, <5>3 DEF Keeps
      <4>4. size_ + 1 < 2 * C /\ 2 * C \in Nat
        BY <1>1, <1>2
      <4> QED BY <2>1, <3>1, <4>3, <4>4
    <3>2. CASE ~ (size_ + 1 > grow_at(slots))
      <4>1. grow_at(slots) = (C * 7) \div 10
        BY <1>1 DEF grow_at
      <4>2. size_ + 1 < C
        BY <1>2, <3>2, <4>1, SMT
      <4> QED BY <1>1, <1>2, <2>1, <3>2, <4>2
    <3> QED BY <3>1, <3>2
  <2>4. Free(t, D)
    <3>1. Cardinality(DOMAIN contents) < D
      BY <1>2, <2>3
    <3> QED BY <1>2, <2>3, <3>1, EmptyLeft
  <2>5. Keeps(slots', D, contents') /\ (t[Probe(t, k)].key = k <=> k \in DOMAIN contents)
    <3>1. PICK w \in Value \cup {EmptyKey} : w = v
      OBVIOUS
    <3>2. /\ t[Probe(t, k)].key = k <=> k \in DOMAIN contents
          /\ Keeps([t EXCEPT ![Probe(t, k)] = [key |-> k, value |-> w]], D, With(contents, k, w))
      BY <1>2, <2>3, <2>4, Placed
    <3> QED BY <2>1, <2>2, <3>1, <3>2
  <2>6. IsFiniteSet(DOMAIN contents')
        /\ Cardinality(DOMAIN contents') = IF k \in DOMAIN contents THEN size_ ELSE size_ + 1
    BY <1>2, <2>2, FS_AddElement
  <2>7. size_' = Cardinality(DOMAIN contents') /\ size_' < D
    BY <1>2, <2>1, <2>3, <2>5, <2>6
  <2> QED BY <1>3, <2>1, <2>5, <2>6, <2>7
<1>5. ASSUME NEW k \in Key, erase(k) PROVE FlatIInv'
  <2>1. contents' = Restrict(contents, DOMAIN contents \ {k}) /\ DOMAIN contents' = DOMAIN contents \ {k} /\ mix64' = mix64
    BY <1>5 DEF erase, Restrict
  <2>2. IsFiniteSet(DOMAIN contents')
        /\ Cardinality(DOMAIN contents') = IF k \in DOMAIN contents THEN size_ - 1 ELSE size_
    BY <1>2, <2>1, FS_RemoveElement
  <2>3. PICK i : i = Probe(slots, k)
    OBVIOUS
  <2>4. i \in 0 .. C - 1
    <3>1. First(slots, C, k, i)
      BY <1>2, <2>3, ProbeIs
    <3> QED BY <3>1 DEF First
  <2>5. slots[i].key = k <=> k \in DOMAIN contents
    <3>1. (\A p \in 0 .. C - 1 : slots[p].key = k => i = p)
      BY <1>1, <1>2, <2>3, ProbeFinds DEF Keeps
    <3> QED BY <1>2, <2>4, <3>1 DEF Maps
  <2>6. CASE slots[i].key = k
    <3>1. slots' = shifted(slots, i) /\ size_' = size_ - 1
      BY <1>5, <2>3, <2>6 DEF erase
    <3>2. Keeps(slots', C, contents')
      BY <1>1, <1>2, <2>1, <2>4, <2>6, <3>1, Erased
    <3>3. size_' = Cardinality(DOMAIN contents') /\ size_' < C
      BY <1>1, <1>2, <2>2, <2>5, <2>6, <3>1
    <3> QED BY <1>3, <2>1, <2>2, <3>2, <3>3
  <2>7. CASE slots[i].key # k
    <3>1. slots' = slots /\ size_' = size_
      BY <1>5, <2>3, <2>7 DEF erase
    <3>2. DOMAIN contents' = DOMAIN contents /\ \A x \in DOMAIN contents : contents'[x] = contents[x]
      BY <2>1, <2>5, <2>7 DEF Restrict
    <3>3. Maps(slots, C, contents')
      <4>1. \A p \in 0 .. C - 1 : slots[p].key # EmptyKey => slots[p].key \in DOMAIN contents
        BY <1>2 DEF Maps, Table, Slot
      <4> QED BY <1>2, <3>2, <4>1 DEF Maps
    <3>4. Keeps(slots', C, contents')
      BY <1>1, <3>1, <3>3 DEF Keeps
    <3>5. size_' = Cardinality(DOMAIN contents') /\ size_' < C
      BY <1>1, <1>2, <3>1, <3>2
    <3> QED BY <1>3, <2>1, <2>2, <3>4, <3>5
  <2> QED BY <2>6, <2>7
<1>6. ASSUME clear PROVE FlatIInv'
  <2>1. DOMAIN contents' = {} /\ size_' = 0 /\ mix64' = mix64
        /\ slots' = [p \in DOMAIN slots |-> [slots[p] EXCEPT !.key = EmptyKey]]
    BY <1>6 DEF clear
  <2>2. Table(slots', C) /\ \A p \in 0 .. C - 1 : slots'[p].key = EmptyKey
    BY <1>2, <2>1 DEF Table, Slot
  <2>3. Keeps(slots', C, contents')
    BY <2>1, <2>2, NothingIn
  <2>4. IsFiniteSet(DOMAIN contents') /\ size_' = Cardinality(DOMAIN contents') /\ size_' < C
    BY <1>2, <2>1, FS_EmptySet
  <2> QED BY <1>3, <2>1, <2>3, <2>4
<1>7. CASE UNCHANGED flatVars
  <2>1. slots' = slots /\ contents' = contents /\ size_' = size_ /\ mix64' = mix64
    BY <1>7 DEF flatVars
  <2> QED BY <1>1, <1>2, <1>3, <2>1
<1> QED BY <1>4, <1>5, <1>6, <1>7 DEF FlatNext

\* The table of core/flat_hash.hpp is in order after every call: each key is
\* once in it, within reach of its ideal slot, and one slot at least is empty.
THEOREM FlatInductive == FlatSpec => []FlatIInv
  BY FlatInitIInv, FlatStep, PTL DEF FlatSpec

\* A lookup finds exactly what was stored and not yet erased, for any keys,
\* any hash function and any first capacity (flat_hash.hpp, erase()).
THEOREM LookupIsMap == FlatSpec => []FindIsMap
<1>1. FlatIInv => FindIsMap
  <2> SUFFICES ASSUME FlatIInv PROVE FindIsMap
    OBVIOUS
  <2>1. PICK C : C = Capacity(slots) /\ Keeps(slots, C, contents) /\ size_ < C
    BY DEF FlatIInv
  <2>2. HashType /\ IsFiniteSet(DOMAIN contents) /\ size_ = Cardinality(DOMAIN contents)
    BY DEF FlatIInv
  <2>3. Free(slots, C) /\ DOMAIN slots = 0 .. C - 1 /\ Table(slots, C) /\ Path(slots, C) /\ Once(slots, C) /\ Maps(slots, C, contents)
    BY <2>1, <2>2, EmptyLeft DEF Keeps, Table
  <2>4. ASSUME NEW k \in Key
        PROVE  IF k \in DOMAIN contents THEN slots[Probe(slots, k)].key = k /\ FlatFind(slots, k) = contents[k]
               ELSE slots[Probe(slots, k)].key = EmptyKey
    <3>1. PICK i : i = Probe(slots, k)
      OBVIOUS
    <3>2. /\ \A p \in 0 .. C - 1 : slots[p].key = k => i = p
          /\ (\A p \in 0 .. C - 1 : slots[p].key # k) => slots[i].key = EmptyKey
      BY <2>2, <2>3, <3>1, ProbeFinds
    <3>3. CASE k \in DOMAIN contents
      <4>1. PICK p \in 0 .. C - 1 : slots[p].key = k
        BY <2>3, <3>3 DEF Maps
      <4>2. i = p /\ k # EmptyKey
        BY <3>2, <4>1, FlatAssumption
      <4>3. slots[i].value = contents[k]
        BY <2>3, <4>1, <4>2 DEF Maps
      <4> QED BY <3>1, <3>3, <4>1, <4>2, <4>3 DEF FlatFind
    <3>4. CASE k \notin DOMAIN contents
      BY <2>3, <3>1, <3>2, <3>4 DEF Maps
    <3> QED BY <3>3, <3>4
  <2> QED BY <2>2, <2>3, <2>4 DEF FindIsMap, Free
<1> QED BY <1>1, FlatInductive, PTL
=============================================================================
