------------------------------ MODULE Calendar ------------------------------
(***************************************************************************)
(* The dates and clocks of util/time.hpp and util/time.cpp.  No time-zone  *)
(* database is used: the civil calendar and the US Eastern daylight-saving *)
(* rules are closed formulas, and every bar, session and filing date of    *)
(* the program goes through them.                                          *)
(*                                                                         *)
(* Instants are in seconds (the code's nanoseconds divided by kNs).  A     *)
(* text is the record of the fields its Cursor would read, -1 for a field  *)
(* that is missing.  WallCalendar holds the formulas against a calendar    *)
(* turned one day at a time.                                               *)
(***************************************************************************)
EXTENDS Integers

Bool01(b) == IF b THEN 1 ELSE 0

(* Mutant: the year starts in March for every month. *)
days_from_civilNoShift(y0, m, d) ==
    LET era == y0 \div 400
        yoe == y0 - era * 400
        doy == (153 * (IF m > 2 THEN m - 3 ELSE m + 9) + 2) \div 5 + d - 1
    IN era * 146097 + yoe * 365 + yoe \div 4 - yoe \div 100 + doy - 719468

(* Division rounds down here, which is what the code's two branches on the
   sign compute. *)
days_from_civil(y0, m, d) ==
    LET y == y0 - Bool01(m <= 2)
        era == y \div 400
        yoe == y - era * 400
        doy == (153 * (IF m > 2 THEN m - 3 ELSE m + 9) + 2) \div 5 + d - 1
    IN era * 146097 + yoe * 365 + yoe \div 4 - yoe \div 100 + doy - 719468

civil_from_days(z0) ==
    LET z == z0 + 719468
        era == z \div 146097
        doe == z - era * 146097
        yoe == (doe - doe \div 1460 + doe \div 36524 - doe \div 146096) \div 365
        doy == doe - (365 * yoe + yoe \div 4 - yoe \div 100)
        mp == (5 * doy + 2) \div 153
        m == IF mp < 10 THEN mp + 3 ELSE mp - 9
    IN [y |-> yoe + era * 400 + Bool01(m <= 2), m |-> m,
        d |-> doy - (153 * mp + 2) \div 5 + 1]

weekday_from_days(z) == (z + 4) % 7

FirstSunday(z) == z + ((7 - weekday_from_days(z)) % 7)

(* Mutant: daylight saving starts on the first Sunday of March. *)
eastern_utc_offset_sEarly(s) ==
    LET y == civil_from_days(s \div 86400).y
        dst_start == FirstSunday(days_from_civil(y, 3, 1)) * 86400 + 7 * 3600
        dst_end == FirstSunday(days_from_civil(y, 11, 1)) * 86400 + 6 * 3600
    IN IF s >= dst_start /\ s < dst_end THEN -4 * 3600 ELSE -5 * 3600

eastern_utc_offset_s(s) ==
    LET y == civil_from_days(s \div 86400).y
        dst_start == (FirstSunday(days_from_civil(y, 3, 1)) + 7) * 86400 + 7 * 3600
        dst_end == FirstSunday(days_from_civil(y, 11, 1)) * 86400 + 6 * 3600
    IN IF s >= dst_start /\ s < dst_end THEN -4 * 3600 ELSE -5 * 3600

(* The offset is taken at 05:00 UTC, which is midnight or one in the
   morning and so before either switch. *)
eastern_midnight(y, m, d) ==
    LET days == days_from_civil(y, m, d)
    IN days * 86400 - eastern_utc_offset_s(days * 86400 + 5 * 3600)

eastern_date(s) == civil_from_days((s + eastern_utc_offset_s(s)) \div 86400)

eastern_minute_of_day(s) == ((s + eastern_utc_offset_s(s)) % 86400) \div 60

-----------------------------------------------------------------------------
(* Texts.  NotADate is std::nullopt. *)

NotADate == -1

Unknown == 1

(* All the names of kZones; of the zones in digits, those of the East coast
   stand for the rest, whose arithmetic is left out. *)
zone_offset_s(z) ==
    CASE z = "" -> 0
      [] z \in {"gmt", "ut", "utc", "z"} -> 0
      [] z \in {"edt", "-04:00", "-0400", "-04"} -> -4 * 3600
      [] z \in {"est", "cdt", "-05:00", "-0500", "-05"} -> -5 * 3600
      [] z \in {"cst", "mdt"} -> -6 * 3600
      [] z \in {"mst", "pdt"} -> -7 * 3600
      [] z = "pst" -> -8 * 3600
      [] z \in {"bst", "cet"} -> 3600
      [] z = "cest" -> 2 * 3600
      [] OTHER -> Unknown

ClockSeconds(t) == t.hh * 3600 + t.mi * 60 + t.ss

ValidDay(t) == t.m \in 1..12 /\ t.d \in 1..31

(* A bare date has hh = -1; minutes may not be missing behind an hour,
   seconds may. *)
Clock(t) == [hh |-> IF t.hh = -1 THEN 0 ELSE t.hh,
             mi |-> IF t.hh = -1 THEN 0 ELSE t.mi,
             ss |-> IF t.hh = -1 \/ t.ss = -1 THEN 0 ELSE t.ss]

(* ISO 8601: an unknown zone refuses the text. *)
parse_iso8601(t) ==
    IF ~ValidDay(t) \/ (t.hh # -1 /\ (t.mi = -1 \/ zone_offset_s(t.zone) = Unknown))
    THEN NotADate
    ELSE days_from_civil(t.y, t.m, t.d) * 86400 + ClockSeconds(Clock(t))
         - (IF t.hh = -1 THEN 0 ELSE zone_offset_s(t.zone))

(* RFC 822: the year may have two digits, an unknown zone is UTC. *)
parse_rfc822(t) ==
    LET year == IF t.ydigits = 2 THEN t.y + (IF t.y < 70 THEN 2000 ELSE 1900) ELSE t.y
        off == zone_offset_s(t.zone)
    IN IF ~ValidDay(t) \/ (t.hh # -1 /\ t.mi = -1) THEN NotADate
       ELSE days_from_civil(year, t.m, t.d) * 86400 + ClockSeconds(Clock(t))
            - (IF off = Unknown THEN 0 ELSE off)

(* The halt feed's local date and time. *)
parse_eastern_mdy_time(t) ==
    IF ~ValidDay(t) \/ t.y < 1900 \/ (t.hh # -1 /\ t.mi = -1) THEN NotADate
    ELSE eastern_midnight(t.y, t.m, t.d) + ClockSeconds(Clock(t))

(* Mutant: the day is cut at UTC midnight, the hour is Eastern. *)
format_utc_isoLocal(s) ==
    LET c == civil_from_days(s \div 86400)
        sod == (s + eastern_utc_offset_s(s)) % 86400
    IN [y |-> c.y, m |-> c.m, d |-> c.d, hh |-> sod \div 3600,
        mi |-> (sod \div 60) % 60, ss |-> sod % 60, zone |-> "z", ydigits |-> 4]

format_utc_iso(s) ==
    LET c == civil_from_days(s \div 86400)
        sod == s % 86400
    IN [y |-> c.y, m |-> c.m, d |-> c.d, hh |-> sod \div 3600,
        mi |-> (sod \div 60) % 60, ss |-> sod % 60, zone |-> "z", ydigits |-> 4]
=============================================================================
