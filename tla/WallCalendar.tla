---------------------------- MODULE WallCalendar ----------------------------
(***************************************************************************)
(* The reference for the date formulas of Calendar: a calendar on the      *)
(* wall, turned one day at a time from 2007, when the present              *)
(* daylight-saving rules came into force.  It knows the lengths of the     *)
(* months, counts the Sundays, and changes the clock on the second Sunday  *)
(* of March and the first of November.                                     *)
(***************************************************************************)
EXTENDS Calendar

CONSTANTS LastYear, ClockTimes

\* Years of two digits are read as 1970 to 2069; a time is an hour and a minute.
ASSUME CalendarAssumption ==
    /\ LastYear \in Int /\ LastYear <= 2069
    /\ ClockTimes \subseteq (0 .. 23) \X (0 .. 59)

VARIABLES date, weekday, sundays, summer, day

calendarVars == <<date, weekday, sundays, summer, day>>

Leap(y) == (y % 4 = 0 /\ y % 100 # 0) \/ y % 400 = 0

MonthLength(y, m) ==
    IF m = 2 THEN 28 + Bool01(Leap(y)) ELSE IF m \in {4, 6, 9, 11} THEN 30 ELSE 31

(* The first of January 2007, a Monday, was day 13514 of the epoch. *)
CalendarInit ==
    /\ date = [y |-> 2007, m |-> 1, d |-> 1] /\ day = 13514
    /\ weekday = 1 /\ sundays = 0 /\ summer = FALSE

TurnPage ==
    LET last == date.d = MonthLength(date.y, date.m)
        newDate == IF ~last THEN [date EXCEPT !.d = @ + 1]
                   ELSE IF date.m < 12 THEN [date EXCEPT !.m = @ + 1, !.d = 1]
                   ELSE [y |-> date.y + 1, m |-> 1, d |-> 1]
        newSundays == (IF last THEN 0 ELSE sundays) + Bool01(weekday = 6)
    IN /\ date.y < LastYear \/ ~(date.m = 12 /\ last)
       /\ date' = newDate
       /\ day' = day + 1
       /\ weekday' = (weekday + 1) % 7
       /\ sundays' = newSundays
       /\ summer' = CASE newDate.m = 3 /\ weekday' = 0 /\ newSundays = 2 -> TRUE
                      [] newDate.m = 11 /\ weekday' = 0 /\ newSundays = 1 -> FALSE
                      [] OTHER -> summer

CalendarNext == TurnPage

CalendarSpec == CalendarInit /\ [][CalendarNext]_calendarVars

SwitchDay == weekday = 0 /\ \/ date.m = 3 /\ sundays = 2
                            \/ date.m = 11 /\ sundays = 1

At(hh, mi) == [y |-> date.y, m |-> date.m, d |-> date.d, hh |-> hh, mi |-> mi,
               ss |-> -1, zone |-> "", ydigits |-> 4]

-----------------------------------------------------------------------------
(* The two closed formulas agree with the calendar on the wall on every day
   of the range, leap days and year ends included, and with each other. *)
CivilIsCalendar ==
    /\ civil_from_days(day) = date
    /\ days_from_civil(date.y, date.m, date.d) = day
    /\ weekday_from_days(day) = weekday

(* An Eastern wall-clock time read from the halt feed falls on the same
   Eastern date and minute when the program turns it back, on every day but
   the two Sundays of the switch (where the code adds the hours to midnight
   and is one hour off after 02:00, with no session to disturb). *)
EasternClockKept ==
    \A t \in ClockTimes :
        LET s == parse_eastern_mdy_time(At(t[1], t[2]))
        IN SwitchDay \/ /\ eastern_date(s) = date
                        /\ eastern_minute_of_day(s) = t[1] * 60 + t[2]

(* Written as ISO 8601 and read again, or written with the Eastern zone name
   of the season as in RSS, an instant is the same instant. *)
TextsAgree ==
    \A t \in ClockTimes :
        LET s == parse_eastern_mdy_time(At(t[1], t[2]))
            rss == [At(t[1], t[2]) EXCEPT !.zone = IF summer THEN "edt" ELSE "est",
                                          !.y = date.y % 100, !.ydigits = 2]
        IN /\ parse_iso8601(format_utc_iso(s)) = s
           /\ SwitchDay \/ parse_rfc822(rss) = s

\* Every day of the range, in dates, clocks and texts, is the day on the wall
\* (util/time.cpp).
CalendarInv == CivilIsCalendar /\ EasternClockKept /\ TextsAgree
=============================================================================
