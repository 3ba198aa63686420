------------------------------- MODULE Jalali -------------------------------
(***************************************************************************)
(* The dates of v2/ezytel: dateConvert turns a Gregorian date into one of    *)
(* the Persian calendar by counting days, and dateEasyRead names today and   *)
(* yesterday.  Go's integer division rounds towards zero; all terms here are *)
(* positive.  The calendars themselves are the reference.                    *)
(***************************************************************************)
EXTENDS Integers, Sequences

CONSTANTS FirstYear, LastYear   \* the years that are looked at

VARIABLE date   \* a Gregorian date <<year, month, day>>

BeforeMonth == <<0, 31, 59, 90, 120, 151, 181, 212, 243, 273, 304, 334>>
Days(y, m, d) ==
  LET gy == y - 1600
      gy2 == IF m > 2 THEN gy + 1 ELSE gy
  IN  365 * gy + (gy2 + 3) \div 4 - (gy2 + 99) \div 100 + (gy2 + 399) \div 400 - 80 + d + BeforeMonth[m]

(* dateConvert                                                              *)
BugYearAndDay(days) ==
  LET d33 == days % 12053
      d4  == d33 % 1461
      jy  == 979 + 33 * (days \div 12053) + 4 * (d33 \div 1461)
  IN  IF d4 >= 365 THEN <<jy + (d4 - 1) \div 365, (d4 - 1) % 365>> ELSE <<jy, d4>>
YearAndDay(days) ==
  LET d33 == days % 12053
      d4  == d33 % 1461
      jy  == 979 + 33 * (days \div 12053) + 4 * (d33 \div 1461)
  IN  IF d4 > 365 THEN <<jy + (d4 - 1) \div 365, (d4 - 1) % 365>> ELSE <<jy, d4>>
MonthAndDay(day) ==
  IF day < 186 THEN <<1 + day \div 31, 1 + (day % 31)>>
  ELSE <<7 + (day - 186) \div 30, 1 + ((day - 186) % 30)>>
DateConvert(g) ==
  LET yd == YearAndDay(Days(g[1], g[2], g[3]))
  IN  <<yd[1]>> \o MonthAndDay(yd[2])

(* dateEasyRead of a date, on a day of which the day before is known.       *)
DateEasyRead(converted, today, yesterday) ==
  CASE converted = today -> <<"Today">>
    [] converted # today /\ converted = yesterday -> <<"Yesterday">>
    [] OTHER -> converted

(* The reference: the lengths of months, and the leap years of the 33 year  *)
(* cycle; 1 Farvardin 1403 was 20 March 2024.                               *)
IsLeap(y) == (y % 4 = 0 /\ y % 100 # 0) \/ y % 400 = 0
LengthOf(y, m) == IF m = 2 THEN (IF IsLeap(y) THEN 29 ELSE 28) ELSE IF m \in {4, 6, 9, 11} THEN 30 ELSE 31
NextDay(g) ==
  CASE g[3] < LengthOf(g[1], g[2]) -> <<g[1], g[2], g[3] + 1>>
    [] g[3] = LengthOf(g[1], g[2]) /\ g[2] < 12 -> <<g[1], g[2] + 1, 1>>
    [] OTHER -> <<g[1] + 1, 1, 1>>
PersianLeap(y) == y % 33 \in {1, 5, 9, 13, 17, 22, 26, 30}
PersianLength(y, m) == IF m <= 6 THEN 31 ELSE IF m < 12 \/ PersianLeap(y) THEN 30 ELSE 29
PersianNext(p) ==
  CASE p[3] < PersianLength(p[1], p[2]) -> <<p[1], p[2], p[3] + 1>>
    [] p[3] = PersianLength(p[1], p[2]) /\ p[2] < 12 -> <<p[1], p[2] + 1, 1>>
    [] OTHER -> <<p[1] + 1, 1, 1>>

JalaliInit == \E y \in FirstYear..LastYear, m \in 1..12 : date = <<y, m, 1>>
Tomorrow == date[3] < LengthOf(date[1], date[2]) /\ date' = NextDay(date)
JalaliSpec == JalaliInit /\ [][Tomorrow]_date

(* A day of the Gregorian calendar is one day further in the Persian one,   *)
(* over leap years of either and the ends of the 4 and the 33 year cycles,  *)
(* and a fixed day is where the calendars have it.                          *)
DaysFollow ==
  /\ DateConvert(NextDay(date)) = PersianNext(DateConvert(date))
  /\ DateConvert(<<2024, 3, 20>>) = <<1403, 1, 1>>
  /\ DateEasyRead(DateConvert(date), DateConvert(NextDay(date)), DateConvert(date)) = <<"Yesterday">>
=============================================================================
