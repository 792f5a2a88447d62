------------------------------ MODULE Calendar ------------------------------
(***************************************************************************)
(* Dates (src/data.rs): Date::from_unix_seconds, to_era, and the           *)
(* verification code that verification_code_b makes of a date of birth.    *)
(* The calendar goes on day by day; the code computes.                     *)
(***************************************************************************)
EXTENDS Integers, Sequences

CONSTANTS
  DaySeconds,   \* stands for 86400
  Spans         \* bound: the times considered, each with its first day, counted from
                \* 1970-01-01, the date of that day, and its last day

ASSUME DaySecondsAssumption == DaySeconds \in Nat \ {0}

VARIABLES
  day,          \* days since 1970-01-01
  date          \* the date of that day

calvars == <<day, date>>

\* Years of four digits, as cards write them
MaxYear == 9999

Date == [year : 1..MaxYear, month : 1..12, day : 1..31]

\* Types
CalendarTypeOK == day \in Int /\ date \in Date

Leap(year) == year % 4 = 0 /\ (year % 100 # 0 \/ year % 400 = 0)

MonthDays(year, month) ==
  IF month = 2 THEN IF Leap(year) THEN 29 ELSE 28
  ELSE IF month \in {4, 6, 9, 11} THEN 30 ELSE 31

\* Whether there is such a date
IsDate(d) ==
  /\ d \in [year : Int, month : 1..12, day : Nat \ {0}]
  /\ d.day <= MonthDays(d.year, d.month)

\* Days before each month of a common year
MonthStart == <<0, 31, 59, 90, 120, 151, 181, 212, 243, 273, 304, 334>>

\* Days up to the end of a year, counted from the beginning of year 1
YearEnd(year) == 365 * year + (year \div 4) - (year \div 100) + (year \div 400)

\* ... up to the day before 1970-01-01
Epoch == YearEnd(1969)

\* Days from 1970-01-01 to a date, by whole years and months
DayNumber(d) ==
  YearEnd(d.year - 1) - Epoch - 1
    + MonthStart[d.month] + (IF d.month > 2 /\ Leap(d.year) THEN 1 ELSE 0) + d.day

ASSUME SpansAssumption ==
  \A span \in Spans :
    /\ span.first \in Int
    /\ span.last \in Int /\ span.last <= DayNumber([year |-> MaxYear, month |-> 12, day |-> 31])
    /\ IsDate(span.date) /\ span.date \in Date /\ DayNumber(span.date) = span.first

CalendarInit == \E span \in Spans : day = span.first /\ date = span.date

\* The Gregorian calendar goes on by a day
Midnight ==
  /\ \E span \in Spans : span.first <= day /\ day < span.last
  /\ day' = day + 1
  /\ date' = IF date.day < MonthDays(date.year, date.month)
               THEN [date EXCEPT !.day = @ + 1]
               ELSE IF date.month < 12
                 THEN [date EXCEPT !.month = @ + 1, !.day = 1]
                 ELSE [year |-> date.year + 1, month |-> 1, day |-> 1]

CalendarNext == Midnight

CalendarSpec == CalendarInit /\ [][CalendarNext]_calvars
-----------------------------------------------------------------------------
\* Mutant: division that rounds towards zero
DayOfTruncated(seconds) ==
  IF seconds >= 0 THEN seconds \div DaySeconds ELSE -((-seconds) \div DaySeconds)

\* div_euclid
DayOf(seconds) == seconds \div DaySeconds

\* civil_from_days: years of 400 that start in March
FromDays(days) ==
  LET shifted == days + 719468
      era == shifted \div 146097
      doe == shifted % 146097
      yoe == (doe - doe \div 1460 + doe \div 36524 - doe \div 146096) \div 365
      doy == doe - (365 * yoe + yoe \div 4 - yoe \div 100)
      mp  == (5 * doy + 2) \div 153
      month == IF mp < 10 THEN mp + 3 ELSE mp - 9
  IN  [year  |-> yoe + era * 400 + (IF month <= 2 THEN 1 ELSE 0),
       month |-> month,
       day   |-> doy - (153 * mp + 2) \div 5 + 1]

\* Date::from_unix_seconds
FromUnixSeconds(seconds) == FromDays(DayOf(seconds))

\* The order derived for Date: year, month, day
Before(a, b) ==
  \/ a.year < b.year
  \/ a.year = b.year /\ a.month < b.month
  \/ a.year = b.year /\ a.month = b.month /\ a.day < b.day

Era(name, year, month, d) ==
  [name |-> name, begins |-> [year |-> year, month |-> month, day |-> d]]

\* Latest first, as to_era tries them
Eras ==
  <<Era("Reiwa", 2019, 5, 1), Era("Heisei", 1989, 1, 8), Era("Showa", 1926, 12, 25),
    Era("Taisho", 1912, 7, 30), Era("Meiji", 1868, 1, 25)>>

\* Mutant: the years of an era are counted from 0
ToEraFromZero(d) ==
  LET begun == {i \in 1..Len(Eras) : ~Before(d, Eras[i].begins)} IN
  {[era |-> i, year |-> d.year - Eras[i].begins.year] :
     i \in {j \in begun : \A k \in begun : j <= k}}

\* to_era: the era and the year in it, counted from 1; none before Meiji
ToEra(d) ==
  LET begun == {i \in 1..Len(Eras) : ~Before(d, Eras[i].begins)} IN
  {[era |-> i, year |-> d.year - Eras[i].begins.year + 1] :
     i \in {j \in begun : \A k \in begun : j <= k}}

\* {:02} and {:04}: decimal digits, at least so many
TwoDigits(n) ==
  IF n < 100 THEN <<n \div 10, n % 10>> ELSE <<n \div 100, (n \div 10) % 10, n % 10>>
FourDigits(n) == TwoDigits(n \div 100) \o TwoDigits(n % 100)

\* Error::Malformed or Error::InvalidPin
NoCode == <<>>

\* Four ASCII digits; bytes that are none stand above 9
IsSecurityCode(code) == Len(code) = 4 /\ \A i \in 1..4 : code[i] \in 0..9

\* Mutant: the era year is not held to two digits
VerificationCodeBUnchecked(birth, expiryYear, code) ==
  IF ToEra(birth) = {} \/ ~IsSecurityCode(code) THEN NoCode
  ELSE LET era == CHOOSE e \in ToEra(birth) : TRUE
       IN  TwoDigits(era.year) \o TwoDigits(birth.month) \o TwoDigits(birth.day)
             \o FourDigits(expiryYear) \o code

\* verification_code_b.  A year of expiry of five digits makes fifteen, which is still
\* within Pin::MAX_LEN.
VerificationCodeB(birth, expiryYear, code) ==
  IF \/ ToEra(birth) = {} \/ \E e \in ToEra(birth) : e.year > 99
     \/ ~IsSecurityCode(code)
    THEN NoCode
    ELSE LET era == CHOOSE e \in ToEra(birth) : TRUE
         IN  TwoDigits(era.year) \o TwoDigits(birth.month) \o TwoDigits(birth.day)
               \o FourDigits(expiryYear) \o code
-----------------------------------------------------------------------------
(* Correctness *)

\* Whatever second of a day a moment falls on, from_unix_seconds names that day's
\* date, before 1970 as well as after, through leap days and centuries.
DatesAreTrue ==
  \A s \in 0..DaySeconds - 1 : FromUnixSeconds(day * DaySeconds + s) = date

EraTurns ==
  \A now \in ToEra(date') :
    \/ /\ ToEra(date) = {}
       /\ now = [era |-> Len(Eras), year |-> 1]
    \/ \E old \in ToEra(date) :
         \/ /\ now.era = old.era
            /\ now.year = old.year + (IF date'.year > date.year THEN 1 ELSE 0)
         \/ /\ now.era = old.era - 1
            /\ now.year = 1

\* From one day to the next an era goes on, its year by one at New Year and only
\* then, or the next era begins with its year 1.  None is skipped and none returns.
ErasTurn == [][EraTurns]_calvars

\* A security code, one too short and one with a byte that is no digit
SecurityCodes == {<<1, 2, 3, 4>>, <<1, 2, 3>>, <<1, 2, 3, 10>>}

\* A verification code is fourteen digits, whatever is given for the security code, and
\* they tell the date of birth within its era: whenever one is made, the one who wrote
\* the era on the card can read it back.  The year of expiry has four digits on a card.
CodeTellsBirthDate ==
  \A security \in SecurityCodes :
    LET code == VerificationCodeB(date, 2035, security) IN
    code # NoCode =>
      /\ Len(code) = 14
      /\ \A i \in 1..14 : code[i] \in 0..9
      /\ \E i \in 1..Len(Eras) :
           FromDays(day) = [year  |-> Eras[i].begins.year + 10 * code[1] + code[2] - 1,
                            month |-> 10 * code[3] + code[4],
                            day   |-> 10 * code[5] + code[6]]
=============================================================================
