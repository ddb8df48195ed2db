------------------------------ MODULE RtcTime ------------------------------
(***************************************************************************)
(* What DS3231/DS3231.c writes into the registers of the real-time clock   *)
(* and makes of what it reads there: the time, the alarms and the          *)
(* temperature.                                                            *)
(*                                                                         *)
(* The registers hold two decimal digits each, BCD.  The clock chip itself *)
(* is external: of it, the module says when an alarm fires.  How tasks     *)
(* reach the registers, and fail to, is in RtcDriver.                      *)
(***************************************************************************)
EXTENDS Integers, FiniteSets

CONSTANTS
  ClockTimes,  \* the struct tm that ds3231_set_time is called with
  AlarmTimes,  \* those that ds3231_set_alarm is called with
  Options1, Options2,  \* and the rates
  Celsius,     \* what the sensor measures, in quarters of a degree
  Nothing

Struct == [sec : 0 .. 59, min : 0 .. 59, hour : 0 .. 23, wday : 0 .. 6,
           mday : 1 .. 31, mon : 0 .. 11, year : 100 .. 199]

ASSUME TimesOK ==
  /\ ClockTimes \subseteq Struct /\ AlarmTimes \subseteq Struct
  /\ Options1 \subseteq 0 .. 5 /\ Options2 \subseteq 0 .. 4
  /\ Celsius \subseteq -512 .. 511

VARIABLES
  clock,   \* the registers of the time
  alarm1, alarm2,  \* those of the alarms
  temp,    \* the two of the temperature
  tm,      \* what ds3231_get_time made last
  t_int,   \* what ds3231_get_raw_temp made last
           \* (both are Nothing once the registers have new values)
  (* The rest only observes. *)
  set,     \* the time that was set
  asked1, asked2   \* the alarms that were set: a time and a rate

timeVars == <<clock, alarm1, alarm2, temp, tm, t_int, set, asked1, asked2>>

TimeInit ==
  /\ clock = <<0, 0, 0, 1, 1, 1, 0>>
  /\ alarm1 = <<0, 0, 0, 1>> /\ alarm2 = <<0, 0, 1>>
  /\ temp = <<0, 0>>
  /\ tm = Nothing /\ t_int = Nothing
  /\ set = Nothing /\ asked1 = Nothing /\ asked2 = Nothing

-----------------------------------------------------------------------------

bcd2dec(val) == (val \div 16) * 10 + (val % 16)
dec2bcd(val) == (val \div 10) * 16 + (val % 10)

\* The bits of a byte that are set in mask too; mask is a power of two.
And(byte, mask) == IF (byte \div mask) % 2 = 1 THEN mask ELSE 0

ds3231_set_time(time) ==
  /\ clock' = <<dec2bcd(time.sec), dec2bcd(time.min), dec2bcd(time.hour),
                dec2bcd(time.wday + 1), dec2bcd(time.mday), dec2bcd(time.mon + 1),
                dec2bcd(time.year - 100)>>
  /\ set' = time /\ tm' = Nothing
  /\ UNCHANGED <<alarm1, alarm2, temp, t_int, asked1, asked2>>

\* Days of the months before, by the table of the year; and the day.
DaysPerMonth(leap) == <<31, IF leap THEN 29 ELSE 28, 31, 30, 31, 30, 31, 31, 30, 31, 30, 31>>
Leap(year) == (year % 4 = 0 /\ year % 100 # 0) \/ year % 400 = 0

\* Nobody sets a date that there is not.
ASSUME DatesOK ==
  \A time \in ClockTimes :
    time.mday <= DaysPerMonth(Leap(1900 + time.year))[time.mon + 1]

days_since_january_1st(year, month, day) ==
  LET before[i \in 0 .. month] ==
        IF i = 0 THEN 0 ELSE before[i - 1] + DaysPerMonth(Leap(year))[i]
  IN  day - 1 + before[month]

\* The hours of a clock that counts to 12 have their own branch; this driver never
\* sets such a clock.
Hour(byte) ==
  IF And(byte, 64) = 0 THEN bcd2dec(byte)
  ELSE bcd2dec(byte % 32) - 1 + (IF And(byte, 32) # 0 THEN 12 ELSE 0)

ds3231_get_time ==
  LET mon == bcd2dec(clock[6] % 32) - 1
      mday == bcd2dec(clock[5])
      year == bcd2dec(clock[7]) + 100
  IN  /\ tm' = [sec |-> bcd2dec(clock[1]), min |-> bcd2dec(clock[2]),
                hour |-> Hour(clock[3]), wday |-> bcd2dec(clock[4]) - 1,
                mday |-> mday, mon |-> mon, year |-> year,
                yday |-> days_since_january_1st(year, mon, mday)]
      /\ UNCHANGED <<clock, alarm1, alarm2, temp, t_int, set, asked1, asked2>>

\* A field that an alarm is to match, or is not: DS3231_ALARM_NOTSET.
NotSet == 128
Field(given, val) == IF given THEN dec2bcd(val) ELSE NotSet

\* The day of an alarm, for the rates that give a day of the week or of the month.
Day(time, weekday, date) ==
  IF weekday THEN And(dec2bcd(time.wday + 1), 64)   \* DS3231_ALARM_WDAY
  ELSE IF date THEN dec2bcd(time.mday) ELSE NotSet

alarm1_data_Loose(time, option) ==
  <<Field(option >= 1, time.sec), Field(option > 2, time.min),
    Field(option >= 3, time.hour), Day(time, option = 4, option = 5)>>
alarm1_data(time, option) ==
  <<Field(option >= 1, time.sec), Field(option >= 2, time.min),
    Field(option >= 3, time.hour), Day(time, option = 4, option = 5)>>
alarm2_data(time, option) ==
  <<Field(option >= 1, time.min), Field(option >= 2, time.hour),
    Day(time, option = 3, option = 4)>>

\* One alarm or both; seven bytes from the first alarm on are both.
ds3231_set_alarm(alarms, time1, option1, time2, option2) ==
  /\ IF "ALARM_1" \in alarms
     THEN /\ alarm1' = alarm1_data(time1, option1)
          /\ asked1' = [time |-> time1, option |-> option1]
     ELSE UNCHANGED <<alarm1, asked1>>
  /\ IF "ALARM_2" \in alarms
     THEN /\ alarm2' = alarm2_data(time2, option2)
          /\ asked2' = [time |-> time2, option |-> option2]
     ELSE UNCHANGED <<alarm2, asked2>>
  /\ UNCHANGED <<clock, temp, tm, t_int, set>>

\* The sensor, ten bits of two's complement in two bytes.
Measure(quarters) ==
  /\ temp' = <<(quarters \div 4) % 256, (quarters % 4) * 64>>
  /\ t_int' = Nothing
  /\ UNCHANGED <<clock, alarm1, alarm2, tm, set, asked1, asked2>>

Signed(byte) == IF byte >= 128 THEN byte - 256 ELSE byte

ds3231_get_raw_temp_Unsigned ==
  /\ t_int' = temp[1] * 4 + temp[2] \div 64
  /\ UNCHANGED <<clock, alarm1, alarm2, temp, tm, set, asked1, asked2>>
ds3231_get_raw_temp ==
  /\ t_int' = Signed(temp[1]) * 4 + temp[2] \div 64
  /\ UNCHANGED <<clock, alarm1, alarm2, temp, tm, set, asked1, asked2>>
ds3231_get_temp_integer == t_int \div 4   \* t_int >> 2

Clock == (\E time \in ClockTimes : ds3231_set_time(time)) \/ ds3231_get_time
Alarms ==
  \/ \E time1 \in AlarmTimes, option1 \in Options1 :
       \/ ds3231_set_alarm({"ALARM_1"}, time1, option1, Nothing, 0)
       \/ \E time2 \in AlarmTimes, option2 \in Options2 :
            ds3231_set_alarm({"ALARM_1", "ALARM_2"}, time1, option1, time2, option2)
  \/ \E time2 \in AlarmTimes, option2 \in Options2 :
       ds3231_set_alarm({"ALARM_2"}, Nothing, 0, time2, option2)
Sensor == (\E quarters \in Celsius : Measure(quarters)) \/ ds3231_get_raw_temp

TimeNext == Clock \/ Alarms \/ Sensor

TimeSpec == TimeInit /\ [][TimeNext]_timeVars

-----------------------------------------------------------------------------
(* The clock chip: when its alarms fire.                                   *)

Masked(byte) == And(byte, 128) # 0
DayMatches(byte, now) ==
  Masked(byte) \/ (IF And(byte, 64) # 0 THEN byte % 16 = now.wday + 1
                                        ELSE byte = dec2bcd(now.mday))
Fires1(now) ==
  /\ Masked(alarm1[1]) \/ alarm1[1] = dec2bcd(now.sec)
  /\ Masked(alarm1[2]) \/ alarm1[2] = dec2bcd(now.min)
  /\ Masked(alarm1[3]) \/ alarm1[3] = dec2bcd(now.hour)
  /\ DayMatches(alarm1[4], now)
Fires2(now) ==
  /\ now.sec = 0
  /\ Masked(alarm2[1]) \/ alarm2[1] = dec2bcd(now.min)
  /\ Masked(alarm2[2]) \/ alarm2[2] = dec2bcd(now.hour)
  /\ DayMatches(alarm2[3], now)

\* What the rates of DS3231.h mean.
Meant1(now) ==
  LET at == asked1.time IN LET rate == asked1.option IN
  /\ rate >= 1 => now.sec = at.sec
  /\ rate >= 2 => now.min = at.min
  /\ rate >= 3 => now.hour = at.hour
  /\ rate = 4 => now.wday = at.wday
  /\ rate = 5 => now.mday = at.mday
Meant2(now) ==
  LET at == asked2.time IN LET rate == asked2.option IN
  /\ now.sec = 0
  /\ rate >= 1 => now.min = at.min
  /\ rate >= 2 => now.hour = at.hour
  /\ rate = 3 => now.wday = at.wday
  /\ rate = 4 => now.mday = at.mday

-----------------------------------------------------------------------------
(* Properties.                                                             *)

\* An alarm by second, minute, hour or day of the month fires at the times that it
\* was set for and at no other, and neither alarm disturbs the other.
AlarmsAsSet ==
  \A now \in AlarmTimes :
    /\ asked1 # Nothing /\ asked1.option # 4 => (Fires1(now) <=> Meant1(now))
    /\ asked2 # Nothing /\ asked2.option # 3 => (Fires2(now) <=> Meant2(now))

\* The days of a year before a date, counted.
Before(mon, mday, year) ==
  Cardinality({x \in (1 .. 12) \X (1 .. 31) :
    /\ x[2] <= DaysPerMonth(Leap(1900 + year))[x[1]]
    /\ x[1] < mon + 1 \/ (x[1] = mon + 1 /\ x[2] < mday)})

\* What is read is what was written: the time that was set, field by field, with the
\* day of its year (from 2001 on: days_since_january_1st does not take 2000 for a
\* leap year), and the whole degrees that were measured, below zero too.
ReadAsWritten ==
  /\ tm # Nothing /\ set # Nothing =>
       /\ \A f \in DOMAIN set : tm[f] = set[f]
       /\ set.year # 100 => tm.yday = Before(set.mon, set.mday, set.year)
  /\ t_int # Nothing => ds3231_get_temp_integer = Signed(temp[1])

=============================================================================
