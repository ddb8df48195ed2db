------------------------------- MODULE MCRtc -------------------------------
(***************************************************************************)
(* Small instances of the two modules of the real-time clock.  A behaviour *)
(* is one of RtcDriver (tasks that call the driver at the same time) or    *)
(* one of the three parts of RtcTime (the time, the alarms, the            *)
(* temperature): they share no state.                                      *)
(*                                                                         *)
(* The devices are two clocks on the same pins at different speeds, and    *)
(* one whose configuration is refused.  The times are dates around the     *)
(* ends of months and years, leap and not; those for the alarms differ in  *)
(* one field each.                                                         *)
(***************************************************************************)
EXTENDS RtcDriver, RtcTime, TLC

CONSTANTS rtc, slow, bad

Right == [pins |-> "21,22", clk_speed |-> "400k"]
Slow  == [pins |-> "21,22", clk_speed |-> "100k"]
Wrong == [pins |-> "none", clk_speed |-> "400k"]
Refused == {Wrong}
ThreeDevices == rtc :> Right @@ slow :> Slow @@ bad :> Wrong

\* Tasks that change the same register, and tasks that share the port.
TaskPrograms == {
  {<<rtc, "status">>},
  {<<rtc, "control">>, <<slow, "other">>},
  {<<rtc, "other">>, <<slow, "other">>, <<bad, "other">>} }

Time(sec, min, hour, wday, date) ==
  [sec |-> sec, min |-> min, hour |-> hour, wday |-> wday,
   mday |-> date[1], mon |-> date[2], year |-> date[3]]

SomeTimes ==
  {Time(sec, min, hour, wday, date) :
     sec \in {0, 59}, min \in {9, 10}, hour \in {0, 12, 23}, wday \in {0, 6},
     date \in {<<1, 0, 101>>, <<29, 1, 124>>, <<1, 2, 124>>, <<1, 2, 123>>,
               <<31, 11, 199>>, <<9, 8, 109>>, <<10, 9, 110>>}}

\* One time, and for each field one that differs in it only.
SomeAlarms ==
  {Time(0, 0, 12, 3, <<1, 0, 124>>), Time(30, 0, 12, 3, <<1, 0, 124>>),
   Time(0, 10, 12, 3, <<1, 0, 124>>), Time(0, 0, 23, 3, <<1, 0, 124>>),
   Time(0, 0, 12, 0, <<1, 0, 124>>), Time(0, 0, 12, 3, <<4, 0, 124>>)}

Quarters == {-512, -100, -5, -4, -3, -1, 0, 1, 3, 4, 101, 511}

VARIABLE active   \* what this behaviour is one of

MCInit ==
  /\ Init /\ TimeInit
  /\ active \in {"driver", "clock", "alarms", "sensor"}

MCNext ==
  \/ active = "driver" /\ Next /\ UNCHANGED <<active, timeVars>>
  \/ active = "clock" /\ Clock /\ UNCHANGED <<active, vars>>
  \/ active = "alarms" /\ Alarms /\ UNCHANGED <<active, vars>>
  \/ active = "sensor" /\ Sensor /\ UNCHANGED <<active, vars>>

MCSpec == MCInit /\ [][MCNext]_<<active, vars, timeVars>> /\ Fairness

=============================================================================
