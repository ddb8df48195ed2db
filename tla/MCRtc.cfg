SPECIFICATION MCSpec
CONSTANTS
  rtc = rtc
  slow = slow
  bad = bad
  Tasks = {t1, t2}
  Devices = {rtc, slow, bad}
  Cfg <- ThreeDevices
  Bad <- Refused
  Programs <- TaskPrograms
  None = None
  NoCall = NoCall
  ClockTimes <- SomeTimes
  AlarmTimes <- SomeAlarms
  Options1 = {0, 1, 2, 3, 5}
  Options2 = {0, 1, 2, 4}
  Celsius <- Quarters
  Nothing = Nothing
INVARIANTS
  PortInOrder
  NothingHeld
  ReadAsWritten
  AlarmsAsSet
PROPERTIES
  ChangesAreWhole
  Returns
