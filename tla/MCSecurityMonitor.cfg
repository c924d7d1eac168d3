SPECIFICATION MCSpec
CONSTANTS
  Lower <- MCLower
  Cut <- MCCut
  mac = mac
  macNewProgram = macNewProgram
  macNoAgent = macNoAgent
  win = win
  winNewValue = winNewValue
  Hosts = {mac, macNewProgram, macNoAgent, win, winNewValue}
  Reading <- MCReading
  Near <- MCNear
  t1 = t1
  t2 = t2
  Timers = {t1, t2}
  RawCap = 1
  MaxEvents = 2
INVARIANT PanicNeedsStrayFlush
PROPERTIES RepeatsAreExplained ReportsConverge WakeReachesPoll
CHECK_DEADLOCK FALSE
