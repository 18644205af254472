CONSTANTS
  MaxDbFileSize = 7
  DbFileHeadLen = 2
  MsgHeadLen = 1
  Lens = {1, 2}
  MaxQueues = {2}
  Delays <- NoDelay
  Wlocks <- WlockArgs
  DefMaxQueue = 3
  DefDelay = 0
  Width = 100
  MaxPut = 4
  MaxTime = 0
  MaxCrash = 2
SPECIFICATION AnyCrashSpec
VIEW RecoveryView
INVARIANTS
  RecoveryTypeOK
  SurvivesRestart
  SettingsSurvive
  AtMostOnceInOrder
