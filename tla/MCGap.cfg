SPECIFICATION FairSpec
CONSTANTS
  Pods = {1, 2}
  Orders = {1, 2}
  Changes = {1, 2, 3}
  OrderOf <- MCOrderOf
  NextOf <- MCNextOf
  Routes <- MCRoutes
  OwnerOf <- MCOwnerOf
  Admins = {"root"}
  Nobody = "nobody"
  Watchers = {"sse"}
  WatchOf <- MCWatchOf
  UserOf <- MCUserOf
  Sockets = {"bobs"}
  JoinIds = {1, 2}
  MaxConnects = 2
  MaxCrashes = 1
INVARIANTS MissedIsReplayed
CHECK_DEADLOCK FALSE
