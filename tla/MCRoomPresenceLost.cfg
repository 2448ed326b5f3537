SPECIFICATION Spec
CONSTANTS
  Tabs <- BobsTabs
  Queries = {}
  UserOf <- MCUserOf
  Beats <- BobsBeats
  TTL = 2
  MaxTime = 2
PROPERTY ReportLeavesOneRow
CHECK_DEADLOCK FALSE
