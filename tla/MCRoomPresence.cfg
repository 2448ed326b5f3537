SPECIFICATION Spec
CONSTANTS
  Tabs <- MCTabs
  Queries <- MCQueries
  UserOf <- MCUserOf
  Beats <- MCBeats
  TTL = 2
  MaxTime = 2
INVARIANTS
  ListedUsersReported
  SteadyUserIsListed
CHECK_DEADLOCK FALSE
