SPECIFICATION FairSpec
CONSTANTS
  Tabs = {t1, t2}
  Users = {"owner", "buyer"}
  Orgs = {"north", "south"}
  Member <- MCMember
  NoOrg = "none"
  MaxLogins = 2
  MaxEvents = 2
INVARIANTS DataIsOfTheSession
PROPERTIES SessionsConverge
CHECK_DEADLOCK FALSE
