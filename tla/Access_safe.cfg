SPECIFICATION Spec
CONSTANTS
  Admins <- MCAdmins
  Users <- MCUsers
  Principals <- MCPrincipals
  Names <- MCAdmins
  RoleOf <- MCRoleOf
  PhoneOf <- MCPhoneOf
  Limits <- MCLimits
  Scenes <- MCScenes
  Threads = {"t1", "t2"}
  Devices = {"d1", "d2"}
  Phones = {"phone"}
  Purposes = {"LOGIN", "REGISTER", "RESET"}
  Clients = {"c1", "c2", "c3"}
  Passwords = {"first", "second"}
  FirstPassword = "first"
  MaxIds = 3
  MaximumSessions = 3
  MaxFailures = 3
  MaximumAttempts = 1
  MaxTries = 2
  DailyIssues = 2
  Burst = 2
  IdleTicks = 2
  MaximumBuckets = 2
  MaxTicks = 2
  MaxVersion = 3
INVARIANTS NoStaleSession  OnlyPermitted
CHECK_DEADLOCK FALSE
