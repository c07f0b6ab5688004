------------------------------ MODULE MCAccess ------------------------------
(***************************************************************************)
(* An owner, an operator, a viewer and two user accounts of one phone, on  *)
(* two threads, in scenes that each bring a few operations together.       *)
(***************************************************************************)
EXTENDS Access

MCAdmins == {"owner", "operator", "viewer"}
MCUsers == {"u1", "u2"}
MCPrincipals == MCAdmins \cup MCUsers
MCRoleOf == [p \in MCPrincipals |->
    CASE p = "owner" -> "Owner" [] p = "operator" -> "Operator"
      [] p = "viewer" -> "Viewer" [] OTHER -> "User"]
MCPhoneOf == [u \in MCUsers |-> "phone"]
MCLimits == [k \in Kinds |-> IF k = "User" THEN 2 ELSE 1]

Scene(ids, present, ops, kinds, guesses, clients) ==
    [present |-> present, ops |-> ops, kinds |-> kinds, guesses |-> guesses,
     clients |-> clients, ids |-> ids, devices |-> {"d1"}, threads |-> Threads,
     targets |-> {"operator", "u1"} \cap present]
Web == {"Administrator", "Dashboard"}

Guessing == Scene(3, {"operator", "viewer"}, {"AdminLogin", "Lock"},
                  {"Dashboard"}, Passwords, {})
Disabling == Scene(3, {"owner", "operator"}, {"AdminLogin", "Reauthenticate", "SetStatus"},
                   {"Administrator"}, {"first"}, {})
Replacing == Scene(2, {"operator"}, {"AdminLogin", "ChangePassword"}, Web, Passwords, {})
Hiring == Scene(3, {"owner"}, {"AdminLogin", "Reauthenticate", "CreateAdmin", "Logout"},
                {"Administrator"}, {"first"}, {})
Freezing == Scene(3, {"operator", "u1"},
                  {"AdminLogin", "UserLogin", "SetStatus", "EditProfile"},
                  {"Administrator"}, {"first"}, {"c1"})
Phoning == Scene(3, {"u1"}, {"SmsLogin", "Register", "DeleteAccount", "LOGIN", "REGISTER",
                          "UserLogin"}, {}, {"first"}, {"c1"})
Resetting == Scene(3, {"u1"}, {"UserLogin", "ResetPassword", "ChangePassword", "RESET",
                   "DeleteAccount"},
                   {}, {"first"}, {"c1"})
Texting == Scene(3, {"u1"}, {"SmsLogin", "Register", "LOGIN", "REGISTER", "Day"},
                 {}, {}, {})
Crowding == [Scene(3, {"operator"}, {"AdminLogin", "Age", "Logout"}, Web, {"first"}, {})
             EXCEPT !.devices = Devices, !.threads = {"t1"}]
Calling == [Scene(2, {"owner", "viewer", "u1"},
                  {"AdminLogin", "UserLogin", "Reauthenticate", "Age", "Enter"},
                  Web, {"first"}, {"c1"}) EXCEPT !.threads = {"t1"}]
Flooding == [Scene(3, {"u1"}, {"UserLogin", "Tick"}, {}, {"second"}, Clients)
             EXCEPT !.threads = {"t1"}]

MCScenes ==
    [guessing |-> Guessing, disabling |-> Disabling, replacing |-> Replacing,
     hiring |-> Hiring, freezing |-> Freezing, phoning |-> Phoning,
     resetting |-> Resetting, texting |-> Texting, crowding |-> Crowding,
     calling |-> Calling, flooding |-> Flooding]
=============================================================================
