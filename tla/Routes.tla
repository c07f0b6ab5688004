------------------------------- MODULE Routes -------------------------------
(***************************************************************************)
(* What each route asks of the session that calls it: a kind of token, one *)
(* of some roles, a recent proof of the password, an idempotency key.      *)
(* Every handler passes this to middleware::authorize, and a write to      *)
(* dispatchIdempotentBlocking, before it calls a service; it does nothing  *)
(* when it is refused.                                                     *)
(***************************************************************************)
Roles == {"User", "Operator", "Owner", "Viewer", "MlWorker"}

Asks(kinds, roles) == [kinds |-> kinds, roles |-> roles, reauth |-> FALSE, key |-> "No"]
AnyUser == Asks({"User"}, {"User"})
AnyAdmin == Asks({"Administrator"}, {"Operator", "Owner"})
AnOwner == Asks({"Administrator"}, {"Owner"})
Proved(asks) == [asks EXCEPT !.reauth = TRUE]
\* An idempotency key, whose answer is kept for days or for good.
Once(asks) == [asks EXCEPT !.key = "Days"]
OnceForGood(asks) == [asks EXCEPT !.key = "ForGood"]
All(routes, asks) == {[route |-> r, asks |-> asks] : r \in routes}

-----------------------------------------------------------------------------
\* The user's own account, sessions and picture.
IdentityRoutes == All({"user.sessions.list", "user.sessions.revoke", "user.me.get"}, AnyUser)
ProfileRoutes == All({"user.me.nickname", "user.me.avatar.put", "user.me.avatar.get",
                      "user.me.credential"}, AnyUser)
FarewellRoute == All({"user.me.delete"}, AnyUser)

\* Charging: flows, then orders; the wallet; what a user reads and reviews.
QuoteRoutes ==
    All({"user.flows.create"}, Once(AnyUser))
    \cup All({"user.flows.active", "user.flows.get"}, AnyUser)
ConfirmRoutes == All({"user.flows.confirm", "user.flows.cancel"}, Once(AnyUser))
StartRoutes ==
    All({"user.flows.start"}, Once(AnyUser)) \cup All({"user.flows.progress"}, AnyUser)
\* Mutation of SettleRoutes: the answer of a settlement expires.
SettleRoutesForDays ==
    All({"user.flows.settle"}, Once(AnyUser))
    \cup All({"user.orders.list", "user.orders.get"}, AnyUser)
SettleRoutes ==
    All({"user.flows.settle"}, OnceForGood(AnyUser))
    \cup All({"user.orders.list", "user.orders.get"}, AnyUser)
WalletRoutes ==
    All({"user.wallet.recharge"}, OnceForGood(AnyUser))
    \cup All({"user.wallet.get", "user.wallet.transactions"}, AnyUser)
StationRoutes == All({"user.stations.list", "user.stations.get"}, AnyUser)
OfferRoutes == All({"user.stations.chargers", "user.stations.quote"}, AnyUser)
ReviewRoutes ==
    All({"user.review.post"}, OnceForGood(AnyUser))
    \cup All({"user.review.get", "user.stations.reviews"}, AnyUser)
NavigationRoutes == All({"user.stations.route"}, AnyUser)

\* An administrator's session, and users.
AdminSessionRoutes == All({"admin.reauth", "admin.logout", "admin.users.list"}, AnyAdmin)
AdminUserRoutes ==
    All({"admin.users.status"}, Once(AnyAdmin)) \cup All({"admin.users.get"}, AnyAdmin)
AdminUserOrderRoutes == All({"admin.users.orders"}, AnyAdmin)

\* Stations and chargers; only a restart asks for the password.
AdminStationRoutes ==
    All({"admin.stations.create"}, Once(AnyAdmin)) \cup All({"admin.stations.list"}, AnyAdmin)
AdminStationUpdateRoutes ==
    All({"admin.stations.update", "admin.stations.enable", "admin.stations.disable"},
        Once(AnyAdmin))
AdminChargerRoutes ==
    All({"admin.chargers.create"}, Once(AnyAdmin)) \cup All({"admin.chargers.list"}, AnyAdmin)
AdminRestartRoutes ==
    All({"admin.chargers.status"}, Once(AnyAdmin)) \cup All({"admin.commands.get"}, AnyAdmin)
    \cup All({"admin.chargers.restart"}, Once(Proved(AnyAdmin)))
AdminTariffRoutes ==
    All({"admin.tariffs.create"}, Once(AnyAdmin)) \cup All({"admin.tariffs.list"}, AnyAdmin)
AdminAdjustmentRoutes == All({"admin.adjustments.create"}, Once(AnyAdmin))

\* Flows, figures, accounts, the audit log, backups and predictions.
AdminFlowRoutes ==
    All({"admin.flows.list"}, AnyAdmin)
    \cup All({"admin.flows.release"}, Once(Proved(AnyAdmin)))
AdminStatisticsRoutes == All({"admin.stats.revenue", "admin.stats.chargers"}, AnyAdmin)
AdminAccountRoutes ==
    All({"admin.accounts.list"}, AnOwner)
    \cup All({"admin.accounts.create"}, Once(Proved(AnOwner)))
AdminAccountStatusRoutes ==
    All({"admin.accounts.status"}, Once(Proved(AnOwner)))
    \cup All({"admin.me.password"}, AnyAdmin)
AdminAuditRoutes == All({"admin.audit"}, AnOwner)
AdminBackupRoutes ==
    All({"admin.backups.create"}, Once(Proved(AnOwner)))
    \cup All({"admin.backups.verify"}, Once(AnOwner)) \cup All({"admin.backups.list"}, AnOwner)
AdminPredictionRoutes == All({"admin.predictions"}, AnyAdmin)
AdminMlRoutes == All({"admin.ml.create"}, Once(AnyAdmin)) \cup All({"admin.ml.get"}, AnyAdmin)

\* Screens and the machine-learning process.
DashboardRoutes ==
    All({"dashboard.summary"},
        Asks({"Dashboard"}, {"Operator", "Owner", "Viewer"}))
MlRoutes ==
    All({"ml.features", "ml.versions", "ml.completion"}, Asks({"MlTask"}, {"MlWorker"}))
    \cup All({"ml.predictions"}, Once(Asks({"MlTask"}, {"MlWorker"})))
\* Asked from elsewhere; a caller from the loopback address is not asked for a
\* session, and is in no row, like the login and the liveness of the server.
HealthRoutes == All({"health.ready"}, AnyAdmin)

\* The table of the server, and what each route of it asks.
Table ==
    IdentityRoutes \cup ProfileRoutes \cup FarewellRoute \cup QuoteRoutes
    \cup ConfirmRoutes \cup StartRoutes \cup SettleRoutes \cup WalletRoutes
    \cup StationRoutes \cup OfferRoutes \cup ReviewRoutes \cup NavigationRoutes
    \cup AdminSessionRoutes \cup AdminUserRoutes \cup AdminUserOrderRoutes
    \cup AdminStationRoutes \cup AdminStationUpdateRoutes \cup AdminChargerRoutes
    \cup AdminRestartRoutes \cup AdminTariffRoutes \cup AdminAdjustmentRoutes
    \cup AdminFlowRoutes \cup AdminStatisticsRoutes \cup AdminAccountRoutes
    \cup AdminAccountStatusRoutes \cup AdminAuditRoutes \cup AdminBackupRoutes
    \cup AdminPredictionRoutes \cup AdminMlRoutes \cup DashboardRoutes
    \cup MlRoutes \cup HealthRoutes
Route == [r \in {row.route : row \in Table} |->
    (CHOOSE row \in Table : row.route = r).asks]
=============================================================================
