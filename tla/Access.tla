--------------------------------- MODULE Access ---------------------------------
(***************************************************************************)
(* The routes of the controllers, AccessGuard, AdminGuard and              *)
(* AuthService.verify, and the roles the services themselves ask for.      *)
(***************************************************************************)
EXTENDS Rules, TLC

Roles == {"FARMER", "COLLECTOR", "COOPERATIVE", "PACKING", "EXPORTER", "ADMIN"}

\* A route: the guard in front of it and the roles of @Roles, all without.
Open(verb) == [verb |-> verb, guard |-> "none", roles |-> Roles]
ForActors(verb, roles) == [verb |-> verb, guard |-> "actor", roles |-> roles]
ForAdmins(verb) == [verb |-> verb, guard |-> "admin", roles |-> {"ADMIN"}]

AuthRoutes ==
    [adminLogin |-> Open("POST"), logout |-> Open("POST"), me |-> ForAdmins("GET"),
     getProfile |-> ForActors("GET", Roles), updateProfile |-> ForActors("PATCH", Roles),
     deleteProfile |-> ForActors("DELETE", Roles), zaloExchange |-> Open("POST"),
     resolveLocation |-> ForActors("POST", Roles),
     registerFarmer |-> Open("POST"), loginFarmer |-> Open("POST"),
     registerCollector |-> Open("POST"), loginCollector |-> Open("POST"),
     registerCooperative |-> Open("POST"), loginCooperative |-> Open("POST")]

AdminRoutes ==
    [actors |-> ForAdmins("GET"), createActor |-> ForAdmins("POST"),
     updateActor |-> ForAdmins("PATCH"), deleteActor |-> ForAdmins("DELETE"),
     issueAccessToken |-> ForAdmins("POST"), adminPlots |-> ForAdmins("GET"),
     createPlot |-> ForAdmins("POST"), updatePlot |-> ForAdmins("PATCH"),
     deletePlot |-> ForAdmins("DELETE"), auditLogs |-> ForAdmins("GET")]

AnchorRoutes == [anchors |-> ForAdmins("GET"), anchorDate |-> ForAdmins("POST")]

AppRoutes ==
    [health |-> Open("GET"), metrics |-> Open("GET"), plots |-> Open("GET"),
     batches |-> Open("GET"), verify |-> Open("GET"), digitalLink |-> Open("GET"),
     epcis |-> Open("GET"), export |-> Open("GET"),
     createHarvest |-> ForActors("POST", {"FARMER", "COOPERATIVE", "ADMIN"}),
     transfer |-> ForActors("POST", Roles \ {"FARMER"})]

EvidenceRoutes == [upload |-> ForActors("POST", Roles)]

MarketRoutes ==
    [lots |-> Open("GET"), requests |-> ForActors("GET", Roles),
     createRequest |-> ForActors("POST", Roles \ {"FARMER"}),
     updateRequest |-> ForActors("PATCH", Roles)]

PilotRoutes == [submitPilot |-> Open("POST"), pilotSummary |-> Open("GET")]

Routes ==
    AppRoutes @@ AuthRoutes @@ AdminRoutes @@ EvidenceRoutes @@ AnchorRoutes @@ MarketRoutes @@ PilotRoutes

\* A caller: where the token comes from, whether it is a signed session or
\* just names an account, what it says, the account it names as that is now,
\* and the site the browser is on.
Callers ==
    [token : {"none", "bearer", "cookie"}, signed : BOOLEAN, expired : BOOLEAN,
     tokenRole : Roles, active : BOOLEAN, role : Roles, origin : {"none", "known", "other"}]

\* verify: for a session, the account must be active and still have the role of
\* the token; a token that names an account is taken as it is.
Verified(c) == ~c.signed \/ (~c.expired /\ c.active /\ c.role = c.tokenRole)

\* assertCsrfOrigin
OriginAllowed(c, verb) == verb = "GET" \/ c.origin # "other"

\* What the guards of a route answer; 200 lets the caller through.
AdminGuard(c, verb) ==
    IF ~OriginAllowed(c, verb) THEN 403
    ELSE IF c.token # "cookie" \/ ~Verified(c) \/ c.role # "ADMIN" THEN 401 ELSE 200

AccessGuard(c, roles) ==
    IF c.token # "bearer" \/ ~Verified(c) THEN 401 ELSE IF c.role \notin roles THEN 403 ELSE 200

Guard(c, route) ==
    IF route.guard = "none" THEN 200
    ELSE IF route.guard = "admin" THEN AdminGuard(c, route.verb)
    ELSE AccessGuard(c, route.roles)

\* assertTransferRole
TransferRole(status, role) ==
    \/ role \in {"ADMIN", "COOPERATIVE"}
    \/ [collected |-> "COLLECTOR", packed |-> "PACKING", shipped |-> "EXPORTER"][status] = role

\* Two layers check roles, and they agree: a role the harvest route lets
\* through is one rule R accepts on a plot of its own, and one the transfer
\* route lets through can make some transfer; no service expects a role that
\* its route refuses.
RoutesMatchServices ==
    \A role \in Roles :
        /\ role \in Routes.createHarvest.roles <=>
               MayHarvest([known |-> TRUE, active |-> TRUE, role |-> role, owns |-> TRUE])
        /\ role \in Routes.transfer.roles <=>
               \E status \in {"collected", "packed", "shipped"} : TransferRole(status, role)

\* In a session, what changes lots, plots, actors, anchors or requests is done
\* by an account that is active and has the role the route asks for at that
\* moment, and by no session of a role the account had before.  Nothing is
\* said of tokens that are no session: verify looks at nothing for them.
Anonymous == {"adminLogin", "logout", "zaloExchange", "registerFarmer", "loginFarmer",
    "registerCollector", "loginCollector", "registerCooperative", "loginCooperative", "submitPilot"}

ChangesAreOwned(c) ==
    c.signed => \A r \in DOMAIN Routes \ Anonymous :
        Routes[r].verb # "GET" /\ Guard(c, Routes[r]) = 200 =>
            c.active /\ c.role = c.tokenRole /\ c.role \in Routes[r].roles
=============================================================================
