------------------------------ MODULE Requests ------------------------------
(***************************************************************************)
(* The way of a request through the backend (app.module.ts, main.ts):      *)
(* middleware, the four guards in their order, the interceptors around the *)
(* handler, the filter for what was thrown.  All requests are for one      *)
(* route, which the initial state chooses.                                 *)
(***************************************************************************)
EXTENDS Integers, FiniteSets

CONSTANTS
    Request,            \* requests under way
    Argument,           \* what the parameters of a request may be
    StrictLimit,        \* @Throttle of a route
    DefaultLimit        \* the limit of the other routes

RequestsAssumption == {StrictLimit, DefaultLimit} \subseteq Nat \ {0}

-----------------------------------------------------------------------------
(* The routes the controllers declare.  What a handler does to the state    *)
(* is in the modules of the services.                                       *)

\* Routes.  access: "public" (@Public), "any" (whoever is signed in), "admin" (@Roles at the
\* handler), "class" (@Roles at the class).  traits: "user" (reads req.user), "key" (needs
\* an idempotency key), "strict" (@Throttle), "unthrottled" (@SkipThrottle), "audit"
\* (@Audit), "cached" (@CacheKey), "varies" (its answer depends on parameters).
Route(verb, name, access, traits) == [verb |-> verb, name |-> name, access |-> access, traits |-> traits]

\* auth.controller.ts
AccountRoutes ==
    {Route("POST", "register", "public", {}), Route("POST", "login", "public", {"strict"}),
     Route("POST", "verify-otp", "public", {}), Route("POST", "resend-otp", "public", {"strict"}),
     Route("POST", "refresh", "public", {}), Route("GET", "csrf-token", "any", {"user"}),
     Route("POST", "logout", "any", {"user"}), Route("POST", "logout-all", "any", {"user"})}

SessionRoutes ==
    {Route("GET", "session-events", "any", {"user"}),
     Route("POST", "forgot-password", "public", {"strict"}), Route("POST", "reset-password", "public", {}),
     Route("POST", "oauth/token", "public", {}),
     Route("POST", "oauth/clients", "admin", {}), Route("GET", "oauth/clients", "admin", {})}

\* biometric.controller.ts
BiometricRoutes ==
    {Route("POST", name, "public", {}) :
        name \in {"register-options", "register-verify", "login-options", "login-verify"}}

\* totp.controller.ts
TotpRoutes ==
    {Route("POST", name, "any", {"user"}) : name \in {"setup", "enable", "verify", "disable"}}
        \cup {Route("GET", "status", "any", {"user"})}

\* users.controller.ts
UserRoutes ==
    {Route("GET", "search", "admin", {"varies"}), Route("POST", "change-password", "any", {"user"}),
     Route("GET", "user", "any", {"cached", "varies"}), Route("PATCH", "user", "any", {}),
     Route("PATCH", "role", "admin", {"user", "audit"}), Route("DELETE", "user", "admin", {}),
     Route("PATCH", "activate", "any", {}), Route("PATCH", "deactivate", "any", {})}

PictureRoutes == {Route("POST", "profile-picture", "any", {})}

\* bookings.controller.ts
CreateBookingRoutes == {Route("POST", "bookings", "any", {"user", "key"})}

BookingRoutes ==
    {Route("GET", "bookings", "any", {"user", "varies"}),
     Route("GET", "booking", "any", {"varies"}), Route("GET", "workspace-bookings", "any", {"varies"}),
     Route("GET", "series", "any", {"varies"}), Route("PATCH", "confirm", "admin", {"audit"}),
     Route("PATCH", "cancel", "any", {"user"}), Route("DELETE", "series", "any", {"user"})}

CancellationPolicyRoutes ==
    {Route(verb, "policies/cancellation", "admin", {}) : verb \in {"GET", "POST", "PATCH", "DELETE"}}

\* attendance.controller.ts
ClockRoutes ==
    {Route("POST", "clock-in", "any", {"user", "key"}), Route("POST", "clock-out", "any", {"user", "key"}),
     Route("GET", "my", "any", {"user", "varies"})}

AttendanceRoutes ==
    {Route("GET", name, "admin", {"varies"}) : name \in {"user-attendance", "summary", "all"}}

\* workspaces.controller.ts and amenities.controller.ts
WorkspaceRoutes ==
    {Route("POST", "workspaces", "any", {}), Route("GET", "workspaces", "any", {"cached", "varies"}),
     Route("GET", "workspace", "any", {"varies"}), Route("GET", "availability", "any", {"varies"}),
     Route("PATCH", "workspace", "any", {"audit"}), Route("DELETE", "workspace", "any", {}),
     Route("GET", "occupancy-stream", "any", {"varies"})}

AmenityRoutes ==
    {Route("GET", "amenities", "any", {}),
     Route("POST", "amenities", "admin", {}), Route("DELETE", "amenities", "admin", {})}

\* hubs, stellar, webhooks and audit log
HubRoutes ==
    {Route("POST", "hubs", "admin", {"user"}), Route("GET", "hubs", "any", {}),
     Route("GET", "hub", "any", {"varies"})}

StellarRoutes == {Route("POST", "verify-tx", "any", {})}
WebhookRoutes == {Route("POST", "webhooks", "admin", {})}
AuditLogRoutes == {Route("GET", "audit-logs", "admin", {"varies"})}

\* newsletter.controller.ts: none of its routes is public.
NewsletterRoutes ==
    {Route("POST", "subscribe", "any", {}), Route("GET", "confirm", "any", {}),
     Route("GET", "unsubscribe", "any", {}), Route("GET", "subscribers", "any", {"user", "varies"})}

\* contact.controller.ts: neither is the form.
ContactRoutes ==
    {Route("POST", "contact", "any", {"key"}), Route("GET", "messages", "admin", {"varies"}),
     Route("GET", "spam-keywords", "admin", {}), Route("POST", "spam-keywords", "admin", {}),
     Route("DELETE", "spam-keywords", "admin", {})}

\* email.controller.ts
PreviewRoutes == {Route("GET", "email-preview", "any", {"varies"})}

\* reports, pricing and analytics name their roles at the class.
RevenueRoutes ==
    {Route("GET", "revenue", "class", {"cached", "varies"}), Route("GET", "revenue/export", "class", {"varies"})}

OccupancyRoutes == {Route("GET", "occupancy", "class", {"cached", "varies"})}

PricingRoutes ==
    {Route(verb, "rules", "class", {}) : verb \in {"POST", "PATCH", "DELETE"}}
        \cup {Route("GET", name, "class", {"varies"}) : name \in {"rules", "workspace-rules"}}

AnalyticsRoutes ==
    {Route("GET", name, "class", {"varies"}) :
        name \in {"member-growth", "booking-revenue", "utilization"}}
        \cup {Route("GET", name, "class", {}) : name \in {"workspace-utilization", "attendance-patterns"}}

\* dashboard.controller.ts
DashboardRoutes ==
    {Route("GET", "stats", "any", {"cached"}), Route("GET", "activity", "any", {"user", "varies"}),
     Route("GET", "growth", "any", {"cached"}), Route("GET", "admin-stats", "admin", {"cached"}),
     Route("GET", "cache/flush", "admin", {})}

\* health.controller.ts
ProbeRoutes == {Route("GET", name, "public", {"unthrottled"}) : name \in {"live", "ready", "health"}}
DeepHealthRoutes == {Route("GET", "deep", "admin", {"unthrottled"})}

AllRoutes ==
    UNION {AccountRoutes, SessionRoutes, BiometricRoutes, TotpRoutes, UserRoutes, PictureRoutes,
           CreateBookingRoutes, BookingRoutes, CancellationPolicyRoutes, ClockRoutes, AttendanceRoutes,
           WorkspaceRoutes, AmenityRoutes, HubRoutes, StellarRoutes, WebhookRoutes, AuditLogRoutes,
           NewsletterRoutes, ContactRoutes, PreviewRoutes, RevenueRoutes, OccupancyRoutes,
           PricingRoutes, AnalyticsRoutes, DashboardRoutes, ProbeRoutes, DeepHealthRoutes}

-----------------------------------------------------------------------------
(* The state of a request *)

VARIABLES
    route,
    request,            \* each request: where it is, what it carries, what it is answered
    hits,               \* per tracker, the requests of this window
    cache,              \* what the cache holds for the route: the argument it was computed for
    audited             \* requests whose effect was written to the audit log

vars == <<route, request, hits, cache, audited>>

Nobody == "nobody"
Roles == {"member", "staff", "admin"}

\* The header Authorization: none, the token of a user of some role, or one that is not valid.
Credential == {"none", "invalid"} \cup Roles
Bearer(credential) == credential # "none"

Tracker == Roles \cup {"ip"}
Empty == "empty"
Idle == [at |-> "idle"]

Init ==
    /\ route \in AllRoutes
    /\ request = [r \in Request |-> Idle]
    /\ hits = [t \in Tracker |-> 0]
    /\ cache = Empty /\ audited = {}

Has(trait) == trait \in route.traits
At(r, at) == request[r].at = at
Go(r, at) == request' = [request EXCEPT ![r].at = at]

\* Whatever is thrown is turned into an answer by the one filter in use.
Refuse(r, status) == request' = [request EXCEPT ![r] = [at |-> "answered", status |-> status]]

\* The filter: an HttpException and an ApiError keep their status, a failed query is a
\* bad request, everything else an internal error.
StatusOf(exception) ==
    CASE exception.kind \in {"http", "api"} -> exception.status
      [] exception.kind = "query" -> 400
      [] OTHER -> 500

-----------------------------------------------------------------------------
(* Middleware: request id, correlation id and version are attached.  The    *)
(* idempotency middleware verifies the token itself, before the guards.     *)

\* A request id or a correlation id is the client's, or a fresh one.
RequestId(header) == IF header = "none" THEN "fresh" ELSE header
CorrelationId(header) == IF header = "none" THEN "fresh" ELSE header

\* The version in the path, or 1.
ApiVersion(path) == IF path = "unversioned" THEN 1 ELSE path

Arrive(r, credential, argument) ==
    /\ At(r, "idle")
    /\ IF Has("key") /\ credential \notin Roles
       THEN Refuse(r, 401)
       ELSE request' = [request EXCEPT ![r] =
                [at |-> "jwt", credential |-> credential, argument |-> argument, user |-> Nobody,
                 id |-> RequestId("none"), correlation |-> CorrelationId("none"),
                 version |-> ApiVersion("unversioned")]]
    /\ UNCHANGED <<route, hits, cache, audited>>

-----------------------------------------------------------------------------
(* Guards *)

\* Mutant of UserOf: the guard lets a request without a token through.
UserOfLenient(credential) == IF credential \in Roles THEN credential ELSE Nobody

\* Who JwtAuthGuard says the request is from; "refused" if it throws.
UserOf(credential) ==
    CASE route.access = "public" -> Nobody
      [] route.access # "public" /\ credential \in Roles -> credential
      [] OTHER -> "refused"

JwtAuthGuard(r) ==
    /\ At(r, "jwt")
    /\ LET user == UserOf(request[r].credential)
       IN  IF user = "refused"
           THEN Refuse(r, 401)
           ELSE request' = [request EXCEPT ![r].user = user, ![r].at = "throttler"]
    /\ UNCHANGED <<route, hits, cache, audited>>

\* getTracker: the user, or else the address.
GetTracker(r) == IF request[r].user = Nobody THEN "ip" ELSE request[r].user
Limit == IF Has("strict") THEN StrictLimit ELSE DefaultLimit

RedisThrottlerGuard(r) ==
    /\ At(r, "throttler")
    /\ IF Has("unthrottled")
       THEN Go(r, "roles") /\ UNCHANGED hits
       ELSE LET t == GetTracker(r)
            IN  IF hits[t] < Limit
                THEN hits' = [hits EXCEPT ![t] = @ + 1] /\ Go(r, "roles")
                ELSE UNCHANGED hits /\ Refuse(r, 429)
    /\ UNCHANGED <<route, cache, audited>>

\* RolesGuard reads the roles of the handler, and not those of the class.
RequiredRoles == IF route.access = "admin" THEN {"admin"} ELSE {}

RolesGuard(r) ==
    /\ At(r, "roles")
    /\ IF RequiredRoles = {} \/ request[r].user \in RequiredRoles
       THEN Go(r, "csrf") ELSE Refuse(r, 403)
    /\ UNCHANGED <<route, hits, cache, audited>>

Mutating == route.verb \in {"POST", "PATCH", "DELETE", "PUT"}

\* What CsrfGuard does not look at.  SkipCsrf marks no handler.
CsrfSkipped(r) == ~Mutating \/ Bearer(request[r].credential)

\* A user comes from a Bearer header only: without one there is no session to have a token.
CsrfGuard(r) ==
    /\ At(r, "csrf")
    /\ IF CsrfSkipped(r) THEN Go(r, "interceptors") ELSE Refuse(r, 403)
    /\ UNCHANGED <<route, hits, cache, audited>>

\* VerifiedUserGuard, which no route uses, would ask for a verified row of the user.
VerifiedUserGuard(r, verified) == request[r].user # Nobody /\ verified

\* ScopeGuard, which no route uses: the strategy drops the scope of a client's token.
ScopeGuard(required, scopes) == required = "none" \/ required \in scopes

-----------------------------------------------------------------------------
(* Interceptors, pipes and the handler *)

Answer(r, argument) ==
    request' = [request EXCEPT ![r] = [at |-> "answered", status |-> 200, asked |-> request[r].argument,
                                       argument |-> argument]]

\* CacheInterceptor answers from the cache, under the one key of the route.
CacheInterceptor(r) ==
    /\ At(r, "interceptors")
    /\ IF Has("cached") /\ cache # Empty THEN Answer(r, cache) ELSE Go(r, "handler")
    /\ UNCHANGED <<route, hits, cache, audited>>

\* The file of an upload, as FileValidationPipe wants it.
FileValidationPipe(present, small, image) == present /\ small /\ image

Exception == {[kind |-> "http", status |-> 400], [kind |-> "api", status |-> 503],
              [kind |-> "query"], [kind |-> "error"]}

\* The pipes or the handler throw.
HandlerThrows(r) ==
    /\ At(r, "handler")
    /\ \E e \in Exception : Refuse(r, StatusOf(e))
    /\ UNCHANGED <<route, hits, cache, audited>>

\* The handler returns: its answer is cached, and the audit row is inserted later, in the
\* background, or not at all.
HandlerReturns(r) ==
    /\ At(r, "handler")
    /\ Answer(r, request[r].argument)
    /\ cache' = IF Has("cached") THEN request[r].argument ELSE cache
    /\ \E written \in BOOLEAN :
          audited' = IF Has("audit") /\ written THEN audited \cup {r} ELSE audited
    /\ UNCHANGED <<route, hits>>

\* The answer is gone, and the client asks again.
Forget(r) ==
    /\ At(r, "answered")
    /\ request' = [request EXCEPT ![r] = Idle]
    /\ audited' = audited \ {r}
    /\ UNCHANGED <<route, hits, cache>>

\* The window of the throttler ends.
WindowEnds(t) ==
    /\ hits[t] > 0
    /\ hits' = [hits EXCEPT ![t] = 0]
    /\ UNCHANGED <<route, request, cache, audited>>

\* The time to live of the cache, in milliseconds.
CacheExpires ==
    /\ cache # Empty /\ cache' = Empty
    /\ UNCHANGED <<route, request, hits, audited>>

Next ==
    \/ CacheExpires
    \/ \E t \in Tracker : WindowEnds(t)
    \/ \E r \in Request :
          \/ \E c \in Credential, a \in Argument : Arrive(r, c, a)
          \/ JwtAuthGuard(r) \/ RedisThrottlerGuard(r) \/ RolesGuard(r) \/ CsrfGuard(r)
          \/ CacheInterceptor(r) \/ HandlerThrows(r) \/ HandlerReturns(r) \/ Forget(r)

Spec == Init /\ [][Next]_vars

-----------------------------------------------------------------------------
(* Properties *)

TypeOK ==
    /\ route \in AllRoutes
    /\ \A r \in Request : request[r].at \in {"idle", "jwt", "throttler", "roles", "csrf",
                                             "interceptors", "handler", "answered"}
    /\ hits \in [Tracker -> 0 .. DefaultLimit + StrictLimit]
    /\ cache \in Argument \cup {Empty} /\ audited \subseteq Request

\* No handler that reads req.user runs without one, on any of the routes.
HandlersHaveUser == \A r \in Request : At(r, "handler") /\ Has("user") => request[r].user # Nobody

\* backend/test/auth.e2e-spec.ts:119 "201 – creates user and returns message": a request to
\* a public route is not forbidden.  CsrfGuard refuses one that changes something and has no
\* Bearer header: login and register too, whose clients have no token yet.
PublicIsPublic ==
    \A r \in Request : At(r, "answered") /\ route.access = "public" => request[r].status # 403

\* users.controller.ts:130 "Get user by ID": an answer is for the parameters of its request.
\* The cache of a route has one key for all of them.
AnswersMatch ==
    \A r \in Request :
        At(r, "answered") /\ request[r].status = 200 /\ Has("varies") =>
            request[r].argument = request[r].asked

\* reports.controller.ts:58 "Admin-only endpoint. Returns 403 for non-admin roles."
ReportsForAdmins == \A r \in Request : At(r, "handler") /\ route.access = "class" => request[r].user # "member"
=============================================================================
