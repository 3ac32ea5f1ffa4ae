------------------------------- MODULE Access -------------------------------
(***************************************************************************)
(* Who gets through api-gateway: the pipeline a request passes before its  *)
(* handler runs (TenantMiddleware, JwtAuthGuard with JwtStrategy,          *)
(* RolesGuard, TenantScopeGuard, TenantInterceptor, GetTenant) and the     *)
(* decorators of the routes.  The pipeline keeps nothing between requests, *)
(* so the module is constant: what it says of a request is a function of   *)
(* the request.                                                            *)
(*                                                                         *)
(* A token is one whose signature and expiry the library has verified.     *)
(***************************************************************************)
CONSTANTS
    Tenants,
    Nobody,    \* a tenant id that is absent or blank; no token
    NotText    \* a tenant id that is no string: a query parameter given twice, a JSON object

ASSUME NobodyAssumption == Nobody \notin Tenants
ASSUME NotTextAssumption == NotText \notin Tenants

Roles    == {"SUPER_ADMIN", "ORG_ADMIN", "INSTRUCTOR", "LEARNER"}
Admins   == {"SUPER_ADMIN", "ORG_ADMIN"}
Teachers == Admins \cup {"INSTRUCTOR"}

-----------------------------------------------------------------------------
(* Routes, by the decorators of their handlers.                            *)

PublicOps  == {"GET /", "GET /internal/downstream-health", "GET /internal/ops/metrics",
               "GET /internal/ops/health", "GET /internal/ops/readiness",
               "GET /internal/ops/alerts"}
PublicAuth == {"POST /auth/register", "POST /auth/login", "POST /auth/refresh",
               "POST /auth/logout", "POST /auth/invites/accept"}
Public     == PublicOps \cup PublicAuth

SuperRoutes == {"GET /billing/ops/summary"}

AnalyticsRoutes ==
    {"GET /analytics/events", "GET /analytics/reports/completions",
     "GET /analytics/reports/engagement", "GET /analytics/reports/event-volume",
     "GET /analytics/dlq", "POST /analytics/dlq/:deadLetterId/requeue",
     "POST /analytics/webhook-endpoint"}

InviteRoutes == {"POST /org/invites"}

CourseRoutes ==
    {"GET /courses", "POST /courses", "GET /courses/:courseId", "PATCH /courses/:courseId",
     "DELETE /courses/:courseId", "GET /courses/:courseId/lessons",
     "POST /courses/:courseId/lessons", "GET /courses/:courseId/lessons/:lessonId",
     "PATCH /courses/:courseId/lessons/:lessonId",
     "DELETE /courses/:courseId/lessons/:lessonId",
     "POST /courses/:courseId/enrollments", "GET /courses/:courseId/enrollments"}

UnenrollRoutes == {"DELETE /enrollments/:enrollmentId"}

LearnerRoutes == {"GET /me/enrollments", "GET /enrollments/:enrollmentId",
                  "PATCH /enrollments/:enrollmentId"}

\* Protected, and without @Roles.
SessionRoutes == {"POST /auth/logout-all", "GET /tenant/auth-echo"}
EchoRoutes    == {"GET /tenant/echo"}

TeacherRoutes == CourseRoutes \cup UnenrollRoutes

Routes == Public \cup SuperRoutes \cup AnalyticsRoutes \cup InviteRoutes \cup TeacherRoutes
            \cup LearnerRoutes \cup SessionRoutes \cup EchoRoutes

\* Handlers that take the tenant with @GetTenant.
TakesTenant(route) == route \notin Public \cup SuperRoutes

\* @Roles(...), {} for none
Required(route) ==
    CASE route \in SuperRoutes                    -> {"SUPER_ADMIN"}
      [] route \in AnalyticsRoutes \cup InviteRoutes -> Admins
      [] route \in TeacherRoutes                  -> Teachers
      [] route \in LearnerRoutes                  -> Roles
      [] OTHER                                    -> {}

-----------------------------------------------------------------------------
(* Requests.                                                               *)

Somebody == Tenants \cup {Nobody}

\* tenant Nobody: a token without tenantId; use "unset": a token without tokenUse
Token == [tenant : Somebody, role : Roles \cup {"unknown"}, use : {"access", "refresh", "unset"}]

\* Where a tenantId may stand besides the header; no route has it as a parameter.
Candidates == {"body", "query"}

\* header: x-tenant-id
Inbound == [route : Routes, header : Somebody, token : Token \cup {Nobody},
            scope : [Candidates -> Somebody \cup {NotText}]]

-----------------------------------------------------------------------------
(* The pipeline.                                                           *)

\* Mutant: the list of optional routes was not extended.
TenantOptionalOps(route) == route \in PublicOps

\* isTenantOptionalRoute, for the routes there are, each with its method and its path as
\* written (HEAD for GET, and a slash at the end, are not told apart)
TenantOptional(route) ==
    route \in {"GET /", "GET /internal/downstream-health", "GET /internal/ops/metrics",
               "GET /internal/ops/health", "GET /internal/ops/readiness",
               "GET /internal/ops/alerts", "POST /auth/login", "POST /auth/register",
               "POST /auth/invites/accept", "POST /auth/refresh", "POST /auth/logout"}

\* TenantMiddleware, and TenantInterceptor again
TenantPresent(q) == TenantOptional(q.route) \/ q.header # Nobody

\* Mutant: the header is not compared with the token.
ValidAnyHeader(q) ==
    /\ q.token # Nobody
    /\ q.token.tenant # Nobody
    /\ q.token.role \in Roles
    /\ q.token.use \in {"access", "unset"}

\* JwtStrategy.validate
Valid(q) ==
    /\ q.token # Nobody
    /\ q.token.tenant # Nobody
    /\ q.token.role \in Roles
    /\ q.token.use \in {"access", "unset"}
    /\ q.header \in {Nobody, q.token.tenant}

\* JwtAuthGuard
Authenticated(q) == q.route \in Public \/ Valid(q)

\* RolesGuard
RoleAllowed(q) == Required(q.route) = {} \/ q.token.role \in Required(q.route)

\* TenantScopeGuard, which looks at strings only
InScope(q) ==
    \/ q.route \in Public
    \/ \A c \in Candidates : q.scope[c] \in Tenants => q.scope[c] = q.token.tenant

Admitted(q) == TenantPresent(q) /\ Authenticated(q) /\ RoleAllowed(q) /\ InScope(q)

\* What the handler passes on as tenantId; Nobody is GetTenant's 400.
HandlerTenant(q) == IF TakesTenant(q.route) THEN q.header ELSE Nobody

-----------------------------------------------------------------------------
(* Properties of a request q.                                              *)

\* The tenant a handler acts for comes from the header, and who acts from the token: the
\* two always agree ("tenant isolation", README.md:28), although a header may be missing
\* for the token's check and a token for the header's.  What else a request calls
\* tenantId does not matter: no handler behind a token reads it.
ActsForOwnTenant(q) ==
    Admitted(q) /\ TakesTenant(q.route)
        => /\ HandlerTenant(q) = q.token.tenant
           /\ HandlerTenant(q) \in Tenants

\* A public route answers a client that has neither token nor tenant, although
\* the decorators and the list of tenant-optional routes are kept in two places;
\* any other route is closed to it.
PublicIsOpen(q) ==
    q.token = Nobody /\ q.header = Nobody => (Admitted(q) <=> q.route \in Public)

\* A learner gets no further than the routes about the learner's own sessions and
\* enrollments.
LearnersConfined(q) ==
    Admitted(q) /\ q.route \notin Public /\ q.token.role = "LEARNER"
        => q.route \in LearnerRoutes \cup SessionRoutes \cup EchoRoutes

=============================================================================
