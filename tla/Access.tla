-------------------------------- MODULE Access --------------------------------
(* Who may do what in multi-tenant mode (app/principals.py, app/authz.py,     *)
(* app/access.py).  A request resolves its token, is checked against the      *)
(* tenant and the table of actions, and acts; each of these reads the         *)
(* database again, and other requests and the command line run in between.    *)
(* A token is a number, in the order of minting.                              *)
EXTENDS Naturals, FiniteSets, Sequences

CONSTANTS
  TenantIds,
  NoTenant,     \* what a platform_admin belongs to
  Handlers,     \* requests handled at once
  Bootstraps,   \* the server's route and the command line
  Wanted,       \* the actions callers ask for
  RolesAsked,   \* the roles they want minted
  MaxTokens,    \* bound: tokens ever minted
  MaxAsked      \* bound: requests

VARIABLES
  apiTokens,    \* the api_tokens table
  standing,     \* tenant -> its status
  handlerOf,    \* handler -> the request it has
  boot,         \* bootstrap -> whether it has looked and found no admin
  \* kept for the properties only
  served,       \* requests that were allowed, as they were when they acted
  bootRaced,    \* two bootstraps have looked before either minted
  askedSoFar

accvars == <<apiTokens, standing, handlerOf, boot, served, bootRaced, askedSoFar>>

PA == "platform_admin"
TA == "tenant_admin"
AP == "tenant_approver"
VW == "tenant_viewer"
SV == "tenant_service"

\* Actions that are about no tenant.
PlatformWide == {"tenants.list", "tenants.create", "approvals.sweep_all", "metrics.read"}

\* ACTIONS: the roles that may do each.
Actions ==
  PlatformWide \cup
  {"tenants.suspend", "tenants.resume", "tenants.offboard", "tenants.config.platform_fields",
   "approvals.list", "report.read", "approvals.read_recipient", "approvals.decide",
   "decide.write", "decide.read", "tenants.config.read", "tenants.config.update",
   "secrets.rotate", "tokens.list", "tokens.create", "tokens.revoke", "approvals.sweep",
   "gdpr.export", "gdpr.erase"}

RolesOf ==
  [a \in Actions |->
     CASE a \in PlatformWide \cup {"tenants.suspend", "tenants.resume", "tenants.offboard",
                                   "tenants.config.platform_fields"} -> {PA}
       [] a \in {"approvals.list", "report.read"} -> {PA, TA, AP, VW}
       [] a \in {"approvals.read_recipient", "approvals.decide"} -> {PA, TA, AP}
       [] a \in {"decide.write", "decide.read"} -> {PA, TA, SV}
       [] OTHER -> {PA, TA}]

SEND_CAPABLE_ACTIONS == {"decide.write", "approvals.decide"}
OFFBOARDING_ACTIONS == {"gdpr.export", "tenants.offboard"}
GONE == {"offboarding", "offboarded"}

permissions(role) == {a \in Actions : role \in RolesOf[a]}

ASSUME AccessAssumption ==
  /\ TenantIds # {} /\ NoTenant \notin TenantIds
  /\ Wanted \subseteq Actions /\ RolesAsked \subseteq {PA, TA, AP, VW, SV}

Token(role, tenant, by) == [role |-> role, tenant |-> tenant, by |-> by, revoked |-> FALSE]
ATRest == [at |-> "rest"]

\* A deployment before its bootstrap, and one at work.
ACInit ==
  /\ LET t == CHOOSE t \in TenantIds : TRUE
     IN apiTokens \in {<<>>, <<Token(PA, NoTenant, 0), Token(TA, t, 1)>>}
  /\ standing \in {[t \in TenantIds |-> s] : s \in {"active", "suspended"}}
  /\ handlerOf = [h \in Handlers |-> ATRest] /\ boot = [b \in Bootstraps |-> FALSE]
  /\ served = {} /\ bootRaced = FALSE /\ askedSoFar = 0

-----------------------------------------------------------------------------
\* has_platform_admin_token, revoked or not.
Bootstrapped == \E k \in DOMAIN apiTokens : apiTokens[k].role = PA

BootLooks(b) ==
  /\ ~boot[b] /\ ~Bootstrapped /\ boot' = [boot EXCEPT ![b] = TRUE]
  /\ bootRaced' = (bootRaced \/ \E c \in Bootstraps : boot[c])
  /\ UNCHANGED <<apiTokens, standing, handlerOf, served, askedSoFar>>

BootMints(b) ==
  /\ boot[b] /\ boot' = [boot EXCEPT ![b] = FALSE]
  /\ Len(apiTokens) < MaxTokens /\ apiTokens' = Append(apiTokens, Token(PA, NoTenant, 0))
  /\ UNCHANGED <<standing, handlerOf, served, bootRaced, askedSoFar>>

-----------------------------------------------------------------------------
HandlerHas(h, request) == handlerOf' = [handlerOf EXCEPT ![h] = request]

\* A caller presents a token and names an action, a tenant and, for one of the
\* token routes, a role or another token.
Ask(k, action, named, role, other) ==
  LET idle == {h \in Handlers : handlerOf[h] = ATRest}
      h == CHOOSE g \in idle : TRUE
  IN
  /\ idle # {} /\ askedSoFar < MaxAsked /\ askedSoFar' = askedSoFar + 1
  /\ HandlerHas(h, [at |-> "token", token |-> k, action |-> action, named |-> named, role |-> role,
             other |-> other,
             dead |-> apiTokens[k].revoked,
             since |-> LET t == IF named = NoTenant THEN apiTokens[k].tenant ELSE named
                       IN IF t = NoTenant THEN "active" ELSE standing[t]])
  /\ UNCHANGED <<apiTokens, standing, boot, served, bootRaced>>

Refuse(h) == HandlerHas(h, ATRest)
TokenOf(h) == apiTokens[handlerOf[h].token]

\* resolve: the token's row.
ReadToken(h) ==
  /\ handlerOf[h].at = "token"
  /\ IF TokenOf(h).revoked THEN Refuse(h)
     ELSE HandlerHas(h, [handlerOf[h] EXCEPT !.at = IF TokenOf(h).tenant = NoTenant THEN "check" ELSE "tenant"])
  /\ UNCHANGED <<apiTokens, standing, boot, served, bootRaced, askedSoFar>>

\* resolve: the row of the token's tenant.
ReadTenant(h) ==
  /\ handlerOf[h].at = "tenant"
  /\ IF standing[TokenOf(h).tenant] \in GONE THEN Refuse(h)
     ELSE HandlerHas(h, [handlerOf[h] EXCEPT !.at = "check"])
  /\ UNCHANGED <<apiTokens, standing, boot, served, bootRaced, askedSoFar>>

\* The tenant of the resource: a platform_admin names it, a tenant's own token
\* may name no other.
Resource(h) ==
  LET r == handlerOf[h]
      scoped == r.action \notin PlatformWide
  IN CASE scoped /\ TokenOf(h).role = PA   -> r.named
       [] scoped /\ TokenOf(h).role # PA   -> TokenOf(h).tenant
       [] ~scoped /\ TokenOf(h).role = PA  -> NoTenant
       [] ~scoped /\ TokenOf(h).role # PA  -> r.named

\* check up to authorize.
authorize(h) ==
  LET r == handlerOf[h]
      own == TokenOf(h).tenant
  IN /\ TokenOf(h).role \in RolesOf[r.action]
     /\ r.action \notin PlatformWide => Resource(h) # NoTenant
     /\ TokenOf(h).role # PA => r.named \in {NoTenant, own}

\* A check that knows tenants that are gone, not suspended ones.
StandingAllowsSuspended(action, status) ==
  status \in GONE => status = "offboarding" /\ action \in OFFBOARDING_ACTIONS

\* check: then the row of that tenant.
StandingAllows(action, status) ==
  /\ status \in GONE => status = "offboarding" /\ action \in OFFBOARDING_ACTIONS
  /\ status = "suspended" => action \notin SEND_CAPABLE_ACTIONS

Check(h) ==
  /\ handlerOf[h].at = "check"
  /\ IF authorize(h) /\ (Resource(h) # NoTenant =>
                           StandingAllows(handlerOf[h].action, standing[Resource(h)]))
     THEN HandlerHas(h, [handlerOf[h] EXCEPT !.at = "act", !.named = Resource(h)])
     ELSE Refuse(h)
  /\ UNCHANGED <<apiTokens, standing, boot, served, bootRaced, askedSoFar>>

\* What the route then does, after it has awaited the body.
Serve(h) ==
  served' = served \cup {[token |-> handlerOf[h].token, action |-> handlerOf[h].action,
                          tenant |-> handlerOf[h].named, dead |-> handlerOf[h].dead,
                          since |-> handlerOf[h].since]}

\* can_grant, from the table.
can_grant(granter, target) ==
  IF target = PA THEN granter = PA ELSE permissions(target) \subseteq permissions(granter)

\* grant up to the insert.
MayMint(h) ==
  LET r == handlerOf[h] IN
  /\ can_grant(TokenOf(h).role, r.role)
  /\ r.role # PA   \* the route always names a tenant, and a platform_admin has none
  /\ TokenOf(h).role = PA \/ TokenOf(h).tenant = r.named
  /\ standing[r.named] \notin GONE

ActOnToken(h) ==
  /\ handlerOf[h].at = "act" /\ handlerOf[h].action = "tokens.create" /\ Serve(h)
  /\ IF MayMint(h) THEN HandlerHas(h, [handlerOf[h] EXCEPT !.at = "insert"]) ELSE Refuse(h)
  /\ UNCHANGED <<apiTokens, standing, boot, bootRaced, askedSoFar>>

InsertToken(h) ==
  /\ handlerOf[h].at = "insert" /\ Len(apiTokens) < MaxTokens
  /\ apiTokens' = Append(apiTokens, Token(handlerOf[h].role, handlerOf[h].named, handlerOf[h].token))
  /\ Refuse(h)
  /\ UNCHANGED <<standing, boot, served, bootRaced, askedSoFar>>

\* tokens_revoke and revoke: a token of the tenant in the path.
ActRevoke(h) ==
  LET r == handlerOf[h] IN
  /\ r.at = "act" /\ r.action = "tokens.revoke" /\ Serve(h) /\ Refuse(h)
  /\ apiTokens' = IF r.other \in DOMAIN apiTokens /\ apiTokens[r.other].tenant = r.named
                  THEN [apiTokens EXCEPT ![r.other].revoked = TRUE] ELSE apiTokens
  /\ UNCHANGED <<standing, boot, bootRaced, askedSoFar>>

\* suspend, resume and the two halves of offboard read the status, and write the
\* next one in a later statement.
NextStanding(action, status) ==
  CASE action = "tenants.suspend" /\ status = "active"              -> "suspended"
    [] action = "tenants.resume" /\ status = "suspended"            -> "active"
    [] action = "tenants.offboard" /\ status = "offboarding"        -> "offboarded"
    [] action = "tenants.offboard" /\ status \in {"active", "suspended"} -> "offboarding"
    [] OTHER -> "refused"

ActOnStatus(h) ==
  LET r == handlerOf[h]
      to == NextStanding(r.action, standing[r.named])
  IN /\ r.at = "act" /\ Serve(h)
     /\ r.action \in {"tenants.suspend", "tenants.resume", "tenants.offboard"}
     /\ IF to = "refused" THEN Refuse(h)
        ELSE HandlerHas(h, [at |-> "write", named |-> r.named, to |-> to])
  /\ UNCHANGED <<apiTokens, standing, boot, bootRaced, askedSoFar>>

\* What a request found suspended or gone on its arrival may no longer be so.
WriteStatus(h) ==
  LET r == handlerOf[h] IN
  /\ r.at = "write" /\ standing' = [standing EXCEPT ![r.named] = r.to]
  /\ handlerOf' = [g \in Handlers |->
       IF g = h THEN IF r.to = "offboarding" THEN [r EXCEPT !.at = "revoke"] ELSE ATRest
       ELSE IF "since" \in DOMAIN handlerOf[g] THEN [handlerOf[g] EXCEPT !.since = "moved"]
       ELSE handlerOf[g]]
  /\ UNCHANGED <<apiTokens, boot, served, bootRaced, askedSoFar>>

\* revoke_tenant_tokens when the offboarding begins.
RevokeAll(h) ==
  /\ handlerOf[h].at = "revoke" /\ Refuse(h)
  /\ apiTokens' = [k \in DOMAIN apiTokens |->
       [apiTokens[k] EXCEPT !.revoked = @ \/ apiTokens[k].tenant = handlerOf[h].named]]
  /\ UNCHANGED <<standing, boot, served, bootRaced, askedSoFar>>

ActOtherwise(h) ==
  /\ handlerOf[h].at = "act" /\ Serve(h) /\ Refuse(h)
  /\ handlerOf[h].action \notin {"tokens.create", "tokens.revoke", "tenants.suspend",
                                 "tenants.resume", "tenants.offboard"}
  /\ UNCHANGED <<apiTokens, standing, boot, bootRaced, askedSoFar>>

ACNext ==
  \/ \E b \in Bootstraps : BootLooks(b) \/ BootMints(b)
  \/ \E k \in DOMAIN apiTokens, a \in Wanted, t \in TenantIds \cup {NoTenant} :
       \/ a \notin {"tokens.create", "tokens.revoke"} /\ Ask(k, a, t, PA, 0)
       \/ a = "tokens.create" /\ t # NoTenant /\ \E role \in RolesAsked : Ask(k, a, t, role, 0)
       \/ a = "tokens.revoke" /\ t # NoTenant /\ \E o \in DOMAIN apiTokens : Ask(k, a, t, PA, o)
  \/ \E h \in Handlers :
       \/ ReadToken(h) \/ ReadTenant(h) \/ Check(h) \/ ActOnToken(h) \/ InsertToken(h)
       \/ ActRevoke(h) \/ ActOnStatus(h) \/ WriteStatus(h) \/ RevokeAll(h) \/ ActOtherwise(h)

ACSpec == ACInit /\ [][ACNext]_accvars

-----------------------------------------------------------------------------
\* A token carries no right that the token it was minted with lacks, and leads
\* into no other tenant; a bootstrap mints one admin, unless two have looked at once.
RightsOnlyShrink ==
  /\ \A k \in DOMAIN apiTokens :
       LET t == apiTokens[k] IN
       IF t.by = 0 THEN t.role = PA
       ELSE /\ permissions(t.role) \subseteq permissions(apiTokens[t.by].role)
            /\ apiTokens[t.by].tenant \in {NoTenant, t.tenant}
  /\ bootRaced \/ Cardinality({k \in DOMAIN apiTokens : apiTokens[k].by = 0}) <= 1

\* Whoever was served had the right, in its own tenant, by a token that was good
\* when the request arrived; and no tenant that was suspended or gone ever since
\* was mailed for or answered, unless to be exported or finished.
ServedHadTheRight ==
  \A s \in served :
    LET t == apiTokens[s.token] IN
    /\ ~s.dead /\ t.role \in RolesOf[s.action]
    /\ t.tenant \in {NoTenant, s.tenant}
    /\ s.since = "suspended" => s.action \notin SEND_CAPABLE_ACTIONS
    /\ s.since \in GONE /\ s.tenant # NoTenant => t.role = PA /\ s.action \in OFFBOARDING_ACTIONS

\* Nobody gains a right by what happens between the checks of a request and what
\* it does (principals.py:74-131, access.py:63-106).
AccessHolds == RightsOnlyShrink /\ ServedHadTheRight
===============================================================================
