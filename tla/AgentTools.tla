------------------------------ MODULE AgentTools ------------------------------
(* An agent at work: the MCP server asks the API once what its credential is, *)
(* registers the tools for it, and sends every call of a tool to the API as   *)
(* one operation, while what the credential is good for changes.              *)
(*                                                                            *)
(* The API authenticates in one transaction, admits the operation, resolves   *)
(* the workspace without a lock, and acts in a transaction that looks again   *)
(* (CheckAccess has its locks).  Of the tools that are not about checks only  *)
(* the operation is modelled.                                                 *)
EXTENDS Integers, FiniteSets, Sequences

CONSTANTS
    Workspaces, Monitors,   \* organizations, and the checks in them
    FirstPlace,             \* where each check is at first
    Bound,                  \* the workspace a scoped credential is made for
    Nowhere,
    MaxTurns                \* bound on what happens beside the agent

ASSUME AgentAssumption ==
    /\ Bound \in Workspaces /\ Nowhere \notin Workspaces
    /\ FirstPlace \in [Monitors -> Workspaces]
    /\ MaxTurns \in Nat

VARIABLES
    credential,   \* [scopes, bound, ended]; of a session: no scopes
    world,        \* [there, members, place, suspended]: the owner's memberships, the checks' workspaces
    agent,        \* the MCP server: [pc, principal, tools, selector]
    call,         \* the call it is in
    turns

agentVars == <<credential, world, agent, call, turns>>

-----------------------------------------------------------------------------
(* The catalog: the operation of each tool *)

ListTools == [list_organizations |-> "me", list_projects |-> "me"]

CheckReads == [list_checks |-> "checks", get_check |-> "check"]

CheckCreations == [create_heartbeat_check |-> "createCheck", create_active_check |-> "createActiveCheck"]

CheckChanges ==
    [pause_check |-> "pauseCheck", resume_check |-> "resumeCheck",
     set_check_channel_enabled |-> "setCheckChannelEnabled", delete_check |-> "deleteCheck"]

CheckUpdates == [update_check |-> "updateCheck"]

ChannelTools ==
    [create_channel |-> "createChannel", delete_channel |-> "deleteChannel",
     resend_email_channel_verification |-> "resendEmailChannelVerification"]

\* By an organization, or by a project.
WorkspaceTools == [list_channels |-> "channels", regenerate_ping_key |-> "regenerateOrganizationPingKey"]

MemberTools ==
    [list_members |-> "organizationMembers", invite_member |-> "inviteMember", revoke_invite |-> "revokeInvite",
     update_member_role |-> "updateMemberRole", remove_member |-> "removeMember"]

OrganizationTools ==
    [create_organization |-> "createOrganization", update_organization |-> "updateOrganization",
     transfer_organization_creatorship |-> "transferOrganizationCreatorship",
     leave_organization |-> "leaveOrganization", delete_organization |-> "deleteOrganization"]

ToolGroups == {ListTools, CheckReads, CheckCreations, CheckChanges, CheckUpdates, ChannelTools, WorkspaceTools,
               MemberTools, OrganizationTools}

tools == [t \in UNION {DOMAIN g : g \in ToolGroups} |-> (CHOOSE g \in ToolGroups : t \in DOMAIN g)[t]]

accountTools ==
    [get_account |-> "me", get_subscription |-> "mySubscription",
     get_organization_check_allowance |-> "organizationCheckAllowance", move_check |-> "moveCheck",
     list_status_pages |-> "statusPages", create_status_page |-> "createStatusPage",
     update_status_page |-> "updateStatusPage", delete_status_page |-> "deleteStatusPage",
     list_invites |-> "organizationInvites", preview_invite |-> "invitePreview", accept_invite |-> "acceptInvite",
     get_telegram_bot |-> "managedTelegramBot", preview_telegram_connection |-> "telegramConnectionPreview",
     connect_telegram_channel |-> "connectTelegramChannel",
     create_billing_checkout |-> "createBillingCheckout", create_billing_portal |-> "createBillingPortal"]

Operation ==
    [t \in DOMAIN tools \cup DOMAIN accountTools |-> IF t \in DOMAIN tools THEN tools[t] ELSE accountTools[t]]

READ_TOOLS == {"list_checks", "get_check"}

WRITE_TOOLS == {"create_heartbeat_check", "create_active_check", "update_check", "pause_check", "resume_check",
                "delete_check", "set_check_channel_enabled"}

-----------------------------------------------------------------------------
(* The API's policy *)

\* Faulty: the routing of notifications is forgotten.
SCOPED_WITHOUT_ROUTING ==
    {"apiCredential", "managedTelegramBot", "checks", "check", "checkBySlug", "checkByOrganizationSlug", "events",
     "nextExpectedAt", "createCheck", "createActiveCheck", "updateCheck", "pauseCheck", "resumeCheck", "deleteCheck"}

SCOPED_TOKEN_OPERATIONS ==
    {"apiCredential", "managedTelegramBot", "checks", "check", "checkBySlug", "checkByOrganizationSlug", "events",
     "nextExpectedAt", "notificationChannelIds", "createCheck", "createActiveCheck", "updateCheck",
     "setCheckChannelEnabled", "pauseCheck", "resumeCheck", "deleteCheck"}

SESSION_ONLY_OPERATIONS ==
    {"telegramConnectionPreview", "connectTelegramChannel", "moveCheck", "organizationCheckAllowance",
     "accountOverview"}

ACCOUNT_TOKEN_OPERATIONS ==
    SCOPED_TOKEN_OPERATIONS \cup SESSION_ONLY_OPERATIONS \cup
    {"me", "projects", "mySubscription", "createOrganization", "updateOrganization", "updateOrganizationSlug",
     "transferOrganizationCreatorship", "deleteOrganization", "regenerateOrganizationPingKey", "regeneratePingKey",
     "channels", "createChannel", "resendEmailChannelVerification", "deleteChannel", "organizationMembers",
     "organizationInvites", "inviteMember", "revokeInvite", "acceptInvite", "updateMemberRole", "removeMember",
     "leaveOrganization", "statusPages", "createStatusPage", "updateStatusPage", "deleteStatusPage",
     "createBillingCheckout", "createBillingPortal"}

UNGUARDED == {"invitePreview"}

IsSession(p) == p.scopes = {}
isAccountToken(p) == p.scopes = {"account:manage"} /\ p.bound = Nowhere
IsLegacyBroad(p) == p.bound = Nowhere /\ p.scopes \subseteq {"read", "write"} /\ ~IsSession(p)
IsProjectScoped(p) == ~IsSession(p) /\ ~isAccountToken(p) /\ ~IsLegacyBroad(p)

\* requireOperationAccess
IsAdmitted(p, op) ==
    \/ op \in UNGUARDED \/ IsSession(p)
    \/ isAccountToken(p) /\ op \in ACCOUNT_TOKEN_OPERATIONS
    \/ IsLegacyBroad(p) /\ op \notin SESSION_ONLY_OPERATIONS
    \/ IsProjectScoped(p) /\ op \in SCOPED_TOKEN_OPERATIONS

Writes(op) == op \notin {"checks", "check"}

\* Faulty: the capability will do.
RefusalOfCapability(p, op, w) ==
    IF (IF Writes(op) THEN "checks:write" ELSE "checks:read") \in p.scopes THEN "none" ELSE "Missing capability"

\* requireCheckAccess: what it objects to, if anything.
CheckRefusal(p, op, w) ==
    IF IsSession(p) \/ isAccountToken(p) THEN "none"
    ELSE IF p.bound \notin {Nowhere, w} THEN "Credential is bound to a different project"
    ELSE IF \/ (IF Writes(op) THEN "checks:write" ELSE "checks:read") \in p.scopes
            \/ "write" \in p.scopes \/ ("read" \in p.scopes /\ ~Writes(op))
      THEN "none"
      ELSE "Missing capability"

IsMine(w) == w \in world.members

\* ApiTokenStrategy: what it objects to.
AuthenticationRefusal ==
    CASE credential.ended = "revoked" -> "Credential revoked"
      [] credential.ended = "expired" -> "Credential expired"
      [] credential.ended = "no" /\ world.suspended ->
            IF IsSession(credential) THEN "Account suspended" ELSE "Credential owner account suspended"
      [] credential.ended = "no" /\ ~world.suspended /\ "checks:read" \in credential.scopes
            /\ credential.bound = Nowhere -> "Credential project no longer exists"
      [] credential.ended = "no" /\ ~world.suspended /\ credential.bound # Nowhere /\ ~IsMine(credential.bound) ->
            "Credential project is no longer accessible"
      [] OTHER -> "none"

-----------------------------------------------------------------------------
(* What the agent is told *)

\* normalizeGqlError: the first pattern the message has.
Patterns ==
    << <<"expired", {"Credential expired"}>>,
       <<"revoked", {"Credential revoked"}>>,
       <<"suspended", {"Credential owner account suspended"}>>,
       <<"workspace gone", {"Credential project no longer exists"}>>,
       <<"access removed", {"Credential project is no longer accessible", "Not a member of this organization",
                            "Organization not found", "Project not found"}>>,
       <<"capability", {"Missing capability"}>>,
       <<"bound elsewhere", {"Credential is bound to a different project"}>> >>

normalizeGqlError(m) ==
    LET has == {i \in DOMAIN Patterns : m \in Patterns[i][2]} IN
    IF has = {} THEN m ELSE Patterns[CHOOSE i \in has : \A j \in has : i <= j][1]

NoCall == [pc |-> "none", tool |-> "none", principal |-> agent.principal, monitor |-> Nowhere, place |-> Nowhere,
           told |-> "none"]

Tells(m) == call' = [NoCall EXCEPT !.pc = "answered", !.told = normalizeGqlError(m)]

-----------------------------------------------------------------------------
(* The server starts *)

AsksForCredential ==
    /\ agent.pc = "starting"
    /\ agent' = IF AuthenticationRefusal = "none" THEN [agent EXCEPT !.pc = "asking", !.principal = credential]
                                                  ELSE [agent EXCEPT !.pc = "failed"]
    /\ UNCHANGED <<credential, world, call, turns>>

\* apiCredential reads the project once more, after the authentication.
selectorFor(p, knowsOrganizations) ==
    IF ~IsProjectScoped(p) THEN "given"
    ELSE IF knowsOrganizations /\ p.bound \in world.there THEN "organization" ELSE "project"

toolsForCredential(p) ==
    IF isAccountToken(p) THEN DOMAIN tools \cup DOMAIN accountTools
    ELSE IF IsSession(p) \/ IsLegacyBroad(p) THEN DOMAIN tools
    ELSE READ_TOOLS \cup WRITE_TOOLS

\* An API that does not know of organizations yet is asked a second time.
Registers ==
    /\ agent.pc = "asking"
    /\ \E knows \in BOOLEAN :
          agent' = [agent EXCEPT !.pc = "ready", !.selector = selectorFor(agent.principal, knows),
                                 !.tools = toolsForCredential(agent.principal)]
    /\ UNCHANGED <<credential, world, call, turns>>

-----------------------------------------------------------------------------
(* A call *)

TakesWorkspace == {"list_checks", "create_heartbeat_check", "create_active_check"}
TakesCheck == (READ_TOOLS \cup WRITE_TOOLS) \ TakesWorkspace

\* Faulty: the workspace the caller names.
AsNamed(w) == w

\* What the caller names is replaced by the selector of a scoped credential.
Selected(w) == IF agent.selector = "given" THEN w ELSE agent.principal.bound

\* readWorkspaceSelector: one workspace is named.
Calls(t, m, w) ==
    /\ agent.pc = "ready" /\ call.pc \in {"none", "answered"}
    /\ m = Nowhere <=> t \notin TakesCheck
    /\ w = Nowhere <=> t \notin TakesWorkspace
    /\ call' = [NoCall EXCEPT !.pc = "sent", !.tool = t, !.monitor = m,
                              !.place = IF t \in TakesWorkspace THEN Selected(w) ELSE Nowhere]
    /\ UNCHANGED <<credential, world, agent, turns>>

op == Operation[call.tool]

\* ApiAuthGuard
Authenticates ==
    /\ call.pc = "sent"
    /\ IF op \notin UNGUARDED /\ AuthenticationRefusal # "none" THEN Tells(AuthenticationRefusal)
       ELSE IF ~IsAdmitted(credential, op) THEN Tells("Credential cannot access this operation")
       ELSE call' = [call EXCEPT !.pc = "admitted", !.principal = credential]
    /\ UNCHANGED <<credential, world, agent, turns>>

WherePlaced == IF call.monitor = Nowhere THEN call.place ELSE world.place[call.monitor]

\* resolveForUser, or projectIdForCheck; other tools are served as they are.
Resolves ==
    /\ call.pc = "admitted"
    /\ IF call.tool \notin READ_TOOLS \cup WRITE_TOOLS THEN Tells("done")
       ELSE IF WherePlaced = Nowhere THEN Tells("Check not found")
       ELSE IF ~IsMine(WherePlaced)
         THEN Tells(IF call.tool \in TakesCheck THEN "Not a member of this organization" ELSE "Workspace not found")
       ELSE IF CheckRefusal(call.principal, op, WherePlaced) # "none"
         THEN Tells(CheckRefusal(call.principal, op, WherePlaced))
       ELSE call' = [call EXCEPT !.pc = "resolved", !.place = WherePlaced]
    /\ UNCHANGED <<credential, world, agent, turns>>

\* lockAndAssertExpectedCheck, createWithinAccountQuota, assertProjectAccess
ActRefusal ==
    IF call.tool \in TakesCheck /\ WherePlaced = Nowhere THEN "Check not found"
    ELSE IF WherePlaced # call.place THEN "Check no longer belongs to the authorized project"
    ELSE IF call.place \notin world.there THEN "Project not found"
    ELSE IF ~IsMine(call.place) THEN "Not a member of this organization"
    ELSE "none"

Acts ==
    /\ call.pc = "resolved"
    /\ IF call.tool # "get_check" /\ ActRefusal # "none"
         THEN Tells(ActRefusal) /\ UNCHANGED world
         ELSE /\ Tells("done")
              /\ world' = IF call.tool = "delete_check" THEN [world EXCEPT !.place[call.monitor] = Nowhere] ELSE world
    /\ UNCHANGED <<credential, agent, turns>>

-----------------------------------------------------------------------------
(* What happens beside it *)

Turn == turns < MaxTurns /\ turns' = turns + 1 /\ agent.pc # "failed" /\ UNCHANGED <<agent, call>>

CredentialEnds(how) ==
    /\ Turn /\ credential.ended = "no" /\ ~IsSession(credential)
    /\ credential' = [credential EXCEPT !.ended = how]
    /\ UNCHANGED world

OwnerIsSuspended == Turn /\ world' = [world EXCEPT !.suspended = ~@] /\ UNCHANGED credential

MembershipChanges(w) ==
    /\ Turn /\ w \in world.there
    /\ world' = [world EXCEPT !.members = IF w \in @ THEN @ \ {w} ELSE @ \cup {w}]
    /\ UNCHANGED credential

\* The project of the credential becomes NULL; its name stays.
WorkspaceIsDeleted(w) ==
    /\ Turn /\ w \in world.there
    /\ world' = [world EXCEPT !.there = @ \ {w}, !.members = @ \ {w},
                              !.place = [m \in Monitors |-> IF @[m] = w THEN Nowhere ELSE @[m]]]
    /\ credential' = [credential EXCEPT !.bound = IF @ = w THEN Nowhere ELSE @]

CheckMoves(m, w) ==
    /\ Turn /\ w \in world.there /\ world.place[m] \notin {w, Nowhere}
    /\ world' = [world EXCEPT !.place[m] = w]
    /\ UNCHANGED credential

-----------------------------------------------------------------------------
Credentials ==
    [scopes : {{}, {"account:manage"}, {"read"}, {"write"}, {"read", "write"}}, bound : {Nowhere}, ended : {"no"}]
    \cup [scopes : {{"checks:read", "checks:write"}}, bound : {Bound}, ended : {"no"}]

AgentInit ==
    /\ credential \in Credentials
    /\ world = [members |-> Workspaces, there |-> Workspaces, place |-> FirstPlace, suspended |-> FALSE]
    /\ agent = [pc |-> "starting", principal |-> credential, tools |-> {}, selector |-> "given"]
    /\ call = NoCall
    /\ turns = 0

AgentNext ==
    \/ AsksForCredential \/ Registers
    \/ \E t \in agent.tools, m \in Monitors \cup {Nowhere}, w \in Workspaces \cup {Nowhere} : Calls(t, m, w)
    \/ Authenticates \/ Resolves \/ Acts
    \/ \E how \in {"revoked", "expired"} : CredentialEnds(how)
    \/ OwnerIsSuspended
    \/ \E w \in Workspaces : MembershipChanges(w) \/ WorkspaceIsDeleted(w)
    \/ \E m \in Monitors, w \in Workspaces : CheckMoves(m, w)

-----------------------------------------------------------------------------
AgentTypeOK ==
    /\ credential.bound \in Workspaces \cup {Nowhere} /\ credential.ended \in {"no", "revoked", "expired"}
    /\ world.members \subseteq world.there /\ world.there \subseteq Workspaces
    /\ world.place \in [Monitors -> world.there \cup {Nowhere}] /\ world.suspended \in BOOLEAN
    /\ agent.pc \in {"starting", "asking", "ready", "failed"} /\ agent.tools \subseteq DOMAIN Operation
    /\ agent.selector \in {"given", "organization", "project"}
    /\ call.pc \in {"none", "sent", "admitted", "resolved", "answered"}
    /\ turns \in 0 .. MaxTurns

IsScopedAgent == IsProjectScoped(agent.principal)

\* Every tool an agent has is one the API admits, and it has all of the
\* catalog's that the API admits for a workspace's credential: the two lists
\* are kept in two packages.
ToolsAreAdmitted ==
    agent.pc = "ready" =>
        /\ \A t \in agent.tools : IsAdmitted(agent.principal, Operation[t])
        /\ IsScopedAgent => agent.tools = {t \in DOMAIN tools : IsAdmitted(agent.principal, tools[t])}

\* What is said of the credential is so.
IsSo(told) ==
    CASE told \in {"revoked", "expired"} -> credential.ended = told
      [] told = "suspended" -> world.suspended
      [] told = "workspace gone" -> Bound \notin world.there
      [] told = "access removed" -> ~IsMine(Bound) \/ (call.monitor # Nowhere /\ ~IsMine(WherePlaced))
      [] told = "bound elsewhere" -> call.monitor # Nowhere /\ WherePlaced # Bound
      [] told \in {"capability", "Credential cannot access this operation", "Workspace not found"} ->
            told = "Workspace not found" /\ ~IsMine(Bound)
      [] OTHER -> TRUE

\* An agent with the credential of a workspace acts in that workspace only,
\* whatever the call names and wherever the check has been moved, and what it
\* is told of its credential when a call fails is so.
IsServedRight ==
    call.pc # "answered" /\ call'.pc = "answered" /\ IsScopedAgent =>
        /\ IsSo(call'.told)
        /\ call'.told = "done" => call.place = Bound

AgentsAreServed == [][ToolsAreAdmitted' /\ IsServedRight]_agentVars
=============================================================================
