------------------------------- MODULE Access -------------------------------
(***************************************************************************)
(* Who may do what through the API: the routes of apps/api/src/server.ts,   *)
(* developer tokens (repositories/developerAuthRepository.ts) and the       *)
(* transactions behind the console (developerConsoleRepository.ts and the   *)
(* developer's part of providerKeyRepository.ts).                          *)
(*                                                                         *)
(* A request is let in (capability, credential, scope), carried out by one  *)
(* statement after the other, and answered.  PostgreSQL runs at READ        *)
(* COMMITTED: a statement that writes a row, or inserts one with a unique   *)
(* key, waits for the transaction that has it pending and then looks at     *)
(* what is committed; the row and its audit entry are published by the      *)
(* same commit.  Meanwhile a token expires or is revoked, another request   *)
(* takes the same name, a statement fails, the server is restarted.         *)
(*                                                                         *)
(* A request that is refused before its first statement changes nothing and *)
(* is not followed.  What an operator's, an end user's or an anonymous      *)
(* request does to money, sessions and keys is in Funds, Completion and     *)
(* Admission: here only whether it is let in.  Developers stay active:      *)
(* nothing in the program changes developers.status.                       *)
(***************************************************************************)
EXTENDS Integers, FiniteSets

CONSTANTS
  Developer,
  Oldest,      \* the developer an operator creates apps for
  App, Feature, Key, Token,
  AppOf,       \* the app of a feature; the app a developer's key is stored through
  Holder,      \* the developer a token is created for
  Scopes,      \* the scopes it is created with
  Operator,    \* the operator's token, DEVELOPER_ADMIN_TOKEN
  EndUser,     \* a session token
  Request,     \* requests in progress
  Hosted,      \* features.platformOnly
  Deployments, \* the sets of capabilities a deployment may switch off
  MaxRequests, \* bound: requests that are let in
  None

Resource == Developer \cup App \cup Feature \cup Key \cup Token
Capability == {"stripePayments", "payouts", "providerKeys", "testCredits"}
Scope == {"apps:read", "apps:write", "features:read", "features:write",
          "operations:read", "usage:read", "provider_keys:read", "provider_keys:write",
          "tokens:read", "tokens:write"}

ASSUME AccessAssumption ==
  /\ Oldest \in Developer
  /\ AppOf \in [Feature \cup Key -> App]
  /\ Holder \in [Token -> Developer]
  /\ Scopes \in [Token -> SUBSET Scope]
  /\ Hosted \in BOOLEAN
  /\ Deployments \subseteq SUBSET Capability
  /\ MaxRequests \in Nat
  /\ None \notin Developer \cup Resource \cup Token \cup {Operator, EndUser}
  /\ Operator \notin Token /\ EndUser \notin Token /\ Operator # EndUser
  /\ Developer \cap (App \cup Feature \cup Key \cup Token) = {}
  /\ App \cap (Feature \cup Key \cup Token) = {}
  /\ Feature \cap (Key \cup Token) = {}
  /\ Key \cap Token = {}

VARIABLES
  row,      \* the committed rows; the row of a developer is its wallet
  log,      \* audit_logs: how often a creation and an end of a row are on record
  expired,  \* tokens past their expires_at
  off,      \* the capabilities this deployment switches off
  request,  \* the requests in progress, with what their transactions have pending
  served    \* how many were let in, for the bound

vars == <<row, log, expired, off, request, served>>

Row == [status : {"absent", "active", "disabled", "revoked"},
        owner  : Developer \cup {None},   \* apps.developer_id
        limited : BOOLEAN]                \* an app's origins and spend limits are set
NoRow == [status |-> "absent", owner |-> None, limited |-> FALSE]
ActiveRow == [NoRow EXCEPT !.status = "active"]

Exists(x) == row[x].status # "absent"

\* apps.developer_id, and what is found through it or stored with the row.
Owner(x) ==
  IF x \in App THEN row[x].owner
  ELSE IF x \in Token THEN Holder[x]
  ELSE IF x \in Feature \cup Key THEN row[AppOf[x]].owner
  ELSE x

Idle == [pc |-> "idle", op |-> "none", on |-> None, by |-> None, filter |-> None,
         wallet |-> None, new |-> NoRow, shown |-> {}]

Init ==
  /\ row     = [x \in Resource |-> NoRow]
  /\ log     = [x \in Resource |-> [made |-> 0, ended |-> 0]]
  /\ expired = {}
  /\ off     \in Deployments
  /\ request = [r \in Request |-> Idle]
  /\ served  = 0

-----------------------------------------------------------------------------
(* What each route of server.ts asks for: a capability, a kind of           *)
(* credential, a scope; and what kind of row it is about.                   *)

Asks(capability, credential, scope, about) ==
  [capability |-> capability, credential |-> credential, scope |-> scope, about |-> about]

ForDeveloper(scope, about) == Asks("none", "developer", scope, about)
ForOperator(capability)    == Asks(capability, "operator", "none", {None})
ForEndUser(capability)     == Asks(capability, "session", "none", {None})

PostToken      == ForDeveloper("tokens:write", Token)
GetTokens      == ForDeveloper("tokens:read", {None})
DeleteToken    == ForDeveloper("tokens:write", Token)
GetApps        == ForDeveloper("apps:read", {None})
PostApp        == ForDeveloper("apps:write", App)
PatchApp       == ForDeveloper("apps:write", App)
DeleteApp      == ForDeveloper("apps:write", App)
GetFeatures    == ForDeveloper("features:read", App)
PostFeature    == ForDeveloper("features:write", Feature)
PatchFeature   == ForDeveloper("features:write", Feature)
DeleteAFeature == ForDeveloper("features:write", Feature)
GetOperations  == ForDeveloper("operations:read", {None})
GetUsage       == ForDeveloper("usage:read", App)
PostKey        == Asks("providerKeys", "developer", "provider_keys:write", Key)
GetKeys        == Asks("providerKeys", "developer", "provider_keys:read", App)
DeleteKey      == Asks("providerKeys", "developer", "provider_keys:write", Key)
PostUserKey    == ForEndUser("providerKeys")
GetUserKeys    == ForEndUser("providerKeys")
DeleteUserKey  == ForEndUser("providerKeys")
GetWallet      == ForEndUser("none")
PostCheckout   == ForEndUser("stripePayments")
PostWebhook    == Asks("stripePayments", "signature", "none", {None})
PostSession    == Asks("none", "anyone", "none", {None})
PostTestCredit == ForOperator("testCredits")
PostPayoutRun  == ForOperator("payouts")
PostMarkPaid   == ForOperator("payouts")
PostApprove    == ForOperator("payouts")
Settlement     == ForOperator("none")

Route ==
  [createToken |-> PostToken, listTokens |-> GetTokens, revokeToken |-> DeleteToken,
   listApps |-> GetApps, createApp |-> PostApp, updateApp |-> PatchApp,
   archiveApp |-> DeleteApp, listFeatures |-> GetFeatures, createFeature |-> PostFeature,
   updateFeature |-> PatchFeature, deleteFeature |-> DeleteAFeature,
   operations |-> GetOperations, usage |-> GetUsage, createKey |-> PostKey,
   listKeys |-> GetKeys, disableKey |-> DeleteKey]

\* The routes whose work is modelled elsewhere.
Elsewhere ==
  [createUserKey |-> PostUserKey, listUserKeys |-> GetUserKeys,
   disableUserKey |-> DeleteUserKey, wallet |-> GetWallet, checkout |-> PostCheckout,
   webhook |-> PostWebhook, session |-> PostSession, testCredit |-> PostTestCredit,
   runPayouts |-> PostPayoutRun, markPaid |-> PostMarkPaid, approve |-> PostApprove,
   settlement |-> Settlement]

Ops == DOMAIN Route \cup DOMAIN Elsewhere
Demand(o) == IF o \in DOMAIN Route THEN Route[o] ELSE Elsewhere[o]

-----------------------------------------------------------------------------
(* Letting a request in                                                    *)

\* Mutant: the query forgets the token's status.
UnexpiredOnly(t) == Exists(t) /\ t \notin expired

\* What authenticateToken looks for.
IsLive(t) == row[t].status = "active" /\ t \notin expired

\* requireDeveloperAuth: the operator's token is good for everything, a developer's
\* is looked up.
DeveloperCredential(c) == c = Operator \/ (c \in Token /\ IsLive(c))

\* requireAdminToken, requireSessionToken, the webhook's signature.  A session is
\* looked up by the operation itself.
Credential(kind, c) ==
  CASE kind = "developer" -> DeveloperCredential(c)
    [] kind = "operator"  -> c = Operator
    [] kind = "session"   -> c = EndUser
    [] OTHER              -> c = None

\* requireEnabledFeature, then the credential.
Receive(r, o, x, c) ==
  /\ request[r].pc = "idle"
  /\ served < MaxRequests
  /\ Demand(o).capability \notin off
  /\ x \in Demand(o).about
  /\ Credential(Demand(o).credential, c)
  /\ request' = [request EXCEPT ![r] =
                   [Idle EXCEPT !.pc = IF c \in Token THEN "recognized" ELSE "authorized",
                                !.op = o, !.on = x, !.by = c,
                                !.filter = IF c \in Token THEN Holder[c] ELSE None]]
  /\ served' = served + 1
  /\ UNCHANGED <<row, log, expired, off>>

\* Whether a transaction has the row pending, or an insert of the same unique key.
Free(x) == \A r \in Request : /\ request[r].pc = "written" => request[r].on # x
                              /\ request[r].wallet # x

Leave(r) == request' = [request EXCEPT ![r] = Idle]

\* Mutant: a request without the scope is not answered.
NoteUseSilent(r) ==
  /\ request[r].pc = "recognized"
  /\ Free(request[r].by)
  /\ IF Demand(request[r].op).scope \in Scopes[request[r].by]
     THEN request' = [request EXCEPT ![r].pc = "authorized"]
     ELSE request' = [request EXCEPT ![r].pc = "authorized", ![r].op = "none"]
  /\ UNCHANGED <<row, log, expired, off, served>>

\* last_used_at is written by a statement of its own, which waits for a revocation that
\* is pending; then the scope is checked (403).
NoteUse(r) ==
  /\ request[r].pc = "recognized"
  /\ Free(request[r].by)
  /\ IF Demand(request[r].op).scope \in Scopes[request[r].by]
     THEN request' = [request EXCEPT ![r].pc = "authorized"]
     ELSE Leave(r)
  /\ UNCHANGED <<row, log, expired, off, served>>

-----------------------------------------------------------------------------
(* Writing: one transaction each                                           *)

Doing(r, o) == request[r].pc = "authorized" /\ request[r].op = o

\* Mutant: the developer is not part of the condition.
MayTouchAny(r, d) == TRUE

\* "$n::uuid is null or developer_id = $n"
MayTouch(r, d) == request[r].filter \in {None, d}

\* Mutant: a refusal returns early, without the rollback.
WriteLeaving(r, possible, new) ==
  /\ Free(request[r].on)
  /\ request' = [request EXCEPT ![r].pc = IF possible THEN "written" ELSE "left",
                               ![r].new = new]
  /\ UNCHANGED <<row, log, expired, off, served>>

\* The statement that writes the row, when it can have it: it is pending until the
\* commit; or the row is not there (404) or there already, and all is rolled back.
Write(r, possible, new) ==
  /\ Free(request[r].on)
  /\ IF possible
     THEN request' = [request EXCEPT ![r].pc = "written", ![r].new = new]
     ELSE Leave(r)
  /\ UNCHANGED <<row, log, expired, off, served>>

\* createToken, for a developer that is named or the token's own; the token is random.
CreateToken(r) ==
  LET t == request[r].on IN
  /\ Doing(r, "createToken")
  /\ ~Exists(t)
  /\ Write(r, MayTouch(r, Holder[t]), ActiveRow)

RevokeToken(r) ==
  LET t == request[r].on IN
  /\ Doing(r, "revokeToken")
  /\ Write(r, row[t].status = "active" /\ MayTouch(r, Holder[t]),
              [ActiveRow EXCEPT !.status = "revoked"])

\* getDeveloper
Creator(r) == IF request[r].filter = None THEN Oldest ELSE request[r].filter

\* Mutant: a wallet another request is about to insert is as good as there.
InsertWalletHasty(r) ==
  LET d == Creator(r) IN
  /\ Doing(r, "createApp")
  /\ request' = [request EXCEPT ![r].pc = "walleted",
                               ![r].wallet = IF Exists(d) \/ ~Free(d) THEN None ELSE d]
  /\ UNCHANGED <<row, log, expired, off, served>>

\* createApp: first its developer's wallet, "on conflict do nothing".
InsertWallet(r) ==
  LET d == Creator(r) IN
  /\ Doing(r, "createApp")
  /\ Free(d)
  /\ request' = [request EXCEPT ![r].pc = "walleted",
                               ![r].wallet = IF Exists(d) THEN None ELSE d]
  /\ UNCHANGED <<row, log, expired, off, served>>

\* Mutant: "on conflict do update".
InsertAppUpsert(r) ==
  /\ request[r].pc = "walleted"
  /\ \E st \in {"active", "disabled"}, l \in IF Hosted THEN {TRUE} ELSE BOOLEAN :
       Write(r, TRUE, [status |-> st, owner |-> Creator(r), limited |-> l])

\* Then the app; a hosted deployment wants its limits.
InsertApp(r) ==
  /\ request[r].pc = "walleted"
  /\ \E st \in {"active", "disabled"}, l \in IF Hosted THEN {TRUE} ELSE BOOLEAN :
       Write(r, ~Exists(request[r].on), [status |-> st, owner |-> Creator(r), limited |-> l])

\* updateApp: coalesce() keeps what is not given.
UpdateApp(r) ==
  LET a == request[r].on IN
  /\ Doing(r, "updateApp")
  /\ \E st \in {"active", "disabled"}, l \in BOOLEAN :
       Write(r, Exists(a) /\ MayTouch(r, Owner(a)),
                [status |-> st, owner |-> Owner(a), limited |-> row[a].limited \/ l])

ArchiveApp(r) ==
  LET a == request[r].on IN
  /\ Doing(r, "archiveApp")
  /\ Write(r, Exists(a) /\ MayTouch(r, Owner(a)), [row[a] EXCEPT !.status = "disabled"])

\* getAppContext: an app is never deleted, nor given to another developer, so that this
\* may be read with the statement that follows it.
InContext(r, a) == Exists(a) /\ MayTouch(r, Owner(a))

CreateFeature(r) ==
  LET f == request[r].on IN
  /\ Doing(r, "createFeature")
  /\ Write(r, InContext(r, AppOf[f]) /\ ~Exists(f), ActiveRow)

\* The names, policy and pricing that change are left out.
UpdateFeature(r) ==
  LET f == request[r].on IN
  /\ Doing(r, "updateFeature")
  /\ Write(r, InContext(r, AppOf[f]) /\ Exists(f), row[f])

DeleteFeature(r) ==
  LET f == request[r].on IN
  /\ Doing(r, "deleteFeature")
  /\ Write(r, InContext(r, AppOf[f]) /\ Exists(f), NoRow)

CreateKey(r) ==
  LET k == request[r].on IN
  /\ Doing(r, "createKey")
  /\ ~Exists(k)
  /\ Write(r, InContext(r, AppOf[k]), ActiveRow)

\* Also one that is disabled already.
DisableKey(r) ==
  LET k == request[r].on IN
  /\ Doing(r, "disableKey")
  /\ Write(r, Exists(k) /\ MayTouch(r, Owner(k)), [ActiveRow EXCEPT !.status = "disabled"])

\* What the audit entry of an operation tells.
Makes == {"createToken", "createApp", "createFeature", "createKey"}
Ends  == {"revokeToken", "deleteFeature", "disableKey"}

\* Mutant: the audit entry is written after the commit, if nothing goes wrong.
CommitUnrecorded(r) ==
  LET q == request[r] IN
  /\ q.pc = "written"
  /\ row' = [x \in Resource |-> IF x = q.on THEN q.new
                                ELSE IF x = q.wallet THEN ActiveRow ELSE row[x]]
  /\ log' \in {log, [log EXCEPT ![q.on].made  = @ + (IF q.op \in Makes THEN 1 ELSE 0),
                                ![q.on].ended = @ + (IF q.op \in Ends THEN 1 ELSE 0)]}
  /\ Leave(r)
  /\ UNCHANGED <<expired, off, served>>

\* The audit entry and the commit.  Whether the answer arrives makes no difference here.
Commit(r) ==
  LET q == request[r] IN
  /\ q.pc = "written"
  /\ row' = [x \in Resource |-> IF x = q.on THEN q.new
                                ELSE IF x = q.wallet THEN ActiveRow ELSE row[x]]
  /\ log' = [log EXCEPT ![q.on].made  = @ + (IF q.op \in Makes THEN 1 ELSE 0),
                        ![q.on].ended = @ + (IF q.op \in Ends THEN 1 ELSE 0)]
  /\ Leave(r)
  /\ UNCHANGED <<expired, off, served>>

-----------------------------------------------------------------------------
(* Reading: one statement each, or several that are not one snapshot       *)

Show(r, rows, pc) ==
  /\ request' = [request EXCEPT ![r].pc = pc,
                               ![r].shown = request[r].shown \cup rows]
  /\ UNCHANGED <<row, log, expired, off, served>>

\* The rows of a table the request may see.
Mine(r, table) == {x \in table : Exists(x) /\ MayTouch(r, Owner(x))}

ListTokens(r) == Doing(r, "listTokens") /\ Show(r, Mine(r, Token), "shown")
ListApps(r)   == Doing(r, "listApps") /\ Show(r, Mine(r, App), "shown")
ListFeatures(r) ==
  /\ Doing(r, "listFeatures")
  /\ Show(r, {f \in Mine(r, Feature) : AppOf[f] = request[r].on}, "shown")

\* The keys of the app's developer.
ListKeys(r) ==
  LET a == request[r].on IN
  /\ Doing(r, "listKeys")
  /\ InContext(r, a)
  /\ Show(r, {k \in Key : Exists(k) /\ Owner(k) = Owner(a)}, "shown")

\* getOperations: four queries at once, each its own snapshot, of which these two stand for
\* all (in this order: no property depends on it).
ReadWallets(r) == Doing(r, "operations") /\ Show(r, Mine(r, Developer), "reading")
ReadAudit(r) ==
  /\ request[r].pc = "reading"
  /\ Show(r, {x \in Resource : log[x].made > 0 /\ MayTouch(r, Owner(x))}, "shown")

\* getAppUsage
ReadUsage(r) ==
  LET a == request[r].on IN
  /\ Doing(r, "usage")
  /\ row[a].status = "active" /\ MayTouch(r, Owner(a))
  /\ Show(r, {a}, "shown")

\* The list is sent.
Answer(r) ==
  /\ request[r].pc = "shown"
  /\ Leave(r)
  /\ UNCHANGED <<row, log, expired, off, served>>

\* The work of the other routes: Funds, Completion and Admission.
WorkElsewhere(r) ==
  /\ request[r].pc = "authorized"
  /\ request[r].op \in DOMAIN Elsewhere
  /\ Leave(r)
  /\ UNCHANGED <<row, log, expired, off, served>>

-----------------------------------------------------------------------------
(* What goes wrong                                                         *)

\* A body or parameter that does not parse, a row that is not found, a statement that
\* fails: what is pending is rolled back, and the client of the pool released.
Fail(r) ==
  /\ request[r].pc # "idle"
  /\ Leave(r)
  /\ UNCHANGED <<row, log, expired, off, served>>

Expire(t) ==
  /\ Exists(t) /\ t \notin expired
  /\ expired' = expired \cup {t}
  /\ UNCHANGED <<row, log, off, request, served>>

\* The server goes down with all it is doing, and comes up as the deployment has it.
Restart ==
  /\ off' \in Deployments
  /\ request' = [r \in Request |-> Idle]
  /\ UNCHANGED <<row, log, expired, served>>

-----------------------------------------------------------------------------
Operate(r) ==
  \/ NoteUse(r)
  \/ CreateToken(r) \/ RevokeToken(r)
  \/ InsertWallet(r) \/ InsertApp(r) \/ UpdateApp(r) \/ ArchiveApp(r)
  \/ CreateFeature(r) \/ UpdateFeature(r) \/ DeleteFeature(r)
  \/ CreateKey(r) \/ DisableKey(r)
  \/ Commit(r)
  \/ ListTokens(r) \/ ListApps(r) \/ ListFeatures(r) \/ ListKeys(r)
  \/ ReadWallets(r) \/ ReadAudit(r) \/ ReadUsage(r) \/ Answer(r)
  \/ WorkElsewhere(r)

Next ==
  \/ \E r \in Request :
       \/ \E o \in Ops : \E x \in Demand(o).about, c \in Token \cup {Operator, EndUser, None} :
            Receive(r, o, x, c)
       \/ Operate(r)
       \/ Fail(r)
  \/ \E t \in Token : Expire(t)
  \/ Restart
  \/ served = MaxRequests /\ UNCHANGED vars   \* the bound

Spec == Init /\ [][Next]_vars

\* PostgreSQL grants a lock that is free, and the server goes on with what it was given.
\* A request that finds nothing to do (404) counts as gone on with.
Refused(r) ==
  /\ request[r].pc = "authorized"
  /\ request[r].op \in {"listKeys", "usage", "createToken", "createKey"}
  /\ Fail(r)

FairSpec == Spec /\ \A r \in Request : WF_vars(Operate(r) \/ Refused(r))

-----------------------------------------------------------------------------
(* Properties                                                              *)

RequestType ==
  [pc : {"idle", "recognized", "authorized", "walleted", "written", "reading", "shown"},
   op : Ops \cup {"none"}, on : Resource \cup {None},
   by : Token \cup {Operator, EndUser, None}, filter : Developer \cup {None},
   wallet : Developer \cup {None}, new : Row, shown : SUBSET Resource]

TypeOK ==
  /\ row \in [Resource -> Row]
  /\ log \in [Resource -> [made : Nat, ended : Nat]]
  /\ expired \subseteq Token
  /\ off \in Deployments
  /\ request \in [Request -> RequestType]
  /\ served \in 0 .. MaxRequests

\* The audit log accounts for every row, whatever requests ran at the same time and
\* however they ended: a token has one entry for its creation and one for its revocation
\* if it is revoked; a key has one for its creation, and some for its end if it is
\* disabled; the creations and deletions of a feature are as many, but for the one that
\* exists ("Audit logs must record": docs/SECURITY.md:88).  Each row is written in the
\* transaction of its entry, and a second writer waits for the first.
AuditAccountsForRows ==
  /\ \A x \in App \cup Token \cup Key : log[x].made = IF Exists(x) THEN 1 ELSE 0
  /\ \A t \in Token : log[t].ended = IF row[t].status = "revoked" THEN 1 ELSE 0
  /\ \A k \in Key : log[k].ended > 0 <=> row[k].status = "disabled"
  /\ \A f \in Feature : log[f].made = log[f].ended + IF Exists(f) THEN 1 ELSE 0

\* What a developer's token is shown belongs to that developer, and so does what it has
\* pending ("Developer token requests are filtered to the token owner at both the API
\* and repository query layers": docs/developer-auth.md:12).
TenantIsolation ==
  \A r \in Request :
    LET q == request[r] IN
    q.filter # None =>
      /\ \A x \in q.shown : Owner(x) = q.filter
      /\ q.pc = "written" => (IF q.on \in App THEN q.new.owner ELSE Owner(q.on)) = q.filter

\* An app stays with the developer it was created for, whoever else asks for its name:
\* the console looks an app up by one statement and uses its developer in a later one.
AppsStay == [][\A a \in App : Exists(a) => Exists(a)' /\ Owner(a)' = Owner(a)]_vars

\* An app is fit to be used from its creation on: its developer has a wallet to be paid
\* into, which a completion takes for granted, and in a hosted deployment it has its
\* origins and spend limits, which no update, alone or next to another, takes away
\* ("Hosted Beta apps require origins and app/session spend limits":
\* apps/api/src/server.ts:1234).
AppsAreComplete ==
  \A a \in App : Exists(a) => Exists(Owner(a)) /\ (Hosted => row[a].limited)

\* A token that is revoked stays so, and lets nobody in any more; nor does one that has
\* expired.  A request that was let in before goes on.
RevocationIsFinal ==
  [][\A t \in Token :
       /\ row[t].status = "revoked" => row'[t].status = "revoked"
       /\ (row[t].status = "revoked" \/ t \in expired) =>
            \A r \in Request : request'[r].by = t => request[r].by = t]_vars

\* Every request that is let in is answered, whatever locks it waits for and however its
\* transaction ends: no transaction is left open with a row locked.
EveryRequestIsAnswered ==
  \A r \in Request : request[r].pc # "idle" ~> request[r].pc = "idle"
=============================================================================
