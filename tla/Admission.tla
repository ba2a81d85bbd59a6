----------------------------- MODULE Admission -----------------------------
(***************************************************************************)
(* How the gateway admits a completion, statement by statement, while the   *)
(* console changes what it reads: prepareCompletion                         *)
(* (apps/gateway/src/repositories/mockCompletionRepository.ts) against the  *)
(* API's session, app, feature and provider-key transactions                *)
(* (apps/api/src/repositories).                                            *)
(*                                                                         *)
(* Module Completion takes prepareCompletion for one step.  Here it is what *)
(* PostgreSQL runs at READ COMMITTED: each statement sees what is committed *)
(* when it starts, row and advisory locks are taken one after the other and *)
(* are held until the commit.  The session's row, its app and the spend     *)
(* limit are read first, without a lock, and used last.                     *)
(*                                                                         *)
(* Requests have keys of their own, so that the advisory lock of the key is *)
(* never waited for; replays, months, session limits and wallets are in     *)
(* Completion.  The wallet's row is the last one locked, by the statement   *)
(* before the commit.  Developers are active: nothing in the program        *)
(* changes developers.status.                                              *)
(***************************************************************************)
EXTENDS Integers, FiniteSets, Functions

CONSTANTS
  Developer, App, User, Session,
  Chat,        \* completion requests
  FeatureKey,
  Key,         \* provider_credentials
  DeveloperOf, \* the developer of an app
  AppOf,       \* the app of an end user
  UserOf,      \* the end user of a session
  OwnerOf,     \* the end user or developer who stores a key
  Cap,         \* monthly_spend_limit_usd values an operator sets
  Price,       \* the retail price a request reserves, and settles at (its bound)
  Upstream,    \* its upstream cost
  Budget,      \* budget_limit_usd of the developers' keys
  None

ASSUME AdmissionAssumption ==
  /\ IsFiniteSet(Chat)
  /\ DeveloperOf \in [App -> Developer]
  /\ AppOf \in [User -> App]
  /\ UserOf \in [Session -> User]
  /\ OwnerOf \in [Key -> User \cup Developer]
  /\ User \cap Developer = {}
  /\ Cap \subseteq Nat
  /\ {Price, Upstream, Budget} \subseteq Nat
  /\ None \notin Cap \cup FeatureKey \cup Key \cup Session

VARIABLES
  app,       \* apps: status and monthly spend limit
  feature,   \* app_features
  key,       \* status of provider_credentials
  session,   \* virtual_sessions: status and default feature
  chat       \* what each completion request is doing, and the row it has stored

vars == <<app, feature, key, session, chat>>

AppOfSession(s) == AppOf[UserOf[s]]
Lock == [kind : {"app"}, of : App] \cup [kind : {"session"}, of : Session]
          \cup [kind : {"key"}, of : Key]
AppLock(a)     == [kind |-> "app", of |-> a]
SessionLock(s) == [kind |-> "session", of |-> s]
KeyLock(k)     == [kind |-> "key", of |-> k]

\* Nobody holds the lock; a chat holds locks only until its transaction ends.
Free(l) == \A c \in Chat : l \notin chat[c].held

NewChat == [pc |-> "idle", session |-> None, feature |-> None, cap |-> None,
            key |-> None, fallback |-> FALSE, held |-> {}]

Init ==
  /\ app       = [a \in App |-> [status |-> "active", cap |-> None]]
  /\ feature   = {}
  /\ key       = [k \in Key |-> "absent"]
  /\ session   = [s \in Session |-> [status |-> "absent", feature |-> None]]
  /\ chat      = [c \in Chat |-> NewChat]

-----------------------------------------------------------------------------
(* The console: developerConsoleRepository.ts.  A request is made by the    *)
(* app's developer or by the operator; each repository filters by the       *)
(* developer.                                                              *)

\* A developer or operator changes an app's status, its limit, or both.  A limit
\* that is not given is kept, so that none is ever removed.  Archiving is the change
\* to "disabled".
UpdateApp(a) ==
  /\ \E st \in {"active", "disabled"}, l \in Cap \cup {app[a].cap} :
       app' = [app EXCEPT ![a] = [status |-> st, cap |-> l]]
  /\ UNCHANGED <<feature, key, session, chat>>

CreateFeature(a, f) ==
  /\ <<a, f>> \notin feature
  /\ feature' = feature \cup {<<a, f>>}
  /\ UNCHANGED <<app, key, session, chat>>

DeleteFeature(a, f) ==
  /\ <<a, f>> \in feature
  /\ feature' = feature \ {<<a, f>>}
  /\ UNCHANGED <<app, key, session, chat>>

-----------------------------------------------------------------------------
(* Sessions: sessionRepository.ts                                          *)

\* createVirtualSession reads the app, then the feature, then stores the session.  What
\* changes between these could as well change afterwards, so that they are one step.
CreateSession(s, f) ==
  LET a == AppOfSession(s) IN
  /\ session[s].status = "absent"
  /\ app[a].status = "active"
  /\ f = None \/ <<a, f>> \in feature
  /\ session' = [session EXCEPT ![s] = [status |-> "active", feature |-> f]]
  /\ UNCHANGED <<app, feature, key, chat>>

\* A session expires, or is revoked in the table.
EndSession(s) ==
  /\ session[s].status = "active"
  /\ session' = [session EXCEPT ![s].status = "over"]
  /\ UNCHANGED <<app, feature, key, chat>>

\* What loadSession, getSessionContext and getUserWallet look for.
IsUsable(s) ==
  /\ session[s].status = "active"
  /\ app[AppOfSession(s)].status = "active"

-----------------------------------------------------------------------------
(* Provider keys: providerKeyRepository.ts                                 *)

SessionOfUser(u) == {s \in Session : UserOf[s] = u}

\* An end user needs a usable session, a developer an active app.
MayStoreKey(k) ==
  IF OwnerOf[k] \in User
  THEN \E s \in SessionOfUser(OwnerOf[k]) : IsUsable(s)
  ELSE \E a \in App : DeveloperOf[a] = OwnerOf[k] /\ app[a].status = "active"

StoreKey(k) ==
  /\ key[k] = "absent"
  /\ MayStoreKey(k)
  /\ key' = [key EXCEPT ![k] = "active"]
  /\ UNCHANGED <<app, feature, session, chat>>

\* A developer needs nothing but the key, also when its apps are archived.
MayDisableKey(k) ==
  OwnerOf[k] \in User => \E s \in SessionOfUser(OwnerOf[k]) : IsUsable(s)

\* The update waits for a chat that has the key's row locked.
DisableKey(k) ==
  /\ key[k] \in {"active", "disabled"}
  /\ MayDisableKey(k)
  /\ Free(KeyLock(k))
  /\ key' = [key EXCEPT ![k] = "disabled"]
  /\ UNCHANGED <<app, feature, session, chat>>

-----------------------------------------------------------------------------
(* prepareCompletion                                                       *)

AppOfChat(c)  == AppOfSession(chat[c].session)
UserOfChat(c) == UserOf[chat[c].session]

\* loadSession: the limit that is read here is the one the request is held to.
LoadSession(c, s, f) ==
  /\ chat[c].pc = "idle"
  /\ IsUsable(s)
  /\ chat' = [chat EXCEPT ![c] =
                [NewChat EXCEPT !.pc = "loaded", !.session = s,
                                !.feature = IF f # None THEN f ELSE session[s].feature,
                                !.cap = app[AppOfSession(s)].cap]]
  /\ UNCHANGED <<app, feature, key, session>>

\* Mutants: the advisory locks are not taken; or in either order.
NoSpendLocks(c) == <<>>
SpendLocksUnordered(c) ==
  IF chat[c].cap = None THEN <<>>
  ELSE IF chat[c].feature = None
       THEN <<AppLock(AppOfChat(c)), SessionLock(chat[c].session)>>
       ELSE <<SessionLock(chat[c].session), AppLock(AppOfChat(c))>>

\* The advisory locks of an app with limits (it has both limits or none).
SpendLocks(c) ==
  IF chat[c].cap = None THEN <<>>
  ELSE <<AppLock(AppOfChat(c)), SessionLock(chat[c].session)>>

\* The one after those it holds.
NextSpendLock(c) ==
  LET locks == SpendLocks(c) IN
  {locks[i] : i \in {j \in DOMAIN locks :
                       \A h \in DOMAIN locks : h < j <=> locks[h] \in chat[c].held}}

\* It is taken when it is free.
LockSpend(c) ==
  /\ chat[c].pc = "loaded"
  /\ \E l \in NextSpendLock(c) :
       /\ Free(l)
       /\ chat' = [chat EXCEPT ![c].held = @ \cup {l}]
  /\ UNCHANGED <<app, feature, key, session>>

HasSpendLocks(c) == Range(SpendLocks(c)) \subseteq chat[c].held
KnowsFeature(c)  == chat[c].feature = None \/ <<AppOfChat(c), chat[c].feature>> \in feature

\* findActiveByokCredential, findActiveDeveloperCredential: the active keys of an owner.
ActiveKeys(o) == {k \in Key : OwnerOf[k] = o /\ key[k] = "active"}

\* Whose keys the request and the feature's policy make the chat look for: the end
\* user's if they are preferred and there are any, or else the developer's.
KeysToTry(c, byok, developer) ==
  LET users == IF byok THEN ActiveKeys(UserOfChat(c)) ELSE {} IN
  IF users # {} THEN users
  ELSE IF developer THEN ActiveKeys(DeveloperOf[AppOfChat(c)]) ELSE {}

\* Mutant: a key is read without "for update".
KeyLocksNone(k) == {}

\* The row of the chosen key is locked.
KeyLocks(k) == {KeyLock(k)}

\* The feature is looked up (it is of no use afterwards) and the route chosen: a key's,
\* once its row can be locked, or the platform's.
Route(c) ==
  /\ chat[c].pc = "loaded"
  /\ HasSpendLocks(c)
  /\ KnowsFeature(c)
  /\ \E byok, developer \in BOOLEAN :
       LET keys == KeysToTry(c, byok, developer) IN
       \/ /\ keys = {}
          /\ chat' = [chat EXCEPT ![c].pc = "routed", ![c].feature = None]
       \/ \E k \in keys, fb \in BOOLEAN :
            /\ \A l \in KeyLocks(k) : Free(l)
            /\ chat' = [chat EXCEPT ![c].pc = "routed", ![c].feature = None, ![c].key = k,
                                 ![c].fallback = fb, ![c].held = @ \cup KeyLocks(k)]
  /\ UNCHANGED <<app, feature, key, session>>

OnUserKey(c)      == chat[c].key # None /\ OwnerOf[chat[c].key] \in User
OnDeveloperKey(c) == chat[c].key # None /\ OwnerOf[chat[c].key] \in Developer

\* What the request reserves: nothing if it can only run on the end user's own key.
Hold(c) == IF OnUserKey(c) /\ ~chat[c].fallback THEN 0 ELSE Price

\* What a stored request adds to its app's spend: its reservation while that is open
\* or under review, its price once it is settled.
Spend(c) ==
  CASE chat[c].pc \in {"reserved", "review"} -> Hold(c)
    [] chat[c].pc = "settled"                -> IF OnUserKey(c) THEN 0 ELSE Price
    [] chat[c].pc = "rerouted"               -> Price
    [] OTHER                                 -> 0
AppSpend(a) == SumFunction([c \in Chat |-> IF Spend(c) > 0 /\ AppOfChat(c) = a
                                           THEN Spend(c) ELSE 0])

\* What it adds to the use of a developer's key: reservations under review do not count.
InUse(k)  == {c \in Chat : chat[c].key = k /\ chat[c].pc \in {"reserved", "settled"}}
KeyUse(k) == Upstream * Cardinality(InUse(k))

\* assertHostedSpendLimits
WithinCap(c) == chat[c].cap # None => AppSpend(AppOfChat(c)) + Hold(c) <= chat[c].cap

\* assertDeveloperBudget
WithinBudget(c) == OnDeveloperKey(c) => KeyUse(chat[c].key) + Upstream <= Budget

\* The two sums are read.
CheckLimits(c) ==
  /\ chat[c].pc = "routed"
  /\ WithinCap(c)
  /\ WithinBudget(c)
  /\ chat' = [chat EXCEPT ![c].pc = "checked"]
  /\ UNCHANGED <<app, feature, key, session>>

\* Mutant: the locks outlive the transaction.
StoredHolding(c) == [chat EXCEPT ![c].pc = "reserved"]

\* The transaction commits and its locks are free.
StoredRow(c) == [chat EXCEPT ![c].pc = "reserved", ![c].held = {}]

\* The transaction is undone, or the reservation released: nothing of it counts.
Undone(c) == [chat EXCEPT ![c] = [NewChat EXCEPT !.pc = "refused"]]

\* The wallet is locked and covers the price, the row is inserted, and the
\* transaction commits.
Reserve(c) ==
  /\ chat[c].pc = "checked"
  /\ chat' = StoredRow(c)
  /\ UNCHANGED <<app, feature, key, session>>

\* The feature is not there, or the request would pass a limit: everything is undone.
Refuse(c) ==
  /\ \/ chat[c].pc = "loaded" /\ HasSpendLocks(c) /\ ~KnowsFeature(c)
     \/ chat[c].pc = "routed" /\ ~(WithinCap(c) /\ WithinBudget(c))
  /\ chat' = Undone(c)
  /\ UNCHANGED <<app, feature, key, session>>

\* So is it when the wallet does not cover the price, the model is not allowed, or
\* the gateway or its connection dies.
Abort(c) ==
  /\ chat[c].pc \in {"loaded", "routed", "checked"}
  /\ chat' = Undone(c)
  /\ UNCHANGED <<app, feature, key, session>>

\* What becomes of a reservation (module Completion): settled on its route, or on the
\* platform's after a fallback; kept for review; or released.
Finish(c) ==
  /\ chat[c].pc = "reserved"
  /\ \/ chat' \in {[chat EXCEPT ![c].pc = "settled"], [chat EXCEPT ![c].pc = "review"], Undone(c)}
     \/ /\ chat[c].key # None /\ chat[c].fallback
        /\ chat' = [chat EXCEPT ![c].pc = "rerouted"]
  /\ UNCHANGED <<app, feature, key, session>>

Next ==
  \/ \E a \in App : \/ UpdateApp(a)
                    \/ \E f \in FeatureKey : CreateFeature(a, f) \/ DeleteFeature(a, f)
  \/ \E s \in Session : \/ \E f \in FeatureKey \cup {None} : CreateSession(s, f)
                        \/ EndSession(s)
  \/ \E k \in Key : StoreKey(k) \/ DisableKey(k)
  \/ \E c \in Chat : \/ \E s \in Session, f \in FeatureKey \cup {None} : LoadSession(c, s, f)
                     \/ LockSpend(c) \/ Route(c) \/ CheckLimits(c) \/ Reserve(c)
                     \/ Refuse(c) \/ Abort(c) \/ Finish(c)

Spec == Init /\ [][Next]_vars

-----------------------------------------------------------------------------
(* Properties                                                              *)

InTransaction == {"loaded", "routed", "checked"}
Stored        == {"reserved", "settled", "rerouted", "review"}

\* The tables and the requests hold what they can hold; a request that has begun has a
\* session, and holds locks only while its transaction is open.
TypeOK ==
  /\ app \in [App -> [status : {"active", "disabled"}, cap : Cap \cup {None}]]
  /\ feature \subseteq App \X FeatureKey
  /\ key \in [Key -> {"absent", "active", "disabled"}]
  /\ session \in [Session -> [status : {"absent", "active", "over"},
                              feature : FeatureKey \cup {None}]]
  /\ chat \in [Chat -> [pc : {"idle", "refused"} \cup InTransaction \cup Stored,
                        session : Session \cup {None}, feature : FeatureKey \cup {None},
                        cap : Cap \cup {None}, key : Key \cup {None},
                        fallback : BOOLEAN, held : SUBSET Lock]]
  /\ \A c \in Chat : /\ chat[c].pc \in InTransaction \cup Stored => chat[c].session # None
                     /\ chat[c].pc \notin InTransaction => chat[c].held = {}

\* A key a request has chosen stays active until the reservation is stored, whatever the
\* console does meanwhile, and belongs to the request's user or developer: a key that was
\* disabled is never reserved on (findActiveDeveloperCredential's "for update" against
\* disableDeveloperProviderKey's update).
ChosenKeysAreActive ==
  \A c \in Chat :
    chat[c].pc \in {"routed", "checked"} /\ chat[c].key # None =>
      /\ key[chat[c].key] = "active"
      /\ OwnerOf[chat[c].key] \in {UserOfChat(c), DeveloperOf[AppOfChat(c)]}

\* docs/operations.md:107: "The monthly and per-session limits are enforced under
\* PostgreSQL advisory locks".  Requests that run at once and a limit that is raised or
\* lowered between them do not add up to more than a limit one of them was held to.
CapKept ==
  \A a \in App :
    LET spending == {c \in Chat : Spend(c) > 0 /\ AppOfChat(c) = a} IN
    (spending # {} /\ \A c \in spending : chat[c].cap # None) =>
      \E c \in spending : AppSpend(a) <= chat[c].cap

\* Requests of any apps and sessions share a developer's key but not the locks of an app:
\* only the key's row lock makes them check its budget one after the other
\* (assertDeveloperBudget).  Rows under review are outside, as they are for the code.
BudgetKept == \A k \in Key : OwnerOf[k] \in Developer => KeyUse(k) <= Budget

\* The locks a request's next statement may have to wait for.
Wants(c) ==
  IF chat[c].pc # "loaded" THEN {}
  ELSE IF ~HasSpendLocks(c) THEN NextSpendLock(c)
  ELSE {KeyLock(k) : k \in ActiveKeys(UserOfChat(c)) \cup ActiveKeys(DeveloperOf[AppOfChat(c)])}

\* The transactions take their locks in one order and never wait for each other in a
\* circle: of the requests that are being admitted, one need not wait for any lock it may
\* want next, and so each is admitted or refused in the end (prepareCompletion).
SomeRequestCanGoOn ==
  (\E c \in Chat : chat[c].pc \in InTransaction) =>
    \E c \in Chat : chat[c].pc \in InTransaction /\ \A l \in Wants(c) : Free(l)
=============================================================================
