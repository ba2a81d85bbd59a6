----------------------------- MODULE Dashboard ------------------------------
(***************************************************************************)
(* The developer console in one browser tab (apps/dashboard/src/App.tsx,    *)
(* api.ts): the token a developer connects with, the page that is open and  *)
(* what it shows, and the requests that are out.                           *)
(*                                                                         *)
(* A step is what JavaScript runs up to the next await.  Requests are       *)
(* answered in any order or fail; nothing cancels one.  What a page keeps   *)
(* in its state goes when React unmounts it (Disconnect) and when another   *)
(* page is opened, which loads the document anew; a handler that is waiting *)
(* goes on after Disconnect, without effect on what is shown.               *)
(*                                                                         *)
(* Of what is shown only this matters: under which token it was fetched.    *)
(* Which app the features are of, names and values, messages and errors are *)
(* left out.                                                               *)
(***************************************************************************)
EXTENDS Naturals, FiniteSets

CONSTANTS
  Token,    \* developer tokens, one per developer
  Builds,   \* what a build may have as VITE_MODELFAUCET_DEVELOPER_TOKEN
  Request,  \* bound: requests that may be out at the same time
  None

ASSUME DashboardAssumption ==
  /\ None \notin Token
  /\ Builds \subseteq Token \cup {None}

VARIABLES
  build,    \* developerAdminToken
  stored,   \* the token in sessionStorage
  token,    \* activeDeveloperToken
  page,     \* resolvePage of the path
  data,     \* the usage summary in App's state, by the token it was fetched with
  list,     \* the rows in the page's state, likewise
  editing,  \* the row in the form, likewise
  loading,  \* isLoading
  saving,   \* isSaving
  request   \* requests that are out

vars    == <<build, stored, token, page, data, list, editing, loading, saving, request>>
session == <<build, stored, token, page>>

-----------------------------------------------------------------------------
(* The pages and the calls of api.ts                                       *)

AppCalls == [load |-> "fetchDeveloperApps", create |-> "createDeveloperApp",
             update |-> "updateDeveloperApp", remove |-> "archiveDeveloperApp"]
FeatureCalls == [load |-> "fetchDeveloperFeatures", create |-> "createDeveloperFeature",
                 update |-> "updateDeveloperFeature", remove |-> "deleteDeveloperFeature"]
KeyCalls == [load |-> "fetchDeveloperProviderKeys", create |-> "createDeveloperProviderKey",
             remove |-> "deleteDeveloperProviderKey"]

\* The pages with a list and a form.
CallsOf == [apps |-> AppCalls, features |-> FeatureCalls, providerKeys |-> KeyCalls]
UsagePage == {"dashboard", "usage", "revenue"}
Page == UsagePage \cup {"operations"} \cup DOMAIN CallsOf

Loads   == {CallsOf[p].load : p \in DOMAIN CallsOf}
Writes  == UNION {{CallsOf[p][w] : w \in DOMAIN CallsOf[p] \ {"load"}} : p \in DOMAIN CallsOf}
Effects == {"fetchUsageDashboard", "fetchDeveloperOperations"}

Idle == [does |-> "nothing", with |-> None, mounted |-> FALSE, saves |-> FALSE]
Free == {r \in Request : request[r] = Idle}

\* A request, and whether the save button waits for it.
Ask(does, t, saves) == [does |-> does, with |-> t, mounted |-> TRUE, saves |-> saves]

\* What the effects of App and of the page ask for when they are mounted.
Mounted(p) ==
  {"fetchUsageDashboard"} \cup
    IF p = "operations" THEN {"fetchDeveloperOperations"}
    ELSE IF p \in DOMAIN CallsOf THEN {CallsOf[p].load} ELSE {}

Nobody == [r \in Request |-> Idle]

\* The requests that are out when these have been added to the others.
Asked(p, t, others) ==
  LET wants == IF t = None THEN {} ELSE Mounted(p)
      slots == {f \in [wants -> {r \in Request : others[r] = Idle}] :
                  \A x, y \in wants : f[x] = f[y] => x = y} IN
  {[r \in Request |-> IF \E x \in wants : f[x] = r
                      THEN Ask(CHOOSE x \in wants : f[x] = r, t, FALSE)
                      ELSE others[r]] : f \in slots}

\* A page with a list begins by loading it.
Begins(p, t) == t # None /\ p \in DOMAIN CallsOf

Init ==
  /\ build \in Builds /\ page \in Page
  /\ stored = None /\ token = build
  /\ data = None /\ list = None /\ editing = None
  /\ loading = Begins(page, token) /\ saving = FALSE
  /\ request \in Asked(page, token, Nobody)

\* App is rendered for a token, or without one as the form that asks for it.
Render(p, t, others) ==
  /\ request' \in Asked(p, t, others)
  /\ data' = None /\ list' = None /\ editing' = None
  /\ loading' = Begins(p, t) /\ saving' = FALSE

\* A page is opened, or opened again: the token is the build's or the stored one.
Open(p) ==
  /\ page' = p
  /\ token' = IF build # None THEN build ELSE stored
  /\ Render(p, token', Nobody)
  /\ UNCHANGED <<build, stored>>

\* handleDeveloperTokenSubmit
Connect(t) ==
  /\ token = None
  /\ stored' = t /\ token' = t
  /\ Render(page, t, request)
  /\ UNCHANGED <<build, page>>

\* Mutant: the effect of App has no cleanup.
UnmountPage ==
  [r \in Request |-> IF request[r].does = "fetchUsageDashboard" THEN request[r]
                     ELSE [request[r] EXCEPT !.mounted = FALSE]]

\* The cleanup of effects (isMounted), and React's of the page's state.
Unmount == [r \in Request |-> [request[r] EXCEPT !.mounted = FALSE]]

\* clearDeveloperToken
Disconnect ==
  /\ token # None
  /\ stored' = None /\ token' = None
  /\ Render(page, None, Unmount)
  /\ UNCHANGED <<build, page>>

-----------------------------------------------------------------------------
(* Loading                                                                 *)

End(r) == request' = [request EXCEPT ![r] = Idle]

\* Mutant: an answer without items is not looked at.
ItemsUnchecked(q) == "undefined"

\* parseItems, parseProviderKeyItems: an answer without items is an empty list.
Items(q) == q.with

\* An effect's answer: of the usage, which App keeps, or of the operations.
EffectArrives(r) ==
  LET q == request[r] IN
  /\ q.does \in Effects
  /\ data' = IF q.mounted /\ q.does = "fetchUsageDashboard" THEN q.with ELSE data
  /\ list' = IF q.mounted /\ q.does = "fetchDeveloperOperations" THEN q.with ELSE list
  /\ End(r)
  /\ UNCHANGED <<session, editing, loading, saving>>

EffectFails(r) ==
  /\ request[r].does \in Effects
  /\ End(r)
  /\ UNCHANGED <<session, data, list, editing, loading, saving>>

\* loadApps, loadFeatures and loadKeys end, whatever other loads are out; and with them a
\* save that has waited for its load.
LoadEnds(r) ==
  LET q == request[r] IN
  /\ q.does \in Loads
  /\ list' \in IF q.mounted THEN {Items(q), list} ELSE {list}   \* it fails: what was shown stays
  /\ loading' = IF q.mounted THEN FALSE ELSE loading
  /\ saving' = IF q.mounted /\ q.saves THEN FALSE ELSE saving
  /\ End(r)
  /\ UNCHANGED <<session, data, editing>>

\* The load that follows a write, under the token of the write.
Reload(r, load) ==
  /\ request' = [request EXCEPT ![r].does = load]
  /\ loading' = IF request[r].mounted THEN TRUE ELSE loading

\* Another app's features: the earlier load goes on.
LoadFeatures(r) ==
  /\ page = "features" /\ token # None
  /\ r \in Free
  /\ request' = [request EXCEPT ![r] = Ask(FeatureCalls.load, token, FALSE)]
  /\ editing' = None
  /\ loading' = TRUE
  /\ UNCHANGED <<session, data, list, saving>>

-----------------------------------------------------------------------------
(* Writing                                                                 *)

Edit ==
  /\ page \in {"apps", "features"} /\ list # None
  /\ editing' = list
  /\ UNCHANGED <<session, data, list, loading, saving, request>>

CancelEdit ==
  /\ editing # None
  /\ editing' = None
  /\ UNCHANGED <<session, data, list, loading, saving, request>>

\* The form is sent: the button is disabled while an earlier one is being saved.
Submit(r, calls) ==
  /\ token # None /\ ~saving
  /\ r \in Free
  /\ saving' = TRUE
  /\ request' = [request EXCEPT ![r] =
                   Ask(IF editing = None THEN calls.create ELSE calls.update, token, TRUE)]
  /\ UNCHANGED <<session, data, list, editing, loading>>

SubmitApp(r)     == page = "apps" /\ Submit(r, AppCalls)
SubmitFeature(r) == page = "features" /\ Submit(r, FeatureCalls)
SubmitKey(r)     == page = "providerKeys" /\ Submit(r, KeyCalls)

\* A row's button, which no save disables.
Remove(r, calls) ==
  /\ list # None
  /\ r \in Free
  /\ request' = [request EXCEPT ![r] = Ask(calls.remove, token, FALSE)]
  /\ UNCHANGED <<session, data, list, editing, loading, saving>>

ArchiveApp(r)    == page = "apps" /\ Remove(r, AppCalls)
DeleteFeature(r) == page = "features" /\ Remove(r, FeatureCalls)
DisableKey(r)    == page = "providerKeys" /\ Remove(r, KeyCalls)

\* The write is done.  An update closes the form, also if by now it has another row.
WriteArrives(r) ==
  LET q == request[r] IN
  \E p \in DOMAIN CallsOf :
    /\ q.does \in {CallsOf[p][w] : w \in DOMAIN CallsOf[p] \ {"load"}}
    /\ Reload(r, CallsOf[p].load)
    /\ editing' = IF q.mounted /\ "update" \in DOMAIN CallsOf[p] /\ q.does = CallsOf[p].update
                  THEN None ELSE editing
    /\ UNCHANGED <<session, data, list, saving>>

WriteFails(r) ==
  LET q == request[r] IN
  /\ q.does \in Writes
  /\ saving' = IF q.mounted /\ q.saves THEN FALSE ELSE saving
  /\ End(r)
  /\ UNCHANGED <<session, data, list, editing, loading>>

-----------------------------------------------------------------------------
Next ==
  \/ \E p \in Page : Open(p)
  \/ \E t \in Token : Connect(t)
  \/ Disconnect
  \/ \E r \in Request :
       \/ EffectArrives(r) \/ EffectFails(r) \/ LoadEnds(r) \/ LoadFeatures(r)
       \/ SubmitApp(r) \/ SubmitFeature(r) \/ SubmitKey(r)
       \/ ArchiveApp(r) \/ DeleteFeature(r) \/ DisableKey(r)
       \/ WriteArrives(r) \/ WriteFails(r)
  \/ Edit \/ CancelEdit

Spec == Init /\ [][Next]_vars

-----------------------------------------------------------------------------
(* Properties                                                              *)

Whose == Token \cup {None}

TypeOK ==
  /\ build \in Builds /\ page \in Page
  /\ stored \in Whose /\ token \in Whose
  /\ data \in Whose /\ list \in Whose /\ editing \in Whose
  /\ loading \in BOOLEAN /\ saving \in BOOLEAN
  /\ request \in [Request -> [does : Loads \cup Writes \cup Effects \cup {"nothing"},
                              with : Whose, mounted : BOOLEAN, saves : BOOLEAN]]

\* What is shown and what is in the form was fetched with the token that is connected.
ShownIsOwn == {data, list, editing} \subseteq {token, None}

\* A page that says it is loading, or keeps its save button disabled, has a request out
\* that ends this, and never two saves.
BusyIsTrue ==
  /\ loading => \E r \in Request : request[r].mounted /\ request[r].does \in Loads
  /\ saving => \E r \in Request : request[r].mounted /\ request[r].saves
  /\ \A r, s \in {q \in Request : request[q].mounted /\ request[q].saves} : r = s

\* The screen is true, whatever answers come late: from before Disconnect, when the tab
\* may by now be another developer's, or of loads that overlap.  ("It stays in this
\* browser tab session": apps/dashboard/src/App.tsx:1310.)
ScreenIsTrue == ShownIsOwn /\ BusyIsTrue
=============================================================================
