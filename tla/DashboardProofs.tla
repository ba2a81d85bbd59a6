-------------------------- MODULE DashboardProofs ---------------------------
(* The developer console, for every number of developers and of requests    *)
(* that are out.                                                           *)
EXTENDS Dashboard, TLAPS

-----------------------------------------------------------------------------
(* The inductive invariant.  What is shown is the connected developer's      *)
(* because every request whose answer still counts went out with the token  *)
(* that is connected; the flags are true because exactly the request of a   *)
(* save that still counts resets isSaving.                                  *)

\* A request that counts went out with the connected token.
CountsForToken ==
  \A r \in Request : request[r].mounted =>
    /\ request[r].with = token /\ token # None
    /\ request[r].does # "nothing"

\* The save button is disabled while a save that counts is out, or the load after it.
SavesDisable ==
  \A r \in Request : request[r].saves =>
    /\ request[r].does \in Loads \cup Writes
    /\ request[r].mounted => saving

\* Only apps and features are edited.
FormFits == editing # None => page \in {"apps", "features"}

DashboardInv == TypeOK /\ ScreenIsTrue /\ CountsForToken /\ SavesDisable /\ FormFits

RequestType == [does : Loads \cup Writes \cup Effects \cup {"nothing"},
                with : Whose, mounted : BOOLEAN, saves : BOOLEAN]

\* The calls of api.ts are told apart by their names.
LEMMA NamesDiffer ==
  /\ DOMAIN CallsOf = {"apps", "features", "providerKeys"}
  /\ Loads = {"fetchDeveloperApps", "fetchDeveloperFeatures", "fetchDeveloperProviderKeys"}
  /\ Writes = {"createDeveloperApp", "updateDeveloperApp", "archiveDeveloperApp",
               "createDeveloperFeature", "updateDeveloperFeature", "deleteDeveloperFeature",
               "createDeveloperProviderKey", "deleteDeveloperProviderKey"}
<1>1. DOMAIN CallsOf = {"apps", "features", "providerKeys"} BY DEF CallsOf
<1>2. /\ CallsOf["apps"] = AppCalls
      /\ CallsOf["features"] = FeatureCalls
      /\ CallsOf["providerKeys"] = KeyCalls
  BY DEF CallsOf
<1>3. /\ AppCalls.load = "fetchDeveloperApps" /\ AppCalls["create"] = "createDeveloperApp"
      /\ AppCalls["update"] = "updateDeveloperApp" /\ AppCalls["remove"] = "archiveDeveloperApp"
      /\ DOMAIN AppCalls \ {"load"} = {"create", "update", "remove"}
  BY DEF AppCalls
<1>4. /\ FeatureCalls.load = "fetchDeveloperFeatures"
      /\ FeatureCalls["create"] = "createDeveloperFeature"
      /\ FeatureCalls["update"] = "updateDeveloperFeature"
      /\ FeatureCalls["remove"] = "deleteDeveloperFeature"
      /\ DOMAIN FeatureCalls \ {"load"} = {"create", "update", "remove"}
  BY DEF FeatureCalls
<1>5. /\ KeyCalls.load = "fetchDeveloperProviderKeys"
      /\ KeyCalls["create"] = "createDeveloperProviderKey"
      /\ KeyCalls["remove"] = "deleteDeveloperProviderKey"
      /\ DOMAIN KeyCalls \ {"load"} = {"create", "remove"}
  BY DEF KeyCalls
<1>6. Loads = {"fetchDeveloperApps", "fetchDeveloperFeatures", "fetchDeveloperProviderKeys"}
  BY <1>1, <1>2, <1>3, <1>4, <1>5 DEF Loads
<1>7. Writes = {AppCalls[w] : w \in {"create", "update", "remove"}}
               \cup {FeatureCalls[w] : w \in {"create", "update", "remove"}}
               \cup {KeyCalls[w] : w \in {"create", "remove"}}
  BY <1>1, <1>2, <1>3, <1>4, <1>5 DEF Writes
<1>8. QED BY <1>1, <1>3, <1>4, <1>5, <1>6, <1>7

\* What is out after rendering: what was out, and the page's own requests.
LEMMA AskedShape ==
  ASSUME NEW p \in Page, NEW t \in Whose, NEW others \in [Request -> RequestType],
         NEW asked \in Asked(p, t, others)
  PROVE  /\ asked \in [Request -> RequestType]
         /\ \A r \in Request : \/ asked[r] = others[r]
                               \/ /\ t # None /\ asked[r].mounted
                                  /\ asked[r].with = t /\ ~asked[r].saves
                                  /\ asked[r].does \in Loads \cup Effects
         /\ Begins(p, t) => \E r \in Request : asked[r].mounted /\ asked[r].does \in Loads
<1> DEFINE wants == IF t = None THEN {} ELSE Mounted(p)
           free == {r \in Request : others[r] = Idle}
<1>1. PICK f \in [wants -> free] :
        /\ \A x, y \in wants : f[x] = f[y] => x = y
        /\ asked = [r \in Request |-> IF \E x \in wants : f[x] = r
                                      THEN Ask(CHOOSE x \in wants : f[x] = r, t, FALSE)
                                      ELSE others[r]]
  BY DEF Asked
<1>2. wants \subseteq Loads \cup Effects
  BY NamesDiffer DEF Mounted, Effects, Loads
<1>3. ASSUME NEW r \in Request
      PROVE  \/ asked[r] = others[r]
             \/ /\ t # None
                /\ \E x \in wants : f[x] = r /\ asked[r] = Ask(x, t, FALSE)
  <2>1. CASE \E x \in wants : f[x] = r
    <3> DEFINE x == CHOOSE y \in wants : f[y] = r
    <3>1. x \in wants /\ f[x] = r BY <2>1
    <3>2. asked[r] = Ask(x, t, FALSE) BY <1>1, <2>1
    <3>3. QED BY <3>1, <3>2
  <2>2. CASE ~\E x \in wants : f[x] = r BY <1>1, <2>2
  <2>3. QED BY <2>1, <2>2
<1>4. ASSUME NEW x \in wants
      PROVE  /\ Ask(x, t, FALSE) \in RequestType
             /\ Ask(x, t, FALSE).mounted /\ Ask(x, t, FALSE).with = t
             /\ ~Ask(x, t, FALSE).saves /\ Ask(x, t, FALSE).does = x
  BY <1>2, <1>4 DEF Ask, RequestType
<1>5. asked \in [Request -> RequestType]
  <2>1. ASSUME NEW r \in Request PROVE asked[r] \in RequestType
    <3>1. CASE asked[r] = others[r] BY <3>1
    <3>2. CASE \E x \in wants : asked[r] = Ask(x, t, FALSE) BY <1>4, <3>2
    <3>3. QED BY <1>3, <3>1, <3>2
  <2>2. QED BY <1>1, <2>1
<1>6. Begins(p, t) => \E r \in Request : asked[r].mounted /\ asked[r].does \in Loads
  <2>1. SUFFICES ASSUME Begins(p, t)
                 PROVE  \E r \in Request : asked[r].mounted /\ asked[r].does \in Loads
    OBVIOUS
  <2> DEFINE load == CallsOf[p].load
             r == f[load]
  <2>2. load \in Loads /\ load \in wants
    BY <2>1 DEF Begins, Loads, Mounted, Page, UsagePage, CallsOf
  <2>3. r \in Request BY <1>1, <2>2
  <2>4. \E x \in wants : f[x] = r BY <2>2
  <2> DEFINE y == CHOOSE x \in wants : f[x] = r
  <2>5. asked[r] = Ask(y, t, FALSE) /\ y \in wants /\ f[y] = r BY <1>1, <2>3, <2>4
  <2>6. load = y
    BY <1>1, <2>2, <2>5
  <2>7. QED BY <1>4, <2>2, <2>3, <2>5, <2>6
<1>7. ASSUME NEW r \in Request
      PROVE  \/ asked[r] = others[r]
             \/ /\ t # None /\ asked[r].mounted
                /\ asked[r].with = t /\ ~asked[r].saves
                /\ asked[r].does \in Loads \cup Effects
  <2>1. CASE asked[r] = others[r] BY <2>1
  <2>2. CASE t # None /\ \E x \in wants : asked[r] = Ask(x, t, FALSE)
    <3>1. PICK x \in wants : asked[r] = Ask(x, t, FALSE) BY <2>2
    <3>2. QED BY <1>2, <1>4, <2>2, <3>1
  <2>3. QED BY <1>3, <2>1, <2>2
<1>8. QED BY <1>5, <1>6, <1>7

\* Rendering for a token, when no request that is out counts any more, makes it all hold.
LEMMA RenderedHolds ==
  ASSUME NEW p \in Page, NEW t \in Whose, NEW others \in [Request -> RequestType],
         \A r \in Request : /\ ~others[r].mounted
                            /\ others[r].saves => others[r].does \in Loads \cup Writes,
         Render(p, t, others),
         build' \in Builds, stored' \in Whose, page' = p, token' = t
  PROVE  DashboardInv'
<1>1. request' \in Asked(p, t, others) BY DEF Render
<1>2. /\ request' \in [Request -> RequestType]
      /\ \A r \in Request : \/ request'[r] = others[r]
                            \/ /\ t # None /\ request'[r].mounted
                               /\ request'[r].with = t /\ ~request'[r].saves
                               /\ request'[r].does \in Loads \cup Effects
      /\ Begins(p, t) => \E r \in Request : request'[r].mounted /\ request'[r].does \in Loads
  BY <1>1, AskedShape
<1>3. /\ data' = None /\ list' = None /\ editing' = None
      /\ loading' = Begins(p, t) /\ saving' = FALSE
  BY DEF Render
<1>4. TypeOK' BY <1>2, <1>3 DEF TypeOK, RequestType, Whose, Begins
<1>5. "nothing" \notin Loads \cup Effects BY NamesDiffer DEF Effects
<1>6. CountsForToken' BY <1>2, <1>5 DEF CountsForToken
<1>7. SavesDisable' BY <1>2 DEF SavesDisable
<1>8. ScreenIsTrue'
  <2>1. ShownIsOwn' BY <1>3 DEF ShownIsOwn
  <2>2. \A r \in Request : ~(request'[r].mounted /\ request'[r].saves) BY <1>2
  <2>3. BusyIsTrue' BY <1>2, <1>3, <2>2 DEF BusyIsTrue
  <2>4. QED BY <2>1, <2>3 DEF ScreenIsTrue
<1>9. FormFits' BY <1>3 DEF FormFits
<1>10. QED BY <1>4, <1>6, <1>7, <1>8, <1>9 DEF DashboardInv

\* The first document.
LEMMA DashboardInit == Init => DashboardInv
<1> SUFFICES ASSUME Init PROVE DashboardInv OBVIOUS
<1>1. build \in Whose /\ page \in Page /\ token = build
  BY DashboardAssumption DEF Init, Whose
<1>2. Nobody \in [Request -> RequestType]
  BY DEF Nobody, Idle, RequestType, Whose
<1>3. request \in Asked(page, token, Nobody) BY DEF Init
<1>4. /\ request \in [Request -> RequestType]
      /\ \A r \in Request : \/ request[r] = Nobody[r]
                            \/ /\ token # None /\ request[r].mounted
                               /\ request[r].with = token /\ ~request[r].saves
                               /\ request[r].does \in Loads \cup Effects
      /\ Begins(page, token) =>
           \E r \in Request : request[r].mounted /\ request[r].does \in Loads
  BY <1>1, <1>2, <1>3, AskedShape
<1>5. \A r \in Request : ~Nobody[r].mounted /\ ~Nobody[r].saves BY DEF Nobody, Idle
<1>6. TypeOK BY <1>1, <1>4 DEF Init, TypeOK, RequestType, Whose, Begins
<1>7. "nothing" \notin Loads \cup Effects BY NamesDiffer DEF Effects
<1>8. CountsForToken BY <1>4, <1>5, <1>7 DEF CountsForToken
<1>9. SavesDisable BY <1>4, <1>5 DEF SavesDisable
<1>10. ScreenIsTrue
  <2>1. ShownIsOwn BY DEF Init, ShownIsOwn
  <2>2. \A r \in Request : ~(request[r].mounted /\ request[r].saves) BY <1>4, <1>5
  <2>3. BusyIsTrue BY <1>4, <2>2 DEF Init, BusyIsTrue
  <2>4. QED BY <2>1, <2>3 DEF ScreenIsTrue
<1>11. FormFits BY DEF Init, FormFits
<1>12. QED BY <1>6, <1>8, <1>9, <1>10, <1>11 DEF DashboardInv

\* A step that touches one request of the page that is open, or ends one of an earlier one.
LEMMA RequestStep ==
  ASSUME DashboardInv, NEW r \in Request, NEW q \in RequestType,
         request' = [request EXCEPT ![r] = q], UNCHANGED session,
         q.mounted => q.with = token /\ token # None /\ q.does # "nothing",
         q.saves => q.does \in Loads \cup Writes,
         {data', list'} \subseteq {data, list, token, None}, editing' \in {editing, None},
         loading' \in BOOLEAN, saving' \in BOOLEAN,
         loading' => \/ q.mounted /\ q.does \in Loads
                     \/ loading /\ ~(request[r].mounted /\ request[r].does \in Loads),
         q.mounted /\ q.saves => saving' /\ (~saving \/ (request[r].mounted /\ request[r].saves)),
         ~(q.mounted /\ q.saves) =>
           saving' = (saving /\ ~(request[r].mounted /\ request[r].saves))
  PROVE  DashboardInv'
<1> USE DEF DashboardInv
<1>1. UNCHANGED <<build, stored, token, page>> BY DEF session
<1>2. /\ request'[r] = q /\ \A s \in Request : s # r => request'[s] = request[s]
      /\ request \in [Request -> RequestType] /\ request' \in [Request -> RequestType]
  BY DEF TypeOK, RequestType
<1>3. ShownIsOwn' BY <1>1 DEF ScreenIsTrue, ShownIsOwn
<1>4. TypeOK'
  <2>1. {data', list', editing'} \subseteq Whose BY DEF TypeOK, Whose
  <2>2. QED BY <1>1, <1>2, <2>1 DEF TypeOK, RequestType
<1>5. CountsForToken' BY <1>1, <1>2 DEF CountsForToken
<1>6. \A s \in Request : request[s].mounted /\ request[s].saves => saving
  BY DEF SavesDisable
<1>7. \A s, u \in {x \in Request : request[x].mounted /\ request[x].saves} : s = u
  BY DEF ScreenIsTrue, BusyIsTrue
<1>8. SavesDisable'
  <2>1. ASSUME NEW s \in Request, request'[s].saves
        PROVE  /\ request'[s].does \in Loads \cup Writes
               /\ request'[s].mounted => saving'
    <3>1. CASE s = r BY <1>2, <2>1, <3>1
    <3>2. CASE s # r
      <4>1. request'[s] = request[s] BY <1>2, <3>2
      <4>2. request[s].does \in Loads \cup Writes BY <2>1, <4>1 DEF SavesDisable
      <4>3. ASSUME request[s].mounted PROVE saving'
        <5>1. saving /\ ~(request[r].mounted /\ request[r].saves)
          BY <1>6, <1>7, <2>1, <3>2, <4>1, <4>3
        <5>2. QED BY <5>1
      <4>4. QED BY <4>1, <4>2, <4>3
    <3>3. QED BY <3>1, <3>2
  <2>2. QED BY <2>1 DEF SavesDisable
<1>9. BusyIsTrue'
  <2>1. ASSUME loading' PROVE \E s \in Request : request'[s].mounted /\ request'[s].does \in Loads
    <3>1. CASE q.mounted /\ q.does \in Loads BY <1>2, <3>1
    <3>2. CASE loading /\ ~(request[r].mounted /\ request[r].does \in Loads)
      <4>1. PICK s \in Request : request[s].mounted /\ request[s].does \in Loads
        BY <3>2 DEF ScreenIsTrue, BusyIsTrue
      <4>2. QED BY <1>2, <3>2, <4>1
    <3>3. QED BY <2>1, <3>1, <3>2
  <2>2. ASSUME saving' PROVE \E s \in Request : request'[s].mounted /\ request'[s].saves
    <3>1. CASE q.mounted /\ q.saves BY <1>2, <3>1
    <3>2. CASE ~(q.mounted /\ q.saves)
      <4>1. saving /\ ~(request[r].mounted /\ request[r].saves) BY <2>2, <3>2
      <4>2. PICK s \in Request : request[s].mounted /\ request[s].saves
        BY <4>1 DEF ScreenIsTrue, BusyIsTrue
      <4>3. QED BY <1>2, <4>1, <4>2
    <3>3. QED BY <3>1, <3>2
  <2>3. ASSUME NEW s \in Request, NEW u \in Request,
               request'[s].mounted /\ request'[s].saves,
               request'[u].mounted /\ request'[u].saves
        PROVE  s = u
    <3>1. SUFFICES ASSUME s # u PROVE FALSE OBVIOUS
    <3>2. CASE s # r /\ u # r BY <1>2, <1>7, <2>3, <3>1, <3>2
    <3>3. CASE s = r BY <1>2, <1>6, <1>7, <2>3, <3>1, <3>3
    <3>4. CASE u = r BY <1>2, <1>6, <1>7, <2>3, <3>1, <3>4
    <3>5. QED BY <3>2, <3>3, <3>4
  <2>4. QED BY <2>1, <2>2, <2>3 DEF BusyIsTrue
<1>10. FormFits' BY <1>1 DEF FormFits
<1>11. QED BY <1>3, <1>4, <1>5, <1>8, <1>9, <1>10 DEF ScreenIsTrue

\* Every step keeps the invariant.
LEMMA DashboardStep == DashboardInv /\ [Next]_vars => DashboardInv'
<1> SUFFICES ASSUME DashboardInv, [Next]_vars PROVE DashboardInv' OBVIOUS
<1>t. TypeOK /\ CountsForToken /\ SavesDisable /\ ShownIsOwn /\ FormFits
  BY DEF DashboardInv, ScreenIsTrue
<1>r. request \in [Request -> RequestType] BY <1>t DEF TypeOK, RequestType
<1>i. Idle \in RequestType /\ ~Idle.mounted /\ ~Idle.saves
  BY DEF Idle, RequestType, Whose
<1>n. "nothing" \notin Loads \cup Writes \cup Effects /\ Loads \cap Writes = {}
      /\ Effects \cap (Loads \cup Writes) = {}
  BY NamesDiffer DEF Effects
<1>1. ASSUME NEW p \in Page, Open(p) PROVE DashboardInv'
  <2>1. Nobody \in [Request -> RequestType]
        /\ \A r \in Request : ~Nobody[r].mounted /\ ~Nobody[r].saves
    BY <1>i DEF Nobody
  <2>2. token' \in Whose /\ build' \in Builds /\ stored' \in Whose /\ page' = p
    BY <1>1, <1>t, DashboardAssumption DEF Open, TypeOK, Whose
  <2>3. Render(p, token', Nobody) BY <1>1 DEF Open
  <2> DEFINE t == token'
  <2>4. t \in Whose /\ token' = t /\ Render(p, t, Nobody) BY <2>2, <2>3
  <2> HIDE DEF t
  <2>5. QED BY <2>1, <2>2, <2>4, RenderedHolds
<1>2. ASSUME NEW t \in Token, Connect(t) PROVE DashboardInv'
  <2>1. \A r \in Request : /\ ~request[r].mounted
                           /\ request[r].saves => request[r].does \in Loads \cup Writes
    BY <1>2, <1>t DEF Connect, CountsForToken, SavesDisable
  <2>2. t \in Whose /\ page \in Page /\ build' \in Builds
    BY <1>2, <1>t DEF Connect, TypeOK, Whose
  <2>3. stored' = t /\ token' = t /\ page' = page /\ Render(page, t, request)
    BY <1>2 DEF Connect
  <2>4. QED BY <1>r, <2>1, <2>2, <2>3, RenderedHolds
<1>3. CASE Disconnect
  <2>1. Unmount \in [Request -> RequestType] BY <1>r DEF Unmount, RequestType
  <2>2. \A r \in Request : /\ ~Unmount[r].mounted
                           /\ Unmount[r].saves => Unmount[r].does \in Loads \cup Writes
    BY <1>r, <1>t DEF Unmount, SavesDisable, RequestType
  <2>3. None \in Whose /\ page \in Page /\ build' \in Builds
    BY <1>3, <1>t DEF Disconnect, TypeOK, Whose
  <2>4. stored' = None /\ token' = None /\ page' = page /\ Render(page, None, Unmount)
    BY <1>3 DEF Disconnect
  <2>5. QED BY <2>1, <2>2, <2>3, <2>4, RenderedHolds
<1>4. ASSUME NEW r \in Request, EffectArrives(r) PROVE DashboardInv'
  <2>1. ~request[r].saves BY <1>4, <1>n, <1>t DEF EffectArrives, SavesDisable
  <2>2. request[r].mounted => request[r].with = token BY <1>t DEF CountsForToken
  <2>3. request' = [request EXCEPT ![r] = Idle] /\ UNCHANGED <<session, editing, loading, saving>>
    BY <1>4 DEF EffectArrives, End
  <2>4. request[r].does \notin Loads BY <1>4, <1>n DEF EffectArrives
  <2>5. data' \in {data, token} /\ list' \in {list, token} BY <1>4, <2>2 DEF EffectArrives
  <2>6. QED BY <1>i, <1>t, <2>1, <2>3, <2>4, <2>5, RequestStep DEF TypeOK
<1>5. ASSUME NEW r \in Request, EffectFails(r) PROVE DashboardInv'
  <2>1. ~request[r].saves BY <1>5, <1>n, <1>t DEF EffectFails, SavesDisable
  <2>2. /\ request' = [request EXCEPT ![r] = Idle]
        /\ UNCHANGED <<session, data, list, editing, loading, saving>>
    BY <1>5 DEF EffectFails, End
  <2>3. request[r].does \notin Loads BY <1>5, <1>n DEF EffectFails
  <2>4. QED BY <1>i, <1>t, <2>1, <2>2, <2>3, RequestStep DEF TypeOK
<1>6. ASSUME NEW r \in Request, LoadEnds(r) PROVE DashboardInv'
  <2>1. request[r].mounted => request[r].with = token BY <1>t DEF CountsForToken
  <2>2. request' = [request EXCEPT ![r] = Idle] /\ UNCHANGED <<session, data, editing>>
    BY <1>6 DEF LoadEnds, End
  <2>3. list' \in {list, token} BY <1>6, <2>1 DEF LoadEnds, Items
  <2>4. loading' = (loading /\ ~request[r].mounted)
        /\ saving' = (saving /\ ~(request[r].mounted /\ request[r].saves))
    BY <1>6, <1>t DEF LoadEnds, TypeOK
  <2>5. QED BY <1>i, <1>t, <2>2, <2>3, <2>4, RequestStep DEF TypeOK
<1>7. ASSUME NEW r \in Request, LoadFeatures(r) PROVE DashboardInv'
  <2> DEFINE q == Ask(FeatureCalls.load, token, FALSE)
  <2>1. FeatureCalls.load \in Loads BY NamesDiffer DEF FeatureCalls
  <2>2. q \in RequestType /\ q.mounted /\ q.with = token /\ ~q.saves /\ q.does \in Loads
    BY <1>t, <2>1 DEF Ask, RequestType, TypeOK
  <2>3. request[r] = Idle /\ token # None BY <1>7 DEF LoadFeatures, Free
  <2>4. /\ request' = [request EXCEPT ![r] = q] /\ UNCHANGED <<session, data, list, saving>>
        /\ editing' = None /\ loading' = TRUE
    BY <1>7 DEF LoadFeatures
  <2> HIDE DEF q
  <2>5. QED BY <1>i, <1>n, <1>t, <2>2, <2>3, <2>4, RequestStep DEF TypeOK
<1>8. ASSUME NEW r \in Request, NEW calls \in {AppCalls, FeatureCalls, KeyCalls},
             Submit(r, calls), editing # None => calls # KeyCalls
      PROVE  DashboardInv'
  <2> DEFINE q == Ask(IF editing = None THEN calls.create ELSE calls.update, token, TRUE)
  <2>1. (IF editing = None THEN calls.create ELSE calls.update) \in Writes
    BY <1>8, NamesDiffer DEF AppCalls, FeatureCalls, KeyCalls
  <2>2. q \in RequestType /\ q.mounted /\ q.with = token /\ q.saves /\ q.does \in Writes
    BY <1>t, <2>1 DEF Ask, RequestType, TypeOK
  <2>3. request[r] = Idle /\ token # None /\ ~saving BY <1>8 DEF Submit, Free
  <2>4. /\ request' = [request EXCEPT ![r] = q]
        /\ UNCHANGED <<session, data, list, editing, loading>> /\ saving' = TRUE
    BY <1>8 DEF Submit
  <2> HIDE DEF q
  <2>5. /\ q.mounted => q.with = token /\ token # None /\ q.does # "nothing"
        /\ q.saves => q.does \in Loads \cup Writes
    BY <1>n, <2>2, <2>3
  <2>6. /\ ~(request[r].mounted /\ request[r].does \in Loads)
        /\ loading' = loading /\ loading \in BOOLEAN
        /\ saving' = TRUE /\ ~saving /\ q.mounted /\ q.saves
    BY <1>i, <1>t, <2>2, <2>3, <2>4 DEF TypeOK
  <2>7. /\ {data', list'} \subseteq {data, list, token, None} /\ editing' \in {editing, None}
        /\ UNCHANGED session
    BY <2>4
  <2>8. /\ loading' \in BOOLEAN /\ saving' \in BOOLEAN
        /\ loading' => \/ q.mounted /\ q.does \in Loads
                       \/ loading /\ ~(request[r].mounted /\ request[r].does \in Loads)
    BY <2>6
  <2>9. q.mounted /\ q.saves => saving' /\ (~saving \/ (request[r].mounted /\ request[r].saves))
    BY <2>6
  <2>10. ~(q.mounted /\ q.saves) =>
           saving' = (saving /\ ~(request[r].mounted /\ request[r].saves))
    BY <2>6
  <2>11. q \in RequestType /\ request' = [request EXCEPT ![r] = q] BY <2>2, <2>4
  <2>12. QED BY <2>5, <2>7, <2>8, <2>9, <2>10, <2>11, RequestStep
<1>9. ASSUME NEW r \in Request, NEW calls \in {AppCalls, FeatureCalls, KeyCalls}, Remove(r, calls)
      PROVE  DashboardInv'
  <2> DEFINE q == Ask(calls.remove, token, FALSE)
  <2>1. calls.remove \in Writes BY NamesDiffer DEF AppCalls, FeatureCalls, KeyCalls
  <2>2. q \in RequestType /\ q.mounted /\ q.with = token /\ ~q.saves /\ q.does \in Writes
    BY <1>t, <2>1 DEF Ask, RequestType, TypeOK
  <2>3. request[r] = Idle /\ token # None
    BY <1>9, <1>t DEF Remove, Free, ShownIsOwn
  <2>4. /\ request' = [request EXCEPT ![r] = q]
        /\ UNCHANGED <<session, data, list, editing, loading, saving>>
    BY <1>9 DEF Remove
  <2> HIDE DEF q
  <2>5. QED BY <1>i, <1>n, <1>t, <2>2, <2>3, <2>4, RequestStep DEF TypeOK
<1>10. ASSUME NEW r \in Request, WriteArrives(r) PROVE DashboardInv'
  <2>1. PICK p \in DOMAIN CallsOf :
          /\ request[r].does \in {CallsOf[p][w] : w \in DOMAIN CallsOf[p] \ {"load"}}
          /\ Reload(r, CallsOf[p].load)
          /\ editing' \in {None, editing}
          /\ UNCHANGED <<session, data, list, saving>>
    BY <1>10 DEF WriteArrives
  <2> DEFINE q == [request[r] EXCEPT !.does = CallsOf[p].load]
  <2>2. CallsOf[p].load \in Loads /\ request[r].does \in Writes BY <2>1 DEF Loads, Writes
  <2>3. /\ q \in RequestType /\ q.does \in Loads /\ q.with = request[r].with
        /\ q.mounted = request[r].mounted /\ q.saves = request[r].saves
    BY <1>r, <2>2 DEF RequestType
  <2>4. request' = [request EXCEPT ![r] = q]
        /\ loading' = IF request[r].mounted THEN TRUE ELSE loading
    BY <1>r, <2>1 DEF Reload
  <2>5. request[r].mounted => request[r].with = token /\ token # None
    BY <1>t DEF CountsForToken
  <2>6. request[r].mounted /\ request[r].saves => saving BY <1>t DEF SavesDisable
  <2> HIDE DEF q
  <2>7. QED BY <1>n, <1>t, <1>r, <2>1, <2>2, <2>3, <2>4, <2>5, <2>6, RequestStep DEF TypeOK
<1>11. ASSUME NEW r \in Request, WriteFails(r) PROVE DashboardInv'
  <2>1. /\ request' = [request EXCEPT ![r] = Idle]
        /\ UNCHANGED <<session, data, list, editing, loading>>
    BY <1>11 DEF WriteFails, End
  <2>2. saving' = (saving /\ ~(request[r].mounted /\ request[r].saves))
    BY <1>11, <1>t DEF WriteFails, TypeOK
  <2>3. request[r].does \notin Loads BY <1>11, <1>n DEF WriteFails
  <2>4. QED BY <1>i, <1>t, <2>1, <2>2, <2>3, RequestStep DEF TypeOK
<1>12. CASE Edit \/ CancelEdit
  <2>1. /\ UNCHANGED <<session, data, list, loading, saving, request>>
        /\ \/ editing' = None
           \/ editing' = list /\ page \in {"apps", "features"}
    BY <1>12 DEF Edit, CancelEdit
  <2>2. UNCHANGED <<build, stored, token, page>> BY <2>1 DEF session
  <2>3. QED
    BY <2>1, <2>2, <1>t DEF DashboardInv, TypeOK, ScreenIsTrue, ShownIsOwn, BusyIsTrue,
      CountsForToken, SavesDisable, FormFits, Whose
<1>13. CASE UNCHANGED vars
  BY <1>13 DEF vars, DashboardInv, TypeOK, ScreenIsTrue, ShownIsOwn, BusyIsTrue,
    CountsForToken, SavesDisable, FormFits
<1>14. ASSUME page = "providerKeys" PROVE editing = None
  BY <1>14, <1>t DEF FormFits
<1>15. /\ \A r \in Request : SubmitApp(r) \/ SubmitFeature(r) \/ SubmitKey(r) => DashboardInv'
       /\ \A r \in Request : ArchiveApp(r) \/ DeleteFeature(r) \/ DisableKey(r) => DashboardInv'
  <2>1. \A r \in Request : SubmitApp(r) => DashboardInv'
    <3>1. AppCalls # KeyCalls BY DEF AppCalls, KeyCalls
    <3>2. QED BY <1>8, <3>1 DEF SubmitApp
  <2>2. \A r \in Request : SubmitFeature(r) => DashboardInv'
    <3>1. FeatureCalls # KeyCalls BY DEF FeatureCalls, KeyCalls
    <3>2. QED BY <1>8, <3>1 DEF SubmitFeature
  <2>3. \A r \in Request : SubmitKey(r) => DashboardInv' BY <1>8, <1>14 DEF SubmitKey
  <2>4. \A r \in Request : ArchiveApp(r) \/ DeleteFeature(r) \/ DisableKey(r) => DashboardInv'
    BY <1>9 DEF ArchiveApp, DeleteFeature, DisableKey
  <2>5. QED BY <2>1, <2>2, <2>3, <2>4
<1>16. QED
  BY <1>1, <1>2, <1>3, <1>4, <1>5, <1>6, <1>7, <1>10, <1>11, <1>12, <1>13, <1>15
  DEF Next

\* The invariant holds in every state.
LEMMA DashboardAlways == Spec => []DashboardInv
BY DashboardInit, DashboardStep, PTL DEF Spec

-----------------------------------------------------------------------------
(* What is proved                                                          *)

\* The console's state and its requests have their types.
THEOREM DashboardTypeCorrect == Spec => []TypeOK
<1>1. DashboardInv => TypeOK BY DEF DashboardInv
<1>2. QED BY <1>1, DashboardAlways, PTL

\* Nothing is shown that was fetched with another token, and no page says it is busy when
\* no request of its own will end that.
THEOREM ScreenStaysTrue == Spec => []ScreenIsTrue
<1>1. DashboardInv => ScreenIsTrue BY DEF DashboardInv
<1>2. QED BY <1>1, DashboardAlways, PTL
=============================================================================
