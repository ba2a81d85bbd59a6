---------------------------- MODULE AccessProofs ----------------------------
(* Access to the API, for every number of developers, rows, tokens and      *)
(* requests at a time.                                                     *)
EXTENDS Access, TLAPS

-----------------------------------------------------------------------------
(* The inductive invariant.  A pending write was possible when it was made,  *)
(* and stays so: no other request has the same row pending, rows that others *)
(* rely on (apps, wallets) are never taken away, and an app keeps its       *)
(* developer.                                                              *)

CreatorOf(q) == IF q.filter = None THEN Oldest ELSE q.filter

\* What a request has pending can be committed.
PendingFits(q) ==
  /\ q.filter # None => (IF q.on \in App THEN q.new.owner ELSE Owner(q.on)) = q.filter
  /\ \/ /\ q.op = "createToken" /\ q.on \in Token
        /\ ~Exists(q.on) /\ q.new.status = "active"
     \/ /\ q.op = "revokeToken" /\ q.on \in Token
        /\ row[q.on].status = "active" /\ q.new.status = "revoked"
     \/ /\ q.op = "createApp" /\ q.on \in App
        /\ ~Exists(q.on) /\ q.new.status # "absent"
        /\ q.new.owner = CreatorOf(q) /\ (Hosted => q.new.limited)
        /\ Exists(CreatorOf(q)) \/ q.wallet = CreatorOf(q)
     \/ /\ q.op \in {"updateApp", "archiveApp"} /\ q.on \in App
        /\ Exists(q.on) /\ q.new.status # "absent"
        /\ q.new.owner = row[q.on].owner /\ (Hosted => q.new.limited)
     \/ /\ q.op = "createFeature" /\ q.on \in Feature
        /\ ~Exists(q.on) /\ q.new.status = "active" /\ Exists(AppOf[q.on])
     \/ /\ q.op = "updateFeature" /\ q.on \in Feature
        /\ Exists(q.on) /\ q.new.status # "absent"
     \/ /\ q.op = "deleteFeature" /\ q.on \in Feature
        /\ Exists(q.on) /\ q.new.status = "absent"
     \/ /\ q.op = "createKey" /\ q.on \in Key
        /\ ~Exists(q.on) /\ q.new.status = "active" /\ Exists(AppOf[q.on])
     \/ /\ q.op = "disableKey" /\ q.on \in Key
        /\ Exists(q.on) /\ q.new.status = "disabled"

\* An app is there, and so is the app of a feature or a key: its owner is settled.
Settled(x) == /\ x \in App => Exists(x)
              /\ x \in Feature \cup Key => Exists(AppOf[x])

\* What is known of a request.
Fits(q) ==
  /\ q.op \in Ops => q.on \in Demand(q.op).about
  /\ q.pc = "walleted" => /\ q.op = "createApp"
                          /\ Exists(CreatorOf(q)) \/ q.wallet = CreatorOf(q)
  /\ q.pc = "written" => PendingFits(q)
  /\ q.filter # None => \A x \in q.shown : Owner(x) = q.filter /\ Settled(x)

\* Two requests never have the same row pending.
OneWriter ==
  \A r, s \in Request :
    request[r].pc = "written" /\ request[s].pc = "written" /\ r # s =>
      request[r].on # request[s].on

\* Every app has an owner; a feature or key is of an app that is there.
RowsFit ==
  /\ \A a \in App : Exists(a) => row[a].owner \in Developer
  /\ \A x \in Feature \cup Key : Exists(x) \/ log[x].made > 0 => Exists(AppOf[x])

AccessInv ==
  /\ TypeOK
  /\ AuditAccountsForRows
  /\ AppsAreComplete
  /\ RowsFit
  /\ \A r \in Request : Fits(request[r])
  /\ OneWriter

-----------------------------------------------------------------------------
\* The kinds of rows are told apart.
LEMMA KindsDiffer ==
  /\ \A x \in App : x \notin Developer \cup Feature \cup Key \cup Token
  /\ \A x \in Feature : x \notin Developer \cup App \cup Key \cup Token
  /\ \A x \in Key : x \notin Developer \cup App \cup Feature \cup Token
  /\ \A x \in Token : x \notin Developer \cup App \cup Feature \cup Key
  /\ \A x \in Resource : x # None
  /\ \A x \in Feature \cup Key : AppOf[x] \in App
  /\ \A t \in Token : Holder[t] \in Developer
  /\ Oldest \in Developer
BY AccessAssumption DEF Resource

\* Whose a row is.
LEMMA OwnerIs ==
  /\ \A x \in App : Owner(x) = row[x].owner
  /\ \A x \in Token : Owner(x) = Holder[x]
  /\ \A x \in Feature \cup Key : Owner(x) = row[AppOf[x]].owner
  /\ \A x \in Developer : Owner(x) = x
BY KindsDiffer DEF Owner

\* Every route is about rows of one kind, or about none.
LEMMA AboutType == \A o \in Ops : Demand(o).about \in {Token, App, Feature, Key, {None}}
<1> SUFFICES ASSUME NEW o \in Ops PROVE Demand(o).about \in {Token, App, Feature, Key, {None}}
  OBVIOUS
<1>1. CASE o \in DOMAIN Route
  <2>1. Demand(o) = Route[o] BY <1>1 DEF Demand
  <2>2. QED BY <1>1, <2>1 DEF Route, Asks, ForDeveloper, PostToken, GetTokens, DeleteToken,
              GetApps, PostApp, PatchApp, DeleteApp, GetFeatures, PostFeature, PatchFeature,
              DeleteAFeature, GetOperations, GetUsage, PostKey, GetKeys, DeleteKey
<1>2. CASE o \in DOMAIN Elsewhere /\ o \notin DOMAIN Route
  <2>1. Demand(o) = Elsewhere[o] BY <1>2 DEF Demand
  <2>2. QED BY <1>2, <2>1 DEF Elsewhere, Asks, ForOperator, ForEndUser, PostUserKey,
              GetUserKeys, DeleteUserKey, GetWallet, PostCheckout, PostWebhook, PostSession,
              PostTestCredit, PostPayoutRun, PostMarkPaid, PostApprove, Settlement
<1>3. QED BY <1>1, <1>2 DEF Ops

\* What the writing routes are about.
LEMMA WritesAbout ==
  /\ {"createToken", "revokeToken", "createApp", "updateApp", "archiveApp", "createFeature",
      "updateFeature", "deleteFeature", "createKey", "disableKey", "usage", "listKeys"}
       \subseteq Ops
  /\ \A o \in {"createToken", "revokeToken"} : Demand(o).about = Token
  /\ \A o \in {"createApp", "updateApp", "archiveApp", "usage", "listKeys"} :
       Demand(o).about = App
  /\ \A o \in {"createFeature", "updateFeature", "deleteFeature"} : Demand(o).about = Feature
  /\ \A o \in {"createKey", "disableKey"} : Demand(o).about = Key
<1>1. \A o \in {"createToken", "revokeToken", "createApp", "updateApp", "archiveApp", "createFeature",
        "updateFeature", "deleteFeature", "createKey", "disableKey", "usage", "listKeys"} :
          o \in DOMAIN Route
  BY DEF Route
<1>2. /\ Route.createToken = PostToken /\ Route.revokeToken = DeleteToken
      /\ Route.createApp = PostApp /\ Route.updateApp = PatchApp /\ Route.archiveApp = DeleteApp
      /\ Route.createFeature = PostFeature /\ Route.updateFeature = PatchFeature
      /\ Route.deleteFeature = DeleteAFeature
      /\ Route.createKey = PostKey /\ Route.disableKey = DeleteKey
      /\ Route.usage = GetUsage /\ Route.listKeys = GetKeys
  BY DEF Route
<1>3. \A o \in DOMAIN Route : Demand(o) = Route[o] BY DEF Demand
<1>4. QED BY <1>1, <1>2, <1>3 DEF Ops, PostToken, DeleteToken, PostApp, PatchApp, DeleteApp,
            PostFeature, PatchFeature, DeleteAFeature, PostKey, DeleteKey, GetUsage, GetKeys,
            ForDeveloper, Asks

\* A request that is not there.
LEMMA IdleFits == Idle \in RequestType /\ Fits(Idle) /\ Idle.pc = "idle" /\ Idle.by = None
<1>1. "none" \notin Ops BY DEF Ops, Route, Elsewhere
<1>2. QED BY <1>1, AccessAssumption DEF Idle, RequestType, Fits, NoRow, Row

\* The start.
LEMMA AccessInit == Init => AccessInv
<1> SUFFICES ASSUME Init PROVE AccessInv OBVIOUS
<1>1. \A x \in Resource : ~Exists(x) /\ row[x] = NoRow /\ log[x].made = 0 /\ log[x].ended = 0
  BY DEF Init, Exists, NoRow
<1>2. TypeOK
  BY IdleFits, AccessAssumption DEF Init, TypeOK, Row, NoRow, Idle
<1>3. AuditAccountsForRows BY <1>1 DEF AuditAccountsForRows, Resource, NoRow
<1>4. AppsAreComplete BY <1>1 DEF AppsAreComplete, Resource
<1>5. RowsFit BY <1>1 DEF RowsFit, Resource
<1>6. \A r \in Request : request[r] = Idle BY DEF Init
<1>7. QED BY <1>2, <1>3, <1>4, <1>5, <1>6, IdleFits DEF AccessInv, OneWriter

\* A step of one request that writes no row.
LEMMA RequestStep ==
  ASSUME AccessInv, NEW r \in Request, NEW q \in RequestType, Fits(q),
         request' = [request EXCEPT ![r] = q],
         q.pc = "written" => \A s \in Request :
           s # r /\ request[s].pc = "written" => request[s].on # q.on,
         UNCHANGED <<row, log, off, expired>>, served' \in 0 .. MaxRequests
  PROVE  AccessInv'
<1> USE DEF AccessInv
<1>1. /\ request' \in [Request -> RequestType]
      /\ request'[r] = q /\ \A s \in Request : s # r => request'[s] = request[s]
  BY DEF TypeOK
<1>2. TypeOK' BY <1>1 DEF TypeOK
<1>3. AuditAccountsForRows' BY DEF AuditAccountsForRows, Exists
<1>4. AppsAreComplete' BY DEF AppsAreComplete, Exists, Owner
<1>5. RowsFit' BY DEF RowsFit, Exists
<1>6. ASSUME NEW s \in Request PROVE Fits(request[s])'
  <2>1. Fits(request'[s]) BY <1>1
  <2>2. QED BY <2>1 DEF Fits, PendingFits, Settled, Exists, Owner, CreatorOf
<1>7. OneWriter' BY <1>1 DEF OneWriter
<1>8. QED BY <1>2, <1>3, <1>4, <1>5, <1>6, <1>7

\* A request ends.
LEMMA LeaveStep ==
  ASSUME AccessInv, NEW r \in Request, Leave(r), UNCHANGED <<row, log, expired, off, served>>
  PROVE  AccessInv'
<1>1. request' = [request EXCEPT ![r] = Idle] BY DEF Leave
<1>2. served' \in 0 .. MaxRequests BY DEF AccessInv, TypeOK
<1>3. QED BY <1>1, <1>2, IdleFits, RequestStep

\* A request goes on without a row pending, with what it was let in for.
LEMMA GoesOnStep ==
  ASSUME AccessInv, NEW r \in Request, NEW q \in RequestType,
         q.op = request[r].op, q.on = request[r].on,
         q.pc \notin {"walleted", "written"},
         q.filter # None => \A x \in q.shown : Owner(x) = q.filter /\ Settled(x),
         request' = [request EXCEPT ![r] = q], UNCHANGED <<row, log, expired, off, served>>
  PROVE  AccessInv'
<1>1. Fits(request[r]) /\ served' \in 0 .. MaxRequests BY DEF AccessInv, TypeOK
<1>2. Fits(q) BY <1>1 DEF Fits
<1>3. QED BY <1>1, <1>2, RequestStep

\* A request that has moved on.
SameBut(w, q) == /\ w.op = q.op /\ w.on = q.on
                 /\ w.filter = q.filter /\ w.wallet = q.wallet

\* A row gets pending.
LEMMA WriteStep ==
  ASSUME AccessInv, NEW r \in Request, NEW possible \in BOOLEAN, NEW new \in Row,
         Write(r, possible, new),
         possible => \A w \in RequestType :
           SameBut(w, request[r]) /\ w.new = new => PendingFits(w)
  PROVE  AccessInv'
<1>1. CASE ~possible BY <1>1, LeaveStep DEF Write
<1>2. CASE possible
  <2> DEFINE q == [request[r] EXCEPT !.pc = "written", !.new = new]
  <2>1. request[r] \in RequestType /\ Fits(request[r]) BY DEF AccessInv, TypeOK
  <2>2. /\ q \in RequestType /\ q.pc = "written" /\ q.on = request[r].on
        /\ q.op = request[r].op /\ q.shown = request[r].shown /\ q.filter = request[r].filter
        /\ SameBut(q, request[r]) /\ q.new = new
    BY <2>1 DEF RequestType, SameBut
  <2>3. /\ request' = [request EXCEPT ![r] = q]
        /\ UNCHANGED <<row, log, expired, off, served>>
        /\ Free(request[r].on)
    BY <1>2, <2>1 DEF Write
  <2> HIDE DEF q
  <2>4. PendingFits(q) BY <1>2, <2>2
  <2>5. Fits(q) BY <2>1, <2>2, <2>4 DEF Fits
  <2>6. \A s \in Request : request[s].pc = "written" => request[s].on # q.on
    BY <2>2, <2>3 DEF Free
  <2>7. served' \in 0 .. MaxRequests BY <2>3 DEF AccessInv, TypeOK
  <2>8. QED BY <2>2, <2>3, <2>5, <2>6, <2>7, RequestStep
<1>3. QED BY <1>1, <1>2

\* What a commit leaves as it was: an app that is there keeps its owner, a wallet stays,
\* and every other row is only changed by the request that had it pending.
LEMMA CommitKeeps ==
  ASSUME AccessInv, NEW r \in Request, Commit(r)
  PROVE  LET q == request[r] IN
         /\ q.on \in App \cup Feature \cup Key \cup Token /\ PendingFits(q)
         /\ row'[q.on] = q.new
         /\ \A x \in App \cup Feature \cup Key \cup Token :
              x # q.on => row'[x] = row[x] /\ log'[x] = log[x]
         /\ q.wallet \in Developer => row'[q.wallet].status # "absent"
         /\ \A d \in Developer : Exists(d) => Exists(d)'
         /\ \A a \in App : Exists(a) => Exists(a)' /\ row'[a].owner = row[a].owner
         /\ row' \in [Resource -> Row]
         /\ log' = [log EXCEPT
              ![q.on].made  = log[q.on].made + (IF q.op \in Makes THEN 1 ELSE 0),
              ![q.on].ended = log[q.on].ended + (IF q.op \in Ends THEN 1 ELSE 0)]
<1> DEFINE q == request[r]
<1>1. q \in RequestType /\ q.pc = "written" /\ Fits(q) BY DEF AccessInv, TypeOK, Commit
<1>2. PendingFits(q) BY <1>1 DEF Fits
<1>3. row' = [x \in Resource |-> IF x = q.on THEN q.new
                                 ELSE IF x = q.wallet THEN ActiveRow ELSE row[x]]
  BY DEF Commit
<1>4. log' = [log EXCEPT ![q.on].made  = log[q.on].made + (IF q.op \in Makes THEN 1 ELSE 0),
                         ![q.on].ended = log[q.on].ended + (IF q.op \in Ends THEN 1 ELSE 0)]
  BY DEF Commit
<1>5. /\ row \in [Resource -> Row] /\ log \in [Resource -> [made : Nat, ended : Nat]]
      /\ q.new \in Row /\ q.wallet \in Developer \cup {None}
  BY <1>1 DEF AccessInv, TypeOK, RequestType
<1> HIDE DEF q
<1>6. q.on \in App \cup Feature \cup Key \cup Token BY <1>2 DEF PendingFits
<1>7. App \cup Feature \cup Key \cup Token \subseteq Resource /\ Developer \subseteq Resource
  BY DEF Resource
<1>8. row'[q.on] = q.new BY <1>3, <1>6, <1>7
<1>9. ASSUME NEW x \in App \cup Feature \cup Key \cup Token, x # q.on
      PROVE  row'[x] = row[x] /\ log'[x] = log[x]
  <2>1. x # q.wallet BY <1>5, <1>7, KindsDiffer
  <2>2. QED BY <1>3, <1>4, <1>5, <1>7, <1>9, <2>1
<1>10. ActiveRow \in Row /\ ActiveRow.status # "absent" BY DEF ActiveRow, NoRow, Row
<1>11. \A d \in Developer : d # q.on BY <1>6, KindsDiffer
<1>12. q.wallet \in Developer => row'[q.wallet].status # "absent"
  BY <1>3, <1>7, <1>10, <1>11
<1>13. \A d \in Developer : Exists(d) => Exists(d)'
  BY <1>3, <1>7, <1>10, <1>11 DEF Exists
<1>14. ASSUME NEW a \in App, Exists(a) PROVE Exists(a)' /\ row'[a].owner = row[a].owner
  <2>1. CASE a = q.on
    <3>1. q.new.status # "absent" /\ q.new.owner = row[a].owner
      BY <1>2, <1>14, <2>1, KindsDiffer DEF PendingFits
    <3>2. QED BY <1>8, <2>1, <3>1 DEF Exists
  <2>2. CASE a # q.on BY <1>9, <1>14, <2>2 DEF Exists
  <2>3. QED BY <2>1, <2>2
<1>15. row' \in [Resource -> Row] BY <1>3, <1>5, <1>10
<1> USE DEF q
<1>16. QED BY <1>2, <1>4, <1>6, <1>8, <1>9, <1>12, <1>13, <1>14, <1>15

\* What is known of another request is not changed by a commit.
LEMMA OthersStillFit ==
  ASSUME AccessInv, NEW r \in Request, Commit(r), NEW s \in Request, s # r
  PROVE  Fits(request[s])'
<1> DEFINE q == request[s]
<1>1. request' = [request EXCEPT ![r] = Idle] /\ request \in [Request -> RequestType]
  BY DEF Commit, Leave, AccessInv, TypeOK
<1>2. request'[s] = q /\ q' = q /\ q \in RequestType /\ Fits(q) BY <1>1 DEF AccessInv
<1>3. q.pc = "written" => q.on # request[r].on BY DEF AccessInv, OneWriter, Commit
<1>4. q.filter \in Developer \cup {None} /\ q.shown \subseteq Resource BY <1>2 DEF RequestType
<1>5. CreatorOf(q) \in Developer BY <1>4, KindsDiffer DEF CreatorOf
<1> HIDE DEF q
<1>6. \A a \in App : Exists(a) => Exists(a)' /\ row'[a].owner = row[a].owner BY CommitKeeps
<1>7. \A d \in Developer : Exists(d) => Exists(d)' BY CommitKeeps
<1>8. \A x \in App \cup Feature \cup Key \cup Token : x # request[r].on => row'[x] = row[x]
  BY CommitKeeps
<1>9. ASSUME NEW x \in Resource, Settled(x) PROVE Owner(x)' = Owner(x) /\ Settled(x)'
  <2>1. Settled(x)' BY <1>6, <1>9, KindsDiffer DEF Settled
  <2>2. Owner(x)' = Owner(x) BY <1>6, <1>9, KindsDiffer DEF Settled, Owner
  <2>3. QED BY <2>1, <2>2
<1>10. q.pc = "walleted" => /\ q.op = "createApp"
                            /\ Exists(CreatorOf(q))' \/ q.wallet = CreatorOf(q)
  BY <1>2, <1>5, <1>7 DEF Fits
<1>11. q.filter # None =>
         \A x \in q.shown : Owner(x)' = q.filter /\ Settled(x)'
  BY <1>2, <1>4, <1>9 DEF Fits
<1>12. q.op \in Ops => q.on \in Demand(q.op).about BY <1>2 DEF Fits
<1>13. ASSUME q.pc = "written" PROVE PendingFits(request[s])'
  <2>1. PendingFits(q) /\ q.on # request[r].on BY <1>2, <1>3, <1>13 DEF Fits
  <2>2. q.on \in App \cup Feature \cup Key \cup Token BY <2>1 DEF PendingFits
  <2>3. row'[q.on] = row[q.on] /\ (Exists(q.on)' <=> Exists(q.on))
    BY <1>2, <1>8, <2>1, <2>2 DEF Exists
  <2>4. q.on \in Resource BY <2>2 DEF Resource
  <2>5. q.on \notin App => Settled(q.on)
    BY <2>1, KindsDiffer DEF PendingFits, Settled, AccessInv, RowsFit
  <2>6. q.on \notin App => Owner(q.on)' = Owner(q.on)
    BY <1>2, <1>9, <2>4, <2>5 DEF Owner
  <2>7. q.on \in Feature \cup Key => Exists(AppOf[q.on])'
    BY <1>2, <1>6, <2>5, KindsDiffer DEF Settled, Exists
  <2>8. q.filter # None => (IF q.on \in App THEN q.new.owner ELSE Owner(q.on)') = q.filter
    BY <2>1, <2>6 DEF PendingFits
  <2>9. Exists(CreatorOf(q)) => Exists(CreatorOf(q))'
    BY <1>2, <1>5, <1>7 DEF CreatorOf, Exists
  <2>10. QED BY <1>2, <2>1, <2>3, <2>7, <2>8, <2>9 DEF PendingFits, CreatorOf, Exists
<1>14. QED BY <1>2, <1>10, <1>11, <1>12, <1>13 DEF Fits, CreatorOf, Settled, Exists, Owner

\* The row and its audit entry are published together.
LEMMA CommitStep ==
  ASSUME AccessInv, NEW r \in Request, Commit(r)
  PROVE  AccessInv'
<1> DEFINE q == request[r]
<1>1. /\ request' = [request EXCEPT ![r] = Idle] /\ request \in [Request -> RequestType]
      /\ UNCHANGED <<expired, off, served>> /\ q \in RequestType
  BY DEF Commit, Leave, AccessInv, TypeOK
<1>2. /\ row \in [Resource -> Row] /\ log \in [Resource -> [made : Nat, ended : Nat]]
      /\ AuditAccountsForRows /\ AppsAreComplete /\ RowsFit
  BY DEF AccessInv, TypeOK
<1> HIDE DEF q
<1>3. /\ q.on \in App \cup Feature \cup Key \cup Token /\ PendingFits(q)
      /\ row'[q.on] = q.new
      /\ \A x \in App \cup Feature \cup Key \cup Token :
           x # q.on => row'[x] = row[x] /\ log'[x] = log[x]
      /\ q.wallet \in Developer => row'[q.wallet].status # "absent"
      /\ \A d \in Developer : Exists(d) => Exists(d)'
      /\ \A a \in App : Exists(a) => Exists(a)' /\ row'[a].owner = row[a].owner
      /\ row' \in [Resource -> Row]
      /\ log' = [log EXCEPT
           ![q.on].made  = log[q.on].made + (IF q.op \in Makes THEN 1 ELSE 0),
           ![q.on].ended = log[q.on].ended + (IF q.op \in Ends THEN 1 ELSE 0)]
  BY CommitKeeps DEF q
<1>4. q.on \in Resource BY <1>3 DEF Resource
<1>5. /\ log' \in [Resource -> [made : Nat, ended : Nat]]
      /\ log'[q.on].made = log[q.on].made + (IF q.op \in Makes THEN 1 ELSE 0)
      /\ log'[q.on].ended = log[q.on].ended + (IF q.op \in Ends THEN 1 ELSE 0)
      /\ log[q.on].made \in Nat /\ log[q.on].ended \in Nat
  BY <1>2, <1>3, <1>4
<1>6. TypeOK'
  BY <1>1, <1>3, <1>5, IdleFits DEF AccessInv, TypeOK
<1>7. AuditAccountsForRows'
  <2>a. /\ q.op \in Makes => ~Exists(q.on) /\ q.new.status # "absent"
        /\ q.op \notin Makes => Exists(q.on)
        /\ q.op \in {"updateFeature", "updateApp", "archiveApp", "revokeToken", "disableKey"} =>
             q.new.status # "absent"
        /\ q.op \notin Makes \cup
             {"updateFeature", "updateApp", "archiveApp", "revokeToken", "disableKey"} =>
               q.op = "deleteFeature" /\ q.on \in Feature /\ q.new.status = "absent"
        /\ q.op \in {"revokeToken", "disableKey"} => q.on \notin Feature
    BY <1>3, KindsDiffer DEF PendingFits, Makes, Exists
  <2>1. ASSUME NEW x \in App \cup Token \cup Key
        PROVE  log'[x].made = IF row'[x].status # "absent" THEN 1 ELSE 0
    <3>1. CASE x = q.on
      <4>1. log[x].made = IF Exists(x) THEN 1 ELSE 0 BY <1>2 DEF AuditAccountsForRows
      <4>2. row'[x].status # "absent" BY <1>3, <2>a, <3>1, KindsDiffer
      <4>3. Exists(x) <=> q.op \notin Makes BY <2>a, <3>1
      <4>4. QED BY <1>5, <3>1, <4>1, <4>2, <4>3
    <3>2. CASE x # q.on
      <4>1. row'[x] = row[x] /\ log'[x] = log[x] BY <1>3, <3>2
      <4>2. log[x].made = IF row[x].status # "absent" THEN 1 ELSE 0
        BY <1>2 DEF AuditAccountsForRows, Exists
      <4>3. QED BY <4>1, <4>2
    <3>3. QED BY <3>1, <3>2
  <2>2. ASSUME NEW t \in Token
        PROVE  log'[t].ended = IF row'[t].status = "revoked" THEN 1 ELSE 0
    <3>1. CASE t = q.on
      BY <1>2, <1>3, <1>5, <3>1, KindsDiffer
         DEF AuditAccountsForRows, PendingFits, Exists, Ends
    <3>2. CASE t # q.on BY <1>2, <1>3, <3>2 DEF AuditAccountsForRows
    <3>3. QED BY <3>1, <3>2
  <2>3. ASSUME NEW k \in Key
        PROVE  log'[k].ended > 0 <=> row'[k].status = "disabled"
    <3>1. CASE k = q.on
      BY <1>2, <1>3, <1>5, <3>1, KindsDiffer
         DEF AuditAccountsForRows, PendingFits, Exists, Ends
    <3>2. CASE k # q.on BY <1>2, <1>3, <3>2 DEF AuditAccountsForRows
    <3>3. QED BY <3>1, <3>2
  <2>4. ASSUME NEW f \in Feature
        PROVE  log'[f].made = log'[f].ended + IF row'[f].status # "absent" THEN 1 ELSE 0
    <3>1. CASE f = q.on
      <4>1. log[f].made = log[f].ended + IF Exists(f) THEN 1 ELSE 0
        BY <1>2 DEF AuditAccountsForRows
      <4>2. CASE q.op \in Makes
        <5>1. q.op \notin Ends BY <4>2 DEF Makes, Ends
        <5>2. QED BY <1>3, <1>5, <2>a, <3>1, <4>1, <4>2, <5>1
      <4>3. CASE q.op = "deleteFeature"
        <5>1. q.op \notin Makes /\ q.op \in Ends BY <4>3 DEF Makes, Ends
        <5>2. row'[f].status = "absent" BY <1>3, <2>a, <3>1, <4>3, <5>1
        <5>3. QED BY <1>5, <2>a, <3>1, <4>1, <5>1, <5>2
      <4>4. CASE q.op \notin Makes /\ q.op # "deleteFeature"
        <5>1. q.op \notin Ends BY <2>a, <3>1, <4>4 DEF Makes, Ends
        <5>2. row'[f].status # "absent" BY <1>3, <2>a, <3>1, <4>4
        <5>3. QED BY <1>5, <2>a, <3>1, <4>1, <4>4, <5>1, <5>2
      <4>5. QED BY <4>2, <4>3, <4>4
    <3>2. CASE f # q.on
      <4>1. row'[f] = row[f] /\ log'[f] = log[f] BY <1>3, <3>2
      <4>2. log[f].made = log[f].ended + IF row[f].status # "absent" THEN 1 ELSE 0
        BY <1>2 DEF AuditAccountsForRows, Exists
      <4>3. QED BY <4>1, <4>2
    <3>3. QED BY <3>1, <3>2
  <2>5. QED BY <2>1, <2>2, <2>3, <2>4 DEF AuditAccountsForRows, Exists
<1>8. CreatorOf(q) \in Developer BY <1>1, KindsDiffer DEF CreatorOf, RequestType
<1>9. ASSUME NEW a \in App, row'[a].status # "absent"
      PROVE  /\ row'[a].owner \in Developer
             /\ row'[row'[a].owner].status # "absent"
             /\ Hosted => row'[a].limited
  <2>1. CASE Exists(a)
    <3>1. /\ row[a].owner \in Developer /\ Exists(row[a].owner)
          /\ Hosted => row[a].limited
      BY <1>2, <2>1, OwnerIs DEF RowsFit, AppsAreComplete
    <3>2. row'[a].owner = row[a].owner BY <1>3, <2>1
    <3>3. row'[row[a].owner].status # "absent" BY <1>3, <3>1 DEF Exists
    <3>4. Hosted => row'[a].limited
      <4>1. CASE a = q.on BY <1>3, <2>1, <4>1, KindsDiffer DEF PendingFits
      <4>2. CASE a # q.on BY <1>3, <3>1, <4>2
      <4>3. QED BY <4>1, <4>2
    <3>5. QED BY <3>1, <3>2, <3>3, <3>4
  <2>2. CASE ~Exists(a)
    <3>1. a = q.on BY <1>3, <1>9, <2>2 DEF Exists
    <3>2. /\ q.new.owner = CreatorOf(q) /\ (Hosted => q.new.limited)
          /\ Exists(CreatorOf(q)) \/ q.wallet = CreatorOf(q)
      BY <1>3, <2>2, <3>1, KindsDiffer DEF PendingFits
    <3>3. row'[CreatorOf(q)].status # "absent" BY <1>3, <1>8, <3>2 DEF Exists
    <3>4. QED BY <1>3, <1>8, <3>1, <3>2, <3>3
  <2>3. QED BY <2>1, <2>2
<1>10. AppsAreComplete' BY <1>9, KindsDiffer DEF AppsAreComplete, Exists, Owner
<1>11. RowsFit'
  <2>1. ASSUME NEW x \in Feature \cup Key, row'[x].status # "absent" \/ log'[x].made > 0
        PROVE  Exists(AppOf[x])
    <3>1. CASE x = q.on
      BY <1>2, <1>3, <3>1, KindsDiffer DEF PendingFits, RowsFit
    <3>2. CASE x # q.on BY <1>2, <1>3, <2>1, <3>2 DEF RowsFit, Exists
    <3>3. QED BY <3>1, <3>2
  <2>2. QED BY <1>3, <1>9, <2>1, KindsDiffer DEF RowsFit, Exists
<1>12. ASSUME NEW s \in Request PROVE Fits(request[s])'
  <2>1. CASE s # r BY <2>1, OthersStillFit
  <2>2. CASE s = r
    <3>1. request'[s] = Idle BY <1>1, <2>2
    <3>2. QED BY <3>1 DEF Fits, Idle, Ops, Route, Elsewhere
  <2>3. QED BY <2>1, <2>2
<1>13. OneWriter' BY <1>1, IdleFits DEF OneWriter, AccessInv
<1>14. QED BY <1>6, <1>7, <1>10, <1>11, <1>12, <1>13 DEF AccessInv

\* Every request step keeps the invariant.
LEMMA OperateStep ==
  ASSUME AccessInv, NEW r \in Request, Operate(r)
  PROVE  AccessInv'
<1>1. /\ request \in [Request -> RequestType] /\ request[r] \in RequestType
      /\ Fits(request[r]) /\ RowsFit /\ AuditAccountsForRows /\ AppsAreComplete
      /\ row \in [Resource -> Row] /\ served \in 0 .. MaxRequests
  BY DEF AccessInv, TypeOK
<1>a. App \cup Feature \cup Key \cup Token \cup Developer \subseteq Resource BY DEF Resource
<1>t. /\ ActiveRow \in Row /\ ActiveRow.status = "active"
      /\ NoRow \in Row /\ NoRow.status = "absent"
      /\ \A st \in {"revoked", "disabled"} :
           /\ [ActiveRow EXCEPT !.status = st] \in Row
           /\ [ActiveRow EXCEPT !.status = st].status = st
  BY DEF ActiveRow, NoRow, Row
<1>o. \A x \in Feature \cup Key : Exists(x) => Exists(AppOf[x]) BY <1>1 DEF RowsFit
<1>2. CASE NoteUse(r)
  <2>1. CASE request' = [request EXCEPT ![r].pc = "authorized"]
    <3> DEFINE q == [request[r] EXCEPT !.pc = "authorized"]
    <3>1. /\ q \in RequestType /\ q.op = request[r].op /\ q.on = request[r].on
          /\ q.pc = "authorized" /\ q.filter = request[r].filter /\ q.shown = request[r].shown
      BY <1>1 DEF RequestType
    <3>2. request' = [request EXCEPT ![r] = q] BY <1>1, <2>1
    <3> HIDE DEF q
    <3>3. UNCHANGED <<row, log, expired, off, served>> BY <1>2 DEF NoteUse
    <3>4. q.filter # None => \A x \in q.shown : Owner(x) = q.filter /\ Settled(x)
      BY <1>1, <3>1 DEF Fits
    <3>5. QED BY <3>1, <3>2, <3>3, <3>4, GoesOnStep
  <2>2. CASE Leave(r) BY <1>2, <2>2, LeaveStep DEF NoteUse
  <2>3. QED BY <1>2, <2>1, <2>2 DEF NoteUse
<1>3. CASE CreateToken(r)
  <2> DEFINE t == request[r].on
             possible == MayTouch(r, Holder[t])
  <2>1. t \in Token /\ request[r].op = "createToken" /\ ~Exists(t)
    BY <1>1, <1>3, WritesAbout DEF CreateToken, Doing, Fits
  <2>2. Write(r, possible, ActiveRow) BY <1>3 DEF CreateToken
  <2>3. ASSUME possible, NEW w \in RequestType, SameBut(w, request[r]), w.new = ActiveRow
        PROVE  PendingFits(w)
    BY <1>t, <2>1, <2>3, KindsDiffer, OwnerIs DEF PendingFits, SameBut, MayTouch
  <2>4. possible \in BOOLEAN BY DEF MayTouch
  <2> HIDE DEF possible
  <2>5. QED BY <1>t, <2>2, <2>3, <2>4, WriteStep
<1>4. CASE RevokeToken(r)
  <2> DEFINE t == request[r].on
             new == [ActiveRow EXCEPT !.status = "revoked"]
             possible == row[t].status = "active" /\ MayTouch(r, Holder[t])
  <2>1. t \in Token /\ request[r].op = "revokeToken"
    BY <1>1, <1>4, WritesAbout DEF RevokeToken, Doing, Fits
  <2>2. Write(r, possible, new) /\ new \in Row /\ new.status = "revoked"
    BY <1>t, <1>4 DEF RevokeToken
  <2> HIDE DEF new
  <2>3. ASSUME possible, NEW w \in RequestType, SameBut(w, request[r]), w.new = new
        PROVE  PendingFits(w)
    BY <2>1, <2>2, <2>3, KindsDiffer, OwnerIs DEF PendingFits, SameBut, MayTouch
  <2>4. QED BY <2>2, <2>3, WriteStep DEF MayTouch
<1>5. CASE InsertWallet(r)
  <2> DEFINE d == Creator(r)
             wallet == IF Exists(d) THEN None ELSE d
             q == [request[r] EXCEPT !.pc = "walleted", !.wallet = wallet]
  <2>1. d \in Developer /\ d = CreatorOf(request[r]) /\ request[r].op = "createApp"
    BY <1>1, <1>5, KindsDiffer DEF InsertWallet, Doing, Creator, CreatorOf, RequestType
  <2>2. /\ wallet \in Developer \cup {None} /\ (Exists(d) \/ wallet = d)
        /\ request' = [request EXCEPT ![r] = [request[r] EXCEPT !.pc = "walleted",
                                                                !.wallet = wallet]]
        /\ UNCHANGED <<row, log, expired, off, served>>
    BY <1>1, <1>5, <2>1 DEF InsertWallet
  <2> HIDE DEF wallet
  <2>3. /\ q \in RequestType /\ q.op = request[r].op /\ q.on = request[r].on
        /\ q.pc = "walleted" /\ q.filter = request[r].filter /\ q.shown = request[r].shown
        /\ q.wallet = wallet
    BY <1>1, <2>2 DEF RequestType
  <2>4. request' = [request EXCEPT ![r] = q] BY <2>2
  <2> HIDE DEF q
  <2>5. CreatorOf(q) = d BY <2>1, <2>3 DEF CreatorOf
  <2>6. Fits(q) BY <1>1, <2>1, <2>2, <2>3, <2>5 DEF Fits
  <2>7. q.pc # "written" /\ served' \in 0 .. MaxRequests BY <1>1, <2>2, <2>3
  <2>8. QED BY <2>2, <2>3, <2>4, <2>6, <2>7, RequestStep
<1>6. CASE InsertApp(r)
  <2> DEFINE a == request[r].on
             possible == ~Exists(a)
             New(st, l) == [status |-> st, owner |-> Creator(r), limited |-> l]
  <2>1. a \in App /\ request[r].op = "createApp"
        /\ (Exists(CreatorOf(request[r])) \/ request[r].wallet = CreatorOf(request[r]))
    BY <1>1, <1>6, WritesAbout DEF InsertApp, Fits
  <2>2. Creator(r) \in Developer /\ Creator(r) = CreatorOf(request[r])
    BY <1>1, KindsDiffer DEF Creator, CreatorOf, RequestType
  <2>3. PICK st \in {"active", "disabled"}, l \in IF Hosted THEN {TRUE} ELSE BOOLEAN :
          Write(r, possible, New(st, l))
    BY <1>6 DEF InsertApp
  <2> DEFINE new == New(st, l)
  <2>4. /\ new \in Row /\ new.status # "absent" /\ new.owner = CreatorOf(request[r])
        /\ (Hosted => new.limited) /\ Write(r, possible, new)
    BY <2>2, <2>3 DEF Row
  <2> HIDE DEF new
  <2>5. ASSUME possible, NEW w \in RequestType, SameBut(w, request[r]), w.new = new
        PROVE  PendingFits(w)
    <3>1. CreatorOf(w) = CreatorOf(request[r]) BY <2>5 DEF SameBut, CreatorOf
    <3>2. w.filter # None => w.new.owner = w.filter BY <2>4, <2>5, <3>1 DEF CreatorOf
    <3>3. /\ w.op = "createApp" /\ w.on = a /\ ~Exists(w.on)
          /\ (Exists(CreatorOf(w)) \/ w.wallet = CreatorOf(w))
      BY <2>1, <2>5, <3>1 DEF SameBut
    <3>4. QED BY <2>1, <2>4, <2>5, <3>1, <3>2, <3>3 DEF PendingFits
  <2>6. QED BY <2>4, <2>5, WriteStep DEF Exists
<1>7. CASE UpdateApp(r)
  <2> DEFINE a == request[r].on
             possible == Exists(a) /\ MayTouch(r, Owner(a))
             New(st, l) == [status |-> st, owner |-> Owner(a), limited |-> row[a].limited \/ l]
  <2>1. a \in App /\ request[r].op = "updateApp" /\ row[a] \in Row
    BY <1>1, <1>7, <1>a, WritesAbout DEF UpdateApp, Doing, Fits
  <2>2. PICK st \in {"active", "disabled"}, l \in BOOLEAN : Write(r, possible, New(st, l))
    BY <1>7 DEF UpdateApp
  <2> DEFINE new == New(st, l)
  <2>3. Owner(a) = row[a].owner BY <2>1, OwnerIs
  <2>4. /\ new \in Row /\ new.status # "absent" /\ new.owner = row[a].owner
        /\ (row[a].limited => new.limited) /\ Write(r, possible, new)
    BY <2>1, <2>2, <2>3 DEF Row
  <2> HIDE DEF new
  <2>5. ASSUME possible, NEW w \in RequestType, SameBut(w, request[r]), w.new = new
        PROVE  PendingFits(w)
    <3>1. Hosted => new.limited BY <1>1, <2>1, <2>4, <2>5 DEF AppsAreComplete
    <3>2. QED BY <2>1, <2>3, <2>4, <2>5, <3>1, KindsDiffer DEF PendingFits, SameBut, MayTouch
  <2>6. QED BY <2>4, <2>5, WriteStep DEF MayTouch, Exists
<1>8. CASE ArchiveApp(r)
  <2> DEFINE a == request[r].on
             possible == Exists(a) /\ MayTouch(r, Owner(a))
             new == [row[a] EXCEPT !.status = "disabled"]
  <2>1. a \in App /\ request[r].op = "archiveApp" /\ row[a] \in Row
    BY <1>1, <1>8, <1>a, WritesAbout DEF ArchiveApp, Doing, Fits
  <2>2. Write(r, possible, new) BY <1>8 DEF ArchiveApp
  <2>3. Owner(a) = row[a].owner BY <2>1, OwnerIs
  <2>4. /\ new \in Row /\ new.status # "absent" /\ new.owner = row[a].owner
        /\ (row[a].limited => new.limited)
    BY <2>1 DEF Row
  <2> HIDE DEF new
  <2>5. ASSUME possible, NEW w \in RequestType, SameBut(w, request[r]), w.new = new
        PROVE  PendingFits(w)
    <3>1. Hosted => new.limited BY <1>1, <2>1, <2>4, <2>5 DEF AppsAreComplete
    <3>2. QED BY <2>1, <2>3, <2>4, <2>5, <3>1, KindsDiffer DEF PendingFits, SameBut, MayTouch
  <2>6. QED BY <2>2, <2>4, <2>5, WriteStep DEF MayTouch, Exists
<1>9. CASE CreateFeature(r)
  <2> DEFINE f == request[r].on
             possible == InContext(r, AppOf[f]) /\ ~Exists(f)
  <2>1. f \in Feature /\ request[r].op = "createFeature" /\ Owner(f) = Owner(AppOf[f])
    BY <1>1, <1>9, WritesAbout, KindsDiffer, OwnerIs DEF CreateFeature, Doing, Fits
  <2>2. Write(r, possible, ActiveRow) BY <1>9 DEF CreateFeature
  <2>3. ASSUME possible, NEW w \in RequestType, SameBut(w, request[r]), w.new = ActiveRow
        PROVE  PendingFits(w)
    BY <1>t, <2>1, <2>3, KindsDiffer DEF PendingFits, SameBut, MayTouch, InContext
  <2>4. QED BY <1>t, <2>2, <2>3, WriteStep DEF MayTouch, InContext, Exists
<1>10. CASE UpdateFeature(r)
  <2> DEFINE f == request[r].on
             possible == InContext(r, AppOf[f]) /\ Exists(f)
  <2>1. f \in Feature /\ request[r].op = "updateFeature" /\ Owner(f) = Owner(AppOf[f])
    BY <1>1, <1>10, WritesAbout, KindsDiffer, OwnerIs DEF UpdateFeature, Doing, Fits
  <2>2. Write(r, possible, row[f]) /\ row[f] \in Row BY <1>1, <1>10, <1>a, <2>1 DEF UpdateFeature
  <2>3. ASSUME possible, NEW w \in RequestType, SameBut(w, request[r]), w.new = row[f]
        PROVE  PendingFits(w)
    BY <2>1, <2>3, KindsDiffer DEF PendingFits, SameBut, MayTouch, InContext, Exists
  <2>4. QED BY <2>2, <2>3, WriteStep DEF MayTouch, InContext, Exists
<1>11. CASE DeleteFeature(r)
  <2> DEFINE f == request[r].on
             possible == InContext(r, AppOf[f]) /\ Exists(f)
  <2>1. f \in Feature /\ request[r].op = "deleteFeature" /\ Owner(f) = Owner(AppOf[f])
    BY <1>1, <1>11, WritesAbout, KindsDiffer, OwnerIs DEF DeleteFeature, Doing, Fits
  <2>2. Write(r, possible, NoRow) BY <1>11 DEF DeleteFeature
  <2>3. ASSUME possible, NEW w \in RequestType, SameBut(w, request[r]), w.new = NoRow
        PROVE  PendingFits(w)
    BY <1>t, <2>1, <2>3, KindsDiffer DEF PendingFits, SameBut, MayTouch, InContext
  <2>4. QED BY <1>t, <2>2, <2>3, WriteStep DEF MayTouch, InContext, Exists
<1>12. CASE CreateKey(r)
  <2> DEFINE k == request[r].on
             possible == InContext(r, AppOf[k])
  <2>1. k \in Key /\ request[r].op = "createKey" /\ Owner(k) = Owner(AppOf[k]) /\ ~Exists(k)
    BY <1>1, <1>12, WritesAbout, KindsDiffer, OwnerIs DEF CreateKey, Doing, Fits
  <2>2. Write(r, possible, ActiveRow) BY <1>12 DEF CreateKey
  <2>3. ASSUME possible, NEW w \in RequestType, SameBut(w, request[r]), w.new = ActiveRow
        PROVE  PendingFits(w)
    BY <1>t, <2>1, <2>3, KindsDiffer DEF PendingFits, SameBut, MayTouch, InContext
  <2>4. QED BY <1>t, <2>2, <2>3, WriteStep DEF MayTouch, InContext, Exists
<1>13. CASE DisableKey(r)
  <2> DEFINE k == request[r].on
             new == [ActiveRow EXCEPT !.status = "disabled"]
             possible == Exists(k) /\ MayTouch(r, Owner(k))
  <2>1. k \in Key /\ request[r].op = "disableKey"
    BY <1>1, <1>13, WritesAbout DEF DisableKey, Doing, Fits
  <2>2. Write(r, possible, new) /\ new \in Row /\ new.status = "disabled"
    BY <1>t, <1>13 DEF DisableKey
  <2> HIDE DEF new
  <2>3. ASSUME possible, NEW w \in RequestType, SameBut(w, request[r]), w.new = new
        PROVE  PendingFits(w)
    BY <2>1, <2>2, <2>3, KindsDiffer DEF PendingFits, SameBut, MayTouch
  <2>4. QED BY <2>2, <2>3, WriteStep DEF MayTouch, Exists
<1>14. CASE Commit(r) BY <1>14, CommitStep
<1>15. ASSUME NEW rows \in SUBSET Resource, NEW pc \in {"reading", "shown"}, Show(r, rows, pc),
              request[r].filter # None =>
                \A x \in rows : Owner(x) = request[r].filter /\ Settled(x)
       PROVE  AccessInv'
  <2> DEFINE q == [request[r] EXCEPT !.pc = pc, !.shown = request[r].shown \cup rows]
  <2>1. /\ q \in RequestType /\ q.op = request[r].op /\ q.on = request[r].on
        /\ q.pc = pc /\ q.filter = request[r].filter
        /\ q.shown = request[r].shown \cup rows
    BY <1>1 DEF RequestType
  <2>2. request' = [request EXCEPT ![r] = q] /\ UNCHANGED <<row, log, expired, off, served>>
    BY <1>1, <1>15 DEF Show
  <2> HIDE DEF q
  <2>3. q.filter # None => \A x \in q.shown : Owner(x) = q.filter /\ Settled(x)
    BY <1>1, <1>15, <2>1 DEF Fits
  <2>4. QED BY <2>1, <2>2, <2>3, GoesOnStep
<1>16. \A x \in Resource : Exists(x) => Settled(x)
  BY <1>o, KindsDiffer DEF Settled
<1>17. ASSUME NEW table \in SUBSET Resource
       PROVE  /\ Mine(r, table) \in SUBSET Resource
              /\ request[r].filter # None =>
                   \A x \in Mine(r, table) : Owner(x) = request[r].filter /\ Settled(x)
  BY <1>16, <1>17 DEF Mine, MayTouch
<1>18. CASE ListTokens(r) BY <1>15, <1>17, <1>18, <1>a DEF ListTokens
<1>19. CASE ListApps(r) BY <1>15, <1>17, <1>19, <1>a DEF ListApps
<1>20. CASE ListFeatures(r)
  <2> DEFINE rows == {f \in Mine(r, Feature) : AppOf[f] = request[r].on}
  <2>1. Show(r, rows, "shown") BY <1>20 DEF ListFeatures
  <2>2. rows \subseteq Mine(r, Feature) OBVIOUS
  <2>3. QED BY <1>15, <1>17, <1>a, <2>1, <2>2
<1>21. CASE ListKeys(r)
  <2> DEFINE a == request[r].on
             rows == {k \in Key : Exists(k) /\ Owner(k) = Owner(a)}
  <2>1. Show(r, rows, "shown") /\ InContext(r, a) BY <1>21 DEF ListKeys
  <2>2. request[r].filter # None => Owner(a) = request[r].filter
    BY <2>1 DEF InContext, MayTouch
  <2>3. rows \in SUBSET Resource BY <1>a
  <2>4. QED BY <1>15, <1>16, <2>1, <2>2, <2>3
<1>22. CASE ReadWallets(r) BY <1>15, <1>17, <1>22, <1>a DEF ReadWallets
<1>23. CASE ReadAudit(r)
  <2> DEFINE rows == {x \in Resource : log[x].made > 0 /\ MayTouch(r, Owner(x))}
  <2>1. Show(r, rows, "shown") BY <1>23 DEF ReadAudit
  <2>2. ASSUME NEW x \in Resource, log[x].made > 0 PROVE Settled(x)
    <3>1. x \in App => Exists(x) BY <1>1, <2>2 DEF AuditAccountsForRows
    <3>2. x \in Feature \cup Key => Exists(AppOf[x]) BY <1>1, <2>2 DEF RowsFit
    <3>3. QED BY <3>1, <3>2 DEF Settled
  <2>3. request[r].filter # None =>
          \A x \in rows : Owner(x) = request[r].filter /\ Settled(x)
    BY <2>2 DEF MayTouch
  <2>4. rows \in SUBSET Resource OBVIOUS
  <2>5. QED BY <1>15, <2>1, <2>3, <2>4
<1>24. CASE ReadUsage(r)
  <2> DEFINE a == request[r].on
  <2>1. a \in App BY <1>1, <1>24, WritesAbout DEF ReadUsage, Doing, Fits
  <2>2. /\ Show(r, {a}, "shown") /\ Exists(a) /\ MayTouch(r, Owner(a))
    BY <1>24 DEF ReadUsage, Exists
  <2>3. request[r].filter # None => Owner(a) = request[r].filter /\ Settled(a)
    BY <1>16, <1>a, <2>1, <2>2 DEF MayTouch
  <2>4. {a} \in SUBSET Resource BY <1>a, <2>1
  <2>5. QED BY <1>15, <2>2, <2>3, <2>4
<1>25. CASE Answer(r) BY <1>25, LeaveStep DEF Answer
<1>26. CASE WorkElsewhere(r) BY <1>26, LeaveStep DEF WorkElsewhere
<1>27. QED BY <1>2, <1>3, <1>4, <1>5, <1>6, <1>7, <1>8, <1>9, <1>10, <1>11, <1>12, <1>13,
              <1>14, <1>18, <1>19, <1>20, <1>21, <1>22, <1>23, <1>24, <1>25, <1>26
           DEF Operate

\* A request is let in.
LEMMA ReceiveStep ==
  ASSUME AccessInv, NEW r \in Request, NEW o \in Ops, NEW x \in Demand(o).about,
         NEW c \in Token \cup {Operator, EndUser, None}, Receive(r, o, x, c)
  PROVE  AccessInv'
<1> DEFINE pc == IF c \in Token THEN "recognized" ELSE "authorized"
           filter == IF c \in Token THEN Holder[c] ELSE None
           q == [Idle EXCEPT !.pc = pc, !.op = o, !.on = x, !.by = c, !.filter = filter]
<1>1. /\ request' = [request EXCEPT ![r] = q] /\ served < MaxRequests /\ served' = served + 1
      /\ UNCHANGED <<row, log, expired, off>>
  BY DEF Receive
<1>2. served' \in 0 .. MaxRequests
  BY <1>1, AccessAssumption DEF AccessInv, TypeOK
<1>3. x \in Resource \cup {None}
  <2>1. Demand(o).about \in {Token, App, Feature, Key, {None}} BY AboutType
  <2>2. QED BY <2>1 DEF Resource
<1>4. pc \in {"recognized", "authorized"} /\ filter \in Developer \cup {None} BY KindsDiffer
<1> HIDE DEF pc, filter
<1>5. /\ q \in RequestType /\ q.pc = pc /\ q.op = o /\ q.on = x /\ q.shown = {}
  BY <1>3, <1>4, IdleFits DEF Idle, RequestType
<1> HIDE DEF q
<1>6. Fits(q) BY <1>4, <1>5 DEF Fits
<1>7. q.pc # "written" BY <1>4, <1>5
<1>8. QED BY <1>1, <1>2, <1>5, <1>6, <1>7, RequestStep

\* Every step keeps the invariant.
LEMMA AccessStep == AccessInv /\ [Next]_vars => AccessInv'
<1> SUFFICES ASSUME AccessInv, [Next]_vars PROVE AccessInv' OBVIOUS
<1>1. ASSUME NEW r \in Request, NEW o \in Ops, NEW x \in Demand(o).about,
             NEW c \in Token \cup {Operator, EndUser, None}, Receive(r, o, x, c)
      PROVE  AccessInv'
  BY <1>1, ReceiveStep
<1>2. ASSUME NEW r \in Request, Operate(r) PROVE AccessInv' BY <1>2, OperateStep
<1>3. ASSUME NEW r \in Request, Fail(r) PROVE AccessInv' BY <1>3, LeaveStep DEF Fail
<1>4. ASSUME UNCHANGED <<row, log, request>>, off' \in Deployments, expired' \subseteq Token,
             served' = served
      PROVE  AccessInv'
  <2>1. TypeOK' BY <1>4 DEF AccessInv, TypeOK
  <2>2. AuditAccountsForRows' BY <1>4 DEF AccessInv, AuditAccountsForRows, Exists
  <2>3. AppsAreComplete' BY <1>4 DEF AccessInv, AppsAreComplete, Exists, Owner
  <2>4. RowsFit' BY <1>4 DEF AccessInv, RowsFit, Exists
  <2>5. ASSUME NEW s \in Request PROVE Fits(request[s])'
    BY <1>4 DEF AccessInv, Fits, PendingFits, Settled, Exists, Owner, CreatorOf
  <2>6. OneWriter' BY <1>4 DEF AccessInv, OneWriter
  <2>7. QED BY <2>1, <2>2, <2>3, <2>4, <2>5, <2>6 DEF AccessInv
<1>5. ASSUME NEW t \in Token, Expire(t) PROVE AccessInv'
  BY <1>4, <1>5 DEF Expire, AccessInv, TypeOK
<1>6. CASE Restart
  <2>1. TypeOK' BY <1>6, IdleFits DEF Restart, AccessInv, TypeOK
  <2>2. AuditAccountsForRows' BY <1>6 DEF Restart, AccessInv, AuditAccountsForRows, Exists
  <2>3. AppsAreComplete' BY <1>6 DEF Restart, AccessInv, AppsAreComplete, Exists, Owner
  <2>4. RowsFit' BY <1>6 DEF Restart, AccessInv, RowsFit, Exists
  <2>5. ASSUME NEW s \in Request PROVE Fits(request[s])' /\ request'[s].pc = "idle"
    <3>1. request'[s] = Idle BY <1>6 DEF Restart
    <3>2. QED BY <3>1 DEF Fits, Idle, Ops, Route, Elsewhere
  <2>6. OneWriter' BY <2>5 DEF OneWriter
  <2>7. QED BY <2>1, <2>2, <2>3, <2>4, <2>5, <2>6 DEF AccessInv
<1>7. CASE UNCHANGED vars
  BY <1>4, <1>7 DEF vars, AccessInv, TypeOK
<1>8. QED BY <1>1, <1>2, <1>3, <1>5, <1>6, <1>7 DEF Next

\* Every reachable state satisfies the invariant.
LEMMA AccessAlways == Spec => []AccessInv
<1>1. QED BY AccessInit, AccessStep, PTL DEF Spec

-----------------------------------------------------------------------------
(* The theorems                                                            *)

\* Requests, rows and the audit log have their types, however many requests run at once.
THEOREM AccessTypeCorrect == Spec => []TypeOK
<1>1. AccessInv => TypeOK BY DEF AccessInv
<1>2. QED BY <1>1, AccessAlways, PTL

\* The audit log accounts for every row: the second of two writers of a row waits for the
\* first and then sees what it committed, and a row is published with its entry.
THEOREM AuditIsComplete == Spec => []AuditAccountsForRows
<1>1. AccessInv => AuditAccountsForRows BY DEF AccessInv
<1>2. QED BY <1>1, AccessAlways, PTL

\* Every app has a wallet to be paid into, and in a hosted deployment its limits.
THEOREM AppsStayComplete == Spec => []AppsAreComplete
<1>1. AccessInv => AppsAreComplete BY DEF AccessInv
<1>2. QED BY <1>1, AccessAlways, PTL

\* A developer's token is shown, and writes, that developer's rows only.
THEOREM TenantsAreIsolated == Spec => []TenantIsolation
<1>1. AccessInv => TenantIsolation
  <2> SUFFICES ASSUME AccessInv, NEW r \in Request, request[r].filter # None
               PROVE  /\ \A x \in request[r].shown : Owner(x) = request[r].filter
                      /\ request[r].pc = "written" =>
                           (IF request[r].on \in App THEN request[r].new.owner
                            ELSE Owner(request[r].on)) = request[r].filter
    BY DEF TenantIsolation
  <2>1. Fits(request[r]) BY DEF AccessInv
  <2>2. QED BY <2>1 DEF Fits, PendingFits
<1>2. QED BY <1>1, AccessAlways, PTL

\* An app stays with the developer it was created for.
THEOREM AppsStayPut == Spec => AppsStay
<1>1. AccessInv /\ [Next]_vars =>
        [\A a \in App : Exists(a) => Exists(a)' /\ Owner(a)' = Owner(a)]_vars
  <2> SUFFICES ASSUME AccessInv, Next, NEW a \in App, Exists(a)
               PROVE  Exists(a)' /\ Owner(a)' = Owner(a)
    OBVIOUS
  <2>1. ASSUME NEW r \in Request, Commit(r) PROVE Exists(a)' /\ row'[a].owner = row[a].owner
    BY <2>1, CommitKeeps
  <2>2. ~(\E r \in Request : Commit(r)) => UNCHANGED row
    BY DEF Next, Operate, Receive, NoteUse, CreateToken, RevokeToken, InsertWallet, InsertApp,
           UpdateApp, ArchiveApp, CreateFeature, UpdateFeature, DeleteFeature, CreateKey,
           DisableKey, Write, ListTokens, ListApps, ListFeatures, ListKeys, ReadWallets,
           ReadAudit, ReadUsage, Show, Answer, WorkElsewhere, Fail, Expire, Restart, vars
  <2>3. Exists(a)' /\ row'[a].owner = row[a].owner BY <2>1, <2>2 DEF Exists
  <2>4. QED BY <2>3, KindsDiffer DEF Owner
<1>2. QED BY <1>1, AccessAlways, PTL DEF Spec, AppsStay

\* A request that goes on, or ends, does so with the credential it was let in with.
LEMMA CredentialKept ==
  ASSUME AccessInv, NEW r \in Request, Operate(r) \/ Fail(r), NEW s \in Request,
         request'[s].by # None
  PROVE  request'[s].by = request[s].by
<1>1. request \in [Request -> RequestType] /\ request[r] \in RequestType
  BY DEF AccessInv, TypeOK
<1>2. CASE Leave(r) BY <1>1, <1>2, IdleFits DEF Leave
<1>3. ASSUME NEW possible, NEW new, Write(r, possible, new)
      PROVE  request'[s].by = request[s].by
  <2>1. CASE Leave(r) BY <1>2, <2>1
  <2>2. CASE request' = [request EXCEPT ![r].pc = "written", ![r].new = new]
    BY <1>1, <2>2 DEF RequestType
  <2>3. QED BY <1>3, <2>1, <2>2 DEF Write
<1>4. ASSUME NEW rows, NEW pc, Show(r, rows, pc) PROVE request'[s].by = request[s].by
  <2>1. request' = [request EXCEPT ![r].pc = pc, ![r].shown = request[r].shown \cup rows]
    BY <1>4 DEF Show
  <2>2. QED BY <1>1, <2>1 DEF RequestType
<1>5. CASE NoteUse(r)
  <2>1. CASE request' = [request EXCEPT ![r].pc = "authorized"]
    BY <1>1, <2>1 DEF RequestType
  <2>2. QED BY <1>2, <1>5, <2>1 DEF NoteUse
<1>6. CASE InsertWallet(r)
  <2>1. PICK wallet : request' = [request EXCEPT ![r].pc = "walleted", ![r].wallet = wallet]
    BY <1>6 DEF InsertWallet
  <2>2. QED BY <1>1, <2>1 DEF RequestType
<1>7. CASE CreateToken(r) \/ RevokeToken(r) \/ InsertApp(r) \/ UpdateApp(r) \/ ArchiveApp(r)
           \/ CreateFeature(r) \/ UpdateFeature(r) \/ DeleteFeature(r)
           \/ CreateKey(r) \/ DisableKey(r)
  <2>1. \E possible, new : Write(r, possible, new)
    BY <1>7 DEF CreateToken, RevokeToken, InsertApp, UpdateApp, ArchiveApp, CreateFeature,
                UpdateFeature, DeleteFeature, CreateKey, DisableKey
  <2>2. QED BY <1>3, <2>1
<1>8. CASE ListTokens(r) \/ ListApps(r) \/ ListFeatures(r) \/ ListKeys(r)
           \/ ReadWallets(r) \/ ReadAudit(r) \/ ReadUsage(r)
  <2>1. \E rows, pc : Show(r, rows, pc)
    BY <1>8 DEF ListTokens, ListApps, ListFeatures, ListKeys, ReadWallets, ReadAudit, ReadUsage
  <2>2. QED BY <1>4, <2>1
<1>9. CASE Commit(r) \/ Answer(r) \/ WorkElsewhere(r) \/ Fail(r)
  BY <1>2, <1>9 DEF Commit, Answer, WorkElsewhere, Fail
<1>10. QED BY <1>5, <1>6, <1>7, <1>8, <1>9 DEF Operate

\* A token that is revoked, or has expired, lets nobody in; a revoked one stays so.
THEOREM RevokedIsFinal == Spec => RevocationIsFinal
<1>1. AccessInv /\ [Next]_vars =>
        [\A t \in Token :
           /\ row[t].status = "revoked" => row'[t].status = "revoked"
           /\ (row[t].status = "revoked" \/ t \in expired) =>
                \A r \in Request : request'[r].by = t => request[r].by = t]_vars
  <2> SUFFICES ASSUME AccessInv, Next, NEW t \in Token
               PROVE  /\ row[t].status = "revoked" => row'[t].status = "revoked"
                      /\ (row[t].status = "revoked" \/ t \in expired) =>
                           \A s \in Request : request'[s].by = t => request[s].by = t
    OBVIOUS
  <2>1. ASSUME row[t].status = "revoked" PROVE row'[t].status = "revoked"
    <3>1. ASSUME NEW r \in Request, Commit(r) PROVE row'[t] = row[t]
      <4> DEFINE on == request[r].on
      <4>1. /\ PendingFits(request[r])
            /\ \A x \in App \cup Feature \cup Key \cup Token : x # on => row'[x] = row[x]
        BY <3>1, CommitKeeps
      <4>2. t # on BY <2>1, <4>1, KindsDiffer DEF PendingFits, Exists
      <4>3. QED BY <4>1, <4>2
    <3>2. ~(\E r \in Request : Commit(r)) => UNCHANGED row
      BY DEF Next, Operate, Receive, NoteUse, CreateToken, RevokeToken, InsertWallet, InsertApp,
             UpdateApp, ArchiveApp, CreateFeature, UpdateFeature, DeleteFeature, CreateKey,
             DisableKey, Write, ListTokens, ListApps, ListFeatures, ListKeys, ReadWallets,
             ReadAudit, ReadUsage, Show, Answer, WorkElsewhere, Fail, Expire, Restart, vars
    <3>3. QED BY <2>1, <3>1, <3>2
  <2>2. ASSUME row[t].status = "revoked" \/ t \in expired, NEW s \in Request,
               request'[s].by = t
        PROVE  request[s].by = t
    <3>1. t # None /\ request \in [Request -> RequestType]
      BY KindsDiffer DEF Resource, AccessInv, TypeOK
    <3>2. ASSUME NEW r \in Request, NEW o \in Ops, NEW x \in Demand(o).about,
                 NEW c \in Token \cup {Operator, EndUser, None}, Receive(r, o, x, c)
          PROVE  request[s].by = t
      <4>1. c # t
        <5>1. SUFFICES ASSUME c = t PROVE FALSE OBVIOUS
        <5>2. ~IsLive(t) BY <2>2 DEF IsLive
        <5>3. t # Operator /\ t # EndUser BY AccessAssumption
        <5>4. ~Credential(Demand(o).credential, t)
          BY <3>1, <5>2, <5>3 DEF Credential, DeveloperCredential
        <5>5. QED BY <3>2, <5>1, <5>4 DEF Receive
      <4>2. PICK q \in {[Idle EXCEPT !.pc = IF c \in Token THEN "recognized" ELSE "authorized",
                                     !.op = o, !.on = x, !.by = c,
                                     !.filter = IF c \in Token THEN Holder[c] ELSE None]} :
              request' = [request EXCEPT ![r] = q]
        BY <3>2 DEF Receive
      <4>3. q.by = c BY DEF Idle
      <4>4. QED BY <2>2, <3>1, <4>1, <4>2, <4>3
    <3>3. ASSUME NEW r \in Request, Operate(r) \/ Fail(r) PROVE request[s].by = t
      BY <2>2, <3>1, <3>3, CredentialKept
    <3>4. CASE Restart
      <4>1. request'[s] = Idle BY <3>4 DEF Restart
      <4>2. QED BY <2>2, <3>1, <4>1, IdleFits
    <3>5. CASE UNCHANGED request BY <2>2, <3>5
    <3>6. QED BY <3>2, <3>3, <3>4, <3>5 DEF Next, Expire, vars
  <2>3. QED BY <2>1, <2>2
<1>2. QED BY <1>1, AccessAlways, PTL DEF Spec, RevocationIsFinal
=============================================================================
