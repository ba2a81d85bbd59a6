-------------------------- MODULE AdmissionProofs --------------------------
(* How completions are admitted, for every number of requests, sessions,    *)
(* apps and keys and for all limits, prices and budgets.                   *)
EXTENDS Admission, Sums

-----------------------------------------------------------------------------
(* The inductive invariant.  A chosen key stays active because its row's     *)
(* lock is held and locks are exclusive; a budget is kept because a request  *)
(* that has checked it holds that lock until it is counted.                 *)

LocksAreExclusive ==
  \A c, d \in Chat : c # d => chat[c].held \cap chat[d].held = {}

ChosenKeysAreLocked ==
  \A c \in Chat :
    chat[c].pc \in {"routed", "checked"} /\ chat[c].key # None =>
      KeyLock(chat[c].key) \in chat[c].held

LoadedHasNoKey == \A c \in Chat : chat[c].pc = "loaded" => chat[c].key = None

\* The advisory locks are held from the first one on.
LocksInOrder(s) == {{}, {AppLock(AppOfSession(s))}, {AppLock(AppOfSession(s)), SessionLock(s)}}

LocksAreOrdered ==
  \A c \in Chat : chat[c].pc = "loaded" => chat[c].held \in LocksInOrder(chat[c].session)

CheckedFits ==
  \A c \in Chat : chat[c].pc = "checked" /\ OnDeveloperKey(c) =>
                    KeyUse(chat[c].key) + Upstream <= Budget

AdmissionInv == /\ TypeOK
                /\ LocksAreExclusive
                /\ LoadedHasNoKey
                /\ LocksAreOrdered
                /\ ChosenKeysAreLocked
                /\ ChosenKeysAreActive
                /\ CheckedFits
                /\ BudgetKept

ChatRow == [pc : {"idle", "refused"} \cup InTransaction \cup Stored,
            session : Session \cup {None}, feature : FeatureKey \cup {None},
            cap : Cap \cup {None}, key : Key \cup {None},
            fallback : BOOLEAN, held : SUBSET Lock]

OfDeveloper(k) == OwnerOf[k] \in Developer

\* A key's use is a number, and what a request adds is its upstream cost.
LEMMA UseOfKey ==
  ASSUME NEW k
  PROVE  /\ KeyUse(k) \in Nat
         /\ \A S \in SUBSET InUse(k) : IsFiniteSet(S) /\ Upstream * Cardinality(S) <= KeyUse(k)
         /\ \A c \in Chat \ InUse(k) :
              Upstream * Cardinality(InUse(k) \cup {c}) = KeyUse(k) + Upstream
<1> USE AdmissionAssumption
<1>1. IsFiniteSet(InUse(k))
  <2>1. InUse(k) \subseteq Chat BY DEF InUse
  <2>2. QED BY <2>1, FS_Subset
<1>2. Cardinality(InUse(k)) \in Nat BY <1>1, FS_CardinalityType
<1>3. KeyUse(k) \in Nat BY <1>2 DEF KeyUse
<1>4. ASSUME NEW S \in SUBSET InUse(k)
      PROVE  IsFiniteSet(S) /\ Upstream * Cardinality(S) <= KeyUse(k)
  <2>1. IsFiniteSet(S) /\ Cardinality(S) <= Cardinality(InUse(k)) BY <1>1, FS_Subset
  <2>2. Cardinality(S) \in Nat BY <2>1, FS_CardinalityType
  <2>3. \A m, n \in Nat : m <= n => Upstream * m <= Upstream * n OBVIOUS
  <2>4. QED BY <1>2, <2>1, <2>2, <2>3 DEF KeyUse
<1>5. ASSUME NEW c \in Chat \ InUse(k)
      PROVE  Upstream * Cardinality(InUse(k) \cup {c}) = KeyUse(k) + Upstream
  <2>1. Cardinality(InUse(k) \cup {c}) = Cardinality(InUse(k)) + 1
    BY <1>1, FS_AddElement
  <2>2. \A n \in Nat : Upstream * (n + 1) = Upstream * n + Upstream OBVIOUS
  <2>3. QED BY <1>2, <2>1, <2>2 DEF KeyUse
<1>6. QED BY <1>3, <1>4, <1>5

\* What a step of one request must do to keep the invariant: hold locks that nobody
\* else holds, the chosen key's among them, and be counted on a key only once its
\* budget has been checked.
LEMMA ChatStep ==
  ASSUME AdmissionInv, NEW c \in Chat, NEW r \in ChatRow,
         chat' = [chat EXCEPT ![c] = r],
         UNCHANGED <<app, feature, key, session>>,
         r.pc \in InTransaction \cup Stored => r.session # None,
         r.pc \notin InTransaction => r.held = {},
         r.pc = "loaded" => r.key = None /\ r.held \in LocksInOrder(r.session),
         \A l \in r.held : l \in chat[c].held \/ Free(l),
         r.pc \in {"routed", "checked"} /\ r.key # None =>
           /\ KeyLock(r.key) \in r.held
           /\ key[r.key] = "active"
           /\ OwnerOf[r.key] \in {UserOf[r.session], DeveloperOf[AppOfSession(r.session)]},
         r.pc = "checked" /\ r.key # None /\ OfDeveloper(r.key) =>
           KeyUse(r.key) + Upstream <= Budget,
         r.pc \in {"reserved", "settled"} /\ r.key # None =>
           chat[c].key = r.key /\ chat[c].pc \in {"checked", "reserved", "settled"}
  PROVE  AdmissionInv'
<1> USE AdmissionAssumption
<1>t. TypeOK /\ chat \in [Chat -> ChatRow] BY DEF AdmissionInv, TypeOK, ChatRow
<1>c. chat'[c] = r /\ \A d \in Chat : d # c => chat'[d] = chat[d] BY <1>t
<1>1. TypeOK'
  <2>1. chat' \in [Chat -> ChatRow] BY <1>t
  <2>2. QED BY <1>t, <1>c, <2>1 DEF TypeOK, ChatRow
<1>2. LocksAreExclusive' BY <1>c DEF AdmissionInv, LocksAreExclusive, Free
<1>3. ChosenKeysAreLocked' /\ LoadedHasNoKey' /\ LocksAreOrdered'
  BY <1>c DEF AdmissionInv, ChosenKeysAreLocked, LoadedHasNoKey, LocksAreOrdered
<1>4. ChosenKeysAreActive'
  BY <1>c DEF AdmissionInv, ChosenKeysAreActive, UserOfChat, AppOfChat, AppOfSession
<1>u. ASSUME NEW k \in Key, OfDeveloper(k)
      PROVE  \/ KeyUse(k)' <= KeyUse(k)
             \/ /\ chat[c].pc = "checked" /\ chat[c].key = k
                /\ r.pc # "checked"
                /\ KeyUse(k)' = KeyUse(k) + Upstream
  <2>1. CASE c \in InUse(k)' \ InUse(k)
    <3>1. r.key = k /\ r.pc \in {"reserved", "settled"} BY <1>c, <2>1 DEF InUse
    <3>2. chat[c].pc = "checked" /\ chat[c].key = k BY <3>1, <2>1 DEF InUse
    <3>3. InUse(k)' = InUse(k) \cup {c} BY <1>c, <2>1 DEF InUse
    <3>4. KeyUse(k)' = KeyUse(k) + Upstream BY <2>1, <3>3, UseOfKey DEF KeyUse
    <3>5. QED BY <3>1, <3>2, <3>4
  <2>2. CASE c \notin InUse(k)' \ InUse(k)
    <3>1. InUse(k)' \subseteq InUse(k) BY <1>c, <2>2 DEF InUse
    <3>2. QED BY <3>1, UseOfKey DEF KeyUse
  <2>3. QED BY <2>1, <2>2
<1>n. ASSUME NEW k \in Key PROVE KeyUse(k) \in Nat /\ KeyUse(k)' \in Nat
  <2>1. InUse(k)' \subseteq Chat BY DEF InUse
  <2>2. Cardinality(InUse(k)') \in Nat BY <2>1, FS_Subset, FS_CardinalityType
  <2>3. QED BY <2>2, UseOfKey DEF KeyUse
<1>5. CheckedFits'
  <2> SUFFICES ASSUME NEW d \in Chat, (chat[d].pc = "checked" /\ OnDeveloperKey(d))'
               PROVE  (KeyUse(chat[d].key) + Upstream <= Budget)'
    BY DEF CheckedFits
  <2>1. PICK k \in Key : chat'[d].key = k /\ k # None /\ OfDeveloper(k)
    BY <1>1 DEF OnDeveloperKey, TypeOK, OfDeveloper
  <2>2. CASE d = c
    <3>1. KeyUse(k) + Upstream <= Budget BY <1>c, <2>1, <2>2
    <3>2. KeyUse(k)' <= KeyUse(k) BY <1>c, <1>u, <2>1, <2>2
    <3>3. KeyUse(k)' + Upstream <= Budget BY <1>n, <3>1, <3>2
    <3>4. QED BY <2>1, <3>3 DEF KeyUse, InUse
  <2>3. CASE d # c
    <3>1. chat[d].pc = "checked" /\ chat[d].key = k BY <1>c, <2>1, <2>3
    <3>2. KeyUse(k) + Upstream <= Budget
      BY <2>1, <3>1 DEF AdmissionInv, CheckedFits, OnDeveloperKey, OfDeveloper
    <3>3. ~(chat[c].pc = "checked" /\ chat[c].key = k)
      BY <2>1, <2>3, <3>1 DEF AdmissionInv, ChosenKeysAreLocked, LocksAreExclusive
    <3>4. KeyUse(k)' + Upstream <= Budget BY <1>n, <1>u, <2>1, <3>2, <3>3
    <3>5. QED BY <2>1, <3>4 DEF KeyUse, InUse
  <2>4. QED BY <2>2, <2>3
<1>6. BudgetKept'
  <2> SUFFICES ASSUME NEW k \in Key, OfDeveloper(k) PROVE KeyUse(k)' <= Budget
    BY DEF BudgetKept, OfDeveloper, KeyUse, InUse
  <2>1. KeyUse(k) <= Budget BY DEF AdmissionInv, BudgetKept, OfDeveloper
  <2>2. chat[c].pc = "checked" /\ chat[c].key = k => KeyUse(k) + Upstream <= Budget
    BY DEF AdmissionInv, CheckedFits, OnDeveloperKey, OfDeveloper
  <2>3. QED BY <1>n, <1>u, <2>1, <2>2
<1>7. QED BY <1>1, <1>2, <1>3, <1>4, <1>5, <1>6 DEF AdmissionInv

-----------------------------------------------------------------------------
(* The steps                                                               *)

\* Nothing has begun at first.
LEMMA AdmissionInit == Init => AdmissionInv
<1> SUFFICES ASSUME Init PROVE AdmissionInv OBVIOUS
<1> USE AdmissionAssumption
<1>1. TypeOK BY DEF Init, TypeOK, NewChat, InTransaction, Stored
<1>2. \A k : InUse(k) = {} BY DEF Init, InUse, NewChat
<1>3. BudgetKept
  <2>1. Cardinality({}) = 0 BY FS_EmptySet
  <2>2. \A k : KeyUse(k) = 0 BY <1>2, <2>1 DEF KeyUse
  <2>3. QED BY <2>2 DEF BudgetKept
<1>4. QED
  BY <1>1, <1>3 DEF Init, NewChat, AdmissionInv, LocksAreExclusive, ChosenKeysAreLocked,
    LoadedHasNoKey, LocksAreOrdered, ChosenKeysAreActive, CheckedFits

\* The next advisory lock is the app's if none is held, and then the session's.
LEMMA NextLock ==
  ASSUME TypeOK, LocksAreOrdered, NEW c \in Chat, chat[c].pc = "loaded",
         NEW l \in NextSpendLock(c)
  PROVE  /\ l \in Lock /\ l \notin chat[c].held
         /\ chat[c].held \cup {l} \in LocksInOrder(chat[c].session)
         /\ l = SessionLock(chat[c].session) => AppLock(AppOfChat(c)) \in chat[c].held
<1> DEFINE s == chat[c].session
           A == AppLock(AppOfSession(s))
           S == SessionLock(s)
           locks == SpendLocks(c)
<1>1. s \in Session /\ A \in Lock /\ S \in Lock /\ A # S
  BY AdmissionAssumption DEF TypeOK, InTransaction, Lock, AppLock, SessionLock, AppOfSession
<1>2. chat[c].held \in {{}, {A}, {A, S}} BY DEF LocksAreOrdered, LocksInOrder
<1>3. locks = <<>> \/ locks = <<A, S>> BY DEF SpendLocks, AppOfChat
<1>4. PICK i \in DOMAIN locks :
        l = locks[i] /\ \A h \in DOMAIN locks : h < i <=> locks[h] \in chat[c].held
  BY DEF NextSpendLock
<1>5. locks = <<A, S>> BY <1>3, <1>4
<1>6. DOMAIN locks = {1, 2} /\ locks[1] = A /\ locks[2] = S BY <1>5
<1> HIDE DEF A, S, locks
<1>7. /\ 1 < i <=> A \in chat[c].held
      /\ 2 < i <=> S \in chat[c].held
  BY <1>4, <1>6
<1>8. \/ i = 1 /\ l = A /\ chat[c].held = {}
      \/ i = 2 /\ l = S /\ chat[c].held = {A}
  BY <1>1, <1>2, <1>4, <1>6, <1>7
<1>9. QED BY <1>1, <1>8 DEF LocksInOrder, A, S, AppOfChat

\* The console, session and key transactions leave the requests alone, and disable no
\* key that one of them has locked.
LEMMA ConsoleStep ==
  ASSUME AdmissionInv, TypeOK', UNCHANGED chat,
         \A c \in Chat, k \in Key :
           key[k] = "active" /\ KeyLock(k) \in chat[c].held => key'[k] = "active"
  PROVE  AdmissionInv'
<1>1. ChosenKeysAreActive'
  BY AdmissionAssumption DEF AdmissionInv, TypeOK, ChosenKeysAreActive, ChosenKeysAreLocked,
    UserOfChat, AppOfChat, AppOfSession
<1>2. CheckedFits' /\ BudgetKept'
  BY DEF AdmissionInv, CheckedFits, BudgetKept, OnDeveloperKey, KeyUse, InUse
<1>3. QED
  BY <1>1, <1>2 DEF AdmissionInv, LocksAreExclusive, LoadedHasNoKey, LocksAreOrdered,
    ChosenKeysAreLocked

\* Every step of the console and of a request keeps the invariant.
LEMMA AdmissionStep == AdmissionInv /\ [Next]_vars => AdmissionInv'
<1> SUFFICES ASSUME AdmissionInv, [Next]_vars PROVE AdmissionInv' OBVIOUS
<1> USE AdmissionAssumption
<1>t. TypeOK BY DEF AdmissionInv
<1>r. chat \in [Chat -> ChatRow] BY <1>t DEF TypeOK, ChatRow
<1>1. ASSUME NEW a \in App, UpdateApp(a) PROVE AdmissionInv'
  <2>1. TypeOK' BY <1>1, <1>t DEF UpdateApp, TypeOK
  <2>2. QED BY <1>1, <2>1, ConsoleStep DEF UpdateApp
<1>2. ASSUME NEW a \in App, NEW f \in FeatureKey, CreateFeature(a, f) \/ DeleteFeature(a, f)
      PROVE  AdmissionInv'
  <2>1. TypeOK' BY <1>2, <1>t DEF CreateFeature, DeleteFeature, TypeOK
  <2>2. QED BY <1>2, <2>1, ConsoleStep DEF CreateFeature, DeleteFeature
<1>3. ASSUME NEW s \in Session, NEW f \in FeatureKey \cup {None}, CreateSession(s, f)
      PROVE  AdmissionInv'
  <2>1. TypeOK' BY <1>3, <1>t DEF CreateSession, TypeOK
  <2>2. QED BY <1>3, <2>1, ConsoleStep DEF CreateSession
<1>4. ASSUME NEW s \in Session, EndSession(s) PROVE AdmissionInv'
  <2>1. TypeOK' BY <1>4, <1>t DEF EndSession, TypeOK
  <2>2. QED BY <1>4, <2>1, ConsoleStep DEF EndSession
<1>5. ASSUME NEW k \in Key, StoreKey(k) PROVE AdmissionInv'
  <2>1. TypeOK' BY <1>5, <1>t DEF StoreKey, TypeOK
  <2>2. QED BY <1>5, <1>t, <2>1, ConsoleStep DEF StoreKey, TypeOK
<1>6. ASSUME NEW k \in Key, DisableKey(k) PROVE AdmissionInv'
  <2>1. TypeOK' BY <1>6, <1>t DEF DisableKey, TypeOK
  <2>2. QED BY <1>6, <1>t, <2>1, ConsoleStep DEF DisableKey, TypeOK, Free
<1>7. ASSUME NEW c \in Chat, NEW s \in Session, NEW f \in FeatureKey \cup {None},
             LoadSession(c, s, f)
      PROVE  AdmissionInv'
  <2> DEFINE r == [NewChat EXCEPT !.pc = "loaded", !.session = s,
                                  !.feature = IF f # None THEN f ELSE session[s].feature,
                                  !.cap = app[AppOfSession(s)].cap]
  <2>1. r \in ChatRow BY <1>t DEF TypeOK, ChatRow, NewChat, InTransaction, AppOfSession
  <2>2. r.pc = "loaded" /\ r.session = s /\ r.held = {} /\ r.key = None BY DEF NewChat
  <2>3. chat' = [chat EXCEPT ![c] = r] /\ UNCHANGED <<app, feature, key, session>>
    BY <1>7 DEF LoadSession
  <2> HIDE DEF r
  <2>4. QED BY <2>1, <2>2, <2>3, ChatStep DEF InTransaction, LocksInOrder
<1>8. ASSUME NEW c \in Chat, LockSpend(c) PROVE AdmissionInv'
  <2>1. PICK l \in NextSpendLock(c) : Free(l) /\ chat' = [chat EXCEPT ![c].held = @ \cup {l}]
    BY <1>8 DEF LockSpend
  <2> DEFINE r == [chat[c] EXCEPT !.held = @ \cup {l}]
  <2>2. /\ chat[c].pc = "loaded" /\ chat[c].session \in Session /\ chat[c].key = None
        /\ UNCHANGED <<app, feature, key, session>>
    BY <1>8, <1>t DEF LockSpend, TypeOK, InTransaction, AdmissionInv, LoadedHasNoKey
  <2>3. l \in Lock /\ chat[c].held \cup {l} \in LocksInOrder(chat[c].session)
    BY <1>t, <2>2, NextLock DEF AdmissionInv
  <2>4. r \in ChatRow BY <1>r, <2>3 DEF ChatRow
  <2>5. /\ r.pc = "loaded" /\ r.session = chat[c].session /\ r.key = None
        /\ r.held = chat[c].held \cup {l}
    BY <1>r, <2>2 DEF ChatRow
  <2>6. chat' = [chat EXCEPT ![c] = r] BY <1>r, <2>1
  <2> HIDE DEF r
  <2>7. \A m \in r.held : m \in chat[c].held \/ Free(m) BY <2>1, <2>5
  <2>8. QED BY <2>2, <2>3, <2>4, <2>5, <2>6, <2>7, ChatStep DEF InTransaction
<1>9. ASSUME NEW c \in Chat, Route(c) PROVE AdmissionInv'
  <2>1. /\ chat[c].pc = "loaded" /\ chat[c].session \in Session /\ chat[c].held \subseteq Lock
        /\ UNCHANGED <<app, feature, key, session>>
    BY <1>9, <1>t DEF Route, TypeOK, InTransaction
  <2>2. ASSUME chat' = [chat EXCEPT ![c].pc = "routed", ![c].feature = None]
        PROVE  AdmissionInv'
    <3> DEFINE r == [chat[c] EXCEPT !.pc = "routed", !.feature = None]
    <3>1. r \in ChatRow BY <1>r DEF ChatRow, InTransaction
    <3>2. /\ r.pc = "routed" /\ r.session = chat[c].session /\ r.key = None
          /\ r.held = chat[c].held
      BY <1>r, <2>1 DEF ChatRow, AdmissionInv, LoadedHasNoKey
    <3>3. chat' = [chat EXCEPT ![c] = r] BY <1>r, <2>2
    <3> HIDE DEF r
    <3>4. QED BY <2>1, <3>1, <3>2, <3>3, ChatStep DEF InTransaction
  <2>3. ASSUME NEW k \in Key, NEW fb \in BOOLEAN,
               key[k] = "active", OwnerOf[k] \in {UserOfChat(c), DeveloperOf[AppOfChat(c)]},
               Free(KeyLock(k)),
               chat' = [chat EXCEPT ![c].pc = "routed", ![c].feature = None, ![c].key = k,
                                   ![c].fallback = fb, ![c].held = @ \cup {KeyLock(k)}]
        PROVE  AdmissionInv'
    <3> DEFINE r == [chat[c] EXCEPT !.pc = "routed", !.feature = None, !.key = k,
                                    !.fallback = fb, !.held = @ \cup {KeyLock(k)}]
    <3>1. r \in ChatRow
      <4>1. KeyLock(k) \in Lock BY DEF KeyLock, Lock
      <4>2. QED BY <1>r, <4>1 DEF ChatRow, InTransaction
    <3>2. /\ r.pc = "routed" /\ r.session = chat[c].session /\ r.key = k
          /\ r.held = chat[c].held \cup {KeyLock(k)}
      BY <1>r DEF ChatRow
    <3>3. chat' = [chat EXCEPT ![c] = r] BY <1>r, <2>3
    <3> HIDE DEF r
    <3>4. \A l \in r.held : l \in chat[c].held \/ Free(l) BY <2>3, <3>2
    <3>5. /\ KeyLock(r.key) \in r.held /\ key[r.key] = "active"
          /\ OwnerOf[r.key] \in {UserOf[r.session], DeveloperOf[AppOfSession(r.session)]}
      BY <2>3, <3>2 DEF UserOfChat, AppOfChat
    <3>6. QED BY <2>1, <3>1, <3>2, <3>3, <3>4, <3>5, ChatStep DEF InTransaction
  <2>4. ASSUME NEW byok \in BOOLEAN, NEW developer \in BOOLEAN,
               NEW k \in KeysToTry(c, byok, developer)
        PROVE  /\ k \in Key /\ key[k] = "active"
               /\ OwnerOf[k] \in {UserOfChat(c), DeveloperOf[AppOfChat(c)]}
    BY DEF KeysToTry, ActiveKeys
  <2>5. QED BY <1>9, <2>2, <2>3, <2>4 DEF Route, KeyLocks
<1>u. ASSUME NEW c \in Chat, UNCHANGED <<app, feature, key, session>>, chat' = Undone(c)
      PROVE  AdmissionInv'
  <2> DEFINE r == [NewChat EXCEPT !.pc = "refused"]
  <2>1. r \in ChatRow BY DEF ChatRow, NewChat
  <2>2. r.pc = "refused" /\ r.held = {} /\ r.key = None BY DEF NewChat
  <2>3. chat' = [chat EXCEPT ![c] = r] BY <1>u DEF Undone
  <2> HIDE DEF r
  <2>4. QED BY <1>u, <2>1, <2>2, <2>3, ChatStep DEF InTransaction, Stored
<1>10. ASSUME NEW c \in Chat, CheckLimits(c) \/ Reserve(c) \/ Finish(c)
       PROVE  AdmissionInv'
  <2>1. /\ chat[c].pc \in {"routed", "checked", "reserved"} /\ chat[c].session \in Session
        /\ UNCHANGED <<app, feature, key, session>>
    BY <1>10, <1>t DEF CheckLimits, Reserve, Finish, TypeOK, InTransaction, Stored
  <2>2. CASE CheckLimits(c)
    <3> DEFINE r == [chat[c] EXCEPT !.pc = "checked"]
    <3>1. /\ chat[c].pc = "routed" /\ WithinBudget(c)
          /\ chat' = [chat EXCEPT ![c].pc = "checked"]
      BY <2>2 DEF CheckLimits
    <3>2. r \in ChatRow BY <1>r DEF ChatRow, InTransaction
    <3>3. /\ r.pc = "checked" /\ r.session = chat[c].session /\ r.key = chat[c].key
          /\ r.held = chat[c].held
      BY <1>r DEF ChatRow
    <3>4. chat' = [chat EXCEPT ![c] = r] BY <1>r, <3>1
    <3> HIDE DEF r
    <3>5. r.key # None =>
            /\ KeyLock(r.key) \in r.held /\ key[r.key] = "active"
            /\ OwnerOf[r.key] \in {UserOf[r.session], DeveloperOf[AppOfSession(r.session)]}
      BY <3>1, <3>3 DEF AdmissionInv, ChosenKeysAreLocked, ChosenKeysAreActive, UserOfChat,
        AppOfChat
    <3>6. r.key # None /\ OfDeveloper(r.key) => KeyUse(r.key) + Upstream <= Budget
      BY <3>1, <3>3 DEF WithinBudget, OnDeveloperKey, OfDeveloper
    <3>7. QED BY <2>1, <3>2, <3>3, <3>4, <3>5, <3>6, ChatStep DEF InTransaction
  <2>3. ASSUME NEW pc \in Stored, NEW r \in ChatRow, r = [chat[c] EXCEPT !.pc = pc, !.held = {}],
               pc \in {"reserved", "settled"} => chat[c].pc \in {"checked", "reserved"},
               chat' = [chat EXCEPT ![c] = r]
        PROVE  AdmissionInv'
    <3>1. r.pc = pc /\ r.session = chat[c].session /\ r.key = chat[c].key /\ r.held = {}
      BY <1>r, <2>3 DEF ChatRow
    <3>2. QED BY <2>1, <2>3, <3>1, ChatStep DEF InTransaction, Stored
  <2>4. ASSUME NEW pc \in Stored
        PROVE  [chat[c] EXCEPT !.pc = pc, !.held = {}] \in ChatRow
    BY <1>r DEF ChatRow
  <2>5. CASE Reserve(c)
    <3>1. chat[c].pc = "checked" /\ chat' = [chat EXCEPT ![c].pc = "reserved", ![c].held = {}]
      BY <2>5 DEF Reserve, StoredRow
    <3>2. chat' = [chat EXCEPT ![c] = [chat[c] EXCEPT !.pc = "reserved", !.held = {}]]
      BY <1>r, <3>1
    <3>3. QED BY <2>3, <2>4, <3>1, <3>2 DEF Stored
  <2>6. CASE Finish(c) /\ chat' # Undone(c)
    <3>1. chat[c].pc = "reserved" /\ chat[c].held = {}
      BY <2>6, <1>t DEF Finish, TypeOK, InTransaction
    <3>2. PICK pc \in {"settled", "review", "rerouted"} : chat' = [chat EXCEPT ![c].pc = pc]
      BY <2>6 DEF Finish
    <3>3. chat' = [chat EXCEPT ![c] = [chat[c] EXCEPT !.pc = pc, !.held = {}]]
      BY <1>r, <3>1, <3>2 DEF ChatRow
    <3>4. QED BY <2>3, <2>4, <3>1, <3>3 DEF Stored
  <2>7. QED BY <1>10, <1>u, <2>1, <2>2, <2>5, <2>6
<1>11. ASSUME NEW c \in Chat, Refuse(c) \/ Abort(c) PROVE AdmissionInv'
  BY <1>11, <1>u DEF Refuse, Abort
<1>12. ASSUME UNCHANGED vars PROVE AdmissionInv'
  <2>1. TypeOK' BY <1>12, <1>t DEF vars, TypeOK
  <2>2. QED BY <1>12, <2>1, ConsoleStep DEF vars
<1>13. QED
  BY <1>1, <1>2, <1>3, <1>4, <1>5, <1>6, <1>7, <1>8, <1>9, <1>10, <1>11, <1>12 DEF Next

\* The invariant holds in every state.
LEMMA AdmissionInvariant == Spec => []AdmissionInv
BY AdmissionInit, AdmissionStep, PTL DEF Spec

-----------------------------------------------------------------------------
(* The spend limits.  CapKept alone is not inductive: a request that was     *)
(* held to a large limit may be released, and one that was held to none may *)
(* be.  What is, is that among any of an app's requests with a limit, one   *)
(* has a limit they all fit in together: the one that was checked last.     *)

SpendIn(S) == SumFunctionOnSet([c \in Chat |-> Spend(c)], S)

\* The stored requests of an app that were held to a limit.
Limited(a) == {c \in Chat : Spend(c) > 0 /\ AppOfChat(c) = a /\ chat[c].cap # None}

CapsHold ==
  \A a \in App : \A S \in SUBSET Limited(a) :
    S # {} => \E c \in S : SpendIn(S) <= chat[c].cap

\* From its check on, a request fits in its limit with the others of the app.
CheckedWithinCap ==
  \A c \in Chat : chat[c].pc = "checked" /\ chat[c].cap # None =>
                    SpendIn(Limited(AppOfChat(c))) + Hold(c) <= chat[c].cap

\* It holds the app's lock.
LimitedHoldLock ==
  \A c \in Chat : chat[c].pc \in {"routed", "checked"} /\ chat[c].cap # None =>
                    AppLock(AppOfChat(c)) \in chat[c].held

CapInv == CapsHold /\ CheckedWithinCap /\ LimitedHoldLock

\* What a request reserves and spends, as its row has it.
HoldOf(r) == IF r.key # None /\ OwnerOf[r.key] \in User /\ ~r.fallback THEN 0 ELSE Price
SpendOf(r) ==
  CASE r.pc \in {"reserved", "review"} -> HoldOf(r)
    [] r.pc = "settled" -> IF r.key # None /\ OwnerOf[r.key] \in User THEN 0 ELSE Price
    [] r.pc = "rerouted" -> Price
    [] OTHER -> 0

\* What a request holds and spends is read from its own row.
LEMMA SpendOfRow ==
  ASSUME NEW c
  PROVE  /\ Hold(c) = HoldOf(chat[c]) /\ Spend(c) = SpendOf(chat[c])
         /\ Hold(c)' = HoldOf(chat'[c]) /\ Spend(c)' = SpendOf(chat'[c])
BY DEF Hold, Spend, HoldOf, SpendOf, OnUserKey

\* It is a natural number.
LEMMA SpendOfType ==
  ASSUME NEW r
  PROVE  HoldOf(r) \in Nat /\ SpendOf(r) \in Nat
BY AdmissionAssumption DEF HoldOf, SpendOf

\* A limit is a number.
LEMMA CapOfRow ==
  ASSUME NEW r \in ChatRow, r.cap # None
  PROVE  r.cap \in Int
<1>1. Cap \subseteq Int
  BY AdmissionAssumption
<1>2. QED
  BY <1>1 DEF ChatRow

\* A sum of spends is an integer, and part of it is no more.
LEMMA SpendInType ==
  ASSUME NEW S \in SUBSET Chat
  PROVE  /\ SpendIn(S) \in Int
         /\ \A T \in SUBSET S : SpendIn(T) <= SpendIn(S)
<1>1. PICK f : f = [c \in Chat |-> Spend(c)]
  OBVIOUS
<1>2. \A c \in Chat : f[c] \in Nat
  BY <1>1, SpendOfRow, SpendOfType
<1>3. IsFiniteSet(S)
  BY AdmissionAssumption, FS_Subset
<1>4. \A c \in S : f[c] \in Int /\ f[c] >= 0
  BY <1>2
<1>5. SumFunctionOnSet(f, S) \in Int
  BY <1>3, <1>4, SumInt
<1>6. ASSUME NEW T \in SUBSET S PROVE SumFunctionOnSet(f, T) <= SumFunctionOnSet(f, S)
  BY <1>3, <1>4, SumPart
<1>7. QED
  BY <1>1, <1>5, <1>6 DEF SpendIn

\* The code's sum over the app's rows is the sum over the requests that spend, of which
\* those with a limit are a part.
LEMMA SpendOfApp ==
  ASSUME NEW a
  PROVE  LET spending == {c \in Chat : Spend(c) > 0 /\ AppOfChat(c) = a} IN
         /\ AppSpend(a) = SpendIn(spending)
         /\ AppSpend(a) \in Int /\ SpendIn(Limited(a)) \in Int
         /\ SpendIn(Limited(a)) <= AppSpend(a)
<1>1. PICK S, f, g :
        /\ S = {c \in Chat : Spend(c) > 0 /\ AppOfChat(c) = a}
        /\ f = [c \in Chat |-> IF Spend(c) > 0 /\ AppOfChat(c) = a THEN Spend(c) ELSE 0]
        /\ g = [c \in Chat |-> Spend(c)]
  OBVIOUS
<1>2. S \in SUBSET Chat /\ IsFiniteSet(Chat) /\ IsFiniteSet(S)
  BY <1>1, AdmissionAssumption, FS_Subset
<1>3. \A c \in Chat : f[c] \in Int
  BY <1>1, SpendOfRow, SpendOfType
<1>4. (\A c \in Chat \ S : f[c] = 0) /\ (\A c \in S : f[c] = g[c])
  BY <1>1
<1>5. SumFunctionOnSet(f, Chat) = SumFunctionOnSet(f, S)
  BY <1>2, <1>3, <1>4, SumRest
<1>6. SumFunctionOnSet(f, S) = SumFunctionOnSet(g, S)
  BY <1>2, <1>4, SumAgrees
<1>7. AppSpend(a) = SumFunctionOnSet(f, Chat)
  BY <1>1 DEF AppSpend, SumFunction
<1>8. AppSpend(a) = SpendIn(S)
  BY <1>1, <1>5, <1>6, <1>7 DEF SpendIn
<1>9. Limited(a) \in SUBSET S
  BY <1>1 DEF Limited
<1>10. QED
  BY <1>1, <1>2, <1>8, <1>9, SpendInType

\* A sum of requests whose spends do not change does not.
LEMMA SpendInKept ==
  ASSUME NEW S \in SUBSET Chat, \A c \in S : Spend(c)' = Spend(c)
  PROVE  SpendIn(S)' = SpendIn(S)
<1>1. PICK f, g : f = [c \in Chat |-> Spend(c)] /\ g = [c \in Chat |-> Spend(c)']
  OBVIOUS
<1>2. IsFiniteSet(S)
  BY AdmissionAssumption, FS_Subset
<1>3. \A c \in S : f[c] = g[c]
  BY <1>1
<1>4. SumFunctionOnSet(f, S) = SumFunctionOnSet(g, S)
  BY <1>2, <1>3, SumAgrees
<1>5. QED
  BY <1>1, <1>4 DEF SpendIn

\* The step of a request that does not store a row: it spends what it has spent, or
\* nothing, whatever it does to its locks; and once it is checked it fits.
LEMMA CapShrinks ==
  ASSUME CapInv, NEW c \in Chat, NEW r \in ChatRow, chat \in [Chat -> ChatRow],
         chat' = [chat EXCEPT ![c] = r],
         \/ SpendOf(r) = 0
         \/ /\ SpendOf(r) = Spend(c) /\ r.session = chat[c].session /\ r.cap = chat[c].cap,
         r.pc \in {"routed", "checked"} /\ r.cap # None =>
           AppLock(AppOfSession(r.session)) \in r.held,
         r.pc = "checked" /\ r.cap # None =>
           SpendIn(Limited(AppOfSession(r.session))) + HoldOf(r) <= r.cap
  PROVE  CapInv'
<1>1. chat'[c] = r /\ \A d \in Chat : d # c => chat'[d] = chat[d]
  OBVIOUS
<1>2. ASSUME NEW d \in Chat, Spend(d)' > 0
      PROVE  Spend(d)' = Spend(d) /\ chat'[d].session = chat[d].session /\ chat'[d].cap = chat[d].cap
  BY <1>1, <1>2, SpendOfRow, SpendOfType
<1>3. ASSUME NEW a
      PROVE  Limited(a)' \in SUBSET Limited(a) /\ Limited(a)' \in SUBSET Chat
    BY <1>2 DEF Limited, AppOfChat
<1>4. ASSUME NEW a, NEW S \in SUBSET Limited(a)'
      PROVE  SpendIn(S)' = SpendIn(S) /\ S \in SUBSET Chat
  <2>1. S \in SUBSET Chat /\ \A d \in S : Spend(d)' = Spend(d)
    BY <1>2 DEF Limited
  <2>2. QED
    BY <2>1, SpendInKept
<1>5. CapsHold'
  <2>1. ASSUME NEW a \in App, NEW S \in SUBSET Limited(a)', S # {}
        PROVE  \E d \in S : SpendIn(S)' <= chat'[d].cap
    <3>1. PICK d \in S : SpendIn(S) <= chat[d].cap
      BY <1>3, <2>1 DEF CapInv, CapsHold
    <3>2. d \in Chat /\ Spend(d)' > 0
      BY DEF Limited
    <3>3. QED
      BY <1>2, <1>4, <3>1, <3>2
  <2>2. QED
    BY <2>1 DEF CapsHold
<1>6. CheckedWithinCap'
  <2>1. ASSUME NEW d \in Chat, chat'[d].pc = "checked", chat'[d].cap # None
        PROVE  SpendIn(Limited(AppOfChat(d)))' + Hold(d)' <= chat'[d].cap
    <3>1. PICK a, S : a = AppOfSession(chat'[d].session) /\ S = Limited(a)'
      OBVIOUS
    <3>2. S \in SUBSET Limited(a) /\ S \in SUBSET Chat /\ Limited(a) \in SUBSET Chat
      BY <1>3, <3>1 DEF Limited
    <3>3. SpendIn(S)' = SpendIn(S) /\ SpendIn(S) <= SpendIn(Limited(a))
      BY <1>4, <3>1, <3>2, SpendInType
    <3>4. SpendIn(S) \in Int /\ SpendIn(Limited(a)) \in Int /\ HoldOf(chat'[d]) \in Nat
      BY <3>2, SpendInType, SpendOfType
    <3>5. SpendIn(Limited(a)) + HoldOf(chat'[d]) <= chat'[d].cap
      BY <1>1, <2>1, <3>1, SpendOfRow DEF CapInv, CheckedWithinCap, AppOfChat
    <3>6. chat'[d].cap \in Int
      <4>1. chat'[d] \in ChatRow
        BY <1>1
      <4>2. QED
        BY <2>1, <4>1, CapOfRow
    <3>7. QED
      BY <3>1, <3>3, <3>4, <3>5, <3>6, SpendOfRow DEF AppOfChat
  <2>2. QED
    BY <2>1 DEF CheckedWithinCap
<1>7. LimitedHoldLock'
  BY <1>1 DEF CapInv, LimitedHoldLock, AppOfChat
<1>8. QED
  BY <1>5, <1>6, <1>7 DEF CapInv

\* The step that stores one: the new row is the largest it must fit with, and the others
\* that are checked are of other apps, or have no limit.
LEMMA CapGrows ==
  ASSUME CapInv, AdmissionInv, NEW c \in Chat, Reserve(c)
  PROVE  CapInv'
<1>t. chat \in [Chat -> ChatRow]
  BY DEF AdmissionInv, TypeOK, ChatRow
<1>1. /\ chat[c].pc = "checked"
      /\ chat' = [chat EXCEPT ![c] = [chat[c] EXCEPT !.pc = "reserved", !.held = {}]]
  BY <1>t DEF Reserve, StoredRow
<1>2. /\ chat'[c].pc = "reserved" /\ chat'[c].session = chat[c].session
      /\ chat'[c].cap = chat[c].cap /\ chat'[c].key = chat[c].key
      /\ chat'[c].fallback = chat[c].fallback
      /\ \A d \in Chat : d # c => chat'[d] = chat[d]
  BY <1>t, <1>1 DEF ChatRow
<1>3. Spend(c) = 0 /\ Spend(c)' = Hold(c) /\ Hold(c) \in Nat
  BY <1>1, <1>2, SpendOfRow, SpendOfType DEF SpendOf, HoldOf
<1>4. \A d \in Chat : d # c => Spend(d)' = Spend(d) /\ Hold(d)' = Hold(d)
  BY <1>2, SpendOfRow
<1>5. \A d \in Chat : chat[d].cap # None => chat[d].cap \in Int
  BY <1>t, CapOfRow
<1>6. ASSUME NEW a
      PROVE  /\ Limited(a) \in SUBSET Chat /\ c \notin Limited(a)
             /\ Limited(a)' \in SUBSET Chat /\ Limited(a)' \subseteq Limited(a) \cup {c}
             /\ c \in Limited(a)' => a = AppOfChat(c) /\ chat[c].cap # None
  BY <1>2, <1>3, <1>4 DEF Limited, AppOfChat
<1>7. ASSUME NEW a, NEW S \in SUBSET Limited(a)
      PROVE  /\ SpendIn(S)' = SpendIn(S) /\ SpendIn(S) <= SpendIn(Limited(a))
             /\ SpendIn(S) \in Int /\ SpendIn(Limited(a)) \in Int /\ S \in SUBSET Chat
  <2>1. S \in SUBSET Chat /\ \A d \in S : Spend(d)' = Spend(d)
    BY <1>4, <1>6
  <2>2. QED
    BY <1>6, <2>1, SpendInKept, SpendInType
<1>8. CapsHold'
  <2>1. ASSUME NEW a \in App, NEW S \in SUBSET Limited(a)', S # {}
        PROVE  \E d \in S : SpendIn(S)' <= chat'[d].cap
    <3>1. CASE c \notin S
      <4>1. S \in SUBSET Limited(a)
        BY <1>6, <3>1
      <4>2. PICK d \in S : SpendIn(S) <= chat[d].cap
        BY <2>1, <4>1 DEF CapInv, CapsHold
      <4>3. d \in Chat /\ d # c
        BY <1>6, <3>1, <4>1
      <4>4. QED
        BY <1>2, <1>7, <4>1, <4>2, <4>3
    <3>2. CASE c \in S
      <4>1. PICK T : T = S \ {c}
        OBVIOUS
      <4>2. T \in SUBSET Limited(a) /\ a = AppOfChat(c) /\ chat[c].cap # None
        BY <1>6, <3>2, <4>1
      <4>3. SpendIn(S)' = SpendIn(T)' + Spend(c)'
        <5>1. PICK g : g = [d \in Chat |-> Spend(d)']
          OBVIOUS
        <5>2. S \in SUBSET Chat /\ IsFiniteSet(S)
          BY <1>6, AdmissionAssumption, FS_Subset
        <5>3. \A d \in S : g[d] \in Int
          BY <5>1, <5>2, SpendOfRow, SpendOfType
        <5>4. SumFunctionOnSet(g, S) = g[c] + SumFunctionOnSet(g, T)
          BY <3>2, <4>1, <5>2, <5>3, SumElement
        <5>5. SumFunctionOnSet(g, T) \in Int
          BY <4>1, <5>2, <5>3, FS_Subset, SumInt
        <5>6. QED
          BY <1>3, <5>1, <5>4, <5>5 DEF SpendIn
      <4>4. SpendIn(Limited(a)) + Hold(c) <= chat[c].cap
        BY <1>1, <4>2 DEF CapInv, CheckedWithinCap
      <4>5. SpendIn(T)' = SpendIn(T) /\ SpendIn(T) <= SpendIn(Limited(a))
            /\ SpendIn(T) \in Int /\ SpendIn(Limited(a)) \in Int
        BY <1>7, <4>2
      <4>6. SpendIn(S)' <= chat'[c].cap
        BY <1>2, <1>3, <1>5, <4>2, <4>3, <4>4, <4>5
      <4>7. QED
        BY <3>2, <4>6
    <3>3. QED
      BY <3>1, <3>2
  <2>2. QED
    BY <2>1 DEF CapsHold
<1>9. CheckedWithinCap'
  <2>1. ASSUME NEW d \in Chat, chat'[d].pc = "checked", chat'[d].cap # None
        PROVE  SpendIn(Limited(AppOfChat(d)))' + Hold(d)' <= chat'[d].cap
    <3>1. PICK a, S : a = AppOfChat(d) /\ S = Limited(a)'
      OBVIOUS
    <3>2. d # c /\ chat'[d] = chat[d] /\ AppOfChat(d)' = a
      BY <1>2, <2>1, <3>1 DEF AppOfChat
    <3>3. c \notin S
      <4>1. SUFFICES ASSUME a = AppOfChat(c), chat[c].cap # None PROVE FALSE
        BY <1>6, <3>1
      <4>2. AppLock(a) \in chat[c].held /\ AppLock(a) \in chat[d].held
        BY <1>1, <2>1, <3>1, <3>2, <4>1 DEF CapInv, LimitedHoldLock
      <4>3. QED
        BY <3>2, <4>2 DEF AdmissionInv, LocksAreExclusive
    <3>4. S \in SUBSET Limited(a)
      BY <1>6, <3>1, <3>3
    <3>5. SpendIn(S)' = SpendIn(S) /\ SpendIn(S) <= SpendIn(Limited(a))
          /\ SpendIn(S) \in Int /\ SpendIn(Limited(a)) \in Int
      BY <1>7, <3>4
    <3>6. SpendIn(Limited(a)) + Hold(d) <= chat[d].cap
      BY <2>1, <3>1, <3>2 DEF CapInv, CheckedWithinCap
    <3>7. Hold(d)' = Hold(d) /\ Hold(d) \in Nat /\ chat[d].cap \in Int
      BY <1>4, <1>5, <2>1, <3>2, SpendOfRow, SpendOfType
    <3>8. SpendIn(S)' + Hold(d)' <= chat'[d].cap
      BY <3>2, <3>5, <3>6, <3>7
    <3>9. QED
      BY <3>1, <3>2, <3>8
  <2>2. QED
    BY <2>1 DEF CheckedWithinCap
<1>10. LimitedHoldLock'
  BY <1>2 DEF CapInv, LimitedHoldLock, AppOfChat
<1>11. QED
  BY <1>8, <1>9, <1>10 DEF CapInv

\* At first nobody has spent anything.
LEMMA CapInit == Init => CapInv
<1> SUFFICES ASSUME Init PROVE CapInv
  OBVIOUS
<1>1. \A c \in Chat : chat[c].pc = "idle"
  BY DEF Init, NewChat
<1>2. \A c \in Chat : Spend(c) = 0
  BY <1>1 DEF Spend
<1>3. \A a : Limited(a) = {}
  BY <1>2 DEF Limited
<1>4. QED
  BY <1>1, <1>3 DEF CapInv, CapsHold, CheckedWithinCap, LimitedHoldLock

\* The requests' limits hold through every step.
LEMMA CapStep == AdmissionInv /\ CapInv /\ [Next]_vars => CapInv'
<1> SUFFICES ASSUME AdmissionInv, CapInv, [Next]_vars PROVE CapInv'
  OBVIOUS
<1> USE AdmissionAssumption
<1>t. TypeOK BY DEF AdmissionInv
<1>r. chat \in [Chat -> ChatRow] BY <1>t DEF TypeOK, ChatRow
<1>1. ASSUME UNCHANGED chat PROVE CapInv'
  <2>1. \A c : Spend(c)' = Spend(c) /\ Hold(c)' = Hold(c)
    BY <1>1, SpendOfRow
  <2>2. \A a : Limited(a)' = Limited(a)
    BY <1>1, <2>1 DEF Limited, AppOfChat
  <2>3. \A S \in SUBSET Chat : SpendIn(S)' = SpendIn(S)
    BY <2>1 DEF SpendIn
  <2>4. \A a : Limited(a) \in SUBSET Chat
    BY DEF Limited
  <2>5. CapsHold'
    BY <1>1, <2>2, <2>3, <2>4 DEF CapInv, CapsHold
  <2>6. CheckedWithinCap' /\ LimitedHoldLock'
    BY <1>1, <2>1, <2>2, <2>3, <2>4
    DEF CapInv, CheckedWithinCap, LimitedHoldLock, AppOfChat
  <2>7. QED
    BY <2>5, <2>6 DEF CapInv
<1>2. ASSUME NEW c \in Chat, NEW s \in Session, NEW f \in FeatureKey \cup {None},
             LoadSession(c, s, f)
      PROVE  CapInv'
  <2> DEFINE r == [NewChat EXCEPT !.pc = "loaded", !.session = s,
                                  !.feature = IF f # None THEN f ELSE session[s].feature,
                                  !.cap = app[AppOfSession(s)].cap]
  <2>1. r \in ChatRow BY <1>t DEF TypeOK, ChatRow, NewChat, InTransaction, AppOfSession
  <2>2. r.pc = "loaded" /\ SpendOf(r) = 0 BY DEF NewChat, SpendOf
  <2>3. chat' = [chat EXCEPT ![c] = r] BY <1>2 DEF LoadSession
  <2> HIDE DEF r
  <2>4. QED BY <1>r, <2>1, <2>2, <2>3, CapShrinks
<1>3. ASSUME NEW c \in Chat, LockSpend(c) PROVE CapInv'
  <2>1. PICK l \in NextSpendLock(c) : chat' = [chat EXCEPT ![c].held = @ \cup {l}]
    BY <1>3 DEF LockSpend
  <2> DEFINE r == [chat[c] EXCEPT !.held = @ \cup {l}]
  <2>2. chat[c].pc = "loaded" /\ l \in Lock
    BY <1>3, <1>t, NextLock DEF LockSpend, AdmissionInv
  <2>3. r \in ChatRow BY <1>r, <2>2 DEF ChatRow
  <2>4. r.pc = "loaded" BY <1>r, <2>2 DEF ChatRow
  <2>5. chat' = [chat EXCEPT ![c] = r] BY <1>r, <2>1
  <2> HIDE DEF r
  <2>6. SpendOf(r) = 0 BY <2>4 DEF SpendOf
  <2>7. QED BY <1>r, <2>3, <2>4, <2>5, <2>6, CapShrinks
<1>4. ASSUME NEW c \in Chat, Route(c) PROVE CapInv'
  <2>1. /\ chat[c].pc = "loaded"
        /\ chat[c].cap # None => AppLock(AppOfChat(c)) \in chat[c].held
    <3>1. chat[c].cap # None => SpendLocks(c)[1] = AppLock(AppOfChat(c)) /\ 1 \in DOMAIN SpendLocks(c)
      BY DEF SpendLocks
    <3>2. chat[c].pc = "loaded" /\ Range(SpendLocks(c)) \subseteq chat[c].held
      BY <1>4 DEF Route, HasSpendLocks
    <3>3. QED
      BY <3>1, <3>2 DEF Range
  <2>2. ASSUME NEW r \in ChatRow, chat' = [chat EXCEPT ![c] = r],
               r.pc = "routed", r.session = chat[c].session, r.cap = chat[c].cap,
               chat[c].held \subseteq r.held
        PROVE  CapInv'
    <3>1. SpendOf(r) = 0 BY <2>2 DEF SpendOf
    <3>2. QED BY <1>r, <2>1, <2>2, <3>1, CapShrinks DEF AppOfChat
  <2>3. ASSUME chat' = [chat EXCEPT ![c].pc = "routed", ![c].feature = None]
        PROVE  CapInv'
    <3> DEFINE r == [chat[c] EXCEPT !.pc = "routed", !.feature = None]
    <3>1. r \in ChatRow BY <1>r DEF ChatRow, InTransaction
    <3>2. /\ r.pc = "routed" /\ r.session = chat[c].session /\ r.cap = chat[c].cap
          /\ r.held = chat[c].held
      BY <1>r DEF ChatRow
    <3>3. chat' = [chat EXCEPT ![c] = r] BY <1>r, <2>3
    <3> HIDE DEF r
    <3>4. QED BY <2>2, <3>1, <3>2, <3>3
  <2>4. ASSUME NEW k \in Key, NEW fb \in BOOLEAN,
               chat' = [chat EXCEPT ![c].pc = "routed", ![c].feature = None, ![c].key = k,
                                    ![c].fallback = fb, ![c].held = @ \cup {KeyLock(k)}]
        PROVE  CapInv'
    <3> DEFINE r == [chat[c] EXCEPT !.pc = "routed", !.feature = None, !.key = k,
                                    !.fallback = fb, !.held = @ \cup {KeyLock(k)}]
    <3>1. r \in ChatRow
      <4>1. KeyLock(k) \in Lock BY DEF KeyLock, Lock
      <4>2. QED BY <1>r, <4>1 DEF ChatRow, InTransaction
    <3>2. /\ r.pc = "routed" /\ r.session = chat[c].session /\ r.cap = chat[c].cap
          /\ r.held = chat[c].held \cup {KeyLock(k)}
      BY <1>r DEF ChatRow
    <3>3. chat' = [chat EXCEPT ![c] = r] BY <1>r, <2>4
    <3> HIDE DEF r
    <3>4. QED BY <2>2, <3>1, <3>2, <3>3
  <2>5. \A byok, developer \in BOOLEAN : KeysToTry(c, byok, developer) \subseteq Key
    BY DEF KeysToTry, ActiveKeys
  <2>6. QED BY <1>4, <2>3, <2>4, <2>5 DEF Route, KeyLocks
<1>5. ASSUME NEW c \in Chat, CheckLimits(c) PROVE CapInv'
  <2> DEFINE r == [chat[c] EXCEPT !.pc = "checked"]
  <2>1. chat[c].pc = "routed" /\ WithinCap(c) /\ chat' = [chat EXCEPT ![c] = r]
    BY <1>5, <1>r DEF CheckLimits
  <2>2. r \in ChatRow BY <1>r DEF ChatRow, InTransaction
  <2>3. /\ r.pc = "checked" /\ r.session = chat[c].session /\ r.cap = chat[c].cap
        /\ r.held = chat[c].held /\ HoldOf(r) = HoldOf(chat[c])
    BY <1>r DEF ChatRow, HoldOf
  <2> HIDE DEF r
  <2>4. SpendOf(r) = 0 BY <2>3 DEF SpendOf
  <2>5. r.cap # None => AppLock(AppOfSession(r.session)) \in r.held
    BY <2>1, <2>3 DEF CapInv, LimitedHoldLock, AppOfChat
  <2>6. r.cap # None => SpendIn(Limited(AppOfSession(r.session))) + HoldOf(r) <= r.cap
    <3>1. SUFFICES ASSUME r.cap # None
                   PROVE  SpendIn(Limited(AppOfChat(c))) + HoldOf(r) <= r.cap
      BY <2>3 DEF AppOfChat
    <3>2. PICK a, cap : a = AppOfChat(c) /\ cap = r.cap /\ cap \in Int
      BY <2>2, <3>1, CapOfRow
    <3>3. AppSpend(a) + Hold(c) <= cap
      BY <2>1, <2>3, <3>1, <3>2 DEF WithinCap
    <3>4. SpendIn(Limited(a)) <= AppSpend(a) /\ SpendIn(Limited(a)) \in Int
          /\ AppSpend(a) \in Int
      BY SpendOfApp
    <3>5. Hold(c) = HoldOf(r) /\ Hold(c) \in Nat
      BY <2>3, SpendOfRow, SpendOfType
    <3>6. QED
      BY <3>2, <3>3, <3>4, <3>5
  <2>7. QED BY <1>r, <2>1, <2>2, <2>3, <2>4, <2>5, <2>6, CapShrinks
<1>6. ASSUME NEW c \in Chat, Reserve(c) PROVE CapInv'
  BY <1>6, CapGrows
<1>7. ASSUME NEW c \in Chat, chat' = Undone(c) PROVE CapInv'
  <2> DEFINE r == [NewChat EXCEPT !.pc = "refused"]
  <2>1. r \in ChatRow BY DEF ChatRow, NewChat
  <2>2. r.pc = "refused" /\ SpendOf(r) = 0 BY DEF NewChat, SpendOf
  <2>3. chat' = [chat EXCEPT ![c] = r] BY <1>7 DEF Undone
  <2> HIDE DEF r
  <2>4. QED BY <1>r, <2>1, <2>2, <2>3, CapShrinks
<1>8. ASSUME NEW c \in Chat, Finish(c), chat' # Undone(c) PROVE CapInv'
  <2>1. PICK pc \in {"settled", "review", "rerouted"} :
          /\ chat' = [chat EXCEPT ![c].pc = pc]
          /\ pc = "rerouted" => chat[c].fallback
    BY <1>8 DEF Finish
  <2>2. chat[c].pc = "reserved" BY <1>8 DEF Finish
  <2> DEFINE r == [chat[c] EXCEPT !.pc = pc]
  <2>3. r \in ChatRow BY <1>r DEF ChatRow, Stored
  <2>4. /\ r.pc = pc /\ r.session = chat[c].session /\ r.cap = chat[c].cap
        /\ r.key = chat[c].key /\ r.fallback = chat[c].fallback
    BY <1>r DEF ChatRow
  <2>5. chat' = [chat EXCEPT ![c] = r] BY <1>r, <2>1
  <2> HIDE DEF r
  <2>6. SpendOf(r) = 0 \/ SpendOf(r) = Spend(c)
    BY <2>1, <2>2, <2>4, SpendOfRow DEF SpendOf, HoldOf
  <2>7. QED BY <1>r, <2>3, <2>4, <2>5, <2>6, CapShrinks
<1>9. ASSUME NEW c \in Chat, Refuse(c) \/ Abort(c) PROVE CapInv'
  BY <1>9, <1>7 DEF Refuse, Abort
<1>10. QED
  BY <1>1, <1>2, <1>3, <1>4, <1>5, <1>6, <1>7, <1>8, <1>9
  DEF Next, vars, UpdateApp, CreateFeature, DeleteFeature, CreateSession, EndSession,
    StoreKey, DisableKey

\* The spend invariant holds in every state.
LEMMA CapAlways == Spec => []CapInv
BY AdmissionInvariant, CapInit, CapStep, PTL DEF Spec

-----------------------------------------------------------------------------
(* The theorems                                                            *)

\* The order of the locks leaves one request that need not wait: one that has its key, or
\* else one that holds its app's lock, or else any.
LEMMA NoCircularWait == AdmissionInv => SomeRequestCanGoOn
<1> SUFFICES ASSUME AdmissionInv, NEW b \in Chat, chat[b].pc \in InTransaction,
                    \A c \in Chat : chat[c].pc \in InTransaction => \E l \in Wants(c) : ~Free(l)
             PROVE  FALSE
  BY DEF SomeRequestCanGoOn
<1>1. ASSUME NEW c \in Chat, chat[c].held # {}
      PROVE  chat[c].pc \in InTransaction
  BY <1>1 DEF AdmissionInv, TypeOK
<1>2. ASSUME NEW c \in Chat, chat[c].pc \in InTransaction
      PROVE  chat[c].pc = "loaded" /\ chat[c].held \in LocksInOrder(chat[c].session)
  <2>1. chat[c].pc = "loaded" BY <1>2 DEF Wants
  <2>2. QED BY <2>1 DEF AdmissionInv, LocksAreOrdered
<1>3. ASSUME NEW c \in Chat, chat[c].pc \in InTransaction
      PROVE  chat[c].held = {}
  <2> SUFFICES ASSUME chat[c].held # {} PROVE FALSE OBVIOUS
  <2>1. AppLock(AppOfChat(c)) \in chat[c].held
    BY <1>2, <1>3 DEF LocksInOrder, AppOfChat
  <2>2. PICK l \in Wants(c), d \in Chat : l \in chat[d].held
    BY <1>3 DEF Free
  <2>3. /\ chat[d].pc = "loaded" /\ chat[d].held \in LocksInOrder(chat[d].session)
        /\ chat[d].held # {}
    BY <1>1, <1>2, <2>2
  <2>4. CASE HasSpendLocks(c)
    <3>1. PICK k \in Key : l = KeyLock(k)
      BY <1>2, <1>3, <2>2, <2>4 DEF Wants, ActiveKeys
    <3>2. QED BY <2>2, <2>3, <3>1 DEF LocksInOrder, KeyLock, AppLock, SessionLock
  <2>5. CASE ~HasSpendLocks(c)
    <3>1. l \in NextSpendLock(c) BY <1>2, <1>3, <2>2, <2>5 DEF Wants
    <3>2. l \notin chat[c].held /\ chat[c].held \cup {l} \in LocksInOrder(chat[c].session)
      BY <1>2, <1>3, <3>1, NextLock DEF AdmissionInv
    <3>3. l = SessionLock(chat[c].session)
      BY <2>1, <3>2 DEF LocksInOrder, AppOfChat, AppOfSession
    <3>4. chat[d].session = chat[c].session
      BY <2>2, <2>3, <3>3 DEF LocksInOrder, AppLock, SessionLock
    <3>5. AppLock(AppOfChat(c)) \in chat[d].held
      BY <2>3, <3>4 DEF LocksInOrder, AppOfChat
    <3>6. d = c BY <2>1, <3>5 DEF AdmissionInv, LocksAreExclusive
    <3>7. QED BY <2>2, <3>2, <3>6
  <2>6. QED BY <2>4, <2>5
<1>4. \A l : Free(l) BY <1>1, <1>3 DEF Free
<1>5. QED BY <1>4

\* Tables and requests stay well typed, whatever requests and console do at once; a
\* transaction that has ended holds no lock.
THEOREM AdmissionTypeCorrect == Spec => []TypeOK
<1>1. AdmissionInv => TypeOK BY DEF AdmissionInv
<1>2. QED BY <1>1, AdmissionInvariant, PTL

\* No reservation is ever stored on a key that was disabled before it, or on one of
\* another user or developer, for any number of requests and keys.
THEOREM ChosenKeysStayActive == Spec => []ChosenKeysAreActive
<1>1. AdmissionInv => ChosenKeysAreActive BY DEF AdmissionInv
<1>2. QED BY <1>1, AdmissionInvariant, PTL

\* What is reserved and settled on a developer's key never passes its budget, however
\* many requests of however many apps and sessions are admitted at once.
THEOREM BudgetsAreKept == Spec => []BudgetKept
<1>1. AdmissionInv => BudgetKept BY DEF AdmissionInv
<1>2. QED BY <1>1, AdmissionInvariant, PTL

\* Admission does not deadlock: however many requests are being admitted for whatever
\* apps, sessions and keys, one of them need not wait for a lock.
THEOREM AdmissionGoesOn == Spec => []SomeRequestCanGoOn
BY NoCircularWait, AdmissionInvariant, PTL

\* Requests that run at once, and limits that are raised or lowered between them, never
\* add up to more than a limit one of the app's requests was held to, for every number of
\* requests, sessions and apps and for all limits and prices (assertHostedSpendLimits
\* under lockHostedSpendLimits).
THEOREM CapStays == Spec => []CapKept
<1>1. ASSUME CapInv PROVE CapKept
  <2>1. ASSUME NEW a \in App, NEW S, S = {c \in Chat : Spend(c) > 0 /\ AppOfChat(c) = a},
               S # {}, \A c \in S : chat[c].cap # None
        PROVE  \E c \in S : AppSpend(a) <= chat[c].cap
    <3>1. S \in SUBSET Limited(a)
      BY <2>1 DEF Limited
    <3>2. PICK c \in S : SpendIn(S) <= chat[c].cap
      BY <1>1, <2>1, <3>1 DEF CapInv, CapsHold
    <3>3. AppSpend(a) = SpendIn(S)
      BY <2>1, SpendOfApp
    <3>4. QED
      BY <3>2, <3>3
  <2>2. QED
    BY <2>1 DEF CapKept
<1>2. QED
  BY <1>1, CapAlways, PTL
=============================================================================
