----------------------------- MODULE SdkProofs -----------------------------
(* The SDK client, for every number of calls, sessions, reports and flushes. *)
EXTENDS SdkClient, TLAPS

-----------------------------------------------------------------------------
(* The inductive invariant.  That a request is charged under a fitting       *)
(* session rests on the session each call carries; that no report is sent    *)
(* twice, on each report having at most one holder.                         *)

\* A call under way carries a session that was made for its feature or for any.
SessionsFit ==
  /\ \A c \in Call :
       call[c].token # None => featureOf[call[c].token] \in {AnyFeature, FeatureOf[c]}
  /\ current # None => featureOf[current] # None

\* A report waits in the queue, in the hands of one flush, in its own call, or nowhere.
OneHolder ==
  /\ \A r \in queue : report[r] = "queued" /\ \A f \in Flush : r \notin Hand(f)
  /\ \A f \in Flush : \A r \in Hand(f) : report[r] = "queued"
  /\ \A f, g \in Flush : f # g => Hand(f) \cap Hand(g) = {}
  /\ \A f \in Flush : flush[f].todo \cap flush[f].kept = {}
  /\ \A f \in Flush : ~flush[f].running => Hand(f) = {}
  /\ \A r \in acked : report[r] \in {"sent", "queued"}

SdkInv == TypeOK /\ SessionsFit /\ ChatsUseTheirSessions /\ OneHolder /\ AckedIsNotSentAgain

\* The part about sessions, and the part about reports.
ChatInv  == SessionsFit /\ ChatsUseTheirSessions
LocalInv == OneHolder /\ AckedIsNotSentAgain

\* Nothing is cached, queued, charged or acknowledged at first.
LEMMA SdkInit == Init => SdkInv
<1> SUFFICES ASSUME Init PROVE SdkInv OBVIOUS
<1> USE SdkAssumption
<1>1. TypeOK BY DEF Init, TypeOK, Idle, Ended
<1>2. SessionsFit /\ ChatsUseTheirSessions
  BY DEF Init, SessionsFit, ChatsUseTheirSessions, Idle
<1>3. OneHolder /\ AckedIsNotSentAgain
  BY DEF Init, OneHolder, AckedIsNotSentAgain, Hand, Ended
<1>4. QED BY <1>1, <1>2, <1>3 DEF SdkInv

\* What chat calls and their sessions do keeps the types and the part about sessions.
LEMMA ChatSteps ==
  ASSUME TypeOK, ChatInv,
         \/ \E c \in Chat : UseSession(c) \/ SendChat(c) \/ AnswerChat(c)
         \/ \E c \in Call : \/ RequestSession(c)
                            \/ \E t \in Token : CreateSession(c, t)
                            \/ ReceiveSession(c)
                            \/ OpenFails(c)
         \/ Age
  PROVE  TypeOK' /\ ChatInv' /\ UNCHANGED local
<1> USE SdkAssumption DEF Idle
<1>c. Chat \subseteq Call BY DEF Call
<1>1. ASSUME NEW c \in Chat, UseSession(c) PROVE TypeOK' /\ ChatInv' /\ UNCHANGED local
  <2>1. c \in Call BY <1>c
  <2>2. current \in Token /\ featureOf[current] \in {AnyFeature, FeatureOf[c]}
    BY <1>1 DEF UseSession, Usable
  <2>3. call' = [call EXCEPT ![c] = [at |-> "ready", token |-> current]]
    BY <1>1 DEF UseSession
  <2>4. UNCHANGED <<current, queue, report, flush, acked, featureOf, aged, rows, local>>
    BY <1>1 DEF UseSession, local
  <2>5. TypeOK' BY <2>1, <2>2, <2>3, <2>4 DEF TypeOK
  <2>6. ChatInv'
    BY <2>1, <2>2, <2>3, <2>4 DEF TypeOK, ChatInv, SessionsFit, ChatsUseTheirSessions
  <2>7. QED BY <2>4, <2>5, <2>6
<1>2. ASSUME NEW c \in Chat, SendChat(c) PROVE TypeOK' /\ ChatInv' /\ UNCHANGED local
  <2>1. c \in Call BY <1>c
  <2>2. call[c].at = "ready" /\ call' = [call EXCEPT ![c] = [at |-> "sent", token |-> call[c].token]]
    BY <1>2 DEF SendChat, SessionOf
  <2>3. UNCHANGED <<current, queue, report, flush, acked, featureOf, aged, rows, local>>
    BY <1>2 DEF SendChat, local
  <2>4. TypeOK' BY <2>1, <2>2, <2>3 DEF TypeOK
  <2>5. ChatInv' BY <2>1, <2>2, <2>3 DEF TypeOK, ChatInv, SessionsFit, ChatsUseTheirSessions
  <2>6. QED BY <2>3, <2>4, <2>5
<1>3. ASSUME NEW c \in Chat, AnswerChat(c) PROVE TypeOK' /\ ChatInv' /\ UNCHANGED local
  <2>1. c \in Call BY <1>c
  <2>2. /\ call[c].token \in Token
        /\ featureOf[call[c].token] \in {AnyFeature, FeatureOf[c]}
    BY <1>3, <2>1 DEF AnswerChat, TypeOK, ChatInv, SessionsFit
  <2>3. /\ call' = [call EXCEPT ![c] = [at |-> "idle", token |-> None]]
        /\ rows' \in {rows, rows \cup {<<call[c].token, c>>}}
        /\ UNCHANGED <<current, queue, report, flush, acked, featureOf, aged, local>>
    BY <1>3 DEF AnswerChat, local
  <2>4. TypeOK' BY <2>1, <2>2, <2>3 DEF TypeOK
  <2>5. SessionsFit' BY <2>1, <2>3 DEF TypeOK, ChatInv, SessionsFit
  <2>6. ChatsUseTheirSessions' BY <2>2, <2>3 DEF ChatInv, ChatsUseTheirSessions
  <2>7. QED BY <2>3, <2>4, <2>5, <2>6 DEF ChatInv
<1>4. ASSUME NEW c \in Call, RequestSession(c) PROVE TypeOK' /\ ChatInv' /\ UNCHANGED local
  <2>1. call[c] = [at |-> "idle", token |-> None] /\ call' = [call EXCEPT ![c].at = "opening"]
    BY <1>4 DEF RequestSession
  <2>2. UNCHANGED <<current, queue, report, flush, acked, featureOf, aged, rows, local>>
    BY <1>4 DEF RequestSession, local
  <2>3. TypeOK' BY <2>1, <2>2 DEF TypeOK
  <2>4. ChatInv' BY <2>1, <2>2 DEF TypeOK, ChatInv, SessionsFit, ChatsUseTheirSessions
  <2>5. QED BY <2>2, <2>3, <2>4
<1>5. ASSUME NEW c \in Call, NEW t \in Token, CreateSession(c, t)
      PROVE TypeOK' /\ ChatInv' /\ UNCHANGED local
  <2>1. /\ call[c] = [at |-> "opening", token |-> None]
        /\ featureOf[t] = None
        /\ featureOf' = [featureOf EXCEPT ![t] = FeatureOf[c]]
        /\ call' = [call EXCEPT ![c].token = t]
    BY <1>5 DEF CreateSession
  <2>2. UNCHANGED <<current, queue, report, flush, acked, aged, rows, local>>
    BY <1>5 DEF CreateSession, local
  <2>3. FeatureOf[c] \in Feature \cup {AnyFeature} /\ FeatureOf[c] # None BY DEF Call
  <2>4. TypeOK' BY <2>1, <2>2, <2>3 DEF TypeOK
  <2>5. \A d \in Call : call[d].token # None => call[d].token # t
    BY <2>1 DEF TypeOK, ChatInv, SessionsFit
  <2>6. SessionsFit'
    BY <2>1, <2>2, <2>3, <2>5 DEF TypeOK, ChatInv, SessionsFit
  <2>7. \A row \in rows : row[1] # t
    BY <2>1, <1>c DEF TypeOK, ChatInv, ChatsUseTheirSessions
  <2>8. ChatsUseTheirSessions'
    BY <2>1, <2>2, <2>7 DEF TypeOK, ChatInv, ChatsUseTheirSessions
  <2>9. QED BY <2>2, <2>4, <2>6, <2>8 DEF ChatInv
<1>6. ASSUME NEW c \in Call, ReceiveSession(c) PROVE TypeOK' /\ ChatInv' /\ UNCHANGED local
  <2>1. /\ call[c].token \in Token
        /\ featureOf[call[c].token] \in {AnyFeature, FeatureOf[c]}
        /\ FeatureOf[c] # None
    BY <1>6 DEF ReceiveSession, TypeOK, ChatInv, SessionsFit
  <2>2. /\ current' = call[c].token
        /\ UNCHANGED <<queue, report, flush, acked, featureOf, aged, rows, local>>
    BY <1>6 DEF ReceiveSession, local
  <2>3. CASE c \in Chat
    <3>1. call' = [call EXCEPT ![c] = [@ EXCEPT !.at = "ready"]]
      BY <1>6, <2>3 DEF ReceiveSession
    <3>2. QED
      BY <2>1, <2>2, <2>3, <3>1 DEF TypeOK, ChatInv, SessionsFit, ChatsUseTheirSessions
  <2>4. CASE c \notin Chat
    <3>1. call' = [call EXCEPT ![c] = [at |-> "idle", token |-> None]]
      BY <1>6, <2>4 DEF ReceiveSession
    <3>2. QED BY <2>1, <2>2, <3>1 DEF TypeOK, ChatInv, SessionsFit, ChatsUseTheirSessions
  <2>5. QED BY <2>3, <2>4
<1>7. ASSUME NEW c \in Call, OpenFails(c) PROVE TypeOK' /\ ChatInv' /\ UNCHANGED local
  <2>1. /\ call' = [call EXCEPT ![c] = [at |-> "idle", token |-> None]]
        /\ UNCHANGED <<current, queue, report, flush, acked, featureOf, aged, rows, local>>
    BY <1>7 DEF OpenFails, local
  <2>2. TypeOK' BY <2>1 DEF TypeOK
  <2>3. ChatInv' BY <2>1 DEF TypeOK, ChatInv, SessionsFit, ChatsUseTheirSessions
  <2>4. QED BY <2>1, <2>2, <2>3
<1>8. CASE Age
  BY <1>8 DEF Age, TypeOK, ChatInv, SessionsFit, ChatsUseTheirSessions, local
<1>9. QED BY <1>1, <1>2, <1>3, <1>4, <1>5, <1>6, <1>7, <1>8

\* What local calls and flushes do keeps the types and the part about reports.
LEMMA LocalSteps ==
  ASSUME TypeOK, LocalInv,
         \/ \E r \in Report : SendReport(r) \/ ReportSent(r) \/ ReportFails(r)
         \/ \E f \in Flush : StartFlush(f) \/ FlushReport(f)
  PROVE  TypeOK' /\ LocalInv' /\ UNCHANGED chats
<1> USE DEF Hand
<1>1. ASSUME NEW r \in Report, SendReport(r) PROVE TypeOK' /\ LocalInv' /\ UNCHANGED chats
  BY <1>1 DEF SendReport, TypeOK, LocalInv, OneHolder, AckedIsNotSentAgain, chats
<1>2. ASSUME NEW r \in Report, ReportSent(r) PROVE TypeOK' /\ LocalInv' /\ UNCHANGED chats
  BY <1>2 DEF ReportSent, TypeOK, LocalInv, OneHolder, AckedIsNotSentAgain, chats
<1>3. ASSUME NEW r \in Report, ReportFails(r) PROVE TypeOK' /\ LocalInv' /\ UNCHANGED chats
  BY <1>3 DEF ReportFails, TypeOK, LocalInv, OneHolder, AckedIsNotSentAgain, chats
<1>4. ASSUME NEW f \in Flush, StartFlush(f) PROVE TypeOK' /\ LocalInv' /\ UNCHANGED chats
  <2>1. /\ ~flush[f].running
        /\ flush' = [flush EXCEPT ![f] = [running |-> TRUE, todo |-> queue, kept |-> {}]]
        /\ queue' = {}
        /\ UNCHANGED <<report, acked, current, call, featureOf, aged, rows, chats>>
    BY <1>4 DEF StartFlush, chats
  <2>2. TypeOK' BY <2>1 DEF TypeOK
  <2>3. LocalInv' BY <2>1 DEF TypeOK, LocalInv, OneHolder, AckedIsNotSentAgain
  <2>4. QED BY <2>1, <2>2, <2>3
<1>5. ASSUME NEW f \in Flush, FlushReport(f) PROVE TypeOK' /\ LocalInv' /\ UNCHANGED chats
  <2>1. PICK r \in flush[f].todo, ok \in BOOLEAN :
          LET todo == flush[f].todo \ {r}
              kept == IF ok THEN flush[f].kept ELSE flush[f].kept \cup {r} IN
          /\ acked' = IF ok THEN acked \cup {r} ELSE acked
          /\ IF todo = {}
             THEN flush' = [flush EXCEPT ![f] = Ended] /\ queue' = kept
             ELSE /\ flush' = [flush EXCEPT ![f] = [running |-> TRUE, todo |-> todo, kept |-> kept]]
                  /\ UNCHANGED queue
          /\ UNCHANGED <<report, chats>>
    BY <1>5 DEF FlushReport
  <2> DEFINE todo == flush[f].todo \ {r}
             kept == IF ok THEN flush[f].kept ELSE flush[f].kept \cup {r}
  <2>2. /\ acked' = IF ok THEN acked \cup {r} ELSE acked
        /\ UNCHANGED <<report, current, call, featureOf, aged, rows, chats>>
    BY <2>1 DEF chats
  <2>3. /\ r \in Report /\ report[r] = "queued" /\ r \notin queue /\ flush[f].running
        /\ todo \subseteq Report /\ kept \subseteq Report
        /\ flush[f].todo = todo \cup {r} /\ r \notin flush[f].kept
        /\ todo \cap kept = {} /\ todo \cup kept \subseteq Hand(f)
    BY DEF TypeOK, LocalInv, OneHolder
  <2>4. ok => r \notin todo \cup kept BY <2>3
  <2>5. CASE todo = {}
    <3>1. flush' = [flush EXCEPT ![f] = Ended] /\ queue' = kept BY <2>1, <2>5
    <3>2. TypeOK' BY <2>2, <2>3, <3>1 DEF TypeOK, Ended
    <3>3. /\ Hand(f)' = {} /\ flush'[f].todo = {} /\ flush'[f].kept = {}
          /\ \A g \in Flush \ {f} : flush'[g] = flush[g] /\ Hand(g)' = Hand(g)
      BY <3>1 DEF TypeOK, Ended
    <3>4. OneHolder'
      BY <2>2, <2>3, <2>4, <3>1, <3>3 DEF LocalInv, OneHolder
    <3>5. AckedIsNotSentAgain'
      BY <2>2, <2>3, <2>4, <3>1, <3>3 DEF LocalInv, OneHolder, AckedIsNotSentAgain
    <3>6. QED BY <2>2, <3>2, <3>4, <3>5 DEF LocalInv
  <2>6. CASE todo # {}
    <3>1. /\ flush' = [flush EXCEPT ![f] = [running |-> TRUE, todo |-> todo, kept |-> kept]]
          /\ queue' = queue
      BY <2>1, <2>6
    <3>2. TypeOK' BY <2>2, <2>3, <3>1 DEF TypeOK
    <3>3. /\ Hand(f)' = todo \cup kept /\ flush'[f].todo = todo /\ flush'[f].kept = kept
          /\ flush'[f].running
          /\ \A g \in Flush \ {f} : flush'[g] = flush[g] /\ Hand(g)' = Hand(g)
      BY <3>1 DEF TypeOK
    <3>4. OneHolder'
      BY <2>2, <2>3, <2>4, <3>1, <3>3 DEF LocalInv, OneHolder
    <3>5. AckedIsNotSentAgain'
      BY <2>2, <2>3, <2>4, <3>1, <3>3 DEF LocalInv, OneHolder, AckedIsNotSentAgain
    <3>6. QED BY <2>2, <3>2, <3>4, <3>5 DEF LocalInv
  <2>7. QED BY <2>5, <2>6
<1>6. QED BY <1>1, <1>2, <1>3, <1>4, <1>5

\* Every step keeps the invariant: each part depends only on its own variables.
LEMMA SdkStep == SdkInv /\ [Next]_vars => SdkInv'
<1> SUFFICES ASSUME SdkInv, [Next]_vars PROVE SdkInv' OBVIOUS
<1>1. TypeOK /\ ChatInv /\ LocalInv BY DEF SdkInv, ChatInv, LocalInv
<1>2. UNCHANGED local => LocalInv'
  BY <1>1 DEF local, LocalInv, OneHolder, AckedIsNotSentAgain, Hand
<1>3. UNCHANGED chats => ChatInv'
  BY <1>1 DEF chats, ChatInv, SessionsFit, ChatsUseTheirSessions
<1>4. CASE UNCHANGED vars
  <2>1. TypeOK' BY <1>1, <1>4 DEF vars, TypeOK
  <2>2. QED BY <1>2, <1>3, <1>4, <2>1 DEF vars, local, chats, SdkInv, ChatInv, LocalInv
<1>5. CASE \/ \E c \in Chat : UseSession(c) \/ SendChat(c) \/ AnswerChat(c)
           \/ \E c \in Call : \/ RequestSession(c)
                              \/ \E t \in Token : CreateSession(c, t)
                              \/ ReceiveSession(c)
                              \/ OpenFails(c)
           \/ Age
  BY <1>1, <1>2, <1>5, ChatSteps DEF SdkInv, ChatInv, LocalInv
<1>6. CASE \/ \E r \in Report : SendReport(r) \/ ReportSent(r) \/ ReportFails(r)
           \/ \E f \in Flush : StartFlush(f) \/ FlushReport(f)
  BY <1>1, <1>3, <1>6, LocalSteps DEF SdkInv, ChatInv, LocalInv
<1>7. QED BY <1>4, <1>5, <1>6 DEF Next

\* So it holds in every reachable state.
LEMMA SdkAlways == Spec => []SdkInv
<1>1. Init => SdkInv BY SdkInit
<1>2. SdkInv /\ [Next]_vars => SdkInv' BY SdkStep
<1>3. QED BY <1>1, <1>2, PTL DEF Spec

-----------------------------------------------------------------------------
(* What follows from it                                                    *)

\* Client, sessions and calls are well typed; a request is never sent without a session.
THEOREM SdkTypeCorrect == Spec => []TypeOK
<1>1. SdkInv => TypeOK BY DEF SdkInv
<1>2. QED BY <1>1, SdkAlways, PTL

\* However calls overlap, a request goes out under a session of its feature or of none.
THEOREM SessionsAreNotMixedUp == Spec => []ChatsUseTheirSessions
<1>1. SdkInv => ChatsUseTheirSessions BY DEF SdkInv
<1>2. QED BY <1>1, SdkAlways, PTL

\* However flushes overlap, an acknowledged report is not sent again.
THEOREM ReportsAreNotRepeated == Spec => []AckedIsNotSentAgain
<1>1. SdkInv => AckedIsNotSentAgain BY DEF SdkInv
<1>2. QED BY <1>1, SdkAlways, PTL
=============================================================================
