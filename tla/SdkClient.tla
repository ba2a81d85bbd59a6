----------------------------- MODULE SdkClient -----------------------------
(***************************************************************************)
(* One client of the JavaScript SDK (packages/sdk-js/src/index.ts): the     *)
(* cached session that chat calls share, and the queue of usage reports     *)
(* about local model calls.                                                *)
(*                                                                         *)
(* JavaScript runs a call without interruption up to its next await, so a   *)
(* step is what a call does from one await to the next.  Answers come back  *)
(* in any order or not at all.                                             *)
(***************************************************************************)
EXTENDS Integers, FiniteSets

CONSTANTS
  Chat,       \* chat requests of the app, each with an idempotency key of its own
  Opener,     \* calls of createSession by the app
  Feature,
  FeatureOf,  \* the feature a chat or an opener asks for, AnyFeature for none
  Token,      \* session tokens
  Report,     \* local model calls and their usage reports, by request id
  Flush,      \* calls of flushUsageReports
  AnyFeature, None

Call == Chat \cup Opener

ASSUME SdkAssumption ==
  /\ Chat \cap Opener = {}
  /\ FeatureOf \in [Call -> Feature \cup {AnyFeature}]
  /\ \A c \in Chat : FeatureOf[c] \in Feature
  /\ AnyFeature \notin Feature
  /\ None \notin Token \cup Feature \cup {AnyFeature}

VARIABLES
  current,    \* currentSession, by its token
  call,       \* chat and createSession calls under way
  queue,      \* pendingLocalUsageReports
  report,     \* where the report of a local call is
  flush,      \* flushUsageReports calls under way
  featureOf,  \* virtual_sessions: the feature a session was made for
  aged,       \* sessions found within the refresh buffer of their expiry, or past it
  rows,       \* requests the gateway has charged, by session and idempotency key
  acked       \* history: reports the bridge has acknowledged

vars == <<current, call, queue, report, flush, featureOf, aged, rows, acked>>
local == <<queue, report, flush, acked>>

Idle  == [at |-> "idle", token |-> None]
Ended == [running |-> FALSE, todo |-> {}, kept |-> {}]

Init ==
  /\ current   = None
  /\ call      = [c \in Call |-> Idle]
  /\ queue     = {}
  /\ report    = [r \in Report |-> "none"]
  /\ flush     = [f \in Flush |-> Ended]
  /\ featureOf = [t \in Token |-> None]
  /\ aged      = {}
  /\ rows      = {}
  /\ acked     = {}

-----------------------------------------------------------------------------
(* Sessions and chat                                                       *)

\* Mutant: a missing session has no feature to compare and no expiry to check.
UsableUndefined(c) ==
  current \in Token =>
    current \notin aged /\ featureOf[current] \in {AnyFeature, FeatureOf[c]}

\* ensureSession: the cached session may serve this call.
Usable(c) ==
  /\ current \in Token \ aged
  /\ featureOf[current] \in {AnyFeature, FeatureOf[c]}

\* chat with a usable session.  A call that has ended may be made again: the app retries
\* under the same key.
UseSession(c) ==
  /\ call[c] = Idle
  /\ Usable(c)
  /\ call' = [call EXCEPT ![c] = [at |-> "ready", token |-> current]]
  /\ UNCHANGED <<current, local, featureOf, aged, rows>>

\* chat without a usable session, or the app itself, asks for a new one.
RequestSession(c) ==
  /\ call[c] = Idle
  /\ c \in Opener \/ ~Usable(c)
  /\ call' = [call EXCEPT ![c].at = "opening"]
  /\ UNCHANGED <<current, local, featureOf, aged, rows>>

\* The API creates the session.
CreateSession(c, t) ==
  /\ call[c] = [at |-> "opening", token |-> None]
  /\ featureOf[t] = None
  /\ featureOf' = [featureOf EXCEPT ![t] = FeatureOf[c]]
  /\ call' = [call EXCEPT ![c].token = t]
  /\ UNCHANGED <<current, local, aged, rows>>

\* Its answer arrives and becomes the current session, whatever that was meanwhile.
ReceiveSession(c) ==
  /\ call[c].at = "opening" /\ call[c].token # None
  /\ current' = call[c].token
  /\ call' = [call EXCEPT ![c] = IF c \in Chat THEN [@ EXCEPT !.at = "ready"] ELSE Idle]
  /\ UNCHANGED <<local, featureOf, aged, rows>>

\* Mutant: the request is sent with the session that is current by then.
SessionOfCurrent(c) == current

SessionOf(c) == call[c].token

SendChat(c) ==
  /\ call[c].at = "ready"
  /\ call' = [call EXCEPT ![c] = [at |-> "sent", token |-> SessionOf(c)]]
  /\ UNCHANGED <<current, local, featureOf, aged, rows>>

\* The gateway charges the request, replays it if the session has it under its key, or
\* refuses it (not charged); the client gets the answer, or none.
AnswerChat(c) ==
  /\ call[c].at = "sent"
  /\ rows' \in {rows, rows \cup {<<call[c].token, c>>}}
  /\ call' = [call EXCEPT ![c] = Idle]
  /\ UNCHANGED <<current, local, featureOf, aged>>

\* The session's answer does not come, or is an error: the call throws.
OpenFails(c) ==
  /\ call[c].at = "opening"
  /\ call' = [call EXCEPT ![c] = Idle]
  /\ UNCHANGED <<current, local, featureOf, aged, rows>>

\* The client's clock reaches the refresh buffer of the current session.
Age ==
  /\ current \in Token \ aged
  /\ aged' = aged \cup {current}
  /\ UNCHANGED <<current, call, local, featureOf, rows>>

-----------------------------------------------------------------------------
(* Local model calls and their usage reports                               *)

chats == <<current, call, featureOf, aged, rows>>

\* The local model has answered: the report is sent to the bridge.
SendReport(r) ==
  /\ report[r] = "none"
  /\ report' = [report EXCEPT ![r] = "sending"]
  /\ UNCHANGED <<queue, flush, acked, chats>>

\* reportLocalUsage: a report the bridge does not acknowledge is queued.
ReportSent(r) ==
  /\ report[r] = "sending"
  /\ report' = [report EXCEPT ![r] = "sent"]
  /\ acked' = acked \cup {r}
  /\ UNCHANGED <<queue, flush, chats>>
ReportFails(r) ==
  /\ report[r] = "sending"
  /\ report' = [report EXCEPT ![r] = "queued"]
  /\ queue' = queue \cup {r}
  /\ UNCHANGED <<flush, acked, chats>>

\* Mutant: the queue is left as it is until the flush has ended.
StartFlushKeepingQueue(f) ==
  /\ ~flush[f].running
  /\ queue # {}
  /\ flush' = [flush EXCEPT ![f] = [running |-> TRUE, todo |-> queue, kept |-> {}]]
  /\ UNCHANGED <<queue, report, acked, chats>>

\* flushUsageReports takes the queue.  With an empty one it returns without an await.
StartFlush(f) ==
  /\ ~flush[f].running
  /\ queue # {}
  /\ flush' = [flush EXCEPT ![f] = [running |-> TRUE, todo |-> queue, kept |-> {}]]
  /\ queue' = {}
  /\ UNCHANGED <<report, acked, chats>>

\* One report is acknowledged or is kept.  After the last one the queue becomes what this
\* flush has kept.
FlushReport(f) ==
  \E r \in flush[f].todo, ok \in BOOLEAN :
    LET todo == flush[f].todo \ {r}
        kept == IF ok THEN flush[f].kept ELSE flush[f].kept \cup {r} IN
    /\ acked' = IF ok THEN acked \cup {r} ELSE acked
    /\ IF todo = {}
       THEN flush' = [flush EXCEPT ![f] = Ended] /\ queue' = kept
       ELSE /\ flush' = [flush EXCEPT ![f] = [running |-> TRUE, todo |-> todo, kept |-> kept]]
            /\ UNCHANGED queue
    /\ UNCHANGED <<report, chats>>

Next ==
  \/ \E c \in Chat : UseSession(c) \/ SendChat(c) \/ AnswerChat(c)
  \/ \E c \in Call :
       \/ RequestSession(c)
       \/ \E t \in Token : CreateSession(c, t)
       \/ ReceiveSession(c)
       \/ OpenFails(c)
  \/ Age
  \/ \E r \in Report : SendReport(r) \/ ReportSent(r) \/ ReportFails(r)
  \/ \E f \in Flush : StartFlush(f) \/ FlushReport(f)

Spec == Init /\ [][Next]_vars

-----------------------------------------------------------------------------
(* Properties                                                              *)

\* What the client, the sessions table and the calls under way can hold.
TypeOK ==
  /\ current \in Token \cup {None}
  /\ call \in [Call -> [at : {"idle", "opening", "ready", "sent"}, token : Token \cup {None}]]
  /\ \A c \in Call : call[c].at \in {"ready", "sent"} => c \in Chat /\ call[c].token # None
  /\ queue \subseteq Report
  /\ report \in [Report -> {"none", "sending", "sent", "queued"}]
  /\ flush \in [Flush -> [running : BOOLEAN, todo : SUBSET Report, kept : SUBSET Report]]
  /\ featureOf \in [Token -> Feature \cup {AnyFeature, None}]
  /\ aged \subseteq Token
  /\ rows \subseteq Token \X Chat
  /\ acked \subseteq Report

\* A request is charged only under a session made for its feature or for any
\* (ensureSession), however the calls that share the cached session overlap: the gateway
\* itself does not compare the two.
ChatsUseTheirSessions ==
  \A row \in rows : featureOf[row[1]] \in {AnyFeature, FeatureOf[row[2]]}

\* The reports a flush still has in hand.
Hand(f) == flush[f].todo \cup flush[f].kept

\* A report the bridge has acknowledged is not sent again, by overlapping flushes or
\* otherwise (flushUsageReports): the bridge does not recognise one it has had.
AckedIsNotSentAgain ==
  \A r \in acked :
    /\ report[r] # "sending"
    /\ r \notin queue
    /\ \A f \in Flush : r \notin Hand(f)

\* docs/sdk-local-bridge.md:104-105: "The SDK queues failed local usage reports in memory
\* and lets the app flush them later".  A report that was queued is in the queue, in a
\* flush's hands or acknowledged.
QueuedReportsAreKept ==
  \A r \in Report :
    report[r] = "queued" => r \in queue \cup acked \/ \E f \in Flush : r \in Hand(f)
=============================================================================
