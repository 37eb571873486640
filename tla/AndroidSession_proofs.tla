------------------------ MODULE AndroidSession_proofs ------------------------
(***************************************************************************)
(* For every number of instances, of native threads and of ticks:          *)
(* mInstanceState follows the native threads, two threads meet on an       *)
(* instance only after haste, and a connection is orphaned only by a       *)
(* disconnect that was ignored, by a later connect, or, where its          *)
(* configuration is in no list, by an activity that finished after haste.  *)
(*                                                                         *)
(* None of the three is inductive.  The first needs the tally of threads   *)
(* and callbacks; the second what an activity is waiting for when it may   *)
(* begin a connection; the third that mInstanceState is never set while a  *)
(* thread is connecting, so that an accepted disconnect comes after the    *)
(* ResetEvent of freerdp_connect, and that an activity which finishes      *)
(* without haste leaves no thread behind, or one it has disconnected.      *)
(***************************************************************************)
EXTENDS AndroidSession, TLAPS

\* An instance without an activity is as freerdp_new has made it, and what a
\* finished activity leaves is what Finish writes.  CLOSER is posted by
\* askExit, which disconnects.
FreshInv ==
    \A i \in Instances :
        /\ life[i] = "none" =>
             /\ thread[i] = "none" /\ handler[i] = {} /\ ~ dialog[i]
             /\ ui # i /\ cState[i] = "CONNECTING"
        /\ life[i] = "finished" =>
             handler[i] = {} /\ ~ dialog[i] /\ cState[i] = "CONNECTING"
        /\ "CLOSER" \in handler[i] => holder[i] = "none"

\* Every thread, and every callback still to remove mInstanceState, was
\* started by jni_freerdp_connect.
Outstanding(i) == removing[i] + (IF thread[i] = "none" THEN 0 ELSE 1)
TallyInv == \A i \in Instances : Outstanding(i) <= starts[i]

\* mInstanceState is not set while a thread is on its way to a connection.
NotedInv ==
    \A i \in Instances :
        Defined(i) /\ mInstanceState[i] =>
            thread[i] \notin {"created", "connecting", "told"}

\* An activity that was never stopped, and whose 30 seconds never passed: a
\* connection begins only where no thread runs.  Two ways lead there:
\* START_CONNECTION, once, and the dialog, which follows a failure.  And it
\* finishes where no thread runs, unless it has disconnected.
PatientInv ==
    \A i \in Instances : i \notin hasty =>
        /\ life[i] # "stopped"
        /\ "START_CONNECTION" \in handler[i] =>
             /\ thread[i] = "none" /\ ui # i /\ ~ dialog[i]
             /\ "PROGRESS" \notin handler[i]
        /\ cState[i] = "FAILED" /\ ui # i => thread[i] = "none"
        /\ dialog[i] => cState[i] = "FAILED" /\ ui # i
        /\ life[i] = "finished" => thread[i] = "none" \/ holder[i] = "none"
        /\ i \notin undefined

\* A native thread the configuration has let go of is told to end, unless the
\* disconnect came too early or the thread was started later.
LetGoInv ==
    \A i \in Instances :
        /\ Defined(i) /\ holder[i] = "none" /\ thread[i] # "none"
        /\ i \notin ignored \cup revived
        => abortEvent[i] /\ thread[i] \in {"running", "stopping"}

AndroidInv ==
    /\ TypeOK /\ TallyInv /\ FreshInv /\ NotedInv /\ StateTracksThread
    /\ PatientInv /\ LetGoInv

-----------------------------------------------------------------------------
\* RDPSessionConfig.disconnect keeps the types of what it writes.
LEMMA DisconnectTypes ==
    ASSUME TypeOK, NEW i \in Instances, Disconnect(i)
    PROVE  /\ holder' \in [Instances -> Holders]
           /\ abortEvent' \in [Instances -> BOOLEAN]
           /\ queued' \in [Instances -> BOOLEAN]
           /\ accepted' \subseteq Instances /\ ignored' \subseteq Instances
<1>1. holder' \in [Instances -> Holders]
  BY DEF TypeOK, Disconnect, Holders
<1>2. CASE holder[i] # "none" /\ mInstanceState[i]
  <2>1. JniDisconnect(i) /\ ignored' = ignored
    BY <1>2 DEF Disconnect
  <2>2. /\ queued' \in [Instances -> BOOLEAN]
        /\ abortEvent' \in [Instances -> BOOLEAN]
    BY <2>1 DEF TypeOK, JniDisconnect
  <2>3. accepted' \subseteq Instances
    BY <1>2 DEF TypeOK, Disconnect
  <2> QED BY <1>1, <2>1, <2>2, <2>3 DEF TypeOK
<1>3. CASE holder[i] = "none" \/ ~ mInstanceState[i]
  BY <1>1, <1>3 DEF TypeOK, Disconnect, ended
<1> QED BY <1>2, <1>3

\* Every step keeps the types.
LEMMA TypeStep ==
    ASSUME TypeOK, TallyInv, [Next]_vars
    PROVE  TypeOK'
<1> USE AndroidSessionAssumption
    DEF TypeOK, TallyInv, Outstanding, Phases, Holders, Runnables,
        activity, native, begun, ended, left, history
<1>1. CASE AssignState
  BY <1>1 DEF AssignState, SetConnectionState, Live
<1>2. ASSUME NEW i \in Instances, ListDisconnect(i) PROVE TypeOK'
  <2>1. /\ holder' \in [Instances -> Holders]
        /\ abortEvent' \in [Instances -> BOOLEAN]
        /\ queued' \in [Instances -> BOOLEAN]
        /\ accepted' \subseteq Instances /\ ignored' \subseteq Instances
    BY <1>2, DisconnectTypes DEF ListDisconnect
  <2> QED BY <1>2, <2>1 DEF ListDisconnect
<1>3. ASSUME NEW i \in Instances, StartConnection(i) PROVE TypeOK'
  BY <1>3 DEF StartConnection, BeginConnection, BeginConnectionFails,
          JniConnect
<1>4. ASSUME NEW i \in Instances, Progress(i) PROVE TypeOK'
  <2>1. ProgressState(i) \in {"CONNECTING", "CONNECTED", "FAILED"}
    BY DEF ProgressState
  <2>2. /\ cState' \in [Instances -> {"CONNECTING", "CONNECTED", "FAILED"}]
        /\ hasty' \subseteq Instances
    BY <1>4, <2>1 DEF Progress
  <2>3. CASE ProgressState(i) = "CONNECTING"
    <3>1. ticks' \in [Instances -> 0 .. Ticks]
      BY <1>4, <2>3 DEF Progress
    <3> QED BY <1>4, <2>2, <2>3, <3>1 DEF Progress
  <2>4. CASE ProgressState(i) # "CONNECTING"
    <3>1. handler' \in [Instances -> SUBSET Runnables]
      BY <1>4, <2>4 DEF Progress
    <3>2. dialog' \in [Instances -> BOOLEAN]
      BY <1>4, <2>4 DEF Progress
    <3>3. screen' \in [Instances -> {"connecting", "session"}]
      BY <1>4, <2>4 DEF Progress
    <3> QED BY <1>4, <2>2, <2>4, <3>1, <3>2, <3>3 DEF Progress
  <2> QED BY <2>3, <2>4
<1>5. ASSUME NEW i \in Instances, Closer(i) PROVE TypeOK'
  BY <1>5 DEF Closer, Finish, Fresh, Live
<1>6. ASSUME NEW i \in Instances, NEW h \in {"entry", "loose"}, Connect(i, h)
      PROVE  TypeOK'
  BY <1>6 DEF Connect
<1>7. ASSUME NEW i \in Instances, OnStop(i) PROVE TypeOK'
  BY <1>7 DEF OnStop
<1>8. ASSUME NEW i \in Instances, OnStart(i) PROVE TypeOK'
  BY <1>8 DEF OnStart
<1>9. ASSUME NEW i \in Instances, CancelLogin(i) PROVE TypeOK'
  BY <1>9 DEF CancelLogin, Finish, Fresh
<1>10. ASSUME NEW i \in Instances, Retry(i) PROVE TypeOK'
  BY <1>10 DEF Retry, BeginConnection, BeginConnectionFails, JniConnect
<1>11. ASSUME NEW i \in Instances, GiveUp(i) PROVE TypeOK'
  BY <1>11 DEF GiveUp, Finish, Fresh
<1>12. ASSUME NEW i \in Instances, AskExit(i) PROVE TypeOK'
  <2>1. /\ holder' \in [Instances -> Holders]
        /\ abortEvent' \in [Instances -> BOOLEAN]
        /\ queued' \in [Instances -> BOOLEAN]
        /\ accepted' \subseteq Instances /\ ignored' \subseteq Instances
    BY <1>12, DisconnectTypes DEF AskExit
  <2> QED BY <1>12, <2>1 DEF AskExit
<1>13. ASSUME NEW i \in Instances, ThreadStart(i) PROVE TypeOK'
  BY <1>13 DEF ThreadStart
<1>14. ASSUME NEW i \in Instances, ThreadNoteSuccess(i) PROVE TypeOK'
  BY <1>14 DEF ThreadNoteSuccess
<1>15. ASSUME NEW i \in Instances, ThreadAborted(i) PROVE TypeOK'
  BY <1>15 DEF ThreadAborted
<1>16. ASSUME NEW i \in Instances, ThreadTakesDisconnect(i) PROVE TypeOK'
  BY <1>16 DEF ThreadTakesDisconnect
<1>17. ASSUME NEW i \in Instances, ThreadTellEnd(i) PROVE TypeOK'
  <2>1. /\ thread' \in [Instances -> Phases]
        /\ removing' \in [Instances -> Nat] /\ starts' \in [Instances -> Nat]
        /\ \A j \in Instances : removing'[j] <= starts'[j]
        /\ accepted' \subseteq Instances
    BY <1>17 DEF ThreadTellEnd
  <2>2. CASE Finish(i)
    BY <1>17, <2>1, <2>2 DEF ThreadTellEnd, Finish, Fresh
  <2>3. CASE /\ SetConnectionState(i, "FAILED")
             /\ UNCHANGED <<life, handler, ticks, dialog, screen>>
    BY <1>17, <2>1, <2>3 DEF ThreadTellEnd, SetConnectionState
  <2> QED BY <1>17, <2>2, <2>3 DEF ThreadTellEnd
<1>18. ASSUME NEW i \in Instances, ThreadNoteEnd(i) PROVE TypeOK'
  BY <1>18 DEF ThreadNoteEnd
<1>19. ASSUME NEW i \in Instances, ThreadTellSuccess(i) PROVE TypeOK'
  BY <1>19 DEF ThreadTellSuccess, SetConnectionState, Live
<1>20. ASSUME NEW i \in Instances, ThreadConnectFails(i) PROVE TypeOK'
  BY <1>20 DEF ThreadConnectFails
<1>22. CASE ListClear
  BY <1>22 DEF ListClear
<1>23. ASSUME NEW i \in Instances, OnDestroy(i) PROVE TypeOK'
  BY <1>23 DEF OnDestroy, Fresh, Live
<1>21. CASE UNCHANGED vars
  BY <1>21 DEF vars
<1> QED
  BY <1>1, <1>2, <1>3, <1>4, <1>5, <1>6, <1>7, <1>8, <1>9, <1>10, <1>11,
      <1>12, <1>13, <1>14, <1>15, <1>16, <1>17, <1>18, <1>19, <1>20, <1>21,
      <1>22, <1>23
  DEF Next, UI, User, Native, Network

\* Every step keeps the tally of native threads.
LEMMA TallyStep ==
    ASSUME TypeOK, TallyInv, [Next]_vars
    PROVE  TallyInv'
<1> USE AndroidSessionAssumption
    DEF TypeOK, TallyInv, Outstanding, Phases,
        activity, native, begun, ended, left, history
<1>1. CASE AssignState
  BY <1>1 DEF AssignState, SetConnectionState, Live
<1>2. ASSUME NEW i \in Instances, ListDisconnect(i) PROVE TallyInv'
  BY <1>2 DEF ListDisconnect, Disconnect, JniDisconnect
<1>3. ASSUME NEW i \in Instances, StartConnection(i) PROVE TallyInv'
  BY <1>3 DEF StartConnection, BeginConnection, BeginConnectionFails,
          JniConnect
<1>4. ASSUME NEW i \in Instances, Progress(i) PROVE TallyInv'
  BY <1>4 DEF Progress, ProgressState
<1>5. ASSUME NEW i \in Instances, Closer(i) PROVE TallyInv'
  BY <1>5 DEF Closer, Finish, Fresh, Live
<1>6. ASSUME NEW i \in Instances, NEW h \in {"entry", "loose"}, Connect(i, h)
      PROVE  TallyInv'
  BY <1>6 DEF Connect
<1>7. ASSUME NEW i \in Instances, OnStop(i) PROVE TallyInv'
  BY <1>7 DEF OnStop
<1>8. ASSUME NEW i \in Instances, OnStart(i) PROVE TallyInv'
  BY <1>8 DEF OnStart
<1>9. ASSUME NEW i \in Instances, CancelLogin(i) PROVE TallyInv'
  BY <1>9 DEF CancelLogin, Finish, Fresh
<1>10. ASSUME NEW i \in Instances, Retry(i) PROVE TallyInv'
  BY <1>10 DEF Retry, BeginConnection, BeginConnectionFails, JniConnect
<1>11. ASSUME NEW i \in Instances, GiveUp(i) PROVE TallyInv'
  BY <1>11 DEF GiveUp, Finish, Fresh
<1>12. ASSUME NEW i \in Instances, AskExit(i) PROVE TallyInv'
  BY <1>12 DEF AskExit, Disconnect, JniDisconnect
<1>13. ASSUME NEW i \in Instances, ThreadStart(i) PROVE TallyInv'
  BY <1>13 DEF ThreadStart
<1>14. ASSUME NEW i \in Instances, ThreadNoteSuccess(i) PROVE TallyInv'
  BY <1>14 DEF ThreadNoteSuccess
<1>15. ASSUME NEW i \in Instances, ThreadAborted(i) PROVE TallyInv'
  BY <1>15 DEF ThreadAborted
<1>16. ASSUME NEW i \in Instances, ThreadTakesDisconnect(i) PROVE TallyInv'
  BY <1>16 DEF ThreadTakesDisconnect
<1>17. ASSUME NEW i \in Instances, ThreadTellEnd(i) PROVE TallyInv'
  BY <1>17 DEF ThreadTellEnd, Finish, Fresh, SetConnectionState, Live
<1>18. ASSUME NEW i \in Instances, ThreadNoteEnd(i) PROVE TallyInv'
  BY <1>18 DEF ThreadNoteEnd
<1>19. ASSUME NEW i \in Instances, ThreadTellSuccess(i) PROVE TallyInv'
  BY <1>19 DEF ThreadTellSuccess, SetConnectionState, Live
<1>20. ASSUME NEW i \in Instances, ThreadConnectFails(i) PROVE TallyInv'
  BY <1>20 DEF ThreadConnectFails
<1>22. CASE ListClear
  BY <1>22 DEF ListClear
<1>23. ASSUME NEW i \in Instances, OnDestroy(i) PROVE TallyInv'
  BY <1>23 DEF OnDestroy, Fresh, Live
<1>21. CASE UNCHANGED vars
  BY <1>21 DEF vars
<1> QED
  BY <1>1, <1>2, <1>3, <1>4, <1>5, <1>6, <1>7, <1>8, <1>9, <1>10, <1>11,
      <1>12, <1>13, <1>14, <1>15, <1>16, <1>17, <1>18, <1>19, <1>20, <1>21,
      <1>22, <1>23
  DEF Next, UI, User, Native, Network

\* Every step keeps instances without an activity, and finished ones, as they
\* are.
LEMMA FreshStep ==
    ASSUME TypeOK, FreshInv, [Next]_vars
    PROVE  FreshInv'
<1> USE AndroidSessionAssumption
    DEF TypeOK, FreshInv, Phases, Runnables,
        activity, native, begun, ended, left, history
<1>1. CASE AssignState
  BY <1>1 DEF AssignState, SetConnectionState, Live
<1>2. ASSUME NEW i \in Instances, ListDisconnect(i) PROVE FreshInv'
  BY <1>2 DEF ListDisconnect, Disconnect, JniDisconnect
<1>3. ASSUME NEW i \in Instances, StartConnection(i) PROVE FreshInv'
  BY <1>3 DEF StartConnection, BeginConnection, BeginConnectionFails,
          JniConnect
<1>4. ASSUME NEW i \in Instances, Progress(i) PROVE FreshInv'
  BY <1>4 DEF Progress, ProgressState
<1>5. ASSUME NEW i \in Instances, Closer(i) PROVE FreshInv'
  BY <1>5 DEF Closer, Finish, Fresh, Live
<1>6. ASSUME NEW i \in Instances, NEW h \in {"entry", "loose"}, Connect(i, h)
      PROVE  FreshInv'
  BY <1>6 DEF Connect
<1>7. ASSUME NEW i \in Instances, OnStop(i) PROVE FreshInv'
  BY <1>7 DEF OnStop
<1>8. ASSUME NEW i \in Instances, OnStart(i) PROVE FreshInv'
  BY <1>8 DEF OnStart
<1>9. ASSUME NEW i \in Instances, CancelLogin(i) PROVE FreshInv'
  BY <1>9 DEF CancelLogin, Finish, Fresh
<1>10. ASSUME NEW i \in Instances, Retry(i) PROVE FreshInv'
  BY <1>10 DEF Retry, BeginConnection, BeginConnectionFails, JniConnect
<1>11. ASSUME NEW i \in Instances, GiveUp(i) PROVE FreshInv'
  BY <1>11 DEF GiveUp, Finish, Fresh
<1>12. ASSUME NEW i \in Instances, AskExit(i) PROVE FreshInv'
  BY <1>12 DEF AskExit, Disconnect, JniDisconnect
<1>13. ASSUME NEW i \in Instances, ThreadStart(i) PROVE FreshInv'
  BY <1>13 DEF ThreadStart
<1>14. ASSUME NEW i \in Instances, ThreadNoteSuccess(i) PROVE FreshInv'
  BY <1>14 DEF ThreadNoteSuccess
<1>15. ASSUME NEW i \in Instances, ThreadAborted(i) PROVE FreshInv'
  BY <1>15 DEF ThreadAborted
<1>16. ASSUME NEW i \in Instances, ThreadTakesDisconnect(i) PROVE FreshInv'
  BY <1>16 DEF ThreadTakesDisconnect
<1>17. ASSUME NEW i \in Instances, ThreadTellEnd(i) PROVE FreshInv'
  BY <1>17 DEF ThreadTellEnd, Finish, Fresh, SetConnectionState, Live
<1>18. ASSUME NEW i \in Instances, ThreadNoteEnd(i) PROVE FreshInv'
  BY <1>18 DEF ThreadNoteEnd
<1>19. ASSUME NEW i \in Instances, ThreadTellSuccess(i) PROVE FreshInv'
  BY <1>19 DEF ThreadTellSuccess, SetConnectionState, Live
<1>20. ASSUME NEW i \in Instances, ThreadConnectFails(i) PROVE FreshInv'
  BY <1>20 DEF ThreadConnectFails
<1>22. CASE ListClear
  BY <1>22 DEF ListClear
<1>23. ASSUME NEW i \in Instances, OnDestroy(i) PROVE FreshInv'
  BY <1>23 DEF OnDestroy, Fresh, Live
<1>21. CASE UNCHANGED vars
  BY <1>21 DEF vars
<1> QED
  BY <1>1, <1>2, <1>3, <1>4, <1>5, <1>6, <1>7, <1>8, <1>9, <1>10, <1>11,
      <1>12, <1>13, <1>14, <1>15, <1>16, <1>17, <1>18, <1>19, <1>20, <1>21,
      <1>22, <1>23
  DEF Next, UI, User, Native, Network

\* Every step keeps mInstanceState unset while a thread connects.
LEMMA NotedStep ==
    ASSUME TypeOK, NotedInv, [Next]_vars
    PROVE  NotedInv'
<1> USE AndroidSessionAssumption
    DEF TypeOK, NotedInv, Defined, Phases,
        activity, native, begun, ended, left, history
<1>1. CASE AssignState
  BY <1>1 DEF AssignState, SetConnectionState, Live
<1>2. ASSUME NEW i \in Instances, ListDisconnect(i) PROVE NotedInv'
  BY <1>2 DEF ListDisconnect, Disconnect, JniDisconnect
<1>3. ASSUME NEW i \in Instances, StartConnection(i) PROVE NotedInv'
  BY <1>3 DEF StartConnection, BeginConnection, BeginConnectionFails,
          JniConnect
<1>4. ASSUME NEW i \in Instances, Progress(i) PROVE NotedInv'
  BY <1>4 DEF Progress, ProgressState
<1>5. ASSUME NEW i \in Instances, Closer(i) PROVE NotedInv'
  BY <1>5 DEF Closer, Finish, Fresh, Live
<1>6. ASSUME NEW i \in Instances, NEW h \in {"entry", "loose"}, Connect(i, h)
      PROVE  NotedInv'
  BY <1>6 DEF Connect
<1>7. ASSUME NEW i \in Instances, OnStop(i) PROVE NotedInv'
  BY <1>7 DEF OnStop
<1>8. ASSUME NEW i \in Instances, OnStart(i) PROVE NotedInv'
  BY <1>8 DEF OnStart
<1>9. ASSUME NEW i \in Instances, CancelLogin(i) PROVE NotedInv'
  BY <1>9 DEF CancelLogin, Finish, Fresh
<1>10. ASSUME NEW i \in Instances, Retry(i) PROVE NotedInv'
  BY <1>10 DEF Retry, BeginConnection, BeginConnectionFails, JniConnect
<1>11. ASSUME NEW i \in Instances, GiveUp(i) PROVE NotedInv'
  BY <1>11 DEF GiveUp, Finish, Fresh
<1>12. ASSUME NEW i \in Instances, AskExit(i) PROVE NotedInv'
  BY <1>12 DEF AskExit, Disconnect, JniDisconnect
<1>13. ASSUME NEW i \in Instances, ThreadStart(i) PROVE NotedInv'
  BY <1>13 DEF ThreadStart
<1>14. ASSUME NEW i \in Instances, ThreadNoteSuccess(i) PROVE NotedInv'
  BY <1>14 DEF ThreadNoteSuccess
<1>15. ASSUME NEW i \in Instances, ThreadAborted(i) PROVE NotedInv'
  BY <1>15 DEF ThreadAborted
<1>16. ASSUME NEW i \in Instances, ThreadTakesDisconnect(i) PROVE NotedInv'
  BY <1>16 DEF ThreadTakesDisconnect
<1>17. ASSUME NEW i \in Instances, ThreadTellEnd(i) PROVE NotedInv'
  BY <1>17 DEF ThreadTellEnd, Finish, Fresh, SetConnectionState, Live
<1>18. ASSUME NEW i \in Instances, ThreadNoteEnd(i) PROVE NotedInv'
  BY <1>18 DEF ThreadNoteEnd
<1>19. ASSUME NEW i \in Instances, ThreadTellSuccess(i) PROVE NotedInv'
  BY <1>19 DEF ThreadTellSuccess, SetConnectionState, Live
<1>20. ASSUME NEW i \in Instances, ThreadConnectFails(i) PROVE NotedInv'
  BY <1>20 DEF ThreadConnectFails
<1>22. CASE ListClear
  BY <1>22 DEF ListClear
<1>23. ASSUME NEW i \in Instances, OnDestroy(i) PROVE NotedInv'
  BY <1>23 DEF OnDestroy, Fresh, Live
<1>21. CASE UNCHANGED vars
  BY <1>21 DEF vars
<1> QED
  BY <1>1, <1>2, <1>3, <1>4, <1>5, <1>6, <1>7, <1>8, <1>9, <1>10, <1>11,
      <1>12, <1>13, <1>14, <1>15, <1>16, <1>17, <1>18, <1>19, <1>20, <1>21,
      <1>22, <1>23
  DEF Next, UI, User, Native, Network

\* Every step keeps mInstanceState in agreement with the thread.
LEMMA TracksStep ==
    ASSUME TypeOK, TallyInv, NotedInv, StateTracksThread, [Next]_vars
    PROVE  StateTracksThread'
<1> USE AndroidSessionAssumption
    DEF TypeOK, TallyInv, Outstanding, NotedInv, StateTracksThread, Defined,
        Phases,
        activity, native, begun, ended, left, history
<1>1. CASE AssignState
  BY <1>1 DEF AssignState, SetConnectionState, Live
<1>2. ASSUME NEW i \in Instances, ListDisconnect(i) PROVE StateTracksThread'
  BY <1>2 DEF ListDisconnect, Disconnect, JniDisconnect
<1>3. ASSUME NEW i \in Instances, StartConnection(i) PROVE StateTracksThread'
  BY <1>3 DEF StartConnection, BeginConnection, BeginConnectionFails,
          JniConnect
<1>4. ASSUME NEW i \in Instances, Progress(i) PROVE StateTracksThread'
  BY <1>4 DEF Progress, ProgressState
<1>5. ASSUME NEW i \in Instances, Closer(i) PROVE StateTracksThread'
  BY <1>5 DEF Closer, Finish, Fresh, Live
<1>6. ASSUME NEW i \in Instances, NEW h \in {"entry", "loose"}, Connect(i, h)
      PROVE  StateTracksThread'
  BY <1>6 DEF Connect
<1>7. ASSUME NEW i \in Instances, OnStop(i) PROVE StateTracksThread'
  BY <1>7 DEF OnStop
<1>8. ASSUME NEW i \in Instances, OnStart(i) PROVE StateTracksThread'
  BY <1>8 DEF OnStart
<1>9. ASSUME NEW i \in Instances, CancelLogin(i) PROVE StateTracksThread'
  BY <1>9 DEF CancelLogin, Finish, Fresh
<1>10. ASSUME NEW i \in Instances, Retry(i) PROVE StateTracksThread'
  BY <1>10 DEF Retry, BeginConnection, BeginConnectionFails, JniConnect
<1>11. ASSUME NEW i \in Instances, GiveUp(i) PROVE StateTracksThread'
  BY <1>11 DEF GiveUp, Finish, Fresh
<1>12. ASSUME NEW i \in Instances, AskExit(i) PROVE StateTracksThread'
  BY <1>12 DEF AskExit, Disconnect, JniDisconnect
<1>13. ASSUME NEW i \in Instances, ThreadStart(i) PROVE StateTracksThread'
  BY <1>13 DEF ThreadStart
<1>14. ASSUME NEW i \in Instances, ThreadNoteSuccess(i) PROVE StateTracksThread'
  BY <1>14 DEF ThreadNoteSuccess
<1>15. ASSUME NEW i \in Instances, ThreadAborted(i) PROVE StateTracksThread'
  BY <1>15 DEF ThreadAborted
<1>16. ASSUME NEW i \in Instances, ThreadTakesDisconnect(i) PROVE StateTracksThread'
  BY <1>16 DEF ThreadTakesDisconnect
<1>17. ASSUME NEW i \in Instances, ThreadTellEnd(i) PROVE StateTracksThread'
  BY <1>17 DEF ThreadTellEnd, Finish, Fresh, SetConnectionState, Live
<1>18. ASSUME NEW i \in Instances, ThreadNoteEnd(i) PROVE StateTracksThread'
  BY <1>18 DEF ThreadNoteEnd
<1>19. ASSUME NEW i \in Instances, ThreadTellSuccess(i) PROVE StateTracksThread'
  BY <1>19 DEF ThreadTellSuccess, SetConnectionState, Live
<1>20. ASSUME NEW i \in Instances, ThreadConnectFails(i) PROVE StateTracksThread'
  BY <1>20 DEF ThreadConnectFails
<1>22. CASE ListClear
  BY <1>22 DEF ListClear
<1>23. ASSUME NEW i \in Instances, OnDestroy(i) PROVE StateTracksThread'
  BY <1>23 DEF OnDestroy, Fresh, Live
<1>21. CASE UNCHANGED vars
  BY <1>21 DEF vars
<1> QED
  BY <1>1, <1>2, <1>3, <1>4, <1>5, <1>6, <1>7, <1>8, <1>9, <1>10, <1>11,
      <1>12, <1>13, <1>14, <1>15, <1>16, <1>17, <1>18, <1>19, <1>20, <1>21,
      <1>22, <1>23
  DEF Next, UI, User, Native, Network

\* Every step of an activity that is not left keeps its connection single.
LEMMA PatientStep ==
    ASSUME TypeOK, FreshInv, PatientInv, [Next]_vars
    PROVE  PatientInv'
<1> USE AndroidSessionAssumption
    DEF TypeOK, FreshInv, PatientInv, Defined, Phases, Runnables,
        activity, native, begun, ended, left, history
<1>1. CASE AssignState
  BY <1>1 DEF AssignState, SetConnectionState, Live
<1>2. ASSUME NEW i \in Instances, ListDisconnect(i) PROVE PatientInv'
  BY <1>2 DEF ListDisconnect, Disconnect, JniDisconnect
<1>3. ASSUME NEW i \in Instances, StartConnection(i) PROVE PatientInv'
  BY <1>3 DEF StartConnection, BeginConnection, BeginConnectionFails,
          JniConnect
<1>4. ASSUME NEW i \in Instances, Progress(i) PROVE PatientInv'
  <2>1. CASE ticks[i] = Ticks
    BY <1>4, <2>1 DEF Progress, ProgressState
  <2>2. CASE ticks[i] # Ticks /\ cState[i] = "CONNECTING"
    BY <1>4, <2>2 DEF Progress, ProgressState
  <2>3. CASE ticks[i] # Ticks /\ cState[i] # "CONNECTING"
    <3>1. ProgressState(i) = cState[i] /\ cState' = cState
      BY <1>4, <2>3 DEF Progress, ProgressState
    <3>2. /\ handler' = [handler EXCEPT ![i] = @ \ {"PROGRESS"}]
          /\ "PROGRESS" \in handler[i]
          /\ ui = NoInstance /\ hasty' = hasty
          /\ UNCHANGED <<holder, life, ui, thread, undefined>>
      BY <1>4, <2>3, <3>1 DEF Progress
    <3>3. \A j \in Instances \ {i} : dialog'[j] = dialog[j]
      BY <1>4, <2>3, <3>1 DEF Progress
    <3>4. dialog'[i] => dialog[i] \/ cState[i] = "FAILED"
      BY <1>4, <2>3, <3>1 DEF Progress
    <3> QED BY <3>1, <3>2, <3>3, <3>4
  <2> QED BY <2>1, <2>2, <2>3
<1>5. ASSUME NEW i \in Instances, Closer(i) PROVE PatientInv'
  BY <1>5 DEF Closer, Finish, Fresh, Live
<1>6. ASSUME NEW i \in Instances, NEW h \in {"entry", "loose"}, Connect(i, h)
      PROVE  PatientInv'
  BY <1>6 DEF Connect
<1>7. ASSUME NEW i \in Instances, OnStop(i) PROVE PatientInv'
  BY <1>7 DEF OnStop
<1>8. ASSUME NEW i \in Instances, OnStart(i) PROVE PatientInv'
  BY <1>8 DEF OnStart
<1>9. ASSUME NEW i \in Instances, CancelLogin(i) PROVE PatientInv'
  BY <1>9 DEF CancelLogin, Finish, Fresh
<1>10. ASSUME NEW i \in Instances, Retry(i) PROVE PatientInv'
  BY <1>10 DEF Retry, BeginConnection, BeginConnectionFails, JniConnect
<1>11. ASSUME NEW i \in Instances, GiveUp(i) PROVE PatientInv'
  BY <1>11 DEF GiveUp, Finish, Fresh
<1>12. ASSUME NEW i \in Instances, AskExit(i) PROVE PatientInv'
  BY <1>12 DEF AskExit, Disconnect, JniDisconnect
<1>13. ASSUME NEW i \in Instances, ThreadStart(i) PROVE PatientInv'
  BY <1>13 DEF ThreadStart
<1>14. ASSUME NEW i \in Instances, ThreadNoteSuccess(i) PROVE PatientInv'
  BY <1>14 DEF ThreadNoteSuccess
<1>15. ASSUME NEW i \in Instances, ThreadAborted(i) PROVE PatientInv'
  BY <1>15 DEF ThreadAborted
<1>16. ASSUME NEW i \in Instances, ThreadTakesDisconnect(i) PROVE PatientInv'
  BY <1>16 DEF ThreadTakesDisconnect
<1>17. ASSUME NEW i \in Instances, ThreadTellEnd(i) PROVE PatientInv'
  BY <1>17 DEF ThreadTellEnd, Finish, Fresh, SetConnectionState, Live
<1>18. ASSUME NEW i \in Instances, ThreadNoteEnd(i) PROVE PatientInv'
  BY <1>18 DEF ThreadNoteEnd
<1>19. ASSUME NEW i \in Instances, ThreadTellSuccess(i) PROVE PatientInv'
  BY <1>19 DEF ThreadTellSuccess, SetConnectionState, Live
<1>20. ASSUME NEW i \in Instances, ThreadConnectFails(i) PROVE PatientInv'
  BY <1>20 DEF ThreadConnectFails
<1>22. CASE ListClear
  BY <1>22 DEF ListClear
<1>23. ASSUME NEW i \in Instances, OnDestroy(i) PROVE PatientInv'
  BY <1>23 DEF OnDestroy, Fresh, Live
<1>21. CASE UNCHANGED vars
  BY <1>21 DEF vars
<1> QED
  BY <1>1, <1>2, <1>3, <1>4, <1>5, <1>6, <1>7, <1>8, <1>9, <1>10, <1>11,
      <1>12, <1>13, <1>14, <1>15, <1>16, <1>17, <1>18, <1>19, <1>20, <1>21,
      <1>22, <1>23
  DEF Next, UI, User, Native, Network

\* Every step keeps a thread the configuration has let go of under an abort
\* event.
LEMMA LetGoStep ==
    ASSUME TypeOK, FreshInv, NotedInv, LetGoInv, [Next]_vars
    PROVE  LetGoInv'
<1> USE AndroidSessionAssumption
    DEF TypeOK, FreshInv, NotedInv, LetGoInv, Defined, Phases,
        activity, native, begun, ended, left, history
<1>1. CASE AssignState
  BY <1>1 DEF AssignState, SetConnectionState, Live
<1>2. ASSUME NEW i \in Instances, ListDisconnect(i) PROVE LetGoInv'
  BY <1>2 DEF ListDisconnect, Disconnect, JniDisconnect
<1>3. ASSUME NEW i \in Instances, StartConnection(i) PROVE LetGoInv'
  BY <1>3 DEF StartConnection, BeginConnection, BeginConnectionFails,
          JniConnect
<1>4. ASSUME NEW i \in Instances, Progress(i) PROVE LetGoInv'
  BY <1>4 DEF Progress, ProgressState
<1>5. ASSUME NEW i \in Instances, Closer(i) PROVE LetGoInv'
  BY <1>5 DEF Closer, Finish, Fresh, Live
<1>6. ASSUME NEW i \in Instances, NEW h \in {"entry", "loose"}, Connect(i, h)
      PROVE  LetGoInv'
  BY <1>6 DEF Connect
<1>7. ASSUME NEW i \in Instances, OnStop(i) PROVE LetGoInv'
  BY <1>7 DEF OnStop
<1>8. ASSUME NEW i \in Instances, OnStart(i) PROVE LetGoInv'
  BY <1>8 DEF OnStart
<1>9. ASSUME NEW i \in Instances, CancelLogin(i) PROVE LetGoInv'
  BY <1>9 DEF CancelLogin, Finish, Fresh
<1>10. ASSUME NEW i \in Instances, Retry(i) PROVE LetGoInv'
  BY <1>10 DEF Retry, BeginConnection, BeginConnectionFails, JniConnect
<1>11. ASSUME NEW i \in Instances, GiveUp(i) PROVE LetGoInv'
  BY <1>11 DEF GiveUp, Finish, Fresh
<1>12. ASSUME NEW i \in Instances, AskExit(i) PROVE LetGoInv'
  BY <1>12 DEF AskExit, Disconnect, JniDisconnect
<1>13. ASSUME NEW i \in Instances, ThreadStart(i) PROVE LetGoInv'
  BY <1>13 DEF ThreadStart
<1>14. ASSUME NEW i \in Instances, ThreadNoteSuccess(i) PROVE LetGoInv'
  BY <1>14 DEF ThreadNoteSuccess
<1>15. ASSUME NEW i \in Instances, ThreadAborted(i) PROVE LetGoInv'
  BY <1>15 DEF ThreadAborted
<1>16. ASSUME NEW i \in Instances, ThreadTakesDisconnect(i) PROVE LetGoInv'
  BY <1>16 DEF ThreadTakesDisconnect
<1>17. ASSUME NEW i \in Instances, ThreadTellEnd(i) PROVE LetGoInv'
  BY <1>17 DEF ThreadTellEnd, Finish, Fresh, SetConnectionState, Live
<1>18. ASSUME NEW i \in Instances, ThreadNoteEnd(i) PROVE LetGoInv'
  BY <1>18 DEF ThreadNoteEnd
<1>19. ASSUME NEW i \in Instances, ThreadTellSuccess(i) PROVE LetGoInv'
  BY <1>19 DEF ThreadTellSuccess, SetConnectionState, Live
<1>20. ASSUME NEW i \in Instances, ThreadConnectFails(i) PROVE LetGoInv'
  BY <1>20 DEF ThreadConnectFails
<1>22. CASE ListClear
  BY <1>22 DEF ListClear
<1>23. ASSUME NEW i \in Instances, OnDestroy(i) PROVE LetGoInv'
  BY <1>23 DEF OnDestroy, Fresh, Live
<1>21. CASE UNCHANGED vars
  BY <1>21 DEF vars
<1> QED
  BY <1>1, <1>2, <1>3, <1>4, <1>5, <1>6, <1>7, <1>8, <1>9, <1>10, <1>11,
      <1>12, <1>13, <1>14, <1>15, <1>16, <1>17, <1>18, <1>19, <1>20, <1>21,
      <1>22, <1>23
  DEF Next, UI, User, Native, Network

-----------------------------------------------------------------------------
\* The whole invariant: it holds at first and every step keeps it.
LEMMA AndroidInvariant == Spec => []AndroidInv
<1>1. Init => AndroidInv
  BY AndroidSessionAssumption
  DEF Init, AndroidInv, TypeOK, TallyInv, Outstanding, FreshInv, NotedInv,
      StateTracksThread, PatientInv, LetGoInv, Phases, Holders, Runnables,
      Defined
<1>2. AndroidInv /\ [Next]_vars => AndroidInv'
  BY TypeStep, TallyStep, FreshStep, NotedStep, TracksStep, PatientStep,
     LetGoStep
  DEF AndroidInv
<1> QED BY <1>1, <1>2, PTL DEF Spec

\* Types, and LibFreeRDP's mInstanceState agrees with the native threads: an
\* instance that is noted as connected has a thread that serves it, or a
\* callback still to come that takes the note back.
THEOREM InvHolds == Spec => []Inv
<1>1. AndroidInv => Inv
  BY DEF AndroidInv, Inv
<1> QED BY AndroidInvariant, <1>1, PTL

\* jni_freerdp_connect starts a second thread on an instance in use only after
\* onStop or after the 30 seconds of PROGRESS.
THEOREM OneThread == Spec => []OneThreadUnlessHasty
<1>1. AndroidInv => OneThreadUnlessHasty
  BY DEF AndroidInv, TypeOK, PatientInv, OneThreadUnlessHasty
<1> QED BY AndroidInvariant, <1>1, PTL

\* A running thread that nobody can end any more, with no request under way,
\* was disconnected before mInstanceState was set, or started afterwards, or
\* its configuration is in no list and its activity had been stopped or had
\* waited 30 seconds.
THEOREM NoOtherOrphans == Spec => []OrphanHasCause
<1>1. AndroidInv => OrphanHasCause
  <2> SUFFICES ASSUME AndroidInv, NEW i \in Instances, Orphan(i)
               PROVE  \/ holder[i] = "none" /\ i \in ignored \cup revived
                      \/ holder[i] = "loose" /\ i \in hasty
    BY DEF OrphanHasCause
  <2>1. CASE holder[i] = "none"
    BY <2>1 DEF AndroidInv, LetGoInv, Orphan
  <2>2. CASE holder[i] = "loose" /\ ~ Live(i)
    <3>1. life[i] = "finished"
      BY <2>2 DEF AndroidInv, TypeOK, FreshInv, Orphan, Live
    <3> QED BY <2>2, <3>1 DEF AndroidInv, PatientInv, Orphan
  <2> QED BY <2>1, <2>2 DEF Orphan
<1> QED BY AndroidInvariant, <1>1, PTL
=============================================================================
