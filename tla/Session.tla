-------------------------------- MODULE Session --------------------------------
(***************************************************************************)
(* The life of a session: Session.connect (session.js), the bridge's       *)
(* Connect and Close (bridge.cc), and rdp.cc's node_freerdp_connect, its   *)
(* registry of sessions, the client thread it starts, the calls that reach *)
(* a session through its index, and node_freerdp_close.  Session objects,  *)
(* the native session records and the client threads are all named by the  *)
(* elements of Sessions.  Events travel through an EventStream.            *)
(***************************************************************************)
EXTENDS Integers

CONSTANTS Sessions,       \* the application's Session objects
          MaxUpdates,     \* bound: bitmap and pointer events of one session
          Calls,          \* what the application calls: "close", "input", and
                          \* "stray": also before connect() and after 'close'
          Reconnects,     \* client_auto_reconnect may succeed
          SlowHandshake,  \* freerdp_connect outlasts the rest of connect()
          KeepAlive,      \* the application holds a handle on the loop for ever
          Undefined       \* JavaScript's undefined

ASSUME SessionAssumption ==
  /\ MaxUpdates \in Nat
  /\ Calls \subseteq {"close", "input", "stray"}
  /\ {Reconnects, SlowHandshake, KeepAlive} \subseteq BOOLEAN
  /\ Undefined \notin Int

VARIABLES
  process,       \* "running", "exited", or "crashed" by a wild pointer
  appHandles,    \* the application has a timer or socket on the loop
  conn,          \* how far connect() has come for each Session object
  index,         \* its _sessionIndex
  closeCalled,   \* the application has called its close()
  strayed,       \* it has called before connect() or after the close event
  sessions,      \* rdp.cc's array; its length is sessionCount
  sessionCount,
  stopping,      \* SessionData.stopping
  instance,      \* the freerdp instance of the session
  thread,        \* where its client thread is
  reason,        \* args->msg of the client thread
  updates,       \* number of update events it has emitted
  inflight, delivered

mainVars   == <<process, appHandles, conn, index, closeCalled, strayed,
                sessions, sessionCount, stopping>>
threadVars == <<instance, thread, reason, updates>>
vars       == <<mainVars, threadVars, inflight, delivered>>

Reasons == {"unknowing_error", "connection_failure", "session_stopped"}

\* An event by its session, its name for the callback and its number.
EventOf(s, kind, n) == [session |-> s, kind |-> kind, n |-> n]
Events == [session : Sessions, kind : {"connect", "update", "close"},
           n : 0 .. MaxUpdates]

Stream == INSTANCE EventStream WITH Event <- Events

Emitted == inflight \cup delivered

Init ==
  /\ process = "running"
  /\ appHandles = TRUE
  /\ conn = [s \in Sessions |-> "new"]
  /\ index = [s \in Sessions |-> Undefined]
  /\ closeCalled = [s \in Sessions |-> FALSE]
  /\ strayed = FALSE
  /\ sessions = [i \in {} |-> Undefined]
  /\ sessionCount = 0
  /\ stopping = [s \in Sessions |-> FALSE]
  /\ instance = [s \in Sessions |-> "none"]
  /\ thread = [s \in Sessions |-> "none"]
  /\ reason = [s \in Sessions |-> "unknowing_error"]
  /\ updates = [s \in Sessions |-> 0]
  /\ Stream!Init

--------------------------------------------------------------------------------
(* The main thread.  It runs no JavaScript and delivers no event while it  *)
(* is inside connect().                                                    *)

Running == process = "running"
\* Mutant of MainIdle: connect() lets the loop run before it returns.
MainIdleAlways == Running

MainIdle ==
  /\ Running
  /\ \A s \in Sessions : conn[s] \notin {"started", "registered"}

\* The command line is refused: node_freerdp_connect returns -1.
ConnectRejected(s) ==
  /\ MainIdle
  /\ conn[s] = "new"
  /\ conn' = [conn EXCEPT ![s] = "rejected"]
  /\ index' = [index EXCEPT ![s] = -1]
  /\ UNCHANGED <<process, appHandles, closeCalled, strayed, sessions,
                 sessionCount, stopping, threadVars, inflight, delivered>>

\* The context and its instance are allocated; freerdp_client_start creates
\* the client thread, which runs from here on.  Whether CreateThread has failed
\* is not looked at: connect() goes on for a session that has no thread.
ConnectStart(s) ==
  /\ MainIdle
  /\ conn[s] = "new"
  /\ conn' = [conn EXCEPT ![s] = "started"]
  /\ instance' = [instance EXCEPT ![s] = "live"]
  /\ \E place \in {"connecting", "unstarted"} :
       thread' = [thread EXCEPT ![s] = place]
  /\ UNCHANGED <<process, appHandles, index, closeCalled, strayed, sessions,
                 sessionCount, stopping, reason, updates, inflight, delivered>>

RegisterPointer(s) ==
  /\ Running
  /\ conn[s] = "started"
  /\ conn' = [conn EXCEPT ![s] = "registered"]
  /\ UNCHANGED <<process, appHandles, index, closeCalled, strayed, sessions,
                 sessionCount, stopping, threadVars, inflight, delivered>>

\* Mutant of AddSession: the last old entry is not copied.
AddSessionShort(s) ==
  [i \in 0 .. sessionCount |-> IF i >= sessionCount - 1 THEN s ELSE sessions[i]]

\* The longer array add_session allocates: the old one and the new session.
AddSession(s) ==
  [i \in 0 .. sessionCount |-> IF i = sessionCount THEN s ELSE sessions[i]]

\* Mutant of PublishSession: the count stays.
PublishSessionUncounted(s) ==
  /\ Running
  /\ conn[s] = "registered"
  /\ sessions' = AddSession(s)
  /\ stopping' = [stopping EXCEPT ![s] = FALSE]
  /\ index' = [index EXCEPT ![s] = sessionCount]
  /\ conn' = [conn EXCEPT ![s] = "returned"]
  /\ UNCHANGED <<process, appHandles, closeCalled, strayed, sessionCount,
                 threadVars, inflight, delivered>>

\* Mutant of PublishSession: connect() returns the count, not the index.
PublishSessionCount(s) ==
  /\ Running
  /\ conn[s] = "registered"
  /\ sessions' = AddSession(s)
  /\ sessionCount' = sessionCount + 1
  /\ stopping' = [stopping EXCEPT ![s] = FALSE]
  /\ index' = [index EXCEPT ![s] = sessionCount']
  /\ conn' = [conn EXCEPT ![s] = "returned"]
  /\ UNCHANGED <<process, appHandles, closeCalled, strayed, threadVars,
                 inflight, delivered>>

\* The session record is made, added to the array and only now stored in the
\* context, where the client thread looks for it; connect() returns its index.
PublishSession(s) ==
  /\ Running
  /\ conn[s] = "registered"
  /\ sessions' = AddSession(s)
  /\ sessionCount' = sessionCount + 1
  /\ stopping' = [stopping EXCEPT ![s] = FALSE]
  /\ index' = [index EXCEPT ![s] = sessionCount]
  /\ conn' = [conn EXCEPT ![s] = "returned"]
  /\ UNCHANGED <<process, appHandles, closeCalled, strayed, threadVars,
                 inflight, delivered>>

Closed(s) == EventOf(s, "close", 0)

\* connect() has returned the index and the close event has not arrived.
Connection(s) == index[s] \in Nat /\ Closed(s) \notin delivered

\* The application calls a native method of s.
Call(s) ==
  /\ MainIdle
  /\ Connection(s) \/ "stray" \in Calls
  /\ strayed' = (strayed \/ ~Connection(s))

\* Mutant of NativeIndex: the index is taken to count from one.
NativeIndexFromOne(s) ==
  IF index[s] = Undefined \/ index[s] = 0 THEN 0 ELSE index[s] - 1

\* The session index a bridge method gets: Uint32Value makes undefined 0, and
\* the conversion to int makes -1 of the unsigned value of -1.
NativeIndex(s) == IF index[s] = Undefined THEN 0 ELSE index[s]

InRegistry(s) == NativeIndex(s) \in DOMAIN sessions

\* Session.close.  The array is indexed unchecked, and the record written to.
Close(s) ==
  /\ "close" \in Calls
  /\ Call(s)
  /\ closeCalled' = [closeCalled EXCEPT ![s] = TRUE]
  /\ IF InRegistry(s)
     THEN /\ stopping' = [stopping EXCEPT ![sessions[NativeIndex(s)]] = TRUE]
          /\ UNCHANGED process
     ELSE /\ process' \in {"running", "crashed"}
          /\ UNCHANGED stopping
  /\ UNCHANGED <<appHandles, conn, index, sessions, sessionCount, threadVars,
                 inflight, delivered>>

\* Any other method of Session: the native call goes on to dereference the
\* record's instance, whatever has become of it.
Input(s) ==
  /\ "input" \in Calls
  /\ Call(s)
  /\ process' \in
       IF InRegistry(s) /\ instance[sessions[NativeIndex(s)]] = "live"
       THEN {"running"} ELSE {"running", "crashed"}
  /\ UNCHANGED <<appHandles, conn, index, closeCalled, sessions, sessionCount,
                 stopping, threadVars, inflight, delivered>>

\* The generator hands an event to Session._eventHandler, which emits it.
DeliverEvent(e) ==
  /\ MainIdle
  /\ Stream!Deliver(e)
  /\ UNCHANGED <<mainVars, threadVars>>

\* The application's last timer has fired, its last socket is closed.
DropHandles ==
  /\ MainIdle
  /\ ~KeepAlive
  /\ appHandles
  /\ appHandles' = FALSE
  /\ UNCHANGED <<process, conn, index, closeCalled, strayed, sessions,
                 sessionCount, stopping, threadVars, inflight, delivered>>

\* A client thread is no handle of the loop: only the application's handles
\* and events on their way keep the process from exiting.
Exit ==
  /\ MainIdle
  /\ ~appHandles
  /\ inflight = {}
  /\ process' = "exited"
  /\ UNCHANGED <<appHandles, conn, index, closeCalled, strayed, sessions,
                 sessionCount, stopping, threadVars, inflight, delivered>>

--------------------------------------------------------------------------------
(* node_client_thread.                                                     *)

At(s, place) == Running /\ thread[s] = place
Goto(s, place) == thread' = [thread EXCEPT ![s] = place]

\* Mutant of PostConnect: the event is forgotten.
PostConnectSilent(s) ==
  /\ At(s, "connecting")
  /\ Goto(s, "established")
  /\ UNCHANGED <<mainVars, instance, reason, updates, inflight, delivered>>

\* nodefreerdp_post_connect, which freerdp_connect calls when it has connected.
PostConnect(s) ==
  /\ At(s, "connecting")
  /\ SlowHandshake => conn[s] = "returned"
  /\ Stream!Emit(EventOf(s, "connect", 0))
  /\ Goto(s, "established")
  /\ UNCHANGED <<mainVars, instance, reason, updates>>

Connected(s) ==
  /\ At(s, "established")
  /\ Goto(s, "waiting")
  /\ UNCHANGED <<mainVars, instance, reason, updates, inflight, delivered>>

\* Mutant of ConnectFailed: the thread returns instead of going to error.
ConnectFailedSilently(s) ==
  /\ At(s, "connecting") \/ At(s, "established")
  /\ reason' = [reason EXCEPT ![s] = "connection_failure"]
  /\ Goto(s, "exited")
  /\ UNCHANGED <<mainVars, instance, updates, inflight, delivered>>

\* freerdp_connect returns FALSE, before or after it called PostConnect.
ConnectFailed(s) ==
  /\ At(s, "connecting") \/ At(s, "established")
  /\ reason' = [reason EXCEPT ![s] = "connection_failure"]
  /\ Goto(s, "leaving")
  /\ UNCHANGED <<mainVars, instance, updates, inflight, delivered>>

\* No event handles, or the wait for them fails.
WaitFailed(s) ==
  /\ At(s, "waiting")
  /\ Goto(s, "leaving")
  /\ UNCHANGED <<mainVars, instance, reason, updates, inflight, delivered>>

\* freerdp_check_event_handles runs the callbacks for what the server sent:
\* nodefreerdp_end_paint and node_Pointer_Set may emit an event.
Callbacks(s) ==
  \/ UNCHANGED <<updates, inflight, delivered>>
  \/ /\ updates[s] < MaxUpdates
     /\ updates' = [updates EXCEPT ![s] = @ + 1]
     /\ Stream!Emit(EventOf(s, "update", updates'[s]))

CheckEvents(s) ==
  /\ At(s, "waiting")
  /\ Callbacks(s)
  /\ Goto(s, "checked")
  /\ UNCHANGED <<mainVars, instance, reason>>

\* Mutant of CheckFailed: a lost connection is reported as closed at once.
CheckFailedCloses(s) ==
  /\ At(s, "waiting")
  /\ Stream!Emit(Closed(s))
  /\ Goto(s, "reconnecting")
  /\ UNCHANGED <<mainVars, instance, reason, updates>>

\* It returns FALSE, which calls for client_auto_reconnect.
CheckFailed(s) ==
  /\ At(s, "waiting")
  /\ Callbacks(s)
  /\ Goto(s, "reconnecting")
  /\ UNCHANGED <<mainVars, instance, reason>>

\* Mutant of Reconnected: the connection is begun afresh.
ReconnectedAfresh(s) ==
  /\ Reconnects
  /\ At(s, "reconnecting")
  /\ Goto(s, "connecting")
  /\ UNCHANGED <<mainVars, instance, reason, updates, inflight, delivered>>

\* The connection is made again: on to another round of the loop.
Reconnected(s) ==
  /\ Reconnects
  /\ At(s, "reconnecting")
  /\ Goto(s, "waiting")
  /\ UNCHANGED <<mainVars, instance, reason, updates, inflight, delivered>>

ReconnectFailed(s) ==
  /\ At(s, "reconnecting")
  /\ Goto(s, "leaving")
  /\ UNCHANGED <<mainVars, instance, reason, updates, inflight, delivered>>

ShallDisconnect(s) ==
  /\ At(s, "checked")
  /\ Goto(s, "leaving")
  /\ UNCHANGED <<mainVars, instance, reason, updates, inflight, delivered>>

\* nContext->session->stopping, with the session not stored yet.
NullSession(s) ==
  /\ At(s, "checked")
  /\ conn[s] # "returned"
  /\ process' = "crashed"
  /\ UNCHANGED <<appHandles, conn, index, closeCalled, strayed, sessions,
                 sessionCount, stopping, threadVars, inflight, delivered>>

NotStopping(s) ==
  /\ At(s, "checked")
  /\ conn[s] = "returned" /\ ~stopping[s]
  /\ Goto(s, "waiting")
  /\ UNCHANGED <<mainVars, instance, reason, updates, inflight, delivered>>

\* Mutant of Stopping: the reason is noted, the loop goes on.
StoppingContinues(s) ==
  /\ At(s, "checked")
  /\ conn[s] = "returned" /\ stopping[s]
  /\ reason' = [reason EXCEPT ![s] = "session_stopped"]
  /\ Goto(s, "waiting")
  /\ UNCHANGED <<mainVars, instance, updates, inflight, delivered>>

Stopping(s) ==
  /\ At(s, "checked")
  /\ conn[s] = "returned" /\ stopping[s]
  /\ reason' = [reason EXCEPT ![s] = "session_stopped"]
  /\ Goto(s, "leaving")
  /\ UNCHANGED <<mainVars, instance, updates, inflight, delivered>>

FreeInstance(s) ==
  /\ At(s, "leaving")
  /\ instance' = [instance EXCEPT ![s] = "freed"]
  /\ Goto(s, "freed")
  /\ UNCHANGED <<mainVars, reason, updates, inflight, delivered>>

\* The last thing the thread does before ExitThread.
EmitClose(s) ==
  /\ At(s, "freed")
  /\ Stream!Emit(Closed(s))
  /\ Goto(s, "exited")
  /\ UNCHANGED <<mainVars, instance, reason, updates>>

--------------------------------------------------------------------------------
ConnectSteps(s) == RegisterPointer(s) \/ PublishSession(s)

MainStep(s) ==
  \/ ConnectRejected(s) \/ ConnectStart(s) \/ ConnectSteps(s)
  \/ Close(s) \/ Input(s)

LoopStep ==
  \/ \E e \in Events : DeliverEvent(e)
  \/ DropHandles
  \/ Exit

ThreadStep(s) ==
  \/ PostConnect(s) \/ Connected(s) \/ ConnectFailed(s)
  \/ WaitFailed(s) \/ CheckEvents(s) \/ CheckFailed(s)
  \/ Reconnected(s) \/ ReconnectFailed(s) \/ ShallDisconnect(s)
  \/ NullSession(s) \/ NotStopping(s) \/ Stopping(s)
  \/ FreeInstance(s) \/ EmitClose(s)

Next ==
  \/ \E s \in Sessions : MainStep(s) \/ ThreadStep(s)
  \/ LoopStep

\* The system runs every client thread (its wait times out after a second) and
\* the main thread once it is inside connect(); the stream delivers what it
\* holds.  Nothing obliges the application to call anything.
Fairness ==
  /\ \A s \in Sessions : WF_vars(ThreadStep(s)) /\ WF_vars(ConnectSteps(s))
  /\ \A e \in Events : WF_vars(DeliverEvent(e))

Spec == Init /\ [][Next]_vars
FairSpec == Spec /\ Fairness

--------------------------------------------------------------------------------
Places == {"none", "unstarted", "connecting", "established", "waiting",
           "reconnecting", "checked", "leaving", "freed", "exited"}

\* The type invariant of the session's state.
TypeOK ==
  /\ process \in {"running", "exited", "crashed"}
  /\ appHandles \in BOOLEAN
  /\ conn \in [Sessions ->
                {"new", "rejected", "started", "registered", "returned"}]
  /\ index \in [Sessions -> Int \cup {Undefined}]
  /\ closeCalled \in [Sessions -> BOOLEAN]
  /\ strayed \in BOOLEAN
  /\ sessionCount \in Nat
  /\ sessions \in [0 .. sessionCount - 1 -> Sessions]
  /\ stopping \in [Sessions -> BOOLEAN]
  /\ instance \in [Sessions -> {"none", "live", "freed"}]
  /\ thread \in [Sessions -> Places]
  /\ reason \in [Sessions -> Reasons]
  /\ updates \in [Sessions -> 0 .. MaxUpdates]
  /\ inflight \subseteq Events
  /\ delivered \subseteq Events

\* The index connect() returned leads to the same session for ever, however
\* often add_session has moved the array since (rdp.cc:9-25).
RegistrySound ==
  \A s \in Sessions :
    index[s] \in Nat =>
      /\ index[s] \in DOMAIN sessions
      /\ sessions[index[s]] = s

\* No callback runs before connect() has returned and stored the index the
\* callback may call with, although the client thread is already emitting while
\* connect() is still at work (rdp.cc:274-283, session.js connect).
NoEventBeforeIndex ==
  \A e \in delivered : index[e.session] \in Nat

\* Nothing of a session is emitted once its close event is (rdp.cc:209-212).
CloseIsFinal ==
  [][\A s \in Sessions :
       Closed(s) \in Emitted =>
         {e \in Emitted' : e.session = s} = {e \in Emitted : e.session = s}]_vars

\* By no way through the loop of node_client_thread does a session emit an event
\* twice: what the thread is about to emit has not been emitted before, so that
\* the stream, which takes an event only once, never holds a thread back
\* (rdp.cc:139, 163-212).
EmitsOnce ==
  \A s \in Sessions :
    /\ thread[s] = "connecting" => EventOf(s, "connect", 0) \notin Emitted
    /\ thread[s] # "exited" => Closed(s) \notin Emitted
    /\ updates[s] < MaxUpdates => EventOf(s, "update", updates[s] + 1) \notin Emitted

\* Closing one session stops another in one case only: a close() before connect()
\* has returned reads undefined as the index 0 and stops the session that was
\* connected first.  In all others, a refused connect()'s index -1 and the call
\* after 'close' among them, a thread leaves with "session stopped" only if
\* close() was called on its own Session object (bridge.cc:54, rdp.cc:288-293).
StoppedOnlyIfClosed ==
  \A s \in Sessions :
    reason[s] = "session_stopped" => closeCalled[s] \/ (strayed /\ index[s] = 0)

\* An instance that is gone (rdp.cc:209) but whose close event the application
\* has not seen yet, and a record the thread looks for too early (rdp.cc:203,
\* 282): an application that calls only between connect() and the close event
\* meets a wild pointer in no other state.
DangerousMoment ==
  \E s \in Sessions :
    \/ instance[s] = "freed" /\ Closed(s) \notin delivered
    \/ thread[s] = "checked" /\ conn[s] # "returned"

CrashOnlyInDanger ==
  [][process' = "crashed" => strayed' \/ DangerousMoment]_process

\* close() is safe at every moment up to the close event, also when the thread
\* has freed the instance, because the session's record is never freed.
CloseNeverCrashes == process # "crashed"

\* "will send closed event when completed" (rdp.cc:290): close() is answered by
\* the close event, unless the session's thread could not be created.
CloseCompletes ==
  \A s \in Sessions :
    closeCalled[s] ~> (Closed(s) \in delivered \/ thread[s] = "unstarted")

\* A connect() that was accepted is answered, by connect or by close, unless the
\* session's thread could not be created.
ConnectAnswered ==
  \A s \in Sessions :
    (conn[s] = "returned") ~>
      \/ {EventOf(s, "connect", 0), Closed(s)} \cap delivered # {}
      \/ thread[s] = "unstarted"

\* What the application sees of a session: what connect() has answered.
OpenedBy(c) == CASE c = "new" -> "no"
                 [] c = "rejected" -> "refused"
                 [] c \in {"started", "registered"} -> "busy"
                 [] c = "returned" -> "yes"
Opened == [s \in Sessions |-> OpenedBy(conn[s])]

Promise == INSTANCE Life WITH opened <- Opened, told <- Emitted, heard <- delivered

\* With a client thread that starts to emit inside connect(), with reconnections
\* and every way out of the thread's loop, a Session object keeps what Life
\* promises: updates come about only after the connect event and in their order,
\* nothing after the close event, a refused session has nothing to tell, and the
\* listeners are called at most once for each event, never inside a connect().
ImplementsLife == Promise!Spec
================================================================================
