----------------------------- MODULE SessionProofs -----------------------------
(***************************************************************************)
(* Proofs about Session, for every set of sessions and every bound: its    *)
(* types, the registry of sessions, the order of connect()'s return, of    *)
(* events and of the close event, and what a careful application may rely  *)
(* on.                                                                     *)
(***************************************************************************)
EXTENDS Session, TLAPS

--------------------------------------------------------------------------------
(* Types.                                                                  *)

LEMMA EventTypes ==
  ASSUME NEW s \in Sessions, NEW kind \in {"connect", "update", "close"},
         NEW n \in 0 .. MaxUpdates
  PROVE  EventOf(s, kind, n) \in Events
BY DEF EventOf, Events

LEMMA FirstAndLastTypes ==
  ASSUME NEW s \in Sessions
  PROVE  EventOf(s, "connect", 0) \in Events /\ Closed(s) \in Events
<1>1. 0 \in 0 .. MaxUpdates
  BY SessionAssumption
<1> QED BY <1>1, EventTypes DEF Closed

LEMMA EmitTypes ==
  ASSUME TypeOK, NEW e \in Events, Stream!Emit(e)
  PROVE  inflight' \subseteq Events /\ delivered' \subseteq Events
BY DEF Stream!Emit, TypeOK

LEMMA CallbacksTypes ==
  ASSUME TypeOK, NEW s \in Sessions, Callbacks(s)
  PROVE  /\ updates' \in [Sessions -> 0 .. MaxUpdates]
         /\ inflight' \subseteq Events /\ delivered' \subseteq Events
<1>1. CASE UNCHANGED <<updates, inflight, delivered>>
  BY <1>1 DEF TypeOK
<1>2. CASE /\ updates[s] < MaxUpdates
           /\ updates' = [updates EXCEPT ![s] = @ + 1]
           /\ Stream!Emit(EventOf(s, "update", updates'[s]))
  <2>1. /\ updates' \in [Sessions -> 0 .. MaxUpdates]
        /\ updates'[s] \in 0 .. MaxUpdates
    BY <1>2, SessionAssumption DEF TypeOK
  <2>2. EventOf(s, "update", updates'[s]) \in Events
    BY <2>1, EventTypes
  <2> QED BY <1>2, <2>1, <2>2, EmitTypes
<1> QED BY <1>1, <1>2 DEF Callbacks

LEMMA AddSessionTypes ==
  ASSUME TypeOK, NEW s \in Sessions
  PROVE  AddSession(s) \in [0 .. sessionCount -> Sessions]
<1>1. \A i \in 0 .. sessionCount : i # sessionCount => i \in 0 .. sessionCount - 1
  BY DEF TypeOK
<1> QED BY <1>1 DEF AddSession, TypeOK

LEMMA TypeStep ==
  ASSUME TypeOK, [Next]_vars
  PROVE  TypeOK'
<1> USE SessionAssumption DEF TypeOK, mainVars, threadVars, Places, Reasons, Goto
<1>1. ASSUME NEW s \in Sessions, ConnectRejected(s) PROVE TypeOK'
  <2>1. -1 \in Int
    OBVIOUS
  <2>2. index' \in [Sessions -> Int \cup {Undefined}]
    BY <1>1, <2>1 DEF ConnectRejected
  <2> QED BY <1>1, <2>2 DEF ConnectRejected
<1>2. ASSUME NEW s \in Sessions, ConnectStart(s) PROVE TypeOK'
  BY <1>2 DEF ConnectStart
<1>3. ASSUME NEW s \in Sessions, RegisterPointer(s) PROVE TypeOK'
  BY <1>3 DEF RegisterPointer
<1>4. ASSUME NEW s \in Sessions, PublishSession(s) PROVE TypeOK'
  <2>1. sessionCount \in Nat /\ sessionCount' = sessionCount + 1
    BY <1>4 DEF PublishSession
  <2>2. sessions' \in [0 .. sessionCount' - 1 -> Sessions]
    <3>1. sessionCount' - 1 = sessionCount
      BY <2>1
    <3>2. sessions' \in [0 .. sessionCount -> Sessions]
      BY <1>4, AddSessionTypes DEF PublishSession
    <3> QED BY <3>1, <3>2
  <2>3. index' \in [Sessions -> Int \cup {Undefined}]
    BY <1>4, <2>1 DEF PublishSession
  <2>4. sessionCount' \in Nat
    BY <2>1
  <2> QED BY <1>4, <2>2, <2>3, <2>4 DEF PublishSession
<1>5. ASSUME NEW s \in Sessions, Close(s) PROVE TypeOK'
  BY <1>5 DEF Close, Call, InRegistry
<1>6. ASSUME NEW s \in Sessions, Input(s) PROVE TypeOK'
  BY <1>6 DEF Input, Call
<1>7. ASSUME NEW s \in Sessions, PostConnect(s) PROVE TypeOK'
  <2>1. inflight' \subseteq Events /\ delivered' \subseteq Events
    BY <1>7, FirstAndLastTypes, EmitTypes DEF PostConnect
  <2> QED BY <1>7, <2>1 DEF PostConnect
<1>8. ASSUME NEW s \in Sessions, Connected(s) PROVE TypeOK'
  BY <1>8 DEF Connected
<1>9. ASSUME NEW s \in Sessions, ConnectFailed(s) PROVE TypeOK'
  BY <1>9 DEF ConnectFailed
<1>10. ASSUME NEW s \in Sessions, WaitFailed(s) PROVE TypeOK'
  BY <1>10 DEF WaitFailed
<1>11. ASSUME NEW s \in Sessions, CheckEvents(s) PROVE TypeOK'
  BY <1>11, CallbacksTypes DEF CheckEvents
<1>12. ASSUME NEW s \in Sessions, CheckFailed(s) PROVE TypeOK'
  BY <1>12, CallbacksTypes DEF CheckFailed
<1>13. ASSUME NEW s \in Sessions, Reconnected(s) PROVE TypeOK'
  BY <1>13 DEF Reconnected
<1>14. ASSUME NEW s \in Sessions, ReconnectFailed(s) PROVE TypeOK'
  BY <1>14 DEF ReconnectFailed
<1>15. ASSUME NEW s \in Sessions, ShallDisconnect(s) PROVE TypeOK'
  BY <1>15 DEF ShallDisconnect
<1>16. ASSUME NEW s \in Sessions, NullSession(s) PROVE TypeOK'
  BY <1>16 DEF NullSession
<1>17. ASSUME NEW s \in Sessions, NotStopping(s) PROVE TypeOK'
  BY <1>17 DEF NotStopping
<1>18. ASSUME NEW s \in Sessions, Stopping(s) PROVE TypeOK'
  BY <1>18 DEF Stopping
<1>19. ASSUME NEW s \in Sessions, FreeInstance(s) PROVE TypeOK'
  BY <1>19 DEF FreeInstance
<1>20. ASSUME NEW s \in Sessions, EmitClose(s) PROVE TypeOK'
  <2>1. inflight' \subseteq Events /\ delivered' \subseteq Events
    BY <1>20, FirstAndLastTypes, EmitTypes DEF EmitClose
  <2> QED BY <1>20, <2>1 DEF EmitClose
<1>21. ASSUME NEW e \in Events, DeliverEvent(e) PROVE TypeOK'
  BY <1>21 DEF DeliverEvent, Stream!Deliver
<1>22. CASE DropHandles
  BY <1>22 DEF DropHandles
<1>23. CASE Exit
  BY <1>23 DEF Exit
<1>24. CASE UNCHANGED vars
  BY <1>24 DEF vars
<1> QED
  BY <1>1, <1>2, <1>3, <1>4, <1>5, <1>6, <1>7, <1>8, <1>9, <1>10, <1>11,
     <1>12, <1>13, <1>14, <1>15, <1>16, <1>17, <1>18, <1>19, <1>20, <1>21,
     <1>22, <1>23, <1>24
     DEF Next, MainStep, ConnectSteps, LoopStep, ThreadStep

\* The type invariant of the session's state.
THEOREM TypeCorrect == Spec => []TypeOK
<1>1. Init => TypeOK
  <2> SUFFICES ASSUME Init PROVE TypeOK
    OBVIOUS
  <2>1. sessionCount = 0 /\ 0 .. 0 - 1 = {}
    BY DEF Init
  <2>2. sessions \in [0 .. sessionCount - 1 -> Sessions]
    BY <2>1 DEF Init
  <2>3. updates \in [Sessions -> 0 .. MaxUpdates] /\ sessionCount \in Nat
    BY SessionAssumption DEF Init
  <2> QED BY <2>2, <2>3 DEF Init, TypeOK, Stream!Init, Places, Reasons
<1> QED BY <1>1, TypeStep, PTL DEF Spec

--------------------------------------------------------------------------------
(* The registry: what connect() has returned leads to the session.         *)

\* What a Session object's _sessionIndex is, by how far its connect() is.
IndexInv ==
  \A s \in Sessions :
    /\ conn[s] \in {"new", "started", "registered"} => index[s] = Undefined
    /\ conn[s] = "rejected" => index[s] = -1
    /\ conn[s] = "returned" => /\ index[s] \in 0 .. sessionCount - 1
                               /\ sessions[index[s]] = s

ConnectAction ==
  \E s \in Sessions : \/ ConnectRejected(s) \/ ConnectStart(s)
                      \/ RegisterPointer(s) \/ PublishSession(s)

LEMMA OnlyConnectConnects ==
  ASSUME [Next]_vars, ~ConnectAction
  PROVE  UNCHANGED <<conn, index, sessions, sessionCount>>
BY DEF ConnectAction, Next, MainStep, ConnectSteps, LoopStep, ThreadStep, vars,
       mainVars, Close, Input, Call, DeliverEvent, DropHandles, Exit, PostConnect,
       Connected, ConnectFailed, WaitFailed, CheckEvents, CheckFailed,
       Reconnected, ReconnectFailed, ShallDisconnect, NullSession, NotStopping,
       Stopping, FreeInstance, EmitClose

LEMMA IndexStep ==
  ASSUME TypeOK, IndexInv, [Next]_vars
  PROVE  IndexInv'
<1> USE DEF TypeOK, IndexInv
<1>1. ASSUME NEW s \in Sessions, ConnectRejected(s) PROVE IndexInv'
  BY <1>1 DEF ConnectRejected
<1>2. ASSUME NEW s \in Sessions, ConnectStart(s) PROVE IndexInv'
  BY <1>2 DEF ConnectStart
<1>3. ASSUME NEW s \in Sessions, RegisterPointer(s) PROVE IndexInv'
  BY <1>3 DEF RegisterPointer
<1>4. ASSUME NEW s \in Sessions, PublishSession(s) PROVE IndexInv'
  <2>1. /\ sessionCount' = sessionCount + 1
        /\ sessionCount \in 0 .. sessionCount
        /\ \A i \in 0 .. sessionCount - 1 :
             i \in 0 .. sessionCount /\ i # sessionCount
    BY <1>4 DEF PublishSession
  <2>2. /\ sessions'[sessionCount] = s
        /\ \A i \in 0 .. sessionCount - 1 : sessions'[i] = sessions[i]
    BY <1>4, <2>1 DEF PublishSession, AddSession
  <2>3. index'[s] = sessionCount /\ conn'[s] = "returned"
    BY <1>4 DEF PublishSession
  <2>4. \A r \in Sessions :
          r # s => index'[r] = index[r] /\ conn'[r] = conn[r]
    BY <1>4 DEF PublishSession
  <2>5. sessionCount' - 1 = sessionCount
    BY <2>1
  <2> QED BY <2>1, <2>2, <2>3, <2>4, <2>5
<1>5. CASE ~ConnectAction
  BY <1>5, OnlyConnectConnects
<1> QED BY <1>1, <1>2, <1>3, <1>4, <1>5 DEF ConnectAction

LEMMA IndexMeansReturned ==
  ASSUME TypeOK, IndexInv, NEW s \in Sessions, index[s] \in Nat
  PROVE  conn[s] = "returned"
<1>1. index[s] # Undefined /\ index[s] # -1
  BY SessionAssumption
<1> QED BY <1>1 DEF TypeOK, IndexInv

\* An index that connect() has returned leads to its session for ever, however
\* often the array has been replaced by a longer one.
THEOREM RegistryIsSound == Spec => []RegistrySound
<1>1. Init => IndexInv
  <2>1. Init => /\ conn = [s \in Sessions |-> "new"]
                /\ index = [s \in Sessions |-> Undefined]
    BY DEF Init
  <2> QED BY <2>1 DEF IndexInv
<1>2. TypeOK /\ IndexInv /\ [Next]_vars => IndexInv'
  BY IndexStep
<1>3. TypeOK /\ IndexInv => RegistrySound
  BY IndexMeansReturned DEF TypeOK, IndexInv, RegistrySound
<1> QED BY <1>1, <1>2, <1>3, TypeCorrect, PTL DEF Spec

--------------------------------------------------------------------------------
(* Threads and events.                                                     *)

\* A session has a client thread, and an instance, from ConnectStart on.
ThreadInv ==
  \A s \in Sessions :
    /\ conn[s] \in {"new", "rejected"} <=> thread[s] = "none"
    /\ instance[s] = "none" <=> thread[s] = "none"

\* Only a session with a thread emits events, they are delivered only when
\* connect() has returned, and the close event is the thread's last act.
EventInv ==
  /\ \A e \in inflight : thread[e.session] # "none"
  /\ \A e \in delivered : conn[e.session] = "returned"
  /\ \A s \in Sessions : Closed(s) \in Emitted => thread[s] = "exited"

\* The steps of a thread, by what they do to the state of its session.
QuietStep(s) ==
  \/ Connected(s) \/ ConnectFailed(s) \/ WaitFailed(s) \/ Reconnected(s)
  \/ ReconnectFailed(s) \/ ShallDisconnect(s) \/ NullSession(s)
  \/ NotStopping(s) \/ Stopping(s) \/ FreeInstance(s)
EmittingStep(s) ==
  PostConnect(s) \/ CheckEvents(s) \/ CheckFailed(s) \/ EmitClose(s)

Started == \E s \in Sessions : ConnectStart(s)
Stepped == \E s \in Sessions : QuietStep(s) \/ EmittingStep(s)

LEMMA OnlyThreadsMove ==
  ASSUME [Next]_vars, ~Started, ~Stepped
  PROVE  UNCHANGED <<thread, instance, reason, updates>>
BY DEF Started, Stepped, QuietStep, EmittingStep, Next, MainStep, ConnectSteps,
       LoopStep, ThreadStep, vars, threadVars, ConnectRejected, RegisterPointer,
       PublishSession, Close, Input, DeliverEvent, DropHandles, Exit

LEMMA ThreadStepFacts ==
  ASSUME TypeOK, ThreadInv, NEW s \in Sessions, QuietStep(s) \/ EmittingStep(s)
  PROVE  /\ conn' = conn /\ thread[s] \notin {"none", "exited"}
         /\ thread' \in [Sessions -> Places] /\ thread'[s] # "none"
         /\ \A r \in Sessions : r # s => thread'[r] = thread[r]
         /\ \A r \in Sessions : instance'[r] = "none" <=> instance[r] = "none"
<1> USE DEF QuietStep, EmittingStep, Goto, Connected, ConnectFailed, WaitFailed,
            Reconnected, ReconnectFailed, ShallDisconnect, NullSession,
            NotStopping, Stopping, FreeInstance, PostConnect, CheckEvents,
            CheckFailed, EmitClose
<1>1. conn' = conn /\ thread[s] \notin {"none", "exited"}
  BY DEF At, mainVars
<1>2. \E place \in Places \ {"none"} : thread' = [thread EXCEPT ![s] = place]
  <2>1. CASE NullSession(s)
    <3>1. thread' = [thread EXCEPT ![s] = thread[s]]
      BY <2>1 DEF threadVars, TypeOK
    <3> QED BY <1>1, <3>1 DEF TypeOK
  <2>2. CASE QuietStep(s) /\ ~NullSession(s)
    BY <2>2 DEF Places
  <2>3. CASE EmittingStep(s)
    BY <2>3 DEF Places
  <2> QED BY <2>1, <2>2, <2>3
<1>3. \/ instance' = instance
      \/ instance' = [instance EXCEPT ![s] = "freed"] /\ instance[s] # "none"
  <2>1. CASE FreeInstance(s)
    BY <1>1, <2>1 DEF ThreadInv
  <2>2. CASE ~FreeInstance(s)
    BY <2>2 DEF threadVars
  <2> QED BY <2>1, <2>2
<1>4. thread \in [Sessions -> Places]
  BY DEF TypeOK
<1>5. \A r \in Sessions : instance'[r] = "none" <=> instance[r] = "none"
  BY <1>3 DEF TypeOK
<1> HIDE DEF QuietStep, EmittingStep
<1> QED BY <1>1, <1>2, <1>4, <1>5

LEMMA ThreadInvStep ==
  ASSUME TypeOK, ThreadInv, [Next]_vars
  PROVE  ThreadInv'
<1>1. ASSUME NEW s \in Sessions, ConnectRejected(s) PROVE ThreadInv'
  BY <1>1 DEF ConnectRejected, ThreadInv, TypeOK, threadVars
<1>2. ASSUME NEW s \in Sessions, ConnectStart(s) PROVE ThreadInv'
  BY <1>2 DEF ConnectStart, ThreadInv, TypeOK
<1>3. ASSUME NEW s \in Sessions, RegisterPointer(s) PROVE ThreadInv'
  BY <1>3 DEF RegisterPointer, ThreadInv, TypeOK, threadVars
<1>4. ASSUME NEW s \in Sessions, PublishSession(s) PROVE ThreadInv'
  BY <1>4 DEF PublishSession, ThreadInv, TypeOK, threadVars
<1>5. ASSUME NEW s \in Sessions, QuietStep(s) \/ EmittingStep(s)
      PROVE  ThreadInv'
  BY <1>5, ThreadStepFacts DEF ThreadInv
<1>6. CASE ~ConnectAction /\ ~Stepped
  <2>1. ~Started
    BY <1>6 DEF Started, ConnectAction
  <2> QED BY <1>6, <2>1, OnlyConnectConnects, OnlyThreadsMove DEF ThreadInv
<1> QED
  BY <1>1, <1>2, <1>3, <1>4, <1>5, <1>6 DEF ConnectAction, Stepped

\* The event an emitting step adds to the stream, if any.
Emits(s) ==
  \E kind \in {"connect", "update", "close"}, n \in Nat :
    /\ Stream!Emit(EventOf(s, kind, n))
    /\ kind = "close" => thread'[s] = "exited"

LEMMA EmittingStepFacts ==
  ASSUME TypeOK, NEW s \in Sessions, EmittingStep(s)
  PROVE  UNCHANGED <<inflight, delivered>> \/ Emits(s)
<1>1. CASE PostConnect(s)
  BY <1>1 DEF PostConnect, Emits
<1>2. CASE EmitClose(s)
  BY <1>2 DEF EmitClose, Emits, Closed, Goto, TypeOK
<1>3. CASE CheckEvents(s) \/ CheckFailed(s)
  <2>1. Callbacks(s)
    BY <1>3 DEF CheckEvents, CheckFailed
  <2>2. updates'[s] \in Nat
    BY <2>1, CallbacksTypes, SessionAssumption
  <2> QED BY <2>1, <2>2 DEF Callbacks, Emits
<1> QED BY <1>1, <1>2, <1>3 DEF EmittingStep

LEMMA OnlyTheseTouchEvents ==
  ASSUME [Next]_vars,
         ~(\E e \in Events : DeliverEvent(e)),
         ~(\E s \in Sessions : EmittingStep(s))
  PROVE  UNCHANGED <<inflight, delivered>>
BY DEF EmittingStep, Next, MainStep, ConnectSteps, LoopStep, ThreadStep, vars,
       ConnectRejected, ConnectStart, RegisterPointer, PublishSession, Close,
       Input, DropHandles, Exit, Connected, ConnectFailed, WaitFailed,
       Reconnected, ReconnectFailed, ShallDisconnect, NullSession, NotStopping,
       Stopping, FreeInstance

LEMMA ReturnedStays ==
  ASSUME TypeOK, [Next]_vars, NEW s \in Sessions, conn[s] = "returned"
  PROVE  conn'[s] = "returned"
<1>1. CASE ConnectAction
  BY <1>1 DEF ConnectAction, ConnectRejected, ConnectStart, RegisterPointer,
              PublishSession, TypeOK
<1>2. CASE ~ConnectAction
  BY <1>2, OnlyConnectConnects
<1> QED BY <1>1, <1>2

LEMMA ThreadStays ==
  ASSUME TypeOK, ThreadInv, [Next]_vars, NEW s \in Sessions
  PROVE  /\ thread[s] # "none" => thread'[s] # "none"
         /\ thread[s] = "exited" => thread'[s] = "exited"
<1>1. ASSUME NEW r \in Sessions, ConnectStart(r)
      PROVE  /\ thread[r] = "none"
             /\ \E place \in {"connecting", "unstarted"} :
                  thread' = [thread EXCEPT ![r] = place]
  BY <1>1 DEF ConnectStart, ThreadInv
<1>2. CASE Started
  BY <1>1, <1>2 DEF Started, TypeOK
<1>3. CASE Stepped
  BY <1>3, ThreadStepFacts DEF Stepped
<1>4. CASE ~Started /\ ~Stepped
  BY <1>4, OnlyThreadsMove
<1> QED BY <1>2, <1>3, <1>4

LEMMA EventInvStep ==
  ASSUME TypeOK, ThreadInv, EventInv, [Next]_vars
  PROVE  EventInv'
<1>1. ASSUME NEW e \in Events, DeliverEvent(e) PROVE EventInv'
  <2>1. /\ e \in inflight /\ inflight' = inflight \ {e}
        /\ delivered' = delivered \cup {e}
        /\ UNCHANGED <<thread, conn>>
    BY <1>1 DEF DeliverEvent, Stream!Deliver, mainVars, threadVars
  <2>2. e.session \in Sessions /\ thread[e.session] # "none"
    BY <2>1 DEF EventInv, Events
  <2>3. conn[e.session] = "returned"
    BY <1>1, <2>2 DEF DeliverEvent, MainIdle, ThreadInv, TypeOK
  <2> QED BY <2>1, <2>3 DEF EventInv, Emitted
<1>2. ASSUME NEW s \in Sessions, EmittingStep(s), Emits(s) PROVE EventInv'
  <2>1. PICK kind \in {"connect", "update", "close"}, n \in Nat :
          /\ Stream!Emit(EventOf(s, kind, n))
          /\ kind = "close" => thread'[s] = "exited"
    BY <1>2 DEF Emits
  <2>2. /\ inflight' = inflight \cup {EventOf(s, kind, n)}
        /\ delivered' = delivered
    BY <2>1 DEF Stream!Emit
  <2>3. EventOf(s, kind, n).session = s /\ thread'[s] # "none"
    BY <1>2, ThreadStepFacts DEF EventOf
  <2>4. \A e \in inflight' : thread'[e.session] # "none"
    BY <2>2, <2>3, ThreadStays DEF EventInv, TypeOK, Events
  <2>5. \A e \in delivered' : conn'[e.session] = "returned"
    BY <2>2, ReturnedStays DEF EventInv, TypeOK, Events
  <2>6. ASSUME NEW r \in Sessions, Closed(r) \in Emitted'
        PROVE  thread'[r] = "exited"
    <3>1. CASE Closed(r) \in Emitted
      BY <3>1, ThreadStays DEF EventInv
    <3>2. CASE Closed(r) = EventOf(s, kind, n)
      <4>1. r = s /\ kind = "close"
        BY <3>2 DEF Closed, EventOf
      <4> QED BY <2>1, <4>1
    <3> QED BY <2>2, <2>6, <3>1, <3>2 DEF Emitted
  <2> QED BY <2>4, <2>5, <2>6 DEF EventInv
<1>3. CASE UNCHANGED <<inflight, delivered>>
  BY <1>3, ThreadStays, ReturnedStays DEF EventInv, TypeOK, Events, Emitted
<1> QED
  BY <1>1, <1>2, <1>3, OnlyTheseTouchEvents, EmittingStepFacts

IInv == TypeOK /\ IndexInv /\ ThreadInv /\ EventInv

LEMMA Invariant == Spec => []IInv
<1>1. Init => IndexInv /\ ThreadInv /\ EventInv
  <2> SUFFICES ASSUME Init PROVE IndexInv /\ ThreadInv /\ EventInv
    OBVIOUS
  <2>1. /\ conn = [s \in Sessions |-> "new"]
        /\ index = [s \in Sessions |-> Undefined]
        /\ thread = [s \in Sessions |-> "none"]
        /\ instance = [s \in Sessions |-> "none"]
        /\ inflight = {} /\ delivered = {}
    BY DEF Init, Stream!Init
  <2> QED BY <2>1 DEF IndexInv, ThreadInv, EventInv, Emitted
<1>2. IInv /\ [Next]_vars => IndexInv' /\ ThreadInv' /\ EventInv'
  BY IndexStep, ThreadInvStep, EventInvStep DEF IInv
<1> QED BY <1>1, <1>2, TypeCorrect, PTL DEF Spec, IInv

\* The application is called back only when connect() has returned the index
\* it may call with, although the thread that emits is started before.
THEOREM NoEarlyEvent == Spec => []NoEventBeforeIndex
<1>1. IInv => NoEventBeforeIndex
  BY DEF IInv, EventInv, IndexInv, TypeOK, Events, NoEventBeforeIndex
<1> QED BY <1>1, Invariant, PTL

\* Nothing of a session is emitted once its close event is.
THEOREM CloseIsTheLast == Spec => CloseIsFinal
<1>1. ASSUME IInv, [Next]_vars, NEW s \in Sessions, Closed(s) \in Emitted
      PROVE  {e \in Emitted' : e.session = s} = {e \in Emitted : e.session = s}
  <2>1. thread[s] = "exited"
    BY <1>1 DEF IInv, EventInv
  <2>2. ASSUME NEW e \in Events, DeliverEvent(e) PROVE Emitted' = Emitted
    BY <2>2 DEF DeliverEvent, Stream!Deliver, Emitted
  <2>3. ASSUME NEW r \in Sessions, EmittingStep(r), Emits(r)
        PROVE  {e \in Emitted' : e.session = s} = {e \in Emitted : e.session = s}
    <3>1. r # s
      BY <2>1, <2>3, <1>1, ThreadStepFacts DEF IInv
    <3>2. PICK kind \in {"connect", "update", "close"}, n \in Nat :
            Stream!Emit(EventOf(r, kind, n))
      BY <2>3 DEF Emits
    <3>3. EventOf(r, kind, n).session = r
      BY DEF EventOf
    <3> QED BY <3>1, <3>2, <3>3 DEF Stream!Emit, Emitted
  <2>4. CASE UNCHANGED <<inflight, delivered>>
    BY <2>4 DEF Emitted
  <2> QED
    BY <2>2, <2>3, <2>4, <1>1, OnlyTheseTouchEvents, EmittingStepFacts DEF IInv
<1>2. IInv /\ [Next]_vars =>
        [\A s \in Sessions :
           Closed(s) \in Emitted =>
             {e \in Emitted' : e.session = s}
               = {e \in Emitted : e.session = s}]_vars
  BY <1>1
<1> QED BY <1>2, Invariant, PTL DEF Spec, CloseIsFinal

--------------------------------------------------------------------------------
(* What an application that calls only between connect() and 'close' may   *)
(* rely on.                                                                *)

LEMMA CarefulIndex ==
  ASSUME IInv, NEW s \in Sessions, Connection(s)
  PROVE  /\ NativeIndex(s) = index[s]
         /\ InRegistry(s)
         /\ sessions[NativeIndex(s)] = s
         /\ conn[s] = "returned"
<1>1. index[s] \in Nat /\ index[s] # Undefined
  BY SessionAssumption DEF Connection
<1>2. conn[s] = "returned"
  BY <1>1, IndexMeansReturned DEF IInv
<1>3. index[s] \in 0 .. sessionCount - 1 /\ sessions[index[s]] = s
  BY <1>2 DEF IInv, IndexInv
<1>4. NativeIndex(s) = index[s]
  BY <1>1 DEF NativeIndex
<1>5. InRegistry(s)
  BY <1>3, <1>4 DEF InRegistry, IInv, TypeOK
<1> QED BY <1>2, <1>3, <1>4, <1>5

\* A record that is told to stop belongs to a session whose own close() was
\* called, or it is the first record, and some close() came before its connect().
StopInv ==
  \A s \in Sessions :
    stopping[s] \/ reason[s] = "session_stopped" =>
      closeCalled[s] \/ (strayed /\ index[s] = 0)

\* Every record belongs to the session whose connect() returned its number.
RecordInv ==
  \A i \in 0 .. sessionCount - 1 : index[sessions[i]] = i

LEMMA RecordStep ==
  ASSUME TypeOK, IndexInv, RecordInv, [Next]_vars
  PROVE  RecordInv'
<1> USE DEF TypeOK, IndexInv, RecordInv
<1>1. ASSUME NEW s \in Sessions, ConnectRejected(s) PROVE RecordInv'
  <2>1. conn[s] = "new" /\ index[s] = Undefined
    BY <1>1 DEF ConnectRejected
  <2>2. \A i \in 0 .. sessionCount - 1 : sessions[i] # s
    BY <2>1, SessionAssumption
  <2> QED BY <1>1, <2>2 DEF ConnectRejected
<1>2. ASSUME NEW s \in Sessions, PublishSession(s) PROVE RecordInv'
  <2>1. /\ sessionCount' = sessionCount + 1 /\ sessionCount' - 1 = sessionCount
        /\ \A i \in 0 .. sessionCount :
             i # sessionCount => i \in 0 .. sessionCount - 1
    BY <1>2 DEF PublishSession
  <2>2. index[s] = Undefined
    BY <1>2 DEF PublishSession
  <2>3. /\ \A i \in 0 .. sessionCount :
             sessions'[i] = IF i = sessionCount THEN s ELSE sessions[i]
        /\ index' = [index EXCEPT ![s] = sessionCount]
    BY <1>2 DEF PublishSession, AddSession
  <2>4. \A i \in 0 .. sessionCount - 1 : sessions[i] # s /\ sessions[i] \in Sessions
    BY <2>2, SessionAssumption
  <2> QED BY <2>1, <2>3, <2>4
<1>3. ASSUME NEW s \in Sessions, ConnectStart(s) \/ RegisterPointer(s)
      PROVE  UNCHANGED <<index, sessions, sessionCount>>
  BY <1>3 DEF ConnectStart, RegisterPointer
<1>4. CASE UNCHANGED <<index, sessions, sessionCount>>
  BY <1>4
<1>5. CASE ~ConnectAction
  BY <1>4, <1>5, OnlyConnectConnects
<1> QED BY <1>1, <1>2, <1>3, <1>4, <1>5 DEF ConnectAction

LEMMA StopStep ==
  ASSUME IInv, RecordInv, StopInv, [Next]_vars
  PROVE  StopInv'
<1> USE DEF IInv, TypeOK, StopInv
<1>1. ASSUME NEW s \in Sessions, Close(s) PROVE StopInv'
  <2>1. /\ closeCalled' = [closeCalled EXCEPT ![s] = TRUE]
        /\ reason' = reason /\ index' = index
        /\ strayed' = (strayed \/ ~Connection(s))
    BY <1>1 DEF Close, Call, threadVars
  <2>2. CASE ~InRegistry(s)
    BY <1>1, <2>1, <2>2 DEF Close
  <2>3. CASE InRegistry(s)
    <3> DEFINE r == sessions[NativeIndex(s)]
    <3>1. NativeIndex(s) \in 0 .. sessionCount - 1 /\ r \in Sessions
      BY <2>3 DEF InRegistry
    <3>2. stopping' = [stopping EXCEPT ![r] = TRUE]
      BY <1>1, <2>3 DEF Close
    <3>3. index[r] = NativeIndex(s)
      BY <3>1 DEF RecordInv
    <3>4. CASE index[s] = Undefined
      <4>1. index[r] = 0 /\ ~Connection(s)
        BY <3>3, <3>4, SessionAssumption DEF NativeIndex, Connection
      <4> QED BY <2>1, <3>2, <4>1
    <3>5. CASE index[s] # Undefined
      <4>1. index[s] \in 0 .. sessionCount - 1 /\ index[s] = NativeIndex(s)
        BY <3>1, <3>5 DEF NativeIndex
      <4>2. conn[s] = "returned"
        BY <4>1, IndexMeansReturned
      <4>3. r = s
        BY <4>1, <4>2 DEF IndexInv
      <4> QED BY <2>1, <3>2, <4>3
    <3> QED BY <3>4, <3>5
  <2> QED BY <2>2, <2>3
<1>2. ASSUME NEW s \in Sessions, PublishSession(s) PROVE StopInv'
  <2>1. /\ stopping' = [stopping EXCEPT ![s] = FALSE]
        /\ index' = [index EXCEPT ![s] = sessionCount]
        /\ UNCHANGED <<closeCalled, strayed, reason>>
    BY <1>2 DEF PublishSession, threadVars
  <2>2. index[s] # 0
    BY <1>2, SessionAssumption DEF PublishSession, IndexInv
  <2> QED BY <2>1, <2>2
<1>3. ASSUME NEW s \in Sessions, ConnectRejected(s) PROVE StopInv'
  <2>1. /\ index' = [index EXCEPT ![s] = -1]
        /\ UNCHANGED <<stopping, closeCalled, strayed, reason>>
    BY <1>3 DEF ConnectRejected, threadVars
  <2>2. index[s] # 0
    BY <1>3, SessionAssumption DEF ConnectRejected, IndexInv
  <2> QED BY <2>1, <2>2
<1>4. ASSUME NEW s \in Sessions, ConnectFailed(s) PROVE StopInv'
  BY <1>4 DEF ConnectFailed, mainVars
<1>5. ASSUME NEW s \in Sessions, Stopping(s) PROVE StopInv'
  BY <1>5 DEF Stopping, mainVars
<1>6. CASE /\ UNCHANGED <<stopping, reason, closeCalled, index>>
           /\ strayed => strayed'
  BY <1>6
<1> QED
  BY <1>1, <1>2, <1>3, <1>4, <1>5, <1>6
     DEF Next, MainStep, ConnectSteps, LoopStep, ThreadStep, vars, mainVars,
         threadVars, ConnectStart, RegisterPointer, Input, Call,
         DeliverEvent, DropHandles, Exit, PostConnect, Connected, WaitFailed,
         CheckEvents, CheckFailed, Reconnected, ReconnectFailed,
         ShallDisconnect, NullSession, NotStopping, FreeInstance, EmitClose

\* close() of one session stops no other, but for the first one.
THEOREM OnlyItsOwnClose == Spec => []StoppedOnlyIfClosed
<1>1. Init => StopInv /\ RecordInv
  <2>1. Init => /\ stopping = [s \in Sessions |-> FALSE]
                /\ reason = [s \in Sessions |-> "unknowing_error"]
                /\ sessionCount = 0 /\ 0 .. 0 - 1 = {}
    BY DEF Init
  <2> QED BY <2>1 DEF StopInv, RecordInv
<1>2. IInv /\ RecordInv /\ StopInv /\ [Next]_vars => RecordInv' /\ StopInv'
  BY RecordStep, StopStep DEF IInv
<1>3. StopInv => StoppedOnlyIfClosed
  BY DEF StopInv, StoppedOnlyIfClosed
<1> QED BY <1>1, <1>2, <1>3, Invariant, PTL DEF Spec

\* The calls of a careful application reach a wild pointer only in the two
\* moments that DangerousMoment names.
THEOREM DangerIsKnown == Spec => CrashOnlyInDanger
<1>1. ASSUME IInv, [Next]_vars, process' = "crashed", process' # process, ~strayed'
      PROVE  DangerousMoment
  <2>1. ASSUME NEW s \in Sessions, Close(s) PROVE FALSE
    BY <1>1, <2>1, CarefulIndex DEF Close, Call
  <2>2. ASSUME NEW s \in Sessions, Input(s) PROVE DangerousMoment
    <3>1. /\ InRegistry(s) /\ sessions[NativeIndex(s)] = s
          /\ conn[s] = "returned" /\ Closed(s) \notin delivered
      BY <1>1, <2>2, CarefulIndex DEF Input, Call, Connection
    <3>2. instance[s] # "live"
      BY <1>1, <2>2, <3>1 DEF Input, Call, MainIdle, Running
    <3>3. instance[s] # "none"
      BY <1>1, <3>1 DEF IInv, ThreadInv
    <3> QED BY <1>1, <3>1, <3>2, <3>3 DEF IInv, TypeOK, DangerousMoment
  <2>3. ASSUME NEW s \in Sessions, NullSession(s) PROVE DangerousMoment
    BY <2>3 DEF NullSession, At, DangerousMoment
  <2> QED
    BY <1>1, <2>1, <2>2, <2>3
       DEF Next, MainStep, ConnectSteps, LoopStep, ThreadStep, vars, mainVars,
           ConnectRejected, ConnectStart, RegisterPointer, PublishSession,
           DeliverEvent, DropHandles, Exit, PostConnect, Connected,
           ConnectFailed, WaitFailed, CheckEvents, CheckFailed, Reconnected,
           ReconnectFailed, ShallDisconnect, NotStopping, Stopping,
           FreeInstance, EmitClose
<1>2. IInv /\ [Next]_vars => [process' = "crashed" => strayed' \/ DangerousMoment]_process
  BY <1>1
<1> QED BY <1>2, Invariant, PTL DEF Spec, CrashOnlyInDanger
================================================================================
