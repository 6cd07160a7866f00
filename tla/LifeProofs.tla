------------------------------- MODULE LifeProofs ------------------------------
(***************************************************************************)
(* Session implements Life, for every set of sessions and every bound, its *)
(* events are those of an EventStream, each emitted once, and close() is   *)
(* safe for an application that makes no other call.  Builds on the        *)
(* invariants of SessionProofs.                                            *)
(***************************************************************************)
EXTENDS SessionProofs

--------------------------------------------------------------------------------
(* The events of a session travel through the generator.                   *)

LEMMA EventStepIsStreamStep ==
  ASSUME TypeOK, [Next]_vars
  PROVE  [Stream!Next]_(Stream!vars)
<1>1. ASSUME NEW e \in Events, DeliverEvent(e) PROVE Stream!Next
  BY <1>1 DEF DeliverEvent, Stream!Next
<1>2. ASSUME NEW s \in Sessions, PostConnect(s) \/ EmitClose(s) PROVE Stream!Next
  BY <1>2, FirstAndLastTypes DEF PostConnect, EmitClose, Stream!Next
<1>3. ASSUME NEW s \in Sessions, CheckEvents(s) \/ CheckFailed(s)
      PROVE  [Stream!Next]_(Stream!vars)
  <2>1. CASE UNCHANGED <<updates, inflight, delivered>>
    BY <2>1 DEF Stream!vars
  <2>2. CASE /\ updates[s] < MaxUpdates
             /\ updates' = [updates EXCEPT ![s] = @ + 1]
             /\ Stream!Emit(EventOf(s, "update", updates'[s]))
    <3>1. updates'[s] \in 0 .. MaxUpdates
      BY <2>2, SessionAssumption DEF TypeOK
    <3>2. EventOf(s, "update", updates'[s]) \in Events
      BY <3>1, EventTypes
    <3> QED BY <2>2, <3>2 DEF Stream!Next
  <2> QED BY <1>3, <2>1, <2>2 DEF CheckEvents, CheckFailed, Callbacks
<1>4. CASE UNCHANGED <<inflight, delivered>>
  BY <1>4 DEF Stream!vars
<1> QED BY <1>1, <1>2, <1>3, <1>4, OnlyTheseTouchEvents DEF EmittingStep

\* Whatever the client threads and the application do, the events of the sessions
\* take the steps of EventStream, which Generator implements: Session asks of the
\* generator nothing but what generator.cc keeps (rdp.cc:125, 139 and 210,
\* generator.cc:45-55).
THEOREM SessionUsesStream == Spec => Stream!Spec
<1>1. Init => Stream!Init
  BY DEF Init
<1>2. TypeOK /\ [Next]_vars => [Stream!Next]_(Stream!vars)
  BY EventStepIsStreamStep
<1> QED BY <1>1, <1>2, TypeCorrect, PTL DEF Spec, Stream!Spec

--------------------------------------------------------------------------------
(* The order in which the events of a session come about.                  *)

\* The places from which the thread goes on only when it is connected.
Inside == {"established", "waiting", "checked", "reconnecting"}

ConnectTold ==
  \A s \in Sessions : thread[s] \in Inside => EventOf(s, "connect", 0) \in Emitted

UpdatesTold ==
  \A s \in Sessions : \A n \in 1 .. MaxUpdates :
    EventOf(s, "update", n) \in Emitted <=> n <= updates[s]

\* At most one session is inside connect().
OneBusy ==
  \A r, s \in Sessions :
    conn[r] \in {"started", "registered"} /\ conn[s] \in {"started", "registered"}
      => r = s

OrderInv == ConnectTold /\ UpdatesTold /\ OneBusy

LEMMA ThreadMoves ==
  ASSUME TypeOK, NEW s \in Sessions, QuietStep(s) \/ EmittingStep(s)
  PROVE  /\ thread'[s] \in Inside => thread[s] \in Inside \/ PostConnect(s)
         /\ \A r \in Sessions : r # s => thread'[r] = thread[r]
         /\ conn' = conn
<1> USE DEF TypeOK, Inside, Goto, At
<1>1. CASE QuietStep(s)
  BY <1>1 DEF QuietStep, Connected, ConnectFailed, WaitFailed, Reconnected,
              ReconnectFailed, ShallDisconnect, NullSession, NotStopping,
              Stopping, FreeInstance, mainVars, threadVars
<1>2. CASE EmittingStep(s)
  BY <1>2 DEF EmittingStep, PostConnect, CheckEvents, CheckFailed, EmitClose,
              mainVars
<1> QED BY <1>1, <1>2

LEMMA EmittedGrows ==
  ASSUME [Next]_vars
  PROVE  Emitted \subseteq Emitted'
<1>1. ASSUME NEW e \in Events, DeliverEvent(e) PROVE Emitted \subseteq Emitted'
  BY <1>1 DEF DeliverEvent, Stream!Deliver, Emitted
<1>2. ASSUME NEW s \in Sessions, EmittingStep(s) PROVE Emitted \subseteq Emitted'
  BY <1>2 DEF EmittingStep, PostConnect, CheckEvents, CheckFailed, EmitClose,
              Callbacks, Stream!Emit, Emitted
<1>3. CASE UNCHANGED <<inflight, delivered>>
  BY <1>3 DEF Emitted
<1> QED BY <1>1, <1>2, <1>3, OnlyTheseTouchEvents

LEMMA ConnectToldStep ==
  ASSUME TypeOK, ThreadInv, ConnectTold, [Next]_vars
  PROVE  ConnectTold'
<1> SUFFICES ASSUME NEW s \in Sessions, thread'[s] \in Inside
             PROVE  EventOf(s, "connect", 0) \in Emitted'
  BY DEF ConnectTold
<1>1. CASE thread[s] \in Inside
  BY <1>1, EmittedGrows DEF ConnectTold
<1>2. CASE PostConnect(s)
  BY <1>2 DEF PostConnect, Stream!Emit, Emitted
<1>3. CASE thread[s] \notin Inside /\ ~PostConnect(s)
  <2>1. ASSUME NEW r \in Sessions, QuietStep(r) \/ EmittingStep(r)
        PROVE  FALSE
    BY <1>3, <2>1, ThreadMoves
  <2>2. CASE Started
    BY <1>3, <2>2 DEF Started, ConnectStart, TypeOK, Inside
  <2>3. CASE ~Started /\ ~Stepped
    BY <1>3, <2>3, OnlyThreadsMove
  <2> QED BY <2>1, <2>2, <2>3 DEF Stepped
<1> QED BY <1>1, <1>2, <1>3

\* A step of Callbacks that emits, by its event.
Paints(s) ==
  /\ updates[s] < MaxUpdates
  /\ updates' = [updates EXCEPT ![s] = @ + 1]
  /\ Stream!Emit(EventOf(s, "update", updates'[s]))

LEMMA UpdateSteps ==
  ASSUME [Next]_vars, ~(\E s \in Sessions : Paints(s))
  PROVE  updates' = updates
BY DEF Paints, Callbacks, Next, MainStep, ConnectSteps, LoopStep, ThreadStep, vars,
       threadVars, ConnectRejected, ConnectStart, RegisterPointer, PublishSession,
       Close, Input, DeliverEvent, DropHandles, Exit, PostConnect, Connected,
       ConnectFailed, WaitFailed, CheckEvents, CheckFailed, Reconnected,
       ReconnectFailed, ShallDisconnect, NullSession, NotStopping, Stopping,
       FreeInstance, EmitClose

\* What a step adds to the events that have come about.
LEMMA EmittedChanges ==
  ASSUME [Next]_vars, ~(\E s \in Sessions : Paints(s))
  PROVE  \A e \in Emitted' \ Emitted : e.kind # "update"
<1>1. ASSUME NEW e \in Events, DeliverEvent(e) PROVE Emitted' = Emitted
  BY <1>1 DEF DeliverEvent, Stream!Deliver, Emitted
<1>2. ASSUME NEW s \in Sessions, PostConnect(s) \/ EmitClose(s)
      PROVE  \A e \in Emitted' \ Emitted : e.kind # "update"
  BY <1>2 DEF PostConnect, EmitClose, Closed, EventOf, Stream!Emit, Emitted
<1>3. ASSUME NEW s \in Sessions, CheckEvents(s) \/ CheckFailed(s)
      PROVE  Emitted' = Emitted
  BY <1>3 DEF CheckEvents, CheckFailed, Callbacks, Paints, Emitted
<1>4. CASE UNCHANGED <<inflight, delivered>>
  BY <1>4 DEF Emitted
<1> QED BY <1>1, <1>2, <1>3, <1>4, OnlyTheseTouchEvents DEF EmittingStep

LEMMA UpdatesToldStep ==
  ASSUME TypeOK, UpdatesTold, [Next]_vars
  PROVE  UpdatesTold'
<1> USE SessionAssumption
<1>1. ASSUME NEW s \in Sessions, Paints(s) PROVE UpdatesTold'
  <2>1. /\ updates[s] \in Nat /\ updates'[s] = updates[s] + 1
        /\ \A r \in Sessions : updates[r] \in Nat
        /\ \A r \in Sessions : r # s => updates'[r] = updates[r]
    BY <1>1 DEF Paints, TypeOK
  <2>2. Emitted' = Emitted \cup {EventOf(s, "update", updates'[s])}
    BY <1>1 DEF Paints, Stream!Emit, Emitted
  <2> SUFFICES ASSUME NEW r \in Sessions, NEW n \in 1 .. MaxUpdates
               PROVE  EventOf(r, "update", n) \in Emitted' <=> n <= updates'[r]
    BY DEF UpdatesTold
  <2>3. EventOf(r, "update", n) = EventOf(s, "update", updates'[s])
          <=> r = s /\ n = updates'[s]
    BY DEF EventOf
  <2>4. EventOf(r, "update", n) \in Emitted <=> n <= updates[r]
    BY DEF UpdatesTold
  <2> QED BY <2>1, <2>2, <2>3, <2>4
<1>2. CASE ~(\E s \in Sessions : Paints(s))
  <2>1. updates' = updates
    BY <1>2, UpdateSteps
  <2>2. \A s \in Sessions, n \in 1 .. MaxUpdates :
          EventOf(s, "update", n) \in Emitted' <=> EventOf(s, "update", n) \in Emitted
    BY <1>2, EmittedGrows, EmittedChanges DEF EventOf
  <2> QED BY <2>1, <2>2 DEF UpdatesTold
<1> QED BY <1>1, <1>2

LEMMA OneBusyStep ==
  ASSUME TypeOK, OneBusy, [Next]_vars
  PROVE  OneBusy'
<1>1. ASSUME NEW s \in Sessions, ConnectRejected(s) PROVE OneBusy'
  BY <1>1 DEF ConnectRejected, OneBusy, TypeOK
<1>2. ASSUME NEW s \in Sessions, ConnectStart(s) PROVE OneBusy'
  BY <1>2 DEF ConnectStart, MainIdle, OneBusy, TypeOK
<1>3. ASSUME NEW s \in Sessions, RegisterPointer(s) PROVE OneBusy'
  BY <1>3 DEF RegisterPointer, OneBusy, TypeOK
<1>4. ASSUME NEW s \in Sessions, PublishSession(s) PROVE OneBusy'
  BY <1>4 DEF PublishSession, OneBusy, TypeOK
<1>5. CASE ~ConnectAction
  BY <1>5, OnlyConnectConnects DEF OneBusy
<1> QED BY <1>1, <1>2, <1>3, <1>4, <1>5 DEF ConnectAction

LEMMA OrderInvariant == Spec => []OrderInv
<1>1. Init => OrderInv
  <2> SUFFICES ASSUME Init PROVE OrderInv
    OBVIOUS
  <2>1. /\ thread = [s \in Sessions |-> "none"]
        /\ conn = [s \in Sessions |-> "new"]
        /\ updates = [s \in Sessions |-> 0]
        /\ Emitted = {}
    BY DEF Init, Stream!Init, Emitted
  <2> QED BY <2>1 DEF OrderInv, ConnectTold, UpdatesTold, OneBusy, Inside
<1>2. IInv /\ OrderInv /\ [Next]_vars => OrderInv'
  BY ConnectToldStep, UpdatesToldStep, OneBusyStep DEF IInv, OrderInv
<1> QED BY <1>1, <1>2, Invariant, PTL DEF Spec

\* A thread that is past its connection does not come back to it.
LEMMA PastConnecting ==
  ASSUME TypeOK, ThreadInv, [Next]_vars, NEW s \in Sessions,
         thread[s] \notin {"none", "connecting"}
  PROVE  thread'[s] \notin {"none", "connecting"}
<1>1. ASSUME NEW r \in Sessions, QuietStep(r) \/ EmittingStep(r)
      PROVE  thread'[s] \notin {"none", "connecting"}
  <2>1. CASE r # s
    BY <1>1, <2>1, ThreadMoves
  <2>2. CASE QuietStep(s)
    BY <2>2 DEF QuietStep, TypeOK, Goto, At, Connected, ConnectFailed, WaitFailed,
                Reconnected, ReconnectFailed, ShallDisconnect, NullSession,
                NotStopping, Stopping, FreeInstance, mainVars, threadVars
  <2>3. CASE EmittingStep(s)
    BY <2>3 DEF EmittingStep, TypeOK, Goto, PostConnect, CheckEvents, CheckFailed,
                EmitClose
  <2> QED BY <1>1, <2>1, <2>2, <2>3
<1>2. CASE Started
  <2>1. PICK r \in Sessions : ConnectStart(r)
    BY <1>2 DEF Started
  <2>2. thread[r] = "none"
    BY <2>1 DEF ConnectStart, ThreadInv
  <2> QED BY <2>1, <2>2 DEF ConnectStart, TypeOK
<1>3. CASE ~Started /\ ~Stepped
  BY <1>3, OnlyThreadsMove
<1> QED BY <1>1, <1>2, <1>3 DEF Stepped

LEMMA OnlyPostConnectTells ==
  ASSUME [Next]_vars, NEW s \in Sessions, EventOf(s, "connect", 0) \in Emitted',
         EventOf(s, "connect", 0) \notin Emitted
  PROVE  PostConnect(s)
<1>1. ASSUME NEW e \in Events, DeliverEvent(e) PROVE FALSE
  BY <1>1 DEF DeliverEvent, Stream!Deliver, Emitted
<1>2. ASSUME NEW r \in Sessions, PostConnect(r) PROVE PostConnect(s)
  BY <1>2 DEF PostConnect, EventOf, Stream!Emit, Emitted
<1>3. ASSUME NEW r \in Sessions, CheckEvents(r) \/ CheckFailed(r) \/ EmitClose(r)
      PROVE  FALSE
  BY <1>3 DEF CheckEvents, CheckFailed, EmitClose, Callbacks, Closed, EventOf,
              Stream!Emit, Emitted
<1>4. CASE UNCHANGED <<inflight, delivered>>
  BY <1>4 DEF Emitted
<1> QED BY <1>1, <1>2, <1>3, <1>4, OnlyTheseTouchEvents DEF EmittingStep

\* A session that has told of its connection is past it.
ConnectedInv ==
  \A s \in Sessions :
    EventOf(s, "connect", 0) \in Emitted => thread[s] \notin {"none", "connecting"}

LEMMA ConnectedStep ==
  ASSUME TypeOK, ThreadInv, ConnectedInv, [Next]_vars
  PROVE  ConnectedInv'
<1> SUFFICES ASSUME NEW s \in Sessions, EventOf(s, "connect", 0) \in Emitted'
             PROVE  thread'[s] \notin {"none", "connecting"}
  BY DEF ConnectedInv
<1>1. CASE PostConnect(s)
  BY <1>1 DEF PostConnect, Goto, TypeOK
<1>2. CASE EventOf(s, "connect", 0) \in Emitted
  BY <1>2, PastConnecting DEF ConnectedInv
<1>3. CASE ~PostConnect(s) /\ EventOf(s, "connect", 0) \notin Emitted
  BY <1>3, OnlyPostConnectTells
<1> QED BY <1>1, <1>2, <1>3

\* Every event is emitted once only.
THEOREM NothingIsEmittedTwice == Spec => []EmitsOnce
<1>1. Init => ConnectedInv
  BY DEF Init, Stream!Init, Emitted, ConnectedInv
<1>2. IInv /\ ConnectedInv /\ [Next]_vars => ConnectedInv'
  BY ConnectedStep DEF IInv
<1>3. IInv /\ OrderInv /\ ConnectedInv => EmitsOnce
  <2> SUFFICES ASSUME IInv, OrderInv, ConnectedInv, NEW s \in Sessions
               PROVE  /\ thread[s] = "connecting" => EventOf(s, "connect", 0) \notin Emitted
                      /\ thread[s] # "exited" => Closed(s) \notin Emitted
                      /\ updates[s] < MaxUpdates =>
                           EventOf(s, "update", updates[s] + 1) \notin Emitted
    BY DEF EmitsOnce
  <2>1. thread[s] # "exited" => Closed(s) \notin Emitted
    BY DEF IInv, EventInv
  <2>2. updates[s] < MaxUpdates =>
          updates[s] + 1 \in 1 .. MaxUpdates /\ ~(updates[s] + 1 <= updates[s])
    BY SessionAssumption DEF IInv, TypeOK
  <2>3. updates[s] < MaxUpdates => EventOf(s, "update", updates[s] + 1) \notin Emitted
    BY <2>2 DEF OrderInv, UpdatesTold
  <2> QED BY <2>1, <2>3 DEF ConnectedInv
<1> QED BY <1>1, <1>2, <1>3, Invariant, OrderInvariant, PTL DEF Spec

--------------------------------------------------------------------------------
(* The refinement.                                                         *)

LEMMA OpenedIs ==
  ASSUME TypeOK, NEW s \in Sessions
  PROVE  /\ Opened[s] = "no" <=> conn[s] = "new"
         /\ Opened[s] = "refused" <=> conn[s] = "rejected"
         /\ Opened[s] = "busy" <=> conn[s] \in {"started", "registered"}
         /\ Opened[s] = "yes" <=> conn[s] = "returned"
<1>1. conn[s] \in {"new", "rejected", "started", "registered", "returned"}
  BY DEF TypeOK
<1>2. Opened[s] = OpenedBy(conn[s])
  BY DEF Opened
<1> QED BY <1>1, <1>2 DEF OpenedBy

\* Where MainIdle holds nobody is busy.
LEMMA MainIdleIsIdle ==
  ASSUME TypeOK, MainIdle
  PROVE  Promise!Idle
BY OpenedIs DEF MainIdle, Promise!Idle

\* A step that moves one session in connect() moves it alone in Life.
LEMMA OpenedMoves ==
  ASSUME TypeOK, NEW s \in Sessions,
         NEW c \in {"rejected", "started", "registered", "returned"},
         conn' = [conn EXCEPT ![s] = c]
  PROVE  Opened' = [Opened EXCEPT ![s] = OpenedBy(c)]
<1>1. \A r \in Sessions : conn'[r] = IF r = s THEN c ELSE conn[r]
  BY DEF TypeOK
<1>2. Opened' = [r \in Sessions |-> OpenedBy(conn'[r])]
  BY DEF Opened
<1>3. Opened' = [r \in Sessions |-> IF r = s THEN OpenedBy(c) ELSE OpenedBy(conn[r])]
  BY <1>1, <1>2
<1>4. \A r \in Sessions : Opened[r] = OpenedBy(conn[r])
  BY DEF Opened
<1> QED BY <1>3, <1>4 DEF Opened

\* What an emitting step needs to be a Tell.
LEMMA TellStep ==
  ASSUME IInv, NEW s \in Sessions, thread[s] \notin {"none", "exited"}, conn' = conn,
         NEW e, Stream!Emit(e)
  PROVE  Promise!Tell(s, e)
<1>1. Opened[s] \in {"busy", "yes"}
  <2>1. conn[s] \in {"started", "registered", "returned"}
    BY DEF IInv, TypeOK, ThreadInv
  <2> QED BY <2>1, OpenedIs DEF IInv
<1>2. Promise!EventOf(s, "close", 0) \notin Emitted
  BY DEF IInv, EventInv, Closed, EventOf, Promise!EventOf
<1>3. /\ e \notin Emitted
      /\ Emitted' = Emitted \cup {e}
      /\ delivered' = delivered
      /\ Opened' = Opened
  BY DEF Stream!Emit, Emitted, Opened
<1> QED BY <1>1, <1>2, <1>3 DEF Promise!Tell

LEMMA UpdateStep ==
  ASSUME IInv, OrderInv, NEW s \in Sessions, thread[s] \in Inside, conn' = conn,
         Paints(s)
  PROVE  \E n \in 1 .. MaxUpdates : Promise!Update(s, n)
<1> USE SessionAssumption
<1>1. /\ updates[s] \in 0 .. MaxUpdates
      /\ updates[s] < MaxUpdates
      /\ updates'[s] = updates[s] + 1
      /\ updates'[s] \in 1 .. MaxUpdates
  BY DEF Paints, IInv, TypeOK
<1>2. Promise!Tell(s, EventOf(s, "update", updates'[s]))
  BY TellStep DEF Paints, Inside
<1>3. Promise!EventOf(s, "connect", 0) \in Emitted
  BY DEF OrderInv, ConnectTold, EventOf, Promise!EventOf
<1>4. updates'[s] > 1 => Promise!EventOf(s, "update", updates'[s] - 1) \in Emitted
  <2>1. updates'[s] > 1 => EventOf(s, "update", updates[s]) \in Emitted
    BY <1>1 DEF OrderInv, UpdatesTold
  <2> QED BY <1>1, <2>1 DEF EventOf, Promise!EventOf
<1> QED BY <1>1, <1>2, <1>3, <1>4 DEF Promise!Update, EventOf, Promise!EventOf

Stutter == UNCHANGED <<Opened, Emitted, delivered>>

LEMMA EmittingImplements ==
  ASSUME IInv, OrderInv, NEW s \in Sessions, EmittingStep(s)
  PROVE  Promise!Next \/ Stutter
<1>1. conn' = conn /\ thread[s] \notin {"none", "exited"}
  BY ThreadStepFacts DEF IInv
<1>2. CASE PostConnect(s)
  <2>1. Promise!Tell(s, Promise!EventOf(s, "connect", 0))
    BY <1>1, <1>2, TellStep DEF PostConnect, EventOf, Promise!EventOf
  <2> QED BY <2>1 DEF Promise!Next
<1>3. CASE EmitClose(s)
  <2>1. Promise!Tell(s, Promise!EventOf(s, "close", 0))
    BY <1>1, <1>3, TellStep DEF EmitClose, Closed, EventOf, Promise!EventOf
  <2> QED BY <2>1 DEF Promise!Next
<1>4. CASE CheckEvents(s) \/ CheckFailed(s)
  <2>1. Callbacks(s) /\ thread[s] \in Inside
    BY <1>4 DEF CheckEvents, CheckFailed, At, Inside
  <2>2. CASE Paints(s)
    BY <1>1, <2>1, <2>2, UpdateStep DEF Promise!Next
  <2>3. CASE UNCHANGED <<updates, inflight, delivered>>
    BY <1>1, <2>3 DEF Stutter, Opened, Emitted
  <2> QED BY <2>1, <2>2, <2>3 DEF Callbacks, Paints
<1> QED BY <1>2, <1>3, <1>4 DEF EmittingStep

LEMMA ConnectImplements ==
  ASSUME IInv, NEW s \in Sessions,
         \/ ConnectRejected(s) \/ ConnectStart(s)
         \/ RegisterPointer(s) \/ PublishSession(s)
  PROVE  Promise!Next \/ Stutter
<1> USE DEF IInv
<1>1. CASE ConnectRejected(s)
  <2>1. Promise!Idle /\ Opened[s] = "no"
    BY <1>1, MainIdleIsIdle, OpenedIs DEF ConnectRejected
  <2>2. Opened' = [Opened EXCEPT ![s] = "refused"]
    BY <1>1, OpenedMoves DEF ConnectRejected, OpenedBy
  <2>3. Promise!Refuse(s)
    BY <1>1, <2>1, <2>2 DEF ConnectRejected, Promise!Refuse, Emitted
  <2> QED BY <2>3 DEF Promise!Next
<1>2. CASE ConnectStart(s)
  <2>1. Promise!Idle /\ Opened[s] = "no"
    BY <1>2, MainIdleIsIdle, OpenedIs DEF ConnectStart
  <2>2. Opened' = [Opened EXCEPT ![s] = "busy"]
    BY <1>2, OpenedMoves DEF ConnectStart, OpenedBy
  <2>3. Promise!Begin(s)
    BY <1>2, <2>1, <2>2 DEF ConnectStart, Promise!Begin, Emitted
  <2> QED BY <2>3 DEF Promise!Next
<1>3. CASE RegisterPointer(s)
  <2>1. Opened' = [Opened EXCEPT ![s] = "busy"] /\ Opened[s] = "busy"
    BY <1>3, OpenedMoves, OpenedIs DEF RegisterPointer, OpenedBy
  <2>2. Opened' = Opened
    BY <2>1 DEF Opened
  <2> QED BY <1>3, <2>2 DEF RegisterPointer, Stutter, Emitted
<1>4. CASE PublishSession(s)
  <2>1. Opened[s] = "busy"
    BY <1>4, OpenedIs DEF PublishSession
  <2>2. Opened' = [Opened EXCEPT ![s] = "yes"]
    BY <1>4, OpenedMoves DEF PublishSession, OpenedBy
  <2>3. Promise!Accept(s)
    BY <1>4, <2>1, <2>2 DEF PublishSession, Promise!Accept, Emitted
  <2> QED BY <2>3 DEF Promise!Next
<1> QED BY <1>1, <1>2, <1>3, <1>4

LEMMA DeliveryImplements ==
  ASSUME IInv, NEW e \in Events, DeliverEvent(e), delivered \cap inflight = {}
  PROVE  Promise!Next
<1>1. /\ e \in inflight /\ inflight' = inflight \ {e}
      /\ delivered' = delivered \cup {e} /\ conn' = conn
  BY DEF DeliverEvent, Stream!Deliver, mainVars
<1>2. Promise!Idle
  BY MainIdleIsIdle DEF DeliverEvent, IInv
<1>3. e.session \in Sessions /\ thread[e.session] # "none"
  BY <1>1 DEF IInv, EventInv, Events
<1>4. conn[e.session] = "returned"
  BY <1>3 DEF DeliverEvent, MainIdle, IInv, ThreadInv, TypeOK
<1>5. Opened[e.session] = "yes"
  BY <1>3, <1>4, OpenedIs DEF IInv
<1>6. Emitted' = Emitted /\ Opened' = Opened /\ e \in Emitted \ delivered
  BY <1>1 DEF Emitted, Opened
<1>7. Promise!Hear(e)
  BY <1>1, <1>2, <1>5, <1>6 DEF Promise!Hear
<1> QED BY <1>6, <1>7 DEF Promise!Next

\* No event is in flight and delivered.
Disjoint == inflight \cap delivered = {}

LEMMA DisjointStep ==
  ASSUME Disjoint, [Next]_vars
  PROVE  Disjoint'
<1>1. ASSUME NEW e \in Events, DeliverEvent(e) PROVE Disjoint'
  BY <1>1 DEF DeliverEvent, Stream!Deliver, Disjoint
<1>2. ASSUME NEW s \in Sessions, EmittingStep(s) PROVE Disjoint'
  BY <1>2 DEF EmittingStep, PostConnect, CheckEvents, CheckFailed, EmitClose,
              Callbacks, Stream!Emit, Disjoint
<1>3. CASE UNCHANGED <<inflight, delivered>>
  BY <1>3 DEF Disjoint
<1> QED BY <1>1, <1>2, <1>3, OnlyTheseTouchEvents

\* A Session object keeps what Life promises its listeners, for any number of
\* sessions and events and any application.
THEOREM SessionKeepsLife == Spec => ImplementsLife
<1>1. Init => Disjoint /\ Promise!Init
  <2> SUFFICES ASSUME Init PROVE Disjoint /\ Promise!Init
    OBVIOUS
  <2>1. conn = [s \in Sessions |-> "new"] /\ inflight = {} /\ delivered = {}
    BY DEF Init, Stream!Init
  <2>2. Opened = [s \in Sessions |-> "no"]
    BY <2>1 DEF Opened, OpenedBy
  <2> QED BY <2>1, <2>2 DEF Disjoint, Promise!Init, Emitted
<1>2. ASSUME IInv, OrderInv, Disjoint, [Next]_vars
      PROVE  Promise!Next \/ Stutter
  <2>1. ASSUME NEW e \in Events, DeliverEvent(e) PROVE Promise!Next
    BY <1>2, <2>1, DeliveryImplements DEF Disjoint
  <2>2. CASE ~ConnectAction /\ UNCHANGED <<inflight, delivered>>
    BY <1>2, <2>2, OnlyConnectConnects DEF Stutter, Opened, Emitted
  <2>3. CASE ConnectAction
    BY <1>2, <2>3, ConnectImplements DEF ConnectAction
  <2>4. ASSUME NEW s \in Sessions, EmittingStep(s) PROVE Promise!Next \/ Stutter
    BY <1>2, <2>4, EmittingImplements
  <2> QED BY <1>2, <2>1, <2>2, <2>3, <2>4, OnlyTheseTouchEvents
<1>3. IInv /\ OrderInv /\ Disjoint /\ [Next]_vars => [Promise!Next]_(Promise!vars)
  BY <1>2 DEF Stutter, Promise!vars
<1>4. Disjoint /\ [Next]_vars => Disjoint'
  BY DisjointStep
<1> QED
  BY <1>1, <1>3, <1>4, Invariant, OrderInvariant, PTL
     DEF Spec, ImplementsLife, Promise!Spec

--------------------------------------------------------------------------------
(* An application that only closes.                                        *)

\* Where the handshake is slower than connect(), a thread that is connected has
\* its session record.
HandshakeInv ==
  \A s \in Sessions : thread[s] \in Inside => conn[s] = "returned"

\* close() is safe at every moment, for any number of sessions, if the handshake
\* outlasts the rest of connect() and the application makes no other call.
THEOREM CloseIsSafe ==
  ASSUME SlowHandshake = TRUE, Calls = {"close"}
  PROVE  Spec => []CloseNeverCrashes
<1>1. Init => HandshakeInv /\ CloseNeverCrashes
  <2> SUFFICES ASSUME Init PROVE HandshakeInv /\ CloseNeverCrashes
    OBVIOUS
  <2>1. thread = [s \in Sessions |-> "none"] /\ process = "running"
    BY DEF Init
  <2> QED BY <2>1 DEF HandshakeInv, CloseNeverCrashes, Inside
<1>2. ASSUME IInv, HandshakeInv, [Next]_vars PROVE HandshakeInv'
  <2> SUFFICES ASSUME NEW s \in Sessions, thread'[s] \in Inside
               PROVE  conn'[s] = "returned"
    BY DEF HandshakeInv
  <2>1. CASE thread[s] \in Inside
    BY <1>2, <2>1, ReturnedStays DEF HandshakeInv, IInv
  <2>2. CASE PostConnect(s)
    BY <2>2 DEF PostConnect, mainVars
  <2>3. CASE thread[s] \notin Inside /\ ~PostConnect(s)
    <3>1. ASSUME NEW r \in Sessions, QuietStep(r) \/ EmittingStep(r) PROVE FALSE
      BY <1>2, <2>3, <3>1, ThreadMoves DEF IInv
    <3>2. CASE Started
      BY <1>2, <2>3, <3>2 DEF Started, ConnectStart, IInv, TypeOK, Inside
    <3>3. CASE ~Started /\ ~Stepped
      BY <1>2, <2>3, <3>3, OnlyThreadsMove
    <3> QED BY <3>1, <3>2, <3>3 DEF Stepped
  <2> QED BY <2>1, <2>2, <2>3
<1>3. ASSUME IInv, HandshakeInv, CloseNeverCrashes, [Next]_vars
      PROVE  CloseNeverCrashes'
  <2>1. ASSUME NEW s \in Sessions, Close(s) PROVE process' = process
    <3>1. Connection(s)
      BY <2>1 DEF Close, Call
    <3> QED BY <1>3, <2>1, <3>1, CarefulIndex DEF Close
  <2>2. ASSUME NEW s \in Sessions, Input(s) PROVE FALSE
    BY <2>2 DEF Input
  <2>3. ASSUME NEW s \in Sessions, NullSession(s) PROVE FALSE
    BY <1>3, <2>3 DEF NullSession, At, HandshakeInv, Inside
  <2> QED
    BY <1>3, <2>1, <2>2, <2>3
       DEF CloseNeverCrashes, Next, MainStep, ConnectSteps, LoopStep, ThreadStep,
           vars, mainVars, ConnectRejected, ConnectStart, RegisterPointer,
           PublishSession, DeliverEvent, DropHandles, Exit, PostConnect,
           Connected, ConnectFailed, WaitFailed, CheckEvents, CheckFailed,
           Reconnected, ReconnectFailed, ShallDisconnect, NotStopping, Stopping,
           FreeInstance, EmitClose
<1> QED BY <1>1, <1>2, <1>3, Invariant, PTL DEF Spec
================================================================================
