------------------------------- MODULE Generator -------------------------------
(***************************************************************************)
(* generator.cc: the way of an event from the client thread that emits it  *)
(* to the JavaScript callback on the main loop, through libuv's work       *)
(* queue.  uv_queue_work is called on the client thread while the loop it  *)
(* is given runs on the main thread, so its update of the loop's count of  *)
(* active requests is a plain read followed by a plain write that another  *)
(* thread may overtake.  When a request ends, the loop asserts that there  *)
(* are any: the process is aborted if an overtaken write has lost one.     *)
(***************************************************************************)
EXTENDS Integers, Sequences, Functions

CONSTANTS Threads,     \* client threads, one per session
          Workers,     \* threads of libuv's pool (four unless configured)
          MaxEvents,   \* bound: events one thread emits
          NoBaton      \* a worker with nothing to run

\* A baton is named by the thread that built it and its number on that thread.
Baton == Threads \X (1 .. MaxEvents)

ASSUME GeneratorAssumption ==
  /\ MaxEvents \in Nat
  /\ NoBaton \notin Baton

VARIABLES pc,          \* where each thread is inside generator_emit
          built,       \* number of batons each thread has built
          seen,        \* the count each thread read before incrementing it
          activeReqs,  \* loop->active_reqs; the loop runs while it is not 0
          pool,        \* the pool's queue of work
          running,     \* the baton each worker runs DelayAsync for
          done,        \* loop->wq: work waiting for its after-work callback
          delivered,   \* batons whose callback has run, in that order
          loop,        \* what the main thread does
          loopSeen,    \* the count the main thread read before decrementing it
          appHandles,  \* the application has a timer or socket on the loop
          lost         \* history: a write of the count overtook another one

vars == <<pc, built, seen, activeReqs, pool, running, done, delivered, loop,
          loopSeen, appHandles, lost>>

Queued     == Range(pool)
Held       == {running[w] : w \in Workers} \ {NoBaton}
Done       == Range(done)
Delivered  == Range(delivered)
InFlight   == Queued \cup Held \cup Done

\* The work the count of requests stands for: a thread has registered its baton
\* before it posts it.
Registered == InFlight \cup {<<t, built[t]>> : t \in {u \in Threads : pc[u] = "post"}}

\* When the process ends, the threads of all parties end with it.
Alive == loop \notin {"exited", "aborted"}

Init ==
  /\ pc = [t \in Threads |-> "idle"]
  /\ built = [t \in Threads |-> 0]
  /\ seen = [t \in Threads |-> 0]
  /\ activeReqs = 0
  /\ pool = <<>>
  /\ running = [w \in Workers |-> NoBaton]
  /\ done = <<>>
  /\ delivered = <<>>
  /\ loop = "poll"
  /\ loopSeen = 0
  /\ appHandles = TRUE
  /\ lost = FALSE

--------------------------------------------------------------------------------
(* generator_emit, on a client thread.                                     *)

\* Builds the baton; uv_queue_work reads the loop's count of requests.
Emit(t) ==
  /\ Alive
  /\ pc[t] = "idle"
  /\ built[t] < MaxEvents
  /\ built' = [built EXCEPT ![t] = @ + 1]
  /\ seen' = [seen EXCEPT ![t] = activeReqs]
  /\ pc' = [pc EXCEPT ![t] = "register"]
  /\ UNCHANGED <<activeReqs, pool, running, done, delivered, loop, loopSeen,
                 appHandles, lost>>

\* Mutant of Register: the work is posted without being registered.
RegisterUncounted(t) ==
  /\ Alive
  /\ pc[t] = "register"
  /\ pc' = [pc EXCEPT ![t] = "post"]
  /\ UNCHANGED <<built, seen, activeReqs, pool, running, done, delivered, loop,
                 loopSeen, appHandles, lost>>

\* uv_queue_work writes the count back, without a lock.
Register(t) ==
  /\ Alive
  /\ pc[t] = "register"
  /\ activeReqs' = seen[t] + 1
  /\ lost' = (lost \/ seen[t] # activeReqs)
  /\ pc' = [pc EXCEPT ![t] = "post"]
  /\ UNCHANGED <<built, seen, pool, running, done, delivered, loop, loopSeen,
                 appHandles>>

\* uv_queue_work appends the work to the pool's queue, under its mutex.
Post(t) ==
  /\ Alive
  /\ pc[t] = "post"
  /\ pool' = Append(pool, <<t, built[t]>>)
  /\ pc' = [pc EXCEPT ![t] = "idle"]
  /\ UNCHANGED <<built, seen, activeReqs, running, done, delivered, loop,
                 loopSeen, appHandles, lost>>

--------------------------------------------------------------------------------
(* A worker of the pool.  DelayAsync does nothing.                         *)

Take(w) ==
  /\ Alive
  /\ running[w] = NoBaton
  /\ pool # <<>>
  /\ running' = [running EXCEPT ![w] = Head(pool)]
  /\ pool' = Tail(pool)
  /\ UNCHANGED <<pc, built, seen, activeReqs, done, delivered, loop, loopSeen,
                 appHandles, lost>>

\* Mutant of DelayAsync: the slot is cleared before its work is passed on.
DelayAsyncCleared(w) ==
  /\ Alive
  /\ running[w] # NoBaton
  /\ running' = [running EXCEPT ![w] = NoBaton]
  /\ done' = Append(done, running'[w])
  /\ UNCHANGED <<pc, built, seen, activeReqs, pool, delivered, loop, loopSeen,
                 appHandles, lost>>

\* Mutant of DelayAsync: the work is passed on with the next one only.
DelayAsyncLazy(w) ==
  /\ Alive
  /\ running[w] # NoBaton
  /\ pool # <<>>
  /\ done' = Append(done, running[w])
  /\ running' = [running EXCEPT ![w] = NoBaton]
  /\ UNCHANGED <<pc, built, seen, activeReqs, pool, delivered, loop, loopSeen,
                 appHandles, lost>>

DelayAsync(w) ==
  /\ Alive
  /\ running[w] # NoBaton
  /\ done' = Append(done, running[w])
  /\ running' = [running EXCEPT ![w] = NoBaton]
  /\ UNCHANGED <<pc, built, seen, activeReqs, pool, delivered, loop, loopSeen,
                 appHandles, lost>>

--------------------------------------------------------------------------------
(* The main loop.                                                          *)

\* The loop turns to the oldest finished work, reads its count of requests and
\* aborts the process if there is none.
Unregister ==
  /\ loop = "poll"
  /\ done # <<>>
  /\ IF activeReqs = 0 THEN loop' = "aborted" /\ UNCHANGED loopSeen
                       ELSE loop' = "after" /\ loopSeen' = activeReqs
  /\ UNCHANGED <<pc, built, seen, activeReqs, pool, running, done, delivered,
                 appHandles, lost>>

\* Mutant of DelayAsyncAfter: the work is not taken off the loop's queue.
DelayAsyncAfterKept ==
  /\ loop = "after"
  /\ activeReqs' = loopSeen - 1
  /\ lost' = (lost \/ loopSeen # activeReqs)
  /\ delivered' = Append(delivered, Head(done))
  /\ loop' = "poll"
  /\ UNCHANGED <<pc, built, seen, pool, running, done, loopSeen, appHandles>>

\* The count is written back; DelayAsyncAfter parses the event's arguments,
\* which frees them, calls the JavaScript callback and deletes the baton.
DelayAsyncAfter ==
  /\ loop = "after"
  /\ activeReqs' = loopSeen - 1
  /\ lost' = (lost \/ loopSeen # activeReqs)
  /\ delivered' = Append(delivered, Head(done))
  /\ done' = Tail(done)
  /\ loop' = "poll"
  /\ UNCHANGED <<pc, built, seen, pool, running, loopSeen, appHandles>>

\* The application's last timer has fired, its last socket is closed.
DropHandles ==
  /\ loop = "poll"
  /\ appHandles
  /\ appHandles' = FALSE
  /\ UNCHANGED <<pc, built, seen, activeReqs, pool, running, done, delivered,
                 loop, loopSeen, lost>>

\* The loop finds nothing alive and the process exits, with all its threads.
Exit ==
  /\ loop = "poll"
  /\ ~appHandles
  /\ activeReqs = 0
  /\ loop' = "exited"
  /\ UNCHANGED <<pc, built, seen, activeReqs, pool, running, done, delivered,
                 loopSeen, appHandles, lost>>

--------------------------------------------------------------------------------
ThreadStep(t) == Emit(t) \/ Register(t) \/ Post(t)
WorkerStep(w) == Take(w) \/ DelayAsync(w)
LoopStep == Unregister \/ DelayAsyncAfter \/ DropHandles \/ Exit

Next ==
  \/ \E t \in Threads : ThreadStep(t)
  \/ \E w \in Workers : WorkerStep(w)
  \/ LoopStep

\* The operating system runs every thread; whether a session emits another
\* event, and whether the application drops its handles, is not theirs to say.
Fairness ==
  /\ \A t \in Threads : WF_vars(Register(t) \/ Post(t))
  /\ \A w \in Workers : WF_vars(WorkerStep(w))
  /\ WF_vars(Unregister \/ DelayAsyncAfter)

Spec == Init /\ [][Next]_vars
FairSpec == Spec /\ Fairness

--------------------------------------------------------------------------------
TypeOK ==
  /\ pc \in [Threads -> {"idle", "register", "post"}]
  /\ built \in [Threads -> 0 .. MaxEvents]
  /\ seen \in [Threads -> Nat]
  /\ activeReqs \in Nat
  /\ pool \in Seq(Baton)
  /\ running \in [Workers -> Baton \cup {NoBaton}]
  /\ done \in Seq(Baton)
  /\ delivered \in Seq(Baton)
  /\ loop \in {"poll", "after", "exited", "aborted"}
  /\ loopSeen \in Nat
  /\ appHandles \in BOOLEAN
  /\ lost \in BOOLEAN

\* Every step of the generator is a step of the event stream or leaves it
\* unchanged: however the threads of the three parties interleave, no baton is
\* lost, duplicated or run again between generator_emit and DelayAsyncAfter.
Stream == INSTANCE EventStream
            WITH Event <- Baton, inflight <- InFlight, delivered <- Delivered

ImplementsStream == Stream!Spec

\* A pool of one thread keeps the order of a session's events: the callback gets
\* them as generator_emit was called (UV_THREADPOOL_SIZE=1; with more workers
\* two of them may finish in either order).  GeneratorProofs proves it.
InOrder ==
  \A i, j \in DOMAIN delivered :
    i < j /\ delivered[i][1] = delivered[j][1] => delivered[i][2] < delivered[j][2]

\* As long as the application keeps a handle on the loop and libuv does not abort
\* the process over the count, every event a client thread has started to emit
\* arrives at the JavaScript callback, also when updates of the count have been
\* lost that nobody notices (generator.cc:45-55, 28-43).
EveryEventDelivered ==
  \A b \in Baton :
    (b[2] <= built[b[1]]) ~> (b \in Delivered \/ ~appHandles \/ loop = "aborted")

\* The race of uv_queue_work on the count is all that can end the process too
\* early: as long as no thread's write of the count has overtaken another one's,
\* libuv does not abort, and the loop is not left with an event on its way
\* (generator.cc:54).
LossOnlyRaced ==
  ~lost => loop # "aborted" /\ (loop = "exited" => Registered = {})

\* "will send closed event when completed" (rdp.cc:290): the process does not
\* exit, of its own accord, with an event still on its way to the callback.
ExitLosesNothing == loop = "exited" => InFlight = {}
================================================================================
