---------------------------- MODULE GeneratorProofs ----------------------------
(***************************************************************************)
(* Proofs about Generator, for every set of threads and of workers: its    *)
(* types, that it implements EventStream, that only the race on the loop's *)
(* count of requests can end the process too early, and that a pool of one *)
(* thread keeps a session's events in order.                               *)
(***************************************************************************)
EXTENDS Generator, FiniteSets, SequenceTheorems, FiniteSetTheorems, TLAPS

--------------------------------------------------------------------------------
(* Queues: what Append and Tail do to a sequence's elements.               *)

LEMMA AppendFacts ==
  ASSUME NEW S, NEW s \in Seq(S), NEW e \in S
  PROVE  /\ Append(s, e) \in Seq(S)
         /\ Append(s, e) # <<>>
         /\ Range(Append(s, e)) = Range(s) \cup {e}
<1>1. /\ Append(s, e) \in Seq(S) /\ Append(s, e) # <<>>
      /\ Len(Append(s, e)) = Len(s) + 1
      /\ \A i \in 1 .. Len(s) : Append(s, e)[i] = s[i]
      /\ Append(s, e)[Len(s) + 1] = e
  OBVIOUS
<1>2. /\ DOMAIN s = 1 .. Len(s) /\ Len(s) \in Nat
      /\ DOMAIN Append(s, e) = 1 .. Len(s) + 1
  BY <1>1
<1>3. Range(Append(s, e)) \subseteq Range(s) \cup {e}
  BY <1>1, <1>2 DEF Range
<1>4. Range(s) \cup {e} \subseteq Range(Append(s, e))
  BY <1>1, <1>2 DEF Range
<1> QED BY <1>1, <1>3, <1>4

LEMMA TailFacts ==
  ASSUME NEW S, NEW s \in Seq(S), s # <<>>
  PROVE  /\ Head(s) \in S
         /\ Tail(s) \in Seq(S)
         /\ Range(s) = {Head(s)} \cup Range(Tail(s))
<1>1. /\ Head(s) \in S /\ Head(s) = s[1]
      /\ Tail(s) \in Seq(S)
      /\ Len(Tail(s)) = Len(s) - 1
      /\ \A i \in 1 .. Len(Tail(s)) : Tail(s)[i] = s[i + 1]
  BY HeadTailProperties
<1>2. /\ DOMAIN s = 1 .. Len(s) /\ Len(s) \in Nat \ {0}
      /\ DOMAIN Tail(s) = 1 .. Len(s) - 1
  BY <1>1, LenProperties, EmptySeq
<1>3. Range(s) \subseteq {Head(s)} \cup Range(Tail(s))
  <2>1. SUFFICES ASSUME NEW i \in 1 .. Len(s)
                 PROVE  s[i] \in {Head(s)} \cup Range(Tail(s))
    BY <1>2 DEF Range
  <2>2. CASE i = 1
    BY <2>2, <1>1
  <2>3. CASE i # 1
    <3>1. i - 1 \in DOMAIN Tail(s) /\ Tail(s)[i - 1] = s[i]
      BY <2>3, <1>1, <1>2
    <3> QED BY <3>1 DEF Range
  <2> QED BY <2>2, <2>3
<1>4. {Head(s)} \cup Range(Tail(s)) \subseteq Range(s)
  BY <1>1, <1>2 DEF Range
<1> QED BY <1>1, <1>3, <1>4

LEMMA InjectiveOn ==
  ASSUME NEW f, NEW D, DOMAIN f = D,
         \A i, j \in D : f[i] = f[j] => i = j
  PROVE  IsInjective(f)
BY DEF IsInjective

LEMMA AppendDistinct ==
  ASSUME NEW S, NEW s \in Seq(S), NEW e \in S,
         IsInjective(s), e \notin Range(s)
  PROVE  IsInjective(Append(s, e))
<1> DEFINE q == Append(s, e)
<1>1. /\ DOMAIN s = 1 .. Len(s) /\ Len(s) \in Nat
      /\ DOMAIN q = 1 .. Len(s) + 1
      /\ \A i \in 1 .. Len(s) : q[i] = s[i]
      /\ q[Len(s) + 1] = e
  OBVIOUS
<1>2. \A i \in 1 .. Len(s) : s[i] # e
  BY <1>1 DEF Range
<1>3. \A i, j \in 1 .. Len(s) : s[i] = s[j] => i = j
  BY <1>1 DEF IsInjective
<1>4. \A i, j \in 1 .. Len(s) + 1 : q[i] = q[j] => i = j
  BY <1>1, <1>2, <1>3
<1>5. DOMAIN q = 1 .. Len(s) + 1
  BY <1>1
<1> HIDE DEF q
<1>6. IsInjective(q)
  BY <1>4, <1>5, InjectiveOn
<1>7. QED BY <1>6 DEF q

LEMMA TailDistinct ==
  ASSUME NEW S, NEW s \in Seq(S), s # <<>>, IsInjective(s)
  PROVE  /\ IsInjective(Tail(s))
         /\ Head(s) \notin Range(Tail(s))
<1>1. /\ Head(s) = s[1]
      /\ Len(Tail(s)) = Len(s) - 1
      /\ \A i \in 1 .. Len(Tail(s)) : Tail(s)[i] = s[i + 1]
  BY HeadTailProperties
<1>2. /\ DOMAIN s = 1 .. Len(s) /\ Len(s) \in Nat \ {0}
      /\ DOMAIN Tail(s) = 1 .. Len(s) - 1
  BY <1>1, LenProperties, EmptySeq, HeadTailProperties
<1> QED BY <1>1, <1>2 DEF IsInjective, Range

--------------------------------------------------------------------------------
(* Types.                                                                  *)

\* A thread inside generator_emit has built a baton, and the loop is inside an
\* after-work callback only with work that is done and with a count to take it off.
Busy ==
  /\ \A t \in Threads : pc[t] # "idle" => built[t] > 0
  /\ loop = "after" => done # <<>> /\ loopSeen > 0

TypeInv == TypeOK /\ Busy

LEMMA TypeInvariant == Spec => []TypeInv
<1>1. Init => TypeInv
  <2>1. Init => Busy
    BY DEF Init, Busy
  <2>2. <<>> \in Seq(Baton)
    OBVIOUS
  <2>3. Init => /\ pc \in [Threads -> {"idle", "register", "post"}]
                /\ built \in [Threads -> 0 .. MaxEvents]
                /\ seen \in [Threads -> Nat]
                /\ running \in [Workers -> Baton \cup {NoBaton}]
    BY GeneratorAssumption DEF Init
  <2>4. Init => /\ activeReqs \in Nat /\ loopSeen \in Nat
                /\ loop \in {"poll", "after", "exited", "aborted"}
    BY DEF Init
  <2>5. Init => appHandles \in BOOLEAN /\ lost \in BOOLEAN
    BY Zenon DEF Init
  <2>6. Init => pool \in Seq(Baton) /\ done \in Seq(Baton) /\ delivered \in Seq(Baton)
    BY <2>2 DEF Init
  <2> QED BY <2>1, <2>3, <2>4, <2>5, <2>6 DEF TypeInv, TypeOK
<1>2. TypeInv /\ [Next]_vars => TypeInv'
  <2> SUFFICES ASSUME TypeInv, [Next]_vars PROVE TypeInv'
    OBVIOUS
  <2> USE GeneratorAssumption DEF TypeInv, TypeOK, Busy
  <2>1. ASSUME NEW t \in Threads, Emit(t) PROVE TypeInv'
    BY <2>1 DEF Emit
  <2>2. ASSUME NEW t \in Threads, Register(t) PROVE TypeInv'
    BY <2>2 DEF Register
  <2>3. ASSUME NEW t \in Threads, Post(t) PROVE TypeInv'
    <3>1. built[t] \in 0 .. MaxEvents /\ built[t] > 0
      BY <2>3 DEF Post
    <3>2. <<t, built[t]>> \in Baton
      BY <3>1 DEF Baton
    <3> QED BY <2>3, <3>2, AppendFacts DEF Post
  <2>4. ASSUME NEW w \in Workers, Take(w) PROVE TypeInv'
    BY <2>4, TailFacts DEF Take
  <2>5. ASSUME NEW w \in Workers, DelayAsync(w) PROVE TypeInv'
    <3>1. running[w] \in Baton
      BY <2>5 DEF DelayAsync
    <3>2. done' \in Seq(Baton) /\ done' # <<>>
      BY <2>5, <3>1, AppendFacts DEF DelayAsync
    <3> QED BY <2>5, <3>2 DEF DelayAsync
  <2>6. CASE Unregister
    BY <2>6 DEF Unregister
  <2>7. CASE DelayAsyncAfter
    BY <2>7, TailFacts, AppendFacts DEF DelayAsyncAfter
  <2>8. CASE DropHandles
    BY <2>8 DEF DropHandles
  <2>9. CASE Exit
    BY <2>9 DEF Exit
  <2>10. CASE UNCHANGED vars
    BY <2>10 DEF vars
  <2> QED
    BY <2>1, <2>2, <2>3, <2>4, <2>5, <2>6, <2>7, <2>8, <2>9, <2>10
       DEF Next, ThreadStep, WorkerStep, LoopStep
<1> QED BY <1>1, <1>2, PTL DEF Spec

\* The type invariant of the generator.
THEOREM TypeCorrect == Spec => []TypeOK
BY TypeInvariant, PTL DEF TypeInv

--------------------------------------------------------------------------------
(* How the actions that move a baton change the four sets it can be in.    *)

LEMMA PostMoves ==
  ASSUME TypeInv, NEW t \in Threads, Post(t)
  PROVE  /\ <<t, built[t]>> \in Baton
         /\ Queued' = Queued \cup {<<t, built[t]>>}
         /\ Held' = Held /\ Done' = Done /\ Delivered' = Delivered
<1>1. built[t] \in 0 .. MaxEvents /\ built[t] > 0
  BY DEF Post, TypeInv, TypeOK, Busy
<1>2. <<t, built[t]>> \in Baton
  BY <1>1, GeneratorAssumption DEF Baton
<1>3. Queued' = Queued \cup {<<t, built[t]>>}
  <2>1. pool \in Seq(Baton) /\ pool' = Append(pool, <<t, built[t]>>)
    BY DEF Post, TypeInv, TypeOK
  <2> QED BY <2>1, <1>2, AppendFacts DEF Queued
<1>4. Held' = Held /\ Done' = Done /\ Delivered' = Delivered
  BY DEF Post, Held, Done, Delivered
<1> QED BY <1>2, <1>3, <1>4

LEMMA TakeMoves ==
  ASSUME TypeInv, NEW w \in Workers, Take(w)
  PROVE  /\ Head(pool) \in Baton
         /\ Queued = {Head(pool)} \cup Queued'
         /\ Held' = Held \cup {Head(pool)}
         /\ Done' = Done /\ Delivered' = Delivered
<1>1. Head(pool) \in Baton /\ Queued = {Head(pool)} \cup Queued'
  BY TailFacts DEF Take, Queued, TypeInv, TypeOK
<1>2. Held' = Held \cup {Head(pool)}
  BY <1>1, GeneratorAssumption DEF Take, Held, TypeInv, TypeOK
<1>3. Done' = Done /\ Delivered' = Delivered
  BY DEF Take, Done, Delivered
<1> QED BY <1>1, <1>2, <1>3

LEMMA DelayAsyncMoves ==
  ASSUME TypeInv, NEW w \in Workers, DelayAsync(w)
  PROVE  /\ running[w] \in Held
         /\ running[w] \in Baton
         /\ Done' = Done \cup {running[w]}
         /\ Held = Held' \cup {running[w]}
         /\ Queued' = Queued /\ Delivered' = Delivered
<1>1. running[w] \in Baton /\ running[w] \in Held
  BY DEF DelayAsync, Held, TypeInv, TypeOK
<1>2. Done' = Done \cup {running[w]}
  BY <1>1, AppendFacts DEF DelayAsync, Done, TypeInv, TypeOK
<1>3. Held = Held' \cup {running[w]}
  BY <1>1, GeneratorAssumption DEF DelayAsync, Held, TypeInv, TypeOK
<1>4. Queued' = Queued /\ Delivered' = Delivered
  BY DEF DelayAsync, Queued, Delivered
<1> QED BY <1>1, <1>2, <1>3, <1>4

LEMMA DelayAsyncAfterMoves ==
  ASSUME TypeInv, DelayAsyncAfter
  PROVE  /\ Head(done) \in Baton
         /\ done # <<>>
         /\ Done = {Head(done)} \cup Done'
         /\ Delivered' = Delivered \cup {Head(done)}
         /\ Queued' = Queued /\ Held' = Held
<1>1. done # <<>> /\ done \in Seq(Baton) /\ delivered \in Seq(Baton)
  BY DEF DelayAsyncAfter, TypeInv, TypeOK, Busy
<1>2. Head(done) \in Baton /\ Done = {Head(done)} \cup Done'
  BY <1>1, TailFacts DEF DelayAsyncAfter, Done
<1>3. Delivered' = Delivered \cup {Head(done)}
  BY <1>1, <1>2, AppendFacts DEF DelayAsyncAfter, Delivered
<1>4. Queued' = Queued /\ Held' = Held
  BY DEF DelayAsyncAfter, Queued, Held
<1> QED BY <1>1, <1>2, <1>3, <1>4

\* All other steps leave every baton where it is.
Moves == \/ \E t \in Threads : Post(t)
         \/ \E w \in Workers : Take(w) \/ DelayAsync(w)
         \/ DelayAsyncAfter

LEMMA OthersMoveNothing ==
  ASSUME [Next]_vars, ~Moves
  PROVE  UNCHANGED <<pool, running, done, delivered>>
BY DEF Moves, Next, ThreadStep, WorkerStep, LoopStep, vars, Emit, Register,
       Unregister, DropHandles, Exit

--------------------------------------------------------------------------------
(* No baton is in two places, and none is there before it is posted.       *)

OnePlace ==
  /\ IsInjective(pool) /\ IsInjective(done)
  /\ \A v, w \in Workers :
       running[v] # NoBaton /\ running[v] = running[w] => v = w
  /\ Queued \cap Held = {} /\ Queued \cap Done = {} /\ Held \cap Done = {}
  /\ Delivered \cap InFlight = {}

\* The batons a thread has posted: it posts the one it built last only when it
\* returns from generator_emit.
Posted ==
  {b \in Baton : /\ b[2] <= built[b[1]]
                 /\ b[2] = built[b[1]] => pc[b[1]] = "idle"}

OnlyPosted == InFlight \cup Delivered \subseteq Posted

IInv == TypeInv /\ OnePlace /\ OnlyPosted

LEMMA PostedGrows ==
  ASSUME TypeInv, [Next]_vars
  PROVE  Posted \subseteq Posted'
<1>1. ASSUME NEW t \in Threads, Emit(t) PROVE Posted \subseteq Posted'
  BY <1>1 DEF Emit, Posted, TypeInv, TypeOK, Baton
<1>2. ASSUME NEW t \in Threads, Register(t) PROVE Posted \subseteq Posted'
  BY <1>2 DEF Register, Posted, TypeInv, TypeOK, Baton
<1>3. ASSUME NEW t \in Threads, Post(t) PROVE Posted \subseteq Posted'
  BY <1>3 DEF Post, Posted, TypeInv, TypeOK, Baton
<1>4. CASE UNCHANGED <<pc, built>>
  BY <1>4 DEF Posted
<1> QED
  BY <1>1, <1>2, <1>3, <1>4
     DEF Next, ThreadStep, WorkerStep, LoopStep, vars, Take, DelayAsync,
         Unregister, DelayAsyncAfter, DropHandles, Exit

LEMMA PostIsFresh ==
  ASSUME TypeInv, OnlyPosted, NEW t \in Threads, Post(t)
  PROVE  /\ <<t, built[t]>> \notin InFlight \cup Delivered
         /\ <<t, built[t]>> \in Posted'
<1>1. <<t, built[t]>> \notin Posted
  BY DEF Post, Posted
<1>2. pc'[t] = "idle" /\ built' = built /\ built[t] <= built[t]
  BY DEF Post, TypeInv, TypeOK
<1>3. <<t, built[t]>> \in Posted'
  BY <1>2, PostMoves DEF Posted
<1> QED BY <1>1, <1>3 DEF OnlyPosted

LEMMA OnlyPostedStep ==
  ASSUME TypeInv, OnlyPosted, [Next]_vars
  PROVE  OnlyPosted'
<1>1. ASSUME NEW t \in Threads, Post(t) PROVE OnlyPosted'
  BY <1>1, PostMoves, PostIsFresh, PostedGrows DEF OnlyPosted, InFlight
<1>2. ASSUME NEW w \in Workers, Take(w) PROVE OnlyPosted'
  BY <1>2, TakeMoves, PostedGrows DEF OnlyPosted, InFlight
<1>3. ASSUME NEW w \in Workers, DelayAsync(w) PROVE OnlyPosted'
  BY <1>3, DelayAsyncMoves, PostedGrows DEF OnlyPosted, InFlight
<1>4. CASE DelayAsyncAfter
  BY <1>4, DelayAsyncAfterMoves, PostedGrows DEF OnlyPosted, InFlight
<1>5. CASE ~Moves
  BY <1>5, OthersMoveNothing, PostedGrows
     DEF OnlyPosted, InFlight, Queued, Held, Done, Delivered
<1> QED BY <1>1, <1>2, <1>3, <1>4, <1>5 DEF Moves

LEMMA OnePlaceStep ==
  ASSUME TypeInv, OnePlace, OnlyPosted, [Next]_vars
  PROVE  OnePlace'
<1>1. ASSUME NEW t \in Threads, Post(t) PROVE OnePlace'
  <2>1. IsInjective(pool)'
    <3>1. pool \in Seq(Baton) /\ pool' = Append(pool, <<t, built[t]>>)
      BY <1>1 DEF Post, TypeInv, TypeOK
    <3>2. <<t, built[t]>> \notin Range(pool)
      BY <1>1, PostIsFresh DEF InFlight, Queued
    <3> QED BY <1>1, <3>1, <3>2, PostMoves, AppendDistinct DEF OnePlace
  <2>2. UNCHANGED <<running, done>>
    BY <1>1 DEF Post
  <2> QED BY <1>1, <2>1, <2>2, PostMoves, PostIsFresh DEF OnePlace, InFlight
<1>2. ASSUME NEW w \in Workers, Take(w) PROVE OnePlace'
  <2>1. IsInjective(pool)' /\ Head(pool) \notin Queued'
    BY <1>2, TailDistinct DEF Take, OnePlace, Queued, TypeInv, TypeOK
  <2>2. \A v, u \in Workers :
          running'[v] # NoBaton /\ running'[v] = running'[u] => v = u
    <3>1. \A v \in Workers : running[v] # Head(pool)
      BY <1>2, TakeMoves, GeneratorAssumption DEF OnePlace, Held
    <3> QED BY <1>2, <3>1 DEF Take, OnePlace, TypeInv, TypeOK
  <2>3. done' = done
    BY <1>2 DEF Take
  <2> QED BY <1>2, <2>1, <2>2, <2>3, TakeMoves DEF OnePlace, InFlight
<1>3. ASSUME NEW w \in Workers, DelayAsync(w) PROVE OnePlace'
  <2>1. IsInjective(done)'
    <3>1. done \in Seq(Baton) /\ done' = Append(done, running[w])
      BY <1>3 DEF DelayAsync, TypeInv, TypeOK
    <3>2. running[w] \notin Range(done)
      BY <1>3, DelayAsyncMoves DEF OnePlace, Done
    <3> QED BY <1>3, <3>1, <3>2, DelayAsyncMoves, AppendDistinct DEF OnePlace
  <2>2. \A v, u \in Workers :
          running'[v] # NoBaton /\ running'[v] = running'[u] => v = u
    BY <1>3 DEF DelayAsync, OnePlace, TypeInv, TypeOK
  <2>3. running[w] \notin Held'
    BY <1>3 DEF DelayAsync, OnePlace, Held, TypeInv, TypeOK
  <2>4. pool' = pool
    BY <1>3 DEF DelayAsync
  <2> QED BY <1>3, <2>1, <2>2, <2>3, <2>4, DelayAsyncMoves DEF OnePlace, InFlight
<1>4. CASE DelayAsyncAfter
  <2>1. IsInjective(done)' /\ Head(done) \notin Done'
    BY <1>4, DelayAsyncAfterMoves, TailDistinct
       DEF DelayAsyncAfter, OnePlace, Done, TypeInv, TypeOK
  <2>2. UNCHANGED <<pool, running>>
    BY <1>4 DEF DelayAsyncAfter
  <2> QED BY <1>4, <2>1, <2>2, DelayAsyncAfterMoves DEF OnePlace, InFlight
<1>5. CASE ~Moves
  BY <1>5, OthersMoveNothing
     DEF OnePlace, InFlight, Queued, Held, Done, Delivered
<1> QED BY <1>1, <1>2, <1>3, <1>4, <1>5 DEF Moves

LEMMA EmptyRange == Range(<<>>) = {} /\ IsInjective(<<>>)
BY DEF Range, IsInjective

LEMMA Invariant == Spec => []IInv
<1>1. Init => OnePlace /\ OnlyPosted
  BY EmptyRange
     DEF Init, OnePlace, OnlyPosted, InFlight, Queued, Held, Done, Delivered
<1>2. TypeInv /\ OnePlace /\ OnlyPosted /\ [Next]_vars
        => OnePlace' /\ OnlyPosted'
  BY OnePlaceStep, OnlyPostedStep
<1> QED BY <1>1, <1>2, TypeInvariant, PTL DEF Spec, IInv

--------------------------------------------------------------------------------
(* The generator implements the event stream.                              *)

\* Whatever the interleaving of the client threads, the pool and the loop, each
\* event that generator_emit takes is delivered at most once and is not lost.
THEOREM Implementation == Spec => ImplementsStream
<1>1. Init => Stream!Init
  BY EmptyRange
     DEF Init, Stream!Init, InFlight, Queued, Held, Done, Delivered
<1>2. IInv /\ [Next]_vars => [Stream!Next]_(Stream!vars)
  <2> SUFFICES ASSUME IInv, [Next]_vars PROVE [Stream!Next]_(Stream!vars)
    OBVIOUS
  <2> USE DEF IInv
  <2>1. ASSUME NEW t \in Threads, Post(t) PROVE Stream!Emit(<<t, built[t]>>)
    BY <2>1, PostMoves, PostIsFresh DEF Stream!Emit, InFlight
  <2>2. ASSUME NEW w \in Workers, Take(w) PROVE UNCHANGED Stream!vars
    BY <2>2, TakeMoves DEF Stream!vars, InFlight
  <2>3. ASSUME NEW w \in Workers, DelayAsync(w) PROVE UNCHANGED Stream!vars
    BY <2>3, DelayAsyncMoves DEF Stream!vars, InFlight
  <2>4. CASE DelayAsyncAfter
    <3>1. Head(done) \notin Done'
      BY <2>4, DelayAsyncAfterMoves, TailDistinct
         DEF DelayAsyncAfter, OnePlace, Done, TypeInv, TypeOK
    <3>2. Stream!Deliver(Head(done))
      BY <2>4, <3>1, DelayAsyncAfterMoves DEF Stream!Deliver, InFlight, OnePlace
    <3> QED BY <2>4, <3>2, DelayAsyncAfterMoves DEF Stream!Next
  <2>5. CASE ~Moves
    BY <2>5, OthersMoveNothing
       DEF Stream!vars, InFlight, Queued, Held, Done, Delivered
  <2> QED BY <2>1, <2>2, <2>3, <2>4, <2>5, PostMoves DEF Moves, Stream!Next
<1> QED BY <1>1, <1>2, Invariant, PTL DEF Spec, Stream!Spec, ImplementsStream

--------------------------------------------------------------------------------
(* The count of requests.                                                  *)

\* As long as no write of the count has overtaken another one, it is the number
\* of batons that are registered and not delivered.
CountInv ==
  /\ IsFiniteSet(Registered)
  /\ ~lost => activeReqs = Cardinality(Registered)
  /\ ~lost => loop # "aborted" /\ (loop = "exited" => Registered = {})

Posting == {<<t, built[t]>> : t \in {u \in Threads : pc[u] = "post"}}

LEMMA PostingApart ==
  ASSUME IInv
  PROVE  Posting \cap InFlight = {}
BY DEF IInv, OnlyPosted, Posting, Posted

LEMMA CountInvHolds == Spec => []CountInv
<1>1. Init => CountInv
  <2> SUFFICES ASSUME Init PROVE CountInv
    OBVIOUS
  <2>1. Registered = {}
    BY EmptyRange DEF Init, Registered, InFlight, Queued, Held, Done
  <2> QED BY <2>1, FS_EmptySet DEF Init, CountInv
<1>2. IInv /\ CountInv /\ [Next]_vars => CountInv'
  <2> SUFFICES ASSUME IInv, CountInv, [Next]_vars PROVE CountInv'
    OBVIOUS
  <2> USE DEF IInv
  <2>0. Registered = InFlight \cup Posting /\ Registered' = InFlight' \cup Posting'
    BY DEF Registered, Posting
  <2>1. ASSUME NEW t \in Threads, Emit(t) PROVE CountInv'
    <3>1. Posting' = Posting
      BY <2>1 DEF Emit, Posting, TypeInv, TypeOK
    <3>2. InFlight' = InFlight
      BY <2>1 DEF Emit, InFlight, Queued, Held, Done
    <3> QED BY <2>0, <2>1, <3>1, <3>2 DEF Emit, CountInv
  <2>2. ASSUME NEW t \in Threads, Register(t) PROVE CountInv'
    <3> DEFINE b == <<t, built[t]>>
    <3>1. Posting' = Posting \cup {b}
      BY <2>2 DEF Register, Posting, TypeInv, TypeOK
    <3>2. InFlight' = InFlight
      BY <2>2 DEF Register, InFlight, Queued, Held, Done
    <3>3. b \notin Registered
      BY <2>0, <2>2 DEF Register, Posting, OnlyPosted, Posted
    <3>4. Registered' = Registered \cup {b}
      BY <2>0, <3>1, <3>2
    <3>5. /\ IsFiniteSet(Registered')
          /\ Cardinality(Registered') = Cardinality(Registered) + 1
      BY <3>3, <3>4, FS_AddElement DEF CountInv
    <3>6. loop' = loop /\ loop # "exited"
      BY <2>2 DEF Register, Alive
    <3>7. ~lost' => ~lost /\ activeReqs' = activeReqs + 1
      BY <2>2 DEF Register, TypeInv, TypeOK
    <3> QED BY <3>5, <3>6, <3>7 DEF CountInv
  <2>3. ASSUME NEW t \in Threads, Post(t) PROVE CountInv'
    <3>1. <<t, built[t]>> \in Posting
      BY <2>3 DEF Post, Posting
    <3>2. Posting \subseteq Posting' \cup {<<t, built[t]>>} /\ Posting' \subseteq Posting
      BY <2>3 DEF Post, Posting, TypeInv, TypeOK
    <3>3. InFlight' = InFlight \cup {<<t, built[t]>>}
      BY <2>3, PostMoves DEF InFlight
    <3>4. Registered' = Registered
      BY <2>0, <3>1, <3>2, <3>3
    <3> QED BY <2>3, <3>4 DEF Post, CountInv
  <2>4. ASSUME NEW w \in Workers, Take(w) PROVE CountInv'
    <3>1. InFlight' = InFlight
      BY <2>4, TakeMoves DEF InFlight
    <3>2. Posting' = Posting
      BY <2>4 DEF Take, Posting
    <3> QED BY <2>0, <2>4, <3>1, <3>2 DEF Take, CountInv
  <2>5. ASSUME NEW w \in Workers, DelayAsync(w) PROVE CountInv'
    <3>1. InFlight' = InFlight
      BY <2>5, DelayAsyncMoves DEF InFlight
    <3>2. Posting' = Posting
      BY <2>5 DEF DelayAsync, Posting
    <3> QED BY <2>0, <2>5, <3>1, <3>2 DEF DelayAsync, CountInv
  <2>6. CASE Unregister
    <3>1. Registered' = Registered
      BY <2>6 DEF Unregister, Registered, InFlight, Queued, Held, Done
    <3>2. Head(done) \in Registered
      BY <2>6, TailFacts DEF Unregister, Registered, InFlight, Done, TypeInv, TypeOK
    <3>3. ~lost => activeReqs # 0
      BY <3>2, FS_EmptySet DEF CountInv
    <3> QED BY <2>6, <3>1, <3>3 DEF Unregister, CountInv
  <2>7. CASE DelayAsyncAfter
    <3>1. /\ Head(done) \in Done /\ Head(done) \notin Done'
          /\ Done = {Head(done)} \cup Done'
          /\ Queued' = Queued /\ Held' = Held
      BY <2>7, DelayAsyncAfterMoves, TailDistinct
         DEF DelayAsyncAfter, OnePlace, Done, TypeInv, TypeOK
    <3>2. InFlight' = InFlight \ {Head(done)} /\ Head(done) \in InFlight
      BY <3>1 DEF InFlight, OnePlace
    <3>3. Posting' = Posting
      BY <2>7 DEF DelayAsyncAfter, Posting
    <3>4. Registered' = Registered \ {Head(done)} /\ Head(done) \in Registered
      BY <2>0, <3>2, <3>3, PostingApart
    <3>5. /\ IsFiniteSet(Registered')
          /\ Cardinality(Registered') = Cardinality(Registered) - 1
      BY <3>4, FS_RemoveElement DEF CountInv
    <3>6. ~lost' => ~lost /\ activeReqs' = activeReqs - 1
      BY <2>7 DEF DelayAsyncAfter, TypeInv, TypeOK
    <3>7. loop' = "poll"
      BY <2>7 DEF DelayAsyncAfter
    <3> QED BY <3>5, <3>6, <3>7 DEF CountInv
  <2>8. CASE DropHandles \/ Exit \/ UNCHANGED vars
    <3>1. Registered' = Registered /\ lost' = lost /\ activeReqs' = activeReqs
      BY <2>8 DEF DropHandles, Exit, vars, Registered, InFlight, Queued, Held, Done
    <3>2. CASE Exit
      <4>1. ~lost => Registered = {}
        BY <3>2, FS_EmptySet DEF Exit, CountInv
      <4> QED BY <3>1, <3>2, <4>1 DEF Exit, CountInv
    <3>3. CASE DropHandles \/ UNCHANGED vars
      BY <3>1, <3>3 DEF DropHandles, vars, CountInv
    <3> QED BY <2>8, <3>2, <3>3
  <2> QED
    BY <2>1, <2>2, <2>3, <2>4, <2>5, <2>6, <2>7, <2>8
       DEF Next, ThreadStep, WorkerStep, LoopStep
<1> QED BY <1>1, <1>2, Invariant, PTL DEF Spec

\* Without an overtaken write of the count, libuv neither aborts the process nor
\* leaves its loop with an event on the way.
THEOREM LossNeedsTheRace == Spec => []LossOnlyRaced
BY CountInvHolds, PTL DEF CountInv, LossOnlyRaced

--------------------------------------------------------------------------------
(* With one worker, each place a baton goes through holds a session's      *)
(* earlier batons than the place before it.                                *)

OneWorker == \A v, w \in Workers : v = w

Precedes(a, b) == a[1] = b[1] => a[2] < b[2]
Before(A, B) == \A a \in A, b \in B : Precedes(a, b)
Sorted(s) == \A i, j \in DOMAIN s : i < j => Precedes(s[i], s[j])

Pipeline ==
  /\ Sorted(pool) /\ Sorted(done) /\ Sorted(delivered)
  /\ Before(Held, Queued)
  /\ Before(Done, Queued) /\ Before(Done, Held)
  /\ Before(Delivered, Queued) /\ Before(Delivered, Held)
  /\ Before(Delivered, Done)

LEMMA SortedAppend ==
  ASSUME NEW s \in Seq(Baton), NEW e \in Baton,
         Sorted(s), Before(Range(s), {e})
  PROVE  Sorted(Append(s, e))
<1> DEFINE q == Append(s, e)
<1>1. /\ DOMAIN s = 1 .. Len(s) /\ Len(s) \in Nat
      /\ DOMAIN q = 1 .. Len(s) + 1
      /\ \A i \in 1 .. Len(s) : q[i] = s[i]
      /\ q[Len(s) + 1] = e
  OBVIOUS
<1>2. \A i \in 1 .. Len(s) : Precedes(s[i], e)
  BY <1>1 DEF Range, Before
<1> HIDE DEF q
<1>3. \A i, j \in DOMAIN q : i < j => Precedes(q[i], q[j])
  <2> SUFFICES ASSUME NEW i \in DOMAIN q, NEW j \in DOMAIN q, i < j
               PROVE  Precedes(q[i], q[j])
    OBVIOUS
  <2>1. i \in 1 .. Len(s) /\ q[i] = s[i]
    BY <1>1
  <2>2. CASE j = Len(s) + 1
    BY <2>1, <2>2, <1>1, <1>2
  <2>3. CASE j # Len(s) + 1
    <3>1. j \in 1 .. Len(s) /\ q[j] = s[j]
      BY <2>3, <1>1
    <3> QED BY <2>1, <3>1, <1>1 DEF Sorted
  <2> QED BY <2>2, <2>3
<1> QED BY <1>3 DEF Sorted, q

LEMMA SortedTail ==
  ASSUME NEW s \in Seq(Baton), s # <<>>, Sorted(s)
  PROVE  /\ Sorted(Tail(s))
         /\ Before({Head(s)}, Range(Tail(s)))
<1> DEFINE q == Tail(s)
<1>1. /\ Head(s) = s[1]
      /\ Len(q) = Len(s) - 1
      /\ \A i \in 1 .. Len(q) : q[i] = s[i + 1]
  BY HeadTailProperties
<1>2. /\ DOMAIN s = 1 .. Len(s) /\ Len(s) \in Nat \ {0}
      /\ DOMAIN q = 1 .. Len(s) - 1
  BY <1>1, LenProperties, EmptySeq, HeadTailProperties
<1> HIDE DEF q
<1>3. \A i \in DOMAIN q : i + 1 \in DOMAIN s /\ 1 \in DOMAIN s /\ 1 < i + 1
  BY <1>2
<1>4. Sorted(q)
  BY <1>1, <1>2, <1>3 DEF Sorted
<1>5. \A i \in DOMAIN q : Precedes(s[1], q[i])
  BY <1>1, <1>2, <1>3 DEF Sorted
<1>6. Before({Head(s)}, Range(q))
  BY <1>1, <1>5 DEF Range, Before
<1> QED BY <1>4, <1>6 DEF q

LEMMA PostIsLast ==
  ASSUME TypeInv, OnlyPosted, NEW t \in Threads, Post(t)
  PROVE  Before(InFlight \cup Delivered, {<<t, built[t]>>})
<1>1. \A b \in Posted : Precedes(b, <<t, built[t]>>)
  <2> SUFFICES ASSUME NEW b \in Posted, b[1] = t
               PROVE  b[2] < built[t]
    BY DEF Precedes
  <2>1. b[2] <= built[t] /\ b[2] # built[t]
    BY DEF Posted, Post
  <2>2. b[2] \in Int /\ built[t] \in Int
    BY GeneratorAssumption DEF Posted, Baton, TypeInv, TypeOK
  <2> QED BY <2>1, <2>2
<1> QED BY <1>1 DEF OnlyPosted, Before

LEMMA PipelineStep ==
  ASSUME OneWorker, IInv, Pipeline, [Next]_vars
  PROVE  Pipeline'
<1> USE DEF IInv
<1>1. ASSUME NEW t \in Threads, Post(t) PROVE Pipeline'
  <2>1. Before(InFlight \cup Delivered, {<<t, built[t]>>})
    BY <1>1, PostIsLast
  <2>2. Sorted(pool)'
    <3>1. pool \in Seq(Baton) /\ pool' = Append(pool, <<t, built[t]>>)
      BY <1>1 DEF Post, TypeInv, TypeOK
    <3>2. Before(Range(pool), {<<t, built[t]>>})
      BY <2>1 DEF Before, InFlight, Queued
    <3> QED BY <1>1, <3>1, <3>2, PostMoves, SortedAppend DEF Pipeline
  <2>3. done' = done /\ delivered' = delivered
    BY <1>1 DEF Post
  <2> QED BY <1>1, <2>1, <2>2, <2>3, PostMoves DEF Pipeline, Before, InFlight
<1>2. ASSUME NEW w \in Workers, Take(w) PROVE Pipeline'
  <2>1. Sorted(pool)' /\ Before({Head(pool)}, Queued')
    BY <1>2, SortedTail DEF Take, Pipeline, Queued, TypeInv, TypeOK
  <2>2. Held = {}
    BY <1>2 DEF Take, Held, OneWorker
  <2>3. done' = done /\ delivered' = delivered
    BY <1>2 DEF Take
  <2> QED BY <1>2, <2>1, <2>2, <2>3, TakeMoves DEF Pipeline, Before
<1>3. ASSUME NEW w \in Workers, DelayAsync(w) PROVE Pipeline'
  <2>1. Sorted(done)'
    <3>1. done \in Seq(Baton) /\ done' = Append(done, running[w])
      BY <1>3 DEF DelayAsync, TypeInv, TypeOK
    <3>2. Before(Range(done), {running[w]})
      BY <1>3, DelayAsyncMoves DEF Pipeline, Before, Done
    <3> QED BY <1>3, <3>1, <3>2, DelayAsyncMoves, SortedAppend DEF Pipeline
  <2>2. Held' = {}
    BY <1>3 DEF DelayAsync, Held, OneWorker, TypeInv, TypeOK
  <2>3. pool' = pool /\ delivered' = delivered
    BY <1>3 DEF DelayAsync
  <2> QED BY <1>3, <2>1, <2>2, <2>3, DelayAsyncMoves DEF Pipeline, Before
<1>4. CASE DelayAsyncAfter
  <2>1. Sorted(done)' /\ Before({Head(done)}, Done')
    BY <1>4, DelayAsyncAfterMoves, SortedTail
       DEF DelayAsyncAfter, Pipeline, Done, TypeInv, TypeOK
  <2>2. Sorted(delivered)'
    <3>1. delivered \in Seq(Baton) /\ delivered' = Append(delivered, Head(done))
      BY <1>4 DEF DelayAsyncAfter, TypeInv, TypeOK
    <3>2. Before(Range(delivered), {Head(done)})
      BY <1>4, DelayAsyncAfterMoves DEF Pipeline, Before, Delivered
    <3> QED BY <1>4, <3>1, <3>2, DelayAsyncAfterMoves, SortedAppend DEF Pipeline
  <2>3. pool' = pool
    BY <1>4 DEF DelayAsyncAfter
  <2> QED BY <1>4, <2>1, <2>2, <2>3, DelayAsyncAfterMoves DEF Pipeline, Before
<1>5. CASE ~Moves
  BY <1>5, OthersMoveNothing DEF Pipeline, Queued, Held, Done, Delivered
<1> QED BY <1>1, <1>2, <1>3, <1>4, <1>5 DEF Moves

\* When the pool has one thread, the callback gets the events of a session in
\* the order in which the session's client thread emitted them.
THEOREM FifoDelivery == ASSUME OneWorker PROVE Spec => []InOrder
<1>1. Init => Pipeline
  BY EmptyRange
     DEF Init, Pipeline, Sorted, Before, Queued, Held, Done, Delivered
<1>2. IInv /\ Pipeline /\ [Next]_vars => Pipeline'
  BY OneWorker, PipelineStep
<1>3. Pipeline => InOrder
  BY DEF Pipeline, Sorted, Precedes, InOrder
<1> QED BY <1>1, <1>2, <1>3, Invariant, PTL DEF Spec
================================================================================
