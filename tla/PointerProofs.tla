------------------------------ MODULE PointerProofs ------------------------------
(***************************************************************************)
(* Proofs about Pointer: for any cache, any number of shapes and buffers,  *)
(* and any interleaving of the server's updates with the deliveries.       *)
(***************************************************************************)
EXTENDS Pointer, TLAPS

-----------------------------------------------------------------------------
(* The inductive invariant. *)

\* The client thread's place says what the pointer at hand is: a shape newer
\* than the cached ones until it is put into the cache, then one of them.
PlaceInv ==
  /\ client = "idle" => pointer = {}
  /\ client \in {"copy", "new"} => \A p \in pointer : p.buffer = {}
  /\ client \in {"copy", "new", "put"} =>
       /\ \A p \in pointer : p.shape = shapes
       /\ \A s \in Slots : \A q \in cache[s] : q.shape < shapes
  /\ \A s \in Slots : \A q \in cache[s] : q.shape <= shapes
  /\ client = "set" => \A p \in pointer : p \in cache[p.slot]
  /\ \A p, q \in pointer : p = q
  /\ \A s \in Slots : \A q \in cache[s] : q.slot = s

\* As long as no pointer was allocated too early, every pointer has the whole
\* prototype and, when New has been called, a buffer.
PartsInv ==
  ~raced =>
    /\ ~crashed
    /\ client = "copy" => prototype = Parts /\ \A p \in pointer : p.parts = {"size"}
    /\ client \in {"new", "put", "set"} => \A p \in pointer : p.parts = Parts
    /\ client \in {"put", "set"} => \A p \in pointer : p.buffer # {}
    /\ \A s \in Slots : \A q \in cache[s] : q.parts = Parts /\ q.buffer # {}

\* What may be in a buffer that belongs to a shape: the shape, or nothing of use
\* if it could not be converted or its pointer was allocated too early.
Content(v, shape) == v = shape \/ (v = Garbage /\ (shape \in failed \/ raced))

ContentInv ==
  /\ \A p \in Pointers : \A c \in p.buffer : Content(heap[c], p.shape)
  /\ \A e \in wire : Content(heap[e.buffer], e.shape)

\* Events are numbered in the order in which they were emitted.
NumberInv ==
  /\ \A e, f \in wire : e # f => e.number # f.number
  /\ \A e \in wire : e.number <= shapes + sets
  /\ client # "idle" => \A e \in wire : e.number < shapes + sets

\* The last event on the wire, or else the cursor, is about the current shape.
LastInv ==
  (~raced /\ ~overtaken /\ current # System) =>
    \/ wire = {} /\ cursor.meant = current
    \/ \E e \in wire : e.shape = current /\ \A f \in wire : f.number <= e.number

PointerInv == /\ TypeOK /\ PlaceInv /\ PartsInv /\ BuffersOwned /\ ContentInv
              /\ CursorIsAShape /\ NumberInv /\ LastInv

-----------------------------------------------------------------------------
(* Lemmas. *)

\* Where the pointers are that own a buffer.
LEMMA PointersAre ==
  /\ \A p : p \in Pointers <=> (\E s \in Slots : p \in cache[s]) \/ (client = "put" /\ p \in pointer)
  /\ \A p : p \in Pointers' <=> (\E s \in Slots : p \in cache'[s]) \/ (client' = "put" /\ p \in pointer')
BY DEF Pointers, Made

\* They are records, and no free buffer is in one of them.
LEMMA PointersType ==
  ASSUME TypeOK
  PROVE  Pointers \subseteq Record
BY PointersAre DEF TypeOK

LEMMA InitInv == Init => PointerInv
<1> SUFFICES ASSUME Init PROVE PointerInv
  OBVIOUS
<1>1. TypeOK
  <2>1. cursor \in [shown : Shape \cup {System, Garbage}, meant : Shape \cup {System}]
    BY DEF Init
  <2>2. heap \in [Cells -> Shape \cup {Free, Garbage}] /\ cache \in [Slots -> SUBSET Record]
    BY DEF Init
  <2>3. /\ shapes \in 0 .. MaxShapes /\ sets \in 0 .. MaxSets /\ wire \subseteq Event
        /\ pointer \subseteq Record /\ prototype \subseteq Parts /\ failed \subseteq Shape
        /\ current \in Shape \cup {System}
    BY PointerAssumption DEF Init
  <2>4. client = "idle" /\ ~raced /\ ~overtaken /\ ~crashed
        /\ raced \in BOOLEAN /\ overtaken \in BOOLEAN /\ crashed \in BOOLEAN
    BY DEF Init
  <2> QED BY <2>1, <2>2, <2>3, <2>4 DEF TypeOK
<1>2. Pointers = {} /\ \A c \in Cells : heap[c] = Free
  BY PointersAre DEF Init
<1>3. BuffersOwned /\ ContentInv
  BY <1>2 DEF Init, BuffersOwned, Owned, ContentInv
<1>4. PlaceInv /\ PartsInv
  BY DEF Init, PlaceInv, PartsInv
<1>5. NumberInv /\ LastInv /\ CursorIsAShape
  BY DEF Init, NumberInv, LastInv, CursorIsAShape
<1> QED BY <1>1, <1>3, <1>4, <1>5 DEF PointerInv

LEMMA RegisterPointerKeeps ==
  ASSUME PointerInv, NEW part \in Parts, RegisterPointer(part)
  PROVE  PointerInv'
<1> USE DEF RegisterPointer
<1>1. Pointers' = Pointers
  BY DEF Pointers, Made
<1>2. TypeOK' /\ PlaceInv' /\ NumberInv' /\ LastInv' /\ CursorIsAShape'
  BY DEF PointerInv, TypeOK, PlaceInv, NumberInv, LastInv, CursorIsAShape
<1>3. BuffersOwned' /\ ContentInv'
  BY <1>1 DEF PointerInv, BuffersOwned, Owned, ContentInv, Content
<1>4. PartsInv'
  BY DEF PointerInv, PartsInv
<1> QED BY <1>2, <1>3, <1>4 DEF PointerInv

LEMMA DeliverPointerKeeps ==
  ASSUME PointerInv, NEW e \in wire, DeliverPointer(e)
  PROVE  PointerInv'
<1> USE DEF PointerInv
<1>0. /\ e \in Event /\ wire' = wire \ {e} /\ heap' = [heap EXCEPT ![e.buffer] = Free]
      /\ cursor' = [shown |-> heap[e.buffer], meant |-> e.shape]
      /\ heap \in [Cells -> Shape \cup {Free, Garbage}]
  BY DEF TypeOK, DeliverPointer
<1>1. Pointers' = Pointers
  BY DEF Pointers, Made, DeliverPointer
<1>2. TypeOK'
  <2>1. cursor' \in [shown : Shape \cup {System, Garbage}, meant : Shape \cup {System}]
    BY <1>0 DEF Event, Free, System
  <2>2. heap' \in [Cells -> Shape \cup {Free, Garbage}]
    BY <1>0 DEF Event
  <2> QED BY <2>1, <2>2 DEF TypeOK, DeliverPointer
<1>3. PlaceInv' /\ PartsInv'
  BY DEF PlaceInv, PartsInv, DeliverPointer
<1>4. BuffersOwned'
  <2>1. \A c \in Cells : Owned(c)' <=> Owned(c) /\ c # e.buffer
    BY <1>0, <1>1 DEF Owned, BuffersOwned
  <2>2. \A c \in Cells : heap'[c] # Free <=> heap[c] # Free /\ c # e.buffer
    BY <1>0
  <2> QED BY <1>0, <1>1, <2>1, <2>2 DEF BuffersOwned, DeliverPointer
<1>5. ContentInv'
  <2>1. \A p \in Pointers : \A c \in p.buffer : c \in Cells /\ c # e.buffer
    BY <1>0, PointersType DEF BuffersOwned, Record
  <2>2. \A f \in wire : f # e => f.buffer \in Cells /\ f.buffer # e.buffer
    BY DEF BuffersOwned, TypeOK, Event
  <2>3. \A c \in Cells : c # e.buffer => heap'[c] = heap[c]
    BY <1>0
  <2> QED BY <1>0, <1>1, <2>1, <2>2, <2>3 DEF ContentInv, Content, DeliverPointer
<1>6. CursorIsAShape'
  BY <1>0 DEF ContentInv, Content, CursorIsAShape, DeliverPointer
<1>7. NumberInv'
  BY <1>0 DEF NumberInv, DeliverPointer
<1>8. LastInv'
  <2> SUFFICES ASSUME ~raced', ~overtaken', current' # System
               PROVE  \/ wire' = {} /\ cursor'.meant = current'
                      \/ \E g \in wire' : g.shape = current' /\ \A f \in wire' : f.number <= g.number
    BY DEF LastInv
  <2>1. ~raced /\ ~overtaken /\ current # System /\ current' = current
    BY DEF DeliverPointer
  <2>2. PICK g \in wire : g.shape = current /\ \A f \in wire : f.number <= g.number
    BY <2>1 DEF LastInv
  <2>3. \A f \in wire : ~(f.number < e.number)
    BY DEF DeliverPointer
  <2>4. CASE g = e
    <3>1. \A f \in wire : f = e
      BY <2>2, <2>3, <2>4 DEF NumberInv, TypeOK, Event
    <3> QED BY <1>0, <2>1, <2>2, <2>4, <3>1
  <2>5. CASE g # e
    BY <1>0, <2>1, <2>2, <2>5
  <2> QED BY <2>4, <2>5
<1> QED BY <1>2, <1>3, <1>4, <1>5, <1>6, <1>7, <1>8

LEMMA AllocPointerKeeps ==
  ASSUME PointerInv, NEW slot \in Slots, AllocPointer(slot)
  PROVE  PointerInv'
<1> USE DEF PointerInv
<1> DEFINE new == [slot |-> slot, shape |-> shapes + 1, buffer |-> {},
                   parts |-> prototype \cap {"size"}]
<1>0. /\ pointer' = {new} /\ client = "idle" /\ client' = "copy" /\ shapes' = shapes + 1
      /\ cache' = cache /\ new \in Record /\ shapes \in Nat /\ sets \in Nat
      /\ shapes + 1 \in 0 .. MaxShapes
  BY PointerAssumption DEF AllocPointer, TypeOK, Record, Shape, Parts
<1>1. Pointers' = Pointers
  BY <1>0 DEF Pointers, Made
<1>2. TypeOK'
  BY <1>0 DEF TypeOK, AllocPointer
<1>3. PlaceInv'
  <2>1. \A s \in Slots : \A q \in cache[s] : q.shape < shapes' /\ q.shape <= shapes'
    <3>1. \A s \in Slots : \A q \in cache[s] : q \in Record /\ q.shape <= shapes
      BY DEF PlaceInv, TypeOK
    <3> QED BY <1>0, <3>1 DEF Record, Shape
  <2> QED BY <1>0, <2>1 DEF PlaceInv
<1>4. PartsInv'
  <2> SUFFICES ASSUME ~raced' PROVE PartsInv'
    BY DEF PartsInv
  <2>1. ~raced /\ prototype = Parts /\ prototype' = Parts
    BY DEF AllocPointer, TypeOK
  <2>2. prototype \cap {"size"} = {"size"}
    BY <2>1 DEF Parts
  <2>3. new.parts = {"size"}
    BY <2>2
  <2> QED BY <1>0, <2>1, <2>3 DEF PartsInv, AllocPointer
<1>5. BuffersOwned' /\ ContentInv' /\ CursorIsAShape'
  BY <1>1 DEF BuffersOwned, Owned, ContentInv, Content, CursorIsAShape, AllocPointer
<1>6. NumberInv' /\ LastInv'
  BY <1>0 DEF NumberInv, LastInv, AllocPointer, TypeOK, Event
<1> QED BY <1>2, <1>3, <1>4, <1>5, <1>6

LEMMA CopyPrototypeKeeps ==
  ASSUME PointerInv, CopyPrototype
  PROVE  PointerInv'
<1> USE DEF PointerInv
<1>0. /\ pointer' = {[p EXCEPT !.parts = @ \cup (prototype \ {"size"})] : p \in pointer}
      /\ client = "copy" /\ client' = "new" /\ cache' = cache
  BY DEF CopyPrototype
<1>1. Pointers' = Pointers
  BY <1>0 DEF Pointers, Made
<1>2. \A q \in pointer' : \E p \in pointer : /\ q.slot = p.slot /\ q.shape = p.shape
                                            /\ q.buffer = p.buffer /\ q \in Record
                                            /\ q.parts = p.parts \cup (prototype \ {"size"})
  BY <1>0 DEF TypeOK, Record
<1>3. TypeOK'
  BY <1>2 DEF TypeOK, CopyPrototype
<1>4. PlaceInv'
  <2>1. ASSUME NEW q \in pointer', NEW r \in pointer' PROVE q = r
    <3>1. PICK p \in pointer : q = [p EXCEPT !.parts = @ \cup (prototype \ {"size"})]
      BY <1>0
    <3>2. PICK o \in pointer : r = [o EXCEPT !.parts = @ \cup (prototype \ {"size"})]
      BY <1>0
    <3>3. p = o
      BY DEF PlaceInv
    <3> QED BY <3>1, <3>2, <3>3
  <2> QED BY <1>0, <1>2, <2>1 DEF PlaceInv, CopyPrototype
<1>5. PartsInv'
  <2> SUFFICES ASSUME ~raced' PROVE PartsInv'
    BY DEF PartsInv
  <2>1. /\ ~raced /\ prototype = Parts /\ \A p \in pointer : p.parts = {"size"}
    BY <1>0 DEF CopyPrototype, PartsInv
  <2>2. \A p \in pointer : p.parts \cup (prototype \ {"size"}) = Parts
    BY <2>1 DEF Parts
  <2>3. \A q \in pointer' : q.parts = Parts
    BY <1>2, <2>2
  <2> QED BY <1>0, <2>1, <2>3 DEF PartsInv, CopyPrototype
<1>6. BuffersOwned' /\ ContentInv' /\ CursorIsAShape' /\ NumberInv' /\ LastInv'
  BY <1>0, <1>1
  DEF BuffersOwned, Owned, ContentInv, Content, CursorIsAShape, NumberInv, LastInv,
      CopyPrototype
<1> QED BY <1>3, <1>4, <1>5, <1>6

LEMMA NewPointerKeeps ==
  ASSUME PointerInv, NEW p \in pointer, NEW c \in Cells, NewPointer(p, c)
  PROVE  PointerInv'
<1> USE DEF PointerInv
<1> DEFINE made == [p EXCEPT !.buffer = {c}]
<1>0. /\ client = "new" /\ client' = "put" /\ cache' = cache /\ pointer' = {made}
      /\ p \in Record /\ heap[c] = Free /\ wire' = wire /\ raced' = raced
      /\ heap \in [Cells -> Shape \cup {Free, Garbage}] /\ p.shape \in Shape
  BY DEF NewPointer, TypeOK, Record
<1>1. /\ made \in Record /\ made.slot = p.slot /\ made.shape = p.shape
      /\ made.parts = p.parts /\ made.buffer = {c}
  BY <1>0 DEF Record
<1>2. PICK v \in {p.shape, Garbage} :
        /\ heap' = [heap EXCEPT ![c] = v]
        /\ IF v = p.shape THEN failed' = failed \/ failed' = failed \cup {p.shape}
                          ELSE failed' = failed \cup {p.shape}
  BY DEF NewPointer
<1>3. v # Free /\ v \in Shape \cup {Free, Garbage}
  BY <1>0 DEF Shape, Free, Garbage
<1>4. Pointers' = Pointers \cup {made}
  BY <1>0, PointersAre
<1>5. \A k \in Cells : heap'[k] = IF k = c THEN v ELSE heap[k]
  BY <1>0, <1>2
<1>6. ~Owned(c)
  BY <1>0 DEF BuffersOwned
<1>7. TypeOK'
  <2>1. heap' \in [Cells -> Shape \cup {Free, Garbage}]
    BY <1>0, <1>2, <1>3
  <2>2. failed' \subseteq Shape
    BY <1>0, <1>2 DEF TypeOK
  <2>3. crashed' \in BOOLEAN
    BY DEF NewPointer, Dangerous
  <2> QED BY <1>0, <1>1, <2>1, <2>2, <2>3 DEF TypeOK, NewPointer
<1>8. PlaceInv'
  BY <1>0, <1>1 DEF PlaceInv, NewPointer
<1>9. PartsInv'
  <2> SUFFICES ASSUME ~raced' PROVE PartsInv'
    BY DEF PartsInv
  <2>1. p.parts = Parts /\ \A s \in Slots : \A q \in cache[s] : q.parts = Parts /\ q.buffer # {}
    BY <1>0 DEF PartsInv
  <2>2. ~crashed'
    BY <2>1 DEF NewPointer, Dangerous
  <2> QED BY <1>0, <1>1, <2>1, <2>2 DEF PartsInv
<1>10. BuffersOwned'
  <2>1. \A k \in Cells : Owned(k)' <=> Owned(k) \/ k = c
    BY <1>0, <1>1, <1>4 DEF Owned
  <2>2. \A q \in Pointers : c \notin q.buffer
    BY <1>6 DEF Owned
  <2>3. \A e \in wire : e.buffer # c
    BY <1>6 DEF Owned
  <2>4. \A k \in Cells : heap'[k] # Free <=> heap[k] # Free \/ k = c
    BY <1>0, <1>3, <1>5
  <2>5. \A q, r \in Pointers' : q # r => q.buffer \cap r.buffer = {}
    <3>1. ASSUME NEW q \in Pointers', NEW r \in Pointers', q # r
          PROVE  q.buffer \cap r.buffer = {}
      <4>1. CASE q \in Pointers /\ r \in Pointers
        BY <3>1, <4>1 DEF BuffersOwned
      <4>2. CASE q = made /\ r \in Pointers
        BY <1>1, <2>2, <4>2
      <4>3. CASE q \in Pointers /\ r = made
        BY <1>1, <2>2, <4>3
      <4> QED BY <1>4, <3>1, <4>1, <4>2, <4>3
    <3> QED BY <3>1
  <2>6. \A q \in Pointers', e \in wire' : e.buffer \notin q.buffer
    BY <1>0, <1>1, <1>4, <2>3 DEF BuffersOwned
  <2>7. \A e, f \in wire' : e # f => e.buffer # f.buffer
    BY <1>0 DEF BuffersOwned
  <2>8. /\ \A k \in Cells : Owned(k)' => heap'[k] # Free
        /\ ~raced' => \A k \in Cells : heap'[k] # Free => Owned(k)'
    BY <1>0, <2>1, <2>4 DEF BuffersOwned
  <2> QED BY <2>5, <2>6, <2>7, <2>8 DEF BuffersOwned
<1>11. ContentInv'
  <2>1. \A q \in Pointers : \A k \in q.buffer : k \in Cells /\ k # c
    BY <1>6, PointersType DEF Owned, Record
  <2>2. \A e \in wire : e.buffer \in Cells /\ e.buffer # c
    BY <1>6 DEF Owned, TypeOK, Event
  <2>3. failed \subseteq failed' /\ raced' = raced
    BY <1>0, <1>2
  <2>4. v = p.shape \/ (v = Garbage /\ p.shape \in failed')
    BY <1>2
  <2>5. \A q \in Pointers' : \A k \in q.buffer : Content(heap[k], q.shape)'
    <3>1. ASSUME NEW q \in Pointers, NEW k \in q.buffer
          PROVE  Content(heap[k], q.shape)'
      BY <1>5, <2>1, <2>3 DEF ContentInv, Content
    <3>2. Content(heap[c], p.shape)'
      BY <1>5, <2>4 DEF Content
    <3> QED BY <1>1, <1>4, <3>1, <3>2
  <2>6. \A e \in wire' : Content(heap[e.buffer], e.shape)'
    BY <1>0, <1>5, <2>2, <2>3 DEF ContentInv, Content
  <2> QED BY <2>5, <2>6 DEF ContentInv, Content
<1>12. CursorIsAShape'
  <2>1. failed \subseteq failed'
    BY <1>2
  <2> QED BY <2>1 DEF CursorIsAShape, NewPointer
<1>13. NumberInv' /\ LastInv'
  BY <1>0 DEF NumberInv, LastInv, NewPointer
<1> QED BY <1>7, <1>8, <1>9, <1>10, <1>11, <1>12, <1>13

LEMMA NoNewKeeps ==
  ASSUME PointerInv, NEW p \in pointer, NoNew(p)
  PROVE  PointerInv'
<1> USE DEF PointerInv
<1>0. /\ client = "new" /\ client' = "put" /\ cache' = cache /\ pointer' = pointer
      /\ \A q \in pointer : q.buffer = {}
      /\ wire' = wire /\ heap' = heap /\ failed' = failed /\ raced' = raced
  BY DEF NoNew, PlaceInv
<1>1. Pointers' = Pointers \cup pointer
  BY <1>0, PointersAre
<1>2. raced
  BY <1>0 DEF PartsInv, NoNew, Parts
<1>3. TypeOK' /\ PlaceInv'
  BY <1>0 DEF TypeOK, PlaceInv, NoNew
<1>4. PartsInv'
  BY <1>0, <1>2 DEF PartsInv
<1>5. BuffersOwned' /\ ContentInv'
  BY <1>0, <1>1, <1>2 DEF BuffersOwned, Owned, ContentInv, Content
<1>6. CursorIsAShape' /\ NumberInv' /\ LastInv'
  BY <1>0, <1>2 DEF CursorIsAShape, NumberInv, LastInv, NoNew
<1> QED BY <1>3, <1>4, <1>5, <1>6

LEMMA PutPointerKeeps ==
  ASSUME PointerInv, NEW p \in pointer, PutPointer(p)
  PROVE  PointerInv'
<1> USE DEF PointerInv
<1> DEFINE old == cache[p.slot]
           freed == UNION {q.buffer : q \in {r \in old : "Free" \in r.parts}}
<1>0. /\ client = "put" /\ client' = "set" /\ pointer' = pointer /\ wire' = wire
      /\ cache' = [cache EXCEPT ![p.slot] = {p}]
      /\ heap' = [c \in Cells |-> IF c \in freed THEN Free ELSE heap[c]]
      /\ raced' = raced /\ failed' = failed
      /\ heap \in [Cells -> Shape \cup {Free, Garbage}]
      /\ p \in Record /\ p.slot \in Slots /\ cache \in [Slots -> SUBSET Record]
  BY DEF PutPointer, TypeOK, Record
<1>1. \A q \in old : q \in Pointers /\ q # p
  BY <1>0, PointersAre DEF PlaceInv, TypeOK, Record
<1>2. \A q : q \in Pointers' <=> q \in Pointers /\ q \notin old
  <2>1. \A s \in Slots : cache'[s] = IF s = p.slot THEN {p} ELSE cache[s]
    BY <1>0
  <2>2. pointer = {p} /\ p \in Pointers /\ p \notin old
    BY <1>0, <1>1, PointersAre DEF PlaceInv
  <2>3. \A s \in Slots : \A q \in cache[s] : q \in old <=> s = p.slot
    BY <1>0 DEF PlaceInv
  <2> QED BY <1>0, <2>1, <2>2, <2>3, PointersAre
<1>3. \A c : c \in freed <=> \E q \in old : "Free" \in q.parts /\ c \in q.buffer
  OBVIOUS
<1>4. \A c \in freed : \A q \in Pointers' : c \notin q.buffer
  BY <1>1, <1>2, <1>3 DEF BuffersOwned
<1>5. \A c \in freed : \A e \in wire : e.buffer # c
  BY <1>1, <1>3 DEF BuffersOwned
<1> HIDE DEF freed, old
<1>6. TypeOK'
  <2>1. heap' \in [Cells -> Shape \cup {Free, Garbage}]
    BY <1>0
  <2>2. crashed' \in BOOLEAN
    BY DEF PutPointer, Dangerous
  <2> QED BY <1>0, <2>1, <2>2 DEF TypeOK, PutPointer
<1>7. PlaceInv'
  <2>1. \A s \in Slots : \A q \in cache'[s] : q.slot = s /\ q.shape <= shapes
    BY <1>0 DEF PlaceInv, TypeOK, Record, Shape
  <2> QED BY <1>0, <2>1 DEF PlaceInv, PutPointer
<1>8. PartsInv'
  <2> SUFFICES ASSUME ~raced' PROVE PartsInv'
    BY DEF PartsInv
  <2>1. /\ p.parts = Parts /\ p.buffer # {}
        /\ \A s \in Slots : \A q \in cache[s] : q.parts = Parts /\ q.buffer # {}
        /\ \A q \in pointer : q.parts = Parts /\ q.buffer # {}
    BY <1>0 DEF PartsInv
  <2>2. ~crashed'
    BY <1>0, <2>1 DEF PutPointer, Dangerous
  <2> QED BY <1>0, <2>1, <2>2 DEF PartsInv
<1>9. BuffersOwned'
  <2>1. \A c \in Cells : Owned(c)' => Owned(c) /\ c \notin freed
    BY <1>0, <1>2, <1>4, <1>5 DEF Owned
  <2>2. \A c \in Cells : Owned(c)' => heap'[c] # Free
    BY <1>0, <2>1 DEF BuffersOwned
  <2>3. ASSUME ~raced', NEW c \in Cells, heap'[c] # Free PROVE Owned(c)'
    <3>1. heap[c] # Free /\ c \notin freed
      BY <1>0, <2>3
    <3>2. Owned(c)
      BY <1>0, <2>3, <3>1 DEF BuffersOwned
    <3>3. \A q \in old : c \notin q.buffer
      BY <1>0, <1>3, <2>3, <3>1 DEF PartsInv, Parts, old
    <3> QED BY <1>0, <1>2, <3>2, <3>3 DEF Owned
  <2>4. Pointers' \subseteq Pointers
    BY <1>2
  <2> QED BY <1>0, <2>2, <2>3, <2>4 DEF BuffersOwned
<1>10. ContentInv'
  <2>1. \A q \in Pointers' : \A c \in q.buffer : c \in Cells /\ c \notin freed
    BY <1>2, <1>4, PointersType DEF Record
  <2>2. \A e \in wire : e.buffer \in Cells /\ e.buffer \notin freed
    BY <1>5 DEF TypeOK, Event
  <2> QED BY <1>0, <1>2, <2>1, <2>2 DEF ContentInv, Content
<1>11. CursorIsAShape' /\ NumberInv' /\ LastInv'
  BY <1>0 DEF CursorIsAShape, NumberInv, LastInv, PutPointer
<1> QED BY <1>6, <1>7, <1>8, <1>9, <1>10, <1>11

\* Setting a pointer of the cache emits its content, or what a wild address gives,
\* in a buffer that was free.
\* The event is newer than all others, as one of the counters has grown.
LEMMA SetPointerKeeps ==
  ASSUME PointerInv, NEW p, \E s \in Slots : p \in cache[s],
         ~crashed, SetPointer(p), client \in {"idle", "set"}, client' = "idle",
         pointer' = {}, sets' \in {sets, sets + 1} \cap (0 .. MaxSets),
         client = "idle" => sets' = sets + 1,
         UNCHANGED <<prototype, cache, cursor, shapes, failed, raced, overtaken>>
  PROVE  PointerInv'
<1> USE DEF PointerInv
<1>0. /\ p \in Record /\ p \in Pointers /\ p.shape \in Shape /\ current' = p.shape
      /\ shapes \in Nat /\ sets \in Nat
  BY PointersAre DEF TypeOK, Record, SetPointer
<1>e. Dangerous(p) => raced
  BY DEF PartsInv, Dangerous
<1>1. Pointers' = Pointers
  BY PointersAre
<1>2. PlaceInv' /\ CursorIsAShape'
  BY DEF PlaceInv, CursorIsAShape
<1>3. PartsInv'
  BY <1>e DEF PartsInv, SetPointer
<1>4. crashed' \in BOOLEAN
  BY DEF SetPointer
<1>5. \A e \in wire : e \in Event /\ e.number < shapes + sets'
  BY <1>0 DEF NumberInv, TypeOK, Event
<1>6. CASE EmitPointer(p) \/ EmitWild(p)
  <2>1. PICK v \in Shape \cup {Garbage}, c \in Cells :
          /\ heap[c] = Free /\ v # Free
          /\ Content(v, p.shape)
          /\ heap' = [heap EXCEPT ![c] = v]
          /\ wire' = wire \cup {[number |-> shapes + sets', shape |-> p.shape, buffer |-> c]}
    <3>1. CASE EmitPointer(p)
      <4>1. PICK b \in p.buffer, c \in Cells :
              /\ heap[c] = Free
              /\ heap' = [heap EXCEPT ![c] = heap[b]]
              /\ wire' = wire \cup {[number |-> shapes + sets', shape |-> p.shape, buffer |-> c]}
        BY <3>1 DEF EmitPointer
      <4>2. b \in Cells /\ heap[b] \in Shape \cup {Free, Garbage}
        BY <1>0, <4>1 DEF Record, TypeOK
      <4>3. Owned(b)
        BY <1>0, <4>1 DEF Owned
      <4>4. heap[b] # Free
        BY <4>2, <4>3 DEF BuffersOwned
      <4>5. Content(heap[b], p.shape)
        BY <1>0, <4>1 DEF ContentInv
      <4> QED BY <4>1, <4>2, <4>4, <4>5
    <3>2. CASE EmitWild(p)
      <4>1. p.parts # Parts
        BY <3>2 DEF EmitWild, Parts
      <4>2. Content(Garbage, p.shape)
        BY <1>e, <4>1 DEF Content, Dangerous
      <4>3. Garbage # Free
        BY DEF Garbage, Free
      <4> QED BY <3>2, <4>2, <4>3 DEF EmitWild
    <3> QED BY <1>6, <3>1, <3>2
  <2> DEFINE new == [number |-> shapes + sets', shape |-> p.shape, buffer |-> c]
  <2>d. shapes + sets' \in Nat
    BY <1>0
  <2>e. new \in Event
    BY <1>0, <2>1, <2>d DEF Event
  <2>f. /\ wire' = wire \cup {new} /\ new.buffer = c /\ new.shape = p.shape
        /\ new.number = shapes + sets'
    BY <2>1
  <2>2. heap \in [Cells -> Shape \cup {Free, Garbage}] /\ new \in Event
    BY <2>e DEF TypeOK
  <2>3. ~Owned(c)
    BY <2>1 DEF BuffersOwned
  <2>4. TypeOK'
    <3>1. heap' \in [Cells -> Shape \cup {Free, Garbage}] /\ wire' \subseteq Event
      BY <1>5, <2>1, <2>2
    <3> QED BY <1>0, <1>4, <3>1 DEF TypeOK
  <2>5. BuffersOwned'
    <3>1. \A k \in Cells : Owned(k)' <=> Owned(k) \/ k = c
      BY <1>1, <2>f, Zenon DEF Owned
    <3>2. \A k \in Cells : heap'[k] # Free <=> heap[k] # Free \/ k = c
      BY <2>1, <2>2
    <3>3. \A q \in Pointers : c \notin q.buffer
      BY <2>3 DEF Owned
    <3>4. \A e \in wire : e.buffer # c
      BY <2>3 DEF Owned
    <3>5. \A e, f \in wire' : e # f => e.buffer # f.buffer
      BY <2>1, <3>4 DEF BuffersOwned
    <3>6. \A q \in Pointers', e \in wire' : e.buffer \notin q.buffer
      BY <1>1, <2>1, <3>3 DEF BuffersOwned
    <3> QED BY <1>1, <3>1, <3>2, <3>5, <3>6 DEF BuffersOwned
  <2>6. ContentInv'
    <3>1. \A q \in Pointers : \A k \in q.buffer : k \in Cells /\ k # c
      BY <2>3, PointersType DEF Owned, Record
    <3>2. \A e \in wire : e.buffer \in Cells /\ e.buffer # c
      BY <2>3 DEF Owned, TypeOK, Event
    <3>3. \A k \in Cells : heap'[k] = IF k = c THEN v ELSE heap[k]
      BY <2>1, <2>2
    <3> QED BY <1>1, <2>1, <3>1, <3>2, <3>3 DEF ContentInv, Content
  <2>7. NumberInv' /\ LastInv'
    <3>1. \A e \in wire' : e = new \/ (e \in wire /\ e \in Event /\ e.number < new.number)
      BY <1>5, <2>f
    <3>2. new \in wire' /\ new.shape = current' /\ new.number = shapes' + sets'
      BY <1>0, <2>f
    <3>3. NumberInv'
      <4>1. \A e, f \in wire' : e # f => e.number # f.number
        BY <2>2, <3>1 DEF NumberInv, Event
      <4>2. \A e \in wire' : e.number <= shapes' + sets'
        BY <2>2, <3>1, <3>2 DEF Event
      <4> QED BY <4>1, <4>2 DEF NumberInv
    <3>4. \A e \in wire' : e.number <= new.number
      BY <2>2, <3>1 DEF Event
    <3>5. LastInv'
      BY <3>2, <3>4, Zenon DEF LastInv
    <3> QED BY <3>3, <3>5
  <2> QED BY <1>2, <1>3, <2>4, <2>5, <2>6, <2>7
<1>7. CASE NoEmit(p) \/ (Dangerous(p) /\ UNCHANGED <<heap, wire>>)
  <2>1. heap' = heap /\ wire' = wire
    BY <1>7 DEF NoEmit
  <2>2. raced
    BY <1>e, <1>7 DEF NoEmit, Dangerous, Parts
  <2>3. TypeOK'
    BY <1>0, <1>4, <2>1 DEF TypeOK
  <2>4. BuffersOwned' /\ ContentInv'
    BY <1>1, <2>1 DEF BuffersOwned, Owned, ContentInv, Content
  <2>5. NumberInv' /\ LastInv'
    BY <1>0, <1>5, <2>1, <2>2 DEF NumberInv, LastInv, Event
  <2> QED BY <1>2, <1>3, <2>3, <2>4, <2>5
<1> QED BY <1>6, <1>7 DEF SetPointer

LEMMA SetNewKeeps ==
  ASSUME PointerInv, NEW p \in pointer, SetNew(p)
  PROVE  PointerInv'
<1>1. p \in cache[p.slot] /\ p.slot \in Slots
  BY DEF PointerInv, TypeOK, Record, PlaceInv, SetNew
<1>2. sets' \in {sets, sets + 1} \cap (0 .. MaxSets)
  BY DEF PointerInv, TypeOK, SetNew
<1> QED BY <1>1, <1>2, SetPointerKeeps DEF SetNew

LEMMA SetCachedKeeps ==
  ASSUME PointerInv, NEW slot \in Slots, SetCached(slot)
  PROVE  PointerInv'
<1>1. sets' \in {sets, sets + 1} \cap (0 .. MaxSets)
  BY PointerAssumption DEF PointerInv, TypeOK, SetCached
<1>2. pointer' = {} /\ client = "idle"
  BY DEF PointerInv, PlaceInv, SetCached
<1> QED BY <1>1, <1>2, SetPointerKeeps DEF SetCached

LEMMA SetSystemKeeps ==
  ASSUME PointerInv, SetSystem
  PROVE  PointerInv'
<1> USE DEF SetSystem
<1>1. Pointers' = Pointers
  BY DEF Pointers, Made
<1> QED BY <1>1
        DEF PointerInv, TypeOK, PlaceInv, PartsInv, BuffersOwned, Owned, ContentInv,
            Content, CursorIsAShape, NumberInv, LastInv

LEMMA NextInv == PointerInv /\ [Next]_vars => PointerInv'
<1> SUFFICES ASSUME PointerInv, [Next]_vars PROVE PointerInv'
  OBVIOUS
<1>1. CASE MainStep
  BY <1>1, RegisterPointerKeeps, DeliverPointerKeeps DEF MainStep
<1>2. CASE ClientStep
  BY <1>2, AllocPointerKeeps, SetCachedKeeps, CopyPrototypeKeeps, NewPointerKeeps,
     NoNewKeeps, PutPointerKeeps, SetNewKeeps, SetSystemKeeps DEF ClientStep
<1>3. CASE UNCHANGED vars
  <2>1. Pointers' = Pointers
    BY <1>3 DEF vars, Pointers, Made
  <2> QED BY <1>3, <2>1
          DEF vars, PointerInv, TypeOK, PlaceInv, PartsInv, BuffersOwned, Owned,
              ContentInv, Content, CursorIsAShape, NumberInv, LastInv
<1> QED BY <1>1, <1>2, <1>3 DEF Next

LEMMA AlwaysInv == Spec => []PointerInv
BY InitInv, NextInv, PTL DEF Spec

-----------------------------------------------------------------------------
(* The theorems. *)

\* The variables keep their types.
THEOREM TypeCorrect == Spec => []TypeOK
BY AlwaysInv, PTL DEF PointerInv

\* No buffer of a pointer or an event is freed while it is in use, or twice, and
\* none is leaked when the prototype was registered in time, for any cache and
\* any number of shapes.
THEOREM BuffersAreOwned == Spec => []BuffersOwned
BY AlwaysInv, PTL DEF PointerInv

\* The application is handed the pixels of the shape that was set, whatever the
\* server has done to the cache since, or pixels of no shape at all if that one
\* could not be converted or a pointer was allocated too early.
THEOREM CursorShowsItsShape == Spec => []CursorIsAShape
BY AlwaysInv, PTL DEF PointerInv

\* The process ends on a pointer only after one was allocated too early.
THEOREM OnlyRacesCrash == Spec => []CrashOnlyRaced
<1>1. PointerInv => CrashOnlyRaced
  BY DEF PointerInv, PartsInv, CrashOnlyRaced
<1> QED BY <1>1, AlwaysInv, PTL

\* Without overtaking, the application's cursor catches up with the server's.
THEOREM CursorCatchesUp == Spec => []CursorConverges
<1>1. PointerInv => CursorConverges
  BY DEF PointerInv, LastInv, CursorConverges
<1> QED BY <1>1, AlwaysInv, PTL
=============================================================================
