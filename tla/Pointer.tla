--------------------------------- MODULE Pointer ---------------------------------
(***************************************************************************)
(* The shapes of the mouse pointer: FreeRDP keeps them in a cache and      *)
(* calls node_Pointer_New, node_Pointer_Free and node_Pointer_Set          *)
(* (pointer.cc) on the client thread; Set emits a copy of the pixels, and  *)
(* the main thread hands it to the application.  node_register_pointer     *)
(* puts the three functions into FreeRDP's prototype of a pointer on the   *)
(* main thread, after the client thread has been started (rdp.cc:274-275). *)
(* The pixels of a shape are its number; a buffer is a cell of the heap.   *)
(***************************************************************************)
EXTENDS Integers

CONSTANTS Slots,      \* indexes of FreeRDP's pointer cache
          Cells,      \* bound: buffers that can be allocated at one time
          MaxShapes,  \* bound: shapes the server sends
          MaxSets     \* bound: times the server returns to an earlier shape

ASSUME PointerAssumption == MaxShapes \in Nat /\ MaxSets \in Nat

VARIABLES
  prototype,  \* the parts of FreeRDP's prototype that are pointer.cc's
  client,     \* the step of the client thread that comes next
  pointer,    \* the rdpPointer it is making, if any
  cache,      \* the rdpPointer of each cache index, if any
  heap,       \* the content of each buffer
  wire,       \* pointer events on their way
  cursor,     \* the pixels the application shows, and the shape they stand for
  current,    \* the shape the server has made the pointer
  shapes,     \* number of shapes the server has sent
  sets,       \* number of times it has returned to an earlier one
  failed,     \* shapes FreeRDP could not convert
  raced,      \* history: a pointer was allocated before the registration ended
  overtaken,  \* history: a pointer event has overtaken an older one
  crashed

vars == <<prototype, client, pointer, cache, heap, wire, cursor, current, shapes,
          sets, failed, raced, overtaken, crashed>>

\* What a buffer holds when it is not allocated, and what malloc leaves in it.
Free == 0
Garbage == -1

\* The pointer when the server has set no shape, or hidden it, or chosen its own.
System == 0

Shape == 1 .. MaxShapes

\* The parts of the prototype: the size of a NodePointer and the functions.
Parts == {"size", "New", "Free", "Set"}

\* An rdpPointer: the parts of the prototype it was made from, its shape, and
\* the buffer that New stored in it (NodePointer.buffer).
Record == [slot : Slots, shape : Shape, parts : SUBSET Parts, buffer : SUBSET Cells]

\* A pointer event: pointer_args.
Event == [number : Nat, shape : Shape, buffer : Cells]

Init ==
  /\ prototype = {}
  /\ client = "idle"
  /\ pointer = {}
  /\ cache = [s \in Slots |-> {}]
  /\ heap = [c \in Cells |-> Free]
  /\ wire = {}
  /\ cursor = [shown |-> System, meant |-> System]
  /\ current = System
  /\ shapes = 0
  /\ sets = 0
  /\ failed = {}
  /\ raced = FALSE
  /\ overtaken = FALSE
  /\ crashed = FALSE

-----------------------------------------------------------------------------
(* The main thread: node_register_pointer, and the events' parser. *)

\* Mutant: the prototype has a SetNull of the addon's too.
RegisterPointerNull(part) ==
  /\ ~crashed
  /\ part \notin prototype
  /\ prototype' = prototype \cup {part, "SetNull"}
  /\ UNCHANGED <<client, pointer, cache, heap, wire, cursor, current, shapes, sets,
                 failed, raced, overtaken, crashed>>

\* graphics_register_pointer copies the struct over FreeRDP's own, in no
\* particular order.
RegisterPointer(part) ==
  /\ ~crashed
  /\ part \notin prototype
  /\ prototype' = prototype \cup {part}
  /\ UNCHANGED <<client, pointer, cache, heap, wire, cursor, current, shapes, sets,
                 failed, raced, overtaken, crashed>>

\* pointer_args_parser copies the pixels for the application and frees them.
DeliverPointer(e) ==
  /\ ~crashed
  /\ e \in wire
  /\ wire' = wire \ {e}
  /\ cursor' = [shown |-> heap[e.buffer], meant |-> e.shape]
  /\ heap' = [heap EXCEPT ![e.buffer] = Free]
  /\ overtaken' = (overtaken \/ \E f \in wire : f.number < e.number)
  /\ UNCHANGED <<prototype, client, pointer, cache, current, shapes, sets, failed,
                 raced, crashed>>

-----------------------------------------------------------------------------
(* The client thread: the server sends a new shape for a cache index. *)

\* Pointer_Alloc takes the record's size from the prototype ...
AllocPointer(slot) ==
  /\ ~crashed
  /\ client = "idle"
  /\ shapes < MaxShapes
  /\ shapes' = shapes + 1
  /\ pointer' = {[slot |-> slot, shape |-> shapes + 1, buffer |-> {},
                  parts |-> prototype \cap {"size"}]}
  /\ raced' = (raced \/ prototype # Parts)
  /\ client' = "copy"
  /\ UNCHANGED <<prototype, cache, heap, wire, cursor, current, sets, failed,
                 overtaken, crashed>>

\* Mutant: node_register_pointer forgets Free.
CopyPrototypeNoFree ==
  /\ ~crashed
  /\ client = "copy"
  /\ pointer' = {[p EXCEPT !.parts = @ \cup (prototype \ {"size", "Free"})] : p \in pointer}
  /\ client' = "new"
  /\ UNCHANGED <<prototype, cache, heap, wire, cursor, current, shapes, sets,
                 failed, raced, overtaken, crashed>>

\* ... and then copies the functions out of it.
CopyPrototype ==
  /\ ~crashed
  /\ client = "copy"
  /\ pointer' = {[p EXCEPT !.parts = @ \cup (prototype \ {"size"})] : p \in pointer}
  /\ client' = "new"
  /\ UNCHANGED <<prototype, cache, heap, wire, cursor, current, shapes, sets,
                 failed, raced, overtaken, crashed>>

\* A record that is too small for NodePointer's buffer is written and read past
\* its end, and a function that is missing is passed over or called all the
\* same: nothing is noticed or the process ends.
Dangerous(p) == p.parts # Parts

\* node_Pointer_New converts the shape into a buffer of its own; it does not
\* look whether FreeRDP could convert it.
NewPointer(p, c) ==
  /\ ~crashed
  /\ client = "new"
  /\ p \in pointer
  /\ "New" \in p.parts
  /\ heap[c] = Free
  /\ \/ heap' = [heap EXCEPT ![c] = p.shape] /\ UNCHANGED failed
     \/ heap' = [heap EXCEPT ![c] = Garbage] /\ failed' = failed \cup {p.shape}
  /\ pointer' = {[p EXCEPT !.buffer = {c}]}
  /\ client' = "put"
  /\ crashed' \in {FALSE, Dangerous(p)}
  /\ UNCHANGED <<prototype, cache, wire, cursor, current, shapes, sets, raced,
                 overtaken>>

\* The record has no New.
NoNew(p) ==
  /\ ~crashed
  /\ client = "new"
  /\ p \in pointer
  /\ "New" \notin p.parts
  /\ client' = "put"
  /\ crashed' \in BOOLEAN
  /\ UNCHANGED <<prototype, pointer, cache, heap, wire, cursor, current, shapes,
                 sets, failed, raced, overtaken>>

\* Mutant: the pointer that had the index is dropped without its Free.
PutPointerDropping(p) ==
  /\ ~crashed
  /\ client = "put"
  /\ p \in pointer
  /\ cache' = [cache EXCEPT ![p.slot] = {p}]
  /\ client' = "set"
  /\ UNCHANGED <<prototype, pointer, heap, wire, cursor, current, shapes, sets, failed,
                 raced, overtaken, crashed>>

\* pointer_cache_put gives the pointer that had the index to node_Pointer_Free,
\* which frees its buffer.
PutPointer(p) ==
  /\ ~crashed
  /\ client = "put"
  /\ p \in pointer
  /\ LET freed == UNION {q.buffer : q \in {r \in cache[p.slot] : "Free" \in r.parts}}
     IN  heap' = [c \in Cells |-> IF c \in freed THEN Free ELSE heap[c]]
  /\ cache' = [cache EXCEPT ![p.slot] = {p}]
  /\ client' = "set"
  /\ crashed' \in {FALSE, \E q \in cache[p.slot] : Dangerous(q)}
  /\ UNCHANGED <<prototype, pointer, wire, cursor, current, shapes, sets, failed,
                 raced, overtaken>>

\* Mutant: the event gets the pointer's own buffer instead of a copy.
EmitPointerShared(p) ==
  /\ "Set" \in p.parts
  /\ \E b \in p.buffer :
       wire' = wire \cup {[number |-> shapes + sets', shape |-> p.shape, buffer |-> b]}
  /\ UNCHANGED heap

\* node_Pointer_Set emits a copy of the pointer's pixels, in a buffer that
\* belongs to the event.  The event's number orders it among the others.
EmitPointer(p) ==
  /\ "Set" \in p.parts
  /\ \E b \in p.buffer, c \in Cells :
       /\ heap[c] = Free
       /\ heap' = [heap EXCEPT ![c] = heap[b]]
       /\ wire' = wire \cup {[number |-> shapes + sets', shape |-> p.shape, buffer |-> c]}

\* The record ends before NodePointer's buffer: the address of the pixels is
\* whatever is found there.
EmitWild(p) ==
  /\ "Set" \in p.parts
  /\ "size" \notin p.parts
  /\ \E c \in Cells :
       /\ heap[c] = Free
       /\ heap' = [heap EXCEPT ![c] = Garbage]
       /\ wire' = wire \cup {[number |-> shapes + sets', shape |-> p.shape, buffer |-> c]}

\* The record has no Set: nothing of pointer.cc is called.
NoEmit(p) ==
  /\ "Set" \notin p.parts
  /\ UNCHANGED <<heap, wire>>

\* Mutant: only a new pointer is emitted.
SetPointerNew(p) ==
  /\ current' = p.shape
  /\ crashed' = FALSE
  /\ IF client = "set" THEN EmitPointer(p) ELSE UNCHANGED <<heap, wire>>

\* The server makes a pointer in the cache the current one.  node_Pointer_Set
\* does not look whether New has given it pixels: a field that is still NULL, or
\* a wild one, may end the process.
SetPointer(p) ==
  /\ current' = p.shape
  /\ \/ (EmitPointer(p) \/ EmitWild(p) \/ NoEmit(p)) /\ crashed' = FALSE
     \/ Dangerous(p) /\ crashed' = TRUE /\ UNCHANGED <<heap, wire>>

\* The new pointer is set at once.
SetNew(p) ==
  /\ ~crashed
  /\ client = "set"
  /\ p \in pointer
  /\ sets' = sets
  /\ SetPointer(p)
  /\ pointer' = {}
  /\ client' = "idle"
  /\ UNCHANGED <<prototype, cache, cursor, shapes, failed, raced, overtaken>>

\* The server returns to a shape it has sent before.
SetCached(slot) ==
  /\ ~crashed
  /\ client = "idle"
  /\ sets < MaxSets
  /\ sets' = sets + 1
  /\ \E p \in cache[slot] : SetPointer(p)
  /\ UNCHANGED <<prototype, client, pointer, cache, cursor, shapes, failed, raced,
                 overtaken>>

\* The server hides the pointer or makes it the default one.  The prototype's
\* SetNull and SetDefault stay NULL (pointer.cc:89): nobody is told.
SetSystem ==
  /\ ~crashed
  /\ client = "idle"
  /\ current # System
  /\ current' = System
  /\ UNCHANGED <<prototype, client, pointer, cache, heap, wire, cursor, shapes, sets,
                 failed, raced, overtaken, crashed>>

-----------------------------------------------------------------------------
MainStep == \/ \E part \in Parts : RegisterPointer(part)
            \/ \E e \in wire : DeliverPointer(e)

ClientStep == \/ \E slot \in Slots : AllocPointer(slot) \/ SetCached(slot)
              \/ CopyPrototype
              \/ \E p \in pointer : \/ \E c \in Cells : NewPointer(p, c)
                                    \/ NoNew(p) \/ PutPointer(p) \/ SetNew(p)
              \/ SetSystem

Next == MainStep \/ ClientStep

Spec == Init /\ [][Next]_vars

-----------------------------------------------------------------------------
TypeOK ==
  /\ prototype \subseteq Parts
  /\ client \in {"idle", "copy", "new", "put", "set"}
  /\ pointer \subseteq Record
  /\ cache \in [Slots -> SUBSET Record]
  /\ heap \in [Cells -> Shape \cup {Free, Garbage}]
  /\ wire \subseteq Event
  /\ cursor \in [shown : Shape \cup {System, Garbage}, meant : Shape \cup {System}]
  /\ current \in Shape \cup {System}
  /\ shapes \in 0 .. MaxShapes
  /\ sets \in 0 .. MaxSets
  /\ failed \subseteq Shape
  /\ raced \in BOOLEAN
  /\ overtaken \in BOOLEAN
  /\ crashed \in BOOLEAN

\* The buffers an rdpPointer owns: those of the cache and, until it is put
\* there, that of the pointer being made.
Made == IF client = "put" THEN pointer ELSE {}
Pointers == (UNION {cache[s] : s \in Slots}) \cup Made

Owned(c) == \/ \E p \in Pointers : c \in p.buffer
            \/ \E e \in wire : e.buffer = c

\* New, Free, Set and the parser together never leave a buffer in use that is
\* freed, nor let two of them free the same one, whenever the server replaces
\* shapes and the application takes events: what one pointer or event owns is
\* allocated and nobody else's.  And none is leaked, provided the registration
\* came before the first pointer.
BuffersOwned ==
  /\ \A c \in Cells : Owned(c) => heap[c] # Free
  /\ \A p, q \in Pointers : p # q => p.buffer \cap q.buffer = {}
  /\ \A p \in Pointers, e \in wire : e.buffer \notin p.buffer
  /\ \A e, f \in wire : e # f => e.buffer # f.buffer
  /\ ~raced => \A c \in Cells : heap[c] # Free => Owned(c)

\* The application shows the pixels of the shape the event was about, though the
\* server may have replaced the shape, and FreeRDP freed or reused its buffer,
\* before the event was delivered.  All it can be shown instead is what malloc
\* left in the buffer of a shape that could not be converted, or what was found
\* past the end of a record made too early (pointer.cc:39-44, 69-77).
CursorIsAShape ==
  cursor.shown # cursor.meant =>
    cursor.shown = Garbage /\ (cursor.meant \in failed \/ raced)

\* While no event overtakes another, the application shows the server's current
\* shape as soon as nothing is on its way; the server's own pointer is the
\* exception, of which nobody is told.
CursorConverges ==
  (client = "idle" /\ wire = {} /\ ~raced /\ ~overtaken /\ current # System)
    => cursor.meant = current

\* The process ends on a pointer only if the pointer was allocated before its
\* prototype was registered, the race of rdp.cc:274-275.
CrashOnlyRaced == crashed => raced
=============================================================================
