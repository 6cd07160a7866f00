# node-freerdp2 in TLA+

node-freerdp2 lets a Node.js program open RDP sessions on Windows: a JavaScript
class `Session` over a native addon over FreeRDP 2.0.0-rc4.  The addon is small
(about 1150 lines) and almost all of it runs on two sides at once: the main
thread, which runs JavaScript and libuv's loop, and one client thread per
session, which runs FreeRDP and its callbacks.  There is not one lock in it.
These modules model that code, TLC checks them on small instances, and TLAPS
proves every safety property that the runs check for every instance.  What is left
to the runs alone is liveness.

## 1. The system

### 1.1 Components

| component | source | state | operations |
|---|---|---|---|
| `Session` objects | `session.js` | `_sessionIndex`, the options | `connect`, `close`, `sendPointerEvent`, `sendWheelEvent`, `sendKeyEventScancode`, `sendClipboard`, `requestKeyframe`, `_eventHandler` |
| bridge | `bridge.cc`, `node-freerdp2.cc` | none | converts JavaScript values and calls `rdp.cc` |
| registry of sessions | `rdp.cc` `add_session` | `sessions`, `sessionCount`, `SessionData` (`instance`, `stopping`) | grown at every connect, indexed by every other call, never shrunk |
| client thread | `rdp.cc` `node_client_thread` | its place, `close_args`, `nodeContext` | connect, wait, check events, reconnect, stop, free, emit `close` |
| generator | `generator.cc` | a baton per event, libuv's queues and request count | `generator_emit` on a client thread, `DelayAsync` on a pool thread, `DelayAsyncAfter` on the main thread |
| painting | `rdp.cc` `nodefreerdp_begin_paint`, `nodefreerdp_end_paint` | the invalid region, `nContext->keyframe`, the picture's bytes | called by FreeRDP around drawing; emits `bitmap` |
| input | `session.js`, `bridge.cc`, `rdp.cc` | none | encodes a button, a wheel step or a scan code into flags and sends them |
| clipboard | `channels/clipboard.cc`, `channels/channel.cc`, `rdp.cc` `node_freerdp_cliprdr_set_data` | `NodeClipboard` (`length`, `buffer`) | opened, closed and asked by FreeRDP; written by the main thread |
| pointer shapes | `channels/pointer.cc` | `NodePointer.buffer`, FreeRDP's prototype of a pointer | New, Set, Free, called by FreeRDP; Set emits `pointer` |
| remote application | `channels/rail.cc` | `nContext->rail` | answers the server's handshake |
| FreeRDP, winpr | `libs/win64` | - | vendored headers and binaries |

### 1.2 How they interact

`connect()` calls the bridge, which calls `node_freerdp_connect` on the main
thread.  It allocates a context, parses the command line, *starts the client
thread* (rdp.cc:274), registers the pointer callbacks (275), makes the session
record (277-280), adds it to the array (281) and *only then* stores it in the
context (282), where the client thread looks for it (203).  Every other method
of `Session` goes through `_sessionIndex`, the array, the record and the record's
`instance`, unchecked.  Events go the other way: a client thread allocates the
arguments, `generator_emit` hands them to `uv_queue_work`, a pool thread does
nothing with them, and the main thread's loop calls `_eventHandler`.  The main
thread and a client thread also share, without a lock, `stopping`, `keyframe` and
the clipboard's two fields.

### 1.3 What is hard, and what makes each component correct

* The generator calls `uv_queue_work` where libuv forbids it, off the loop's
  thread.  It must neither lose nor duplicate an event; it loses order, and it
  may lose count of the requests that keep the loop alive, whereupon libuv ends
  the loop too early or aborts the process.
* A session must be reached by its own index and by no other; no event may come
  before the index, none may be emitted after `close`; `close()` must be
  answered; and the windows in which a record or an instance is missing must be
  exactly the known ones.
* An answer of the clipboard must be the text that was announced, whole.
* No keyframe request may fall between `end_paint`'s test and its reset, and the
  regions emitted must add up to the picture.
* The copy of a region works with offsets that are products of `int`; every byte
  must come from its own address, and every one of the server's pixel formats must
  end as the colour it was on the application's canvas.
* A pointer's buffer passes from `New` to FreeRDP's cache and, copied, to an event:
  each must have one owner, though the server replaces shapes while events about
  them are on their way, and though the registration races the client thread.
* The server must hold the buttons and keys that the application holds.
* A server starts the remote application once at each handshake, after the other
  orders and whichever of those are lost.
* A request for a keyframe must be answered even if nothing is drawn any more.

`PROJECT.json` lists each hazard at its line with the properties about it.

## 2. Modules

| module | models | composition |
|---|---|---|
| `EventStream` | what `generator_emit` promises: an event in flight is delivered at most once | abstract |
| `Generator` | `generator.cc` and the part of libuv under it | implements `EventStream` |
| `Life` | what a `Session` object promises its listeners | abstract |
| `Session` | `connect`, the registry, the client thread, `close`, input calls on a session that is gone | events go through an `EventStream` instance; implements `Life` |
| `Clipboard` | the clipboard channel and `sendClipboard`, store by store | |
| `Rail` | the remote application channel | |
| `Channels` | `channel.cc`'s handlers | composes `Clipboard` and `Rail`; implements `Clipboard` |
| `Paint` | `begin_paint`, `end_paint`, `requestKeyframe`, the application's canvas | |
| `Copy` | the bytes that `end_paint` copies, as addresses | |
| `Color` | the pixel formats of `freerdp/codec/color.h` and their conversion | operators |
| `Picture` | the bytes of the picture from the server to the canvas | composes `Copy` and `Color`: every step of the painter is one of `Copy`'s and fills in the bytes |
| `Pointer` | `pointer.cc`, FreeRDP's cache and prototype of pointers | |
| `Input` | the encoding of mouse, wheel and keys, the bridge's conversions, the server's reading | |
| `GeneratorProofs`, `SessionProofs`, `LifeProofs`, `ClipboardProofs`, `PaintProofs`, `PictureProofs`, `PointerProofs`, `InputProofs` | theorems | extend the module they are about; `LifeProofs` is about `Session`, `Life` and `EventStream`, `ClipboardProofs` also about `Channels`, `PictureProofs` also about `Copy` |
| `MCGenerator`, `MCSession`, `MCClipboard`, `MCChannels`, `MCPicture`, `MCPointer`, `MCInput` | instances for TLC | extend the module they instantiate |

### 2.1 `Generator`

A baton is `<<thread, number>>`.  `Emit`, `Register` and `Post` are the three
things a client thread does inside `generator_emit`: read the loop's count of
active requests, write it back incremented, append to the pool's queue.  The
first two are separate because libuv does not lock them; the last is atomic
because libuv does.  `Take` and `DelayAsync` are a pool thread.  `Unregister`
and `DelayAsyncAfter` are the loop: it reads the count, writes it back
decremented, runs the callback.  `DropHandles` and `Exit` end the loop when the
application's own handles are gone and the count is 0.  If the count is 0 when a
request ends, libuv's assertion that there are active requests fails:
`Unregister` then leaves `loop` at `"aborted"`, which ends the threads too.

`lost` is a history variable: some write of the count has overtaken another one.
`Registered` is the work the count stands for, that of a thread between `Register`
and `Post` included.  `LossOnlyRaced` says that without such a write libuv never
aborts and the loop never ends over registered work; that the count is then the
number of batons registered is the invariant behind it.

### 2.2 `Session`

One variable per field of the code: `conn` is the place of `connect()`, `index` is
`_sessionIndex`, `sessions`/`sessionCount` the array, `stopping` and `instance` the
record's fields, `thread` the place in `node_client_thread`, `reason` is `args->msg`.
Session objects, records and client threads are named by the same element: record `s`
belongs to the connect of object `s`.  The main thread does nothing else while it is
inside `connect()` (`MainIdle`), but client threads do.  `CreateThread` may fail,
which rdp.cc:221 does not look at: `connect()` goes on, and the thread stays
`"unstarted"`; no event of that session ever comes.  `NativeIndex` is what
`Uint32Value` and the conversion to `int` make of an index: `undefined` becomes 0 and
-1 stays -1.  A store through an entry outside the array or through a freed instance
either goes unnoticed or ends the process (`process' \in {"running", "crashed"}`);
what a store that goes unnoticed may have corrupted is not modelled.
`node_freerdp_send_key_event_scancode`, `node_freerdp_send_pointer_event`,
`node_freerdp_request_keyframe` and `node_freerdp_cliprdr_set_data` dereference the
instance in the same way and are one action, `Input`; what they do with it is in
`Input`, `Paint` and `Clipboard`.  `strayed` is a history variable: the application
has called before `connect()` returned an index, or after the `close` event.  A stray
`close()` with an index of `undefined` reaches the first record of the registry and
stops that session; `StoppedOnlyIfClosed` says that this is the only way to be stopped
by another object, whatever the application does.

`Life` says the same from the listeners' side, without the registry, the threads
or the addresses: whether an object has connected (`opened`), which events have
come about (`told`) and which the listeners have heard (`heard`).  `Session`
implements it with `opened` from the place of `connect()`, `told` the emitted and
`heard` the delivered events.  `Life` allows listeners to hear events in another
order than they came about in, because the generator does.

### 2.3 `Clipboard`, `Rail`, `Channels`

Texts are numbers, 0 the default text of `node_cliprdr_init`; `Chars` gives each its
length.  `SetLength` and `SetBuffer` are the two stores of rdp.cc:316-317,
`CheckLength`, `ReadLength` and `ReadBuffer` the three reads of clipboard.cc:48, 50
and 51.  A NULL `nContext->clipboard` is the empty set.  `PreConnect` covers the
return of -1, which is `TRUE`: the connection goes on without the handlers.  The
channel may close and open again at any time, between the two stores too.  For the
properties, a request notes what had been announced (`since`), whether `set_data` was
at work (`quiet`), the last text before the opening (`before`) and whether the opening
fell into a call of `set_data` (`astride`).  `RecordHeals` says how long a record that
such an opening has torn stays so: until the next `sendClipboard` has returned.

In `Rail` an order is its name and the handshake it answers; the handler ignores what
sending returns, so any `MaxLost` of the orders of a handshake may not arrive;
`missing` is a history of these.  `OrdersInSequence` compares what arrives with the
protocol: an answer begins with the client's own handshake and ends with the start of
the application, answers do not mix, nothing comes twice, and every order that is not
`missing` has come.  The order among the others is the handler's own choice and
nothing is said of it. `ClientOrders` joins what is sent of each order, in the
handler's order. `Channels` is the dispatch of channel.cc on a channel's name over the
two.

### 2.4 `Paint`

The picture is a row of columns; a pixel is the number of the operation that
drew it.  A region is an interval, as FreeRDP's invalid region is a rectangle.
`EndPaintKeyframe` and `ResetKeyframe` are rdp.cc:91-98 and 99: the main thread's
`RequestKeyframe` may come between them.  `hwnd->ninvalid` is not kept: FreeRDP
raises it with every widening and nothing lowers it, so `ninvalid < 1` never
holds when `invalid->null` does not.  `owed`, `stale` and the `late` of an event are
history: `late` has the columns of an event in which a newer one has been delivered
first, and `stale` the columns of the canvas last painted by such an event.  A column
leaves `stale` with the next event that covers it and has not been overtaken there, so
that `CanvasConverges` says exactly what overtaking costs and when it is made good.
`EndPaint` is the callback as a whole, for the fairness below.

`Paint` is about which region is copied when and in which order events arrive; the
bytes are in `Copy` and `Picture`.

### 2.5 `Copy`, `Color`, `Picture`

In `Copy` a byte of the picture is its address, so that `args->buffer` shows where
each of its bytes was copied from, and -1 is what `new` leaves.  `CopyRow` is one
turn of the loop of rdp.cc:115-122, with `AsInt` after every operation of the code
on `int`: what wraps around in C wraps around here, at `IntMax`.

`Color` has the inline functions of color.h that a pixel passes through: reading
it from memory, splitting it into channels, joining these in another format,
writing it.  A format is the record of what the macro packs, a colour the sequence
of its four bytes.  An operator covers the cases of a `switch` that differ only in
the format's type and widths; the exceptions are named (the alpha that RGBX32
keeps and XRGB32 drops, the 16th bit of the 15 bit formats).

`Picture` gives the addresses contents: the server fills rectangles with colours in
its own format, FreeRDP stores them in `PIXEL_FORMAT_RGBX32` (rdp.cc:132), `Copy`'s
steps copy, the application puts the event's bytes on its canvas.  The palette of a
server of 8 bits is the constant `Index`, which gives each colour a number of its own
(`PictureAssumption`).  `Seen` is what should arrive of a colour: each channel's upper
bits, as many as the format has, and an alpha of its own only if the format has one.

### 2.6 `Pointer`

A buffer is a cell of the heap and its pixels are the number of the shape they
show.  `AllocPointer` and `CopyPrototype` are the two reads FreeRDP makes of its
prototype, which `node_register_pointer` fills part by part on the main thread;
`NewPointer`, `PutPointer` and `SetPointer` call `node_Pointer_New`, `Free` and
`Set` if the record has them.  A pointer made from a prototype that is not complete
is too small for its `NodePointer`, or lacks a callback: from there on nothing is
noticed or the process ends.  `node_Pointer_Set` looks at nothing but whether it has
a pointer: with pixels it copies them (`EmitPointer`); if the record ends before
the field `buffer`, it copies from whatever is found there (`EmitWild`) or crashes; if
`New` was missing and the field is NULL, it crashes.  `NoEmit` is the record without
`Set`, of which pointer.cc hears nothing.  `New` does not look whether FreeRDP could
convert the shape: if not, the pixels are what `malloc` left (`Garbage`), and an event
is emitted with them; `failed` has these shapes, and `CursorIsAShape` says that only
for them, or for a record made too early, the application shows anything but the
shape.  `raced`, `overtaken` and the cursor's `meant` are history.

### 2.7 `Input`

Flags are integers because a wheel's step is added to them (session.js:52), neither
masked nor negated.  What the application gives is kept as it gives it: axis, sign and
step.  The server's reading of nine bits in two's complement makes +120 of 120 and
-136 of 120 backward; `WheelAgrees` therefore promises the axis and the direction, and
the step itself forward only.  A step beyond a byte carries into the wheel's own
flags; below 768 it never reaches those of the buttons, which is what `MouseAgrees`
needs and why `InputAssumption` ends there.  A key is an `RDP_SCANCODE` of scancode.h,
whose ninth bit becomes the flag of an extended key.  The server's reading, bit by
bit, is external: the axis and a rotation of nine bits in two's complement from a
wheel event, button flags and position from any other, the code and the extended flag
from a key.

## 3. Runs

| run | instance | shows |
|---|---|---|
| `generator` | 2 client threads, 2 pool threads, 2 events each; 135 472 states | `ImplementsStream`: whatever the raced count does, no event is lost on the way, duplicated or run twice. `LossOnlyRaced`: libuv aborts, or the loop ends over an event, only after a write of the count overtook another. `EveryEventDelivered`: while the application holds a handle on the loop and libuv does not abort, every event is delivered |
| `generator_exit` (violation) | 1 client thread, 1 pool thread, 2 events | the loop reads the count for the end of the first event, the second event adds to it, the loop writes what it had read, less one, over it, and ends with that event on its way |
| `session_safety` | 2 sessions, 1 update each, any calls, reconnection, an exiting loop; 310 302 states | registry, first event, last event, each emitted once, and with them all that `Life` promises; a session is stopped by a `close()` of its own object or, if it is the first of the registry, by one of an object without an index; without stray calls a wild pointer is met only in the two known windows |
| `session_close` | 2 sessions, only `close`, live loop, no reconnection; 42 604 states | `close()` never crashes and is answered, and so is `connect()`, unless the thread could not be created |
| `session_reconnect` (violation) | 1 session, reconnection | `continue` at rdp.cc:194 skips the test of `stopping` |
| `clipboard` | `Channels`: an empty and a longer text, 2 requests, 2 openings of each channel, 2 handshakes, 1 lost order; 3 896 831 states | answers are not stale, undisturbed answers are whole, every request is answered, a patient application meets NULL only while the channel is closed, a torn record heals, each handshake starts the application once, after its other orders |
| `clipboard_torn` (violation) | 1 request | one text with the other's length |
| `clipboard_early` (violation) | the application does not wait | a store through NULL |
| `paint` | 3 columns, 3 operations, 2 requests; 876 913 states | no keyframe request is lost; it is answered if the server goes on painting, be it nothing; the canvas converges in every column but those where an overtaken event came last |
| `picture` | 3 by 2 pixels of 4 bytes, `IntMax` the size of the picture, all 17 formats with a colour, 2 colours, 2 operations; 392 156 states | no copy leaves the picture or the buffer, the buffer is the region, the canvas shows the server's colours |
| `pointer` | 2 cache indexes, 3 shapes, 4 buffers, 1 return to an earlier shape; 736 305 states | every buffer has one owner, the cursor is the shape its event was about (or garbage, for a shape not converted or a record made too early) and catches up with the server, the process ends only by the race of the registration |
| `input` | 2 buttons, corners of the screen, steps 0, 1, 120, 136, 255, 256, 600, 767, a key with its extended twin and another; 4096 states | buttons, position and keys arrive, also when a step carries; the wheel's axis and direction, forward its step too, arrive for a step of a byte |

**Why the bounds are enough.**  Races on the request count need two parties: two
client threads, or one and the loop, which is all that `generator_exit` has; an order
is lost between two events in two pool threads.  Add_session takes its two branches
with two sessions, and with two a call can go to the other's record.  One update event
is enough to be emitted after `connect` and before `close`.  A torn answer needs two
texts, a longer one and a shorter one; the empty text is the corner of `length > 0`.
With three columns regions are disjoint, touching, nested and joined over a gap.  In a
picture of 3 by 2 a region may start in the middle of a row, span rows of its own or
be the whole; with `IntMax` the size of the picture, any offset beyond it would wrap
around.  The two colours differ in the high and the low bits of each channel and in
alpha, which is 0 in one, so that no two channels can be exchanged unseen and both
values of an alpha of one bit occur.  Two cache indexes and three shapes let one shape
be replaced while another is current, and the return sets a shape left in the cache;
four buffers hold two cached pointers, a third in the making and an event at once, or
two of each, and when all are in use `New` and `Set` wait.  A wheel's step of 767 is
the last that stays below the buttons' flags, 256 the first to carry, and 600 one that
changes the axis. The second opening of a channel is the one that finds a text of the
application's. What is proved (section 5) does not depend on the bounds.

**Fairness.**  `Generator`: the operating system runs every thread that is inside
`uv_queue_work`, every pool thread and the loop.  Nothing makes a session emit,
or the application drop its handles.  `Session`: every client thread runs - the
wait in its loop times out after a second (rdp.cc:183), and `freerdp_connect` and
`client_auto_reconnect` are assumed to return - and so does the main thread
inside `connect()`; each event in flight is delivered, which is what
`EveryEventDelivered` shows of the generator.  Nothing obliges the application
to call, nor the server to let a connection be or end: a thread between two
rounds of its loop takes some step, fairness does not say which.  `Paint`: FreeRDP
ends every paint it has begun, `end_paint` returns, and some event on its way
arrives; as operations and requests are bounded, so are events, and this is enough
for each of them.  That the server paints again and again is not assumed but the
premise of `KeyframeAnswered`; rdp.cc:91 has nothing else to answer a request with.
The other specifications are checked without fairness.

**Conditions of the liveness properties.**  `EveryEventDelivered` ends with the
application's handle and with libuv's abort.  `CloseCompletes` and `ConnectAnswered`
except a session whose thread could not be created (rdp.cc:221): nothing in the code
tells the application.

**Conditions of `session_close`.**  `KeepAlive`: without a handle of the
application's own the process may exit before the event is emitted, as with the
timers of README.md:29-34, because a client thread is no handle of the loop.
`Reconnects = FALSE`: see `session_reconnect`.  `SlowHandshake`: `freerdp_connect`
takes longer than the rest of `connect()`; otherwise line 203 may read the record
before line 282 stores it, which is one of the two windows of
`CrashOnlyInDanger`.  Only `close` is called, for any other call may meet the
freed instance before the `close` event (the other window).

`CloseCompletes` does not promise that `close` comes last: events are separate
pieces of work for the pool, so a bitmap emitted before `close` may be delivered
after it.  `FifoDelivery` proves that a pool of one thread (`UV_THREADPOOL_SIZE=1`)
keeps the order.

## 4. Findings

* generator.cc:54: unlocked update of the loop's request count (`generator_exit`).  In
  the run the loop's decrement overwrites an increment, for which one session is
  enough; two increments of two sessions can overwrite each other too.  The loop then
  ends with an event on its way, if no handle is held, or libuv aborts the process as
  a request ends with the count at 0, whatever is held.
* rdp.cc:194: a reconnecting session does not notice `close()` (`session_reconnect`).
  The branch needs `client_auto_reconnect` to succeed again and again; session.js gives
  no option for reconnection, so that it depends on FreeRDP's own settings.
* rdp.cc:316-317: the clipboard's length and buffer are torn apart (`clipboard_torn`).
* rdp.cc:316: `sendClipboard` before the channel is open (`clipboard_early`).

Met while reading, and listed among the hazards, as no document says otherwise:

* the middle button is sent as a movement (`Input` reports the buttons 1 and 2 only;
  with a third `MouseAgrees` does not hold);
* `setClipboard` calls a function that is not registered;
* an opening of the clipboard channel puts the default text back, and one that falls
  between the two stores of `set_data` leaves a record of two texts, which is why
  `QuietResponseIsLatest` excepts what was astride of an opening; the next
  `sendClipboard` heals it (`RecordHeals`);
* a pointer allocated before its prototype is registered may end the process
  (`CrashOnlyRaced`); a shape FreeRDP cannot convert is emitted as `malloc` left it;
* nobody is told when the server hides the pointer or chooses its own;
* `pre_connect` returns -1 for `FALSE`;
* nobody looks at what `CreateThread` returns (rdp.cc:221): if it fails, the session
  has an index and never an event;
* the step of a wheel is added to its flags unmasked, and a step backward is not
  negated (session.js:52): 120 backward turns the server's wheel by -136.

## 5. Proofs

All theorems hold for every value of the constants that their named assumptions
(`GeneratorAssumption`, `ClipboardAssumption`, `CopyAssumption` and so on, one in each
module) allow.

* `GeneratorProofs`.  `TypeCorrect`.  `Implementation`: `Spec => Stream!Spec` with
  `inflight` the batons in the pool's queue, in its threads and in the loop's
  queue.  A step needs that a baton is in one of these places only and once, that
  it is in none before `Post`, and that the loop has finished work while it is
  about to run a callback; these are the conjuncts of the inductive invariant.
  `LossNeedsTheRace` proves `LossOnlyRaced` from that invariant and `CountInv`: as long as
  nothing is `lost`, the count is the number of batons registered and not yet ended.
  `FifoDelivery` assumes one worker and orders the batons along pool, worker,
  loop and callback.
* `SessionProofs`.  `TypeCorrect`; `RegistryIsSound` from `IndexInv`, which says for
  every place of `connect()` what the index is; `NoEarlyEvent` and `CloseIsTheLast`
  from `ThreadInv` and `EventInv`: only a session with a thread emits, its events are
  delivered only when `connect()` has returned (the main thread is busy until
  then), and a thread whose `close` is emitted has exited.  `OnlyItsOwnClose` holds of
  every application (`StopInv`): a `stopping` that is set without the object's own
  `close()` is that of the registry's first record, after a stray call.
  `DangerIsKnown` holds until the application strays.
* `PaintProofs`.  `TypeCorrect`; `KeyframesAreKept` from `Shape`: where the painter is
  about to reset the flag, what it is about to emit is a keyframe.
  `CanvasIsThePicture` from `CanvasInv`: for every column, what has been drawn and
  is not on the canvas is inside the invalid region, in the event about to be
  emitted, or in the last event on the wire that covers the column; or else (`Settled`)
  the newest event for the column has been delivered, the older ones still to come are
  `late` there, and the column is `stale` once one of them has painted it.
* `LifeProofs`.  `SessionKeepsLife`: `Session` implements `Life`.  Beyond `SessionProofs`'
  invariant a step needs `OrderInv`: a thread inside its connection has told of it,
  the updates told are the first so many, and one `connect()` at most is at work.
  `NothingIsEmittedTwice` adds `ConnectedInv`, that a thread which has told of its
  connection never comes back to it.  `SessionUsesStream`: what `Session` does with its
  events are steps of `EventStream`.  `Generator` implements that module
  (`Implementation`), and `EmitsOnce` says that its guard, an event is new, never
  holds a thread back: the two halves of the composition meet.
  `CloseIsSafe` assumes `SlowHandshake = TRUE` and `Calls = {"close"}`: then a thread
  that is connected has its record (`HandshakeInv`), and the careful application's
  index is its own.
* `PointerProofs`.  `PointerInv` says what a pointer at hand is at each place of the
  client thread (`PlaceInv`), that none made in time lacks a part (`PartsInv`), what
  the buffers hold (`ContentInv`), that events are numbered as they were emitted, and
  that the last of them, or else the cursor, is about the current shape (`LastInv`).
* `PictureProofs`.  `CopyInv`: in row `i` of the loop exactly the rows before `i` have
  been copied and `dest_pos` is their size, because no product of `int` overflows in
  a region of a picture whose size is an `int` (`SizeIsExact`, `StartIsExact`).
  `Picture`'s painter takes no other steps than `Copy`'s, so that the lemma
  `PictureIsCopied` carries `Copy`'s theorems over to `Picture`.
  `AppSeesServersPicture` has two parts.  `PixelIsSeen` is about one pixel: written by
  the server in any of the 17 formats, read, split, joined as RGBX32 and written by
  FreeRDP, it is `Seen` of the colour.  The formats fall into those of whole bytes
  (`BytesSplit`), of packed bits (`BitsSplit`, where division and remainder by powers of
  two take apart what multiplication has packed) and the palette (`PaletteColor`).
  `PictureInv` is about all pixels: the memory shows what was drawn, and wherever the
  canvas differs from the memory, the pixel is in the invalid region, in the region
  being copied, or in the event on its way, whose bytes are the memory's; for the
  copy's bytes it uses that a pixel's address is its row and column taken apart by
  `\div` and `%` (`PixelAddress`, `BufferPixel`).
* `ClipboardProofs`.  `RecordInv` says what the record holds at each of `set_data`'s
  places, `AnnounceInv` that what is announced has been stored, `RequestInv` what a
  request under way has seen, `PresenceInv` when there is a record.
  `ChannelsKeepClipboard`: the composition with `Rail` implements `Clipboard`, so that
  its theorems hold of `Channels`.  `TornRecordsHeal` follows from `RecordInv`.
  `OrdersComeInSequence` is about `Channels` too: `RailInv` says that the orders received
  are in sequence and answer handshakes that have been, and that what was received is
  what was wanted and is not `missing`; an answer is joined from parts, each of a range
  of ranks (`Part`), and a part whose ranks all lie after another's joins it in sequence,
  whichever orders are missing (`PartsJoin`).  The ranks are the proof's own: the
  property knows the protocol's first and last order only.
* `InputProofs`.  The three properties with the types are inductive; the lemmas say
  of each kind of event what the server reads from its flags, for any step below
  768 (of a byte, for the wheel itself), any position of 16 bits and any scan code of
  the table.

Only model-checked: liveness (`EveryEventDelivered`, `CloseCompletes`, `ConnectAnswered`,
`KeyframeAnswered`).  It rests on fairness and on which actions are enabled, which is
beyond the prover.  The properties of the four runs that expect a violation are false
of the code, so there is nothing to prove of them.

## 6. What is assumed of the code outside

* libuv: the pool's queue and the loop's queue of finished work are locked; the
  request count is not (libuv before 1.19 keeps a list in its place, and races on
  its links); the loop is left when the count is 0 and no handle is active; and the end
  of a request asserts that there are active requests, an assertion that Node's
  builds of libuv have compiled in.
* FreeRDP: callbacks of a session's channel do not overlap the event that closes
  it; `freerdp_free` frees the instance, not the context; the GDI widens the
  invalid region by every operation; nothing is sent over a closed channel; a
  pointer is allocated with the size and the functions its prototype has at the
  time, kept in a cache by index, and given to `Free` when its index is used again;
  the palette is kept in the format of the picture, and the invalid region inside
  it; every pixel passes through `FreeRDPConvertColor` on its way into the picture,
  also from a format equal to it (a plain copy of equal formats would keep an X byte
  as it was sent); the flags of a key are the ninth bit of its code beside press or release.
* The server reads the flags of input events as the protocol has them.
* A store the compiler emits for `stopping`, `keyframe`, `length` and `buffer` is
  seen by the other thread in order (they are plain variables; the build is for
  x64, whose stores stay in order).

## 7. Not modelled

* The command line and the connection's settings: strings and constants handed to
  FreeRDP.  Only whether they are accepted is modelled, and the settings other parts
  depend on (the picture's format, the language bar).
* A second `connect()` on one `Session` object: it replaces the index and the first
  session is beyond reach.  `Life` promises nothing of such an object.
* The process's end under a client thread (rdp.cc:221): `Session` and `Generator` show
  the exit, no property forbids it, for README.md:29-34 keeps the loop alive.
* Memory that is never freed (the context, `draw_args` on `end_paint`'s early returns,
  old clipboard texts) has no effect on what the models tell apart.
* Module registration is a table; `gist` is included by nothing.
* `libs/win64` is vendored: headers and binaries of FreeRDP and winpr.  Of the headers,
  the inline functions and constants that the addon or its data pass through are in
  `Color` and `Input`; the rest declare functions whose bodies are not here.  These
  headers are some 42 000 of the repository's lines, the addon 1150, so the share of
  all lines that the models stand for is small although nothing of the addon that has
  state is left out.

## 8. The project's state

All components of section 1 that keep state are modelled, with the exceptions of
section 7.  Every invariant, action property and refinement of the passing runs is
stated by a theorem of section 5; the four liveness properties are checked on the
instances of section 3.  What could still be added without leaving the code: a
`Session` object that connects twice, and what `Life` could promise of it.
