--------------------------------- MODULE Paint ---------------------------------
(***************************************************************************)
(* The picture of one session on its way to the application: FreeRDP calls *)
(* nodefreerdp_begin_paint and nodefreerdp_end_paint (rdp.cc) around what  *)
(* it draws, end_paint emits a draw event with the region that changed or, *)
(* when a keyframe was asked for on the main thread, with the whole        *)
(* picture, and the application copies the events' pixels to its canvas.   *)
(* The picture is a row of columns; a pixel is the number of the drawing   *)
(* operation that made it.                                                 *)
(***************************************************************************)
EXTENDS Integers, Sequences, Functions, SequencesExt

CONSTANTS Width,        \* columns of the picture
          MaxDraws,     \* bound: drawing operations
          MaxRequests   \* bound: calls of requestKeyframe

ASSUME PaintAssumption ==
  /\ Width \in Nat \ {0}
  /\ MaxDraws \in Nat
  /\ MaxRequests \in Nat

VARIABLES
  painter,   \* where the client thread is
  primary,   \* gdi->primary_buffer
  draws,     \* drawing operations so far
  invalid,   \* hwnd->invalid: the region drawn to, {} when its null is TRUE
  keyframe,  \* nContext->keyframe
  args,      \* the draw_args end_paint fills
  wire,      \* draw events on their way
  canvas,    \* what the application has made of the events it got
  requests,  \* calls of requestKeyframe so far
  owed,      \* the application called and has got no keyframe since
  stale      \* history: the columns last painted by an event that a newer one
             \* had overtaken there

vars == <<painter, primary, draws, invalid, keyframe, args, wire, canvas,
          requests, owed, stale>>

Columns == 0 .. Width - 1
Region == {r \in [x : Columns, end : Columns] : r.x <= r.end}
Inside(r) == r.x .. r.end
Whole == [x |-> 0, end |-> Width - 1]

Lesser(a, b) == IF a < b THEN a ELSE b
Greater(a, b) == IF a > b THEN a ELSE b

\* Mutant of DrawArgs: the region is told one column wider than it was copied.
DrawArgsWide(r, full) ==
  [region |-> [r EXCEPT !.end = @ + 1], full |-> full,
   pixels |-> [i \in Inside(r) |-> primary[i]], late |-> {}]

\* A draw event: its region and the region's pixels.  For the properties below,
\* "late" notes in which of its columns a newer event has overtaken it.
DrawArgs(r, full) ==
  [region |-> r, full |-> full, pixels |-> [i \in Inside(r) |-> primary[i]],
   late |-> {}]

Init ==
  /\ painter = "idle"
  /\ primary = [i \in Columns |-> 0]
  /\ draws = 0
  /\ invalid = {}
  /\ keyframe = FALSE
  /\ args = {}
  /\ wire = <<>>
  /\ canvas = [i \in Columns |-> 0]
  /\ requests = 0
  /\ owed = FALSE
  /\ stale = {}

--------------------------------------------------------------------------------
(* The client thread.                                                      *)

\* Mutant of BeginPaint: it clears the keyframe flag with the invalid region.
BeginPaintClears ==
  /\ painter = "idle"
  /\ painter' = "painting"
  /\ invalid' = {}
  /\ keyframe' = FALSE
  /\ UNCHANGED <<primary, draws, args, wire, canvas, requests, owed,
                 stale>>

BeginPaint ==
  /\ painter = "idle"
  /\ painter' = "painting"
  /\ invalid' = {}
  /\ UNCHANGED <<primary, draws, keyframe, args, wire, canvas, requests, owed,
                 stale>>

\* FreeRDP's GDI draws to a region and widens the invalid region by it.
Draw(r) ==
  /\ painter = "painting"
  /\ draws < MaxDraws
  /\ draws' = draws + 1
  /\ primary' = [i \in Columns |->
                   IF i \in Inside(r) THEN draws + 1 ELSE primary[i]]
  /\ invalid' = IF invalid = {} THEN {r}
                ELSE {[x |-> Lesser(v.x, r.x), end |-> Greater(v.end, r.end)] :
                        v \in invalid}
  /\ UNCHANGED <<painter, keyframe, args, wire, canvas, requests, owed,
                 stale>>

\* nodefreerdp_end_paint finds the keyframe flag set and copies everything.
EndPaintKeyframe ==
  /\ painter = "painting"
  /\ keyframe
  /\ args' = {DrawArgs(Whole, TRUE)}
  /\ painter' = "reset"
  /\ UNCHANGED <<primary, draws, invalid, keyframe, wire, canvas, requests, owed,
                 stale>>

\* It resets the flag, whoever has set it again meanwhile.
ResetKeyframe ==
  /\ painter = "reset"
  /\ keyframe' = FALSE
  /\ painter' = "emit"
  /\ UNCHANGED <<primary, draws, invalid, args, wire, canvas, requests, owed,
                 stale>>

\* Mutant of EndPaintInvalid: the last column is not copied.
EndPaintShort ==
  /\ painter = "painting"
  /\ ~keyframe
  /\ invalid # {}
  /\ args' = {DrawArgs([r EXCEPT !.end = IF @ > r.x THEN @ - 1 ELSE @], FALSE) :
                r \in invalid}
  /\ painter' = "emit"
  /\ UNCHANGED <<primary, draws, invalid, keyframe, wire, canvas, requests, owed,
                 stale>>

\* It finds the flag clear and copies the invalid region.
EndPaintInvalid ==
  /\ painter = "painting"
  /\ ~keyframe
  /\ invalid # {}
  /\ args' = {DrawArgs(r, FALSE) : r \in invalid}
  /\ painter' = "emit"
  /\ UNCHANGED <<primary, draws, invalid, keyframe, wire, canvas, requests, owed,
                 stale>>

\* Mutant of EndPaintNothing: it returns before it looks at the flag.
EndPaintNothingFirst ==
  /\ painter = "painting"
  /\ invalid = {}
  /\ painter' = "idle"
  /\ UNCHANGED <<primary, draws, invalid, keyframe, args, wire, canvas, requests,
                 owed, stale>>

\* It finds the flag clear and nothing drawn, and returns.
EndPaintNothing ==
  /\ painter = "painting"
  /\ ~keyframe
  /\ invalid = {}
  /\ painter' = "idle"
  /\ UNCHANGED <<primary, draws, invalid, keyframe, args, wire, canvas, requests,
                 owed, stale>>

EmitDraw ==
  /\ painter = "emit"
  /\ \E a \in args : wire' = Append(wire, a)
  /\ args' = {}
  /\ painter' = "idle"
  /\ UNCHANGED <<primary, draws, invalid, keyframe, canvas, requests, owed,
                 stale>>

--------------------------------------------------------------------------------
(* The main thread.                                                        *)

RequestKeyframe ==
  /\ requests < MaxRequests
  /\ requests' = requests + 1
  /\ keyframe' = TRUE
  /\ owed' = TRUE
  /\ UNCHANGED <<painter, primary, draws, invalid, args, wire, canvas, stale>>

\* Event a when event b, emitted after it, is delivered before it.
Overtaken(a, b) ==
  [a EXCEPT !.late = @ \cup (Inside(a.region) \cap Inside(b.region))]

\* The application gets a draw event, not always the oldest.
DeliverDraw(n) ==
  /\ n \in DOMAIN wire
  /\ canvas' = [i \in Columns |-> IF i \in Inside(wire[n].region)
                                  THEN wire[n].pixels[i] ELSE canvas[i]]
  /\ owed' = (owed /\ ~wire[n].full)
  /\ stale' = (stale \ Inside(wire[n].region)) \cup wire[n].late
  /\ wire' = RemoveAt([m \in DOMAIN wire |-> IF m < n THEN Overtaken(wire[m], wire[n])
                                             ELSE wire[m]], n)
  /\ UNCHANGED <<painter, primary, draws, invalid, keyframe, args, requests>>

--------------------------------------------------------------------------------
\* nodefreerdp_end_paint, from its call to its return.
EndPaint == \/ EndPaintKeyframe \/ ResetKeyframe \/ EndPaintInvalid
            \/ EndPaintNothing \/ EmitDraw

ClientStep == BeginPaint \/ (\E r \in Region : Draw(r)) \/ EndPaint

MainStep == RequestKeyframe \/ \E n \in DOMAIN wire : DeliverDraw(n)

Next == ClientStep \/ MainStep

Spec == Init /\ [][Next]_vars

\* FreeRDP ends every paint it has begun and end_paint, once called, returns;
\* events arrive, as the generator has it.  Nothing makes the server paint, the
\* GDI draw, or the application ask.
Fairness == /\ WF_vars(EndPaint)
            /\ WF_vars(\E n \in DOMAIN wire : DeliverDraw(n))

FairSpec == Spec /\ Fairness

--------------------------------------------------------------------------------
DrawEvent(a) ==
  /\ a.region \in Region
  /\ a.full \in BOOLEAN
  /\ a.pixels \in [Inside(a.region) -> Nat]
  /\ a.late \subseteq Inside(a.region)

\* The type invariant of the painter's state.
TypeOK ==
  /\ painter \in {"idle", "painting", "reset", "emit"}
  /\ primary \in [Columns -> Nat]
  /\ draws \in 0 .. MaxDraws
  /\ invalid \subseteq Region
  /\ keyframe \in BOOLEAN
  /\ \A a \in args : DrawEvent(a)
  /\ \A n \in DOMAIN wire : DrawEvent(wire[n])
  /\ canvas \in [Columns -> Nat]
  /\ requests \in 0 .. MaxRequests
  /\ owed \in BOOLEAN
  /\ stale \subseteq Columns

\* However requestKeyframe races end_paint's test and its reset of the flag
\* (rdp.cc:91-99, 327), a request is still to be seen by end_paint or a keyframe
\* it will get is on its way: the reset swallows no request.
KeyframeNotLost ==
  owed => \/ keyframe
          \/ \E a \in args : a.full
          \/ \E n \in DOMAIN wire : wire[n].full

\* If the server paints again and again, be it nothing at all, every request is
\* answered: a still picture, or a paint that draws nothing, keeps no keyframe back
\* (rdp.cc:91 looks at the flag before 102 looks at the invalid region).
KeyframeAnswered ==
  ([]<>(painter = "painting")) => (owed ~> ~owed)

\* When nothing is left to deliver the application has the picture, but for the
\* columns where an older event was painted over a newer one that had overtaken
\* it, and only until the next event there: every region drawn to between
\* begin_paint and end_paint is part of an event (rdp.cc:79-127), whichever branch
\* emitted it, and an event out of order does no harm beyond what it covers.
CanvasConverges ==
  painter = "idle" /\ wire = <<>> =>
    \A i \in Columns \ stale : canvas[i] = primary[i]
================================================================================
