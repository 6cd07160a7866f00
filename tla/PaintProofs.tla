------------------------------ MODULE PaintProofs ------------------------------
(***************************************************************************)
(* Proofs about Paint, for a picture of any width and any number of        *)
(* drawing operations and keyframe requests: its types, no keyframe        *)
(* request is lost, and the application's canvas becomes the picture.      *)
(***************************************************************************)
EXTENDS Paint, TLAPS

--------------------------------------------------------------------------------
(* Facts about the pieces of a step.                                       *)

DrawEvents ==
  UNION {[region : {r}, full : BOOLEAN, pixels : [Inside(r) -> Nat],
          late : SUBSET Inside(r)] : r \in Region}

LEMMA DrawEventsAre ==
  ASSUME NEW a \in DrawEvents
  PROVE  DrawEvent(a)
BY DEF DrawEvents, DrawEvent

LEMMA WholeIsRegion == Whole \in Region /\ Inside(Whole) = Columns
BY PaintAssumption DEF Whole, Region, Columns, Inside

LEMMA InsideIsColumns ==
  ASSUME NEW r \in Region
  PROVE  Inside(r) \subseteq Columns
BY PaintAssumption DEF Region, Columns, Inside

LEMMA DrawArgsTypes ==
  ASSUME NEW r \in Region, NEW full \in BOOLEAN, primary \in [Columns -> Nat]
  PROVE  /\ DrawArgs(r, full) \in DrawEvents
         /\ DrawArgs(r, full).region = r
         /\ DrawArgs(r, full).full = full
         /\ \A i \in Inside(r) : DrawArgs(r, full).pixels[i] = primary[i]
         /\ DrawArgs(r, full).late = {}
<1>1. \A i \in Inside(r) : primary[i] \in Nat
  BY InsideIsColumns
<1>2. [i \in Inside(r) |-> primary[i]] \in [Inside(r) -> Nat]
  BY <1>1
<1> QED BY <1>2 DEF DrawArgs, DrawEvents

\* The region that holds two others.
Joined(v, r) == [x |-> Lesser(v.x, r.x), end |-> Greater(v.end, r.end)]

LEMMA JoinedHoldsBoth ==
  ASSUME NEW v \in Region, NEW r \in Region
  PROVE  /\ Joined(v, r) \in Region
         /\ Inside(v) \cup Inside(r) \subseteq Inside(Joined(v, r))
BY PaintAssumption DEF Joined, Lesser, Greater, Region, Columns, Inside

\* What is left when the n-th event is taken off the wire.
LEMMA RemoveAtFacts ==
  ASSUME NEW S, NEW q \in Seq(S), NEW n \in 1 .. Len(q)
  PROVE  /\ RemoveAt(q, n) \in Seq(S)
         /\ Len(RemoveAt(q, n)) = Len(q) - 1
         /\ \A k \in 1 .. Len(q) - 1 :
              RemoveAt(q, n)[k] = IF k < n THEN q[k] ELSE q[k + 1]
<1>1. Len(q) \in Nat
  OBVIOUS
<1>2. /\ SubSeq(q, 1, n - 1) \in Seq(S)
      /\ Len(SubSeq(q, 1, n - 1)) = n - 1
      /\ \A k \in 1 .. n - 1 : SubSeq(q, 1, n - 1)[k] = q[k]
  BY <1>1
<1>3. /\ SubSeq(q, n + 1, Len(q)) \in Seq(S)
      /\ Len(SubSeq(q, n + 1, Len(q))) = Len(q) - n
      /\ \A k \in 1 .. Len(q) - n : SubSeq(q, n + 1, Len(q))[k] = q[n + k]
  BY <1>1
<1> DEFINE before == SubSeq(q, 1, n - 1)
           after  == SubSeq(q, n + 1, Len(q))
<1>4. before \in Seq(S) /\ after \in Seq(S)
  BY <1>2, <1>3
<1>5. /\ before \o after \in Seq(S)
      /\ Len(before \o after) = Len(before) + Len(after)
      /\ \A k \in 1 .. Len(before) + Len(after) :
           (before \o after)[k] = IF k <= Len(before) THEN before[k]
                                  ELSE after[k - Len(before)]
  BY <1>4
<1>6. Len(before) = n - 1 /\ Len(after) = Len(q) - n
  BY <1>2, <1>3
<1>7. \A k \in 1 .. Len(q) - 1 :
        (before \o after)[k] = IF k < n THEN q[k] ELSE q[k + 1]
  <2> SUFFICES ASSUME NEW k \in 1 .. Len(q) - 1
               PROVE  (before \o after)[k] = IF k < n THEN q[k] ELSE q[k + 1]
    OBVIOUS
  <2>1. CASE k < n
    <3>1. k \in 1 .. n - 1 /\ k <= n - 1
      BY <1>1, <2>1
    <3>2. before[k] = q[k]
      BY <1>2, <3>1
    <3> HIDE DEF before, after
    <3> QED BY <1>1, <1>5, <1>6, <2>1, <3>1, <3>2
  <2>2. CASE ~(k < n)
    <3>1. /\ k - (n - 1) \in 1 .. Len(q) - n
          /\ n + (k - (n - 1)) = k + 1
          /\ ~(k <= n - 1)
      BY <1>1, <2>2
    <3>2. after[k - (n - 1)] = q[k + 1]
      BY <1>3, <3>1
    <3> HIDE DEF before, after
    <3> QED BY <1>1, <1>5, <1>6, <2>2, <3>1, <3>2
  <2> QED BY <2>1, <2>2
<1>8. RemoveAt(q, n) = before \o after
  BY DEF RemoveAt
<1> HIDE DEF before, after
<1>9. Len(before \o after) = Len(q) - 1
  BY <1>1, <1>5, <1>6
<1> QED BY <1>5, <1>7, <1>8, <1>9

--------------------------------------------------------------------------------
(* Types.                                                                  *)

\* TypeOK, with the wire as a sequence.
TypeInv ==
  /\ painter \in {"idle", "painting", "reset", "emit"}
  /\ primary \in [Columns -> Nat]
  /\ draws \in 0 .. MaxDraws
  /\ invalid \subseteq Region
  /\ keyframe \in BOOLEAN
  /\ args \subseteq DrawEvents
  /\ wire \in Seq(DrawEvents)
  /\ canvas \in [Columns -> Nat]
  /\ requests \in 0 .. MaxRequests
  /\ owed \in BOOLEAN
  /\ stale \subseteq Columns

\* Being overtaken leaves an event what it was, but late.
LEMMA OvertakenFacts ==
  ASSUME NEW a \in DrawEvents, NEW b \in DrawEvents
  PROVE  /\ Overtaken(a, b) \in DrawEvents
         /\ Overtaken(a, b).region = a.region
         /\ Overtaken(a, b).full = a.full
         /\ Overtaken(a, b).pixels = a.pixels
         /\ Overtaken(a, b).late = a.late \cup (Inside(a.region) \cap Inside(b.region))
<1>1. PICK r \in Region :
        a \in [region : {r}, full : BOOLEAN, pixels : [Inside(r) -> Nat],
              late : SUBSET Inside(r)]
  BY DEF DrawEvents
<1>2. a.region = r /\ a.late \subseteq Inside(r)
  BY <1>1
<1>3. a.late \cup (Inside(a.region) \cap Inside(b.region)) \in SUBSET Inside(r)
  BY <1>2
<1>4. Overtaken(a, b) \in [region : {r}, full : BOOLEAN, pixels : [Inside(r) -> Nat],
                           late : SUBSET Inside(r)]
  BY <1>1, <1>3 DEF Overtaken
<1> QED BY <1>1, <1>4 DEF Overtaken, DrawEvents

\* The wire after the delivery of the n-th event: those before it are overtaken,
\* those after it have moved up.
LEMMA DeliveredWire ==
  ASSUME TypeInv, NEW n \in DOMAIN wire, DeliverDraw(n)
  PROVE  /\ DOMAIN wire = 1 .. Len(wire) /\ Len(wire) \in Nat
         /\ \A k \in 1 .. Len(wire) : wire[k] \in DrawEvents
         /\ wire' \in Seq(DrawEvents) /\ Len(wire') = Len(wire) - 1
         /\ DOMAIN wire' = 1 .. Len(wire) - 1
         /\ \A k \in 1 .. Len(wire) - 1 :
              wire'[k] = IF k < n THEN Overtaken(wire[k], wire[n]) ELSE wire[k + 1]
<1> DEFINE moved == [m \in DOMAIN wire |-> IF m < n THEN Overtaken(wire[m], wire[n])
                                          ELSE wire[m]]
<1>1. /\ DOMAIN wire = 1 .. Len(wire) /\ Len(wire) \in Nat
      /\ \A k \in 1 .. Len(wire) : wire[k] \in DrawEvents
      /\ n \in 1 .. Len(wire)
  BY DEF TypeInv
<1>2. moved \in [1 .. Len(wire) -> DrawEvents]
  BY <1>1, OvertakenFacts
<1>3. /\ moved \in Seq(DrawEvents) /\ Len(moved) = Len(wire)
      /\ \A k \in 1 .. Len(wire) :
           moved[k] = IF k < n THEN Overtaken(wire[k], wire[n]) ELSE wire[k]
  BY <1>1, <1>2
<1>4. wire' = RemoveAt(moved, n)
  BY DEF DeliverDraw
<1> HIDE DEF moved
<1>5. /\ wire' \in Seq(DrawEvents) /\ Len(wire') = Len(wire) - 1
      /\ \A k \in 1 .. Len(wire) - 1 :
           wire'[k] = IF k < n THEN moved[k] ELSE moved[k + 1]
  BY <1>1, <1>3, <1>4, RemoveAtFacts
<1>6. DOMAIN wire' = 1 .. Len(wire) - 1
  BY <1>1, <1>5
<1>7. ASSUME NEW k \in 1 .. Len(wire) - 1
      PROVE  wire'[k] = IF k < n THEN Overtaken(wire[k], wire[n]) ELSE wire[k + 1]
  <2>1. k \in 1 .. Len(wire) /\ k + 1 \in 1 .. Len(wire) /\ ~(k < n) => ~(k + 1 < n)
    BY <1>1
  <2> QED BY <1>3, <1>5, <2>1
<1> QED BY <1>1, <1>5, <1>6, <1>7

LEMMA TypeStep ==
  ASSUME TypeInv, [Next]_vars
  PROVE  TypeInv'
<1> USE PaintAssumption DEF TypeInv
<1>1. CASE BeginPaint
  BY <1>1 DEF BeginPaint
<1>2. ASSUME NEW r \in Region, Draw(r) PROVE TypeInv'
  <2>1. invalid' \subseteq Region
    <3>1. \A v \in invalid : Joined(v, r) \in Region
      BY JoinedHoldsBoth
    <3> QED BY <1>2, <3>1 DEF Draw, Joined
  <2>2. draws' \in 0 .. MaxDraws /\ primary' \in [Columns -> Nat]
    BY <1>2 DEF Draw
  <2> QED BY <1>2, <2>1, <2>2 DEF Draw
<1>3. CASE EndPaintKeyframe
  BY <1>3, WholeIsRegion, DrawArgsTypes DEF EndPaintKeyframe
<1>4. CASE ResetKeyframe
  BY <1>4 DEF ResetKeyframe
<1>5. CASE EndPaintInvalid
  <2>1. \A r \in invalid : DrawArgs(r, FALSE) \in DrawEvents
    BY DrawArgsTypes
  <2>2. args' \subseteq DrawEvents
    BY <1>5, <2>1 DEF EndPaintInvalid
  <2> QED BY <1>5, <2>2 DEF EndPaintInvalid
<1>6. CASE EndPaintNothing
  BY <1>6 DEF EndPaintNothing
<1>7. CASE EmitDraw
  <2>1. wire' \in Seq(DrawEvents)
    BY <1>7 DEF EmitDraw
  <2>2. /\ args' = {} /\ painter' = "idle"
        /\ UNCHANGED <<primary, draws, invalid, keyframe, canvas, requests,
                       owed, stale>>
    BY <1>7 DEF EmitDraw
  <2> QED BY <2>1, <2>2
<1>8. CASE RequestKeyframe
  <2>1. requests' \in 0 .. MaxRequests
    BY <1>8 DEF RequestKeyframe
  <2> QED BY <1>8, <2>1 DEF RequestKeyframe
<1>9. ASSUME NEW n \in DOMAIN wire, DeliverDraw(n) PROVE TypeInv'
  <2>1. n \in 1 .. Len(wire) /\ wire[n] \in DrawEvents
    OBVIOUS
  <2>2. wire' \in Seq(DrawEvents)
    BY <1>9, DeliveredWire
  <2>3. DrawEvent(wire[n])
    BY <2>1, DrawEventsAre
  <2>4. canvas' \in [Columns -> Nat]
    BY <1>9, <2>3 DEF DeliverDraw, DrawEvent
  <2>5. owed' \in BOOLEAN
    BY <1>9 DEF DeliverDraw
  <2>6. stale' \subseteq Columns
    <3>1. wire[n].late \subseteq Columns
      BY <2>3, InsideIsColumns DEF DrawEvent
    <3> QED BY <1>9, <3>1 DEF DeliverDraw
  <2> QED BY <1>9, <2>2, <2>4, <2>5, <2>6 DEF DeliverDraw
<1>10. CASE UNCHANGED vars
  BY <1>10 DEF vars
<1> QED
  BY <1>1, <1>2, <1>3, <1>4, <1>5, <1>6, <1>7, <1>8, <1>9, <1>10
     DEF Next, ClientStep, EndPaint, MainStep

LEMMA TypeInvariant == Spec => []TypeInv
<1>1. Init => TypeInv
  <2> SUFFICES ASSUME Init PROVE TypeInv
    OBVIOUS
  <2>1. wire \in Seq(DrawEvents)
    BY DEF Init
  <2>2. draws \in 0 .. MaxDraws /\ requests \in 0 .. MaxRequests
    BY PaintAssumption DEF Init
  <2>3. primary \in [Columns -> Nat] /\ canvas \in [Columns -> Nat]
    BY DEF Init
  <2> QED BY <2>1, <2>2, <2>3 DEF Init, TypeInv
<1> QED BY <1>1, TypeStep, PTL DEF Spec

\* The type invariant of the painter's state.
THEOREM TypeCorrect == Spec => []TypeOK
<1>1. TypeInv => TypeOK
  BY DrawEventsAre DEF TypeInv, TypeOK
<1> QED BY <1>1, TypeInvariant, PTL

--------------------------------------------------------------------------------
(* The painter's place and what it holds there.                            *)

Shape ==
  /\ painter \in {"idle", "painting"} => args = {}
  /\ painter \in {"reset", "emit"} => \E a \in DrawEvents : args = {a}
  /\ painter = "reset" => \A a \in args : a.full
  /\ invalid = {} \/ \E r \in Region : invalid = {r}

LEMMA ShapeStep ==
  ASSUME TypeInv, Shape, [Next]_vars
  PROVE  Shape'
<1> USE DEF Shape
<1>1. CASE BeginPaint
  BY <1>1 DEF BeginPaint
<1>2. ASSUME NEW r \in Region, Draw(r) PROVE Shape'
  <2>1. CASE invalid = {}
    BY <1>2, <2>1 DEF Draw
  <2>2. ASSUME NEW v \in Region, invalid = {v} PROVE Shape'
    <3>1. invalid' = {Joined(v, r)} /\ Joined(v, r) \in Region
      BY <1>2, <2>2, JoinedHoldsBoth DEF Draw, Joined
    <3> QED BY <1>2, <3>1 DEF Draw
  <2> QED BY <2>1, <2>2
<1>3. CASE EndPaintKeyframe
  <2>1. /\ DrawArgs(Whole, TRUE) \in DrawEvents
        /\ DrawArgs(Whole, TRUE).full = TRUE
    BY WholeIsRegion, DrawArgsTypes DEF TypeInv
  <2> QED BY <1>3, <2>1 DEF EndPaintKeyframe
<1>4. CASE ResetKeyframe
  BY <1>4 DEF ResetKeyframe
<1>5. CASE EndPaintInvalid
  <2>1. PICK r \in Region : invalid = {r}
    BY <1>5 DEF EndPaintInvalid
  <2>2. DrawArgs(r, FALSE) \in DrawEvents
    BY DrawArgsTypes DEF TypeInv
  <2>3. args' = {DrawArgs(r, FALSE)}
    BY <1>5, <2>1 DEF EndPaintInvalid
  <2> QED BY <1>5, <2>2, <2>3 DEF EndPaintInvalid
<1>6. CASE EndPaintNothing
  BY <1>6 DEF EndPaintNothing
<1>7. CASE EmitDraw
  BY <1>7 DEF EmitDraw
<1>8. CASE RequestKeyframe
  BY <1>8 DEF RequestKeyframe
<1>9. ASSUME NEW n \in DOMAIN wire, DeliverDraw(n) PROVE Shape'
  BY <1>9 DEF DeliverDraw
<1>10. CASE UNCHANGED vars
  BY <1>10 DEF vars
<1> QED
  BY <1>1, <1>2, <1>3, <1>4, <1>5, <1>6, <1>7, <1>8, <1>9, <1>10
     DEF Next, ClientStep, EndPaint, MainStep

LEMMA ShapeInvariant == Spec => [](TypeInv /\ Shape)
<1>1. Init => Shape
  BY DEF Init, Shape
<1> QED BY <1>1, ShapeStep, TypeInvariant, PTL DEF Spec

--------------------------------------------------------------------------------
(* Keyframes.                                                              *)

LEMMA KeyframeStep ==
  ASSUME TypeInv, Shape, KeyframeNotLost, [Next]_vars
  PROVE  KeyframeNotLost'
<1> USE DEF KeyframeNotLost
<1>1. CASE BeginPaint
  BY <1>1 DEF BeginPaint
<1>2. ASSUME NEW r \in Region, Draw(r) PROVE KeyframeNotLost'
  BY <1>2 DEF Draw
<1>3. CASE EndPaintKeyframe
  BY <1>3 DEF EndPaintKeyframe
<1>4. CASE ResetKeyframe
  BY <1>4 DEF ResetKeyframe, Shape
<1>5. CASE EndPaintInvalid
  BY <1>5 DEF EndPaintInvalid, Shape
<1>6. CASE EndPaintNothing
  BY <1>6 DEF EndPaintNothing
<1>7. CASE EmitDraw
  <2>1. PICK a \in DrawEvents : args = {a}
    BY <1>7 DEF EmitDraw, Shape
  <2>2. /\ wire' = Append(wire, a) /\ wire \in Seq(DrawEvents)
        /\ UNCHANGED <<owed, keyframe>>
    BY <1>7, <2>1 DEF EmitDraw, TypeInv
  <2>3. /\ DOMAIN wire' = 1 .. Len(wire) + 1
        /\ DOMAIN wire = 1 .. Len(wire)
        /\ wire'[Len(wire) + 1] = a
        /\ \A n \in 1 .. Len(wire) : wire'[n] = wire[n]
        /\ Len(wire) \in Nat
    BY <2>2
  <2> QED BY <2>1, <2>2, <2>3
<1>8. CASE RequestKeyframe
  BY <1>8 DEF RequestKeyframe
<1>9. ASSUME NEW n \in DOMAIN wire, DeliverDraw(n), owed' PROVE KeyframeNotLost'
  <2>1. owed /\ ~wire[n].full
    BY <1>9 DEF DeliverDraw
  <2>2. UNCHANGED <<keyframe, args>>
    BY <1>9 DEF DeliverDraw
  <2>3. ASSUME NEW m \in DOMAIN wire, wire[m].full
        PROVE  \E k \in DOMAIN wire' : wire'[k].full
    <3>1. /\ DOMAIN wire = 1 .. Len(wire) /\ Len(wire) \in Nat
          /\ \A k \in 1 .. Len(wire) : wire[k] \in DrawEvents
          /\ DOMAIN wire' = 1 .. Len(wire) - 1
          /\ \A k \in 1 .. Len(wire) - 1 :
               wire'[k] = IF k < n THEN Overtaken(wire[k], wire[n]) ELSE wire[k + 1]
      BY <1>9, DeliveredWire
    <3>2. m # n
      BY <2>1, <2>3
    <3>3. CASE m < n
      <4>1. m \in 1 .. Len(wire) - 1 /\ wire'[m] = Overtaken(wire[m], wire[n])
        BY <3>1, <3>3
      <4> QED BY <2>3, <3>1, <4>1, OvertakenFacts
    <3>4. CASE m > n
      <4>1. m - 1 \in 1 .. Len(wire) - 1 /\ ~(m - 1 < n) /\ (m - 1) + 1 = m
        BY <3>1, <3>4
      <4> QED BY <2>3, <3>1, <4>1
    <3> QED BY <3>1, <3>2, <3>3, <3>4
  <2> QED BY <2>1, <2>2, <2>3
<1>10. CASE UNCHANGED vars
  BY <1>10 DEF vars
<1> QED
  BY <1>1, <1>2, <1>3, <1>4, <1>5, <1>6, <1>7, <1>8, <1>9, <1>10
     DEF Next, ClientStep, EndPaint, MainStep

\* No request for a keyframe is lost, whenever end_paint tests and resets the
\* flag and in whatever order its events arrive.
THEOREM KeyframesAreKept == Spec => []KeyframeNotLost
<1>1. Init => KeyframeNotLost
  BY DEF Init, KeyframeNotLost
<1> QED BY <1>1, KeyframeStep, ShapeInvariant, PTL DEF Spec

--------------------------------------------------------------------------------
(* The canvas.                                                             *)

Covers(a, i) == i \in Inside(a.region)
Fresh(a, i)  == Covers(a, i) /\ a.pixels[i] = primary[i]

\* No event from the n-th of the wire on, and none about to be emitted, touches
\* the column.
Untouched(i, n) ==
  /\ \A m \in n .. Len(wire) : ~Covers(wire[m], i)
  /\ \A a \in args : ~Covers(a, i)

\* The newest event for column i has been delivered, so that the older ones which
\* may still come are late there.
Settled(i) ==
  /\ canvas[i] = primary[i] \/ i \in stale
  /\ \A m \in 1 .. Len(wire) : Covers(wire[m], i) => i \in wire[m].late
  /\ \A a \in args : ~Covers(a, i)

\* What has been drawn to column i and is not on the canvas is on its way, with
\* nothing newer behind it, or was there before something older came.
Coming(i) ==
  \/ painter = "painting" /\ \E r \in invalid : i \in Inside(r)
  \/ \E a \in args : Fresh(a, i)
  \/ \E n \in 1 .. Len(wire) : Fresh(wire[n], i) /\ Untouched(i, n + 1)
  \/ Settled(i)

CanvasInv == \A i \in Columns : Coming(i)

LEMMA DeliveredIsComing ==
  ASSUME TypeInv, NEW n \in DOMAIN wire, DeliverDraw(n), NEW i \in Columns, Coming(i)
  PROVE  Coming(i)'
<1>1. /\ DOMAIN wire = 1 .. Len(wire) /\ Len(wire) \in Nat /\ n \in 1 .. Len(wire)
      /\ \A k \in 1 .. Len(wire) : wire[k] \in DrawEvents
      /\ Len(wire') = Len(wire) - 1
      /\ \A k \in 1 .. Len(wire) - 1 :
           wire'[k] = IF k < n THEN Overtaken(wire[k], wire[n]) ELSE wire[k + 1]
  BY DeliveredWire
<1>2. /\ UNCHANGED <<painter, invalid, args, primary>>
      /\ canvas'[i] = IF Covers(wire[n], i) THEN wire[n].pixels[i] ELSE canvas[i]
      /\ i \in stale' <=> (i \in stale /\ ~Covers(wire[n], i)) \/ i \in wire[n].late
  BY DEF DeliverDraw, Covers
<1>3. ASSUME NEW k \in 1 .. Len(wire) - 1, k < n
      PROVE  /\ Covers(wire'[k], i) <=> Covers(wire[k], i)
             /\ Fresh(wire'[k], i) <=> Fresh(wire[k], i)
             /\ i \in wire[k].late => i \in wire'[k].late
             /\ Covers(wire[k], i) /\ Covers(wire[n], i) => i \in wire'[k].late
  <2>1. wire'[k] = Overtaken(wire[k], wire[n]) /\ wire[k] \in DrawEvents
    BY <1>1, <1>3
  <2>2. /\ wire'[k].region = wire[k].region /\ wire'[k].pixels = wire[k].pixels
        /\ wire'[k].late = wire[k].late \cup (Inside(wire[k].region) \cap Inside(wire[n].region))
    BY <1>1, <2>1, OvertakenFacts
  <2> QED BY <2>2 DEF Covers, Fresh
<1>4. ASSUME NEW k \in 1 .. Len(wire) - 1, ~(k < n)
      PROVE  wire'[k] = wire[k + 1] /\ k + 1 \in 1 .. Len(wire)
  BY <1>1, <1>4
<1>5. ASSUME NEW m \in 1 .. Len(wire) - 1, Fresh(wire'[m], i),
             \A k \in m + 1 .. Len(wire) - 1 : ~Covers(wire'[k], i),
             \A a \in args : ~Covers(a, i)
      PROVE  Coming(i)'
  <2>1. Fresh(wire[m], i)'
    BY <1>2, <1>5 DEF Fresh, Covers
  <2>2. Untouched(i, m + 1)'
    BY <1>1, <1>2, <1>5 DEF Untouched, Covers
  <2> QED BY <1>1, <2>1, <2>2 DEF Coming
<1>6. ASSUME canvas'[i] = primary'[i] \/ i \in stale',
             \A k \in 1 .. Len(wire) - 1 : Covers(wire'[k], i) => i \in wire'[k].late,
             \A a \in args : ~Covers(a, i)
      PROVE  Coming(i)'
  <2>1. Settled(i)'
    BY <1>1, <1>2, <1>6 DEF Settled, Covers
  <2> QED BY <2>1 DEF Coming
<1>7. CASE painter = "painting" /\ \E r \in invalid : i \in Inside(r)
  BY <1>2, <1>7 DEF Coming
<1>8. CASE \E a \in args : Fresh(a, i)
  BY <1>2, <1>8 DEF Coming, Fresh, Covers
<1>9. ASSUME NEW m \in 1 .. Len(wire), Fresh(wire[m], i), Untouched(i, m + 1)
      PROVE  Coming(i)'
  <2>1. /\ \A k \in m + 1 .. Len(wire) : ~Covers(wire[k], i)
        /\ \A a \in args : ~Covers(a, i)
    BY <1>9 DEF Untouched
  <2>2. CASE m = n
    <3>1. canvas'[i] = primary'[i] /\ Covers(wire[n], i)
      BY <1>2, <1>9, <2>2 DEF Fresh
    <3>2. ASSUME NEW k \in 1 .. Len(wire) - 1, Covers(wire'[k], i)
          PROVE  i \in wire'[k].late
      <4>1. k < n
        BY <1>1, <1>4, <2>1, <2>2, <3>2
      <4> QED BY <1>3, <3>1, <3>2, <4>1
    <3> QED BY <1>6, <2>1, <3>1, <3>2
  <2>3. CASE m < n
    <3>1. m \in 1 .. Len(wire) - 1 /\ Fresh(wire'[m], i)
      BY <1>1, <1>3, <1>9, <2>3
    <3>2. ASSUME NEW k \in m + 1 .. Len(wire) - 1
          PROVE  ~Covers(wire'[k], i)
      <4>1. /\ k \in 1 .. Len(wire) - 1 /\ k \in m + 1 .. Len(wire)
            /\ k + 1 \in m + 1 .. Len(wire)
        BY <1>1
      <4> QED BY <1>3, <1>4, <2>1, <4>1
    <3> QED BY <1>5, <2>1, <3>1, <3>2
  <2>4. CASE m > n
    <3>1. m - 1 \in 1 .. Len(wire) - 1 /\ ~(m - 1 < n) /\ (m - 1) + 1 = m
      BY <1>1, <2>4
    <3>2. Fresh(wire'[m - 1], i)
      BY <1>4, <1>9, <3>1
    <3>3. ASSUME NEW k \in (m - 1) + 1 .. Len(wire) - 1
          PROVE  ~Covers(wire'[k], i)
      <4>1. /\ k \in 1 .. Len(wire) - 1 /\ ~(k < n) /\ k + 1 \in m + 1 .. Len(wire)
        BY <1>1, <2>4
      <4> QED BY <1>4, <2>1, <4>1
    <3> QED BY <1>5, <2>1, <3>1, <3>2, <3>3
  <2> QED BY <1>1, <2>2, <2>3, <2>4
<1>10. CASE Settled(i)
  <2>1. /\ canvas[i] = primary[i] \/ i \in stale
        /\ \A m \in 1 .. Len(wire) : Covers(wire[m], i) => i \in wire[m].late
        /\ \A a \in args : ~Covers(a, i)
    BY <1>10 DEF Settled
  <2>2. canvas'[i] = primary'[i] \/ i \in stale'
    BY <1>1, <1>2, <2>1
  <2>3. ASSUME NEW k \in 1 .. Len(wire) - 1, Covers(wire'[k], i)
        PROVE  i \in wire'[k].late
    <3>1. CASE k < n
      BY <1>1, <1>3, <2>1, <2>3, <3>1
    <3>2. CASE ~(k < n)
      BY <1>4, <2>1, <2>3, <3>2
    <3> QED BY <3>1, <3>2
  <2> QED BY <1>6, <2>1, <2>2, <2>3
<1> QED BY <1>7, <1>8, <1>9, <1>10 DEF Coming

LEMMA EmittedIsComing ==
  ASSUME TypeInv, Shape, EmitDraw, NEW i \in Columns, Coming(i)
  PROVE  Coming(i)'
<1>1. PICK a \in DrawEvents : args = {a}
  BY DEF EmitDraw, Shape
<1>2. /\ wire' = Append(wire, a) /\ args' = {} /\ painter # "painting"
      /\ UNCHANGED <<canvas, primary, stale>>
  BY <1>1 DEF EmitDraw
<1>3. /\ Len(wire) \in Nat /\ Len(wire') = Len(wire) + 1
      /\ wire'[Len(wire')] = a
      /\ \A m \in 1 .. Len(wire) : wire'[m] = wire[m]
  BY <1>2 DEF TypeInv
<1>4. ASSUME NEW n \in 1 .. Len(wire) + 1, Untouched(i, n)
      PROVE  Untouched(i, n)'
  <2>1. ~Covers(a, i)
    BY <1>1, <1>4 DEF Untouched
  <2>2. ASSUME NEW m \in n .. Len(wire') PROVE ~Covers(wire'[m], i)
    <3>1. CASE m = Len(wire')
      BY <1>3, <2>1, <3>1
    <3>2. CASE m # Len(wire')
      <4>1. m \in n .. Len(wire) /\ m \in 1 .. Len(wire)
        BY <1>3, <3>2
      <4> QED BY <1>3, <1>4, <4>1 DEF Untouched
    <3> QED BY <3>1, <3>2
  <2> QED BY <1>2, <2>2 DEF Untouched, Covers
<1>5. CASE Fresh(a, i)
  <2>1. Len(wire') \in 1 .. Len(wire') /\ Len(wire') + 1 > Len(wire')
    BY <1>3
  <2>2. Fresh(wire[Len(wire)], i)'
    BY <1>2, <1>3, <1>5 DEF Fresh, Covers
  <2>3. Untouched(i, Len(wire) + 1)'
    BY <1>2, <1>3 DEF Untouched
  <2> QED BY <2>1, <2>2, <2>3 DEF Coming
<1>6. ASSUME NEW n \in 1 .. Len(wire), Fresh(wire[n], i), Untouched(i, n + 1)
      PROVE  Coming(i)'
  <2>1. n \in 1 .. Len(wire') /\ n + 1 \in 1 .. Len(wire) + 1
    BY <1>3
  <2>2. Fresh(wire[n], i)'
    BY <1>2, <1>3, <1>6 DEF Fresh, Covers
  <2>3. Untouched(i, n + 1)'
    BY <1>4, <1>6, <2>1
  <2> QED BY <2>1, <2>2, <2>3 DEF Coming
<1>7. CASE Settled(i)
  <2>1. ~Covers(a, i)
    BY <1>1, <1>7 DEF Settled
  <2>2. ASSUME NEW m \in 1 .. Len(wire'), Covers(wire'[m], i)
        PROVE  i \in wire'[m].late
    <3>1. m # Len(wire')
      BY <1>3, <2>1, <2>2
    <3>2. m \in 1 .. Len(wire)
      BY <1>3, <3>1
    <3> QED BY <1>3, <1>7, <2>2, <3>2 DEF Settled
  <2>3. Settled(i)'
    BY <1>2, <1>7, <2>2 DEF Settled, Covers
  <2> QED BY <2>3 DEF Coming
<1> QED BY <1>1, <1>2, <1>5, <1>6, <1>7 DEF Coming

LEMMA CopiedIsComing ==
  ASSUME TypeInv, Shape, EndPaintKeyframe \/ EndPaintInvalid,
         NEW i \in Columns, Coming(i)
  PROVE  Coming(i)'
<1>1. /\ args = {} /\ UNCHANGED <<primary, wire, canvas, stale>>
      /\ painter' # "painting"
  BY DEF EndPaintKeyframe, EndPaintInvalid, Shape
<1>2. PICK r \in Region, full \in BOOLEAN :
        /\ args' = {DrawArgs(r, full)}
        /\ \A v \in invalid : i \in Inside(v) => i \in Inside(r)
  <2>1. CASE EndPaintKeyframe
    BY <2>1, WholeIsRegion DEF EndPaintKeyframe
  <2>2. CASE EndPaintInvalid
    <3>1. PICK r \in Region : invalid = {r}
      BY <2>2 DEF EndPaintInvalid, Shape
    <3> QED BY <2>2, <3>1 DEF EndPaintInvalid
  <2> QED BY <2>1, <2>2
<1>3. /\ DrawArgs(r, full).region = r
      /\ \A j \in Inside(r) : DrawArgs(r, full).pixels[j] = primary[j]
  BY DrawArgsTypes DEF TypeInv
<1>4. CASE i \in Inside(r)
  <2>1. Fresh(DrawArgs(r, full), i)
    BY <1>3, <1>4 DEF Fresh, Covers
  <2>2. \E a \in args' : Fresh(a, i)
    BY <1>2, <2>1
  <2> QED BY <1>1, <2>2 DEF Coming, Fresh
<1>5. CASE i \notin Inside(r)
  <2>1. \A a \in args' : ~Covers(a, i)
    BY <1>2, <1>3, <1>5 DEF Covers
  <2>2. ASSUME NEW n, Untouched(i, n) PROVE Untouched(i, n)'
    BY <1>1, <2>1, <2>2 DEF Untouched, Covers
  <2>3. ~(\E v \in invalid : i \in Inside(v))
    BY <1>2, <1>5
  <2>4. Settled(i) => Settled(i)'
    BY <1>1, <2>1 DEF Settled, Covers
  <2> QED BY <1>1, <2>2, <2>3, <2>4 DEF Coming, Fresh, Covers
<1> QED BY <1>4, <1>5

LEMMA DrawnIsComing ==
  ASSUME TypeInv, Shape, NEW r \in Region, Draw(r), NEW i \in Columns, Coming(i)
  PROVE  Coming(i)'
<1>1. /\ painter = "painting" /\ args = {}
      /\ UNCHANGED <<painter, args, wire, canvas, stale>>
      /\ primary'[i] = IF i \in Inside(r) THEN draws + 1 ELSE primary[i]
  BY DEF Draw, Shape
<1>2. \E v \in Region :
        /\ invalid' = {v}
        /\ \A u \in invalid \cup {r} : Inside(u) \subseteq Inside(v)
  <2>1. CASE invalid = {}
    BY <2>1 DEF Draw
  <2>2. ASSUME NEW u \in Region, invalid = {u}
        PROVE  \E v \in Region :
                 /\ invalid' = {v}
                 /\ \A w \in invalid \cup {r} : Inside(w) \subseteq Inside(v)
    <3>1. invalid' = {Joined(u, r)}
      BY <2>2 DEF Draw, Joined
    <3> QED BY <2>2, <3>1, JoinedHoldsBoth
  <2> QED BY <2>1, <2>2 DEF Shape
<1>3. CASE i \in Inside(r) \/ \E u \in invalid : i \in Inside(u)
  BY <1>1, <1>2, <1>3 DEF Coming
<1>4. CASE i \notin Inside(r) /\ ~(\E u \in invalid : i \in Inside(u))
  <2>1. primary'[i] = primary[i]
    BY <1>1, <1>4
  <2> QED BY <1>1, <1>4, <2>1 DEF Coming, Settled, Fresh, Covers, Untouched
<1> QED BY <1>3, <1>4

LEMMA CanvasStep ==
  ASSUME TypeInv, Shape, CanvasInv, [Next]_vars
  PROVE  CanvasInv'
<1> SUFFICES ASSUME NEW i \in Columns PROVE Coming(i)'
  BY DEF CanvasInv
<1>1. Coming(i)
  BY DEF CanvasInv
<1> USE DEF Coming, Settled, Fresh, Covers, Untouched
<1>2. CASE BeginPaint
  BY <1>1, <1>2 DEF BeginPaint
<1>3. ASSUME NEW r \in Region, Draw(r) PROVE Coming(i)'
  BY <1>1, <1>3, DrawnIsComing
<1>4. CASE EndPaintKeyframe \/ EndPaintInvalid
  BY <1>1, <1>4, CopiedIsComing
<1>5. CASE ResetKeyframe
  BY <1>1, <1>5 DEF ResetKeyframe
<1>6. CASE EndPaintNothing
  BY <1>1, <1>6 DEF EndPaintNothing
<1>7. CASE EmitDraw
  BY <1>1, <1>7, EmittedIsComing
<1>8. CASE RequestKeyframe
  BY <1>1, <1>8 DEF RequestKeyframe
<1>9. ASSUME NEW n \in DOMAIN wire, DeliverDraw(n) PROVE Coming(i)'
  BY <1>1, <1>9, DeliveredIsComing
<1>10. CASE UNCHANGED vars
  BY <1>1, <1>10 DEF vars
<1> QED
  BY <1>2, <1>3, <1>4, <1>5, <1>6, <1>7, <1>8, <1>9, <1>10
     DEF Next, ClientStep, EndPaint, MainStep

\* Whenever nothing is on its way, the application's canvas is the session's
\* picture, whichever branches of end_paint have emitted it and wherever keyframes
\* were asked for, but for columns where the last event delivered had been
\* overtaken (rdp.cc:79-127).
THEOREM CanvasIsThePicture == Spec => []CanvasConverges
<1>1. Init => CanvasInv
  <2> SUFFICES ASSUME Init, NEW i \in Columns PROVE Coming(i)
    BY DEF CanvasInv
  <2>1. canvas[i] = primary[i] /\ args = {} /\ Len(wire) = 0
    BY DEF Init
  <2> QED BY <2>1 DEF Coming, Settled
<1>2. TypeInv /\ Shape /\ CanvasInv => CanvasConverges
  <2> SUFFICES ASSUME TypeInv, Shape, CanvasInv, painter = "idle", wire = <<>>,
                      NEW i \in Columns \ stale
               PROVE  canvas[i] = primary[i]
    BY DEF CanvasConverges
  <2>1. args = {} /\ Len(wire) = 0
    BY DEF Shape
  <2> QED BY <2>1 DEF CanvasInv, Coming, Settled
<1> QED BY <1>1, <1>2, CanvasStep, ShapeInvariant, PTL DEF Spec
================================================================================
