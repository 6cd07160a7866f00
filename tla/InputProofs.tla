------------------------------ MODULE InputProofs ------------------------------
(***************************************************************************)
(* What the server understands is what the application reported, for any   *)
(* of the keys, positions and steps that the assumption allows.  Each kind *)
(* of event has a lemma that says what the server reads out of the flags.  *)
(***************************************************************************)
EXTENDS Input, TLAPS

Key == [code : Byte, extended : BOOLEAN]

\* How the application turns the wheel, and how the server's wheel is turned.
Asked  == [horizontal : BOOLEAN, negative : BOOLEAN, step : 0 .. 767]
Turned == [horizontal : BOOLEAN, rotation : Int]

TypeInv ==
  /\ app \in [pressed : SUBSET {1, 2}, at : Int \X Int, wheel : Asked,
              keys : SUBSET Scancodes]
  /\ server \in [pressed : SUBSET {1, 2, 3}, at : Int \X Int, wheel : Turned,
                 keys : SUBSET Key]

IInv == TypeInv /\ MouseAgrees /\ WheelAgrees /\ KeysAgree

Flags == /\ PTR_FLAGS_MOVE = 2048 /\ PTR_FLAGS_DOWN = 32768
         /\ PTR_FLAGS_BUTTON1 = 4096 /\ PTR_FLAGS_BUTTON2 = 8192
         /\ PTR_FLAGS_BUTTON3 = 16384 /\ PTR_FLAGS_HWHEEL = 1024
         /\ PTR_FLAGS_WHEEL = 512 /\ PTR_FLAGS_WHEEL_NEGATIVE = 256
         /\ WheelRotationMask = 511 /\ KBDEXT = 256
         /\ KBD_FLAGS_DOWN = 16384 /\ KBD_FLAGS_RELEASE = 32768

LEMMA FlagsFact == Flags
  BY DEF Flags, PTR_FLAGS_MOVE, PTR_FLAGS_DOWN, PTR_FLAGS_BUTTON1, PTR_FLAGS_BUTTON2,
         PTR_FLAGS_BUTTON3, PTR_FLAGS_HWHEEL, PTR_FLAGS_WHEEL, PTR_FLAGS_WHEEL_NEGATIVE,
         WheelRotationMask, KBDEXT, KBD_FLAGS_DOWN, KBD_FLAGS_RELEASE

--------------------------------------------------------------------------------
\* The flags of a button or a movement fit 16 bits, stand for no wheel, and say
\* which button it is and whether it is pressed.
LEMMA PointerFlagsFacts ==
  ASSUME NEW b \in {0, 1, 2}, NEW p \in BOOLEAN
  PROVE  LET f == UInt16(PointerFlags(b, p))
         IN  /\ ~IsWheel(f)
             /\ ButtonsOf(f) = {b} \ {0}
             /\ b # 0 => (Has(f, PTR_FLAGS_DOWN) <=> p)
  <1> DEFINE f == UInt16(PointerFlags(b, p))
  <1>1. f = IF b = 0 THEN 2048
            ELSE (IF b = 1 THEN 4096 ELSE 8192) + (IF p THEN 32768 ELSE 0)
    <2>1. CASE b = 0
      BY <2>1, FlagsFact DEF Flags, PointerFlags, UInt16
    <2>2. CASE b = 1
      BY <2>2, FlagsFact DEF Flags, PointerFlags, UInt16
    <2>3. CASE b = 2
      BY <2>3, FlagsFact DEF Flags, PointerFlags, UInt16
    <2> QED BY <2>1, <2>2, <2>3
  <1> HIDE DEF f
  <1>2. ~IsWheel(f)
    BY <1>1, FlagsFact DEF Flags, IsWheel, Has
  <1>3. /\ Has(f, PTR_FLAGS_BUTTON1) <=> b = 1
        /\ Has(f, PTR_FLAGS_BUTTON2) <=> b = 2
        /\ ~Has(f, PTR_FLAGS_BUTTON3)
    BY <1>1, FlagsFact DEF Flags, Has
  <1>4. b # 0 => (Has(f, PTR_FLAGS_DOWN) <=> p)
    BY <1>1, FlagsFact DEF Flags, Has
  <1>5. ButtonsOf(f) = {b} \ {0}
    BY <1>3 DEF ButtonsOf
  <1> QED BY <1>2, <1>4, <1>5 DEF f

\* The flags of a wheel event fit 16 bits and stand for a wheel, also when a step
\* carries into them.
LEMMA WheelFlagsStay ==
  ASSUME NEW step \in 0 .. 767, NEW n \in BOOLEAN, NEW h \in BOOLEAN
  PROVE  LET f == UInt16(WheelFlags(step, n, h))
         IN  /\ f \in Int
             /\ IsWheel(f)
             /\ RotationOf(f) \in Int
  <1> DEFINE f == UInt16(WheelFlags(step, n, h))
  <1>1. f = (IF h THEN 1024 ELSE 512) + (IF n THEN 256 ELSE 0) + step
    BY FlagsFact DEF Flags, WheelFlags, UInt16
  <1>2. f \in 512 .. 2047
    BY <1>1
  <1> HIDE DEF f
  <1>3. f \div 512 \in {1, 2, 3} /\ (f \div 512 = 2 => f \div 1024 = 1)
    BY <1>2
  <1>4. IsWheel(f)
    BY <1>3, FlagsFact DEF Flags, IsWheel, Has
  <1>5. RotationOf(f) \in Int
    BY <1>2, FlagsFact DEF Flags, RotationOf
  <1> QED BY <1>2, <1>4, <1>5 DEF f

\* As long as the step is a byte, they say which axis the wheel turns about and in
\* which direction, and how far if that is forward.
LEMMA WheelFlagsFacts ==
  ASSUME NEW step \in Byte, NEW n \in BOOLEAN, NEW h \in BOOLEAN
  PROVE  LET f == UInt16(WheelFlags(step, n, h))
         IN  /\ Has(f, PTR_FLAGS_HWHEEL) = h
             /\ IF n THEN RotationOf(f) < 0 ELSE RotationOf(f) = step
  <1> DEFINE f == UInt16(WheelFlags(step, n, h))
  <1> step \in 0 .. 255
    BY DEF Byte
  <1>1. f = (IF h THEN 1024 ELSE 512) + (IF n THEN 256 ELSE 0) + step
    BY FlagsFact DEF Flags, WheelFlags, UInt16
  <1> HIDE DEF f
  <1>2. Has(f, PTR_FLAGS_HWHEEL) <=> h
    BY <1>1, FlagsFact DEF Flags, Has
  <1>3. IF n THEN RotationOf(f) < 0 ELSE RotationOf(f) = step
    <2>1. Has(f, PTR_FLAGS_WHEEL_NEGATIVE) <=> n
      BY <1>1, FlagsFact DEF Flags, Has
    <2>2. f % 512 = (IF n THEN 256 ELSE 0) + step
      BY <1>1
    <2> QED BY <2>1, <2>2, FlagsFact DEF Flags, RotationOf
  <1>4. Has(f, PTR_FLAGS_HWHEEL) = h
    BY <1>2, Zenon DEF Has
  <1> QED BY <1>3, <1>4 DEF f

\* A scan code has nine bits, so that code and extension tell the keys apart.
LEMMA ScancodeRange ==
  ASSUME NEW k \in Scancodes
  PROVE  k \in 0 .. 511
  BY FlagsFact DEF Flags, Scancodes, MAKE_RDP_SCANCODE

\* The keyboard event of a key carries the key.
LEMMA KeyboardEventFacts ==
  ASSUME NEW k \in Scancodes, NEW p \in BOOLEAN
  PROVE  LET e == KeyboardEvent(p, k)
         IN  /\ Has(e.flags, KBD_FLAGS_RELEASE) <=> ~p
             /\ e.code \in Byte
             /\ MAKE_RDP_SCANCODE(e.code, Has(e.flags, KBDEXT)) = k
  <1> DEFINE e == KeyboardEvent(p, k)
  <1>1. k \in 0 .. 511
    BY ScancodeRange
  <1>2. e.code = k % 256
    BY DEF KeyboardEvent, RDP_SCANCODE_CODE
  <1>3. e.flags = (IF k < 256 THEN 0 ELSE 256) + (IF p THEN 16384 ELSE 32768)
    BY <1>1, FlagsFact DEF Flags, KeyboardEvent, RDP_SCANCODE_EXTENDED
  <1> HIDE DEF e
  <1>4. Has(e.flags, KBD_FLAGS_RELEASE) <=> ~p
    BY <1>1, <1>3, FlagsFact DEF Flags, Has
  <1>5. Has(e.flags, KBDEXT) <=> k >= 256
    BY <1>1, <1>3, FlagsFact DEF Flags, Has
  <1>6. e.code \in Byte
    BY <1>1, <1>2 DEF Byte
  <1>7. MAKE_RDP_SCANCODE(e.code, Has(e.flags, KBDEXT)) = k
    BY <1>1, <1>2, <1>5, FlagsFact DEF Flags, MAKE_RDP_SCANCODE
  <1> QED BY <1>4, <1>6, <1>7 DEF e

\* Two keys of one scan code are one key.
LEMMA KeyIsUnique ==
  ASSUME NEW x \in Key, NEW y \in Key,
         MAKE_RDP_SCANCODE(x.code, x.extended) = MAKE_RDP_SCANCODE(y.code, y.extended)
  PROVE  x = y
  <1>1. \A k \in Key : /\ k.code \in Byte
                       /\ k.extended \in BOOLEAN
                       /\ k = [code |-> k.code, extended |-> k.extended]
    BY DEF Key
  <1>2. \A c, d \in Byte, m, n \in BOOLEAN :
          MAKE_RDP_SCANCODE(c, m) = MAKE_RDP_SCANCODE(d, n) => c = d /\ (m <=> n)
    BY FlagsFact DEF Flags, MAKE_RDP_SCANCODE, Byte
  <1>3. x.code = y.code /\ (x.extended <=> y.extended)
    BY <1>1, <1>2, Zenon
  <1>4. x.extended = y.extended
    BY <1>1, <1>3, Zenon
  <1> QED BY <1>1, <1>3, <1>4, Zenon

--------------------------------------------------------------------------------
\* The invariant is inductive: each kind of event changes its own part of what
\* the server holds and leaves the others alone.
LEMMA InitHolds ==
  ASSUME Init
  PROVE  IInv
  <1>1. TypeInv
    <2>1. [horizontal |-> FALSE, negative |-> FALSE, step |-> 0] \in Asked
      BY DEF Asked
    <2>2. [horizontal |-> FALSE, rotation |-> 0] \in Turned
      BY DEF Turned
    <2> QED BY <2>1, <2>2 DEF Init, TypeInv, Rest
  <1>2. MouseAgrees
    BY DEF Init, MouseAgrees, Rest
  <1>3. WheelAgrees
    BY DEF Init, WheelAgrees, Rest
  <1>4. KeysAgree
    BY DEF Init, KeysAgree, Rest
  <1> QED BY <1>1, <1>2, <1>3, <1>4 DEF IInv

\* What a step leaves of the record r if it sets the fields at and pressed.
LEMMA MouseFields ==
  ASSUME NEW r, NEW B, NEW W, NEW K, NEW at \in Int \X Int, NEW P \in SUBSET B,
         r \in [pressed : SUBSET B, at : Int \X Int, wheel : W, keys : K]
  PROVE  LET q == [r EXCEPT !.at = at, !.pressed = P]
         IN  /\ q \in [pressed : SUBSET B, at : Int \X Int, wheel : W, keys : K]
             /\ q.at = at /\ q.pressed = P /\ q.wheel = r.wheel /\ q.keys = r.keys
  OBVIOUS

LEMMA WheelField ==
  ASSUME NEW r, NEW B, NEW A, NEW W, NEW K, NEW w \in W,
         r \in [pressed : B, at : A, wheel : W, keys : K]
  PROVE  LET q == [r EXCEPT !.wheel = w]
         IN  /\ q \in [pressed : B, at : A, wheel : W, keys : K]
             /\ q.wheel = w /\ q.at = r.at /\ q.pressed = r.pressed /\ q.keys = r.keys
  OBVIOUS

LEMMA KeysField ==
  ASSUME NEW r, NEW B, NEW A, NEW W, NEW K, NEW keys \in SUBSET K,
         r \in [pressed : B, at : A, wheel : W, keys : SUBSET K]
  PROVE  LET q == [r EXCEPT !.keys = keys]
         IN  /\ q \in [pressed : B, at : A, wheel : W, keys : SUBSET K]
             /\ q.keys = keys /\ q.at = r.at /\ q.pressed = r.pressed /\ q.wheel = r.wheel
  OBVIOUS

LEMMA PointerHolds ==
  ASSUME IInv, NEW x \in Int, NEW y \in Int, UInt16(x) = x, UInt16(y) = y,
         NEW b \in {0, 1, 2}, NEW p \in BOOLEAN, SendPointerEvent(x, y, b, p)
  PROVE  IInv'
  <1> DEFINE f == UInt16(PointerFlags(b, p))
             at == <<x, y>>
             P == IF Has(f, PTR_FLAGS_DOWN) THEN server.pressed \cup ButtonsOf(f)
                  ELSE server.pressed \ ButtonsOf(f)
             Q == IF p THEN app.pressed \cup ({b} \ {0}) ELSE app.pressed \ {b}
  <1>1. /\ ~IsWheel(f)
        /\ ButtonsOf(f) = {b} \ {0}
        /\ b # 0 => (Has(f, PTR_FLAGS_DOWN) <=> p)
    BY PointerFlagsFacts
  <1>2. server' = [server EXCEPT !.at = at, !.pressed = P]
    BY <1>1, Zenon DEF SendPointerEvent, Understood, MouseEvent
  <1>3. app' = [app EXCEPT !.at = at, !.pressed = Q]
    BY Zenon DEF SendPointerEvent
  <1>4. app.pressed \subseteq {1, 2} /\ server.pressed = app.pressed
    BY DEF IInv, TypeInv, MouseAgrees
  <1> HIDE DEF f
  <1>5. P = Q /\ P \in SUBSET {1, 2}
    <2>1. CASE b = 0
      <3>1. ButtonsOf(f) = {} /\ 0 \notin app.pressed
        BY <1>1, <1>4, <2>1
      <3>2. P = server.pressed
        BY <3>1
      <3>3. Q = app.pressed
        BY <3>1, <2>1
      <3> QED BY <1>4, <3>2, <3>3
    <2>2. CASE b # 0
      BY <1>1, <1>4, <2>2
    <2> QED BY <2>1, <2>2
  <1>6. at \in Int \X Int
    OBVIOUS
  <1> HIDE DEF at, P, Q
  <1>7. /\ app' \in [pressed : SUBSET {1, 2}, at : Int \X Int, wheel : Asked,
                     keys : SUBSET Scancodes]
        /\ app'.at = at /\ app'.pressed = Q /\ app'.wheel = app.wheel /\ app'.keys = app.keys
    BY <1>3, <1>5, <1>6, MouseFields, Zenon DEF IInv, TypeInv
  <1>8. P \in SUBSET {1, 2, 3}
    BY <1>5
  <1>9. /\ server' \in [pressed : SUBSET {1, 2, 3}, at : Int \X Int, wheel : Turned,
                         keys : SUBSET Key]
         /\ server'.at = at /\ server'.pressed = P
         /\ server'.wheel = server.wheel /\ server'.keys = server.keys
    BY <1>2, <1>6, <1>8, MouseFields, Zenon DEF IInv, TypeInv
  <1> QED BY <1>5, <1>7, <1>9, Zenon DEF IInv, TypeInv, MouseAgrees, WheelAgrees, KeysAgree

\* The steps that do not carry past the flags of the wheel.
StepRange == 0 .. 767

LEMMA WheelHolds ==
  ASSUME IInv, NEW x \in Int, NEW y \in Int, NEW step \in StepRange,
         NEW n \in BOOLEAN, NEW h \in BOOLEAN, SendWheelEvent(x, y, step, n, h)
  PROVE  IInv'
  <1> DEFINE f == UInt16(WheelFlags(step, n, h))
             asked == [horizontal |-> h, negative |-> n, step |-> step]
             turned == [horizontal |-> Has(f, PTR_FLAGS_HWHEEL),
                        rotation |-> RotationOf(f)]
  <1>1. IsWheel(f) /\ RotationOf(f) \in Int
    BY WheelFlagsStay, Zenon DEF StepRange
  <1>2. step \in Byte =>
          /\ Has(f, PTR_FLAGS_HWHEEL) = h
          /\ IF n THEN RotationOf(f) < 0 ELSE RotationOf(f) = step
    BY WheelFlagsFacts, Zenon
  <1>3. server' = [server EXCEPT !.wheel = turned]
    BY <1>1, Zenon DEF SendWheelEvent, Understood, MouseEvent
  <1>4. app' = [app EXCEPT !.wheel = asked]
    BY Zenon DEF SendWheelEvent
  <1>5. Has(f, PTR_FLAGS_HWHEEL) \in BOOLEAN
    BY Zenon DEF Has
  <1> HIDE DEF f
  <1>6. asked \in Asked
    BY DEF Asked, StepRange
  <1>7. turned \in Turned
    BY <1>1, <1>5, Zenon DEF Turned
  <1>8. WheelAgrees' <=>
          (step \in Byte => /\ turned.horizontal = h
                           /\ IF n THEN turned.rotation < 0
                                   ELSE turned.rotation = step)
    <2>1. app'.wheel = asked /\ server'.wheel = turned
      BY <1>3, <1>4 DEF IInv, TypeInv
    <2>2. asked.step = step /\ asked.negative = n /\ asked.horizontal = h
      OBVIOUS
    <2> HIDE DEF asked, turned
    <2> QED BY <2>1, <2>2, Zenon DEF WheelAgrees
  <1>9. WheelAgrees'
    <2>1. /\ turned.horizontal = Has(f, PTR_FLAGS_HWHEEL)
          /\ turned.rotation = RotationOf(f)
      BY Zenon
    <2> HIDE DEF turned
    <2> QED BY <1>2, <1>8, <2>1, Zenon
  <1> HIDE DEF asked, turned
  <1>10. /\ app' \in [pressed : SUBSET {1, 2}, at : Int \X Int, wheel : Asked,
                      keys : SUBSET Scancodes]
         /\ app'.at = app.at /\ app'.pressed = app.pressed /\ app'.keys = app.keys
    BY <1>4, <1>6, WheelField, Zenon DEF IInv, TypeInv
  <1>11. /\ server' \in [pressed : SUBSET {1, 2, 3}, at : Int \X Int, wheel : Turned,
                         keys : SUBSET Key]
         /\ server'.at = server.at
         /\ server'.pressed = server.pressed /\ server'.keys = server.keys
    BY <1>3, <1>7, WheelField, Zenon DEF IInv, TypeInv
  <1> QED BY <1>9, <1>10, <1>11, Zenon DEF IInv, TypeInv, MouseAgrees, KeysAgree

LEMMA KeyHolds ==
  ASSUME IInv, NEW k \in Scancodes, NEW p \in BOOLEAN,
         SendKeyEventScancode(k, p)
  PROVE  IInv'
  <1> DEFINE e == KeyboardEvent(p, k)
             key == [code |-> e.code, extended |-> Has(e.flags, KBDEXT)]
             Of(x) == MAKE_RDP_SCANCODE(x.code, x.extended)
             A == IF p THEN app.keys \cup {k} ELSE app.keys \ {k}
             S == IF Has(e.flags, KBD_FLAGS_RELEASE) THEN server.keys \ {key}
                  ELSE server.keys \cup {key}
  <1>1. /\ Has(e.flags, KBD_FLAGS_RELEASE) <=> ~p
        /\ e.code \in Byte
        /\ MAKE_RDP_SCANCODE(e.code, Has(e.flags, KBDEXT)) = k
    BY KeyboardEventFacts, Zenon
  <1>2. Has(e.flags, KBDEXT) \in BOOLEAN
    BY Zenon DEF Has
  <1>3. key \in Key /\ Of(key) = k
    BY <1>1, <1>2, Zenon DEF Key
  <1>4. server' = [server EXCEPT !.keys = S]
    BY Zenon DEF SendKeyEventScancode, KeyUnderstood
  <1>5. app' = [app EXCEPT !.keys = A]
    BY Zenon DEF SendKeyEventScancode
  <1>6. \A x \in Key : Of(x) = k <=> x = key
    BY <1>3, KeyIsUnique, Zenon
  <1>7. server.keys = {x \in Key : Of(x) \in app.keys}
    BY Zenon DEF IInv, KeysAgree, Key
  <1>8. app.keys \in SUBSET Scancodes /\ server.keys \in SUBSET Key
    BY DEF IInv, TypeInv
  <1> HIDE DEF e, key, Of
  <1>9. A \in SUBSET Scancodes /\ S \in SUBSET Key
    BY <1>3, <1>8
  <1>10. S = {x \in Key : Of(x) \in A}
    <2>1. CASE p
      BY <1>1, <1>3, <1>6, <1>7, <2>1
    <2>2. CASE ~p
      BY <1>1, <1>3, <1>6, <1>7, <2>2
    <2> QED BY <2>1, <2>2
  <1> HIDE DEF A, S
  <1>11. /\ app' \in [pressed : SUBSET {1, 2}, at : Int \X Int, wheel : Asked,
                      keys : SUBSET Scancodes]
         /\ app'.keys = A /\ app'.at = app.at
         /\ app'.pressed = app.pressed /\ app'.wheel = app.wheel
    BY <1>5, <1>9, KeysField, Zenon DEF IInv, TypeInv
  <1>12. /\ server' \in [pressed : SUBSET {1, 2, 3}, at : Int \X Int, wheel : Turned,
                         keys : SUBSET Key]
         /\ server'.keys = S /\ server'.at = server.at
         /\ server'.pressed = server.pressed /\ server'.wheel = server.wheel
    BY <1>4, <1>9, KeysField, Zenon DEF IInv, TypeInv
  <1>13. TypeInv' /\ MouseAgrees' /\ WheelAgrees'
    BY <1>11, <1>12, Zenon DEF IInv, TypeInv, MouseAgrees, WheelAgrees
  <1>14. KeysAgree'
    BY <1>10, <1>11, <1>12, Zenon DEF KeysAgree, Key, Of
  <1> QED BY <1>13, <1>14 DEF IInv

LEMMA Invariance == Spec => []IInv
  <1>1. Init => IInv
    BY InitHolds
  <1>2. IInv /\ [Next]_vars => IInv'
    <2> SUFFICES ASSUME IInv, [Next]_vars PROVE IInv'
      OBVIOUS
    <2> USE InputAssumption DEF InputAssumption
    <2>1. CASE \E x \in Xs, y \in Ys, b \in Buttons \cup {0}, p \in BOOLEAN :
                 SendPointerEvent(x, y, b, p)
      <3>1. PICK x \in Xs, y \in Ys, b \in Buttons \cup {0}, p \in BOOLEAN :
              SendPointerEvent(x, y, b, p)
        BY <2>1, SMT
      <3>2. b \in {0, 1, 2} /\ x \in Int /\ y \in Int
        OBVIOUS
      <3>3. UInt16(x) = x /\ UInt16(y) = y
        BY DEF UInt16
      <3> HIDE DEF InputAssumption
      <3> QED BY <3>1, <3>2, <3>3, PointerHolds, SMT
    <2>2. CASE \E x \in Xs, y \in Ys, step \in Steps, n \in BOOLEAN, h \in BOOLEAN :
                 SendWheelEvent(x, y, step, n, h)
      <3>1. PICK x \in Xs, y \in Ys, step \in Steps, n \in BOOLEAN, h \in BOOLEAN :
              SendWheelEvent(x, y, step, n, h)
        BY <2>2, SMT
      <3>2. step \in StepRange /\ x \in Int /\ y \in Int
        BY DEF StepRange
      <3> HIDE DEF InputAssumption
      <3> QED BY <3>1, <3>2, WheelHolds, SMT
    <2>3. CASE \E k \in Keys, p \in BOOLEAN : SendKeyEventScancode(k, p)
      BY <2>3, KeyHolds, SMT
    <2>4. CASE UNCHANGED vars
      BY <2>4 DEF vars, IInv, TypeInv, MouseAgrees, WheelAgrees, KeysAgree
    <2> QED BY <2>1, <2>2, <2>3, <2>4 DEF Next
  <1> QED BY <1>1, <1>2, PTL DEF Spec

--------------------------------------------------------------------------------
\* For any positions on a screen, the two buttons of session.js and wheel steps
\* below 768, no sequence of events leaves the server with other buttons pressed
\* than the application reported, nor with the pointer elsewhere (session.js
\* sendPointerEvent, sendWheelEvent).
THEOREM MouseIsUnderstood == Spec => []MouseAgrees
  BY Invariance, PTL DEF IInv

\* Every step of a byte turns the server's wheel about the axis and in the direction
\* the application gave, by the step if that is forward (session.js sendWheelEvent).
THEOREM WheelIsUnderstood == Spec => []WheelAgrees
  BY Invariance, PTL DEF IInv

\* For every set of the keys scancode.h knows, the server holds the keys that the
\* application holds (session.js sendKeyEventScancode).
THEOREM KeysAreUnderstood == Spec => []KeysAgree
  BY Invariance, PTL DEF IInv
================================================================================
