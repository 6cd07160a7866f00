--------------------------------- MODULE Input ---------------------------------
(***************************************************************************)
(* Mouse and keyboard input: how session.js encodes a pointer, wheel or    *)
(* key event, what bridge.cc and rdp.cc pass on, and what the server makes *)
(* of it.  Flags are integers, for a wheel's step is added to them.  The   *)
(* numbers are those of freerdp/input.h and freerdp/scancode.h.            *)
(***************************************************************************)
EXTENDS Integers

CONSTANTS Buttons,    \* mouse buttons the application reports, from 1
          Keys,       \* the keys it reports, by their RDP_SCANCODE
          Xs, Ys,     \* coordinates
          Steps       \* wheel steps

KBDEXT            == 256
KBD_FLAGS_DOWN    == 16384
KBD_FLAGS_RELEASE == 32768

RDP_SCANCODE_CODE(k) == k % 256

RDP_SCANCODE_EXTENDED(k) == (k \div KBDEXT) % 2 = 1

MAKE_RDP_SCANCODE(code, extended) == (code % 256) + (IF extended THEN KBDEXT ELSE 0)

\* The keys that scancode.h knows: 8-bit codes, some with an extended twin.
Scancodes ==
  {MAKE_RDP_SCANCODE(c, FALSE) :
     c \in (0 .. 84) \cup (86 .. 88) \cup {95} \cup (98 .. 115)
             \cup {118, 121} \cup (123 .. 126)}
  \cup
  {MAKE_RDP_SCANCODE(c, TRUE) :
     c \in {16, 25, 28, 29, 32, 34, 36, 46, 48, 50} \cup (53 .. 56)
             \cup (69 .. 73) \cup {75, 77} \cup (79 .. 84) \cup {86}
             \cup (91 .. 95) \cup (101 .. 106) \cup {108}}

Byte == 0 .. 255

\* On a screen, with the two buttons session.js knows, and with steps that do not
\* carry past the flags of the wheel, though they may carry into them.
ASSUME InputAssumption ==
  /\ Buttons \subseteq {1, 2}
  /\ Keys \subseteq Scancodes
  /\ \A n \in Xs \cup Ys : n \in Nat /\ n < 65536
  /\ Steps \subseteq 0 .. 767

VARIABLES app,     \* what the application has reported
          server   \* what the server has understood

vars == <<app, server>>

PTR_FLAGS_MOVE           == 2048
PTR_FLAGS_DOWN           == 32768
PTR_FLAGS_BUTTON1        == 4096
PTR_FLAGS_BUTTON2        == 8192
PTR_FLAGS_BUTTON3        == 16384
PTR_FLAGS_HWHEEL         == 1024
PTR_FLAGS_WHEEL          == 512
PTR_FLAGS_WHEEL_NEGATIVE == 256
WheelRotationMask        == 511

Rest(wheel) == [pressed |-> {}, at |-> <<0, 0>>, wheel |-> wheel, keys |-> {}]

Init ==
  /\ app = Rest([horizontal |-> FALSE, negative |-> FALSE, step |-> 0])
  /\ server = Rest([horizontal |-> FALSE, rotation |-> 0])

--------------------------------------------------------------------------------
(* session.js                                                              *)

\* Mutant of PointerFlags: a released button is no button.
PointerFlagsDownOnly(button, isPressed) ==
  IF ~isPressed THEN PTR_FLAGS_MOVE
  ELSE CASE button = 1 -> PTR_FLAGS_BUTTON1 + PTR_FLAGS_DOWN
         [] button = 2 -> PTR_FLAGS_BUTTON2 + PTR_FLAGS_DOWN
         [] OTHER -> PTR_FLAGS_MOVE

\* sendPointerEvent's flags; button 0 stands for none.
PointerFlags(button, isPressed) ==
  LET down  == IF isPressed THEN PTR_FLAGS_DOWN ELSE 0
      flags == CASE button = 1 -> PTR_FLAGS_BUTTON1 + down
                 [] button = 2 -> PTR_FLAGS_BUTTON2 + down
                 [] OTHER -> 0
  IN  IF flags = 0 THEN PTR_FLAGS_MOVE ELSE flags

\* Mutant of WheelFlags: a negative step is subtracted.
WheelFlagsSigned(step, isNegative, isHorizontal) ==
  (IF isHorizontal THEN PTR_FLAGS_HWHEEL ELSE PTR_FLAGS_WHEEL)
    + (IF isNegative THEN PTR_FLAGS_WHEEL_NEGATIVE - step ELSE step)

\* sendWheelEvent's flags.
WheelFlags(step, isNegative, isHorizontal) ==
  (IF isHorizontal THEN PTR_FLAGS_HWHEEL ELSE PTR_FLAGS_WHEEL)
    + (IF isNegative THEN PTR_FLAGS_WHEEL_NEGATIVE ELSE 0)
    + step

--------------------------------------------------------------------------------
(* The bridge and node_freerdp_send_pointer_event: integers of JavaScript  *)
(* become unsigned ones of 32 bits, then of the 16 that FreeRDP sends.     *)

UInt16(n) == n % 65536

MouseEvent(flags, x, y) ==
  [flags |-> UInt16(flags), x |-> UInt16(x), y |-> UInt16(y)]

\* Mutant of KeyboardEvent: the code is all there is.
KeyboardEventPlain(down, k) ==
  [flags |-> IF down THEN KBD_FLAGS_DOWN ELSE KBD_FLAGS_RELEASE,
   code  |-> RDP_SCANCODE_CODE(k)]

\* What freerdp_input_send_keyboard_event_ex sends: the ninth bit of the code is
\* the flag KBD_FLAGS_EXTENDED, which has the same value.
KeyboardEvent(down, k) ==
  [flags |-> (IF RDP_SCANCODE_EXTENDED(k) THEN KBDEXT ELSE 0)
               + (IF down THEN KBD_FLAGS_DOWN ELSE KBD_FLAGS_RELEASE),
   code  |-> RDP_SCANCODE_CODE(k)]

--------------------------------------------------------------------------------
(* The server.                                                             *)

Has(flags, flag) == (flags \div flag) % 2 = 1

ButtonsOf(flags) ==
  {b \in 1 .. 3 : Has(flags, CASE b = 1 -> PTR_FLAGS_BUTTON1
                               [] b = 2 -> PTR_FLAGS_BUTTON2
                               [] b = 3 -> PTR_FLAGS_BUTTON3)}

IsWheel(flags) == Has(flags, PTR_FLAGS_WHEEL) \/ Has(flags, PTR_FLAGS_HWHEEL)

\* The low nine bits, a number in two's complement.
RotationOf(flags) ==
  LET field == flags % (WheelRotationMask + 1)
  IN  IF Has(flags, PTR_FLAGS_WHEEL_NEGATIVE) THEN field - WheelRotationMask - 1
      ELSE field

\* A wheel event carries no position.
Understood(e) ==
  IF IsWheel(e.flags)
  THEN [server EXCEPT !.wheel =
          [horizontal |-> Has(e.flags, PTR_FLAGS_HWHEEL),
           rotation   |-> RotationOf(e.flags)]]
  ELSE [server EXCEPT !.at = <<e.x, e.y>>,
                      !.pressed = IF Has(e.flags, PTR_FLAGS_DOWN)
                                  THEN @ \cup ButtonsOf(e.flags)
                                  ELSE @ \ ButtonsOf(e.flags)]

\* A key is its code and whether it is the extended one.
KeyUnderstood(e) ==
  LET key == [code |-> e.code, extended |-> Has(e.flags, KBDEXT)]
  IN  [server EXCEPT !.keys = IF Has(e.flags, KBD_FLAGS_RELEASE)
                              THEN @ \ {key} ELSE @ \cup {key}]

--------------------------------------------------------------------------------
\* Session.sendPointerEvent, for a button or, with button 0, for a movement.
SendPointerEvent(x, y, button, isPressed) ==
  /\ app' = [app EXCEPT !.at = <<x, y>>,
                        !.pressed = IF isPressed THEN @ \cup ({button} \ {0})
                                    ELSE @ \ {button}]
  /\ server' = Understood(MouseEvent(PointerFlags(button, isPressed), x, y))

\* Session.sendWheelEvent.
SendWheelEvent(x, y, step, isNegative, isHorizontal) ==
  /\ app' = [app EXCEPT !.wheel = [horizontal |-> isHorizontal,
                                   negative |-> isNegative, step |-> step]]
  /\ server' = Understood(MouseEvent(
                 WheelFlags(step, isNegative, isHorizontal), x, y))

\* Session.sendKeyEventScancode.
SendKeyEventScancode(code, pressed) ==
  /\ app' = [app EXCEPT !.keys = IF pressed THEN @ \cup {code} ELSE @ \ {code}]
  /\ server' = KeyUnderstood(KeyboardEvent(pressed, code))

Next ==
  \/ \E x \in Xs, y \in Ys, p \in BOOLEAN :
       \/ \E b \in Buttons \cup {0} : SendPointerEvent(x, y, b, p)
       \/ \E step \in Steps, h \in BOOLEAN : SendWheelEvent(x, y, step, p, h)
  \/ \E k \in Keys, p \in BOOLEAN : SendKeyEventScancode(k, p)

Spec == Init /\ [][Next]_vars

--------------------------------------------------------------------------------
\* After any sequence of events the server holds the buttons the application
\* holds, and the pointer is where the application last put it: no movement,
\* wheel or key event presses, releases or moves anything else, nor does a step
\* too big for its byte, which is added to the flags unmasked, as long as it is
\* less than 768 (session.js sendPointerEvent, sendWheelEvent, line 52).
MouseAgrees == server.pressed = app.pressed /\ server.at = app.at

\* As long as the step is a byte, the server turns the wheel about the axis and in
\* the direction the application gave, and by the step if that is forward.  A step
\* backward is not negated: 120 turns the wheel by -136 (session.js sendWheelEvent).
WheelAgrees ==
  LET turned == app.wheel
  IN  turned.step \in Byte =>
        /\ server.wheel.horizontal = turned.horizontal
        /\ IF turned.negative THEN server.wheel.rotation < 0
                              ELSE server.wheel.rotation = turned.step

\* The server holds the keys that the application holds, a key and its extended
\* twin apart: releasing one of them never releases the other (session.js
\* sendKeyEventScancode, bridge.cc SendKeyEventScancode).
KeysAgree ==
  server.keys = {key \in [code : Byte, extended : BOOLEAN] :
                   MAKE_RDP_SCANCODE(key.code, key.extended) \in app.keys}
================================================================================
