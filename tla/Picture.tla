--------------------------------- MODULE Picture ---------------------------------
(***************************************************************************)
(* The bytes of the picture from the server to the application's canvas:   *)
(* FreeRDP draws pixels of the server's format into gdi->primary_buffer,   *)
(* whose format the addon chooses (rdp.cc:132), end_paint copies bytes     *)
(* (Copy), and the application puts the event's buffer on its canvas.      *)
(* Copy works on addresses and Color on single pixels; here the addresses  *)
(* have contents.  Which region is copied when, and in which order events  *)
(* arrive, is in Paint.                                                    *)
(***************************************************************************)
EXTENDS Copy, Color

CONSTANTS Formats,   \* the formats in which servers send pixels
          Colours,   \* the colours they send: channels of a byte each
          Index,     \* the index of each colour in the palette
          MaxDraws   \* bound: drawing operations

Byte == 0 .. 255

\* The bytes per pixel of rdp.cc:90.  With RGB8 the server can only send as many
\* colours as there are indexes.
ASSUME PictureAssumption ==
  /\ Bpp = 4
  /\ Formats \subseteq ColourFormats
  /\ Colours \subseteq [r : Byte, g : Byte, b : Byte, a : Byte]
  /\ Index \in [Colours -> Byte]
  /\ PIXEL_FORMAT_RGB8 \in Formats =>
       \A v, w \in Colours : Index[v] = Index[w] => v = w
  /\ MaxDraws \in Nat

VARIABLES
  source,    \* the server's format
  memory,    \* gdi->primary_buffer
  drawn,     \* the colours the server has drawn, pixel by pixel
  draws,
  invalid,   \* the region drawn to since the last end_paint, if any
  wire,      \* the draw event on its way, if any
  canvas     \* the four bytes of each pixel on the application's canvas

vars == <<copyVars, source, memory, drawn, draws, invalid, wire, canvas>>

\* rdp.cc:132
GdiFormat == PIXEL_FORMAT_RGBX32

Address == 0 .. PictureSize - 1
Pixel == (0 .. Width - 1) \X (0 .. Height - 1)
Covers(r, p) == r.x <= p[1] /\ p[1] < r.x + r.w /\ r.y <= p[2] /\ p[2] < r.y + r.h

Undrawn == <<0, 0, 0, 0>>

PictureInit ==
  /\ CopyInit
  /\ source \in Formats
  /\ memory = [k \in Address |-> 0]
  /\ drawn = [p \in Pixel |-> {}]
  /\ draws = 0
  /\ invalid = {}
  /\ wire = {}
  /\ canvas = [p \in Pixel |-> Undrawn]

\* FreeRDP keeps the palette in the format of the picture.
Palette == [format |-> GdiFormat,
            palette |-> [n \in {Index[v] : v \in Colours} |->
                           GetColor(GdiFormat, CHOOSE v \in Colours : Index[v] = n)]]

\* A pixel as the server sends it.
ServerPixel(v) == IF source = PIXEL_FORMAT_RGB8
                    THEN <<Index[v]>>
                    ELSE WriteColor(source, GetColor(source, v))

\* A pixel as FreeRDP stores it in the picture.
GdiPixel(src) ==
  WriteColor(GdiFormat, ConvertColor(ReadColor(src, source), source, GdiFormat, Palette))

\* The server fills a rectangle.
Draw(r, v) ==
  /\ painter = "idle"
  /\ invalid = {}
  /\ draws < MaxDraws
  /\ draws' = draws + 1
  /\ invalid' = {r}
  /\ drawn' = [p \in Pixel |-> IF Covers(r, p) THEN {v} ELSE drawn[p]]
  /\ LET pixel == GdiPixel(ServerPixel(v))
     IN  memory' = [k \in Address |->
                      IF Covers(r, <<(k \div Bpp) % Width, k \div (Bpp * Width)>>)
                        THEN pixel[(k % Bpp) + 1]
                        ELSE memory[k]]
  /\ UNCHANGED <<copyVars, source, wire, canvas>>

\* end_paint with the keyframe flag set.
EndPaintKeyframe ==
  /\ CopyAll
  /\ wire = {}
  /\ invalid' = {}
  /\ UNCHANGED <<source, memory, drawn, draws, wire, canvas>>

\* end_paint without it.
EndPaint ==
  /\ wire = {}
  /\ \E r \in invalid : StartCopy(r)
  /\ invalid' = {}
  /\ UNCHANGED <<source, memory, drawn, draws, wire, canvas>>

EndPaintLoop ==
  /\ CopyRow \/ EndCopy
  /\ UNCHANGED <<source, memory, drawn, draws, invalid, wire, canvas>>

EmitDraw ==
  /\ EmitCopy
  /\ wire' = {[args |-> args, buffer |-> [k \in DOMAIN buffer |-> memory[buffer[k]]]]}
  /\ UNCHANGED <<source, memory, drawn, draws, invalid, canvas>>

\* draw_args_parser hands a copy of as many bytes to the application, which puts
\* the pixels on its canvas.
DeliverDraw(e) ==
  /\ e \in wire
  /\ wire' = {}
  /\ canvas' = [p \in Pixel |->
                  IF Covers(e.args, p)
                    THEN LET k == ((p[2] - e.args.y) * e.args.w + p[1] - e.args.x) * Bpp
                         IN  [b \in 1 .. Bpp |-> e.buffer[k + b - 1]]
                    ELSE canvas[p]]
  /\ UNCHANGED <<copyVars, source, memory, drawn, draws, invalid>>

Next == \/ \E r \in Region, v \in Colours : Draw(r, v)
        \/ EndPaintKeyframe
        \/ EndPaint
        \/ EndPaintLoop
        \/ EmitDraw
        \/ \E e \in wire : DeliverDraw(e)

Spec == PictureInit /\ [][Next]_vars

-----------------------------------------------------------------------------
\* What is left of a channel of which the server's format keeps some bits.
Kept(channel, bits) == channel - (channel % 2 ^ (8 - bits))

\* A colour as a canvas shows it: red, green, blue and opaque, unless the
\* server's format has an alpha of its own, of a byte or of a bit.
SeenAlpha(a) == CASE source.a = 0 -> 255
                  [] source.a = 1 -> IF a = 0 THEN 0 ELSE 255
                  [] source.a = 8 -> a

Seen(v) == IF source = PIXEL_FORMAT_RGB8
             THEN <<v.r, v.g, v.b, 255>>
             ELSE <<Kept(v.r, source.r), Kept(v.g, source.g), Kept(v.b, source.b),
                    SeenAlpha(v.a)>>

\* Whatever format the server sends, when nothing is on its way every pixel on
\* the application's canvas is the colour the server drew there, as the bytes
\* red, green, blue and alpha: "RGBA for example names a byte array with red on
\* positon 0, green on 1 etc." (color.h).
AppSeesPicture ==
  (painter = "idle" /\ invalid = {} /\ wire = {}) =>
    \A p \in Pixel : \/ \E v \in drawn[p] : canvas[p] = Seen(v)
                     \/ drawn[p] = {} /\ canvas[p] = Undrawn
=============================================================================
