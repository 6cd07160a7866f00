---------------------------------- MODULE Color ----------------------------------
(***************************************************************************)
(* The pixel formats of freerdp/codec/color.h and its inline functions:    *)
(* reading a pixel from memory into FreeRDP's internal representation of a *)
(* colour, converting it to another format, and writing it to memory.  The *)
(* addon draws in PIXEL_FORMAT_RGBX32 (rdp.cc:132), whatever the server    *)
(* sends.  A format is the record of what FREERDP_PIXEL_FORMAT packs, a    *)
(* UINT32 colour the sequence of its four bytes, the highest first.        *)
(***************************************************************************)
EXTENDS Integers, Sequences

Format(bpp, type, a, r, g, b) ==
  [bpp |-> bpp, type |-> type, a |-> a, r |-> r, g |-> g, b |-> b]

PIXEL_FORMAT_ARGB32 == Format(32, "ARGB", 8, 8, 8, 8)
PIXEL_FORMAT_XRGB32 == Format(32, "ARGB", 0, 8, 8, 8)
PIXEL_FORMAT_ABGR32 == Format(32, "ABGR", 8, 8, 8, 8)
PIXEL_FORMAT_XBGR32 == Format(32, "ABGR", 0, 8, 8, 8)
PIXEL_FORMAT_BGRA32 == Format(32, "BGRA", 8, 8, 8, 8)
PIXEL_FORMAT_BGRX32 == Format(32, "BGRA", 0, 8, 8, 8)
PIXEL_FORMAT_RGBA32 == Format(32, "RGBA", 8, 8, 8, 8)
PIXEL_FORMAT_RGBX32 == Format(32, "RGBA", 0, 8, 8, 8)
PIXEL_FORMAT_RGB24 == Format(24, "ARGB", 0, 8, 8, 8)
PIXEL_FORMAT_BGR24 == Format(24, "ABGR", 0, 8, 8, 8)
PIXEL_FORMAT_RGB16 == Format(16, "ARGB", 0, 5, 6, 5)
PIXEL_FORMAT_BGR16 == Format(16, "ABGR", 0, 5, 6, 5)
PIXEL_FORMAT_ARGB15 == Format(16, "ARGB", 1, 5, 5, 5)
PIXEL_FORMAT_RGB15 == Format(15, "ARGB", 0, 5, 5, 5)
PIXEL_FORMAT_ABGR15 == Format(16, "ABGR", 1, 5, 5, 5)
PIXEL_FORMAT_BGR15 == Format(15, "ABGR", 0, 5, 5, 5)
PIXEL_FORMAT_RGB8 == Format(8, "A", 8, 0, 0, 0)
PIXEL_FORMAT_MONO == Format(1, "A", 1, 0, 0, 0)

\* The formats whose pixels have colours: all but A4 and MONO.
ColourFormats ==
  {PIXEL_FORMAT_ARGB32, PIXEL_FORMAT_XRGB32, PIXEL_FORMAT_ABGR32, PIXEL_FORMAT_XBGR32,
   PIXEL_FORMAT_BGRA32, PIXEL_FORMAT_BGRX32, PIXEL_FORMAT_RGBA32, PIXEL_FORMAT_RGBX32,
   PIXEL_FORMAT_RGB24, PIXEL_FORMAT_BGR24, PIXEL_FORMAT_RGB16, PIXEL_FORMAT_BGR16,
   PIXEL_FORMAT_ARGB15, PIXEL_FORMAT_RGB15, PIXEL_FORMAT_ABGR15, PIXEL_FORMAT_BGR15,
   PIXEL_FORMAT_RGB8}

GetBitsPerPixel(format) == format.bpp

GetBytesPerPixel(format) == (GetBitsPerPixel(format) + 7) \div 8

ColorHasAlpha(format) == format.a # 0

\* The order of the channels in a colour, from its highest byte or bits down.
Order(type) == CASE type = "ARGB" -> <<"a", "r", "g", "b">>
                 [] type = "ABGR" -> <<"a", "b", "g", "r">>
                 [] type = "RGBA" -> <<"r", "g", "b", "a">>
                 [] type = "BGRA" -> <<"b", "g", "r", "a">>

Place(type, channel) == CHOOSE i \in 1 .. 4 : Order(type)[i] = channel

Low16(color) == color[3] * 256 + color[4]

\* Formats of a byte per channel, of bits in 16, and of neither.
HasBytes(format) == format.bpp \in {24, 32}
HasBits(format) == format.bpp \in {15, 16}

\* The bits of channel c below its own, where the low 15 or 16 bits hold three
\* channels.
Below(format, c) ==
  CASE Place(format.type, c) = 4 -> 0
    [] Place(format.type, c) = 3 -> format[Order(format.type)[4]]
    [] Place(format.type, c) = 2 -> format[Order(format.type)[4]] + format.g

Gray(v) == [r |-> v, g |-> v, b |-> v, a |-> v]

\* SplitColor for the formats whose colours hold their channels.
SplitChannels(color, format) ==
  LET bits(c) == ((Low16(color) \div 2 ^ Below(format, c)) % 2 ^ format[c]) * 2 ^ (8 - format[c])
      byte(c) == color[Place(format.type, c)]
      value(c) == IF HasBytes(format) THEN byte(c) ELSE bits(c)
      alpha == CASE ~ColorHasAlpha(format) -> 255
                 [] ColorHasAlpha(format) /\ HasBytes(format) -> byte("a")
                 [] ColorHasAlpha(format) /\ HasBits(format) ->
                      IF Low16(color) >= 32768 THEN 255 ELSE 0
  IN  [r |-> value("r"), g |-> value("g"), b |-> value("b"), a |-> alpha]

\* The channels of a colour, a byte each.  An 8 bit colour is an index of the
\* palette; the formats A4 and unknown have no colour.
SplitColor(color, format, palette) ==
  CASE HasBytes(format) \/ HasBits(format) -> SplitChannels(color, format)
    [] format = PIXEL_FORMAT_RGB8 ->
         IF color[1] + color[2] + color[3] = 0
           THEN SplitChannels(palette.palette[color[4]], palette.format)
           ELSE Gray(0)
    [] format = PIXEL_FORMAT_MONO -> Gray(IF color = <<0, 0, 0, 0>> THEN 0 ELSE 255)
    [] OTHER -> Gray(0)

\* The colour with the given channels.  RGBX32 and BGRX32 keep the alpha they
\* are given, XRGB32, XBGR32 and the 24 bit formats drop it.
GetColor(format, v) ==
  LET kept == [v EXCEPT !.a = IF ~ColorHasAlpha(format) /\ Place(format.type, "a") = 1
                                THEN 0 ELSE @]
      bits(c) == (v[c] \div 2 ^ (8 - format[c])) * 2 ^ Below(format, c)
      low == bits("r") + bits("g") + bits("b")
               + (IF ColorHasAlpha(format) /\ v.a # 0 THEN 32768 ELSE 0)
  IN  CASE HasBytes(format) -> [i \in 1 .. 4 |-> kept[Order(format.type)[i]]]
        [] HasBits(format) -> <<0, 0, low \div 256, low % 256>>
        [] OTHER -> <<0, 0, 0, 0>>

\* Mutant: channels go over in the source's order.
ConvertColorUnsplit(color, srcFormat, dstFormat, palette) ==
  IF HasBytes(srcFormat) /\ HasBytes(dstFormat)
    THEN color
    ELSE GetColor(dstFormat, SplitColor(color, srcFormat, palette))

ConvertColor(color, srcFormat, dstFormat, palette) ==
  GetColor(dstFormat, SplitColor(color, srcFormat, palette))

\* 15 bit colours without alpha lose the 16th bit.
Mask15(high, format) ==
  IF GetBitsPerPixel(format) = 15 /\ ~ColorHasAlpha(format) THEN high % 128 ELSE high

\* A pixel in memory, its lowest address first, as a colour.
ReadColor(src, format) ==
  CASE GetBitsPerPixel(format) = 32 -> src
    [] GetBitsPerPixel(format) = 24 -> <<0>> \o src
    [] GetBitsPerPixel(format) \in {15, 16} -> <<0, 0, Mask15(src[2], format), src[1]>>
    [] GetBitsPerPixel(format) \in {8, 4, 1} -> <<0, 0, 0, src[1]>>

\* A colour as a pixel in memory.
WriteColor(format, color) ==
  CASE GetBitsPerPixel(format) = 32 -> color
    [] GetBitsPerPixel(format) = 24 -> <<color[2], color[3], color[4]>>
    [] GetBitsPerPixel(format) \in {15, 16} -> <<color[4], Mask15(color[3], format)>>
    [] GetBitsPerPixel(format) = 8 -> <<color[4]>>
=============================================================================
