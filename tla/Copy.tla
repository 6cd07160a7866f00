---------------------------------- MODULE Copy -----------------------------------
(***************************************************************************)
(* The bytes that nodefreerdp_end_paint copies (rdp.cc:91-124): the whole  *)
(* picture for a keyframe, otherwise the invalid region row by row, with   *)
(* offsets that are products of ints.  A byte of the picture is its        *)
(* address in gdi->primary_buffer, so that args->buffer shows where each   *)
(* of its bytes came from.                                                 *)
(***************************************************************************)
EXTENDS Integers

CONSTANTS Width, Height,  \* gdi->width and gdi->height
          Bpp,            \* args->bpp
          IntMax          \* the largest int

\* The picture has pixels and its size in bytes is an int.
ASSUME CopyAssumption ==
  /\ Width \in Nat \ {0} /\ Height \in Nat \ {0} /\ Bpp \in Nat \ {0} /\ IntMax \in Nat
  /\ Width * Height * Bpp <= IntMax

VARIABLES
  painter,   \* the step of end_paint that comes next
  args,      \* the region in the draw_args
  buffer,    \* args->buffer: the address each byte was copied from
  row,       \* the loop's i
  dest_pos

copyVars == <<painter, args, buffer, row, dest_pos>>

\* What new BYTE[size] leaves in the buffer.
Uninit == -1

\* An int that overflows wraps around.
AsInt(n) == IF -IntMax - 1 <= n /\ n <= IntMax
              THEN n
              ELSE ((n + IntMax + 1) % (2 * IntMax + 2)) - IntMax - 1

\* The non-empty rectangles of the picture.
Region == {r \in [x : 0 .. Width - 1, y : 0 .. Height - 1, w : 1 .. Width, h : 1 .. Height] :
             r.x + r.w <= Width /\ r.y + r.h <= Height}

Picture == [x |-> 0, y |-> 0, w |-> Width, h |-> Height]

PictureSize == Width * Height * Bpp

\* int size = args->w * args->h * args->bpp
Size(r) == AsInt(AsInt(r.w * r.h) * Bpp)

\* int dest_line_width = args->w * args->bpp
LineWidth(r) == AsInt(r.w * Bpp)

\* int start_pos = (i * gdi->width * args->bpp) + (args->x * args->bpp)
StartPos(r, i) == AsInt(AsInt(AsInt(i * Width) * Bpp) + AsInt(r.x * Bpp))

CopyInit ==
  /\ painter = "idle"
  /\ args = Picture
  /\ buffer = [k \in 0 .. -1 |-> Uninit]
  /\ row = 0
  /\ dest_pos = 0

\* The keyframe: one memcpy of all that Size says.
CopyAll ==
  /\ painter = "idle"
  /\ args' = Picture
  /\ buffer' = [k \in 0 .. Size(Picture) - 1 |-> k]
  /\ painter' = "emit"
  /\ UNCHANGED <<row, dest_pos>>

\* Mutant: the rows go where the picture has them.
StartCopyInPlace(r) ==
  /\ painter = "idle"
  /\ args' = r
  /\ buffer' = [k \in 0 .. Size(r) - 1 |-> Uninit]
  /\ row' = r.y
  /\ dest_pos' = r.y * LineWidth(r)
  /\ painter' = "copy"

\* The head of the loop over the rows of the invalid region.
StartCopy(r) ==
  /\ painter = "idle"
  /\ args' = r
  /\ buffer' = [k \in 0 .. Size(r) - 1 |-> Uninit]
  /\ row' = r.y
  /\ dest_pos' = 0
  /\ painter' = "copy"

\* Mutant: the row starts at its first column in the picture.
CopyRowFromLeft ==
  /\ painter = "copy"
  /\ row < args.y + args.h
  /\ LET start == StartPos([args EXCEPT !.x = 0], row)
         width == LineWidth(args)
     IN  buffer' = [k \in DOMAIN buffer |-> IF dest_pos <= k /\ k < dest_pos + width
                                              THEN start + k - dest_pos
                                              ELSE buffer[k]]
  /\ row' = row + 1
  /\ dest_pos' = AsInt(dest_pos + LineWidth(args))
  /\ UNCHANGED <<painter, args>>

\* Mutant: the loop goes on to the row after the last.
CopyRowInclusive ==
  /\ painter = "copy"
  /\ row <= args.y + args.h
  /\ row' = row + 1
  /\ UNCHANGED <<painter, args, buffer, dest_pos>>

\* One memcpy of dest_line_width bytes.
CopyRow ==
  /\ painter = "copy"
  /\ row < args.y + args.h
  /\ LET start == StartPos(args, row)
         width == LineWidth(args)
     IN  buffer' = [k \in DOMAIN buffer |-> IF dest_pos <= k /\ k < dest_pos + width
                                              THEN start + k - dest_pos
                                              ELSE buffer[k]]
  /\ row' = row + 1
  /\ dest_pos' = AsInt(dest_pos + LineWidth(args))
  /\ UNCHANGED <<painter, args>>

EndCopy ==
  /\ painter = "copy"
  /\ row >= args.y + args.h
  /\ painter' = "emit"
  /\ UNCHANGED <<args, buffer, row, dest_pos>>

\* generator_emit takes the draw_args over.
EmitCopy ==
  /\ painter = "emit"
  /\ painter' = "idle"
  /\ UNCHANGED <<args, buffer, row, dest_pos>>

CopyNext == \/ CopyAll
            \/ \E r \in Region : StartCopy(r)
            \/ CopyRow
            \/ EndCopy
            \/ EmitCopy

CopySpec == CopyInit /\ [][CopyNext]_copyVars

-----------------------------------------------------------------------------
CopyTypeOK ==
  /\ painter \in {"idle", "copy", "emit"}
  /\ args \in Region
  /\ \E n \in 0 .. IntMax : buffer \in [0 .. n - 1 -> Int]
  /\ row \in 0 .. Height
  /\ dest_pos \in 0 .. IntMax

\* No memcpy reads outside the picture or writes outside the buffer: however the
\* region lies, no offset has overflowed and none has gone past an end.
CopyStaysInside ==
  /\ painter = "copy" /\ row < args.y + args.h =>
       /\ 0 <= StartPos(args, row)
       /\ StartPos(args, row) + LineWidth(args) <= PictureSize
       /\ 0 <= dest_pos /\ dest_pos + LineWidth(args) <= Size(args)
  /\ Size(Picture) = PictureSize

\* What is emitted is the region: its rows one after the other, every byte from
\* where the picture has it, and no byte left as new left it.
BufferIsRegion ==
  painter = "emit" =>
    LET width == args.w * Bpp
    IN  /\ DOMAIN buffer = 0 .. args.h * width - 1
        /\ \A i \in 0 .. args.h - 1, o \in 0 .. width - 1 :
             buffer[i * width + o] = ((args.y + i) * Width + args.x) * Bpp + o
=============================================================================
