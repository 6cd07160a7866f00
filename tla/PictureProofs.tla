------------------------------ MODULE PictureProofs ------------------------------
(***************************************************************************)
(* Proofs about Copy, Color and Picture: for a picture of any size whose   *)
(* bytes can be counted by an int, no offset of the row-by-row copy        *)
(* overflows or leaves its buffer, and what is emitted is the region, byte *)
(* by byte; every format's pixels become those a canvas shows; and so the  *)
(* application sees the picture that the server drew.                      *)
(***************************************************************************)
EXTENDS Picture, TLAPS

-----------------------------------------------------------------------------
(* Arithmetic: the prover's solvers multiply two variables badly. *)

\* A product grows with its first factor.
LEMMA ProductGrows ==
  ASSUME NEW a \in Nat, NEW b \in Nat, NEW c \in Nat, a <= b
  PROVE  a * c <= b * c
<1>1. PICK d \in Nat : b = a + d
  <2>1. b - a \in Nat /\ b = a + (b - a)
    OBVIOUS
  <2> QED BY <2>1
<1>2. b * c = a * c + d * c
  BY <1>1
<1>3. d * c >= 0
  BY <1>1
<1> QED BY <1>2, <1>3

\* A product of naturals is a natural.
LEMMA ProductType ==
  ASSUME NEW a \in Nat, NEW b \in Nat
  PROVE  a * b \in Nat
OBVIOUS

\* An offset in a row of a table is before the next row.
LEMMA RowBeforeNext ==
  ASSUME NEW i \in Nat, NEW n \in Nat, i < n, NEW width \in Nat, NEW o \in 0 .. width - 1
  PROVE  i * width + o < n * width
<1>1. (i + 1) * width <= n * width
  BY ProductGrows, i + 1 \in Nat, i + 1 <= n
<1>2. (i + 1) * width = i * width + width
  OBVIOUS
<1>3. i * width \in Nat /\ n * width \in Nat
  BY ProductType
<1> QED BY <1>1, <1>2, <1>3

\* A number that an int can hold stays what it is.
LEMMA IntIsExact ==
  ASSUME NEW n \in 0 .. IntMax
  PROVE  AsInt(n) = n
BY CopyAssumption DEF AsInt

-----------------------------------------------------------------------------
(* The numbers of end_paint, for a region of the picture. *)

\* The picture's size in bytes is an int, and no number of bytes in a row or
\* of pixels in a region is larger.
LEMMA PictureFits ==
  /\ PictureSize \in Nat /\ PictureSize <= IntMax
  /\ \A a \in 0 .. Width, b \in 0 .. Height : a * b * Bpp \in 0 .. PictureSize
<1>1. Width * Height \in Nat /\ PictureSize \in Nat
  BY CopyAssumption, ProductType DEF PictureSize
<1>2. ASSUME NEW a \in 0 .. Width, NEW b \in 0 .. Height
      PROVE  a * b * Bpp \in 0 .. PictureSize
  <2>1. a * b <= Width * b
    BY ProductGrows, CopyAssumption
  <2>2. b * Width <= Height * Width
    BY ProductGrows, CopyAssumption
  <2>3. a * b \in Nat /\ a * b <= Width * Height
    <3>1. Width * b = b * Width /\ Width * Height = Height * Width
      BY CopyAssumption
    <3>2. a * b \in Nat /\ b * Width \in Nat
      BY ProductType, CopyAssumption
    <3> QED BY <1>1, <2>1, <2>2, <3>1, <3>2
  <2>4. a * b * Bpp <= Width * Height * Bpp
    BY ProductGrows, <1>1, <2>3, CopyAssumption
  <2>5. a * b * Bpp \in Nat
    BY ProductType, <2>3, CopyAssumption
  <2> QED BY <1>1, <2>4, <2>5 DEF PictureSize
<1> QED BY <1>1, <1>2, CopyAssumption DEF PictureSize

\* A factor at least 1 does not shrink a number.
LEMMA ProductAtLeast ==
  ASSUME NEW a \in Nat, NEW b \in Nat \ {0}
  PROVE  a <= a * b /\ a * b \in Nat
<1>1. 1 * a <= b * a
  BY ProductGrows
<1>2. b * a = a * b /\ 1 * a = a
  OBVIOUS
<1> QED BY <1>1, <1>2, ProductType

\* size and dest_line_width are exact.
LEMMA SizeIsExact ==
  ASSUME NEW r \in Region
  PROVE  /\ LineWidth(r) = r.w * Bpp
         /\ r.w * Bpp \in Nat \ {0}
         /\ Size(r) = r.h * (r.w * Bpp)
         /\ r.h * (r.w * Bpp) \in Nat
         /\ r.h * (r.w * Bpp) <= PictureSize
         /\ r.h * (r.w * Bpp) <= IntMax
         /\ r.w * Bpp <= IntMax
<1>1. r.w \in 1 .. Width /\ r.h \in 1 .. Height
  BY DEF Region
<1>2. r.w * r.h * Bpp \in 0 .. PictureSize
  <2>1. r.w \in 0 .. Width /\ r.h \in 0 .. Height
    BY <1>1, CopyAssumption
  <2>2. \A a \in 0 .. Width, b \in 0 .. Height : a * b * Bpp \in 0 .. PictureSize
    BY PictureFits
  <2> QED BY <2>1, <2>2, Zenon
<1>3. r.w * r.h \in Nat /\ r.w * r.h <= r.w * r.h * Bpp
  BY <1>1, ProductAtLeast, ProductType, CopyAssumption
<1>4. r.w * r.h * Bpp = r.h * (r.w * Bpp)
  BY <1>1, CopyAssumption
<1>5. r.w * Bpp # 0
  <2>1. r.w <= r.w * Bpp
    BY <1>1, ProductAtLeast, CopyAssumption
  <2> QED BY <1>1, <2>1
<1>8. r.w * Bpp \in Nat /\ r.w * Bpp <= r.h * (r.w * Bpp)
  <2>1. r.w * Bpp \in Nat
    BY <1>1, ProductType, CopyAssumption
  <2>2. r.w * Bpp <= (r.w * Bpp) * r.h
    BY <1>1, <2>1, ProductAtLeast
  <2>3. (r.w * Bpp) * r.h = r.h * (r.w * Bpp)
    BY <1>1, CopyAssumption
  <2> QED BY <2>1, <2>2, <2>3
<1>6. AsInt(r.w * r.h) = r.w * r.h
  BY <1>2, <1>3, PictureFits, CopyAssumption, IntIsExact
<1>7. AsInt(r.w * r.h * Bpp) = r.w * r.h * Bpp /\ AsInt(r.w * Bpp) = r.w * Bpp
  BY <1>2, <1>4, <1>8, PictureFits, CopyAssumption, IntIsExact
<1> QED BY <1>2, <1>4, <1>5, <1>6, <1>7, <1>8, PictureFits, CopyAssumption DEF LineWidth, Size

\* The keyframe's size is the picture's.
LEMMA PictureIsRegion == Picture \in Region /\ Size(Picture) = PictureSize
<1>1. Picture \in Region
  BY CopyAssumption DEF Picture, Region
<1>2. Height * (Width * Bpp) = PictureSize
  BY CopyAssumption DEF PictureSize
<1> QED BY <1>1, <1>2, SizeIsExact DEF Picture

\* start_pos is exact, and the row that starts there is in the picture.
LEMMA StartIsExact ==
  ASSUME NEW r \in Region, NEW i \in r.y .. r.y + r.h - 1
  PROVE  /\ StartPos(r, i) = (i * Width + r.x) * Bpp
         /\ StartPos(r, i) \in Nat
         /\ StartPos(r, i) + r.w * Bpp <= PictureSize
<1>1. /\ r.x \in Nat /\ r.x + r.w <= Width /\ r.w \in Nat \ {0}
      /\ i \in Nat /\ i + 1 \in 0 .. Height /\ i \in 0 .. Height
      /\ r.x \in 0 .. Width /\ Width \in 0 .. Width
  BY CopyAssumption DEF Region
<1>2. i * Width * Bpp \in Nat /\ i * Width \in Nat /\ r.x * Bpp \in Nat
  BY <1>1, ProductType, CopyAssumption
<1>3. (i * Width + r.x) * Bpp = i * Width * Bpp + r.x * Bpp
  BY <1>1, <1>2, CopyAssumption
<1>4. i * Width * Bpp + r.x * Bpp + r.w * Bpp <= PictureSize
  <2>1. Width * (i + 1) * Bpp <= PictureSize
    BY <1>1, PictureFits, CopyAssumption
  <2>2. (r.x + r.w) * Bpp <= Width * Bpp
    BY <1>1, ProductGrows, CopyAssumption
  <2>3. Width * (i + 1) * Bpp = i * Width * Bpp + Width * Bpp
    BY <1>1, CopyAssumption
  <2>4. (r.x + r.w) * Bpp = r.x * Bpp + r.w * Bpp
    BY <1>1, CopyAssumption
  <2>5. Width * Bpp \in Nat /\ r.w * Bpp \in Nat
    BY <1>1, ProductType, CopyAssumption
  <2> QED BY <1>2, <2>1, <2>2, <2>3, <2>4, <2>5, PictureFits
<1>5. r.w * Bpp \in Nat
  BY <1>1, ProductType, CopyAssumption
<1>6. AsInt(i * Width) = i * Width
  <2>1. i * Width <= i * Width * Bpp
    BY <1>2, ProductAtLeast, CopyAssumption
  <2> QED BY <1>2, <1>4, <1>5, <2>1, PictureFits, IntIsExact, CopyAssumption
<1>7. AsInt(i * Width * Bpp) = i * Width * Bpp /\ AsInt(r.x * Bpp) = r.x * Bpp
  BY <1>2, <1>4, <1>5, PictureFits, IntIsExact, CopyAssumption
<1>8. AsInt(i * Width * Bpp + r.x * Bpp) = i * Width * Bpp + r.x * Bpp
  BY <1>2, <1>4, <1>5, PictureFits, IntIsExact, CopyAssumption
<1>9. StartPos(r, i) = i * Width * Bpp + r.x * Bpp
  BY <1>6, <1>7, <1>8 DEF StartPos
<1> QED BY <1>2, <1>3, <1>4, <1>9

-----------------------------------------------------------------------------
(* The inductive invariant: in the loop, dest_pos is as many lines as there *)
(* are rows done, and those rows are in the buffer.                         *)

\* The first n rows of the region are in the buffer.
RowsCopied(n) ==
  \A i \in 0 .. n - 1, o \in 0 .. args.w * Bpp - 1 :
    buffer[i * (args.w * Bpp) + o] = ((args.y + i) * Width + args.x) * Bpp + o

LoopInv ==
  painter = "copy" =>
    /\ row \in args.y .. args.y + args.h
    /\ dest_pos = (row - args.y) * (args.w * Bpp)
    /\ DOMAIN buffer = 0 .. args.h * (args.w * Bpp) - 1
    /\ RowsCopied(row - args.y)

CopyInv == CopyTypeOK /\ LoopInv /\ BufferIsRegion

\* A region's fields.
LEMMA RegionFields ==
  ASSUME NEW r \in Region
  PROVE  /\ r.x \in Nat /\ r.y \in Nat /\ r.w \in Nat \ {0} /\ r.h \in Nat \ {0}
         /\ r.x + r.w <= Width /\ r.y + r.h <= Height
BY CopyAssumption DEF Region

LEMMA InitCopyInv == CopyInit => CopyInv
<1> SUFFICES ASSUME CopyInit PROVE CopyInv
  OBVIOUS
<1>1. buffer \in [0 .. 0 - 1 -> Int] /\ 0 \in 0 .. IntMax
  BY CopyAssumption DEF CopyInit, Uninit
<1> QED
  BY <1>1, PictureIsRegion, CopyAssumption
  DEF CopyInit, CopyInv, CopyTypeOK, LoopInv, BufferIsRegion

LEMMA CopyAllKeeps ==
  ASSUME CopyInv, CopyAll
  PROVE  CopyInv'
<1>1. /\ args' = Picture /\ painter' = "emit" /\ row' = row /\ dest_pos' = dest_pos
      /\ buffer' = [k \in 0 .. PictureSize - 1 |-> k]
  BY PictureIsRegion DEF CopyAll
<1>2. CopyTypeOK'
  <2>1. buffer' \in [0 .. PictureSize - 1 -> Int] /\ PictureSize \in 0 .. IntMax
    BY <1>1, PictureFits
  <2> QED BY <1>1, <2>1, PictureIsRegion DEF CopyInv, CopyTypeOK
<1>3. BufferIsRegion'
  <2>1. Height * (Width * Bpp) = PictureSize /\ Width * Bpp \in Nat
    BY CopyAssumption, ProductType DEF PictureSize
  <2>2. ASSUME NEW i \in 0 .. Height - 1, NEW o \in 0 .. Width * Bpp - 1
        PROVE  buffer'[i * (Width * Bpp) + o] = ((0 + i) * Width + 0) * Bpp + o
    <3>1. i * (Width * Bpp) + o < Height * (Width * Bpp)
      BY <2>1, RowBeforeNext, CopyAssumption
    <3>2. i * (Width * Bpp) \in Nat
      BY <2>1, ProductType, CopyAssumption
    <3>3. i * (Width * Bpp) + o \in 0 .. PictureSize - 1
      BY <2>1, <3>1, <3>2, PictureFits
    <3>4. ((0 + i) * Width + 0) * Bpp = i * (Width * Bpp)
      BY CopyAssumption
    <3> QED BY <1>1, <3>3, <3>4
  <2>3. /\ args'.x = 0 /\ args'.y = 0 /\ args'.w = Width /\ args'.h = Height
    BY <1>1 DEF Picture
  <2>4. DOMAIN buffer' = 0 .. Height * (Width * Bpp) - 1
    BY <1>1, <2>1
  <2> QED BY <2>2, <2>3, <2>4 DEF BufferIsRegion
<1> QED BY <1>1, <1>2, <1>3 DEF CopyInv, LoopInv

LEMMA StartCopyKeeps ==
  ASSUME CopyInv, NEW r \in Region, StartCopy(r)
  PROVE  CopyInv'
<1>1. /\ args' = r /\ painter' = "copy" /\ row' = r.y /\ dest_pos' = 0
      /\ buffer' = [k \in 0 .. r.h * (r.w * Bpp) - 1 |-> Uninit]
  BY SizeIsExact DEF StartCopy
<1>2. CopyTypeOK'
  <2>1. buffer' \in [0 .. r.h * (r.w * Bpp) - 1 -> Int]
    BY <1>1 DEF Uninit
  <2>2. r.h * (r.w * Bpp) \in 0 .. IntMax
    BY SizeIsExact, CopyAssumption
  <2> QED BY <1>1, <2>1, <2>2, RegionFields, CopyAssumption DEF CopyTypeOK
<1>3. LoopInv'
  <2>1. r.y - r.y = 0 /\ 0 * (r.w * Bpp) = 0 /\ r.y \in r.y .. r.y + r.h
    BY RegionFields, SizeIsExact
  <2> QED BY <1>1, <2>1 DEF LoopInv, RowsCopied
<1> QED BY <1>1, <1>2, <1>3 DEF CopyInv, BufferIsRegion

LEMMA CopyRowKeeps ==
  ASSUME CopyInv, CopyRow
  PROVE  CopyInv'
<1> DEFINE width == args.w * Bpp
           done == row - args.y
           start == (row * Width + args.x) * Bpp
<1>0. /\ args \in Region /\ row < args.y + args.h
      /\ row \in args.y .. args.y + args.h
  BY DEF CopyInv, CopyTypeOK, LoopInv, CopyRow
<1>1. /\ args \in Region /\ painter = "copy" /\ row < args.y + args.h
      /\ row \in args.y .. args.y + args.h /\ dest_pos = done * width
      /\ DOMAIN buffer = 0 .. args.h * width - 1
      /\ RowsCopied(done)
  BY DEF CopyInv, CopyTypeOK, LoopInv, CopyRow
<1>2. /\ args.w \in Nat \ {0} /\ args.h \in Nat \ {0} /\ args.y \in Nat /\ args.x \in Nat
      /\ args.y + args.h <= Height /\ row \in args.y .. args.y + args.h - 1
      /\ row \in Nat /\ done \in 0 .. args.h - 1 /\ row + 1 \in 0 .. Height
  BY <1>0, RegionFields, CopyAssumption
<1>3. /\ width \in Nat \ {0} /\ LineWidth(args) = width
      /\ args.h * width \in Nat /\ args.h * width <= IntMax
      /\ StartPos(args, row) = start /\ start \in Nat
  BY <1>1, <1>2, SizeIsExact, StartIsExact
<1>4. /\ (done + 1) * width = done * width + width
      /\ (done + 1) * width \in 0 .. args.h * width
      /\ done * width \in Nat
  <2>1. (done + 1) * width <= args.h * width
    BY <1>2, <1>3, ProductGrows, done + 1 \in Nat, done + 1 <= args.h
  <2>2. (done + 1) * width \in Nat /\ done * width \in Nat
    BY <1>2, <1>3, ProductType, done + 1 \in Nat
  <2>3. (done + 1) * width = done * width + width
    BY <1>2, <1>3
  <2> QED BY <2>1, <2>2, <2>3, <1>3
<1>5. AsInt(dest_pos + width) = (done + 1) * width
  BY <1>1, <1>3, <1>4, IntIsExact, CopyAssumption
<1>6. /\ args' = args /\ painter' = painter /\ row' = row + 1
      /\ dest_pos' = (done + 1) * width
      /\ buffer' = [k \in DOMAIN buffer |->
                      IF dest_pos <= k /\ k < dest_pos + width
                        THEN start + k - dest_pos ELSE buffer[k]]
  BY <1>3, <1>5 DEF CopyRow
<1>7. DOMAIN buffer' = 0 .. args.h * width - 1
  BY <1>1, <1>6
<1>8. ASSUME NEW i \in 0 .. done, NEW o \in 0 .. width - 1
      PROVE  buffer'[i * width + o] = ((args.y + i) * Width + args.x) * Bpp + o
  <2> DEFINE k == i * width + o
  <2>1. i * width \in Nat /\ k \in Nat
    BY <1>2, <1>3, ProductType
  <2>2. k < args.h * width
    BY <1>2, <1>3, RowBeforeNext
  <2>3. k \in DOMAIN buffer
    BY <1>1, <1>3, <2>1, <2>2
  <2>4. CASE i = done
    <3>1. k = dest_pos + o /\ dest_pos \in Nat
      BY <1>1, <1>4, <2>4
    <3>2. buffer'[k] = start + k - dest_pos
      BY <1>3, <1>6, <2>3, <3>1
    <3>3. args.y + i = row
      BY <1>2, <2>4
    <3> QED BY <1>3, <3>1, <3>2, <3>3
  <2>5. CASE i < done
    <3>1. k < done * width
      BY <1>2, <1>3, <2>5, RowBeforeNext
    <3>2. buffer'[k] = buffer[k]
      BY <1>1, <1>4, <1>6, <2>1, <2>3, <3>1
    <3>3. buffer[k] = ((args.y + i) * Width + args.x) * Bpp + o
      BY <1>1, <1>2, <2>5, i \in 0 .. done - 1 DEF RowsCopied
    <3> QED BY <3>2, <3>3
  <2> QED BY <1>2, <2>4, <2>5
<1>9. LoopInv'
  <2>1. row' - args'.y = done + 1 /\ row' \in args.y .. args.y + args.h /\ done + 1 - 1 = done
    BY <1>1, <1>2, <1>6
  <2>2. 0 .. (row' - args'.y) - 1 = 0 .. done
    BY <1>2, <2>1
  <2>3. RowsCopied(row - args.y)'
    <3>1. ASSUME NEW i \in 0 .. (row' - args'.y) - 1, NEW o \in 0 .. args'.w * Bpp - 1
          PROVE  buffer'[i * (args'.w * Bpp) + o]
                   = ((args'.y + i) * Width + args'.x) * Bpp + o
      <4>1. i \in 0 .. done /\ o \in 0 .. width - 1
        BY <1>6, <2>2
      <4>2. buffer'[i * width + o] = ((args.y + i) * Width + args.x) * Bpp + o
        BY <1>8, <4>1
      <4> QED BY <1>6, <4>2
    <3> QED BY <3>1, Zenon DEF RowsCopied
  <2> QED BY <1>1, <1>6, <1>7, <2>1, <2>3 DEF LoopInv
<1>10. CopyTypeOK'
  <2>1. ASSUME NEW k \in 0 .. args.h * width - 1
        PROVE  buffer'[k] \in Int
    <3>1. buffer[k] \in Int
      BY <1>1 DEF CopyInv, CopyTypeOK
    <3> QED BY <1>1, <1>3, <1>4, <1>6, <3>1
  <2>2. buffer' \in [0 .. args.h * width - 1 -> Int]
    BY <1>6, <1>7, <2>1
  <2>3. args.h * width \in 0 .. IntMax /\ (done + 1) * width \in 0 .. IntMax
    BY <1>3, <1>4, CopyAssumption
  <2> QED BY <1>1, <1>2, <1>6, <2>2, <2>3 DEF CopyTypeOK
<1>11. BufferIsRegion'
  BY <1>1, <1>6 DEF BufferIsRegion
<1> QED BY <1>9, <1>10, <1>11 DEF CopyInv

LEMMA EndCopyKeeps ==
  ASSUME CopyInv, EndCopy
  PROVE  CopyInv'
<1>0. /\ args \in Region /\ row \in args.y .. args.y + args.h /\ row >= args.y + args.h
  BY DEF CopyInv, CopyTypeOK, LoopInv, EndCopy
<1>1. row = args.y + args.h /\ row - args.y = args.h
  BY <1>0, RegionFields
<1>2. RowsCopied(args.h) /\ DOMAIN buffer = 0 .. args.h * (args.w * Bpp) - 1
  BY <1>1 DEF CopyInv, LoopInv, EndCopy
<1>3. BufferIsRegion'
  BY <1>2 DEF EndCopy, BufferIsRegion, RowsCopied
<1> QED BY <1>3 DEF CopyInv, CopyTypeOK, LoopInv, EndCopy

LEMMA NextCopyInv == CopyInv /\ [CopyNext]_copyVars => CopyInv'
<1> SUFFICES ASSUME CopyInv, [CopyNext]_copyVars PROVE CopyInv'
  OBVIOUS
<1>1. CASE CopyAll
  BY <1>1, CopyAllKeeps
<1>2. CASE \E r \in Region : StartCopy(r)
  BY <1>2, StartCopyKeeps
<1>3. CASE CopyRow
  BY <1>3, CopyRowKeeps
<1>4. CASE EndCopy
  BY <1>4, EndCopyKeeps
<1>5. CASE EmitCopy
  BY <1>5 DEF EmitCopy, CopyInv, CopyTypeOK, LoopInv, BufferIsRegion
<1>6. CASE UNCHANGED copyVars
  BY <1>6 DEF copyVars, CopyInv, CopyTypeOK, LoopInv, RowsCopied, BufferIsRegion
<1> QED BY <1>1, <1>2, <1>3, <1>4, <1>5, <1>6 DEF CopyNext

LEMMA AlwaysCopyInv == CopySpec => []CopyInv
BY InitCopyInv, NextCopyInv, PTL DEF CopySpec

LEMMA InvStaysInside == CopyInv => CopyStaysInside
<1> SUFFICES ASSUME CopyInv PROVE CopyStaysInside
  OBVIOUS
<1>1. ASSUME painter = "copy", row < args.y + args.h
      PROVE  /\ 0 <= StartPos(args, row)
             /\ StartPos(args, row) + LineWidth(args) <= PictureSize
             /\ 0 <= dest_pos /\ dest_pos + LineWidth(args) <= Size(args)
  <2> DEFINE width == args.w * Bpp
             done == row - args.y
  <2>1. args \in Region /\ row \in args.y .. args.y + args.h /\ dest_pos = done * width
    BY <1>1 DEF CopyInv, CopyTypeOK, LoopInv
  <2>2. /\ row \in args.y .. args.y + args.h - 1 /\ done \in Nat /\ done + 1 <= args.h
        /\ args.h \in Nat
    BY <1>1, <2>1, RegionFields
  <2>3. width \in Nat /\ LineWidth(args) = width /\ Size(args) = args.h * width
    BY <2>1, SizeIsExact
  <2>4. (done + 1) * width <= args.h * width
    BY <2>2, <2>3, ProductGrows, done + 1 \in Nat
  <2> HIDE DEF width, done
  <2>5. (done + 1) * width = done * width + width
    BY <2>2, <2>3
  <2>6. done * width \in Nat
    BY <2>2, <2>3, ProductType
  <2>7. StartPos(args, row) \in Nat /\ StartPos(args, row) + width <= PictureSize
    BY <2>1, <2>2, StartIsExact DEF width
  <2> QED BY <2>1, <2>3, <2>4, <2>5, <2>6, <2>7
<1> QED BY <1>1, PictureIsRegion DEF CopyStaysInside

-----------------------------------------------------------------------------
(* Colours: whatever the server's format, a pixel of the picture has the   *)
(* bytes that a canvas shows.                                              *)

ColourType == [r : Byte, g : Byte, b : Byte, a : Byte]
Channel == {"r", "g", "b", "a"}

\* Formats of a byte per channel, and of bits in 16.
ByteFormats == {f \in ColourFormats : HasBytes(f)}
BitFormats == {f \in ColourFormats : ~HasBytes(f) /\ f # PIXEL_FORMAT_RGB8}

\* The place of every channel in the orders of color.h.
LEMMA Orders ==
  /\ Order("ARGB") = <<"a", "r", "g", "b">>
  /\ Order("ABGR") = <<"a", "b", "g", "r">>
  /\ Order("RGBA") = <<"r", "g", "b", "a">>
  /\ Order("BGRA") = <<"b", "g", "r", "a">>
<1>1. Order("ARGB") = <<"a", "r", "g", "b">>
  BY DEF Order
<1>2. Order("ABGR") = <<"a", "b", "g", "r">>
  BY DEF Order
<1>3. Order("RGBA") = <<"r", "g", "b", "a">>
  BY DEF Order
<1>4. Order("BGRA") = <<"b", "g", "r", "a">>
  BY DEF Order
<1> QED BY <1>1, <1>2, <1>3, <1>4

\* Place finds a channel where Order has it.
LEMMA Places ==
  ASSUME NEW type \in {"ARGB", "ABGR", "RGBA", "BGRA"}, NEW c \in Channel
  PROVE  Place(type, c) \in 1 .. 4 /\ Order(type)[Place(type, c)] = c
<1>1. \E i \in 1 .. 4 : Order(type)[i] = c
  BY Orders DEF Channel
<1> QED BY <1>1 DEF Place

LEMMA PlacesOfAlpha ==
  /\ Place("ARGB", "a") = 1 /\ Place("ABGR", "a") = 1
  /\ Place("RGBA", "a") = 4 /\ Place("BGRA", "a") = 4
BY Places, Orders DEF Channel

LEMMA PlacesOfColours ==
  /\ Place("ARGB", "r") = 2 /\ Place("ARGB", "g") = 3 /\ Place("ARGB", "b") = 4
  /\ Place("ABGR", "r") = 4 /\ Place("ABGR", "g") = 3 /\ Place("ABGR", "b") = 2
BY Places, Orders DEF Channel

\* What the formats of a byte per channel have in common.
LEMMA ByteFields ==
  ASSUME NEW f \in ByteFormats
  PROVE  /\ HasBytes(f) /\ f.bpp \in {24, 32}
         /\ f.type \in {"ARGB", "ABGR", "RGBA", "BGRA"}
         /\ f.a \in {0, 8} /\ f.r = 8 /\ f.g = 8 /\ f.b = 8
         /\ f.bpp = 24 => f.type \in {"ARGB", "ABGR"} /\ f.a = 0
BY DEF ByteFormats, ColourFormats, HasBytes, Format,
       PIXEL_FORMAT_ARGB32, PIXEL_FORMAT_XRGB32, PIXEL_FORMAT_ABGR32, PIXEL_FORMAT_XBGR32,
       PIXEL_FORMAT_BGRA32, PIXEL_FORMAT_BGRX32, PIXEL_FORMAT_RGBA32, PIXEL_FORMAT_RGBX32,
       PIXEL_FORMAT_RGB24, PIXEL_FORMAT_BGR24, PIXEL_FORMAT_RGB16, PIXEL_FORMAT_BGR16,
       PIXEL_FORMAT_ARGB15, PIXEL_FORMAT_RGB15, PIXEL_FORMAT_ABGR15, PIXEL_FORMAT_BGR15,
       PIXEL_FORMAT_RGB8

\* What the formats of 15 and 16 bits have in common.
LEMMA BitFields ==
  ASSUME NEW f \in BitFormats
  PROVE  /\ HasBits(f) /\ ~HasBytes(f) /\ f.bpp \in {15, 16}
         /\ f.type \in {"ARGB", "ABGR"}
         /\ f.a \in {0, 1} /\ f.r = 5 /\ f.g \in {5, 6} /\ f.b = 5
         /\ f["r"] = f.r /\ f["g"] = f.g /\ f["b"] = f.b
         /\ f.g = 6 => f.a = 0
         /\ f.bpp = 15 => f.a = 0 /\ f.g = 5
BY DEF BitFormats, ColourFormats, HasBytes, HasBits, Format,
       PIXEL_FORMAT_ARGB32, PIXEL_FORMAT_XRGB32, PIXEL_FORMAT_ABGR32, PIXEL_FORMAT_XBGR32,
       PIXEL_FORMAT_BGRA32, PIXEL_FORMAT_BGRX32, PIXEL_FORMAT_RGBA32, PIXEL_FORMAT_RGBX32,
       PIXEL_FORMAT_RGB24, PIXEL_FORMAT_BGR24, PIXEL_FORMAT_RGB16, PIXEL_FORMAT_BGR16,
       PIXEL_FORMAT_ARGB15, PIXEL_FORMAT_RGB15, PIXEL_FORMAT_ABGR15, PIXEL_FORMAT_BGR15,
       PIXEL_FORMAT_RGB8

\* What the picture's own format is.
LEMMA GdiFields ==
  /\ GdiFormat \in ByteFormats /\ GdiFormat.bpp = 32 /\ GdiFormat.type = "RGBA"
  /\ GdiFormat.a = 0
BY DEF GdiFormat, PIXEL_FORMAT_RGBX32, Format, ByteFormats, ColourFormats, HasBytes

\* A format other than RGB8 has channels, which SplitColor takes apart.
LEMMA SplitsChannels ==
  ASSUME NEW f \in ByteFormats \cup BitFormats, NEW color, NEW palette
  PROVE  SplitColor(color, f, palette) = SplitChannels(color, f)
<1>1. HasBytes(f) \/ HasBits(f)
  BY ByteFields, BitFields
<1> QED
  BY <1>1
  DEF SplitColor, HasBytes, HasBits, PIXEL_FORMAT_RGB8, PIXEL_FORMAT_MONO, Format

\* A byte of which all, five or six bits are kept.
LEMMA KeptByte ==
  ASSUME NEW x \in Byte
  PROVE  /\ Kept(x, 8) = x /\ Kept(x, 5) = (x \div 8) * 8 /\ Kept(x, 6) = (x \div 4) * 4
         /\ Kept(x, 5) \in Byte /\ Kept(x, 6) \in Byte
         /\ x \div 8 \in 0 .. 31 /\ x \div 4 \in 0 .. 63
<1>1. 2 ^ (8 - 8) = 1 /\ 2 ^ (8 - 5) = 8 /\ 2 ^ (8 - 6) = 4
  OBVIOUS
<1> QED BY <1>1 DEF Kept, Byte

\* The channels of v as format f keeps them, with an alpha.
Shown(f, v, alpha) ==
  [r |-> Kept(v.r, f.r), g |-> Kept(v.g, f.g), b |-> Kept(v.b, f.b), a |-> alpha]

\* A colour of the picture is its channels in the order of its bytes.
LEMMA GdiColor ==
  ASSUME NEW w \in ColourType
  PROVE  GetColor(GdiFormat, w) = <<w.r, w.g, w.b, w.a>>
<1> DEFINE kept == [w EXCEPT !.a = IF /\ ~ColorHasAlpha(GdiFormat)
                                      /\ Place(GdiFormat.type, "a") = 1
                                     THEN 0 ELSE @]
<1>1. GetColor(GdiFormat, w) = [i \in 1 .. 4 |-> kept[Order("RGBA")[i]]]
  BY GdiFields DEF GetColor, HasBytes, HasBits, ColorHasAlpha
<1>2. kept = w
  BY GdiFields, PlacesOfAlpha DEF ColourType, ColorHasAlpha
<1>3. [i \in 1 .. 4 |-> w[Order("RGBA")[i]]] = <<w.r, w.g, w.b, w.a>>
  BY Orders DEF ColourType
<1> QED BY <1>1, <1>2, <1>3

-----------------------------------------------------------------------------
(* Formats of a byte per channel. *)

\* GetColor puts every channel at its place.
LEMMA BytesColor ==
  ASSUME NEW f \in ByteFormats, NEW v \in ColourType
  PROVE  /\ GetColor(f, v) \in [1 .. 4 -> Byte]
         /\ \A c \in {"r", "g", "b"} : GetColor(f, v)[Place(f.type, c)] = v[c]
         /\ f.a = 8 => GetColor(f, v)[Place(f.type, "a")] = v["a"]
         /\ f.bpp = 24 => GetColor(f, v)[1] = 0
<1> DEFINE kept == [v EXCEPT !.a = IF ~ColorHasAlpha(f) /\ Place(f.type, "a") = 1
                                     THEN 0 ELSE @]
<1>1. GetColor(f, v) = [i \in 1 .. 4 |-> kept[Order(f.type)[i]]]
  BY ByteFields DEF GetColor, HasBytes, HasBits, ColorHasAlpha
<1>2. /\ \A c \in {"r", "g", "b"} : kept[c] = v[c]
      /\ f.a = 8 => kept["a"] = v["a"]
      /\ f.bpp = 24 => kept["a"] = 0
      /\ \A c \in Channel : kept[c] \in Byte
  BY ByteFields, PlacesOfAlpha DEF ColourType, ColorHasAlpha, Channel, Byte
<1>3. \A i \in 1 .. 4 : Order(f.type)[i] \in Channel
  BY ByteFields, Orders DEF Channel
<1>4. f.bpp = 24 => Order(f.type)[1] = "a"
  BY ByteFields, Orders
<1>5. \A c \in Channel :
        Place(f.type, c) \in 1 .. 4 /\ Order(f.type)[Place(f.type, c)] = c
  BY ByteFields, Places
<1> HIDE DEF kept
<1> QED BY <1>1, <1>2, <1>3, <1>4, <1>5 DEF Channel

\* A sequence of one before a sequence of three.
LEMMA OneAndThree ==
  ASSUME NEW S, NEW z \in S, NEW a \in S, NEW b \in S, NEW c \in S
  PROVE  <<z>> \o <<a, b, c>> = <<z, a, b, c>>
<1> DEFINE s == <<z>>
           t == <<a, b, c>>
           j == s \o t
<1>1. s \in Seq(S) /\ t \in Seq(S)
  OBVIOUS
<1>2. /\ Len(s) = 1 /\ Len(t) = 3
      /\ s[1] = z /\ t[1] = a /\ t[2] = b /\ t[3] = c
  OBVIOUS
<1> HIDE DEF s, t
<1>3. /\ j \in Seq(S) /\ Len(j) = Len(s) + Len(t)
      /\ \A i \in 1 .. Len(j) : j[i] = IF i <= Len(s) THEN s[i] ELSE t[i - Len(s)]
  BY <1>1
<1> HIDE DEF j
<1>4. Len(j) = 4
  BY <1>2, <1>3
<1>5. /\ j \in Seq(S) /\ Len(j) = 4
      /\ j[1] = z /\ j[2] = a /\ j[3] = b /\ j[4] = c
  BY <1>2, <1>3, <1>4
<1>6. j = <<z, a, b, c>>
  BY <1>5
<1> QED BY <1>6 DEF s, t, j

\* What WriteColor writes is what ReadColor reads.
LEMMA BytesRead ==
  ASSUME NEW f \in ByteFormats, NEW v \in ColourType
  PROVE  ReadColor(WriteColor(f, GetColor(f, v)), f) = GetColor(f, v)
<1> DEFINE color == GetColor(f, v)
<1>1. color \in [1 .. 4 -> Byte] /\ (f.bpp = 24 => color[1] = 0)
  BY BytesColor
<1> HIDE DEF color
<1>2. CASE f.bpp = 32
  BY <1>2 DEF ReadColor, WriteColor, GetBitsPerPixel, color
<1>3. CASE f.bpp = 24
  <2>1. ReadColor(WriteColor(f, color), f) = <<0>> \o <<color[2], color[3], color[4]>>
    BY <1>3 DEF ReadColor, WriteColor, GetBitsPerPixel
  <2>2. 0 \in Byte /\ color[2] \in Byte /\ color[3] \in Byte /\ color[4] \in Byte
    BY <1>1 DEF Byte
  <2>3. <<0>> \o <<color[2], color[3], color[4]>> = <<0, color[2], color[3], color[4]>>
    BY <2>2, OneAndThree, Zenon
  <2>4. color = <<color[1], color[2], color[3], color[4]>>
    BY <1>1
  <2> QED BY <1>1, <1>3, <2>1, <2>3, <2>4 DEF color
<1> QED BY <1>2, <1>3, ByteFields

\* SplitColor takes the channels out again.
LEMMA BytesSplit ==
  ASSUME NEW f \in ByteFormats, NEW v \in ColourType, NEW palette
  PROVE  SplitColor(GetColor(f, v), f, palette)
           = Shown(f, v, IF f.a = 8 THEN v.a ELSE 255)
<1> DEFINE color == GetColor(f, v)
           byte(c) == color[Place(f.type, c)]
           alpha == CASE ~ColorHasAlpha(f) -> 255
                      [] ColorHasAlpha(f) /\ HasBytes(f) -> byte("a")
                      [] ColorHasAlpha(f) /\ HasBits(f) ->
                           IF Low16(color) >= 32768 THEN 255 ELSE 0
<1>1. SplitColor(color, f, palette) = SplitChannels(color, f)
  BY SplitsChannels
<1>2. SplitChannels(color, f)
        = [r |-> byte("r"), g |-> byte("g"), b |-> byte("b"), a |-> alpha]
  BY ByteFields DEF SplitChannels
<1>3. f.a = 8 => alpha = byte("a")
  BY ByteFields DEF ColorHasAlpha, HasBytes, HasBits
<1>4. f.a = 0 => alpha = 255
  BY DEF ColorHasAlpha, HasBytes, HasBits
<1>5. /\ v["r"] = v.r /\ v["g"] = v.g /\ v["b"] = v.b /\ v["a"] = v.a
      /\ v.r \in Byte /\ v.g \in Byte /\ v.b \in Byte
  BY DEF ColourType
<1>6. /\ \A c \in {"r", "g", "b"} : byte(c) = v[c]
      /\ f.a = 8 => byte("a") = v["a"]
  BY BytesColor
<1> HIDE DEF color, byte, alpha
<1> QED BY <1>1, <1>2, <1>3, <1>4, <1>5, <1>6, ByteFields, KeptByte DEF Shown, color

-----------------------------------------------------------------------------
(* Formats of 15 and 16 bits. *)

\* The powers of two that bits are shifted by.
LEMMA Powers ==
  ASSUME NEW n \in Int
  PROVE  /\ n = 0 => 2 ^ n = 1
         /\ n = 2 => 2 ^ n = 4
         /\ n = 3 => 2 ^ n = 8
         /\ n = 5 => 2 ^ n = 32
         /\ n = 6 => 2 ^ n = 64
         /\ n = 10 => 2 ^ n = 1024
         /\ n = 11 => 2 ^ n = 2048
<1>1. n = 0 => 2 ^ n = 1
  OBVIOUS
<1>2. n = 2 => 2 ^ n = 4
  OBVIOUS
<1>3. n = 3 => 2 ^ n = 8
  OBVIOUS
<1>4. n = 5 => 2 ^ n = 32
  OBVIOUS
<1>5. n = 6 => 2 ^ n = 64
  OBVIOUS
<1>6. n = 10 => 2 ^ n = 1024
  OBVIOUS
<1>7. n = 11 => 2 ^ n = 2048
  OBVIOUS
<1> QED BY <1>1, <1>2, <1>3, <1>4, <1>5, <1>6, <1>7

\* The lowest channel starts at bit 0, green at 5, the highest above green.
LEMMA BitPlaces ==
  ASSUME NEW f \in BitFormats
  PROVE  /\ Below(f, "g") = 5
         /\ \E high, low \in {"r", "b"} :
              high # low /\ Below(f, high) = 5 + f.g /\ Below(f, low) = 0
<1>1. f.type \in {"ARGB", "ABGR"} /\ f.g \in {5, 6} /\ f["r"] = 5 /\ f["b"] = 5
  BY BitFields
<1>2. \A c : Place(f.type, c) = 4 => Below(f, c) = 0
  BY DEF Below
<1>3. \A c : Place(f.type, c) = 3 => Below(f, c) = f[Order(f.type)[4]]
  BY DEF Below
<1>4. \A c : Place(f.type, c) = 2 => Below(f, c) = f[Order(f.type)[4]] + f.g
  BY DEF Below
<1>5. f[Order(f.type)[4]] = 5
  BY <1>1, Orders
<1>6. CASE f.type = "ARGB"
  <2>1. Place(f.type, "r") = 2 /\ Place(f.type, "g") = 3 /\ Place(f.type, "b") = 4
    BY <1>6, PlacesOfColours
  <2>2. Below(f, "r") = 5 + f.g /\ Below(f, "g") = 5 /\ Below(f, "b") = 0
    BY <1>2, <1>3, <1>4, <1>5, <2>1
  <2> QED BY <2>2
<1>7. CASE f.type = "ABGR"
  <2>1. Place(f.type, "b") = 2 /\ Place(f.type, "g") = 3 /\ Place(f.type, "r") = 4
    BY <1>7, PlacesOfColours
  <2>2. Below(f, "b") = 5 + f.g /\ Below(f, "g") = 5 /\ Below(f, "r") = 0
    BY <1>2, <1>3, <1>4, <1>5, <2>1
  <2> QED BY <2>2
<1> QED BY <1>1, <1>6, <1>7

\* The low bits of a colour of such a format, and a channel taken out of them.
Packed(f, v) ==
  LET bits(c) == (v[c] \div 2 ^ (8 - f[c])) * 2 ^ Below(f, c)
  IN  bits("r") + bits("g") + bits("b")
        + (IF ColorHasAlpha(f) /\ v.a # 0 THEN 32768 ELSE 0)
Unpacked(low, f, c) == ((low \div 2 ^ Below(f, c)) % 2 ^ f[c]) * 2 ^ (8 - f[c])

\* The channels do not overlap: each comes out as it went in, and the alpha is
\* the bit above them.
LEMMA BitsUnpack ==
  ASSUME NEW f \in BitFormats, NEW v \in ColourType
  PROVE  LET low == Packed(f, v)
         IN  /\ low \in Int /\ 0 <= low /\ low < 65536
             /\ f.bpp = 15 => low < 32768
             /\ f.a = 1 => (low >= 32768 <=> v.a # 0)
             /\ \A c \in {"r", "g", "b"} : Unpacked(low, f, c) = Kept(v[c], f[c])
<1>1. PICK hi, lo \in {"r", "b"} :
        hi # lo /\ Below(f, hi) = 5 + f.g /\ Below(f, lo) = 0
  BY BitPlaces
<1> DEFINE low == Packed(f, v)
           h == v[hi] \div 8
           l == v[lo] \div 8
           A == IF f.a = 1 /\ v.a # 0 THEN 32768 ELSE 0
           Fits(c) == Unpacked(low, f, c) = Kept(v[c], f[c])
<1>2. f[hi] = 5 /\ f[lo] = 5 /\ f["g"] = f.g /\ f.g \in {5, 6} /\ f.a \in {0, 1}
  BY BitFields
<1>3. v[hi] \in Byte /\ v[lo] \in Byte /\ v["g"] \in Byte
  BY DEF ColourType
<1>4. h \in 0 .. 31 /\ l \in 0 .. 31 /\ A \in {0, 32768}
  BY <1>3, KeptByte
<1>5. /\ 2 ^ Below(f, "g") = 32 /\ 2 ^ Below(f, lo) = 1
      /\ 2 ^ f[hi] = 32 /\ 2 ^ f[lo] = 32
      /\ 2 ^ (8 - f[hi]) = 8 /\ 2 ^ (8 - f[lo]) = 8
  BY <1>1, <1>2, BitPlaces, Powers
<1>6. ASSUME NEW S \in Int, 2 ^ Below(f, hi) = S,
             NEW q \in Int, v["g"] \div 2 ^ (8 - f["g"]) = q
      PROVE  low = h * S + q * 32 + l + A
  <2> DEFINE bits(c) == (v[c] \div 2 ^ (8 - f[c])) * 2 ^ Below(f, c)
  <2>1. bits(hi) = h * S /\ bits(lo) = l * 1 /\ bits("g") = q * 32
    BY <1>5, <1>6
  <2>2. A = IF ColorHasAlpha(f) /\ v.a # 0 THEN 32768 ELSE 0
    BY <1>2 DEF ColorHasAlpha
  <2>3. low = bits("r") + bits("g") + bits("b") + A
    BY <2>2 DEF Packed
  <2>4. h * S \in Int
    BY <1>4
  <2> HIDE DEF low, h, l, A, bits
  <2>5. CASE hi = "r"
    BY <1>1, <1>4, <2>1, <2>3, <2>4, <2>5
  <2>6. CASE hi = "b"
    BY <1>1, <1>4, <2>1, <2>3, <2>4, <2>6
  <2> QED BY <2>5, <2>6
<1>7. CASE f.g = 5
  <2> DEFINE m == v["g"] \div 8
  <2>1. 2 ^ f["g"] = 32 /\ 2 ^ (8 - f["g"]) = 8 /\ 2 ^ Below(f, hi) = 1024
    BY <1>1, <1>2, <1>7, Powers
  <2>2. m \in 0 .. 31
    BY <1>3, KeptByte
  <2>3. low = h * 1024 + m * 32 + l + A
    BY <1>6, <2>1, <2>2
  <2> HIDE DEF low, h, l, m, A
  <2>4. low \in Int
    BY <1>4, <2>2, <2>3
  <2>5. /\ 0 <= low /\ low < 65536
        /\ A = 32768 => low >= 32768
        /\ A = 0 => low < 32768
    BY <1>4, <2>2, <2>3, <2>4
  <2>6. low % 32 = l
    BY <1>4, <2>2, <2>3, <2>4
  <2>7. (low \div 32) % 32 = m
    BY <1>4, <2>2, <2>3, <2>4
  <2>8. (low \div 1024) % 32 = h
    BY <1>4, <2>2, <2>3, <2>4
  <2>9. Fits(hi) /\ Fits(lo) /\ Fits("g")
    <3>1. /\ Unpacked(low, f, hi) = h * 8
          /\ Unpacked(low, f, lo) = l * 8
          /\ Unpacked(low, f, "g") = m * 8
      BY <1>5, <2>1, <2>4, <2>6, <2>7, <2>8 DEF Unpacked
    <3> QED BY <1>2, <1>3, <1>7, <3>1, KeptByte DEF h, l, m
  <2>10. f.a = 1 => (low >= 32768 <=> v.a # 0)
    BY <2>4, <2>5 DEF A
  <2>11. f.bpp = 15 => low < 32768
    BY <2>5, BitFields DEF A
  <2> QED BY <1>1, <2>4, <2>5, <2>9, <2>10, <2>11 DEF low
<1>8. CASE f.g = 6
  <2> DEFINE m == v["g"] \div 4
  <2>1. 2 ^ f["g"] = 64 /\ 2 ^ (8 - f["g"]) = 4 /\ 2 ^ Below(f, hi) = 2048
    BY <1>1, <1>2, <1>8, Powers
  <2>2. m \in 0 .. 63 /\ A = 0 /\ f.a = 0 /\ f.bpp # 15
    BY <1>3, <1>8, BitFields, KeptByte
  <2>3. low = h * 2048 + m * 32 + l + A
    BY <1>6, <2>1, <2>2
  <2> HIDE DEF low, h, l, m, A
  <2>4. low \in Int
    BY <1>4, <2>2, <2>3
  <2>5. 0 <= low /\ low < 65536
    BY <1>4, <2>2, <2>3, <2>4
  <2>6. low % 32 = l
    BY <1>4, <2>2, <2>3, <2>4
  <2>7. (low \div 32) % 64 = m
    BY <1>4, <2>2, <2>3, <2>4
  <2>8. (low \div 2048) % 32 = h
    BY <1>4, <2>2, <2>3, <2>4
  <2>9. Fits(hi) /\ Fits(lo) /\ Fits("g")
    <3>1. /\ Unpacked(low, f, hi) = h * 8
          /\ Unpacked(low, f, lo) = l * 8
          /\ Unpacked(low, f, "g") = m * 4
      BY <1>5, <2>1, <2>4, <2>6, <2>7, <2>8 DEF Unpacked
    <3> QED BY <1>2, <1>3, <1>8, <3>1, KeptByte DEF h, l, m
  <2> QED BY <1>1, <2>2, <2>4, <2>5, <2>9 DEF low
<1> QED BY <1>2, <1>7, <1>8

\* GetColor packs the channels in the two low bytes.
LEMMA BitsColor ==
  ASSUME NEW f \in BitFormats, NEW v \in ColourType
  PROVE  GetColor(f, v) = <<0, 0, Packed(f, v) \div 256, Packed(f, v) % 256>>
BY BitFields DEF GetColor, Packed, HasBytes, HasBits, ColorHasAlpha

\* What WriteColor writes is what ReadColor reads: the bit that 15 bit formats
\* lose is not set.
LEMMA BitsRead ==
  ASSUME NEW f \in BitFormats, NEW v \in ColourType
  PROVE  ReadColor(WriteColor(f, GetColor(f, v)), f) = GetColor(f, v)
<1> DEFINE color == GetColor(f, v)
           low == Packed(f, v)
<1>1. color = <<0, 0, low \div 256, low % 256>>
  BY BitsColor
<1>2. low \in Int /\ 0 <= low /\ low < 65536 /\ (f.bpp = 15 => low < 32768)
  BY BitsUnpack
<1>3. f.bpp \in {15, 16}
  BY BitFields
<1> HIDE DEF color, low
<1>4. Mask15(low \div 256, f) = low \div 256
  <2>1. low < 32768 => (low \div 256) % 128 = low \div 256
    BY <1>2
  <2> QED BY <1>2, <2>1 DEF Mask15, GetBitsPerPixel
<1>5. WriteColor(f, color) = <<low % 256, low \div 256>>
  <2>1. WriteColor(f, color) = <<color[4], Mask15(color[3], f)>>
    BY <1>3 DEF WriteColor, GetBitsPerPixel
  <2> QED BY <1>1, <1>4, <2>1
<1>6. ReadColor(<<low % 256, low \div 256>>, f)
        = <<0, 0, Mask15(low \div 256, f), low % 256>>
  BY <1>3 DEF ReadColor, GetBitsPerPixel
<1> QED BY <1>1, <1>4, <1>5, <1>6 DEF color

\* SplitColor takes the channels out again.
LEMMA BitsSplit ==
  ASSUME NEW f \in BitFormats, NEW v \in ColourType, NEW palette
  PROVE  SplitColor(GetColor(f, v), f, palette)
           = Shown(f, v, IF f.a = 1 /\ v.a = 0 THEN 0 ELSE 255)
<1> DEFINE color == GetColor(f, v)
           low == Packed(f, v)
           byte(c) == color[Place(f.type, c)]
           bits(c) == ((Low16(color) \div 2 ^ Below(f, c)) % 2 ^ f[c]) * 2 ^ (8 - f[c])
           value(c) == IF HasBytes(f) THEN byte(c) ELSE bits(c)
           alpha == CASE ~ColorHasAlpha(f) -> 255
                      [] ColorHasAlpha(f) /\ HasBytes(f) -> byte("a")
                      [] ColorHasAlpha(f) /\ HasBits(f) ->
                           IF Low16(color) >= 32768 THEN 255 ELSE 0
<1>1. SplitColor(color, f, palette) = SplitChannels(color, f)
  BY SplitsChannels
<1>2. SplitChannels(color, f)
        = [r |-> value("r"), g |-> value("g"), b |-> value("b"), a |-> alpha]
  BY DEF SplitChannels
<1>3. color = <<0, 0, low \div 256, low % 256>>
  BY BitsColor
<1>4. /\ low \in Int /\ 0 <= low /\ low < 65536
      /\ f.a = 1 => (low >= 32768 <=> v.a # 0)
      /\ \A c \in {"r", "g", "b"} : Unpacked(low, f, c) = Kept(v[c], f[c])
  BY BitsUnpack
<1>5. Low16(color) = low
  <2> HIDE DEF color, low
  <2> QED BY <1>3, <1>4 DEF Low16
<1>6. /\ HasBits(f) /\ ~HasBytes(f) /\ f.a \in {0, 1}
      /\ f["r"] = f.r /\ f["g"] = f.g /\ f["b"] = f.b
  BY BitFields
<1>7. \A c : value(c) = Unpacked(low, f, c)
  BY <1>5, <1>6 DEF Unpacked
<1>8. f.a = 0 => alpha = 255
  BY <1>6 DEF ColorHasAlpha, HasBytes, HasBits
<1>9. f.a = 1 => alpha = IF Low16(color) >= 32768 THEN 255 ELSE 0
  BY <1>6 DEF ColorHasAlpha, HasBytes, HasBits
<1>10. v["r"] = v.r /\ v["g"] = v.g /\ v["b"] = v.b
  BY DEF ColourType
<1> HIDE DEF color, low, byte, bits, value, alpha
<1>11. alpha = IF f.a = 1 /\ v.a = 0 THEN 0 ELSE 255
  BY <1>4, <1>5, <1>6, <1>8, <1>9
<1>12. /\ value("r") = Kept(v.r, f.r)
       /\ value("g") = Kept(v.g, f.g)
       /\ value("b") = Kept(v.b, f.b)
  BY <1>4, <1>6, <1>7, <1>10
<1> QED BY <1>1, <1>2, <1>11, <1>12 DEF Shown, color

-----------------------------------------------------------------------------
(* The palette, and every format. *)

\* The index of a colour is the index of no other, so the palette has the colour.
LEMMA PaletteColor ==
  ASSUME NEW v \in Colours, PIXEL_FORMAT_RGB8 \in Formats
  PROVE  SplitColor(ReadColor(<<Index[v]>>, PIXEL_FORMAT_RGB8), PIXEL_FORMAT_RGB8, Palette)
           = [r |-> v.r, g |-> v.g, b |-> v.b, a |-> 255]
<1> DEFINE n == Index[v]
           color == GetColor(GdiFormat, v)
<1>1. v \in ColourType /\ n \in Byte /\ \A w \in Colours : Index[w] = n => w = v
  BY PictureAssumption DEF ColourType
<1>2. (CHOOSE w \in Colours : Index[w] = n) = v
  BY <1>1
<1>3. Palette.palette[n] = color /\ Palette.format = GdiFormat
  BY <1>2 DEF Palette
<1>4. ReadColor(<<n>>, PIXEL_FORMAT_RGB8) = <<0, 0, 0, n>>
  BY DEF ReadColor, GetBitsPerPixel, PIXEL_FORMAT_RGB8, Format
<1>5. SplitColor(<<0, 0, 0, n>>, PIXEL_FORMAT_RGB8, Palette)
        = SplitChannels(Palette.palette[n], Palette.format)
  BY DEF SplitColor, HasBytes, HasBits, PIXEL_FORMAT_RGB8, PIXEL_FORMAT_MONO, Format
<1>6. SplitChannels(color, GdiFormat) = [r |-> v.r, g |-> v.g, b |-> v.b, a |-> 255]
  <2>1. SplitColor(color, GdiFormat, Palette) = SplitChannels(color, GdiFormat)
    BY GdiFields, SplitsChannels
  <2>2. /\ GdiFormat \in ByteFormats /\ GdiFormat.a = 0
        /\ GdiFormat.r = 8 /\ GdiFormat.g = 8 /\ GdiFormat.b = 8
    BY GdiFields, ByteFields
  <2>3. v.r \in Byte /\ v.g \in Byte /\ v.b \in Byte
    BY <1>1 DEF ColourType
  <2> QED BY <1>1, <2>1, <2>2, <2>3, BytesSplit, KeptByte DEF Shown
<1> QED BY <1>3, <1>4, <1>5, <1>6

\* A colour that the server sends, whatever the format, becomes the pixel that a
\* canvas shows.
LEMMA PixelIsSeen ==
  ASSUME NEW v \in Colours, source \in Formats
  PROVE  GdiPixel(ServerPixel(v)) = Seen(v)
<1> DEFINE Sent(w) ==
             SplitColor(ReadColor(ServerPixel(v), source), source, Palette) = w
<1>1. v \in ColourType /\ source \in ColourFormats
  BY PictureAssumption DEF ColourType
<1>2. v.r \in Byte /\ v.g \in Byte /\ v.b \in Byte /\ v.a \in Byte
  BY <1>1 DEF ColourType
<1>3. ASSUME NEW w \in ColourType, Sent(w)
      PROVE  GdiPixel(ServerPixel(v)) = <<w.r, w.g, w.b, w.a>>
  <2>1. GdiPixel(ServerPixel(v)) = WriteColor(GdiFormat, GetColor(GdiFormat, w))
    BY <1>3 DEF GdiPixel, ConvertColor
  <2>2. WriteColor(GdiFormat, GetColor(GdiFormat, w)) = GetColor(GdiFormat, w)
    BY GdiFields DEF WriteColor, GetBitsPerPixel
  <2> QED BY <2>1, <2>2, GdiColor
<1>4. source # PIXEL_FORMAT_RGB8 =>
        /\ ServerPixel(v) = WriteColor(source, GetColor(source, v))
        /\ Seen(v) = <<Kept(v.r, source.r), Kept(v.g, source.g), Kept(v.b, source.b),
                       SeenAlpha(v.a)>>
  BY DEF ServerPixel, Seen
<1>5. CASE source = PIXEL_FORMAT_RGB8
  <2> DEFINE w == [r |-> v.r, g |-> v.g, b |-> v.b, a |-> 255]
  <2>1. ServerPixel(v) = <<Index[v]>> /\ Seen(v) = <<v.r, v.g, v.b, 255>>
    BY <1>5 DEF ServerPixel, Seen
  <2>2. w \in ColourType
    BY <1>2 DEF ColourType, Byte
  <2>3. Sent(w)
    BY <1>5, <2>1, PaletteColor
  <2> QED BY <1>3, <2>1, <2>2, <2>3
<1>6. CASE source \in ByteFormats
  <2> DEFINE w == Shown(source, v, IF source.a = 8 THEN v.a ELSE 255)
  <2>1. /\ source # PIXEL_FORMAT_RGB8
        /\ source.r = 8 /\ source.g = 8 /\ source.b = 8 /\ source.a \in {0, 8}
    <3>1. source.bpp \in {24, 32}
      BY <1>6, ByteFields
    <3> QED BY <1>6, <3>1, ByteFields DEF PIXEL_FORMAT_RGB8, Format
  <2>2. Sent(w)
    BY <1>1, <1>4, <1>6, <2>1, BytesRead, BytesSplit
  <2>3. w \in ColourType
    <3>1. /\ Kept(v.r, source.r) \in Byte
          /\ Kept(v.g, source.g) \in Byte
          /\ Kept(v.b, source.b) \in Byte
      BY <1>2, <2>1, KeptByte
    <3>2. (IF source.a = 8 THEN v.a ELSE 255) \in Byte
      BY <1>2 DEF Byte
    <3> QED BY <3>1, <3>2 DEF Shown, ColourType
  <2>4. SeenAlpha(v.a) = IF source.a = 8 THEN v.a ELSE 255
    BY <2>1 DEF SeenAlpha
  <2>5. GdiPixel(ServerPixel(v)) = <<w.r, w.g, w.b, w.a>>
    BY <1>3, <2>2, <2>3
  <2> QED BY <1>4, <2>1, <2>4, <2>5 DEF Shown
<1>7. CASE source \in BitFormats
  <2> DEFINE w == Shown(source, v, IF source.a = 1 /\ v.a = 0 THEN 0 ELSE 255)
  <2>1. /\ source # PIXEL_FORMAT_RGB8
        /\ source.r = 5 /\ source.g \in {5, 6} /\ source.b = 5 /\ source.a \in {0, 1}
    BY <1>7, BitFields DEF BitFormats
  <2>2. Sent(w)
    BY <1>1, <1>4, <1>7, <2>1, BitsRead, BitsSplit
  <2>3. w \in ColourType
    <3>1. /\ Kept(v.r, source.r) \in Byte
          /\ Kept(v.g, source.g) \in Byte
          /\ Kept(v.b, source.b) \in Byte
      BY <1>2, <2>1, KeptByte
    <3>2. (IF source.a = 1 /\ v.a = 0 THEN 0 ELSE 255) \in Byte
      BY DEF Byte
    <3> QED BY <3>1, <3>2 DEF Shown, ColourType
  <2>4. SeenAlpha(v.a) = IF source.a = 1 /\ v.a = 0 THEN 0 ELSE 255
    BY <2>1 DEF SeenAlpha
  <2>5. GdiPixel(ServerPixel(v)) = <<w.r, w.g, w.b, w.a>>
    BY <1>3, <2>2, <2>3
  <2> QED BY <1>4, <2>1, <2>4, <2>5 DEF Shown
<1> QED BY <1>1, <1>5, <1>6, <1>7 DEF ByteFormats, BitFormats

-----------------------------------------------------------------------------
(* Addresses: where the picture and an event's buffer have a pixel.         *)

Addr(p) == (p[2] * Width + p[1]) * Bpp

\* A pixel in the picture's memory.
MemPixel(p) == [b \in 1 .. Bpp |-> memory[Addr(p) + b - 1]]

\* A pixel in an event's buffer, as DeliverDraw takes it out.
EventPixel(e, p) ==
  LET k == ((p[2] - e.args.y) * e.args.w + p[1] - e.args.x) * Bpp
  IN  [b \in 1 .. Bpp |-> e.buffer[k + b - 1]]

LEMMA Division ==
  ASSUME NEW q \in Nat, NEW d \in Nat \ {0}, NEW r \in 0 .. d - 1
  PROVE  (q * d + r) \div d = q /\ (q * d + r) % d = r
OBVIOUS

LEMMA PixelFields ==
  ASSUME NEW p \in Pixel
  PROVE  /\ p[1] \in 0 .. Width - 1 /\ p[2] \in 0 .. Height - 1 /\ p = <<p[1], p[2]>>
         /\ p[1] \in Nat /\ p[2] \in Nat
BY CopyAssumption DEF Pixel

\* Draw finds the pixel and the byte that an address belongs to.
LEMMA PixelAddress ==
  ASSUME NEW p \in Pixel, NEW b \in 1 .. Bpp
  PROVE  LET k == Addr(p) + b - 1
         IN  /\ k \in Address
             /\ <<(k \div Bpp) % Width, k \div (Bpp * Width)>> = p
             /\ (k % Bpp) + 1 = b
<1> DEFINE x == p[1]
           y == p[2]
           n == y * Width + x
           k == Addr(p) + b - 1
<1>1. /\ x \in 0 .. Width - 1 /\ y \in 0 .. Height - 1 /\ p = <<x, y>>
      /\ x \in Nat /\ y \in Nat
      /\ Width \in Nat \ {0} /\ Height \in Nat \ {0} /\ Bpp = 4
  BY PixelFields, CopyAssumption, PictureAssumption
<1> HIDE DEF x, y
<1>2. n \in Nat /\ n < Height * Width /\ Height * Width \in Nat
  <2>1. y * Width \in Nat /\ Height * Width \in Nat
    BY <1>1, ProductType
  <2> QED BY <1>1, <2>1, RowBeforeNext
<1>3. n % Width = x
  BY <1>1, Division
<1>4. k = n * 4 + (b - 1) /\ b - 1 \in 0 .. 3
  <2>1. Addr(p) = n * 4
    BY <1>1 DEF Addr, x, y
  <2> HIDE DEF n
  <2> QED BY <1>1, <1>2, <2>1
<1>5. k \div 4 = n /\ k % 4 = b - 1
  <2> HIDE DEF n, k
  <2> QED BY <1>2, <1>4
<1>6. k \div (4 * Width) = y
  <2>1. 4 * x + (b - 1) \in 0 .. 4 * Width - 1 /\ 4 * Width \in Nat \ {0}
    BY <1>1, <1>4
  <2>2. k = y * (4 * Width) + (4 * x + (b - 1))
    <3>1. n * 4 = y * (4 * Width) + 4 * x
      BY <1>1
    <3> HIDE DEF n, k
    <3>2. y * (4 * Width) \in Nat
      BY <1>1, <2>1, ProductType
    <3> QED BY <1>1, <1>2, <1>4, <3>1, <3>2
  <2> HIDE DEF k
  <2> QED BY <1>1, <2>1, <2>2, Division
<1>7. k \in Address
  <2>1. PictureSize = (Height * Width) * 4
    BY <1>1 DEF PictureSize
  <2> HIDE DEF n, k
  <2>2. k \in Nat /\ k < (Height * Width) * 4
    BY <1>2, <1>4
  <2> QED BY <1>2, <2>1, <2>2 DEF Address
<1> HIDE DEF n, k
<1> QED BY <1>1, <1>3, <1>5, <1>6, <1>7 DEF k

\* DeliverDraw finds the bytes of a pixel where the copy has put them.
LEMMA BufferPixel ==
  ASSUME CopyTypeOK, BufferIsRegion, painter = "emit",
         NEW p \in Pixel, NEW b \in 1 .. Bpp, Covers(args, p)
  PROVE  LET k == ((p[2] - args.y) * args.w + p[1] - args.x) * Bpp + b - 1
         IN  k \in DOMAIN buffer /\ buffer[k] = Addr(p) + b - 1
<1> DEFINE i == p[2] - args.y
           j == p[1] - args.x
           o == j * Bpp + (b - 1)
           width == args.w * Bpp
           k == (i * args.w + p[1] - args.x) * Bpp + b - 1
<1>1. /\ args.x \in Nat /\ args.y \in Nat /\ args.w \in Nat \ {0} /\ args.h \in Nat \ {0}
      /\ p[1] \in Nat /\ p[2] \in Nat /\ Bpp = 4 /\ b \in 1 .. 4 /\ Width \in Nat
  BY PixelFields, RegionFields, PictureAssumption, CopyAssumption DEF CopyTypeOK
<1>2. i \in 0 .. args.h - 1 /\ j \in 0 .. args.w - 1 /\ i \in Nat /\ j \in Nat
  BY <1>1 DEF Covers
<1>3. o \in 0 .. width - 1 /\ width \in Nat
  BY <1>1, <1>2
<1>4. k = i * width + o
  <2>1. k = (i * args.w) * 4 + j * 4 + (b - 1)
    <3>1. i * args.w \in Nat
      BY <1>1, <1>2, ProductType
    <3> QED BY <1>1, <1>2, <3>1
  <2>2. i * width = (i * args.w) * 4
    BY <1>1, <1>2
  <2> QED BY <1>1, <2>1, <2>2
<1>5. /\ DOMAIN buffer = 0 .. args.h * width - 1
      /\ buffer[i * width + o] = ((args.y + i) * Width + args.x) * Bpp + o
  BY <1>2, <1>3 DEF BufferIsRegion
<1>6. i * width + o \in DOMAIN buffer
  <2>1. i * width + o < args.h * width
    <3>1. i < args.h /\ args.h \in Nat
      BY <1>1, <1>2
    <3> HIDE DEF i, o, width
    <3> QED BY <1>2, <1>3, <3>1, RowBeforeNext
  <2>2. i * width \in Nat /\ args.h * width \in Nat
    BY <1>1, <1>2, <1>3, ProductType
  <2> QED BY <1>3, <1>5, <2>1, <2>2
<1>7. ((args.y + i) * Width + args.x) * Bpp + o = Addr(p) + b - 1
  <2>1. args.y + i = p[2] /\ args.x + j = p[1]
    BY <1>1
  <2>2. p[2] * Width \in Nat
    BY <1>1, ProductType
  <2>3. (p[2] * Width + args.x) * 4 + (j * 4 + (b - 1))
          = (p[2] * Width + p[1]) * 4 + b - 1
    BY <1>1, <1>2, <2>1, <2>2
  <2> QED BY <1>1, <2>1, <2>3 DEF Addr
<1> QED BY <1>4, <1>5, <1>6, <1>7

-----------------------------------------------------------------------------
(* The inductive invariant: the picture's memory has, pixel by pixel, what *)
(* the server drew, and the canvas has what the memory has, except where   *)
(* a region drawn to since end_paint, a copy under way or an event on its  *)
(* way will still put it right.                                            *)

\* The server has drawn to p since the last end_paint.
Redrawn(p) == \E r \in invalid : Covers(r, p)

\* The pixel at p is as the server drew it.
Drawn(p, pixel) == \/ \E v \in drawn[p] : pixel = Seen(v)
                   \/ drawn[p] = {} /\ pixel = Undrawn

MemoryInv == \A p \in Pixel : Drawn(p, MemPixel(p))

CanvasInv ==
  \A p \in Pixel : \/ canvas[p] = MemPixel(p)
                   \/ Redrawn(p)
                   \/ painter # "idle" /\ Covers(args, p)
                   \/ \E e \in wire : Covers(e.args, p)

\* There is one event, and it has what the memory has.
WireInv ==
  \A e \in wire :
    /\ wire = {e}
    /\ \A p \in Pixel : Covers(e.args, p) => EventPixel(e, p) = MemPixel(p) \/ Redrawn(p)

\* Nothing is drawn and nothing is on its way while end_paint copies, and the
\* region it copies is one of the picture.
TurnInv ==
  /\ painter # "idle" => wire = {} /\ invalid = {}
  /\ \A r \in invalid : invalid = {r}
  /\ invalid \subseteq Region

PictureInv == source \in Formats /\ MemoryInv /\ CanvasInv /\ WireInv /\ TurnInv

LEMMA InitPictureInv == PictureInit => PictureInv
<1> SUFFICES ASSUME PictureInit PROVE PictureInv
  OBVIOUS
<1>1. ASSUME NEW p \in Pixel
      PROVE  MemPixel(p) = Undrawn /\ canvas[p] = Undrawn /\ drawn[p] = {}
  <2>1. ASSUME NEW b \in 1 .. Bpp
        PROVE  memory[Addr(p) + b - 1] = 0
    BY PixelAddress DEF PictureInit
  <2>2. MemPixel(p) = [b \in 1 .. 4 |-> 0]
    BY <2>1, PictureAssumption DEF MemPixel
  <2>3. [b \in 1 .. 4 |-> 0] = Undrawn
    BY DEF Undrawn
  <2> QED BY <2>2, <2>3 DEF PictureInit
<1> QED
  BY <1>1
  DEF PictureInv, MemoryInv, CanvasInv, WireInv, TurnInv, Drawn, PictureInit, CopyInit

\* A step that leaves the picture's memory alone leaves its pixels alone.
LEMMA SamePixels ==
  ASSUME UNCHANGED <<source, memory, drawn>>
  PROVE  /\ \A p : MemPixel(p)' = MemPixel(p)
         /\ MemoryInv => MemoryInv'
<1>1. ASSUME NEW p PROVE MemPixel(p)' = MemPixel(p)
  BY DEF MemPixel, Addr
<1>2. ASSUME NEW v PROVE Seen(v)' = Seen(v)
  BY DEF Seen, SeenAlpha
<1> QED BY <1>1, <1>2 DEF MemoryInv, Drawn

\* The rectangle is redrawn with the colour's pixel; nothing else is disturbed.
LEMMA DrawKeepsPicture ==
  ASSUME PictureInv, NEW r \in Region, NEW v \in Colours, Draw(r, v)
  PROVE  PictureInv'
<1>1. /\ painter = "idle" /\ invalid = {} /\ invalid' = {r} /\ source' = source
      /\ drawn' = [p \in Pixel |-> IF Covers(r, p) THEN {v} ELSE drawn[p]]
      /\ UNCHANGED <<painter, args, wire, canvas>>
  BY DEF Draw, copyVars
<1>2. ASSUME NEW p \in Pixel, NEW b \in 1 .. Bpp
      PROVE  memory'[Addr(p) + b - 1]
               = IF Covers(r, p) THEN Seen(v)[b] ELSE memory[Addr(p) + b - 1]
  <2> DEFINE k == Addr(p) + b - 1
  <2>1. /\ k \in Address /\ (k % Bpp) + 1 = b
        /\ <<(k \div Bpp) % Width, k \div (Bpp * Width)>> = p
    BY PixelAddress
  <2>2. GdiPixel(ServerPixel(v)) = Seen(v)
    BY PixelIsSeen DEF PictureInv
  <2> HIDE DEF k
  <2>3. memory'[k] = IF Covers(r, <<(k \div Bpp) % Width, k \div (Bpp * Width)>>)
                       THEN Seen(v)[(k % Bpp) + 1] ELSE memory[k]
    BY <2>1, <2>2 DEF Draw
  <2> QED BY <2>1, <2>3 DEF k
<1>3. ASSUME NEW p \in Pixel, Covers(r, p)
      PROVE  MemPixel(p)' = Seen(v)
  <2>1. MemPixel(p)' = [b \in 1 .. Bpp |-> Seen(v)[b]]
    BY <1>2, <1>3 DEF MemPixel, Addr
  <2>2. [b \in 1 .. 4 |-> Seen(v)[b]] = Seen(v)
    BY DEF Seen
  <2> QED BY <2>1, <2>2, PictureAssumption
<1>4. ASSUME NEW p \in Pixel, ~Covers(r, p)
      PROVE  MemPixel(p)' = MemPixel(p)
  BY <1>2, <1>4 DEF MemPixel, Addr
<1>5. \A w : Seen(w)' = Seen(w)
  BY <1>1 DEF Seen, SeenAlpha
<1>6. MemoryInv'
  <2>1. ASSUME NEW p \in Pixel
        PROVE  Drawn(p, MemPixel(p))'
    <3>1. CASE Covers(r, p)
      BY <1>1, <1>3, <1>5, <3>1 DEF Drawn
    <3>2. CASE ~Covers(r, p)
      BY <1>1, <1>4, <1>5, <3>2 DEF Drawn, PictureInv, MemoryInv
    <3> QED BY <3>1, <3>2
  <2> QED BY <2>1 DEF MemoryInv
<1>7. CanvasInv'
  BY <1>1, <1>4 DEF CanvasInv, PictureInv, Redrawn
<1>8. WireInv'
  <2>1. \A e, p : EventPixel(e, p)' = EventPixel(e, p)
    BY DEF EventPixel
  <2> QED BY <1>1, <1>4 DEF WireInv, PictureInv, Redrawn, EventPixel
<1>9. TurnInv'
  BY <1>1 DEF TurnInv
<1> QED BY <1>1, <1>6, <1>7, <1>8, <1>9 DEF PictureInv

\* What was redrawn is what end_paint copies next.
LEMMA StartKeepsPicture ==
  ASSUME PictureInv, EndPaintKeyframe \/ EndPaint
  PROVE  PictureInv'
<1>1. /\ painter = "idle" /\ wire = {} /\ wire' = {} /\ invalid' = {} 
      /\ UNCHANGED <<source, memory, drawn, canvas>>
      /\ painter' # "idle"
      /\ \A p \in Pixel : Redrawn(p) => Covers(args', p)
  <2>1. CASE EndPaintKeyframe
    <3>1. ASSUME NEW p \in Pixel PROVE Covers(Picture, p)
      BY PixelFields, CopyAssumption DEF Covers, Picture
    <3> QED BY <2>1, <3>1 DEF EndPaintKeyframe, CopyAll, TurnInv, PictureInv
  <2>2. CASE EndPaint
    BY <2>2 DEF EndPaint, StartCopy, TurnInv, PictureInv, Redrawn
  <2> QED BY <2>1, <2>2
<1>2. CanvasInv'
  BY <1>1, SamePixels DEF CanvasInv, PictureInv, Redrawn
<1> QED BY <1>1, <1>2, SamePixels DEF PictureInv, WireInv, TurnInv

LEMMA LoopKeepsPicture ==
  ASSUME PictureInv, EndPaintLoop
  PROVE  PictureInv'
<1>1. /\ painter # "idle" /\ painter' # "idle"
      /\ UNCHANGED <<args, source, memory, drawn, invalid, wire, canvas>>
  BY DEF EndPaintLoop, CopyRow, EndCopy
<1>2. wire = {} /\ invalid = {}
  BY <1>1 DEF PictureInv, TurnInv
<1> QED BY <1>1, <1>2, SamePixels DEF PictureInv, CanvasInv, WireInv, TurnInv, Redrawn

\* The event has the pixels of the region that was copied.
LEMMA EmitKeepsPicture ==
  ASSUME PictureInv, CopyInv, EmitDraw
  PROVE  PictureInv'
<1> DEFINE e == [args |-> args, buffer |-> [k \in DOMAIN buffer |-> memory[buffer[k]]]]
<1>1. /\ painter = "emit" /\ painter' = "idle" /\ wire' = {e}
      /\ UNCHANGED <<args, source, memory, drawn, invalid, canvas>>
  BY DEF EmitDraw, EmitCopy
<1>2. wire = {} /\ invalid = {}
  BY <1>1 DEF PictureInv, TurnInv
<1>3. ASSUME NEW p \in Pixel, Covers(args, p)
      PROVE  EventPixel(e, p) = MemPixel(p)
  <2>1. ASSUME NEW b \in 1 .. Bpp
        PROVE  e.buffer[((p[2] - args.y) * args.w + p[1] - args.x) * Bpp + b - 1]
                 = memory[Addr(p) + b - 1]
    BY <1>1, <1>3, BufferPixel DEF CopyInv
  <2> QED BY <2>1 DEF EventPixel, MemPixel
<1>4. \A f, p : EventPixel(f, p)' = EventPixel(f, p)
  BY DEF EventPixel
<1> HIDE DEF e
<1>5. e.args = args
  BY DEF e
<1>6. CanvasInv'
  BY <1>1, <1>2, <1>5, SamePixels DEF CanvasInv, PictureInv, Redrawn
<1>7. WireInv'
  BY <1>1, <1>3, <1>4, <1>5, SamePixels DEF WireInv
<1> QED BY <1>1, <1>2, <1>6, <1>7, SamePixels DEF PictureInv, TurnInv

\* What is not redrawn is on the canvas.
LEMMA DeliverKeepsPicture ==
  ASSUME PictureInv, NEW e \in wire, DeliverDraw(e)
  PROVE  PictureInv'
<1>1. /\ wire = {e} /\ wire' = {}
      /\ UNCHANGED <<painter, args, source, memory, drawn, invalid>>
      /\ canvas' = [p \in Pixel |-> IF Covers(e.args, p) THEN EventPixel(e, p)
                                                         ELSE canvas[p]]
  BY DEF DeliverDraw, copyVars, PictureInv, WireInv, EventPixel
<1>2. \A p \in Pixel : Covers(e.args, p) => EventPixel(e, p) = MemPixel(p) \/ Redrawn(p)
  BY DEF PictureInv, WireInv
<1>3. CanvasInv'
  BY <1>1, <1>2, SamePixels DEF CanvasInv, PictureInv, Redrawn
<1> QED BY <1>1, <1>3, SamePixels DEF PictureInv, WireInv, TurnInv

LEMMA NextPictureInv == PictureInv /\ CopyInv /\ [Next]_vars => PictureInv'
<1> SUFFICES ASSUME PictureInv, CopyInv, [Next]_vars PROVE PictureInv'
  OBVIOUS
<1>1. CASE \E r \in Region, v \in Colours : Draw(r, v)
  BY <1>1, DrawKeepsPicture
<1>2. CASE EndPaintKeyframe \/ EndPaint
  BY <1>2, StartKeepsPicture
<1>3. CASE EndPaintLoop
  BY <1>3, LoopKeepsPicture
<1>4. CASE EmitDraw
  BY <1>4, EmitKeepsPicture
<1>5. CASE \E e \in wire : DeliverDraw(e)
  BY <1>5, DeliverKeepsPicture
<1>6. CASE UNCHANGED vars
  <2>1. \A e, p : EventPixel(e, p)' = EventPixel(e, p)
    BY DEF EventPixel
  <2>2. UNCHANGED <<painter, args, source, memory, drawn, invalid, wire, canvas>>
    BY <1>6 DEF vars, copyVars
  <2> QED BY <2>1, <2>2, SamePixels DEF PictureInv, CanvasInv, WireInv, TurnInv, Redrawn
<1> QED BY <1>1, <1>2, <1>3, <1>4, <1>5, <1>6 DEF Next

LEMMA InvSeesPicture == PictureInv => AppSeesPicture
BY DEF PictureInv, CanvasInv, MemoryInv, Drawn, Redrawn, AppSeesPicture

-----------------------------------------------------------------------------
(* The theorems. *)

\* The region that end_paint copies is one of the picture.
InvalidIsRegion == invalid \subseteq Region

\* Picture's steps are steps of the copy or leave it alone, so what is proved of
\* CopySpec holds of the bytes that reach the application.
LEMMA PictureIsCopied == Spec => CopySpec
<1>1. PictureInit => CopyInit /\ InvalidIsRegion
  BY DEF PictureInit, InvalidIsRegion
<1>2. InvalidIsRegion /\ [Next]_vars => [CopyNext]_copyVars /\ InvalidIsRegion'
  <2> SUFFICES ASSUME InvalidIsRegion, [Next]_vars
               PROVE  [CopyNext]_copyVars /\ InvalidIsRegion'
    OBVIOUS
  <2>1. CASE \E r \in Region, v \in Colours : Draw(r, v)
    BY <2>1 DEF Draw, copyVars, InvalidIsRegion
  <2>2. CASE EndPaintKeyframe
    BY <2>2 DEF EndPaintKeyframe, CopyNext, InvalidIsRegion
  <2>3. CASE EndPaint
    BY <2>3 DEF EndPaint, CopyNext, InvalidIsRegion
  <2>4. CASE EndPaintLoop
    BY <2>4 DEF EndPaintLoop, CopyNext, InvalidIsRegion
  <2>5. CASE EmitDraw
    BY <2>5 DEF EmitDraw, CopyNext, InvalidIsRegion
  <2>6. CASE \E e \in wire : DeliverDraw(e)
    BY <2>6 DEF DeliverDraw, copyVars, InvalidIsRegion
  <2>7. CASE UNCHANGED vars
    BY <2>7 DEF vars, copyVars, InvalidIsRegion
  <2> QED BY <2>1, <2>2, <2>3, <2>4, <2>5, <2>6, <2>7 DEF Next
<1> QED BY <1>1, <1>2, PTL DEF Spec, CopySpec

\* The copy's variables keep their types, for a picture of any size.
THEOREM CopyTypeCorrect == Spec => []CopyTypeOK
BY PictureIsCopied, AlwaysCopyInv, PTL DEF CopyInv

\* However the region lies in a picture of any size that an int can count, no
\* memcpy of end_paint leaves the picture or the buffer and no offset overflows.
THEOREM CopyIsInside == Spec => []CopyStaysInside
BY PictureIsCopied, AlwaysCopyInv, InvStaysInside, PTL

\* What end_paint emits is the region's rows, every byte from its own address.
THEOREM CopyIsTheRegion == Spec => []BufferIsRegion
BY PictureIsCopied, AlwaysCopyInv, PTL DEF CopyInv

\* Whatever format the server sends, with an alpha, a palette or fewer bits per
\* channel, and in whatever regions it draws: when nothing is on its way, every
\* pixel of the application's canvas is the colour the server drew there.
THEOREM AppSeesServersPicture == Spec => []AppSeesPicture
<1>1. Spec => []CopyInv
  BY PictureIsCopied, AlwaysCopyInv, PTL
<1> QED BY <1>1, InitPictureInv, NextPictureInv, InvSeesPicture, PTL DEF Spec
=============================================================================
