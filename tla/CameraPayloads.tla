--------------------------- MODULE CameraPayloads ----------------------------
(***************************************************************************)
(* What the camera receivers make of the bytes of a picture: the size in   *)
(* front of a JPEG or, where it is none, the search for its end between    *)
(* the rows of the boxes; the width and the format of a raw segmentation   *)
(* picture, which are not sent; the checks of a depth header; the places   *)
(* of the labels on the canvas of the boxes.  One sample is made and read. *)
(* cv2.imdecode is taken to accept what begins like a JPEG.                *)
(***************************************************************************)
EXTENDS Integers, Sequences, FiniteSets, SequencesExt, FiniteSetsExt

CONSTANTS RowSize,   \* bytes of a row of the boxes
          Sizes2D,   \* <<width, height>> of raw pictures
          Lost       \* None, what a parser returns of what it rejects
ASSUME RowAssumption == RowSize \in Nat \ {0} /\ Sizes2D \subseteq (Nat \ {0}) \X (Nat \ {0})

VARIABLES sample, outcome
cameraVars == <<sample, outcome>>

FF == 255
JpegBegin == <<FF, 216, FF>>      \* FF D8 FF
JpegEnd == <<FF, 217>>            \* FF D9
BytesAt(p, first, size) == SubSeq(p, first + 1, first + size)
StartsWith(p, s) == Len(p) >= Len(s) /\ SubSeq(p, 1, Len(s)) = s
Places(p, s, from) == {i \in from..(Len(p) - Len(s)) : BytesAt(p, i, Len(s)) = s}   \* find, rfind

-----------------------------------------------------------------------------
(* CameraReceiver and CameraSensorReceiver.  A payload is the size that is *)
(* in front, as the number it is read as, and the bytes behind it.         *)

\* CameraReceiver: no size, no picture.
ReadRgb(size, bytes) == IF size <= 0 \/ Len(bytes) < size THEN Lost ELSE BytesAt(bytes, 0, size)

Aligned(p, end) == (Len(p) - end) % RowSize = 0
\* _find_jpeg_end: the first marker with whole rows behind it, or the last.
FindJpegEnd(p, start) ==
  LET ends    == {i + 2 : i \in Places(p, JpegEnd, start + 2)}
      aligned == {e \in ends : Aligned(p, e)}
  IN IF aligned # {} THEN Min(aligned)
     ELSE IF \E i \in Places(p, JpegEnd, 0) : i >= start THEN Max(Places(p, JpegEnd, 0)) + 2 ELSE -1

Rows(rest) == [n \in 1..(Len(rest) \div RowSize) |-> BytesAt(rest, (n - 1) * RowSize, RowSize)]
Picture(p, start, end) ==
  LET image == BytesAt(p, start, end - start)
  IN IF StartsWith(image, JpegBegin)
     THEN [image |-> image, rows |-> Rows(SubSeq(p, end + 1, Len(p)))] ELSE Lost

\* _parse_payload: the size, or a search for the picture.
ReadBoxed(size, bytes) ==
  IF size > 0 /\ Len(bytes) >= size THEN Picture(bytes, 0, size)
  ELSE LET starts == Places(bytes, JpegBegin, 0) IN
       IF starts = {} THEN Lost
       ELSE LET start == Min(starts)
                end   == FindJpegEnd(bytes, start)
            IN IF end <= start THEN Lost ELSE Picture(bytes, start, end)

-----------------------------------------------------------------------------
(* CameraSemanticReceiver.                                                 *)

Formats == {"LABEL8", "RGB8", "BGRA8"}
BytesPerPixel == [LABEL8 |-> 1, RGB8 |-> 3, BGRA8 |-> 4]
FormatOf(bpp) == CHOOSE f \in Formats : BytesPerPixel[f] = bpp

\* |width / height - 4/3| or |width / height - 16/9|, whichever is less, in
\* ninths of 1 / height; the ties are those of the quotients.
Distance(a) == IF a < 0 THEN -a ELSE a
Score(width, height) == Min({Distance(9 * width - 12 * height), Distance(9 * width - 16 * height)})
\* _infer_bytes_per_pixel: the best score, of a tie the most bytes.
InferBytes(step, height) ==
  LET fits == {b \in {1, 3, 4} : step % b = 0 /\ step \div b > 0}
      score(b) == Score(step \div b, height)
      best == {b \in fits : \A c \in fits : score(b) <= score(c)}
  IN IF fits = {} THEN 1 ELSE Max(best)

\* _extract_image_bytes and _decode_semantic_image: a payload is the size in
\* front, the number after it, and the bytes behind the two; whether they are
\* an encoded picture, and whether they are from the second number on.
Raw(size, step) ==
  IF step <= 0 \/ size % step # 0 THEN Lost
  ELSE LET height == size \div step
           bpp    == InferBytes(step, height)
       IN [width |-> step \div bpp, height |-> height, format |-> FormatOf(bpp)]
Encoding == [format |-> "encoded"]
ReadSegmented(s) ==
  LET withStep == s.size > 0 /\ s.second > 0 /\ s.length >= 8 + s.size
      sizeOnly == s.size > 0 /\ s.length >= 4 + s.size
  IN CASE withStep /\ s.encoded = 8 -> Encoding
       [] withStep /\ s.encoded # 8 /\ s.size % s.second = 0 -> Raw(s.size, s.second)
       [] sizeOnly /\ s.encoded = 4 -> Encoding
       [] OTHER -> Lost

-----------------------------------------------------------------------------
(* CameraDepthReceiver._parse_payload: the pixels it finds.                *)

ReadDepth(s) ==
  IF \/ s.width <= 0 \/ s.height <= 0 \/ s.encoding # "32FC1" \/ s.bigEndian
     \/ s.step # 4 * s.width \/ s.size # 4 * s.width * s.height \/ s.behind < s.size
  THEN Lost ELSE [width |-> s.width, height |-> s.height, bytes |-> s.size]

-----------------------------------------------------------------------------
(* _put_label: a label goes above its box, further down past the ones that *)
(* are placed, and back into the canvas.                                   *)

Overlap(a, b) == a.x < b.x + b.w /\ b.x < a.x + a.w /\ a.top < b.top + b.h /\ b.top < a.top + a.h
Clear(l, placed) == \A n \in DOMAIN placed : ~Overlap(l, placed[n])
PutLabel(placed, l, canvas) ==
  LET x   == Max({0, Min({l.x, Max({0, canvas.w - l.w})})})
      at(top) == [x |-> x, top |-> top, w |-> l.w, h |-> l.h]
      first == IF l.y - l.h >= 0 THEN l.y - l.h ELSE l.y
      tops == {first + n * l.h : n \in 0..(Len(placed) * canvas.h)}
      top == Min({t \in tops : Clear(at(t), placed)})
  IN Append(placed, at(Min({top, Max({0, canvas.h - l.h})})))
Labels(boxes, canvas) == FoldLeft(LAMBDA placed, l : PutLabel(placed, l, canvas), << >>, boxes)

-----------------------------------------------------------------------------
(* The samples.                                                            *)

\* A JPEG may hold another one (a thumbnail), rows may hold any bytes.
Jpegs == {JpegBegin \o body \o JpegEnd : body \in {<< >>, <<1>>, <<1, FF>>, <<1>> \o JpegEnd, JpegEnd \o <<2>>, JpegEnd \o <<2, 3>>}}
RowLists == {<< >>} \cup {<<a>> : a \in {<<1, 2, 3>>, <<FF, 217, 5>>, <<4, FF, 217>>}}
            \cup {<<a, b>> : a \in {<<1, 2, 3>>, <<4, FF, 217>>}, b \in {<<217, 1, 2>>, <<FF, 217, 5>>}}
Heads == {<< >>, <<9>>, <<9, 9, 9>>}      \* what the simulator puts before the picture
Boxed ==
  {[kind |-> "boxed", size |-> size, head |-> head, jpeg |-> jpeg, rows |-> rows, tail |-> tail] :
     size \in {-1, 0, 2, 1000}, head \in Heads, jpeg \in Jpegs, rows \in RowLists, tail \in {<< >>, <<8>>}}
Sized ==
  {[kind |-> kind, size |-> Len(jpeg), head |-> << >>, jpeg |-> jpeg, rows |-> rows, tail |-> << >>] :
     kind \in {"boxed", "rgb"}, jpeg \in Jpegs, rows \in RowLists}
RawPictures ==
  {[kind |-> "raw", width |-> s[1], height |-> s[2], format |-> f, size |-> s[1] * s[2] * BytesPerPixel[f],
    second |-> s[1] * BytesPerPixel[f], length |-> 8 + s[1] * s[2] * BytesPerPixel[f] - short, encoded |-> 0,
    short |-> short] : s \in Sizes2D, f \in Formats, short \in {0, 1}}
\* The number after the size is the width of a line in bytes or, without it,
\* the first four bytes of the picture: below zero (JPEG) or large (PNG, BMP).
Encoded ==
  {[kind |-> "encoded", size |-> 20, second |-> at[2], length |-> at[1] + 20 + more, encoded |-> at[1]] :
     at \in {<<8, 3>>, <<8, 5>>, <<4, -1>>, <<4, 9999>>}, more \in {0, 1, 4, 9}}
Depths ==
  {[kind |-> "depth", width |-> w, height |-> h, encoding |-> e, bigEndian |-> b, step |-> st, size |-> sz,
    behind |-> n] : w \in {-1, 0, 2}, h \in {0, 2, 3}, e \in {"32FC1", "16UC1"}, b \in BOOLEAN,
     st \in {4, 8}, sz \in {16, 24}, n \in {15, 16, 24, 30}}
LabelLists ==
  {[kind |-> "labels", canvas |-> [w |-> 8, h |-> 12], boxes |-> b] :
     b \in UNION {[1..n -> [x : {-1, 0, 3, 7}, y : {-1, 2, 3, 11}, w : {3}, h : {2, 3}]] : n \in 1..2}
           \cup {<<l, l, m>> : l, m \in [x : {0, 2}, y : {3, 5}, w : {3}, h : {2, 3}]}}

PayloadOf(s) == s.head \o s.jpeg \o FlattenSeq(s.rows) \o s.tail
Outcome(s) ==
  CASE s.kind = "rgb" -> ReadRgb(s.size, PayloadOf(s))
    [] s.kind = "boxed" -> ReadBoxed(s.size, PayloadOf(s))
    [] s.kind \in {"raw", "encoded"} -> ReadSegmented(s)
    [] s.kind = "depth" -> ReadDepth(s)
    [] s.kind = "labels" -> Labels(s.boxes, s.canvas)

Samples == Boxed \cup Sized \cup RawPictures \cup Encoded \cup Depths \cup LabelLists
CameraInit == sample = [kind |-> "none"] /\ outcome = Lost
ReadSample(s) == sample.kind = "none" /\ sample' = s /\ outcome' = Outcome(s)
CameraNext == \E s \in Samples : ReadSample(s)
CameraSpec == CameraInit /\ [][CameraNext]_cameraVars

-----------------------------------------------------------------------------
(* Properties.                                                             *)

WholeBoxed(s) == [image |-> s.jpeg, rows |-> s.rows]
\* Is there a marker inside the picture with whole rows behind it?
Deceptive(s) ==
  LET start == Len(s.head) IN
  \E i \in Places(PayloadOf(s), JpegEnd, start + 2) :
    i + 2 < start + Len(s.jpeg) /\ Aligned(PayloadOf(s), i + 2)

\* With its size in front a picture is read as it is, with all its rows; and
\* without it as well, unless it holds a marker that happens to have whole
\* rows behind it, or the rows are cut.
PicturesFound ==
  /\ sample.kind = "rgb" => outcome = sample.jpeg
  /\ sample.kind = "boxed" /\ sample.size = Len(sample.jpeg) /\ sample.head = << >> => outcome = WholeBoxed(sample)
  /\ sample.kind = "boxed" /\ sample.size # 2 /\ sample.tail = << >> /\ ~Deceptive(sample) =>
       outcome = WholeBoxed(sample)

\* A raw picture of 4:3 or 16:9 is read in its size and its format, and a cut
\* one rejected; but RGB8 of 16:9 is read as BGRA8 of three quarters of the
\* width, which is 4:3, whenever its lines can be divided by four.
Misread(s) == s.format = "RGB8" /\ 9 * s.width = 16 * s.height /\ (3 * s.width) % 4 = 0
SegmentsRead ==
  /\ sample.kind = "raw" =>
       outcome = (IF sample.short = 1 THEN Lost
                  ELSE IF Misread(sample)
                  THEN [width |-> (3 * sample.width) \div 4, height |-> sample.height, format |-> "BGRA8"]
                  ELSE [width |-> sample.width, height |-> sample.height, format |-> sample.format])
  /\ sample.kind = "encoded" => outcome = Encoding

\* A depth picture that is accepted has four bytes for each of its pixels.
DepthsRead ==
  sample.kind = "depth" /\ outcome # Lost =>
    /\ outcome.bytes = 4 * outcome.width * outcome.height /\ outcome.bytes <= sample.behind
    /\ outcome.bytes > 0

\* No label covers another one, unless it had to be moved up into the canvas.  None
\* passes the left, the right or the lower edge of a canvas it fits into; the upper
\* edge cuts only the label of a box that begins less than two pixels below it (the
\* place y asked for is above the canvas then), or above it.
LabelsApart ==
  sample.kind = "labels" =>
    \A n \in DOMAIN outcome : LET label == outcome[n] IN
      /\ label.top + label.h < sample.canvas.h => Clear(label, SubSeq(outcome, 1, n - 1))
      /\ label.x >= 0 /\ label.x + label.w <= sample.canvas.w /\ label.top + label.h <= sample.canvas.h
      /\ label.top >= 0 \/ sample.boxes[n].y < 0

CamerasRead == PicturesFound /\ SegmentsRead /\ DepthsRead /\ LabelsApart
=============================================================================
