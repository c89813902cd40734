------------------------------- MODULE Images -------------------------------
(* internal/imageutil and the parameter checks of internal/domain as         *)
(* operators.  The bytes of an image are the record of what the code asks of *)
(* them; the decoders and encoders are libraries.                            *)
EXTENDS Integers, Sizes

CONSTANTS MaxPixels,   \* domain.MaxPixels
          IntMax,      \* the largest int
          JPEGSide,    \* the longest sides the encoders take;
          WebPSide,    \*   that of PNG is out of reach
          CropSide,    \* imaging.Fill crops first from this side on: 100
          MaxResized,  \* how many pixels the memory of the worker holds
          Pictures     \* what images show

ASSUME MaxPixelsAssumption == MaxPixels \in Nat \ {0}

(* A build with 64-bit integers: 20,000,000 squared fits. *)
ASSUME IntMaxAssumption == IntMax \in Nat /\ MaxPixels * MaxPixels <= IntMax

MIMEJPEG == "image/jpeg"
MIMEPNG == "image/png"
MIMEWebP == "image/webp"
MIMETypes == {MIMEJPEG, MIMEPNG, MIMEWebP}

Formats == {"jpeg", "png", "webp"}

(* bytes:   the length.                                                      *)
(* magic:   the format of the first bytes, "" for another than the three.    *)
(* header:  DecodeConfig can read it, and finds width and height.            *)
(* pixels:  Decode can read it.                                              *)
(* picture: what it shows.                                                   *)
Data == [bytes : Nat, magic : Formats \cup {""}, header : BOOLEAN, pixels : BOOLEAN,
         width : Int, height : Int, picture : Pictures]

NoError == "ok"

(* The error of the first check that fails; a check is the condition of an   *)
(* early return and what it returns.                                         *)
FirstError(checks) ==
  LET failing == {i \in DOMAIN checks : checks[i][1]}
  IN IF failing = {} THEN NoError
     ELSE checks[CHOOSE i \in failing : \A j \in failing : i <= j][2]

-----------------------------------------------------------------------------

(* Two's complement: what an int holds of n. *)
Wrap(n) == ((n + IntMax + 1) % (2 * (IntMax + 1))) - (IntMax + 1)

(* Mutant of checkPixels: each side is bounded, their product is not. *)
checkPixels_Sides(w, h) ==
  FirstError(<< <<w <= 0 \/ h <= 0, "ErrInvalidImage">>,
                <<w > MaxPixels \/ h > MaxPixels, "ErrImageTooLarge">> >>)

checkPixels(w, h) ==
  FirstError(<< <<w <= 0 \/ h <= 0, "ErrInvalidImage">>,
                <<w > MaxPixels \/ h > MaxPixels \/ Wrap(w * h) > MaxPixels, "ErrImageTooLarge">> >>)

MIMEOf == [jpeg |-> MIMEJPEG, png |-> MIMEPNG, webp |-> MIMEWebP]

(* The magic bytes of the longest of the three take up twelve bytes. *)
DetectMIME(data) ==
  IF data.bytes >= 12 /\ data.magic \in Formats THEN MIMEOf[data.magic] ELSE ""

FormatFromMIME(mime) ==
  IF mime \in MIMETypes THEN CHOOSE format \in Formats : MIMEOf[format] = mime ELSE ""

(* Mutant of Inspect: the magic bytes are left to DecodeConfig, which knows  *)
(* other formats too.                                                        *)
Inspect_AnyFormat(data) ==
  FirstError(<< <<~data.header, "ErrInvalidImage">>,
                <<checkPixels(data.width, data.height) # NoError,
                  checkPixels(data.width, data.height)>> >>)

(* Inspect reads the header and nothing else; the MIME type, the width and   *)
(* the height it returns are those of data.                                  *)
Inspect(data) ==
  FirstError(<< <<DetectMIME(data) = "", "ErrInvalidFileFormat">>,
                <<~data.header, "ErrInvalidImage">>,
                <<checkPixels(data.width, data.height) # NoError,
                  checkPixels(data.width, data.height)>> >>)

Decode(data) ==
  FirstError(<< <<~data.header, "ErrInvalidImage">>,
                <<checkPixels(data.width, data.height) # NoError,
                  checkPixels(data.width, data.height)>>,
                <<~data.pixels, "ErrInvalidImage">> >>)

(* What the encoders of the standard library and of nativewebp refuse. *)
Encodable(w, h, format) ==
  CASE format = "jpeg" -> w <= JPEGSide /\ h <= JPEGSide
    [] format = "webp" -> w <= WebPSide /\ h <= WebPSide
    [] OTHER -> TRUE

(* A result of Convert and of MakeThumbnail. *)
Failed(err) == [err |-> err, mime |-> "", data |-> << >>]

(* Encode, of a picture that is w pixels wide and h high; no format is JPEG. *)
Encode(picture, w, h, asked) ==
  LET format == IF asked \in {"", "jpg"} THEN "jpeg" ELSE asked
  IN CASE format \notin Formats -> Failed("ErrInvalidFormatParam")
       [] format \in Formats /\ ~Encodable(w, h, format) -> Failed("encoder")
       [] OTHER -> [err  |-> NoError,
                    mime |-> MIMEOf[format],
                    data |-> [bytes |-> 12, magic |-> format, header |-> TRUE, pixels |-> TRUE,
                              width |-> w, height |-> h, picture |-> picture]]

Convert(data, format) ==
  IF Decode(data) # NoError THEN Failed(Decode(data))
  ELSE Encode(data.picture, data.width, data.height, format)

(* The pixels that imaging.Fill makes on the way to w times h: unless both   *)
(* sides are long enough to crop first, it enlarges the picture until the    *)
(* shorter one fits, and the longer one with it.                             *)
ResizedPixels(data, w, h) ==
  IF data.width >= CropSide /\ data.height >= CropSide THEN w * h
  ELSE IF data.width * h < data.height * w THEN w * ((w * data.height) \div data.width)
  ELSE h * ((h * data.width) \div data.height)

Resizable(data, w, h) == ResizedPixels(data, w, h) <= MaxResized

(* Resize returns no error: without the memory it is the end of the process. *)
MakeThumbnail(data, w, h, format) ==
  IF Decode(data) # NoError THEN Failed(Decode(data))
  ELSE IF ~Resizable(data, w, h) THEN Failed("killed")
  ELSE Encode(data.picture, w, h, format)

-----------------------------------------------------------------------------

(* The parameters of a GET, trimmed and in lower case; an error is "error". *)
NormalizeSize(size) ==
  IF size = "" THEN SizeOriginal ELSE IF size \in AllowedSizes THEN size ELSE "error"

NormalizeFormat(format) ==
  CASE format = "jpg" -> "jpeg"
    [] format \in Formats \cup {""} -> format
    [] OTHER -> "error"

(* writeError *)
StatusOf(err) ==
  CASE err = "ErrAvatarNotFound" -> 404
    [] err = "ErrForbidden" -> 403
    [] err \in {"ErrInvalidUserID", "ErrFileRequired", "ErrInvalidFileFormat", "ErrInvalidImage",
                "ErrImageTooLarge", "ErrInvalidSizeParam", "ErrInvalidFormatParam"} -> 400
    [] err = "ErrFileTooLarge" -> 413
    [] OTHER -> 500
=============================================================================
