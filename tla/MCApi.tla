-------------------------------- MODULE MCApi --------------------------------
EXTENDS Api, TLC

CONSTANTS Ann, Quoted   \* an id, and its text once escaped

(* What clients escape; to escape a text again makes it too long an id. *)
MCEscaped == (Ann :> Quoted) @@ [user \in {Quoted, BadUser, GarbledUser} |-> BadUser]

File(bytes, magic, width, height, picture) ==
  [bytes |-> bytes, magic |-> magic, header |-> TRUE, pixels |-> TRUE,
   width |-> width, height |-> height, picture |-> picture]

(* Two pictures of exactly MaxPixels, one of which has a side that WebP      *)
(* cannot encode; one too narrow for the larger thumbnail; one that is as    *)
(* long as a file may be; one with a header and no pixels.                   *)
Portrait == File(12, "jpeg", 100, 200, "portrait")
Panorama == File(15, "png", 4000, 5, "panorama")
Thread == File(15, "png", 2, 10000, "thread")
Largest == File(MaxBytes, "webp", 30, 40, "largest")
Damaged == [File(13, "jpeg", 50, 50, "damaged") EXCEPT !.pixels = FALSE]

Good == {Portrait, Panorama, Thread, Largest, Damaged}

Bad == {File(MaxBytes + 1, "webp", 30, 40, "too long"),
        File(MaxBytes + Slack + 1, "png", 30, 40, "far too long"),
        File(11, "png", 1, 1, "too short"),
        File(0, "", 0, 0, "empty"),
        File(14, "", 10, 10, "bitmap"),
        File(14, "png", 0, 10, "flat"),
        File(14, "png", 100, 201, "too large"),
        File(14, "png", 20000, 20000, "far too large"),
        File(14, "png", 1, 20001, "too wide"),
        [File(14, "png", 10, 10, "no header") EXCEPT !.header = FALSE]}

MCPictures == {file.picture : file \in Good \cup Bad}

(* A file of the permitted length comes with as much as may come with it. *)
FormOf(user, name, file) ==
  [user |-> user, name |-> name, attached |-> TRUE, file |-> file,
   rest |-> IF file.bytes <= MaxBytes THEN Slack ELSE 0]

MCForms ==
  LET Variant(name, attached, rest) ==
        [FormOf(Ann, name, Portrait) EXCEPT !.attached = attached, !.rest = rest]
  IN {FormOf(Ann, "plain", file) : file \in Good \cup Bad}
     \cup {FormOf(user, "plain", Portrait) : user \in {Quoted, BadUser, GarbledUser}}
     \cup {Variant(name, TRUE, 0) : name \in {"blank", "long", "wide", "malformed"}}
     \cup {Variant("plain", FALSE, 0), Variant("plain", TRUE, MaxBytes + Slack)}
=============================================================================
