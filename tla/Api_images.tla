------------------------------ MODULE Api_images ------------------------------
(* The images that a GET is answered with, for any users, limits and forms:   *)
(* a picture of the avatar meant in the format asked for, whenever there is   *)
(* one to serve, and a 304 only for a copy that is still right.               *)
EXTENDS Api_proofs, WellFoundedInduction

(* What the worker makes of a file. *)
ThumbnailOf(file, size) ==
  [bytes |-> 12, magic |-> file.magic, header |-> TRUE, pixels |-> TRUE,
   width |-> ThumbnailSide(size), height |-> ThumbnailSide(size), picture |-> file.picture]

(* The objects of an avatar are labelled with what they are, and those that  *)
(* its row lists are there.                                                  *)
Holds(row, objects, file) ==
  /\ objects[SizeOriginal].type = MIMEOf[file.magic]
  /\ \A size \in row.thumbs :
       file.pixels /\ objects[size] = [type |-> MIMEOf[file.magic], data |-> ThumbnailOf(file, size)]

ObjectsInv == \A id \in DOMAIN avatars : Holds(avatars[id], bucket[id], sent[id])

(* A client's copy is what its ETag was computed of. *)
CopyInv == cached.etag = << >> \/ cached.etag[4] = cached.data

ImagesInv ==
  /\ ApiInv /\ ObjectsInv /\ CopyInv
  /\ RightImage /\ ServedIfPossible /\ NotModifiedTrue

-----------------------------------------------------------------------------
(* The operators.                                                            *)

(* FormatFromMIME is the inverse of the table. *)
LEMMA FormatInverse ==
  ASSUME NEW format \in Formats
  PROVE  FormatFromMIME(MIMEOf[format]) = format
<1>1. MIMEOf[format] \in MIMETypes
  BY MIMETable
<1>2. \A other \in Formats : MIMEOf[other] = MIMEOf[format] => other = format
  BY MIMETable DEF Formats, MIMEJPEG, MIMEPNG, MIMEWebP
<1> QED BY <1>1, <1>2 DEF FormatFromMIME

(* Encoding a picture in one of the formats. *)
LEMMA EncodeIs ==
  ASSUME NEW format \in Formats, NEW picture, NEW w, NEW h
  PROVE  Encode(picture, w, h, format)
           = IF Encodable(w, h, format)
             THEN [err  |-> NoError, mime |-> MIMEOf[format],
                   data |-> [bytes |-> 12, magic |-> format, header |-> TRUE, pixels |-> TRUE,
                             width |-> w, height |-> h, picture |-> picture]]
             ELSE Failed("encoder")
<1>1. format \notin {"", "jpg"}
  BY DEF Formats
<1> QED BY <1>1 DEF Encode

(* The sides of the thumbnails suit every encoder and every decoder. *)
LEMMA SidesFit ==
  ASSUME NEW size
  PROVE  LET side == ThumbnailSide(size)
         IN /\ side \in Nat /\ side > 0 /\ side * side <= MaxPixels
            /\ \A format : Encodable(side, side, format)
BY SidesAssumption DEF ThumbnailSide, Encodable

(* A thumbnail is itself a file that can be decoded. *)
LEMMA ThumbnailGood ==
  ASSUME NEW file \in Data, GoodFile(file), NEW size
  PROVE  ThumbnailOf(file, size) \in Data /\ GoodFile(ThumbnailOf(file, size))
<1> DEFINE side == ThumbnailSide(size)
<1>1. side \in Nat /\ side > 0 /\ side * side <= MaxPixels
  BY SidesFit
<1>2. file.magic \in Formats /\ file.picture \in Pictures
  BY DEF GoodFile, Data
<1>3. ThumbnailOf(file, size) =
        [bytes |-> 12, magic |-> file.magic, header |-> TRUE, pixels |-> TRUE,
         width |-> side, height |-> side, picture |-> file.picture]
  BY DEF ThumbnailOf
<1> HIDE DEF side
<1>4. ASSUME NEW magic \in Formats \cup {""}, NEW s \in Int, NEW picture \in Pictures
      PROVE  [bytes |-> 12, magic |-> magic, header |-> TRUE, pixels |-> TRUE,
              width |-> s, height |-> s, picture |-> picture] \in Data
  BY DEF Data
<1>5. ThumbnailOf(file, size) \in Data
  <2>1. file.magic \in Formats \cup {""}
    BY <1>2, Zenon
  <2>2. side \in Int
    BY <1>1
  <2> QED BY <1>2, <1>3, <1>4, <2>1, <2>2
<1> QED BY <1>1, <1>2, <1>3, <1>5 DEF GoodFile

(* It is made of a file whose pixels can be read, if there is the memory. *)
LEMMA ThumbnailIs ==
  ASSUME NEW data \in Data, GoodFile(data), data.pixels, NEW size,
         Resizable(data, ThumbnailSide(size), ThumbnailSide(size))
  PROVE  Thumbnail(data, size)
           = [err |-> NoError, mime |-> MIMEOf[data.magic], data |-> ThumbnailOf(data, size)]
<1> DEFINE side == ThumbnailSide(size)
<1>1. data.magic \in Formats /\ DetectMIME(data) = MIMEOf[data.magic]
  BY DEF GoodFile, DetectMIME
<1>2. FormatFromMIME(DetectMIME(data)) = data.magic
  BY <1>1, FormatInverse
<1>3. Decode(data) = NoError
  BY DecodeExact
<1>4. Encodable(side, side, data.magic)
  BY SidesFit
<1> QED BY <1>1, <1>2, <1>3, <1>4, EncodeIs DEF Thumbnail, MakeThumbnail, ThumbnailOf

(* A conversion of a file to one of the formats. *)
LEMMA ConvertIs ==
  ASSUME NEW data \in Data, GoodFile(data), NEW format \in Formats
  PROVE  Convert(data, format)
           = IF ~data.pixels THEN Failed("ErrInvalidImage")
             ELSE IF ~Encodable(data.width, data.height, format) THEN Failed("encoder")
             ELSE [err  |-> NoError, mime |-> MIMEOf[format],
                   data |-> [bytes |-> 12, magic |-> format, header |-> TRUE, pixels |-> TRUE,
                             width |-> data.width, height |-> data.height,
                             picture |-> data.picture]]
<1>1. CASE data.pixels
  <2>1. Decode(data) = NoError
    BY <1>1, DecodeExact
  <2> QED BY <1>1, <2>1, EncodeIs DEF Convert
<1>2. CASE ~data.pixels
  <2>1. Decode(data) = "ErrInvalidImage"
    BY <1>2, DecodeExact
  <2> QED BY <1>2, <2>1 DEF Convert, NoError
<1> QED BY <1>1, <1>2

(* A nonempty set of numbers up to n has a largest one. *)
LEMMA LargestExists ==
  ASSUME NEW n \in Nat, NEW S \in SUBSET (1..n), S # {}
  PROVE  \E x \in S : \A y \in S : y <= x
<1> DEFINE T == {n - x : x \in S}
<1>1. T \subseteq Nat /\ T # {}
  OBVIOUS
<1> HIDE DEF T
<1>2. PICK t \in T : \A u \in T : ~(<<u, t>> \in OpToRel(<, Nat))
  BY <1>1, NatLessThanWellFounded, WFMin
<1>3. \A u \in T : t <= u
  <2> TAKE u \in T
  <2>1. u \in Nat /\ t \in Nat /\ <<u, t>> \in Nat \X Nat
    BY <1>1
  <2>2. u < t => <<u, t>> \in OpToRel(<, Nat)
    BY <2>1 DEF OpToRel
  <2>3. ~(u < t)
    BY <1>2, <2>2, Zenon
  <2> QED BY <2>1, <2>3
<1>4. PICK x \in S : t = n - x
  BY DEF T
<1>5. \A y \in S : n - y \in T
  BY DEF T
<1>6. \A y \in S : y <= x
  BY <1>3, <1>4, <1>5
<1> QED BY <1>6

-----------------------------------------------------------------------------
(* FetchImage of an avatar whose objects are as they should be.              *)

(* What is kept of a file under the name that FetchImage looks up. *)
Kept(id, size) == IF size \in avatars[id].thumbs THEN ThumbnailOf(sent[id], size) ELSE sent[id]

(* The object that is looked up. *)
LEMMA ObjectIs ==
  ASSUME StoreInv, ObjectsInv, NEW id \in DOMAIN avatars, NEW size
  PROVE  LET key == IF size \in avatars[id].thumbs THEN size ELSE SizeOriginal
         IN /\ bucket[id][key].data = Kept(id, size)
            /\ bucket[id][key].type = MIMEOf[sent[id].magic]
            /\ Kept(id, size) \in Data /\ GoodFile(Kept(id, size))
            /\ Kept(id, size).magic = sent[id].magic
            /\ Kept(id, size).picture = sent[id].picture
            /\ Kept(id, size) = sent[id] \/ size \in avatars[id].thumbs
<1>1. /\ id \in 1..Len(avatars) /\ sent[id] \in Data /\ GoodFile(sent[id])
      /\ bucket[id][SizeOriginal].data = sent[id]
  BY DEF StoreInv
<1>2. Holds(avatars[id], bucket[id], sent[id])
  BY DEF ObjectsInv
<1>3. CASE size \in avatars[id].thumbs
  <2>1. bucket[id][size] = [type |-> MIMEOf[sent[id].magic], data |-> ThumbnailOf(sent[id], size)]
    BY <1>2, <1>3 DEF Holds
  <2>2. ThumbnailOf(sent[id], size) \in Data /\ GoodFile(ThumbnailOf(sent[id], size))
    BY <1>1, ThumbnailGood
  <2>3. /\ ThumbnailOf(sent[id], size).magic = sent[id].magic
        /\ ThumbnailOf(sent[id], size).picture = sent[id].picture
    BY DEF ThumbnailOf
  <2> QED BY <1>3, <2>1, <2>2, <2>3 DEF Kept
<1>4. CASE size \notin avatars[id].thumbs
  BY <1>1, <1>2, <1>4 DEF Kept, Holds
<1> QED BY <1>3, <1>4

(* Served as it is kept, or as a conversion of it, or refused for one of the *)
(* four reasons there are.                                                   *)
Fetched(id, size, format, image) ==
  LET kept == Kept(id, size)
  IN \/ size = "error" /\ image.err = "ErrInvalidSizeParam"
     \/ format = "error" /\ image.err = "ErrInvalidFormatParam"
     \/ /\ size # "error" /\ format \in {"", kept.magic}
        /\ image = [err |-> NoError, data |-> kept, type |-> MIMEOf[kept.magic],
                    etag |-> <<id, size, format, kept>>]
     \/ /\ size # "error" /\ format \in Formats \ {kept.magic}
        /\ \/ ~kept.pixels /\ image.err = "ErrInvalidImage"
           \/ ~Encodable(kept.width, kept.height, format) /\ image.err = "encoder"
           \/ \E data : /\ data.magic = format /\ data.picture = kept.picture
                         /\ image = [err |-> NoError, data |-> data, type |-> MIMEOf[format],
                                     etag |-> <<id, size, format, data>>]

LEMMA FetchIs ==
  ASSUME StoreInv, ObjectsInv, NEW id \in DOMAIN avatars, NEW sizeParam, NEW formatParam
  PROVE  Fetched(id, NormalizeSize(sizeParam), NormalizeFormat(formatParam),
                 FetchImage(id, sizeParam, formatParam))
<1> DEFINE size == NormalizeSize(sizeParam)
           format == NormalizeFormat(formatParam)
           key == IF size \in avatars[id].thumbs THEN size ELSE SizeOriginal
           object == bucket[id][key]
           current == IF FormatFromMIME(object.type) # "" THEN FormatFromMIME(object.type)
                      ELSE FormatFromMIME(avatars[id].mime)
           converted == Convert(object.data, format)
           Payload(data, type) ==
             [err |-> NoError, data |-> data, type |-> type, etag |-> ETag(id, size, format, data)]
           Error(err) == [err |-> err, data |-> << >>, type |-> "", etag |-> << >>]
           kept == Kept(id, size)
           image == FetchImage(id, sizeParam, formatParam)
<1>1. image = IF size = "error" THEN Error("ErrInvalidSizeParam")
              ELSE IF format = "error" THEN Error("ErrInvalidFormatParam")
              ELSE IF ~NeedsConversion(format, current)
                   THEN Payload(object.data, IF object.type = "" THEN avatars[id].mime ELSE object.type)
              ELSE IF converted.err # NoError THEN Error(converted.err)
              ELSE Payload(converted.data, ConvertedType(object, converted))
  BY DEF FetchImage
<1>2. /\ object.data = kept /\ object.type = MIMEOf[kept.magic]
      /\ kept \in Data /\ GoodFile(kept)
  BY ObjectIs
<1>3. format \in Formats \cup {"", "error"}
  BY DEF NormalizeFormat, Formats
<1> HIDE DEF size, format, object, kept, image
<1>4. kept.magic \in Formats /\ object.type # ""
  BY <1>2, MIMETable DEF GoodFile
<1>5. current = kept.magic
  <2>1. FormatFromMIME(object.type) = kept.magic
    BY <1>2, <1>4, FormatInverse
  <2> QED BY <1>4, <2>1 DEF Formats
<1> HIDE DEF current
<1>6. ASSUME size = "error"
      PROVE  Fetched(id, size, format, image)
  <2>1. image.err = "ErrInvalidSizeParam"
    BY <1>1, <1>6
  <2> QED BY <1>6, <2>1 DEF Fetched, kept
<1>7. ASSUME size # "error" /\ format = "error"
      PROVE  Fetched(id, size, format, image)
  <2>1. image.err = "ErrInvalidFormatParam"
    BY <1>1, <1>7
  <2> QED BY <1>7, <2>1 DEF Fetched, kept
<1>8. ASSUME size # "error" /\ format \in {"", kept.magic}
      PROVE  Fetched(id, size, format, image)
  <2>1. format # "error" /\ ~NeedsConversion(format, current)
    BY <1>4, <1>5, <1>8 DEF NeedsConversion, Formats
  <2>2. image = Payload(object.data, object.type)
    BY <1>1, <1>4, <1>8, <2>1
  <2> QED BY <1>2, <1>8, <2>2 DEF ETag, Fetched, kept
<1>9. ASSUME size # "error" /\ format \in Formats \ {kept.magic}
      PROVE  Fetched(id, size, format, image)
  <2>1. format # "error" /\ NeedsConversion(format, current)
    BY <1>5, <1>9 DEF NeedsConversion, Formats
  <2>2. image = IF converted.err # NoError THEN Error(converted.err)
                ELSE Payload(converted.data, converted.mime)
    BY <1>1, <1>9, <2>1 DEF ConvertedType
  <2> DEFINE data == [bytes |-> 12, magic |-> format, header |-> TRUE, pixels |-> TRUE,
                      width |-> kept.width, height |-> kept.height, picture |-> kept.picture]
  <2>3. converted = IF ~kept.pixels THEN Failed("ErrInvalidImage")
                    ELSE IF ~Encodable(kept.width, kept.height, format) THEN Failed("encoder")
                    ELSE [err |-> NoError, mime |-> MIMEOf[format], data |-> data]
    BY <1>2, <1>9, ConvertIs
  <2>4. data.magic = format /\ data.picture = kept.picture
    OBVIOUS
  <2> HIDE DEF converted, data
  <2>5. CASE ~kept.pixels
    <3>1. image.err = "ErrInvalidImage"
      BY <2>2, <2>3, <2>5 DEF Failed, NoError
    <3> QED BY <1>9, <2>5, <3>1 DEF Fetched, kept
  <2>6. CASE kept.pixels /\ ~Encodable(kept.width, kept.height, format)
    <3>1. image.err = "encoder"
      BY <2>2, <2>3, <2>6 DEF Failed, NoError
    <3> QED BY <1>9, <2>6, <3>1 DEF Fetched, kept
  <2>7. CASE kept.pixels /\ Encodable(kept.width, kept.height, format)
    <3>1. converted = [err |-> NoError, mime |-> MIMEOf[format], data |-> data]
      BY <2>3, <2>7
    <3>2. image = [err |-> NoError, data |-> data, type |-> MIMEOf[format],
                   etag |-> <<id, size, format, data>>]
      BY <2>2, <3>1 DEF ETag
    <3> QED BY <1>9, <2>4, <3>2 DEF Fetched, kept
  <2> QED BY <2>5, <2>6, <2>7
<1>10. Fetched(id, size, format, image)
  BY <1>3, <1>6, <1>7, <1>8, <1>9
<1> QED BY <1>10 DEF size, format, image

-----------------------------------------------------------------------------
(* The avatar that a URL means.                                              *)

(* GetLatestByUserID finds the newest live avatar of a user. *)
LEMMA LatestIs ==
  ASSUME StoreInv, NEW user
  PROVE  LET own == {id \in DOMAIN avatars : Live(id) /\ avatars[id].user = user}
         IN own # {} => Latest(user) \in own /\ \A other \in own : other <= Latest(user)
<1> DEFINE own == {id \in DOMAIN avatars : Live(id) /\ avatars[id].user = user}
<1>1. own \in SUBSET (1..Len(avatars)) /\ Len(avatars) \in Nat
  BY DEF StoreInv
<1>2. Latest(user) = IF own = {} THEN 0 ELSE CHOOSE id \in own : \A other \in own : other <= id
  BY DEF Latest
<1> HIDE DEF own
<1>3. own # {} => Latest(user) \in own /\ \A other \in own : other <= Latest(user)
  BY <1>1, <1>2, LargestExists
<1> QED BY <1>3 DEF own

(* A URL is found if and only if it means an avatar, and leads to that one. *)
LEMMA TargetMeant ==
  ASSUME StoreInv, NEW url \in URLs
  PROVE  /\ LookupError(url) = NoError => Target(url) \in Meant(url)
         /\ LookupError(url) # NoError => Meant(url) = {}
<1> DEFINE bad == url.by = "user" /\ URLParam(url) = BadUser
           garbled == url.by = "user" /\ URLParam(url) = GarbledUser
           gone == ~Live(Target(url))
<1>1. LookupError(url) = FirstError(<< <<bad, "ErrInvalidUserID">>, <<garbled, "encoding">>,
                                       <<gone, "ErrAvatarNotFound">> >>)
  BY DEF LookupError
<1>2. LookupError(url) = NoError <=> ~bad /\ ~garbled /\ ~gone
  <2> HIDE DEF bad, garbled, gone
  <2>1. LookupError(url) = IF bad THEN "ErrInvalidUserID" ELSE IF garbled THEN "encoding"
                           ELSE IF gone THEN "ErrAvatarNotFound" ELSE NoError
    BY <1>1, ThreeChecks
  <2> QED BY <2>1 DEF NoError
<1>3. DOMAIN avatars = 1..Len(avatars) /\ Len(avatars) \in Nat
      /\ \A id \in DOMAIN avatars : avatars[id].user \in Users /\ avatars[id].deleted \in BOOLEAN
  <2>1. \A id \in DOMAIN avatars : avatars[id] \in Row
    BY DEF StoreInv
  <2> QED BY <2>1 DEF StoreInv, Row
<1>4. CASE url.by = "id"
  <2>1. Target(url) = url.id /\ ~bad /\ ~garbled
    BY <1>4 DEF Target
  <2>2. Meant(url) = {id \in DOMAIN avatars : Live(id) /\ id = url.id}
    BY <1>4 DEF Meant
  <2> QED BY <1>2, <2>1, <2>2 DEF Live
<1>5. CASE url.by = "user"
  <2> DEFINE own == {id \in DOMAIN avatars : Live(id) /\ avatars[id].user = URLParam(url)}
             latest == Latest(URLParam(url))
  <2>1. Target(url) = latest
    BY <1>5 DEF Target
  <2>2. own # {} => latest \in own /\ \A other \in own : other <= latest
    BY LatestIs
  <2>3. own = {} => latest = 0
    BY DEF Latest
  <2>4. Meant(url) = {id \in own : \A newer \in DOMAIN avatars :
                        newer > id => avatars[newer].deleted \/ avatars[newer].user # URLParam(url)}
    BY <1>5 DEF Meant
  <2>5. ~gone => own # {}
    BY <1>3, <2>1, <2>3 DEF Live
  <2>6. ~gone => latest \in Meant(url)
    <3>1. SUFFICES ASSUME ~gone, NEW newer \in DOMAIN avatars, newer > latest
                   PROVE  avatars[newer].deleted \/ avatars[newer].user # URLParam(url)
      BY <2>2, <2>4, <2>5
    <3>2. latest \in DOMAIN avatars
      BY <2>2, <2>5, <3>1
    <3>3. newer \notin own
      BY <1>3, <2>2, <2>5, <3>1, <3>2
    <3> QED BY <3>1, <3>3 DEF Live
  <2>7. gone => own = {}
    BY <2>1, <2>2
  <2>8. bad \/ garbled => own = {}
    BY <1>3, UsersAssumption
  <2>9. own = {} => Meant(url) = {}
    BY <2>4
  <2> HIDE DEF own, bad, garbled, gone
  <2> QED BY <1>2, <2>1, <2>6, <2>7, <2>8, <2>9
<1> QED BY <1>4, <1>5 DEF URLs

-----------------------------------------------------------------------------
(* The answers to a GET.                                                     *)

(* No error has the status of an answer with an image, and three of those    *)
(* that FetchImage returns are told apart by theirs.                         *)
LEMMA ErrorCodes ==
  /\ \A err : StatusOf(err) \notin {200, 304}
  /\ StatusOf("ErrInvalidImage") = 400 /\ StatusOf("encoder") = 500
BY DEF StatusOf

(* The parameters that FetchImage objects to, and the format it is to use. *)
LEMMA ParametersKnown ==
  ASSUME NEW url
  PROVE  /\ NormalizeSize(url.size) = "error" => url.size \notin AllowedSizes \cup {""}
         /\ NormalizeFormat(url.format) = "error" => url.format \notin Formats \cup {"", "jpg"}
         /\ NormalizeFormat(url.format) # "error" => Asked(url) = NormalizeFormat(url.format)
BY DEF NormalizeSize, NormalizeFormat, Asked, AllowedSizes, ThumbnailSizes, SizeOriginal, Size100,
       Size300, Formats

(* Properties of an answer, as a GET leaves rows, objects and files alone. *)
LEMMA AnswerFrame ==
  ASSUME UNCHANGED <<avatars, bucket, sent>>
  PROVE  /\ Meant(reply.url)' = Meant(reply'.url)
         /\ FetchImage(Target(reply.url), reply.url.size, reply.url.format)'
              = FetchImage(Target(reply'.url), reply'.url.size, reply'.url.format)
<1>1. Meant(reply.url)' = Meant(reply'.url)
  BY DEF Meant, Live
<1>2. FetchImage(Target(reply.url), reply.url.size, reply.url.format)'
        = FetchImage(Target(reply'.url), reply'.url.size, reply'.url.format)
  BY DEF FetchImage, Target, Latest, Live
<1> QED BY <1>1, <1>2

(* A GET that is refused. *)
LEMMA RefusalRight ==
  ASSUME StoreInv, ObjectsInv, NEW url \in URLs, NEW err, err # NoError,
         \/ LookupError(url) # NoError
         \/ LookupError(url) = NoError /\ err = FetchImage(Target(url), url.size, url.format).err,
         reply' = [op |-> "image", code |-> StatusOf(err), url |-> url],
         UNCHANGED <<avatars, bucket, sent>>
  PROVE  ServedIfPossible'
<1>1. reply'.url = url /\ reply'.code = StatusOf(err) /\ Meant(reply.url)' = Meant(url)
  BY AnswerFrame
<1>2. CASE LookupError(url) # NoError
  <2>1. Meant(reply.url)' = {}
    BY <1>1, <1>2, TargetMeant
  <2> QED BY <2>1 DEF ServedIfPossible
<1>3. CASE LookupError(url) = NoError
  <2> DEFINE id == Target(url)
             size == NormalizeSize(url.size)
             format == NormalizeFormat(url.format)
             kept == Kept(id, size)
             image == FetchImage(id, url.size, url.format)
             refused == \/ ~kept.pixels /\ err = "ErrInvalidImage"
                        \/ ~Encodable(kept.width, kept.height, format) /\ err = "encoder"
  <2>1. id \in Meant(url) /\ err = image.err
    BY <1>3, TargetMeant
  <2>2. id \in DOMAIN avatars
    BY <2>1 DEF Meant
  <2>3. \/ size = "error"
        \/ format = "error"
        \/ format \in Formats \ {kept.magic} /\ refused
    <3>1. Fetched(id, size, format, image)
      BY <2>2, FetchIs
    <3> HIDE DEF id, size, format, image
    <3>2. ASSUME NEW data, NEW type, NEW etag
          PROVE  image # [err |-> NoError, data |-> data, type |-> type, etag |-> etag]
      BY <2>1
    <3>3. size # "error" /\ format # "error" => format \in Formats \ {kept.magic} /\ refused
      BY <2>1, <3>1, <3>2 DEF Fetched
    <3> QED BY <3>3
  <2>4. CASE size = "error"
    <3>1. reply'.url.size \notin AllowedSizes \cup {""}
      BY <1>1, <2>4, ParametersKnown
    <3> QED BY <3>1 DEF ServedIfPossible
  <2>5. CASE format = "error"
    <3>1. reply'.url.format \notin Formats \cup {"", "jpg"}
      BY <1>1, <2>5, ParametersKnown
    <3> QED BY <3>1 DEF ServedIfPossible
  <2>6. CASE format \in Formats \ {kept.magic} /\ refused
    <3>1. /\ kept.magic = sent[id].magic
          /\ kept = sent[id] \/ size \in avatars[id].thumbs
      BY <2>2, ObjectIs
    <3>2. kept = sent[id]
      <4>1. SUFFICES ASSUME size \in avatars[id].thumbs PROVE FALSE
        BY <3>1
      <4>2. kept = ThumbnailOf(sent[id], size)
        BY <4>1 DEF Kept
      <4>3. kept.pixels /\ kept.width = ThumbnailSide(size) /\ kept.height = ThumbnailSide(size)
        BY <4>2 DEF ThumbnailOf
      <4>4. Encodable(kept.width, kept.height, format)
        BY <4>3, SidesFit
      <4> QED BY <2>6, <4>3, <4>4
    <3>3. Asked(url) = format /\ Asked(url) \notin {"", sent[id].magic}
      <4>1. format # "error" /\ format # ""
        BY <2>6 DEF Formats
      <4>2. Asked(url) = format
        BY <4>1, ParametersKnown
      <4> HIDE DEF format, kept
      <4> QED BY <2>6, <3>2, <4>1, <4>2
    <3>4. \/ reply'.code = 400 /\ ~sent[id].pixels
          \/ reply'.code = 500 /\ ~Encodable(sent[id].width, sent[id].height, format)
      BY <1>1, <2>6, <3>2, ErrorCodes
    <3>5. id \in Meant(reply.url)' /\ sent' = sent
      BY <1>1, <2>1
    <3> HIDE DEF id, format, kept, size
    <3>6. Asked(reply.url)' = format
      BY <1>1, <3>3 DEF Asked
    <3>7. /\ Asked(reply.url)' \notin {"", sent'[id].magic}
          /\ \/ reply'.code = 400 /\ ~sent'[id].pixels
             \/ reply'.code = 500 /\ ~Encodable(sent'[id].width, sent'[id].height, Asked(reply.url)')
      BY <3>3, <3>4, <3>5, <3>6
    <3> QED BY <3>5, <3>7 DEF ServedIfPossible
  <2> QED BY <2>3, <2>4, <2>5, <2>6
<1> QED BY <1>2, <1>3

(* What FetchImage returns if it returns an image. *)
LEMMA ImageRight ==
  ASSUME StoreInv, ObjectsInv, NEW url \in URLs, LookupError(url) = NoError,
         FetchImage(Target(url), url.size, url.format).err = NoError
  PROVE  LET image == FetchImage(Target(url), url.size, url.format)
         IN /\ Target(url) \in Meant(url)
            /\ image.data.picture = sent[Target(url)].picture
            /\ image.type = MIMEOf[image.data.magic]
            /\ url.format # "" => image.data.magic = Asked(url)
            /\ image.etag # << >> /\ image.etag[4] = image.data
<1> DEFINE id == Target(url)
           size == NormalizeSize(url.size)
           format == NormalizeFormat(url.format)
           kept == Kept(id, size)
           image == FetchImage(id, url.size, url.format)
<1>1. id \in Meant(url) /\ id \in DOMAIN avatars
  BY TargetMeant DEF Meant
<1>2. kept.magic = sent[id].magic /\ kept.picture = sent[id].picture /\ kept.magic \in Formats
  BY <1>1, ObjectIs DEF GoodFile
<1>3. Fetched(id, size, format, image)
  BY <1>1, FetchIs
<1>4. url.format # "" /\ format # "error" => format # ""
  BY DEF NormalizeFormat, Formats
<1>5. format # "error" => Asked(url) = format
  BY ParametersKnown
<1>6. image.err = NoError
  OBVIOUS
<1> HIDE DEF id, size, format, kept, image
<1>7. PICK data : /\ format # "error" /\ format \in {"", data.magic} /\ data.picture = kept.picture
                  /\ image = [err |-> NoError, data |-> data, type |-> MIMEOf[data.magic],
                              etag |-> <<id, size, format, data>>]
  <2>1. CASE /\ format \in {"", kept.magic}
             /\ image = [err |-> NoError, data |-> kept, type |-> MIMEOf[kept.magic],
                         etag |-> <<id, size, format, kept>>]
    <3>1. format # "error"
      BY <1>2, <2>1 DEF Formats
    <3> QED BY <2>1, <3>1
  <2>2. ASSUME NEW data, format \in Formats, data.magic = format, data.picture = kept.picture,
               image = [err |-> NoError, data |-> data, type |-> MIMEOf[format],
                        etag |-> <<id, size, format, data>>]
        PROVE  /\ format # "error" /\ format \in {"", data.magic} /\ data.picture = kept.picture
               /\ image = [err |-> NoError, data |-> data, type |-> MIMEOf[data.magic],
                           etag |-> <<id, size, format, data>>]
    BY <2>2 DEF Formats
  <2>3. image.err \notin {"ErrInvalidSizeParam", "ErrInvalidFormatParam", "ErrInvalidImage", "encoder"}
    BY <1>6 DEF NoError
  <2> QED BY <1>3, <2>1, <2>2, <2>3 DEF Fetched, kept
<1>8. /\ image.data = data /\ image.type = MIMEOf[data.magic]
      /\ image.etag # << >> /\ image.etag[4] = data
  BY <1>7
<1> QED BY <1>1, <1>2, <1>4, <1>5, <1>7, <1>8 DEF id, image

(* A GET, whatever it is answered with. *)
LEMMA ImageAnswered ==
  ASSUME StoreInv, ObjectsInv, CopyInv, NEW url \in URLs, NEW sendsETag, GetImage(url, sendsETag)
  PROVE  CopyInv' /\ RightImage' /\ ServedIfPossible' /\ NotModifiedTrue'
<1> DEFINE image == IF LookupError(url) = NoError THEN FetchImage(Target(url), url.size, url.format)
                    ELSE [err |-> LookupError(url)]
<1>a. UNCHANGED <<avatars, bucket, sent>>
  BY DEF GetImage
<1>1. CASE /\ image.err # NoError /\ UNCHANGED cached
           /\ reply' = [op |-> "image", code |-> StatusOf(image.err), url |-> url]
  <2>1. reply'.code \notin {200, 304}
    BY <1>1, ErrorCodes
  <2>2. ServedIfPossible'
    BY <1>a, <1>1, RefusalRight
  <2>3. CopyInv'
    BY <1>1 DEF CopyInv
  <2> QED BY <2>1, <2>2, <2>3 DEF RightImage, NotModifiedTrue
<1>b. ASSUME image.err = NoError
      PROVE  /\ LookupError(url) = NoError /\ image = FetchImage(Target(url), url.size, url.format)
             /\ Target(url) \in Meant(url) /\ image.data.picture = sent[Target(url)].picture
             /\ image.type = MIMEOf[image.data.magic]
             /\ url.format # "" => image.data.magic = Asked(url)
             /\ image.etag # << >> /\ image.etag[4] = image.data
  <2>1. LookupError(url) = NoError /\ image = FetchImage(Target(url), url.size, url.format)
    BY <1>b
  <2> QED BY <1>b, <2>1, ImageRight
<1> HIDE DEF image
<1>2. CASE /\ image.err = NoError /\ image.etag = cached.etag /\ UNCHANGED cached
           /\ reply' = [op |-> "image", code |-> 304, url |-> url]
  <2>1. reply'.url = url /\ reply'.code = 304
    BY <1>2
  <2>2. cached'.data = image.data
    BY <1>b, <1>2 DEF CopyInv
  <2>3. FetchImage(Target(reply.url), reply.url.size, reply.url.format)' = image
    BY <1>a, <1>b, <1>2, <2>1, AnswerFrame
  <2>4. NotModifiedTrue'
    BY <2>2, <2>3 DEF NotModifiedTrue
  <2>5. RightImage' /\ ServedIfPossible'
    BY <2>1 DEF RightImage, ServedIfPossible
  <2>6. CopyInv'
    BY <1>2 DEF CopyInv
  <2> QED BY <2>4, <2>5, <2>6
<1>3. CASE /\ image.err = NoError
           /\ reply' = [op |-> "image", code |-> 200, url |-> url,
                        type |-> image.type, data |-> image.data]
           /\ cached' = [url |-> url, etag |-> image.etag, data |-> image.data]
  <2>1. /\ reply'.url = url /\ reply'.code = 200
        /\ reply'.type = image.type /\ reply'.data = image.data
    BY <1>3
  <2>2. Meant(reply.url)' = Meant(url) /\ sent' = sent
    BY <1>a, <2>1, AnswerFrame
  <2>3. RightImage'
    <3>1. \E id \in Meant(reply.url)' : reply'.data.picture = sent'[id].picture
      BY <1>b, <1>3, <2>1, <2>2
    <3>2. reply'.type = MIMEOf[reply'.data.magic]
      BY <1>b, <1>3, <2>1
    <3>3. reply'.url.format # "" => reply'.data.magic = Asked(reply'.url)
      BY <1>b, <1>3, <2>1
    <3> QED BY <3>1, <3>2, <3>3 DEF RightImage, Asked
  <2>4. ServedIfPossible' /\ NotModifiedTrue'
    BY <2>1 DEF ServedIfPossible, NotModifiedTrue
  <2>5. CopyInv'
    BY <1>b, <1>3 DEF CopyInv
  <2> QED BY <2>3, <2>4, <2>5
<1> QED BY <1>1, <1>2, <1>3 DEF GetImage, image

-----------------------------------------------------------------------------
(* The objects, through the steps that write rows or objects.                *)

(* An upload brings the original, and a row that lists no thumbnails. *)
LEMMA AcceptedObjects ==
  ASSUME StoreInv, ObjectsInv, NEW route, NEW form \in Form, UploadAccepted(route, form)
  PROVE  ObjectsInv'
<1> DEFINE data == ReadFile(form.file)
           mime == DetectMIME(data)
           row == [user |-> form.user, mime |-> mime, bytes |-> data.bytes,
                   width |-> data.width, height |-> data.height,
                   thumbs |-> {}, status |-> "pending", deleted |-> FALSE]
           objs == [size \in AllowedSizes |->
                      IF size = SizeOriginal THEN [type |-> mime, data |-> data] ELSE NoObject]
           n == Len(avatars)
<1>1. /\ avatars' = Append(avatars, row)
      /\ bucket' = Append(bucket, objs)
      /\ sent' = Append(sent, form.file)
  BY DEF UploadAccepted
<1>2. GoodFile(form.file) /\ data = form.file
  <2>1. UploadError(route, form) = NoError /\ form.file \in Data
    BY DEF UploadAccepted, Form
  <2>2. GoodFile(form.file) /\ form.file.bytes <= MaxBytes
    BY <2>1, UploadExact
  <2> QED BY <2>1, <2>2, ReadFileIs
<1>3. mime = MIMEOf[form.file.magic]
  BY <1>2 DEF DetectMIME, GoodFile
<1>4. Holds(row, objs, form.file)
  <2>1. objs[SizeOriginal].type = mime
    BY DEF AllowedSizes
  <2>2. row.thumbs = {}
    OBVIOUS
  <2> HIDE DEF row, objs, mime
  <2> QED BY <1>3, <2>1, <2>2 DEF Holds
<1> HIDE DEF data, mime, row, objs
<1>5. /\ n \in Nat /\ DOMAIN avatars = 1..n /\ Len(bucket) = n /\ Len(sent) = n
      /\ avatars \in Seq(Row) /\ bucket \in Seq([AllowedSizes -> Object]) /\ sent \in Seq(Data)
  BY DEF StoreInv
<1>6. /\ DOMAIN avatars' = 1..(n + 1)
      /\ avatars'[n + 1] = row /\ bucket'[n + 1] = objs /\ sent'[n + 1] = form.file
      /\ \A id \in 1..n : avatars'[id] = avatars[id] /\ bucket'[id] = bucket[id] /\ sent'[id] = sent[id]
  BY <1>1, <1>5
<1>7. ASSUME NEW id \in 1..(n + 1)
      PROVE  Holds(avatars'[id], bucket'[id], sent'[id])
  <2>1. CASE id = n + 1
    BY <1>4, <1>6, <2>1
  <2>2. CASE id \in 1..n
    BY <1>5, <1>6, <2>2 DEF ObjectsInv
  <2> QED BY <1>5, <2>1, <2>2
<1>8. ObjectsInv' <=> \A id \in DOMAIN avatars' : Holds(avatars'[id], bucket'[id], sent'[id])
  BY DEF ObjectsInv, Holds
<1> QED BY <1>6, <1>7, <1>8

(* The worker lists the thumbnails it has made, and replaces no original. *)
LEMMA ProcessedObjects ==
  ASSUME StoreInv, ObjectsInv, NEW id \in DOMAIN avatars, ProcessUpload(id)
  PROVE  ObjectsInv'
<1> DEFINE data == bucket[id][SizeOriginal].data
           err == ProcessingError(data)
           objs == ObjectsAfter(id)
<1>1. /\ id \in 1..Len(avatars) /\ sent[id] \in Data /\ GoodFile(sent[id]) /\ data = sent[id]
      /\ UNCHANGED sent
      /\ DOMAIN avatars = 1..Len(avatars) /\ DOMAIN bucket = 1..Len(avatars)
      /\ avatars[id] \in Row
  BY DEF StoreInv, ProcessUpload
<1>2. Holds(avatars[id], bucket[id], sent[id])
  BY DEF ObjectsInv
<1>3. /\ \/ err = NoError /\ avatars' = [avatars EXCEPT ![id] = ProcessedRow(id)]
         \/ \E status : avatars' = [avatars EXCEPT ![id].status = status]
      /\ bucket' = [bucket EXCEPT ![id] = objs]
  BY DEF ProcessUpload
<1>4. objs = [size \in AllowedSizes |->
                IF size \in Made(data)
                THEN [type |-> Thumbnail(data, size).mime, data |-> Thumbnail(data, size).data]
                ELSE bucket[id][size]]
  BY DEF ObjectsAfter
<1>5. ASSUME NEW size \in Made(data)
      PROVE  data.pixels /\ objs[size] = [type |-> MIMEOf[data.magic], data |-> ThumbnailOf(data, size)]
  <2>1. size \in ThumbnailSizes /\ Thumbnail(data, size).err = NoError
    BY DEF Made
  <2>2. data.pixels /\ Resizable(data, ThumbnailSide(size), ThumbnailSide(size))
    BY <1>1, <2>1, ThumbnailMade
  <2>3. Thumbnail(data, size) = [err |-> NoError, mime |-> MIMEOf[data.magic],
                                 data |-> ThumbnailOf(data, size)]
    BY <1>1, <2>2, ThumbnailIs
  <2>4. size \in AllowedSizes
    BY <2>1 DEF AllowedSizes
  <2> HIDE DEF data, objs
  <2> QED BY <1>4, <2>2, <2>3, <2>4
<1>6. err = NoError => ThumbnailSizes \subseteq Made(data)
  <2>1. err = NoError => data.pixels /\ Fits(data)
    BY <1>1, ProcessingExact
  <2>2. err = NoError => \A size \in ThumbnailSizes : Thumbnail(data, size).err = NoError
    BY <1>1, <2>1, ThumbnailMade DEF Fits
  <2>3. Inspect(data) = NoError
    BY <1>1, InspectExact
  <2>4. Size100 \in ThumbnailSizes
    BY DEF ThumbnailSizes
  <2> QED BY <2>2, <2>3, <2>4 DEF Made
<1>7. SizeOriginal \in AllowedSizes /\ SizeOriginal \notin Made(data)
  BY DEF Made, AllowedSizes, ThumbnailSizes, SizeOriginal, Size100, Size300
<1> HIDE DEF err, objs
<1>8. /\ DOMAIN avatars' = DOMAIN avatars /\ bucket'[id] = objs
      /\ \A i \in DOMAIN avatars : i # id => avatars'[i] = avatars[i] /\ bucket'[i] = bucket[i]
  BY <1>1, <1>3
<1>9. Holds(avatars'[id], objs, sent[id])
  <2>1. /\ avatars[id].thumbs \subseteq ThumbnailSizes
        /\ \A size \in avatars'[id].thumbs : size \in avatars[id].thumbs \/ size \in Made(data)
    <3>1. CASE err = NoError /\ avatars' = [avatars EXCEPT ![id] = ProcessedRow(id)]
      <4>1. avatars'[id] = ProcessedRow(id)
        BY <1>1, <3>1
      <4>2. ProcessedRow(id).thumbs = ThumbnailSizes
        BY <1>1 DEF ProcessedRow, Row
      <4> QED BY <1>1, <1>6, <3>1, <4>1, <4>2 DEF Row
    <3>2. CASE \E status : avatars' = [avatars EXCEPT ![id].status = status]
      <4>1. avatars'[id].thumbs = avatars[id].thumbs
        BY <1>1, <3>2 DEF Row
      <4> QED BY <1>1, <4>1 DEF Row
    <3> QED BY <1>3, <3>1, <3>2
  <2>2. objs[SizeOriginal] = bucket[id][SizeOriginal]
    BY <1>4, <1>7
  <2>3. ASSUME NEW size \in avatars'[id].thumbs
        PROVE  /\ sent[id].pixels
               /\ objs[size] = [type |-> MIMEOf[sent[id].magic], data |-> ThumbnailOf(sent[id], size)]
    <3>1. CASE size \in Made(data)
      BY <1>1, <1>5, <3>1
    <3>2. CASE size \notin Made(data)
      <4>1. size \in avatars[id].thumbs /\ size \in AllowedSizes
        BY <2>1, <2>3, <3>2 DEF AllowedSizes
      <4>2. objs[size] = bucket[id][size]
        BY <1>4, <3>2, <4>1
      <4> QED BY <1>2, <4>1, <4>2 DEF Holds
    <3> QED BY <3>1, <3>2
  <2> QED BY <1>2, <2>2, <2>3 DEF Holds
<1>10. ASSUME NEW i \in DOMAIN avatars
       PROVE  Holds(avatars'[i], bucket'[i], sent'[i])
  <2>1. CASE i = id
    BY <1>1, <1>8, <1>9, <2>1
  <2>2. CASE i # id
    BY <1>1, <1>8, <2>2 DEF ObjectsInv
  <2> QED BY <2>1, <2>2
<1>11. ObjectsInv' <=> \A i \in DOMAIN avatars' : Holds(avatars'[i], bucket'[i], sent'[i])
  BY DEF ObjectsInv, Holds
<1> QED BY <1>8, <1>10, <1>11

(* A deletion leaves the objects and the list of thumbnails as they are. *)
LEMMA DeletedObjects ==
  ASSUME StoreInv, ObjectsInv, NEW id, NEW user, DeleteAvatar(id, user)
  PROVE  ObjectsInv'
<1>1. UNCHANGED <<bucket, sent>>
  BY DEF DeleteAvatar
<1>2. /\ DOMAIN avatars' = DOMAIN avatars
      /\ \A i \in DOMAIN avatars : avatars'[i].thumbs = avatars[i].thumbs
  <2>1. \A i \in DOMAIN avatars : avatars[i] \in Row
    BY DEF StoreInv
  <2>2. CASE UNCHANGED avatars
    BY <2>2
  <2>3. CASE avatars' = [avatars EXCEPT ![id].deleted = TRUE]
    BY <2>1, <2>3 DEF Row
  <2> QED BY <2>2, <2>3 DEF DeleteAvatar
<1>3. \A i \in DOMAIN avatars : Holds(avatars'[i], bucket'[i], sent'[i])
  BY <1>1, <1>2 DEF ObjectsInv, Holds
<1>4. ObjectsInv' <=> \A i \in DOMAIN avatars' : Holds(avatars'[i], bucket'[i], sent'[i])
  BY DEF ObjectsInv, Holds
<1> QED BY <1>2, <1>3, <1>4

(* A step that answers no GET has nothing to say of images. *)
LEMMA NotAnImage ==
  ASSUME reply'.op # "image"
  PROVE  RightImage' /\ ServedIfPossible' /\ NotModifiedTrue'
BY DEF RightImage, ServedIfPossible, NotModifiedTrue

(* A step that leaves rows, objects and files alone. *)
LEMMA ObjectsFrame ==
  ASSUME ObjectsInv, UNCHANGED <<avatars, bucket, sent>>
  PROVE  ObjectsInv'
BY DEF ObjectsInv, Holds

-----------------------------------------------------------------------------

LEMMA ImagesInit == Init => ImagesInv
<1> SUFFICES ASSUME Init PROVE ImagesInv
  OBVIOUS
<1>1. ApiInv
  BY ApiInit
<1>2. ObjectsInv /\ CopyInv
  BY DEF Init, NoCopy, ObjectsInv, CopyInv
<1>3. RightImage /\ ServedIfPossible /\ NotModifiedTrue
  BY DEF Init, Silence, RightImage, ServedIfPossible, NotModifiedTrue
<1> QED BY <1>1, <1>2, <1>3 DEF ImagesInv

LEMMA ImagesNext == ImagesInv /\ [Next]_vars => ImagesInv'
<1> SUFFICES ASSUME ImagesInv, [Next]_vars PROVE ImagesInv'
  OBVIOUS
<1>a. ApiInv'
  BY ApiNext DEF ImagesInv
<1>b. StoreInv /\ ObjectsInv /\ CopyInv
  BY DEF ImagesInv, ApiInv
<1>c. UNCHANGED cached => CopyInv'
  BY <1>b DEF CopyInv
<1>1. ASSUME NEW route \in {"api", "web"}, NEW form \in Forms,
             UploadAccepted(route, form) \/ UploadRefused(route, form)
      PROVE  ImagesInv'
  <2>1. form \in Form
    BY FormsAssumption
  <2>2. ObjectsInv'
    BY <1>b, <1>1, <2>1, AcceptedObjects, ObjectsFrame DEF UploadRefused
  <2>3. reply'.op # "image" /\ UNCHANGED cached
    BY <1>1 DEF UploadAccepted, UploadRefused
  <2> QED BY <1>a, <1>c, <2>2, <2>3, NotAnImage DEF ImagesInv
<1>2. ASSUME NEW url \in URLs, NEW sends, GetImage(url, sends)
      PROVE  ImagesInv'
  <2>1. ObjectsInv'
    BY <1>b, <1>2, ObjectsFrame DEF GetImage
  <2> QED BY <1>a, <1>b, <1>2, <2>1, ImageAnswered DEF ImagesInv
<1>3. CASE (\E id \in 1..MaxUploads : GetMetadata(id)) \/ (\E segment \in Segments : ListByUser(segment))
  <2>1. UNCHANGED <<avatars, bucket, sent, cached>> /\ reply'.op # "image"
    <3>1. ASSUME NEW id, GetMetadata(id)
          PROVE  UNCHANGED <<avatars, bucket, sent, cached>> /\ reply'.op # "image"
      BY <3>1 DEF GetMetadata
    <3>2. ASSUME NEW segment, ListByUser(segment)
          PROVE  UNCHANGED <<avatars, bucket, sent, cached>> /\ reply'.op # "image"
      BY <3>2 DEF ListByUser
    <3> QED BY <1>3, <3>1, <3>2
  <2> QED BY <1>a, <1>b, <1>c, <2>1, ObjectsFrame, NotAnImage DEF ImagesInv
<1>4. ASSUME NEW id, NEW user, DeleteAvatar(id, user)
      PROVE  ImagesInv'
  <2>1. reply'.op # "image" /\ UNCHANGED cached
    BY <1>4 DEF DeleteAvatar
  <2> QED BY <1>a, <1>b, <1>c, <1>4, <2>1, DeletedObjects, NotAnImage DEF ImagesInv
<1>5. ASSUME NEW segment, NEW user, DeleteByUser(segment, user)
      PROVE  ImagesInv'
  <2>1. CASE DeleteAvatar(Latest(user), user)
    BY <1>4, <2>1
  <2>2. CASE UNCHANGED <<avatars, bucket, sent, cached>> /\ reply'.op # "image"
    BY <1>a, <1>b, <1>c, <2>2, ObjectsFrame, NotAnImage DEF ImagesInv
  <2> QED BY <1>5, <2>1, <2>2 DEF DeleteByUser
<1>6. ASSUME reply = Silence, NEW id \in DOMAIN avatars, ProcessUpload(id)
      PROVE  ImagesInv'
  <2>1. reply'.op # "image" /\ UNCHANGED cached
    BY <1>6 DEF ProcessUpload, Silence
  <2> QED BY <1>a, <1>b, <1>c, <1>6, <2>1, ProcessedObjects, NotAnImage DEF ImagesInv
<1>7. CASE Delivered
  <2>1. UNCHANGED <<avatars, bucket, sent, cached>> /\ reply'.op # "image"
    BY <1>7 DEF Delivered, Silence
  <2> QED BY <1>a, <1>b, <1>c, <2>1, ObjectsFrame, NotAnImage DEF ImagesInv
<1>8. CASE UNCHANGED vars
  <2>1. UNCHANGED <<avatars, bucket, sent>> /\ UNCHANGED reply /\ UNCHANGED cached
    BY <1>8 DEF vars
  <2>2. /\ Meant(reply.url)' = Meant(reply.url)
        /\ FetchImage(Target(reply.url), reply.url.size, reply.url.format)'
             = FetchImage(Target(reply.url), reply.url.size, reply.url.format)
    BY <2>1, AnswerFrame
  <2>3. RightImage' /\ ServedIfPossible'
    <3>1. RightImage /\ ServedIfPossible
      BY DEF ImagesInv
    <3>2. RightImage'
      BY <2>1, <2>2, <3>1 DEF RightImage, Asked
    <3>3. ServedIfPossible'
      <4> DEFINE Excused(meant, file, answer) ==
                   \/ answer.url.size \notin AllowedSizes \cup {""}
                   \/ answer.url.format \notin Formats \cup {"", "jpg"}
                   \/ meant = {}
                   \/ \E id \in meant :
                        /\ Asked(answer.url) \notin {"", file[id].magic}
                        /\ \/ answer.code = 400 /\ ~file[id].pixels
                           \/ /\ answer.code = 500
                              /\ ~Encodable(file[id].width, file[id].height, Asked(answer.url))
      <4>1. ServedIfPossible =
              (reply.op = "image" /\ reply.code >= 400 => Excused(Meant(reply.url), sent, reply))
        BY DEF ServedIfPossible
      <4>2. ServedIfPossible' =
              (reply'.op = "image" /\ reply'.code >= 400 => Excused(Meant(reply.url)', sent', reply'))
        BY DEF ServedIfPossible, Asked
      <4> HIDE DEF Excused
      <4> QED BY <2>1, <2>2, <3>1, <4>1, <4>2
    <3> QED BY <3>2, <3>3
  <2>4. NotModifiedTrue'
    BY <2>1, <2>2 DEF ImagesInv, NotModifiedTrue
  <2> QED BY <1>a, <1>b, <1>c, <2>1, <2>3, <2>4, ObjectsFrame DEF ImagesInv
<1>9. CASE Request
  BY <1>9, <1>1, <1>2, <1>3, <1>4, <1>5 DEF Request
<1> QED BY <1>6, <1>7, <1>8, <1>9 DEF Next

(* The invariant holds of every behaviour. *)
THEOREM ImagesSafety == Spec => []ImagesInv
  BY ImagesInit, ImagesNext, PTL DEF Spec

(* A GET is answered with the picture of the avatar that its URL means, in   *)
(* the format it asks for, and with the Content-Type of those bytes.         *)
THEOREM ImagesRight == Spec => []RightImage
<1>1. ImagesInv => RightImage
  BY DEF ImagesInv
<1> QED BY <1>1, ImagesSafety, PTL

(* FetchImage refuses a live avatar for unknown parameters, pixels it cannot *)
(* read and a side its encoder cannot take, and for nothing else.            *)
THEOREM ImagesServed == Spec => []ServedIfPossible
<1>1. ImagesInv => ServedIfPossible
  BY DEF ImagesInv
<1> QED BY <1>1, ImagesSafety, PTL

(* writeImage answers 304 only if the client's copy is what it would send.   *)
THEOREM CopiesCurrent == Spec => []NotModifiedTrue
<1>1. ImagesInv => NotModifiedTrue
  BY DEF ImagesInv
<1> QED BY <1>1, ImagesSafety, PTL

(* Every thumbnail that a row lists is served as a square of the side in its *)
(* name that shows the picture.                                              *)
THEOREM ThumbnailsRight == Spec => []ThumbnailsAsNamed
<1>1. ImagesInv => ThumbnailsAsNamed
  <2> SUFFICES ASSUME ImagesInv, NEW id \in DOMAIN avatars, NEW size \in avatars[id].thumbs
               PROVE  LET data == FetchImage(id, size, "").data
                          side == IF size = "100x100" THEN Side100 ELSE Side300
                      IN data.picture = sent[id].picture /\ data.width = side /\ data.height = side
    BY DEF ThumbnailsAsNamed
  <2>1. StoreInv /\ ObjectsInv
    BY DEF ImagesInv, ApiInv
  <2>2. size \in ThumbnailSizes
    <3>1. avatars[id] \in Row
      BY <2>1 DEF StoreInv
    <3> QED BY <3>1 DEF Row
  <2>3. NormalizeSize(size) = size /\ size # "error" /\ NormalizeFormat("") = ""
    BY <2>2 DEF NormalizeSize, NormalizeFormat, Formats, AllowedSizes, ThumbnailSizes, SizeOriginal,
                Size100, Size300
  <2>4. Kept(id, size).magic \in Formats
    BY <2>1, ObjectIs DEF GoodFile
  <2>5. FetchImage(id, size, "").data = Kept(id, size)
    <3>1. "" \notin Formats /\ "" # "error"
      BY DEF Formats
    <3>2. Fetched(id, size, "", FetchImage(id, size, ""))
      BY <2>1, <2>3, FetchIs
    <3> DEFINE image == FetchImage(id, size, "")
               kept == Kept(id, size)
    <3> HIDE DEF image, kept
    <3>3. image = [err |-> NoError, data |-> kept, type |-> MIMEOf[kept.magic],
                   etag |-> <<id, size, "", kept>>]
      BY <2>3, <3>1, <3>2 DEF Fetched, image, kept
    <3>4. image.data = kept
      BY <3>3
    <3> QED BY <3>4 DEF image, kept
  <2>6. Kept(id, size) = ThumbnailOf(sent[id], size)
    BY DEF Kept
  <2>7. ThumbnailSide(size) = IF size = "100x100" THEN Side100 ELSE Side300
    BY DEF ThumbnailSide, Size100
  <2>8. /\ ThumbnailOf(sent[id], size).picture = sent[id].picture
        /\ ThumbnailOf(sent[id], size).width = ThumbnailSide(size)
        /\ ThumbnailOf(sent[id], size).height = ThumbnailSide(size)
    BY DEF ThumbnailOf
  <2> QED BY <2>5, <2>6, <2>7, <2>8
<1> QED BY <1>1, ImagesSafety, PTL
=============================================================================
