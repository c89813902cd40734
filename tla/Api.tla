--------------------------------- MODULE Api ---------------------------------
(* What the HTTP API makes of the images it is sent: the checks of the two    *)
(* upload routes, the worker's thumbnails, and the image, the labels and the  *)
(* errors a GET is answered with.  Requests come one after the other and      *)
(* nothing fails; GophProfile is about the rest.                              *)
EXTENDS Images, Sequences

CONSTANTS Users,
          BadUser,            \* an id that ValidateUserID refuses
          GarbledUser,        \* one it accepts that is no UTF-8
          Escaped,            \* Escaped[user]: an id with % in place of characters
          Forms,              \* the forms that clients send
          MaxUploads,         \* how many uploads are accepted
          MaxUploadBytes,     \* the configured limit of a file
          MaxFileSize,        \* and its default
          Slack,              \* what the body may have beside the file: 512 KB
          Side100, Side300,   \* the sides of the thumbnails: 100 and 300
          SizeParams, FormatParams

AnyUser == Users \cup {BadUser, GarbledUser}

ASSUME UsersAssumption ==
  /\ BadUser \notin Users /\ GarbledUser \notin Users /\ BadUser # GarbledUser
  /\ Escaped \in [AnyUser -> AnyUser]

(* name:     "plain", "blank", "long" or, longer than 255 bytes and not of   *)
(*           one byte to a character, "wide"; "malformed" is no UTF-8 to     *)
(*           start with.                                                     *)
(* attached: there is a file; a part without any file name is none.          *)
(* rest:     the length of the body without the file.                        *)
Form == [user     : AnyUser,
         name     : {"plain", "blank", "long", "wide", "malformed"},
         attached : BOOLEAN,
         rest     : Nat,
         file     : Data]

ASSUME FormsAssumption == Forms \subseteq Form

(* maxBytes: NewAvatarHandler, NewWebHandler and NewAvatarService, each on    *)
(* its own, take the default for a limit that is not positive.                *)
MaxBytes == IF MaxUploadBytes <= 0 THEN MaxFileSize ELSE MaxUploadBytes

(* The sums that the handlers compute of it do not overflow. *)
ASSUME LimitsAssumption ==
  /\ MaxUploadBytes \in Int /\ MaxFileSize \in Nat \ {0} /\ Slack \in Nat \ {0}
  /\ MaxBytes + Slack <= IntMax

(* A thumbnail is no larger than an upload may be, and every encoder takes it. *)
ASSUME SidesAssumption ==
  /\ Side100 \in Nat \ {0} /\ Side300 \in Nat \ {0}
  /\ Side100 * Side100 <= MaxPixels /\ Side300 * Side300 <= MaxPixels
  /\ {Side100, Side300} \subseteq 1..WebPSide \cap 1..JPEGSide

VARIABLES avatars,   \* the rows, in the order of their creation
          bucket,    \* bucket[id][size]: the objects of an avatar
          sent,      \* sent[id]: the file its uploader sent
          reply,     \* the last answer
          cached     \* the image a client holds, with its URL and ETag

vars == <<avatars, bucket, sent, reply, cached>>

NoObject == [type |-> "", data |-> << >>]

Silence == [op |-> "none", code |-> 0]

NoCopy == [url |-> << >>, etag |-> << >>, data |-> << >>]

Init ==
  /\ avatars = << >>
  /\ bucket = << >>
  /\ sent = << >>
  /\ reply = Silence
  /\ cached = NoCopy

Live(id) == id \in DOMAIN avatars /\ ~avatars[id].deleted

(* GetLatestByUserID; 0 if there is none. *)
Latest(user) ==
  LET own == {id \in DOMAIN avatars : Live(id) /\ avatars[id].user = user}
  IN IF own = {} THEN 0 ELSE CHOOSE id \in own : \A other \in own : other <= id

-----------------------------------------------------------------------------

(* The first bytes of a file; the decoder finds the end missing. *)
Prefix(file, n) ==
  IF file.bytes <= n THEN file ELSE [file EXCEPT !.bytes = n, !.pixels = FALSE]

(* Mutant of ReadFile: the reader stops at the limit, not one past it. *)
ReadFile_AtLimit(file) == Prefix(file, MaxBytes)

(* io.ReadAll(io.LimitReader(file, maxBytes+1)) *)
ReadFile(file) == Prefix(file, MaxBytes + 1)

(* MaxBytesReader: ParseMultipartForm reads the body to its end. *)
BodyTooLong(form) == form.file.bytes + form.rest > MaxBytes + Slack

(* POST /api/v1/avatars: the UserID middleware, then Upload of the handler. *)
ApiChecks(form) ==
  << <<form.user = BadUser, "ErrInvalidUserID">>,
     <<BodyTooLong(form), "ErrFileTooLarge">>,
     <<~form.attached, "ErrFileRequired">>,
     <<ReadFile(form.file).bytes > MaxBytes, "ErrFileTooLarge">> >>

(* POST /web/upload: UploadForm has the user from the form. *)
WebChecks(form) ==
  << <<BodyTooLong(form), "InvalidForm">>,
     <<form.user = BadUser, "ErrInvalidUserID">>,
     <<~form.attached, "ErrFileRequired">>,
     <<ReadFile(form.file).bytes > MaxBytes, "ErrFileTooLarge">> >>

(* A name that is too long is cut at 255 bytes, which for a name of "wide"   *)
(* characters is in the middle of one.                                       *)
sanitizeFileName(name) ==
  CASE name = "blank" -> "avatar"
    [] name = "long" -> "cut"
    [] name = "wide" -> "malformed"
    [] OTHER -> name

(* upload of AvatarService; Postgres refuses text that is not UTF-8, and     *)
(* upload then takes the original back.                                      *)
ServiceChecks(form) ==
  LET data == ReadFile(form.file)
  IN << <<form.user = BadUser, "ErrInvalidUserID">>,
        <<data.bytes = 0, "ErrFileRequired">>,
        <<data.bytes > MaxBytes, "ErrFileTooLarge">>,
        <<Inspect(data) # NoError, Inspect(data)>>,
        <<form.user = GarbledUser \/ sanitizeFileName(form.name) = "malformed", "encoding">> >>

(* The service is called once the handler has no objection. *)
UploadError(route, form) ==
  LET err == FirstError(IF route = "api" THEN ApiChecks(form) ELSE WebChecks(form))
  IN IF err # NoError THEN err ELSE FirstError(ServiceChecks(form))

UploadRefused(route, form) ==
  /\ UploadError(route, form) # NoError
  /\ reply' = [op |-> "upload", form |-> form,
               code |-> IF UploadError(route, form) = "InvalidForm" THEN 400
                        ELSE StatusOf(UploadError(route, form))]
  /\ UNCHANGED <<avatars, bucket, sent, cached>>

(* The row and the original; the web form is answered with a redirection. *)
UploadAccepted(route, form) ==
  LET data == ReadFile(form.file)
      mime == DetectMIME(data)
  IN /\ UploadError(route, form) = NoError
     /\ Len(avatars) < MaxUploads
     /\ avatars' = Append(avatars, [user   |-> form.user,
                                    mime   |-> mime,
                                    bytes  |-> data.bytes,
                                    width  |-> data.width,
                                    height |-> data.height,
                                    thumbs |-> {}, status |-> "pending", deleted |-> FALSE])
     /\ bucket' = Append(bucket, [size \in AllowedSizes |->
                                    IF size = SizeOriginal THEN [type |-> mime, data |-> data]
                                    ELSE NoObject])
     /\ sent' = Append(sent, form.file)
     /\ reply' = [op |-> "upload", form |-> form, code |-> IF route = "api" THEN 201 ELSE 303]
     /\ UNCHANGED cached

-----------------------------------------------------------------------------

(* Mutant of ThumbnailSide: both thumbnails get the size of the first. *)
ThumbnailSide_Same(size) == Side100

(* The table in processUpload. *)
ThumbnailSide(size) == IF size = Size100 THEN Side100 ELSE Side300

(* Mutant of ProcessedRow: the dimensions of a thumbnail are recorded. *)
ProcessedRow_Resized(id) ==
  [avatars[id] EXCEPT !.status = "completed", !.thumbs = ThumbnailSizes,
                      !.width = ThumbnailSide(Size300), !.height = ThumbnailSide(Size300)]

(* CompleteProcessing, with the width and the height of the original. *)
ProcessedRow(id) ==
  LET data == bucket[id][SizeOriginal].data
  IN [avatars[id] EXCEPT !.status = "completed", !.thumbs = ThumbnailSizes,
                         !.width = data.width, !.height = data.height]

Thumbnail(data, size) ==
  MakeThumbnail(data, ThumbnailSide(size), ThumbnailSide(size), FormatFromMIME(DetectMIME(data)))

(* processUpload inspects the original and makes the smaller thumbnail first. *)
ProcessingError(data) ==
  FirstError(<< <<Inspect(data) # NoError, Inspect(data)>>,
                <<Thumbnail(data, Size100).err # NoError, Thumbnail(data, Size100).err>>,
                <<Thumbnail(data, Size300).err # NoError, Thumbnail(data, Size300).err>> >>)

(* The thumbnails that it has made, and stored, by then. *)
Made(data) ==
  {size \in ThumbnailSizes : /\ Inspect(data) = NoError
                             /\ Thumbnail(data, Size100).err = NoError
                             /\ Thumbnail(data, size).err = NoError}

ObjectsAfter(id) ==
  LET data == bucket[id][SizeOriginal].data
  IN [size \in AllowedSizes |->
        IF size \in Made(data)
        THEN [type |-> Thumbnail(data, size).mime, data |-> Thumbnail(data, size).data]
        ELSE bucket[id][size]]

(* processUpload of the worker, in one step.  A worker that is killed leaves *)
(* the row in processing, and RecoverStuck takes it up again.                *)
ProcessUpload(id) ==
  LET err == ProcessingError(bucket[id][SizeOriginal].data)
  IN /\ Live(id)
     /\ avatars[id].status \in {"pending", "failed", "processing"}
     /\ \/ err = NoError /\ avatars' = [avatars EXCEPT ![id] = ProcessedRow(id)]
        \/ err = "killed" /\ avatars' = [avatars EXCEPT ![id].status = "processing"]
        \/ err \notin {NoError, "killed"} /\ avatars' = [avatars EXCEPT ![id].status = "failed"]
     /\ bucket' = [bucket EXCEPT ![id] = ObjectsAfter(id)]
     /\ UNCHANGED <<sent, reply, cached>>

-----------------------------------------------------------------------------

(* Mutant of ETag: of what was asked for alone. *)
ETag_NoData(id, size, format, data) == <<id, size, format>>

(* A prefix of the SHA-256 of these; two of them never collide. *)
ETag(id, size, format, data) == <<id, size, format, data>>

(* Mutant of NeedsConversion: the image is encoded again in its own format. *)
NeedsConversion_Always(format, current) == format # ""

NeedsConversion(format, current) == format # "" /\ format # current

(* Mutant of ConvertedType: the type of the stored object is kept. *)
ConvertedType_Stored(object, converted) == object.type

ConvertedType(object, converted) == converted.mime

(* FetchImage of an avatar that was found.  An object whose type is none of  *)
(* the three is taken for one of the avatar's type.                          *)
FetchImage(id, sizeParam, formatParam) ==
  LET size == NormalizeSize(sizeParam)
      format == NormalizeFormat(formatParam)
      key == IF size \in avatars[id].thumbs THEN size ELSE SizeOriginal
      object == bucket[id][key]
      current == IF FormatFromMIME(object.type) # "" THEN FormatFromMIME(object.type)
                 ELSE FormatFromMIME(avatars[id].mime)
      converted == Convert(object.data, format)
      Payload(data, type) ==
        [err |-> NoError, data |-> data, type |-> type, etag |-> ETag(id, size, format, data)]
      Error(err) == [err |-> err, data |-> << >>, type |-> "", etag |-> << >>]
  IN IF size = "error" THEN Error("ErrInvalidSizeParam")
     ELSE IF format = "error" THEN Error("ErrInvalidFormatParam")
     ELSE IF ~NeedsConversion(format, current)
          THEN Payload(object.data, IF object.type = "" THEN avatars[id].mime ELSE object.type)
     ELSE IF converted.err # NoError THEN Error(converted.err)
     ELSE Payload(converted.data, ConvertedType(object, converted))

(* A user in a path is raw if it is escaped in another way than Go would do  *)
(* it, such as by encodeURIComponent of an @; an avatar id has no character  *)
(* to escape.                                                                *)
Segments == [user : AnyUser, raw : BOOLEAN]

(* chi.URLParam(r, "user_id") is a piece of RawPath if there is one. *)
URLParam(segment) == IF segment.raw THEN Escaped[segment.user] ELSE segment.user

(* The avatar a URL names: GetByID and GetByUser. *)
Target(url) == IF url.by = "id" THEN url.id ELSE Latest(URLParam(url))

(* Postgres refuses a parameter that is not UTF-8. *)
LookupError(url) ==
  FirstError(<< <<url.by = "user" /\ URLParam(url) = BadUser, "ErrInvalidUserID">>,
                <<url.by = "user" /\ URLParam(url) = GarbledUser, "encoding">>,
                <<~Live(Target(url)), "ErrAvatarNotFound">> >>)

(* writeImage; a client that holds a copy may send its ETag along. *)
GetImage(url, sendsETag) ==
  LET image == IF LookupError(url) = NoError THEN FetchImage(Target(url), url.size, url.format)
               ELSE [err |-> LookupError(url)]
  IN /\ \/ /\ image.err # NoError
           /\ reply' = [op |-> "image", code |-> StatusOf(image.err), url |-> url]
           /\ UNCHANGED cached
        \/ /\ image.err = NoError
           /\ sendsETag /\ image.etag = cached.etag
           /\ reply' = [op |-> "image", code |-> 304, url |-> url]
           /\ UNCHANGED cached
        \/ /\ image.err = NoError
           /\ ~(sendsETag /\ image.etag = cached.etag)
           /\ reply' = [op |-> "image", code |-> 200, url |-> url,
                        type |-> image.type, data |-> image.data]
           /\ cached' = [url |-> url, etag |-> image.etag, data |-> image.data]
     /\ UNCHANGED <<avatars, bucket, sent>>

(* toMetadata; ListByUser answers with one of these for each live avatar. *)
toMetadata(id) ==
  [mime |-> avatars[id].mime, bytes |-> avatars[id].bytes,
   width |-> avatars[id].width, height |-> avatars[id].height,
   thumbnails |-> avatars[id].thumbs \cap ThumbnailSizes]

GetMetadata(id) ==
  /\ reply' = [op |-> "metadata", code |-> IF Live(id) THEN 200 ELSE 404,
               items |-> [i \in {id} \cap {j \in DOMAIN avatars : Live(j)} |-> toMetadata(i)]]
  /\ UNCHANGED <<avatars, bucket, sent, cached>>

ListByUser(segment) ==
  LET user == URLParam(segment)
  IN /\ reply' = [op |-> "list",
                  code |-> IF user = BadUser THEN 400 ELSE IF user = GarbledUser THEN 500 ELSE 200,
                  items |-> [i \in {j \in DOMAIN avatars : Live(j) /\ avatars[j].user = user} |->
                               toMetadata(i)]]
     /\ UNCHANGED <<avatars, bucket, sent, cached>>

(* delete of AvatarService, behind the UserID middleware. *)
DeleteError(id, user) ==
  FirstError(<< <<user = BadUser, "ErrInvalidUserID">>,
                <<~Live(id), "ErrAvatarNotFound">>,
                <<Live(id) /\ avatars[id].user # user, "ErrForbidden">> >>)

DeleteAvatar(id, user) ==
  LET err == DeleteError(id, user)
  IN /\ \/ err # NoError /\ UNCHANGED avatars
        \/ err = NoError /\ avatars' = [avatars EXCEPT ![id].deleted = TRUE]
     /\ reply' = [op |-> "delete", code |-> IF err = NoError THEN 204 ELSE StatusOf(err)]
     /\ UNCHANGED <<bucket, sent, cached>>

(* DELETE /users/{user_id}/avatar *)
DeleteByUser(segment, user) ==
  \/ /\ user = URLParam(segment) /\ user # GarbledUser
     /\ DeleteAvatar(Latest(user), user)
  \/ /\ user # URLParam(segment) \/ user = GarbledUser
     /\ reply' = [op |-> "delete", code |-> IF user = BadUser THEN 400
                                            ELSE IF user # URLParam(segment) THEN 403 ELSE 500]
     /\ UNCHANGED <<avatars, bucket, sent, cached>>

URLs == [by : {"id"}, id : 1..MaxUploads, size : SizeParams, format : FormatParams]
        \cup [by : {"user"}, user : AnyUser, raw : BOOLEAN, size : SizeParams, format : FormatParams]

Request ==
  \/ \E route \in {"api", "web"}, form \in Forms :
       UploadAccepted(route, form) \/ UploadRefused(route, form)
  \/ \E url \in URLs : GetImage(url, FALSE) \/ (url = cached.url /\ GetImage(url, TRUE))
  \/ \E id \in 1..MaxUploads : GetMetadata(id)
  \/ \E segment \in Segments : ListByUser(segment)
  \/ \E id \in 1..MaxUploads, user \in AnyUser : DeleteAvatar(id, user)
  \/ \E segment \in Segments, user \in AnyUser : DeleteByUser(segment, user)

(* The answer has been read, and the next request may come. *)
Delivered ==
  /\ reply # Silence
  /\ reply' = Silence
  /\ UNCHANGED <<avatars, bucket, sent, cached>>

Next ==
  \/ reply = Silence /\ (Request \/ \E id \in DOMAIN avatars : ProcessUpload(id))
  \/ Delivered

Spec == Init /\ [][Next]_vars

-----------------------------------------------------------------------------

TypeOK ==
  /\ avatars \in Seq([user : Users, mime : MIMETypes, bytes : 1..MaxBytes,
                      width : 1..MaxPixels, height : 1..MaxPixels, thumbs : SUBSET ThumbnailSizes,
                      status : {"pending", "processing", "completed", "failed"}, deleted : BOOLEAN])
  /\ DOMAIN bucket = DOMAIN avatars
  /\ DOMAIN sent = DOMAIN avatars
  /\ \A id \in DOMAIN bucket : DOMAIN bucket[id] = AllowedSizes

(* What an upload has to be: the form of a valid user with a JPEG, PNG or    *)
(* WebP file of at most MaxBytes and MaxPixels, however the product of its   *)
(* sides is computed, under a name that is UTF-8 once it is cut: Postgres    *)
(* takes no other.                                                           *)
ValidUpload(form) ==
  /\ form.user \in Users
  /\ form.attached
  /\ form.name \notin {"wide", "malformed"}
  /\ form.rest <= MaxBytes + Slack - form.file.bytes
  /\ LET file == form.file
     IN /\ file.magic \in Formats /\ file.header
        /\ file.bytes \in 12..MaxBytes
        /\ file.width > 0 /\ file.height > 0
        /\ file.width * file.height <= MaxPixels

(* Both upload routes, with all their limits in handler, service and image   *)
(* code, accept the valid uploads and no others; they call a file too large  *)
(* only if it, or what comes with it, is.                                    *)
AcceptsExactly ==
  reply.op = "upload" =>
    /\ reply.code \in {201, 303} <=> ValidUpload(reply.form)
    /\ reply.code = 413 => reply.form.file.bytes > MaxBytes \/ reply.form.rest > Slack

(* An accepted file is stored as it was sent: the LimitReader of the         *)
(* handlers never cuts one that is then accepted.                            *)
StoredWhole == \A id \in DOMAIN avatars : bucket[id][SizeOriginal].data = sent[id]

(* Both thumbnails of a file can be made in the memory of the worker. *)
Fits(file) == \A size \in ThumbnailSizes : Resizable(file, ThumbnailSide(size), ThumbnailSide(size))

(* The worker has no objection to what the upload accepted, except that the  *)
(* pixels behind a good header cannot be read; it completes the others, and  *)
(* leaves one in processing only if its thumbnails take more memory than     *)
(* there is.                                                                 *)
WorkerAgrees ==
  \A id \in DOMAIN avatars :
    /\ avatars[id].status = "failed" => ~sent[id].pixels
    /\ avatars[id].status = "completed" => sent[id].pixels /\ Fits(sent[id])
    /\ avatars[id].status = "processing" => sent[id].pixels /\ ~Fits(sent[id])

(* The live avatars that url may mean: for a user, as its text stands in the *)
(* path, those with no newer one.                                            *)
Meant(url) ==
  {id \in DOMAIN avatars :
     /\ Live(id)
     /\ url.by = "id" => id = url.id
     /\ url.by = "user" =>
          /\ avatars[id].user = URLParam(url)
          /\ \A newer \in DOMAIN avatars :
               newer > id => avatars[newer].deleted \/ avatars[newer].user # URLParam(url)}

Asked(url) == IF url.format = "jpg" THEN "jpeg" ELSE url.format

(* An image that is served is a picture of the avatar meant, in the format   *)
(* that was asked for, and its Content-Type is what its bytes are.           *)
RightImage ==
  reply.op = "image" /\ reply.code = 200 =>
    /\ \E id \in Meant(reply.url) : reply.data.picture = sent[id].picture
    /\ reply.type = MIMEOf[reply.data.magic]
    /\ reply.url.format # "" => reply.data.magic = Asked(reply.url)

(* A GET of a live avatar with known parameters is served; the exceptions    *)
(* are a conversion of pixels that cannot be read, and one to a format whose *)
(* encoder does not take so long a side.                                     *)
ServedIfPossible ==
  reply.op = "image" /\ reply.code >= 400 =>
    \/ reply.url.size \notin AllowedSizes \cup {""}
    \/ reply.url.format \notin Formats \cup {"", "jpg"}
    \/ Meant(reply.url) = {}
    \/ \E id \in Meant(reply.url) :
         LET file == sent[id]
         IN /\ Asked(reply.url) \notin {"", file.magic}
            /\ \/ reply.code = 400 /\ ~file.pixels
               \/ reply.code = 500 /\ ~Encodable(file.width, file.height, Asked(reply.url))

(* After 304 the copy that the client holds is what 200 would have carried,  *)
(* also if it was the original, served because there was no thumbnail yet.   *)
NotModifiedTrue ==
  reply.op = "image" /\ reply.code = 304 =>
    cached.data = FetchImage(Target(reply.url), reply.url.size, reply.url.format).data

(* What metadata say of an avatar is true of the file that was sent, before  *)
(* and after the worker has written to the row.                              *)
MetadataTrue ==
  reply.op \in {"metadata", "list"} =>
    \A id \in DOMAIN reply.items :
      LET item == reply.items[id]
      IN /\ item.mime = MIMEOf[sent[id].magic]
         /\ item.bytes = sent[id].bytes
         /\ item.width = sent[id].width /\ item.height = sent[id].height

(* A thumbnail that metadata name is served under its URL: the picture, as a *)
(* square of the side in its name.                                           *)
ThumbnailsAsNamed ==
  \A id \in DOMAIN avatars :
    \A size \in avatars[id].thumbs :
      LET data == FetchImage(id, size, "").data
          side == IF size = "100x100" THEN Side100 ELSE Side300
      IN data.picture = sent[id].picture /\ data.width = side /\ data.height = side
=============================================================================
