------------------------------ MODULE Api_proofs ------------------------------
(* For any users, limits, forms and images: which uploads are accepted, and   *)
(* that what is stored, recorded and said of an avatar is what was sent.      *)
EXTENDS Api, TLAPS

(* FirstError is the error of a check that fails before which none does. *)
LEMMA FirstErrorIs ==
  ASSUME NEW checks, NEW n \in Nat, DOMAIN checks = 1..n
  PROVE  /\ (\A i \in 1..n : ~checks[i][1]) => FirstError(checks) = NoError
         /\ \A i \in 1..n :
              checks[i][1] /\ (\A j \in 1..(i - 1) : ~checks[j][1])
                => FirstError(checks) = checks[i][2]
<1> DEFINE failing == {i \in DOMAIN checks : checks[i][1]}
<1>1. FirstError(checks) =
        IF failing = {} THEN NoError
        ELSE checks[CHOOSE i \in failing : \A j \in failing : i <= j][2]
  BY DEF FirstError
<1>2. (\A i \in 1..n : ~checks[i][1]) => FirstError(checks) = NoError
  BY <1>1
<1>3. ASSUME NEW i \in 1..n, checks[i][1], \A j \in 1..(i - 1) : ~checks[j][1]
      PROVE  FirstError(checks) = checks[i][2]
  <2>1. i \in failing /\ \A j \in failing : i <= j
    BY <1>3
  <2>2. \A k \in failing : (\A j \in failing : k <= j) => k = i
    BY <2>1
  <2>3. (CHOOSE k \in failing : \A j \in failing : k <= j) = i
    BY <2>1, <2>2
  <2>4. failing # {}
    BY <2>1
  <2> HIDE DEF failing
  <2> QED BY <1>1, <2>3, <2>4
<1> QED BY <1>2, <1>3

(* Two, three, four and five checks. *)
LEMMA TwoChecks ==
  ASSUME NEW a, NEW x, NEW b, NEW y
  PROVE  FirstError(<< <<a, x>>, <<b, y>> >>) = IF a THEN x ELSE IF b THEN y ELSE NoError
<1> DEFINE checks == << <<a, x>>, <<b, y>> >>
<1>1. /\ DOMAIN checks = 1..2
      /\ checks[1][1] = a /\ checks[1][2] = x
      /\ checks[2][1] = b /\ checks[2][2] = y
  OBVIOUS
<1> HIDE DEF checks
<1>2. /\ (\A i \in 1..2 : ~checks[i][1]) => FirstError(checks) = NoError
      /\ \A i \in 1..2 :
           checks[i][1] /\ (\A j \in 1..(i - 1) : ~checks[j][1])
             => FirstError(checks) = checks[i][2]
  BY <1>1, FirstErrorIs
<1>3. FirstError(checks) = IF a THEN x ELSE IF b THEN y ELSE NoError
  BY <1>1, <1>2
<1> QED BY <1>3 DEF checks

LEMMA ThreeChecks ==
  ASSUME NEW a, NEW x, NEW b, NEW y, NEW c, NEW z
  PROVE  FirstError(<< <<a, x>>, <<b, y>>, <<c, z>> >>)
           = IF a THEN x ELSE IF b THEN y ELSE IF c THEN z ELSE NoError
<1> DEFINE checks == << <<a, x>>, <<b, y>>, <<c, z>> >>
<1>1. /\ DOMAIN checks = 1..3
      /\ checks[1][1] = a /\ checks[1][2] = x
      /\ checks[2][1] = b /\ checks[2][2] = y
      /\ checks[3][1] = c /\ checks[3][2] = z
  OBVIOUS
<1> HIDE DEF checks
<1>2. /\ (\A i \in 1..3 : ~checks[i][1]) => FirstError(checks) = NoError
      /\ \A i \in 1..3 :
           checks[i][1] /\ (\A j \in 1..(i - 1) : ~checks[j][1])
             => FirstError(checks) = checks[i][2]
  BY <1>1, FirstErrorIs
<1>3. FirstError(checks)
        = IF a THEN x ELSE IF b THEN y ELSE IF c THEN z ELSE NoError
  BY <1>1, <1>2
<1> QED BY <1>3 DEF checks

LEMMA FourChecks ==
  ASSUME NEW a, NEW x, NEW b, NEW y, NEW c, NEW z, NEW d, NEW u
  PROVE  FirstError(<< <<a, x>>, <<b, y>>, <<c, z>>, <<d, u>> >>)
           = IF a THEN x ELSE IF b THEN y ELSE IF c THEN z ELSE IF d THEN u ELSE NoError
<1> DEFINE checks == << <<a, x>>, <<b, y>>, <<c, z>>, <<d, u>> >>
<1>1. /\ DOMAIN checks = 1..4
      /\ checks[1][1] = a /\ checks[1][2] = x
      /\ checks[2][1] = b /\ checks[2][2] = y
      /\ checks[3][1] = c /\ checks[3][2] = z
      /\ checks[4][1] = d /\ checks[4][2] = u
  OBVIOUS
<1> HIDE DEF checks
<1>2. /\ (\A i \in 1..4 : ~checks[i][1]) => FirstError(checks) = NoError
      /\ \A i \in 1..4 :
           checks[i][1] /\ (\A j \in 1..(i - 1) : ~checks[j][1])
             => FirstError(checks) = checks[i][2]
  BY <1>1, FirstErrorIs
<1>3. FirstError(checks)
        = IF a THEN x ELSE IF b THEN y ELSE IF c THEN z ELSE IF d THEN u ELSE NoError
  BY <1>1, <1>2
<1> QED BY <1>3 DEF checks

LEMMA FiveChecks ==
  ASSUME NEW a, NEW x, NEW b, NEW y, NEW c, NEW z, NEW d, NEW u, NEW e, NEW v
  PROVE  FirstError(<< <<a, x>>, <<b, y>>, <<c, z>>, <<d, u>>, <<e, v>> >>)
           = IF a THEN x ELSE IF b THEN y ELSE IF c THEN z ELSE IF d THEN u ELSE IF e THEN v ELSE NoError
<1> DEFINE checks == << <<a, x>>, <<b, y>>, <<c, z>>, <<d, u>>, <<e, v>> >>
<1>1. /\ DOMAIN checks = 1..5
      /\ checks[1][1] = a /\ checks[1][2] = x
      /\ checks[2][1] = b /\ checks[2][2] = y
      /\ checks[3][1] = c /\ checks[3][2] = z
      /\ checks[4][1] = d /\ checks[4][2] = u
      /\ checks[5][1] = e /\ checks[5][2] = v
  OBVIOUS
<1> HIDE DEF checks
<1>2. /\ (\A i \in 1..5 : ~checks[i][1]) => FirstError(checks) = NoError
      /\ \A i \in 1..5 :
           checks[i][1] /\ (\A j \in 1..(i - 1) : ~checks[j][1])
             => FirstError(checks) = checks[i][2]
  BY <1>1, FirstErrorIs
<1>3. FirstError(checks)
        = IF a THEN x ELSE IF b THEN y ELSE IF c THEN z ELSE IF d THEN u ELSE IF e THEN v ELSE NoError
  BY <1>1, <1>2
<1> QED BY <1>3 DEF checks

(* A product of two sides that are in range is in the range of int. *)
LEMMA ProductFits ==
  ASSUME NEW w \in 1..MaxPixels, NEW h \in 1..MaxPixels
  PROVE  w * h \in Nat /\ w * h <= IntMax /\ Wrap(w * h) = w * h
<1>1. w * h \in Nat /\ w * h <= MaxPixels * MaxPixels
  BY MaxPixelsAssumption
<1>2. w * h <= IntMax
  BY <1>1, MaxPixelsAssumption, IntMaxAssumption
<1>3. ASSUME NEW m \in Nat, m > 0, NEW x \in 0..(m - 1)
      PROVE  x % m = x
  BY <1>3
<1> DEFINE n == w * h
<1>4. n \in Nat /\ n <= IntMax /\ IntMax \in Nat
  BY <1>1, <1>2, IntMaxAssumption
<1> HIDE DEF n
<1> DEFINE x == n + IntMax + 1
           m == 2 * (IntMax + 1)
<1>5. m \in Nat /\ m > 0 /\ x \in 0..(m - 1)
  BY <1>4
<1>6. x % m = x
  BY <1>3, <1>5
<1>7. Wrap(n) = x - (IntMax + 1)
  BY <1>6 DEF Wrap
<1>8. Wrap(n) = n
  BY <1>4, <1>7
<1> QED BY <1>1, <1>2, <1>8 DEF n

(* checkPixels accepts two positive sides whose product is at most MaxPixels *)
(* and nothing else: the product it computes never overflows, since both     *)
(* sides are compared with MaxPixels first.                                  *)
THEOREM PixelsChecked ==
  \A w, h \in Int : checkPixels(w, h) = NoError <=> w > 0 /\ h > 0 /\ w * h <= MaxPixels
<1> SUFFICES ASSUME NEW w \in Int, NEW h \in Int
             PROVE  checkPixels(w, h) = NoError <=> w > 0 /\ h > 0 /\ w * h <= MaxPixels
  OBVIOUS
<1> DEFINE empty == w <= 0 \/ h <= 0
           large == w > MaxPixels \/ h > MaxPixels \/ Wrap(w * h) > MaxPixels
<1>1. checkPixels(w, h) = IF empty THEN "ErrInvalidImage"
                          ELSE IF large THEN "ErrImageTooLarge" ELSE NoError
  <2>1. checkPixels(w, h) = FirstError(<< <<empty, "ErrInvalidImage">>, <<large, "ErrImageTooLarge">> >>)
    BY DEF checkPixels
  <2> HIDE DEF empty, large
  <2> QED BY <2>1, TwoChecks
<1>2. checkPixels(w, h) = NoError <=> w > 0 /\ h > 0 /\ ~large
  <2>1. checkPixels(w, h) = NoError <=> ~empty /\ ~large
    BY <1>1 DEF NoError
  <2> QED BY <2>1
<1>3. ASSUME w > 0, h > 0
      PROVE  ~large <=> w * h <= MaxPixels
  <2>1. CASE w <= MaxPixels /\ h <= MaxPixels
    <3>1. w \in 1..MaxPixels /\ h \in 1..MaxPixels
      BY <1>3, <2>1, MaxPixelsAssumption
    <3>2. Wrap(w * h) = w * h /\ w * h \in Nat
      BY <3>1, ProductFits
    <3> QED BY <2>1, <3>2, MaxPixelsAssumption
  <2>2. CASE w > MaxPixels \/ h > MaxPixels
    <3>1. w * h >= w /\ w * h >= h
      BY <1>3
    <3>2. w * h > MaxPixels
      BY <2>2, <3>1, MaxPixelsAssumption
    <3> QED BY <2>2, <3>2, MaxPixelsAssumption
  <2> QED BY <2>1, <2>2, MaxPixelsAssumption
<1> QED BY <1>2, <1>3

-----------------------------------------------------------------------------
(* What is accepted.                                                         *)

LEMMA LimitsTyped == MaxBytes \in Nat /\ MaxBytes > 0 /\ Slack \in Nat /\ Slack > 0
  BY LimitsAssumption DEF MaxBytes

(* The errors of checkPixels. *)
LEMMA PixelErrors ==
  ASSUME NEW w, NEW h
  PROVE  checkPixels(w, h) \in {NoError, "ErrInvalidImage", "ErrImageTooLarge"}
<1> DEFINE empty == w <= 0 \/ h <= 0
           large == w > MaxPixels \/ h > MaxPixels \/ Wrap(w * h) > MaxPixels
<1>1. checkPixels(w, h) = FirstError(<< <<empty, "ErrInvalidImage">>, <<large, "ErrImageTooLarge">> >>)
  BY DEF checkPixels
<1> HIDE DEF empty, large
<1> QED BY <1>1, TwoChecks

LEMMA MIMETable ==
  /\ MIMEOf["jpeg"] = MIMEJPEG /\ MIMEOf["png"] = MIMEPNG /\ MIMEOf["webp"] = MIMEWebP
  /\ \A format \in Formats : MIMEOf[format] \in MIMETypes /\ MIMEOf[format] # ""
<1>1. MIMEOf["jpeg"] = MIMEJPEG /\ MIMEOf["png"] = MIMEPNG /\ MIMEOf["webp"] = MIMEWebP
  BY DEF MIMEOf
<1> QED BY <1>1 DEF Formats, MIMETypes, MIMEJPEG, MIMEPNG, MIMEWebP

(* A file that Inspect, and so upload and worker, accept. *)
GoodFile(data) ==
  /\ data.bytes >= 12 /\ data.magic \in Formats /\ data.header
  /\ data.width > 0 /\ data.height > 0 /\ data.width * data.height <= MaxPixels

LEMMA InspectExact ==
  ASSUME NEW data \in Data
  PROVE  /\ Inspect(data) = NoError <=> GoodFile(data)
         /\ Inspect(data) \in {NoError, "ErrInvalidFileFormat", "ErrInvalidImage", "ErrImageTooLarge"}
<1> DEFINE unknown == DetectMIME(data) = ""
           headless == ~data.header
           pixels == checkPixels(data.width, data.height)
           large == pixels # NoError
<1>1. Inspect(data) = FirstError(<< <<unknown, "ErrInvalidFileFormat">>,
                                    <<headless, "ErrInvalidImage">>, <<large, pixels>> >>)
  BY DEF Inspect
<1>2. unknown <=> ~(data.bytes >= 12 /\ data.magic \in Formats)
  BY MIMETable DEF DetectMIME
<1>3. large <=> ~(data.width > 0 /\ data.height > 0 /\ data.width * data.height <= MaxPixels)
  BY PixelsChecked DEF Data
<1>4. pixels \in {NoError, "ErrInvalidImage", "ErrImageTooLarge"} /\ (large <=> pixels # NoError)
  BY PixelErrors
<1>5. headless <=> ~data.header
  OBVIOUS
<1> HIDE DEF unknown, headless, large, pixels
<1>6. Inspect(data) = IF unknown THEN "ErrInvalidFileFormat"
                      ELSE IF headless THEN "ErrInvalidImage" ELSE IF large THEN pixels ELSE NoError
  BY <1>1, ThreeChecks
<1>7. Inspect(data) = NoError <=> ~unknown /\ ~headless /\ ~large
  BY <1>4, <1>6 DEF NoError
<1> QED BY <1>2, <1>3, <1>4, <1>5, <1>6, <1>7 DEF GoodFile

(* ReadFile leaves a permitted file as it is and shows that another is too   *)
(* long.                                                                     *)
LEMMA ReadFileIs ==
  ASSUME NEW file \in Data
  PROVE  /\ ReadFile(file) \in Data
         /\ file.bytes <= MaxBytes => ReadFile(file) = file
         /\ ReadFile(file).bytes > MaxBytes <=> file.bytes > MaxBytes
<1>1. MaxBytes \in Nat /\ file.bytes \in Nat
  BY LimitsTyped DEF Data
<1>2. CASE file.bytes <= MaxBytes + 1
  BY <1>1, <1>2 DEF ReadFile, Prefix
<1>3. CASE ~(file.bytes <= MaxBytes + 1)
  <2>1. ReadFile(file) = [file EXCEPT !.bytes = MaxBytes + 1, !.pixels = FALSE]
    BY <1>3 DEF ReadFile, Prefix
  <2>2. MaxBytes + 1 \in Nat
    BY <1>1
  <2>3. ReadFile(file) \in Data /\ ReadFile(file).bytes = MaxBytes + 1
    BY <2>1, <2>2 DEF Data
  <2> QED BY <1>1, <1>3, <2>3
<1> QED BY <1>2, <1>3

(* The handler accepts a form of a valid user whose body and file are within *)
(* their limits, on either route.                                            *)
LEMMA HandlerExact ==
  ASSUME NEW form \in Form, NEW route
  PROVE  LET err == FirstError(IF route = "api" THEN ApiChecks(form) ELSE WebChecks(form))
         IN /\ err = NoError <=>
                 ~BodyTooLong(form) /\ form.user # BadUser /\ form.attached
                   /\ form.file.bytes <= MaxBytes
            /\ err = "ErrFileTooLarge" => BodyTooLong(form) \/ form.file.bytes > MaxBytes
            /\ err \in {NoError, "InvalidForm", "ErrInvalidUserID", "ErrFileRequired", "ErrFileTooLarge"}
<1> DEFINE long == BodyTooLong(form)
           bad == form.user = BadUser
           missing == ~form.attached
           large == ReadFile(form.file).bytes > MaxBytes
<1>0. form.file \in Data /\ form.file.bytes \in Nat /\ MaxBytes \in Nat
  <2>1. form.file \in Data
    BY DEF Form
  <2>2. form.file.bytes \in Nat
    BY <2>1 DEF Data
  <2> QED BY <2>1, <2>2, LimitsTyped
<1>a. large <=> ~(form.file.bytes <= MaxBytes)
  <2>1. large <=> form.file.bytes > MaxBytes
    BY <1>0, ReadFileIs
  <2> QED BY <1>0, <2>1
<1>b. (bad <=> form.user = BadUser) /\ (missing <=> ~form.attached) /\ (long <=> BodyTooLong(form))
  OBVIOUS
<1>c. form.file.bytes > MaxBytes <=> ~(form.file.bytes <= MaxBytes)
  BY <1>0
<1>1. ApiChecks(form) = << <<bad, "ErrInvalidUserID">>, <<long, "ErrFileTooLarge">>,
                           <<missing, "ErrFileRequired">>, <<large, "ErrFileTooLarge">> >>
  BY DEF ApiChecks
<1>2. WebChecks(form) = << <<long, "InvalidForm">>, <<bad, "ErrInvalidUserID">>,
                           <<missing, "ErrFileRequired">>, <<large, "ErrFileTooLarge">> >>
  BY DEF WebChecks
<1> HIDE DEF long, bad, missing, large
<1>3. FirstError(ApiChecks(form))
        = IF bad THEN "ErrInvalidUserID" ELSE IF long THEN "ErrFileTooLarge"
          ELSE IF missing THEN "ErrFileRequired" ELSE IF large THEN "ErrFileTooLarge" ELSE NoError
  BY <1>1, FourChecks
<1>4. FirstError(WebChecks(form))
        = IF long THEN "InvalidForm" ELSE IF bad THEN "ErrInvalidUserID"
          ELSE IF missing THEN "ErrFileRequired" ELSE IF large THEN "ErrFileTooLarge" ELSE NoError
  BY <1>2, FourChecks
<1>5. CASE route = "api"
  BY <1>a, <1>b, <1>c, <1>3, <1>5 DEF NoError
<1>6. CASE route # "api"
  BY <1>a, <1>b, <1>c, <1>4, <1>6 DEF NoError
<1> QED BY <1>5, <1>6

(* And the service a good file of a user and with a name that can be stored. *)
LEMMA ServiceExact ==
  ASSUME NEW form \in Form, form.user # BadUser, form.file.bytes <= MaxBytes
  PROVE  /\ FirstError(ServiceChecks(form)) = NoError <=>
              GoodFile(form.file) /\ form.user # GarbledUser /\ form.name \notin {"wide", "malformed"}
         /\ FirstError(ServiceChecks(form)) \notin {"ErrFileTooLarge", "InvalidForm"}
<1> DEFINE data == ReadFile(form.file)
           bad == form.user = BadUser
           none == data.bytes = 0
           large == data.bytes > MaxBytes
           result == Inspect(data)
           refused == result # NoError
           malformed == form.user = GarbledUser \/ sanitizeFileName(form.name) = "malformed"
<1>1. ServiceChecks(form) = << <<bad, "ErrInvalidUserID">>, <<none, "ErrFileRequired">>,
                               <<large, "ErrFileTooLarge">>, <<refused, result>>,
                               <<malformed, "encoding">> >>
  BY DEF ServiceChecks
<1>a. data = form.file /\ data \in Data
  BY ReadFileIs DEF Form
<1>b. data.bytes \in Nat /\ MaxBytes \in Nat
  BY <1>a, LimitsTyped DEF Data
<1> HIDE DEF data
<1>2. ~bad /\ ~large
  BY <1>a, <1>b
<1>3. none => ~GoodFile(data)
  BY <1>b DEF GoodFile
<1>4. /\ refused <=> ~GoodFile(data)
      /\ refused <=> result # NoError
      /\ result \in {NoError, "ErrInvalidFileFormat", "ErrInvalidImage", "ErrImageTooLarge"}
  BY <1>a, InspectExact
<1>5. malformed <=> form.user = GarbledUser \/ form.name \in {"wide", "malformed"}
  BY DEF sanitizeFileName, Form
<1> HIDE DEF bad, none, large, result, refused, malformed
<1>6. FirstError(ServiceChecks(form))
        = IF bad THEN "ErrInvalidUserID" ELSE IF none THEN "ErrFileRequired"
          ELSE IF large THEN "ErrFileTooLarge" ELSE IF refused THEN result
          ELSE IF malformed THEN "encoding" ELSE NoError
  BY <1>1, FiveChecks
<1>7. FirstError(ServiceChecks(form)) = NoError <=> ~none /\ ~refused /\ ~malformed
  BY <1>2, <1>4, <1>6 DEF NoError
<1>8. FirstError(ServiceChecks(form)) \notin {"ErrFileTooLarge", "InvalidForm"}
  BY <1>2, <1>4, <1>6 DEF NoError
<1> QED BY <1>a, <1>3, <1>4, <1>5, <1>7, <1>8

(* The two together accept the valid uploads. *)
LEMMA UploadExact ==
  ASSUME NEW form \in Form, NEW route
  PROVE  /\ UploadError(route, form) = NoError <=> ValidUpload(form)
         /\ UploadError(route, form) = NoError => GoodFile(form.file) /\ form.file.bytes <= MaxBytes
         /\ UploadError(route, form) = "ErrFileTooLarge" =>
              form.file.bytes > MaxBytes \/ form.rest > Slack
<1> DEFINE handler == FirstError(IF route = "api" THEN ApiChecks(form) ELSE WebChecks(form))
           service == FirstError(ServiceChecks(form))
           file == form.file
<1>1. UploadError(route, form) = IF handler # NoError THEN handler ELSE service
  BY DEF UploadError
<1>2. /\ handler = NoError <=>
           ~BodyTooLong(form) /\ form.user # BadUser /\ form.attached /\ file.bytes <= MaxBytes
      /\ handler = "ErrFileTooLarge" => BodyTooLong(form) \/ file.bytes > MaxBytes
  BY HandlerExact
<1>3. handler = NoError =>
        /\ service = NoError <=>
             GoodFile(file) /\ form.user # GarbledUser /\ form.name \notin {"wide", "malformed"}
        /\ service # "ErrFileTooLarge"
  BY <1>2, ServiceExact
<1>a. /\ file.bytes \in Nat /\ form.rest \in Nat /\ MaxBytes \in Nat /\ Slack \in Nat
      /\ form.user \in AnyUser
      /\ file.width \in Int /\ file.height \in Int
  BY LimitsTyped DEF Form, Data
<1>b. form.user # BadUser /\ form.user # GarbledUser <=> form.user \in Users
  BY <1>a, UsersAssumption DEF AnyUser
<1>c. BodyTooLong(form) <=> ~(form.rest <= MaxBytes + Slack - file.bytes)
  BY <1>a DEF BodyTooLong
<1>d. file.bytes \in 12..MaxBytes <=> file.bytes >= 12 /\ file.bytes <= MaxBytes
  BY <1>a
<1> HIDE DEF handler, service
<1>4. UploadError(route, form) = NoError <=>
        /\ ~BodyTooLong(form) /\ form.user # BadUser /\ form.attached /\ file.bytes <= MaxBytes
        /\ GoodFile(file) /\ form.user # GarbledUser /\ form.name \notin {"wide", "malformed"}
  BY <1>1, <1>2, <1>3
<1>5. UploadError(route, form) = NoError <=> ValidUpload(form)
  BY <1>4, <1>b, <1>c, <1>d DEF ValidUpload, GoodFile
<1>6. UploadError(route, form) = "ErrFileTooLarge" => BodyTooLong(form) \/ file.bytes > MaxBytes
  BY <1>1, <1>2, <1>3
<1>7. BodyTooLong(form) => file.bytes > MaxBytes \/ form.rest > Slack
  BY <1>a DEF BodyTooLong
<1> QED BY <1>4, <1>5, <1>6, <1>7

-----------------------------------------------------------------------------
(* The inductive invariant.                                                  *)

Object == [type : MIMETypes \cup {""}, data : Data \cup {<< >>}]

Row == [user : Users, mime : MIMETypes, bytes : 1..MaxBytes,
        width : 1..MaxPixels, height : 1..MaxPixels, thumbs : SUBSET ThumbnailSizes,
        status : {"pending", "processing", "completed", "failed"}, deleted : BOOLEAN]

(* The row says of the file that was sent what is true of it, the bucket has *)
(* the file, and how the worker ends depends on its pixels and its shape.    *)
Describes(row, file) ==
  /\ row.mime = MIMEOf[file.magic] /\ row.bytes = file.bytes
  /\ row.width = file.width /\ row.height = file.height
  /\ row.status = "failed" => ~file.pixels
  /\ row.status = "completed" => file.pixels /\ Fits(file)
  /\ row.status = "processing" => file.pixels /\ ~Fits(file)

StoreInv ==
  /\ avatars \in Seq(Row) /\ sent \in Seq(Data) /\ bucket \in Seq([AllowedSizes -> Object])
  /\ Len(sent) = Len(avatars) /\ Len(bucket) = Len(avatars)
  /\ \A id \in 1..Len(avatars) :
       /\ GoodFile(sent[id]) /\ sent[id].bytes <= MaxBytes
       /\ Describes(avatars[id], sent[id])
       /\ bucket[id][SizeOriginal].data = sent[id]

ApiInv == StoreInv /\ AcceptsExactly /\ MetadataTrue

(* The sides of a good file. *)
LEMMA GoodSides ==
  ASSUME NEW file \in Data, GoodFile(file)
  PROVE  file.width \in 1..MaxPixels /\ file.height \in 1..MaxPixels
<1>1. file.width \in Int /\ file.height \in Int /\ MaxPixels \in Nat
  BY MaxPixelsAssumption DEF Data
<1>2. file.width > 0 /\ file.height > 0 /\ file.width * file.height <= MaxPixels
  BY DEF GoodFile
<1>3. file.width * file.height >= file.width /\ file.width * file.height >= file.height
  BY <1>1, <1>2
<1> QED BY <1>1, <1>2, <1>3

(* An upload that is accepted. *)
LEMMA AcceptedSafe ==
  ASSUME StoreInv, NEW route, NEW form \in Form, UploadAccepted(route, form)
  PROVE  StoreInv'
<1> DEFINE data == ReadFile(form.file)
           mime == DetectMIME(data)
           row == [user |-> form.user, mime |-> mime, bytes |-> data.bytes,
                   width |-> data.width, height |-> data.height,
                   thumbs |-> {}, status |-> "pending", deleted |-> FALSE]
           objs == [size \in AllowedSizes |->
                      IF size = SizeOriginal THEN [type |-> mime, data |-> data] ELSE NoObject]
<1>1. /\ avatars' = Append(avatars, row)
      /\ bucket' = Append(bucket, objs)
      /\ sent' = Append(sent, form.file)
  BY DEF UploadAccepted
<1>2. UploadError(route, form) = NoError
  BY DEF UploadAccepted
<1>3. /\ GoodFile(form.file) /\ form.file.bytes <= MaxBytes /\ ValidUpload(form)
      /\ form.file \in Data
  BY <1>2, UploadExact DEF Form
<1>4. data = form.file
  BY <1>3, ReadFileIs
<1>5. mime = MIMEOf[data.magic] /\ mime \in MIMETypes
  BY <1>3, <1>4, MIMETable DEF DetectMIME, GoodFile
<1>6. /\ data.width \in 1..MaxPixels /\ data.height \in 1..MaxPixels
      /\ data.bytes \in 1..MaxBytes
      /\ form.user \in Users
  <2>1. data.bytes \in Nat /\ MaxBytes \in Nat /\ data.bytes >= 12
    BY <1>3, <1>4, LimitsTyped DEF Data, GoodFile
  <2>2. form.user \in Users
    BY <1>3 DEF ValidUpload
  <2> QED BY <1>3, <1>4, <2>1, <2>2, GoodSides
<1> HIDE DEF data, mime
<1>7. row \in Row /\ Describes(row, form.file)
  BY <1>4, <1>5, <1>6 DEF Row, Describes
<1>8. objs \in [AllowedSizes -> Object] /\ objs[SizeOriginal].data = form.file
  <2>1. NoObject \in Object
    BY DEF NoObject, Object
  <2>2. [type |-> mime, data |-> data] \in Object
    BY <1>3, <1>4, <1>5 DEF Object
  <2> QED BY <1>4, <2>1, <2>2 DEF AllowedSizes
<1> HIDE DEF row, objs
<1>9. /\ avatars' \in Seq(Row) /\ Len(avatars') = Len(avatars) + 1
      /\ avatars'[Len(avatars) + 1] = row
      /\ \A id \in 1..Len(avatars) : avatars'[id] = avatars[id]
  BY <1>1, <1>7 DEF StoreInv
<1>10. /\ sent' \in Seq(Data) /\ Len(sent') = Len(sent) + 1
       /\ sent'[Len(sent) + 1] = form.file
       /\ \A id \in 1..Len(sent) : sent'[id] = sent[id]
  BY <1>1, <1>3 DEF StoreInv
<1>11. /\ bucket' \in Seq([AllowedSizes -> Object]) /\ Len(bucket') = Len(bucket) + 1
       /\ bucket'[Len(bucket) + 1] = objs
       /\ \A id \in 1..Len(bucket) : bucket'[id] = bucket[id]
  BY <1>1, <1>8 DEF StoreInv
<1>12. ASSUME NEW id \in 1..Len(avatars')
       PROVE  /\ GoodFile(sent'[id]) /\ sent'[id].bytes <= MaxBytes
              /\ Describes(avatars'[id], sent'[id])
              /\ bucket'[id][SizeOriginal].data = sent'[id]
  <2>1. Len(avatars) \in Nat /\ Len(sent) = Len(avatars) /\ Len(bucket) = Len(avatars)
    BY DEF StoreInv
  <2>2. CASE id \in 1..Len(avatars)
    <3>1. avatars'[id] = avatars[id] /\ sent'[id] = sent[id] /\ bucket'[id] = bucket[id]
      BY <1>9, <1>10, <1>11, <2>1, <2>2
    <3> QED BY <2>2, <3>1 DEF StoreInv
  <2>3. CASE id = Len(avatars) + 1
    <3>1. avatars'[id] = row /\ sent'[id] = form.file /\ bucket'[id] = objs
      BY <1>9, <1>10, <1>11, <2>1, <2>3
    <3> QED BY <1>3, <1>7, <1>8, <3>1
  <2> QED BY <1>9, <2>1, <2>2, <2>3
<1> QED BY <1>9, <1>10, <1>11, <1>12 DEF StoreInv

(* Decode fails on a good file only for its pixels. *)
LEMMA DecodeExact ==
  ASSUME NEW data \in Data, GoodFile(data)
  PROVE  Decode(data) = IF data.pixels THEN NoError ELSE "ErrInvalidImage"
<1> DEFINE headless == ~data.header
           pixels == checkPixels(data.width, data.height)
           large == pixels # NoError
           damaged == ~data.pixels
<1>1. Decode(data) = FirstError(<< <<headless, "ErrInvalidImage">>, <<large, pixels>>,
                                   <<damaged, "ErrInvalidImage">> >>)
  BY DEF Decode
<1>2. ~headless /\ (damaged <=> ~data.pixels)
  BY DEF GoodFile
<1>3. ~large
  BY PixelsChecked DEF GoodFile, Data
<1> HIDE DEF headless, pixels, large, damaged
<1>4. Decode(data) = IF headless THEN "ErrInvalidImage" ELSE IF large THEN pixels
                     ELSE IF damaged THEN "ErrInvalidImage" ELSE NoError
  BY <1>1, ThreeChecks
<1> QED BY <1>2, <1>3, <1>4 DEF NoError

(* The format of a good file. *)
LEMMA FormatKnown ==
  ASSUME NEW data, GoodFile(data)
  PROVE  FormatFromMIME(DetectMIME(data)) \in Formats
<1>1. DetectMIME(data) = MIMEOf[data.magic] /\ data.magic \in Formats
  BY DEF DetectMIME, GoodFile
<1>2. DetectMIME(data) \in MIMETypes
  BY <1>1, MIMETable
<1> QED BY <1>1, <1>2 DEF FormatFromMIME

(* A thumbnail of a good file is made if its pixels can be read and there is *)
(* the memory; without the memory the worker is killed.                      *)
LEMMA ThumbnailMade ==
  ASSUME NEW data \in Data, GoodFile(data), NEW size \in ThumbnailSizes
  PROVE  LET fits == Resizable(data, ThumbnailSide(size), ThumbnailSide(size))
             thumb == Thumbnail(data, size)
         IN /\ thumb.err = NoError <=> data.pixels /\ fits
            /\ thumb.err = "killed" <=> data.pixels /\ ~fits
            /\ data.pixels /\ fits => thumb.mime \in MIMETypes /\ thumb.data \in Data
<1> DEFINE side == ThumbnailSide(size)
           format == FormatFromMIME(DetectMIME(data))
           fits == Resizable(data, side, side)
           thumb == Thumbnail(data, size)
<1>1. side \in Nat /\ side <= WebPSide /\ side <= JPEGSide
  BY SidesAssumption DEF ThumbnailSide
<1>2. format \in Formats /\ format \notin {"", "jpg"}
  BY FormatKnown DEF Formats
<1>a. thumb = MakeThumbnail(data, side, side, format)
  BY DEF Thumbnail
<1> HIDE DEF side, format, thumb
<1>3. CASE data.pixels /\ fits
  <2> DEFINE pic == [bytes |-> 12, magic |-> format, header |-> TRUE, pixels |-> TRUE,
                     width |-> side, height |-> side, picture |-> data.picture]
  <2>1. Encodable(side, side, format)
    BY <1>1, <1>2 DEF Encodable, Formats
  <2>2. Encode(data.picture, side, side, format) = [err |-> NoError, mime |-> MIMEOf[format], data |-> pic]
    BY <1>2, <2>1 DEF Encode
  <2>3. thumb = Encode(data.picture, side, side, format)
    BY <1>3, <1>a, DecodeExact DEF MakeThumbnail
  <2>4. pic \in Data
    <3>1. data.picture \in Pictures
      BY DEF Data
    <3>2. side \in Int
      BY <1>1
    <3>3. format \in Formats \cup {""}
      BY <1>2, Zenon
    <3>4. ASSUME NEW magic \in Formats \cup {""}, NEW w \in Int, NEW picture \in Pictures
          PROVE  [bytes |-> 12, magic |-> magic, header |-> TRUE, pixels |-> TRUE,
                  width |-> w, height |-> w, picture |-> picture] \in Data
      BY DEF Data
    <3> QED BY <3>1, <3>2, <3>3, <3>4
  <2> HIDE DEF pic, fits
  <2>5. thumb.err = NoError /\ thumb.mime = MIMEOf[format] /\ thumb.data = pic
    BY <2>2, <2>3
  <2>6. thumb.mime \in MIMETypes
    BY <1>2, <2>5, MIMETable
  <2>7. thumb.err # "killed"
    BY <2>5 DEF NoError
  <2> QED BY <1>3, <2>4, <2>5, <2>6, <2>7 DEF thumb, side, fits
<1>4. CASE data.pixels /\ ~fits
  <2>1. thumb = Failed("killed")
    BY <1>4, <1>a, DecodeExact DEF MakeThumbnail
  <2>2. thumb.err = "killed" /\ thumb.err # NoError
    BY <2>1 DEF Failed, NoError
  <2> QED BY <1>4, <2>2 DEF thumb, side
<1>5. CASE ~data.pixels
  <2>1. Decode(data) = "ErrInvalidImage" /\ Decode(data) # NoError
    BY <1>5, DecodeExact DEF NoError
  <2>2. thumb.err = "ErrInvalidImage"
    BY <1>a, <2>1 DEF MakeThumbnail, Failed
  <2>3. thumb.err \notin {NoError, "killed"}
    BY <2>2 DEF NoError
  <2> QED BY <1>5, <2>3 DEF thumb, side
<1> QED BY <1>3, <1>4, <1>5

(* How processUpload ends on a good file. *)
LEMMA ProcessingExact ==
  ASSUME NEW data \in Data, GoodFile(data)
  PROVE  /\ ProcessingError(data) = NoError <=> data.pixels /\ Fits(data)
         /\ ProcessingError(data) = "killed" <=> data.pixels /\ ~Fits(data)
         /\ \A size \in Made(data) : [type |-> Thumbnail(data, size).mime,
                                      data |-> Thumbnail(data, size).data] \in Object
<1> DEFINE result == Inspect(data)
           small == Thumbnail(data, Size100).err
           large == Thumbnail(data, Size300).err
           refused == result # NoError
           noSmall == small # NoError
           noLarge == large # NoError
           smallFits == Resizable(data, ThumbnailSide(Size100), ThumbnailSide(Size100))
           largeFits == Resizable(data, ThumbnailSide(Size300), ThumbnailSide(Size300))
<1>1. ProcessingError(data) =
        FirstError(<< <<refused, result>>, <<noSmall, small>>, <<noLarge, large>> >>)
  BY DEF ProcessingError
<1>2. ~refused
  BY InspectExact
<1>3. /\ small = NoError <=> data.pixels /\ smallFits
      /\ small = "killed" <=> data.pixels /\ ~smallFits
      /\ large = NoError <=> data.pixels /\ largeFits
      /\ large = "killed" <=> data.pixels /\ ~largeFits
      /\ noSmall <=> small # NoError
      /\ noLarge <=> large # NoError
  <2>1. Size100 \in ThumbnailSizes /\ Size300 \in ThumbnailSizes
    BY DEF ThumbnailSizes
  <2> QED BY <2>1, ThumbnailMade
<1>4. Fits(data) <=> smallFits /\ largeFits
  BY DEF Fits, ThumbnailSizes
<1>5. ASSUME NEW size \in Made(data)
      PROVE  [type |-> Thumbnail(data, size).mime, data |-> Thumbnail(data, size).data] \in Object
  <2>1. size \in ThumbnailSizes /\ Thumbnail(data, size).err = NoError
    BY DEF Made
  <2>2. Thumbnail(data, size).mime \in MIMETypes /\ Thumbnail(data, size).data \in Data
    BY <2>1, ThumbnailMade
  <2> QED BY <2>2 DEF Object
<1> HIDE DEF result, small, large, refused, noSmall, noLarge, smallFits, largeFits
<1>6. ProcessingError(data) = IF refused THEN result ELSE IF noSmall THEN small
                              ELSE IF noLarge THEN large ELSE NoError
  BY <1>1, ThreeChecks
<1>7. ProcessingError(data) = NoError <=> data.pixels /\ Fits(data)
  BY <1>2, <1>3, <1>4, <1>6
<1>8. ProcessingError(data) = "killed" <=> data.pixels /\ ~Fits(data)
  BY <1>2, <1>3, <1>4, <1>6 DEF NoError
<1> QED BY <1>5, <1>7, <1>8

(* processUpload writes the row that describes the file again. *)
LEMMA ProcessedSafe ==
  ASSUME StoreInv, NEW id \in DOMAIN avatars, ProcessUpload(id)
  PROVE  StoreInv'
<1> DEFINE data == bucket[id][SizeOriginal].data
           err == ProcessingError(data)
           objs == ObjectsAfter(id)
<1>a. /\ id \in 1..Len(avatars) /\ avatars[id] \in Row /\ sent[id] \in Data
      /\ bucket[id] \in [AllowedSizes -> Object] /\ UNCHANGED sent
      /\ DOMAIN avatars = 1..Len(avatars) /\ DOMAIN bucket = 1..Len(avatars)
  BY DEF StoreInv, ProcessUpload
<1>b. data = sent[id] /\ GoodFile(data) /\ Describes(avatars[id], data) /\ data \in Data
  BY <1>a DEF StoreInv
<1>c. /\ \/ err = NoError /\ avatars' = [avatars EXCEPT ![id] = ProcessedRow(id)]
         \/ err = "killed" /\ avatars' = [avatars EXCEPT ![id].status = "processing"]
         \/ err \notin {NoError, "killed"} /\ avatars' = [avatars EXCEPT ![id].status = "failed"]
      /\ bucket' = [bucket EXCEPT ![id] = objs]
  BY DEF ProcessUpload
<1>d. /\ err = NoError <=> data.pixels /\ Fits(data)
      /\ err = "killed" <=> data.pixels /\ ~Fits(data)
  BY <1>b, ProcessingExact
<1>e. objs \in [AllowedSizes -> Object] /\ objs[SizeOriginal] = bucket[id][SizeOriginal]
  <2>1. \A size \in Made(data) :
          [type |-> Thumbnail(data, size).mime, data |-> Thumbnail(data, size).data] \in Object
    BY <1>b, ProcessingExact
  <2>2. SizeOriginal \in AllowedSizes /\ SizeOriginal \notin Made(data)
    BY DEF Made, ThumbnailSizes, AllowedSizes, SizeOriginal, Size100, Size300
  <2>3. objs = [size \in AllowedSizes |->
                  IF size \in Made(data)
                  THEN [type |-> Thumbnail(data, size).mime, data |-> Thumbnail(data, size).data]
                  ELSE bucket[id][size]]
    BY DEF ObjectsAfter
  <2> HIDE DEF data, objs
  <2> QED BY <1>a, <2>1, <2>2, <2>3
<1> HIDE DEF err, objs
<1>1. PICK row \in Row : avatars' = [avatars EXCEPT ![id] = row] /\ Describes(row, data)
  <2>1. CASE err = NoError
    <3> DEFINE row == [avatars[id] EXCEPT !.status = "completed", !.thumbs = ThumbnailSizes,
                                          !.width = data.width, !.height = data.height]
    <3>1. data.width \in 1..MaxPixels /\ data.height \in 1..MaxPixels
      BY <1>b, GoodSides
    <3>2. row \in Row /\ Describes(row, data)
      BY <1>a, <1>b, <1>d, <2>1, <3>1 DEF Row, Describes
    <3>3. avatars' = [avatars EXCEPT ![id] = row]
      BY <1>c, <2>1 DEF ProcessedRow, NoError
    <3> QED BY <3>2, <3>3
  <2>2. ASSUME NEW status \in {"processing", "failed"},
               status = "processing" => err = "killed",
               status = "failed" => err \notin {NoError, "killed"},
               avatars' = [avatars EXCEPT ![id].status = status]
        PROVE  \E row \in Row : avatars' = [avatars EXCEPT ![id] = row] /\ Describes(row, data)
    <3> DEFINE row == [avatars[id] EXCEPT !.status = status]
    <3>1. row \in Row /\ Describes(row, data)
      BY <1>a, <1>b, <1>d, <2>2 DEF Row, Describes
    <3>2. avatars' = [avatars EXCEPT ![id] = row]
      BY <2>2
    <3> QED BY <3>1, <3>2
  <2>3. CASE err # NoError
    BY <1>c, <2>2, <2>3
  <2> QED BY <2>1, <2>3
<1>2. /\ avatars' \in Seq(Row) /\ Len(avatars') = Len(avatars)
      /\ avatars'[id] = row /\ \A i \in 1..Len(avatars) : i # id => avatars'[i] = avatars[i]
  BY <1>1, <1>a DEF StoreInv
<1>3. /\ bucket' \in Seq([AllowedSizes -> Object]) /\ Len(bucket') = Len(bucket)
      /\ bucket'[id][SizeOriginal] = bucket[id][SizeOriginal]
      /\ \A i \in 1..Len(avatars) : i # id => bucket'[i] = bucket[i]
  BY <1>a, <1>c, <1>e DEF StoreInv
<1>4. ASSUME NEW i \in 1..Len(avatars')
      PROVE  /\ GoodFile(sent'[i]) /\ sent'[i].bytes <= MaxBytes
             /\ Describes(avatars'[i], sent'[i])
             /\ bucket'[i][SizeOriginal].data = sent'[i]
  <2>1. CASE i = id
    BY <1>a, <1>b, <1>1, <1>2, <1>3, <2>1 DEF StoreInv
  <2>2. CASE i # id
    BY <1>a, <1>2, <1>3, <1>4, <2>2 DEF StoreInv
  <2> QED BY <2>1, <2>2
<1> QED BY <1>a, <1>2, <1>3, <1>4 DEF StoreInv

(* A deletion only marks the row. *)
LEMMA DeletedSafe ==
  ASSUME StoreInv, NEW id, NEW user, DeleteAvatar(id, user)
  PROVE  StoreInv'
<1>a. UNCHANGED <<bucket, sent>>
  BY DEF DeleteAvatar
<1>1. CASE UNCHANGED avatars
  BY <1>a, <1>1 DEF StoreInv
<1>2. CASE id \in DOMAIN avatars /\ avatars' = [avatars EXCEPT ![id].deleted = TRUE]
  <2> DEFINE row == [avatars[id] EXCEPT !.deleted = TRUE]
  <2>1. id \in 1..Len(avatars) /\ avatars[id] \in Row /\ DOMAIN avatars = 1..Len(avatars)
    BY <1>2 DEF StoreInv
  <2>2. row \in Row /\ (\A file : Describes(avatars[id], file) => Describes(row, file))
    BY <2>1 DEF Row, Describes
  <2>3. avatars' = [avatars EXCEPT ![id] = row]
    BY <1>2
  <2> HIDE DEF row
  <2>4. /\ avatars' \in Seq(Row) /\ Len(avatars') = Len(avatars)
        /\ avatars'[id] = row /\ \A i \in 1..Len(avatars) : i # id => avatars'[i] = avatars[i]
    BY <2>1, <2>2, <2>3 DEF StoreInv
  <2>5. \A i \in 1..Len(avatars) : Describes(avatars'[i], sent[i])
    BY <2>2, <2>4 DEF StoreInv
  <2> QED BY <1>a, <2>4, <2>5 DEF StoreInv
<1>3. CASE id \notin DOMAIN avatars
  <2> DEFINE bad == user = BadUser
             gone == ~Live(id)
             other == Live(id) /\ avatars[id].user # user
  <2>1. DeleteError(id, user) = FirstError(<< <<bad, "ErrInvalidUserID">>,
                                              <<gone, "ErrAvatarNotFound">>, <<other, "ErrForbidden">> >>)
    BY DEF DeleteError
  <2>2. gone
    BY <1>3 DEF Live
  <2> HIDE DEF bad, gone, other
  <2>3. DeleteError(id, user) = IF bad THEN "ErrInvalidUserID" ELSE IF gone THEN "ErrAvatarNotFound"
                                ELSE IF other THEN "ErrForbidden" ELSE NoError
    BY <2>1, ThreeChecks
  <2>4. DeleteError(id, user) # NoError
    BY <2>2, <2>3 DEF NoError
  <2> QED BY <1>1, <2>4 DEF DeleteAvatar
<1> QED BY <1>1, <1>2, <1>3 DEF DeleteAvatar

-----------------------------------------------------------------------------

(* No refusal looks like an acceptance. *)
LEMMA RefusalCodes ==
  ASSUME NEW err
  PROVE  /\ StatusOf(err) \notin {201, 303}
         /\ StatusOf(err) = 413 => err = "ErrFileTooLarge"
BY DEF StatusOf

(* The answer to an upload. *)
LEMMA UploadAnswered ==
  ASSUME NEW route \in {"api", "web"}, NEW form \in Form,
         UploadAccepted(route, form) \/ UploadRefused(route, form)
  PROVE  AcceptsExactly' /\ MetadataTrue'
<1>1. reply'.op = "upload" /\ reply'.form = form
  BY DEF UploadAccepted, UploadRefused
<1>2. MetadataTrue'
  BY <1>1 DEF MetadataTrue
<1>3. CASE UploadAccepted(route, form)
  <2>1. reply'.code \in {201, 303} /\ reply'.code # 413 /\ UploadError(route, form) = NoError
    BY <1>3 DEF UploadAccepted
  <2>2. ValidUpload(form)
    BY <2>1, UploadExact
  <2> QED BY <1>1, <1>2, <2>1, <2>2 DEF AcceptsExactly, ValidUpload
<1>4. CASE UploadRefused(route, form)
  <2> DEFINE err == UploadError(route, form)
  <2>1. err # NoError /\ reply'.code = IF err = "InvalidForm" THEN 400 ELSE StatusOf(err)
    BY <1>4 DEF UploadRefused
  <2>2. ~ValidUpload(form) /\ (err = "ErrFileTooLarge" => form.file.bytes > MaxBytes \/ form.rest > Slack)
    BY <2>1, UploadExact
  <2> HIDE DEF err
  <2>3. reply'.code \notin {201, 303} /\ (reply'.code = 413 => err = "ErrFileTooLarge")
    BY <2>1, RefusalCodes
  <2> QED BY <1>1, <1>2, <2>2, <2>3 DEF AcceptsExactly, ValidUpload
<1> QED BY <1>3, <1>4

(* Answers that are about neither an upload nor metadata. *)
LEMMA OtherAnswered ==
  ASSUME reply'.op \notin {"upload", "metadata", "list"}
  PROVE  AcceptsExactly' /\ MetadataTrue'
BY DEF AcceptsExactly, MetadataTrue

(* The answers with metadata. *)
LEMMA MetadataAnswered ==
  ASSUME StoreInv, (\E id : GetMetadata(id)) \/ (\E segment : ListByUser(segment))
  PROVE  AcceptsExactly' /\ MetadataTrue'
<1>1. PICK ids \in SUBSET DOMAIN avatars :
        /\ reply'.op \in {"metadata", "list"} /\ reply'.items = [i \in ids |-> toMetadata(i)]
        /\ UNCHANGED sent
  <2>1. ASSUME NEW id, GetMetadata(id)
        PROVE  \E ids \in SUBSET DOMAIN avatars :
                 /\ reply'.op \in {"metadata", "list"} /\ reply'.items = [i \in ids |-> toMetadata(i)]
                 /\ UNCHANGED sent
    <3> DEFINE ids == {id} \cap {j \in DOMAIN avatars : Live(j)}
    <3>1. ids \in SUBSET DOMAIN avatars
      OBVIOUS
    <3>2. /\ reply'.op = "metadata" /\ reply'.items = [i \in ids |-> toMetadata(i)]
          /\ UNCHANGED sent
      BY <2>1 DEF GetMetadata
    <3> QED BY <3>1, <3>2
  <2>2. ASSUME NEW segment, ListByUser(segment)
        PROVE  \E ids \in SUBSET DOMAIN avatars :
                 /\ reply'.op \in {"metadata", "list"} /\ reply'.items = [i \in ids |-> toMetadata(i)]
                 /\ UNCHANGED sent
    <3> DEFINE ids == {j \in DOMAIN avatars : Live(j) /\ avatars[j].user = URLParam(segment)}
    <3>1. ids \in SUBSET DOMAIN avatars
      OBVIOUS
    <3>2. /\ reply'.op = "list" /\ reply'.items = [i \in ids |-> toMetadata(i)]
          /\ UNCHANGED sent
      BY <2>2 DEF ListByUser
    <3> QED BY <3>1, <3>2
  <2> QED BY <2>1, <2>2
<1>2. ASSUME NEW i \in ids
      PROVE  /\ toMetadata(i).mime = MIMEOf[sent[i].magic]
             /\ toMetadata(i).bytes = sent[i].bytes
             /\ toMetadata(i).width = sent[i].width /\ toMetadata(i).height = sent[i].height
  <2>1. i \in 1..Len(avatars)
    BY DEF StoreInv
  <2>2. Describes(avatars[i], sent[i])
    BY <2>1 DEF StoreInv
  <2> QED BY <2>2 DEF Describes, toMetadata
<1> QED BY <1>1, <1>2 DEF AcceptsExactly, MetadataTrue

(* A step that leaves rows, objects and files alone. *)
LEMMA StoreFrame ==
  ASSUME StoreInv, UNCHANGED <<avatars, bucket, sent>>
  PROVE  StoreInv'
BY DEF StoreInv

LEMMA ApiInit == Init => ApiInv
<1> SUFFICES ASSUME Init PROVE ApiInv
  OBVIOUS
<1>1. StoreInv
  BY DEF Init, StoreInv
<1>2. AcceptsExactly /\ MetadataTrue
  BY DEF Init, Silence, AcceptsExactly, MetadataTrue
<1> QED BY <1>1, <1>2 DEF ApiInv

LEMMA ApiNext == ApiInv /\ [Next]_vars => ApiInv'
<1> SUFFICES ASSUME ApiInv, [Next]_vars PROVE ApiInv'
  OBVIOUS
<1> USE DEF ApiInv
<1>1. ASSUME NEW route \in {"api", "web"}, NEW form \in Forms,
             UploadAccepted(route, form) \/ UploadRefused(route, form)
      PROVE  ApiInv'
  <2>1. form \in Form
    BY FormsAssumption
  <2>2. StoreInv'
    BY <1>1, <2>1, AcceptedSafe, StoreFrame DEF UploadRefused
  <2> QED BY <1>1, <2>1, <2>2, UploadAnswered
<1>2. ASSUME NEW url, NEW sends, GetImage(url, sends)
      PROVE  ApiInv'
  <2>1. UNCHANGED <<avatars, bucket, sent>> /\ reply'.op = "image"
    BY <1>2 DEF GetImage
  <2> QED BY <2>1, StoreFrame, OtherAnswered
<1>3. CASE (\E id \in 1..MaxUploads : GetMetadata(id)) \/ (\E segment \in Segments : ListByUser(segment))
  <2>1. UNCHANGED <<avatars, bucket, sent>>
    BY <1>3 DEF GetMetadata, ListByUser
  <2> QED BY <1>3, <2>1, StoreFrame, MetadataAnswered
<1>4. ASSUME NEW id, NEW user, DeleteAvatar(id, user)
      PROVE  ApiInv'
  <2>1. reply'.op = "delete"
    BY <1>4 DEF DeleteAvatar
  <2> QED BY <1>4, <2>1, DeletedSafe, OtherAnswered
<1>5. ASSUME NEW segment, NEW user, DeleteByUser(segment, user)
      PROVE  ApiInv'
  <2>1. CASE DeleteAvatar(Latest(user), user)
    BY <1>4, <2>1
  <2>2. CASE UNCHANGED <<avatars, bucket, sent>> /\ reply'.op = "delete"
    BY <2>2, StoreFrame, OtherAnswered
  <2> QED BY <1>5, <2>1, <2>2 DEF DeleteByUser
<1>6. ASSUME reply = Silence, NEW id \in DOMAIN avatars, ProcessUpload(id)
      PROVE  ApiInv'
  <2>1. reply'.op = "none"
    BY <1>6 DEF ProcessUpload, Silence
  <2> QED BY <1>6, <2>1, ProcessedSafe, OtherAnswered
<1>7. CASE Delivered
  <2>1. UNCHANGED <<avatars, bucket, sent>> /\ reply'.op = "none"
    BY <1>7 DEF Delivered, Silence
  <2> QED BY <2>1, StoreFrame, OtherAnswered
<1>8. CASE UNCHANGED vars
  <2>1. UNCHANGED <<avatars, bucket, sent>> /\ UNCHANGED reply
    BY <1>8 DEF vars
  <2>2. AcceptsExactly' /\ MetadataTrue'
    BY <2>1 DEF AcceptsExactly, MetadataTrue, ValidUpload
  <2> QED BY <2>1, <2>2, StoreFrame
<1>9. CASE Request
  BY <1>9, <1>1, <1>2, <1>3, <1>4, <1>5 DEF Request
<1> QED BY <1>6, <1>7, <1>8, <1>9 DEF Next

(* The invariant holds of every behaviour. *)
THEOREM ApiSafety == Spec => []ApiInv
  BY ApiInit, ApiNext, PTL DEF Spec

(* Both upload routes accept exactly the valid uploads, whatever the limits. *)
THEOREM AcceptanceExact == Spec => []AcceptsExactly
<1>1. ApiInv => AcceptsExactly
  BY DEF ApiInv
<1> QED BY <1>1, ApiSafety, PTL

(* What the bucket holds as the original is the file that was sent. *)
THEOREM OriginalsWhole == Spec => []StoredWhole
<1>1. ApiInv => StoredWhole
  BY DEF ApiInv, StoreInv, StoredWhole
<1> QED BY <1>1, ApiSafety, PTL

(* processUpload has failed only on a file whose pixels cannot be read, has  *)
(* completed only one with pixels that can and thumbnails that fit in memory *)
(* and has left in processing only one whose thumbnails do not.              *)
THEOREM WorkerAccepts == Spec => []WorkerAgrees
<1>1. ApiInv => WorkerAgrees
  BY DEF ApiInv, StoreInv, WorkerAgrees, Describes
<1> QED BY <1>1, ApiSafety, PTL

(* The metadata of an avatar are those of the file that was sent. *)
THEOREM MetadataExact == Spec => []MetadataTrue
<1>1. ApiInv => MetadataTrue
  BY DEF ApiInv
<1> QED BY <1>1, ApiSafety, PTL

(* Rows keep their type: sizes within the limits, known MIME types. *)
THEOREM ApiTypes == Spec => []TypeOK
<1>1. ApiInv => TypeOK
  <2> SUFFICES ASSUME StoreInv PROVE TypeOK
    BY DEF ApiInv
  <2>1. DOMAIN bucket = DOMAIN avatars /\ DOMAIN sent = DOMAIN avatars
    BY DEF StoreInv
  <2>2. \A id \in DOMAIN bucket : bucket[id] \in [AllowedSizes -> Object]
    BY DEF StoreInv
  <2> QED BY <2>1, <2>2 DEF TypeOK, StoreInv, Row
<1> QED BY <1>1, ApiSafety, PTL
=============================================================================
