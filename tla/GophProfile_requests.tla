------------------------- MODULE GophProfile_requests -------------------------
(* What the requests of a server that is not killed leave behind.  The gauge *)
(* StorageUsage is what the live avatars take, and a transaction whose       *)
(* answer is lost makes it wrong by one image and no more.  An upload whose  *)
(* transaction fails leaves no original, as long as the compensating Delete  *)
(* can be carried out.                                                       *)
EXTENDS GophProfile_proofs, FiniteSetTheorems

LiveAvatars == {a \in Avatars : Live(a)}

Spent == MaxFaults - budget

(* The gauge is off by at most one image for each failure there was. *)
UsageWithinFaults ==
  LET n == Cardinality(LiveAvatars)
  IN n - Spent <= storageUsage /\ storageUsage <= n + Spent

(* Only a transaction that was committed and reported as failed moves it     *)
(* away from what the live avatars take.                                     *)
UsageExact == "commit" \notin Faults => storageUsage = Cardinality(LiveAvatars)

UsageInv == UsageWithinFaults /\ UsageExact

-----------------------------------------------------------------------------
(* What a step does to the live avatars, to the gauge and to the budget.     *)

(* The two are changed together, or by a failure of class "commit" apart. *)
Counted(change) ==
  \/ storageUsage' = storageUsage + change /\ budget' = budget
  \/ "commit" \in Faults /\ storageUsage' = storageUsage /\ budget' = budget - 1

UsageStep ==
  \/ /\ LiveAvatars' = LiveAvatars /\ storageUsage' = storageUsage
     /\ budget' \in {budget, budget - 1}
  \/ \E a \in Avatars \ LiveAvatars : LiveAvatars' = LiveAvatars \cup {a} /\ Counted(1)
  \/ \E a \in LiveAvatars : LiveAvatars' = LiveAvatars \ {a} /\ Counted(-1)

(* Such a step keeps the invariant. *)
LEMMA UsageStepKeeps ==
  ASSUME EnvironmentTypeOK, storageUsage \in Int, UsageInv, UsageStep
  PROVE  UsageInv'
<1> DEFINE n == Cardinality(LiveAvatars)
<1>1. IsFiniteSet(LiveAvatars)
  <2>1. IsFiniteSet(Avatars)
    BY FS_Interval, MaxAvatarsAssumption DEF Avatars
  <2> QED BY <2>1, FS_Subset DEF LiveAvatars
<1>2. n \in Nat
  BY <1>1, FS_CardinalityType
<1>3. budget \in Nat /\ MaxFaults \in Nat
  BY MaxFaultsAssumption DEF EnvironmentTypeOK
<1>a. /\ n - (MaxFaults - budget) <= storageUsage /\ storageUsage <= n + (MaxFaults - budget)
      /\ "commit" \notin Faults => storageUsage = n
  BY DEF UsageInv, UsageWithinFaults, UsageExact, Spent
<1>b. ASSUME NEW m \in Int, Cardinality(LiveAvatars)' = m,
             m - (MaxFaults - budget') <= storageUsage', storageUsage' <= m + (MaxFaults - budget'),
             "commit" \notin Faults => storageUsage' = m
      PROVE  UsageInv'
  BY <1>b DEF UsageInv, UsageWithinFaults, UsageExact, Spent
<1>4. CASE /\ LiveAvatars' = LiveAvatars /\ storageUsage' = storageUsage
           /\ budget' \in {budget, budget - 1}
  <2>1. Cardinality(LiveAvatars)' = n
    BY <1>4
  <2> HIDE DEF n
  <2>2. n \in Int /\ storageUsage' = storageUsage
    BY <1>2, <1>4
  <2>3. CASE budget' = budget
    BY <1>3, <1>a, <1>b, <2>1, <2>2, <2>3
  <2>4. CASE budget' = budget - 1
    BY <1>2, <1>3, <1>a, <1>b, <2>1, <2>2, <2>4
  <2> QED BY <1>4, <2>3, <2>4
<1>5. ASSUME NEW a \in Avatars \ LiveAvatars, LiveAvatars' = LiveAvatars \cup {a}, Counted(1)
      PROVE  UsageInv'
  <2>1. Cardinality(LiveAvatars)' = n + 1
    BY <1>1, <1>5, FS_AddElement
  <2> HIDE DEF n
  <2> QED BY <1>2, <1>3, <1>5, <1>a, <1>b, <2>1 DEF Counted
<1>6. ASSUME NEW a \in LiveAvatars, LiveAvatars' = LiveAvatars \ {a}, Counted(-1)
      PROVE  UsageInv'
  <2>1. Cardinality(LiveAvatars)' = n - 1
    BY <1>1, <1>6, FS_RemoveElement
  <2> HIDE DEF n
  <2> QED BY <1>2, <1>3, <1>6, <1>a, <1>b, <2>1 DEF Counted
<1> QED BY <1>4, <1>5, <1>6 DEF UsageStep

(* upload counts an image in the step that makes its avatar live. *)
LEMMA CreateCounted ==
  ASSUME SafetyInv, NEW r \in Requests, UploadCreate(r)
  PROVE  UsageStep
<1> DEFINE a == req[r].avatar
<1>1. a \in Avatars /\ ~Exists(a) /\ rows \in [Avatars -> Row]
  BY DEF UploadCreate, SafetyInv, RequestInv, TypeOK, RepositoryTypeOK
<1>2. CASE CreateWithOutbox(a, req[r].user)
  <2>1. rows' = [rows EXCEPT ![a] = [NoRow EXCEPT !.status = "pending", !.owner = req[r].user]]
    BY <1>2 DEF CreateWithOutbox
  <2>2. /\ rows'[a].status = "pending" /\ ~rows'[a].deleted
        /\ \A b \in Avatars : b # a => rows'[b] = rows[b]
    BY <1>1, <2>1 DEF NoRow
  <2>3. a \in Avatars \ LiveAvatars /\ LiveAvatars' = LiveAvatars \cup {a}
    BY <1>1, <2>2 DEF LiveAvatars, Live, Exists
  <2>4. Counted(1) \/ UNCHANGED repositoryVars
    BY DEF UploadCreate, Counted, Healthy, Fault
  <2>5. ~UNCHANGED repositoryVars
    BY <1>1, <2>2 DEF repositoryVars, Exists
  <2> QED BY <2>3, <2>4, <2>5 DEF UsageStep
<1>3. CASE UNCHANGED repositoryVars /\ ~CreateWithOutbox(a, req[r].user)
  <2>1. LiveAvatars' = LiveAvatars
    BY <1>3 DEF LiveAvatars, Live, Exists, repositoryVars
  <2>2. storageUsage' = storageUsage /\ budget' \in {budget, budget - 1}
    BY <1>3 DEF UploadCreate, Fault
  <2> QED BY <2>1, <2>2 DEF UsageStep
<1> QED BY <1>2, <1>3 DEF UploadCreate

(* delete takes an image off in the step that deletes its avatar, and the    *)
(* second of two deletions takes nothing off.                                *)
LEMMA DeleteCounted ==
  ASSUME SafetyInv, NEW r \in Requests, DeleteSoft(r)
  PROVE  UsageStep
<1> DEFINE a == req[r].avatar
           user == req[r].user
<1>1. a \in Avatars /\ rows \in [Avatars -> Row] /\ storageUsage \in Int
  BY DEF DeleteSoft, SafetyInv, RequestInv, TypeOK, RepositoryTypeOK, ServerTypeOK
<1>2. CASE UNCHANGED repositoryVars /\ UNCHANGED storageUsage
  <2>1. LiveAvatars' = LiveAvatars
    BY <1>2 DEF LiveAvatars, Live, Exists, repositoryVars
  <2>2. budget' \in {budget, budget - 1}
    BY DEF DeleteSoft, Healthy, Fault
  <2> QED BY <1>2, <2>1, <2>2 DEF UsageStep
<1>3. CASE /\ Deletable(a, user) /\ SoftDeleteOwnedWithOutbox(a, req[r].sizes \ {SizeOriginal})
           /\ \/ Healthy /\ storageUsage' = storageUsage - 1
              \/ Fault("commit") /\ UNCHANGED storageUsage
  <2>1. rows' = [rows EXCEPT ![a].deleted = TRUE, ![a].stale = FALSE]
    BY <1>3 DEF SoftDeleteOwnedWithOutbox
  <2>2. rows'[a].deleted /\ \A b \in Avatars : b # a => rows'[b] = rows[b]
    BY <1>1, <2>1 DEF Row
  <2>3. a \in LiveAvatars /\ LiveAvatars' = LiveAvatars \ {a}
    BY <1>1, <1>3, <2>2 DEF LiveAvatars, Live, Exists, Deletable
  <2>4. Counted(-1)
    BY <1>1, <1>3 DEF Counted, Healthy, Fault
  <2> QED BY <2>3, <2>4 DEF UsageStep
<1> QED BY <1>2, <1>3 DEF DeleteSoft, UsageAfterDelete, Deletable

(* The other steps of the server. *)
LEMMA ServerCounted ==
  ASSUME SafetyInv, "crash" \notin Faults, ServerNext
  PROVE  UsageStep
<1>1. ~ServerCrash
  BY DEF ServerCrash, Fault
<1>2. CASE \E r \in Requests : UploadCreate(r) \/ DeleteSoft(r)
  BY <1>2, CreateCounted, DeleteCounted
<1>3. CASE ~\E r \in Requests : UploadCreate(r) \/ DeleteSoft(r)
  <2>1. UNCHANGED repositoryVars /\ UNCHANGED storageUsage /\ budget' \in {budget, budget - 1}
    BY <1>1, <1>3 DEF ServerNext, RequestStep, UploadPut, DeleteByID, DeleteLatest, GetImage,
       UploadCompensate, DeleteGet, DownloadImage, RequestCancelled, Healthy, Fault
  <2>2. LiveAvatars' = LiveAvatars
    BY <2>1 DEF LiveAvatars, Live, Exists, repositoryVars
  <2> QED BY <2>1, <2>2 DEF UsageStep
<1> QED BY <1>2, <1>3

(* The worker makes no avatar live and deletes none. *)
LEMMA WorkerCounted ==
  ASSUME SafetyInv, WorkerNext, UNCHANGED serverVars
  PROVE  UsageStep
<1>1. UNCHANGED storageUsage
  BY DEF serverVars
<1>2. budget' \in {budget, budget - 1}
  BY BudgetStep DEF Next
<1>3. LiveAvatars' = LiveAvatars
  BY WorkerRowsKept DEF RowsKept, LiveAvatars, Live
<1> QED BY <1>1, <1>2, <1>3 DEF UsageStep

-----------------------------------------------------------------------------

LEMMA UsageInit == Init => UsageInv
<1> SUFFICES ASSUME Init PROVE UsageInv
  OBVIOUS
<1>1. LiveAvatars = {}
  BY DEF Init, RepositoryInit, LiveAvatars, Live, Exists, NoRow
<1>2. Cardinality(LiveAvatars) = 0
  BY <1>1, FS_EmptySet
<1>3. storageUsage = 0 /\ Spent = 0
  BY MaxFaultsAssumption DEF Init, ServerInit, EnvironmentInit, Spent
<1> QED BY <1>2, <1>3 DEF UsageInv, UsageWithinFaults, UsageExact

LEMMA UsageNext ==
  ASSUME "crash" \notin Faults, SafetyInv, UsageInv, [Next]_vars
  PROVE  UsageInv'
<1>1. CASE ServerNext
  BY <1>1, ServerCounted, UsageStepKeeps DEF SafetyInv, TypeOK, ServerTypeOK
<1>2. CASE WorkerNext /\ UNCHANGED serverVars
  BY <1>2, WorkerCounted, UsageStepKeeps DEF SafetyInv, TypeOK, ServerTypeOK
<1>3. CASE UNCHANGED vars
  <2>1. UNCHANGED <<rows, storageUsage, budget>>
    BY <1>3 DEF vars, serverVars
  <2>2. UsageStep
    BY <2>1 DEF UsageStep, LiveAvatars, Live, Exists
  <2> QED BY <2>2, UsageStepKeeps DEF SafetyInv, TypeOK, ServerTypeOK
<1> QED BY <1>1, <1>2, <1>3 DEF Next

(* In a server that does not crash, the gauge differs from what the live     *)
(* avatars take by at most one image for each failure, whichever failures    *)
(* there were: upload and delete change it with their transaction.           *)
THEOREM UsageBounded ==
  ASSUME "crash" \notin Faults
  PROVE  Spec => []UsageWithinFaults
<1>1. SafetyInv /\ UsageInv /\ [Next]_vars => UsageInv'
  BY UsageNext
<1>2. UsageInv => UsageWithinFaults
  BY DEF UsageInv
<1> QED BY <1>1, <1>2, UsageInit, Safety, PTL DEF Spec

(* If, besides, no transaction is committed and reported as failed, it is    *)
(* exact, although calls fail, requests are cancelled and deletions of one   *)
(* avatar overlap.                                                           *)
THEOREM UsageCounted ==
  ASSUME Faults \cap {"crash", "commit"} = {}
  PROVE  Spec => []UsageMatchesRows
<1>0. "crash" \notin Faults /\ "commit" \notin Faults
  OBVIOUS
<1>1. SafetyInv /\ UsageInv /\ [Next]_vars => UsageInv'
  BY <1>0, UsageNext
<1>2. UsageInv => UsageMatchesRows
  BY <1>0 DEF UsageInv, UsageExact, UsageMatchesRows, LiveAvatars
<1> QED BY <1>1, <1>2, UsageInit, Safety, PTL DEF Spec

-----------------------------------------------------------------------------
(* The originals of uploads that fail.                                       *)

Compensated == Faults \cap {"s3", "cancel", "crash"} = {}

Orphan(a) == Stored(OriginalObjectKey(a)) /\ ~Exists(a)

InCareOf(r, a) == req[r].avatar = a /\ Uploading(r)

(* The request r keeps every other upload as it is; of its own avatar it     *)
(* leaves no original without a row, or goes on taking care of it.           *)
LEMMA OrphanFrame ==
  ASSUME NoOrphanOriginal, NEW r \in Requests, NEW own,
         \A a \in Avatars : Orphan(a)' => Orphan(a) \/ a = own,
         \A s \in Requests \ {r} : req'[s] = req[s],
         Uploading(r) => req[r].avatar = own,
         Orphan(own)' => InCareOf(r, own)'
  PROVE  NoOrphanOriginal'
<1> SUFFICES ASSUME NEW a \in Avatars, Orphan(a)'
             PROVE  \E s \in Requests : InCareOf(s, a)'
  BY DEF NoOrphanOriginal, Orphan, InCareOf, Uploading
<1>1. CASE a = own
  BY <1>1
<1>2. CASE a # own
  <2>1. PICK s \in Requests : InCareOf(s, a)
    BY <1>2 DEF NoOrphanOriginal, Orphan, InCareOf, Uploading
  <2>2. s # r
    BY <1>2, <2>1 DEF InCareOf
  <2> QED BY <2>1, <2>2 DEF InCareOf, Uploading
<1> QED BY <1>1, <1>2

(* The requests that upload nothing, and the worker, make no orphan. *)
LEMMA OrphansKept ==
  ASSUME NoOrphanOriginal,
         \A a \in Avatars : Orphan(a)' => Orphan(a),
         \A r \in Requests : Uploading(r) => req'[r] = req[r]
  PROVE  NoOrphanOriginal'
BY DEF NoOrphanOriginal, Orphan, Uploading

(* The steps of upload. *)
LEMMA UploadOrphans ==
  ASSUME Compensated, SafetyInv, NoOrphanOriginal, NEW r \in Requests,
         (\E user \in Users : UploadPut(r, user)) \/ UploadCreate(r) \/ UploadCompensate(r)
  PROVE  NoOrphanOriginal'
<1>a. req \in [Requests -> Request] /\ ~Fault("s3")
  BY DEF SafetyInv, TypeOK, ServerTypeOK, Compensated, Fault
<1>b. rows \in [Avatars -> Row]
  BY DEF SafetyInv, TypeOK, RepositoryTypeOK
<1>1. ASSUME NEW user \in Users, UploadPut(r, user) PROVE NoOrphanOriginal'
  <2>1. /\ objects' = objects \cup {OriginalObjectKey(nextID)} /\ UNCHANGED rows
        /\ req[r].pc = "idle" /\ req'[r].pc = "create" /\ req'[r].avatar = nextID
        /\ \A s \in Requests \ {r} : req'[s] = req[s]
    BY <1>a, <1>1 DEF UploadPut, Put, Continue, repositoryVars
  <2>2. \A a \in Avatars : Orphan(a)' => Orphan(a) \/ a = nextID
    BY <2>1 DEF Orphan, Stored, OriginalObjectKey, Exists
  <2> HIDE DEF Orphan
  <2> QED BY <2>1, <2>2, OrphanFrame DEF InCareOf, Uploading
<1>2. ASSUME UploadCreate(r), NEW a \in Avatars, a = req[r].avatar PROVE NoOrphanOriginal'
  <2>1. /\ req[r].pc = "create" /\ UNCHANGED objects
        /\ \A s \in Requests \ {r} : req'[s] = req[s]
    BY <1>a, <1>2 DEF UploadCreate, Answer, Continue
  <2>2. CASE CreateWithOutbox(a, req[r].user)
    <3>1. rows' = [rows EXCEPT ![a] = [NoRow EXCEPT !.status = "pending", !.owner = req[r].user]]
      BY <2>2 DEF CreateWithOutbox
    <3>2. rows'[a].status = "pending" /\ \A b \in Avatars : b # a => rows'[b] = rows[b]
      BY <1>b, <3>1 DEF NoRow
    <3>3. ~Orphan(a)' /\ \A b \in Avatars : Orphan(b)' => Orphan(b)
      BY <2>1, <3>2 DEF Orphan, Stored, OriginalObjectKey, Exists
    <3> QED BY <1>2, <2>1, <3>3, OrphanFrame
  <2>3. CASE UNCHANGED repositoryVars /\ Continue(r, "compensate", req[r].user, a, req[r].sizes)
    <3>1. \A b \in Avatars : Orphan(b)' => Orphan(b)
      BY <2>1, <2>3 DEF Orphan, Stored, Exists, repositoryVars
    <3>2. InCareOf(r, a)'
      BY <1>a, <2>3 DEF InCareOf, Uploading, Continue
    <3> QED BY <1>2, <2>1, <3>1, <3>2, OrphanFrame
  <2> QED BY <1>2, <2>2, <2>3 DEF UploadCreate
<1>3. ASSUME UploadCompensate(r), NEW a \in Avatars, a = req[r].avatar PROVE NoOrphanOriginal'
  <2>1. /\ objects' = objects \ {OriginalObjectKey(a)} /\ UNCHANGED rows
        /\ \A s \in Requests \ {r} : req'[s] = req[s]
    BY <1>a, <1>3 DEF UploadCompensate, Remove, Answer, repositoryVars
  <2>2. ~Orphan(a)' /\ \A b \in Avatars : Orphan(b)' => Orphan(b)
    BY <2>1 DEF Orphan, Stored, OriginalObjectKey, Exists
  <2> QED BY <1>3, <2>1, <2>2, OrphanFrame
<1>4. UploadCreate(r) \/ UploadCompensate(r) => req[r].avatar \in Avatars
  BY DEF UploadCreate, UploadCompensate, SafetyInv, RequestInv
<1> QED BY <1>1, <1>2, <1>3, <1>4

(* The other requests store nothing, and no row disappears. *)
LEMMA OtherRequestsOrphans ==
  ASSUME Compensated, SafetyInv, NoOrphanOriginal, ServerNext,
         ~\E r \in Requests : \/ \E user \in Users : UploadPut(r, user)
                              \/ UploadCreate(r) \/ UploadCompensate(r)
  PROVE  NoOrphanOriginal'
<1>a. req \in [Requests -> Request] /\ rows \in [Avatars -> Row]
  BY DEF SafetyInv, TypeOK, ServerTypeOK, RepositoryTypeOK
<1>1. ~ServerCrash /\ ~\E r \in Requests : RequestCancelled(r)
  BY DEF Compensated, ServerCrash, RequestCancelled, Fault
<1>2. PICK r \in Requests :
        \/ \E user \in Users : DeleteByID(r, user) \/ DeleteLatest(r, user)
        \/ GetImage(r) \/ DeleteGet(r) \/ DeleteSoft(r) \/ DownloadImage(r)
  BY <1>1 DEF ServerNext, RequestStep
<1>3. /\ UNCHANGED objects /\ ~Uploading(r)
      /\ \A s \in Requests \ {r} : req'[s] = req[s]
  BY <1>a, <1>2 DEF DeleteByID, DeleteLatest, GetImage, DeleteGet, DeleteSoft, DownloadImage, Snapshot,
     Answer, Continue, Uploading
<1>4. \A a \in Avatars : rows'[a].status = rows[a].status
  BY <1>a, <1>2 DEF DeleteByID, DeleteLatest, GetImage, DeleteGet, DeleteSoft, DownloadImage,
     SoftDeleteOwnedWithOutbox, repositoryVars, Row
<1>5. \A a \in Avatars : Orphan(a)' => Orphan(a)
  BY <1>3, <1>4 DEF Orphan, Stored, Exists, OriginalObjectKey
<1> QED BY <1>3, <1>5, OrphansKept

(* The worker stores thumbnails only, and deletes no row. *)
LEMMA WorkerOrphans ==
  ASSUME SafetyInv, NoOrphanOriginal, WorkerNext, UNCHANGED serverVars
  PROVE  NoOrphanOriginal'
<1>1. \A a \in Avatars : Orphan(a)' => Orphan(a)
  BY WorkerRowsKept, WorkerStoresNoOriginal DEF RowsKept, Orphan
<1>2. UNCHANGED req
  BY DEF serverVars
<1> QED BY <1>1, <1>2, OrphansKept

LEMMA OrphansNext ==
  ASSUME Compensated, SafetyInv, NoOrphanOriginal, [Next]_vars
  PROVE  NoOrphanOriginal'
<1>1. CASE ServerNext
  BY <1>1, UploadOrphans, OtherRequestsOrphans
<1>2. CASE WorkerNext /\ UNCHANGED serverVars
  BY <1>2, WorkerOrphans
<1>3. CASE UNCHANGED vars
  <2>1. UNCHANGED <<rows, objects, req>>
    BY <1>3 DEF vars, serverVars
  <2> QED BY <2>1, OrphansKept DEF Orphan, Stored, Exists
<1> QED BY <1>1, <1>2, <1>3 DEF Next

(* An original without a row belongs to a request that will yet create the   *)
(* row or remove the object, if no request is cancelled, no Delete fails and *)
(* the server is not killed: the compensation of upload covers every failure *)
(* of its transaction.  The finding on cancelled requests shows that the     *)
(* hypothesis on them is needed.                                             *)
THEOREM UploadsCompensated ==
  ASSUME Compensated
  PROVE  Spec => []NoOrphanOriginal
<1>1. Init => NoOrphanOriginal
  BY DEF Init, ObjectStoreInit, NoOrphanOriginal, Stored
<1>2. SafetyInv /\ NoOrphanOriginal /\ [Next]_vars => NoOrphanOriginal'
  BY OrphansNext
<1> QED BY <1>1, <1>2, Safety, PTL DEF Spec
=============================================================================
