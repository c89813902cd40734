----------------------------- MODULE Repository -----------------------------
(* The Postgres tables avatars and outbox_events and the statements of       *)
(* internal/repository.  Each operator that writes is one statement or one   *)
(* transaction and so one atomic step; the failures of a statement belong to *)
(* its caller, which decides what an error means.                            *)
EXTENDS Domain, FiniteSets, Sequences

VARIABLES rows,     \* avatars: one record per avatar id
          outbox    \* outbox_events: the position in the sequence is the id

repositoryVars == <<rows, outbox>>

ProcessingStatuses == {"pending", "processing", "completed", "failed"}

(* "stale" stands for updated_at < NOW() - INTERVAL '2 minutes': time sets   *)
(* it, every statement that writes updated_at = NOW() clears it.             *)
Row == [status  : {"absent"} \cup ProcessingStatuses,
        owner   : Users \cup {NoUser},
        thumbs  : SUBSET ThumbnailSizes,
        deleted : BOOLEAN,
        stale   : BOOLEAN]

OutboxEvent == [kind : EventKinds, avatar : Avatars,
                sizes : SUBSET AllowedSizes, published : BOOLEAN]

NoRow == [status |-> "absent", owner |-> NoUser, thumbs |-> {},
          deleted |-> FALSE, stale |-> FALSE]

RepositoryInit ==
  /\ rows = [a \in Avatars |-> NoRow]
  /\ outbox = << >>

RepositoryTypeOK ==
  /\ rows \in [Avatars -> Row]
  /\ outbox \in Seq(OutboxEvent)

Exists(a) == rows[a].status # "absent"

(* WHERE id = $1 AND deleted_at IS NULL *)
Live(a) == Exists(a) /\ ~rows[a].deleted

LiveOf(user) == {a \in Avatars : Live(a) /\ rows[a].owner = user}

IsLatest(a, user) == a \in LiveOf(user) /\ \A b \in LiveOf(user) : b <= a

-----------------------------------------------------------------------------

(* Mutant of FirstOf: an off-by-one in the limit. *)
FirstOf_OffByOne(ids, n) == {i \in ids : Cardinality({j \in ids : j <= i}) < n}

(* The first n of a set of ids in ascending order: ORDER BY id LIMIT n.      *)
FirstOf(ids, n) == {i \in ids : Cardinality({j \in ids : j < i}) < n}

(* The loops over such a list take the ids in this order. *)
IsFirst(i, ids) == i \in ids /\ \A j \in ids : i <= j

Unpublished == {i \in DOMAIN outbox : ~outbox[i].published}

ListUnpublished(limit) == FirstOf(Unpublished, limit)

(* Mutants of Claimable: a claim is never left to its holder; a claim is     *)
(* never taken from a dead holder.                                           *)
Claimable_Processing(a) ==
  Live(a) /\ rows[a].status \in {"pending", "failed", "processing"}

Claimable_NoStale(a) ==
  Live(a) /\ rows[a].status \in {"pending", "failed"}

(* Both ListStuckUploads and MarkProcessing select these rows. *)
Claimable(a) ==
  /\ Live(a)
  /\ \/ rows[a].status \in {"pending", "failed"}
     \/ rows[a].status = "processing" /\ rows[a].stale

ListStuckUploads(limit) == FirstOf({a \in Avatars : Claimable(a)}, limit)

-----------------------------------------------------------------------------

(* INSERT ... ON CONFLICT (event_id) DO UPDATE: a row with the event's id    *)
(* gets the new payload and keeps its published_at.                          *)
insertOutbox(e) ==
  outbox' = IF \E i \in DOMAIN outbox : SameEventID(outbox[i], e)
            THEN [i \in DOMAIN outbox |->
                    IF SameEventID(outbox[i], e)
                    THEN [outbox[i] EXCEPT !.sizes = e.sizes]
                    ELSE outbox[i]]
            ELSE Append(outbox, [kind |-> e.kind, avatar |-> e.avatar,
                                 sizes |-> e.sizes, published |-> FALSE])

(* Mutant of CreateWithOutbox: the event is not part of the transaction. *)
CreateWithOutbox_NoEvent(a, user) ==
  /\ rows' = [rows EXCEPT ![a] = [NoRow EXCEPT !.status = "pending", !.owner = user]]
  /\ UNCHANGED outbox

CreateWithOutbox(a, user) ==
  /\ rows' = [rows EXCEPT ![a] = [NoRow EXCEPT !.status = "pending", !.owner = user]]
  /\ insertOutbox(UploadEvent(a))

(* The UPDATE matches the owner's live row; the caller treats no match as    *)
(* "avatar not found", and then nothing is written.                          *)
Deletable(a, user) == Live(a) /\ rows[a].owner = user

(* Mutant of SoftDeleteOwnedWithOutbox: the UPDATE is not committed. *)
SoftDeleteOwnedWithOutbox_EventOnly(a, thumbs) ==
  UNCHANGED rows /\ insertOutbox(DeleteEvent(a, thumbs))

SoftDeleteOwnedWithOutbox(a, thumbs) ==
  /\ rows' = [rows EXCEPT ![a].deleted = TRUE, ![a].stale = FALSE]
  /\ insertOutbox(DeleteEvent(a, thumbs))

(* MarkProcessing on a row that is Claimable; on any other it matches no row *)
(* and reports that the claim was not obtained.                              *)
MarkProcessing(a) ==
  /\ rows' = [rows EXCEPT ![a].status = "processing", ![a].stale = FALSE]
  /\ UNCHANGED outbox

(* CompleteProcessing and FailProcessing match any live row, whatever its    *)
(* status is by now.                                                         *)
CompleteProcessing(a, thumbs) ==
  /\ rows' = IF Live(a)
             THEN [rows EXCEPT ![a].status = "completed", ![a].thumbs = thumbs,
                               ![a].stale = FALSE]
             ELSE rows
  /\ UNCHANGED outbox

(* Mutant of FailProcessing: a failure empties thumbnail_s3_keys. *)
FailProcessing_DropsThumbs(a) ==
  /\ rows' = IF Live(a)
             THEN [rows EXCEPT ![a].status = "failed", ![a].thumbs = {}, ![a].stale = FALSE]
             ELSE rows
  /\ UNCHANGED outbox

FailProcessing(a) ==
  /\ rows' = IF Live(a)
             THEN [rows EXCEPT ![a].status = "failed", ![a].stale = FALSE]
             ELSE rows
  /\ UNCHANGED outbox

(* Mutant of MarkOutboxPublished: the UPDATE has no WHERE. *)
MarkOutboxPublished_All(i) ==
  /\ outbox' = [j \in DOMAIN outbox |-> [outbox[j] EXCEPT !.published = TRUE]]
  /\ UNCHANGED rows

MarkOutboxPublished(i) ==
  /\ outbox' = [outbox EXCEPT ![i].published = TRUE]
  /\ UNCHANGED rows

(* Two minutes pass without a write to a claimed row. *)
BecomeStale(a) ==
  /\ Live(a)
  /\ rows[a].status = "processing"
  /\ ~rows[a].stale
  /\ rows' = [rows EXCEPT ![a].stale = TRUE]
  /\ UNCHANGED outbox
=============================================================================
