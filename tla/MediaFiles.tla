----------------------------- MODULE MediaFiles -----------------------------
(***************************************************************************)
(* The images of one card: MediaService.upload_image (which replaces, too),*)
(* delete_image and restore_image, run by tasks and requests; the approval *)
(* of a reprint whose draft puts another image in a field; and whatever    *)
(* else saves the card, with another value in an image field or not.       *)
(*                                                                         *)
(* An operation fetches the card, reads the active MediaReference of its   *)
(* field, and commits its writes in one transaction; the file of an upload *)
(* goes to the storage before, and stays there if the transaction rolls    *)
(* back.  The card is saved with all columns, from the copy fetched first. *)
(* The thumbnail, whose failure is ignored, is left out.  A field of the   *)
(* card's data names an image or none: the placeholders an import writes   *)
(* name none.                                                              *)
(***************************************************************************)
EXTENDS Integers

CONSTANTS Images,        \* the ids of the media files that may be made
          ImageFields,   \* the image fields of the card
          ImageWorkers,  \* the workers and server processes
          MaxReferences, \* bound: the references ever made
          NoImage        \* no image, no field

ASSUME MediaAssumption ==
  /\ NoImage \notin Images /\ NoImage \notin ImageFields
  /\ MaxReferences \in Nat

VARIABLES media,       \* the MediaFile rows
          stored,      \* the files in the storage
          reference,   \* the active MediaReference of each field
          pointer,     \* the image each field of the card's data names
          made,        \* how many references were made: the last id
          drafted,     \* the images some reprint's draft put in a field
          edited,      \* the fields of the data another save changed last
          overlap,     \* may operations on the card overlap?
          editor       \* the operation each worker runs

mediaVars ==
  <<media, stored, reference, pointer, made, drafted, edited, overlap, editor>>

Picture == Images \cup {NoImage}

\* A row: its field (none before it exists), and is_deleted.
MediaRow == [field : ImageFields \cup {NoImage}, deleted : BOOLEAN]
NoMedia == [field |-> NoImage, deleted |-> FALSE]

\* A reference has a primary key: two of one image are not the same.
Reference == [image : Picture, id : 0..MaxReferences]
NoReference == [image |-> NoImage, id |-> 0]

\* An operation: its image (the new one, the one to restore, that of the draft or
\* of the edit), the pointers of the card it fetched, and the reference it found.
ImageOp == {"upload", "delete", "restore", "approve", "edit"}
Editor == [at : {"fetched", "stored", "looked"}, op : ImageOp,
           field : ImageFields, image : Picture, copy : [ImageFields -> Picture],
           found : Reference]
NoEditor == [at |-> "idle"]

\* Type correctness of the rows and the operations.
MediaTypeOK ==
  /\ media \in [Images -> MediaRow]
  /\ stored \subseteq Images
  /\ reference \in [ImageFields -> Reference]
  /\ pointer \in [ImageFields -> Picture]
  /\ made \in 0..MaxReferences
  /\ drafted \subseteq Images /\ edited \subseteq ImageFields
  /\ overlap \in BOOLEAN
  /\ editor \in [ImageWorkers -> Editor \cup {NoEditor}]

MediaInit ==
  /\ media = [i \in Images |-> NoMedia] /\ stored = {}
  /\ reference = [f \in ImageFields |-> NoReference]
  /\ pointer = [f \in ImageFields |-> NoImage]
  /\ made = 0 /\ drafted = {} /\ edited = {} /\ overlap \in BOOLEAN
  /\ editor = [w \in ImageWorkers |-> NoEditor]
-----------------------------------------------------------------------------
Exists(i) == media[i].field # NoImage
EditorAt(w, at) == editor[w] # NoEditor /\ editor[w].at = at
MayBegin(w) ==
  /\ editor[w] = NoEditor
  /\ overlap \/ \A v \in ImageWorkers : editor[v] = NoEditor
Begun(w, op, f, i) ==
  editor' = [editor EXCEPT ![w] = [at |-> "fetched", op |-> op, field |-> f, image |-> i,
                                   copy |-> pointer, found |-> NoReference]]

\* A task fetches the card, to upload an image with a new id.
FetchToUpload(w, f, i) ==
  /\ MayBegin(w) /\ ~Exists(i) /\ i \notin stored
  /\ \A v \in ImageWorkers : editor[v] # NoEditor => editor[v].image # i
  /\ Begun(w, "upload", f, i)
  /\ UNCHANGED <<media, stored, reference, pointer, made, drafted, edited, overlap>>

FetchToDelete(w, f) ==
  /\ MayBegin(w)
  /\ Begun(w, "delete", f, NoImage)
  /\ UNCHANGED <<media, stored, reference, pointer, made, drafted, edited, overlap>>

\* restore_image reads the image with its card, and returns if it is not in
\* the trash.
FetchToRestore(w, i) ==
  /\ MayBegin(w) /\ Exists(i) /\ media[i].deleted
  /\ Begun(w, "restore", media[i].field, i)
  /\ UNCHANGED <<media, stored, reference, pointer, made, drafted, edited, overlap>>

\* approve_reprint_request reads the card and the image a field of the draft
\* names: one of any field, active or in the trash.
FetchToApprove(w, f, i) ==
  /\ MayBegin(w) /\ Exists(i)
  /\ Begun(w, "approve", f, i)
  /\ UNCHANGED <<media, stored, reference, pointer, made, drafted, edited, overlap>>

\* Any other operation that saves the card: with another image, or none, named
\* in a field (update_card checks no image) or as it was (a transition).
FetchToEdit(w, f, i) ==
  /\ MayBegin(w) /\ (i # NoImage => Exists(i))
  /\ Begun(w, "edit", f, i)
  /\ UNCHANGED <<media, stored, reference, pointer, made, drafted, edited, overlap>>

\* The file of an upload goes to the storage.  Mutant: an error is ignored, as
\* it is for the thumbnail.
SavedOrNot(i) == {stored, stored \cup {i}}
SavedFile(i) == {stored \cup {i}}

StoreImage(w) ==
  /\ EditorAt(w, "fetched") /\ editor[w].op = "upload"
  /\ stored' \in SavedFile(editor[w].image)
  /\ editor' = [editor EXCEPT ![w].at = "stored"]
  /\ UNCHANGED <<media, reference, pointer, made, drafted, edited, overlap>>

\* A restoration writes its image first: until it commits, that row is locked.
LockedImage(w, i) ==
  \E v \in ImageWorkers \ {w} :
    EditorAt(v, "looked") /\ editor[v].op = "restore" /\ editor[v].image = i

\* The operation reads the active reference of its field, as committed.
LookUpReference(w) ==
  /\ \/ EditorAt(w, "stored")
     \/ EditorAt(w, "fetched") /\ editor[w].op \in {"delete", "approve"}
     \/ /\ EditorAt(w, "fetched") /\ editor[w].op = "restore"
        /\ ~LockedImage(w, editor[w].image)
  /\ editor' = [editor EXCEPT ![w].at = "looked", ![w].found = reference[editor[w].field]]
  /\ UNCHANGED <<media, stored, reference, pointer, made, drafted, edited, overlap>>

\* The rows once i is active in field f and the image of the reference found is
\* in the trash, in this order.  Mutant: the image replaced is not moved there.
ReplacedUntrashed(f, i, found) ==
  [m \in Images |-> IF m = i THEN [field |-> f, deleted |-> FALSE] ELSE media[m]]
Replaced(f, i, found) ==
  [m \in Images |->
     IF m = found.image THEN [media[m] EXCEPT !.deleted = TRUE]
     ELSE IF m = i THEN [field |-> f, deleted |-> FALSE] ELSE media[m]]

\* The whole card is saved, from the copy.  Mutant: with nothing written in it.
SavedCopy(copy, f, i) == copy
SavedCard(copy, f, i) == [copy EXCEPT ![f] = i]

\* The active reference of field f becomes a new one, of image i.  If another
\* has been made since, the insert violates the unique (card, field).
Refers(f, i, found) ==
  /\ reference[f] \in {found, NoReference} /\ made < MaxReferences
  /\ made' = made + 1
  /\ reference' = [reference EXCEPT ![f] = [image |-> i, id |-> made + 1]]

\* An upload or a restoration commits.
CommitImage(w) ==
  LET e == editor[w] IN
  /\ EditorAt(w, "looked") /\ e.op \in {"upload", "restore"}
  /\ ~LockedImage(w, e.found.image)
  /\ media' = Replaced(e.field, e.image, e.found)
  /\ Refers(e.field, e.image, e.found)
  /\ pointer' = SavedCard(e.copy, e.field, e.image)
  /\ edited' = edited \ {e.field}
  /\ editor' = [editor EXCEPT ![w] = NoEditor]
  /\ UNCHANGED <<stored, drafted, overlap>>

\* An approval commits: the image replaced goes to the trash, but that of the
\* draft is not taken out of it, and other fields may go on showing it.
CommitApproval(w) ==
  LET e == editor[w] IN
  /\ EditorAt(w, "looked") /\ e.op = "approve" /\ ~LockedImage(w, e.found.image)
  /\ media' = Replaced(e.field, NoImage, e.found)
  /\ Refers(e.field, e.image, e.found)
  /\ pointer' = SavedCard(e.copy, e.field, e.image)
  /\ drafted' = drafted \cup {e.image} /\ edited' = edited \ {e.field}
  /\ editor' = [editor EXCEPT ![w] = NoEditor]
  /\ UNCHANGED <<stored, overlap>>

\* Another save of the card commits.
CommitOtherSave(w) ==
  LET e == editor[w] IN
  /\ EditorAt(w, "fetched") /\ e.op = "edit"
  /\ pointer' = SavedCard(e.copy, e.field, e.image)
  /\ edited' = edited \cup {f \in ImageFields : pointer'[f] # pointer[f]}
  /\ editor' = [editor EXCEPT ![w] = NoEditor]
  /\ UNCHANGED <<media, stored, reference, made, drafted, overlap>>

\* A deletion commits: the reference it found, if it is still there, goes.  The
\* card is saved if its copy has the field, if only without an image.
CommitDelete(w) ==
  LET e == editor[w] IN
  /\ EditorAt(w, "looked") /\ e.op = "delete" /\ ~LockedImage(w, e.found.image)
  /\ media' = Replaced(e.field, NoImage, e.found)
  /\ reference' = IF reference[e.field] = e.found
                  THEN [reference EXCEPT ![e.field] = NoReference] ELSE reference
  /\ \/ pointer' = SavedCard(e.copy, e.field, NoImage)
     \/ e.copy[e.field] = NoImage /\ UNCHANGED pointer
  /\ edited' = edited \ {e.field}
  /\ editor' = [editor EXCEPT ![w] = NoEditor]
  /\ UNCHANGED <<stored, made, drafted, overlap>>

\* Refused, failed on the unique constraint or anywhere else, or the process
\* dies: all is rolled back but the file.
DropImage(w) ==
  /\ editor[w] # NoEditor
  /\ editor' = [editor EXCEPT ![w] = NoEditor]
  /\ UNCHANGED <<media, stored, reference, pointer, made, drafted, edited, overlap>>

MediaNext ==
  \E w \in ImageWorkers :
    \/ \E f \in ImageFields :
         \/ FetchToDelete(w, f)
         \/ \E i \in Images : FetchToUpload(w, f, i) \/ FetchToApprove(w, f, i)
         \/ \E i \in Picture : FetchToEdit(w, f, i)
    \/ \E i \in Images : FetchToRestore(w, i)
    \/ StoreImage(w) \/ LookUpReference(w)
    \/ CommitImage(w) \/ CommitApproval(w) \/ CommitOtherSave(w) \/ CommitDelete(w)
    \/ DropImage(w)

MediaSpec == MediaInit /\ [][MediaNext]_mediaVars
-----------------------------------------------------------------------------
(* Properties *)

\* No image is lost: whatever operations overlap, one whose upload committed is
\* shown by some field or can be restored from the trash.
NoImageLost ==
  \A i \in Images : Exists(i) =>
    media[i].deleted \/ \E f \in ImageFields : reference[f].image = i

\* Every media row has its file, although storage and database fail apart.
RowsHaveFiles == \A i \in Images : Exists(i) => i \in stored

\* While the operations on a card do not overlap, its data names the active
\* reference of every field no other save has changed since, and no active
\* reference is in the trash, but for the images that a reprint's draft has put
\* in a field.  (Two restorations of one image that overlap leave it active and
\* in the trash; an upload that overlaps one of another field takes that
\* field's image out of the data.)
CardShowsReferences ==
  ~overlap =>
    \A f \in ImageFields :
      LET i == reference[f].image
      IN /\ f \notin edited => pointer[f] = i
         /\ i # NoImage /\ media[i].deleted => i \in drafted

\* What the references show, for a reader that knows nothing of rows and copies.
Promise ==
  INSTANCE AtomicImages
    WITH shown <- [f \in ImageFields |-> reference[f].image],
         trash <- {i \in Images : Exists(i) /\ media[i].deleted},
         home <- [i \in Images |-> media[i].field]

\* While the operations on a card do not overlap, each of them takes effect at
\* once: an upload, a deletion, a restoration, an approval, or nothing where it
\* fails.
ImplementsAtomicImages == ~overlap => Promise!A_Spec
=============================================================================
