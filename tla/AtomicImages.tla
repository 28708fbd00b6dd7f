---------------------------- MODULE AtomicImages ----------------------------
(***************************************************************************)
(* What the media service promises of the images of a card, with no rows   *)
(* of references, no copies and no steps: an operation happens at once.    *)
(* Each field shows an image or none; the image it shows no more goes to   *)
(* the trash, from where only its own field takes it back.  The approval   *)
(* of a reprint shows an image where it is, in the trash or not.           *)
(***************************************************************************)
CONSTANTS Images,        \* the images that may be made
          ImageFields,   \* the image fields of the card
          NoImage        \* no image, no field

VARIABLES shown,   \* the image each field shows
          trash,   \* the images in the trash
          home     \* the field each image was uploaded for

imageVars == <<shown, trash, home>>

A_Init ==
  /\ shown = [f \in ImageFields |-> NoImage] /\ trash = {}
  /\ home = [i \in Images |-> NoImage]

\* Field f shows i from now on: kept are the images left in the trash.
Show(f, i, kept) ==
  /\ shown' = [shown EXCEPT ![f] = i]
  /\ trash' = kept \cup ({shown[f]} \ {NoImage})

A_Upload(f, i) ==
  /\ home[i] = NoImage
  /\ Show(f, i, trash) /\ home' = [home EXCEPT ![i] = f]

A_Restore(i) ==
  /\ i \in trash
  /\ Show(home[i], i, trash \ {i}) /\ UNCHANGED home

A_Delete(f) == Show(f, NoImage, trash) /\ UNCHANGED home

\* Also an image in the trash, of another field, or shown already.
A_Approve(f, i) ==
  /\ home[i] # NoImage
  /\ Show(f, i, trash) /\ UNCHANGED home

A_Next ==
  \/ \E f \in ImageFields :
       A_Delete(f) \/ \E i \in Images : A_Upload(f, i) \/ A_Approve(f, i)
  \/ \E i \in Images : A_Restore(i)

A_Spec == A_Init /\ [][A_Next]_imageVars
=============================================================================
