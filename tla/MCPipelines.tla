----------------------------- MODULE MCPipelines -----------------------------
(***************************************************************************)
(* Instances for TLC of the modules about what goes into the cards and out *)
(* of them: imports, images, exports, reprints and the sandbox.  They      *)
(* share no variable, so a behaviour of the run is one of a single module, *)
(* chosen at the start: the others keep still, and the states add up       *)
(* instead of multiplying.                                                 *)
(***************************************************************************)
EXTENDS ExportRun, Reprints, ImportRun, MediaFiles, SandboxOverlay, TLC

CONSTANTS k1,  \* the card of all reprint requests
          e1   \* the card that requests save a copy of while it is exported

\* Exports of all cards and of the APPROVED ones to a document, and of all
\* cards to an archive.
Scopes ==
  {[type |-> "document", ids |-> {}, status |-> None],
   [type |-> "document", ids |-> {}, status |-> "APPROVED"],
   [type |-> "zip", ids |-> {}, status |-> None]}

\* Bound: one of the exported cards is saved by others, the second only edited.
OneSavedByOthers == \A r \in ExportRequests : held[r].card \in {e1, None}

\* Bound: saves that change no reference are left out where operations overlap.
SavesAlone ==
  overlap => \A w \in ImageWorkers : editor[w] # NoEditor => editor[w].op # "edit"

\* Images, fields and their workers are interchangeable.
ImageSymmetry ==
  Permutations(Images) \cup Permutations(ImageFields) \cup Permutations(ImageWorkers)

OneCard == [r \in ReprintRequests |-> k1]

\* The first two rows of the workbook have the same value.
SameValue == CHOOSE v \in ImportValues : TRUE
Repeated == [r \in 1..ImportRows |-> IF r <= 2 THEN SameValue ELSE NoValue]

VARIABLE focus  \* the module whose behaviour this is

vars == <<focus, exportVars, reprintVars, importVars, mediaVars, sandboxVars>>

Init ==
  /\ focus \in {"export", "reprint", "import", "media", "sandbox"}
  /\ ExportInit /\ ReprintInit /\ ImportInit /\ MediaInit
  /\ SandboxInit
  \* one initial state for the modules that keep still
  /\ focus # "media" => overlap
  /\ focus # "sandbox" => production = [c \in SandboxCards |-> "PENDING"]

Next ==
  /\ UNCHANGED focus
  /\ \/ /\ focus = "export" /\ ExportNext
        /\ UNCHANGED <<reprintVars, importVars, mediaVars, sandboxVars>>
     \/ /\ focus = "reprint" /\ ReprintNext
        /\ UNCHANGED <<exportVars, importVars, mediaVars, sandboxVars>>
     \/ /\ focus = "import" /\ ImportNext
        /\ UNCHANGED <<exportVars, reprintVars, mediaVars, sandboxVars>>
     \/ /\ focus = "media" /\ MediaNext
        /\ UNCHANGED <<exportVars, reprintVars, importVars, sandboxVars>>
     \/ /\ focus = "sandbox" /\ SandboxNext
        /\ UNCHANGED <<exportVars, reprintVars, importVars, mediaVars>>

Spec == Init /\ [][Next]_vars

\* The types of all five modules.
TypeOK ==
  ExportTypeOK /\ ReprintTypeOK /\ ImportTypeOK /\ MediaTypeOK /\ SandboxTypeOK
=============================================================================
