------------------------------ MODULE AudiosPage ------------------------------
(***************************************************************************)
(* The page with the clips (routes/audios.tsx): the form that a clip is    *)
(* chosen, converted and uploaded with, while conversions take their time, *)
(* and the two-step delete of a row.                                       *)
(***************************************************************************)
EXTENDS Naturals, FiniteSets

CONSTANTS Clips,       \* the uploaded clips in the list
          NoClip,
          MaxChoices   \* bound: changes of the chosen file

VARIABLES selection,   \* selectionRef: counts the changes of the choice
          converting,  \* whether the button says so
          ready,       \* file: the choice that may be uploaded, or 0
          title,       \* 0 for none, the choice it was taken from, or Typed
          converters,  \* the choices being converted
          chosen,      \* what the author chose last, 0 for nothing
          upload,      \* the upload on its way: its choice and how far it is
          toDelete,    \* pendingDeleteId
          deletes      \* the deletes on their way

audiosPageVars == <<selection, converting, ready, title, converters, chosen,
                    upload, toDelete, deletes>>

NoUploadSent == [choice |-> 0, at |-> "none"]
Typed == MaxChoices + 1

AudiosPageInit ==
  /\ selection = 0 /\ converting = FALSE /\ ready = 0 /\ title = 0
  /\ converters = {} /\ chosen = 0
  /\ upload = NoUploadSent
  /\ toDelete = NoClip /\ deletes = {}

formVars == <<selection, converting, ready, title, converters, chosen>>
rowVars == <<toDelete, deletes>>

-----------------------------------------------------------------------------

ChooseClip ==
  /\ selection < MaxChoices
  /\ selection' = selection + 1 /\ chosen' = selection'
  /\ ready' = 0 /\ converting' = TRUE /\ title' = selection'
  /\ converters' = converters \cup {selection'}
  /\ UNCHANGED <<upload, rowVars>>

ChooseNone ==
  /\ selection < MaxChoices
  /\ selection' = selection + 1 /\ chosen' = 0
  /\ ready' = 0 /\ converting' = FALSE
  /\ UNCHANGED <<title, converters, upload, rowVars>>

(* Slip: whatever was chosen meanwhile.                                    *)
StillChosenAlways(choice) == TRUE

StillChosen(choice) == choice = selection

(* A file comes out of it, converted or as it was; or a refusal, because   *)
(* it is too large, too long, misnamed or nothing the browser can read.    *)
ConversionEnds(choice) ==
  /\ converters' = converters \ {choice}
  /\ IF StillChosen(choice) THEN ready' \in {0, choice} /\ converting' = FALSE
     ELSE UNCHANGED <<ready, converting>>
  /\ UNCHANGED <<selection, title, chosen, upload, rowVars>>

TypeTitle ==
  /\ title' \in {0, Typed} \ {title}
  /\ UNCHANGED <<selection, converting, ready, converters, chosen, upload, rowVars>>

Submit ==
  /\ ready # 0 /\ ~ converting /\ title # 0 /\ upload.at = "none"
  /\ upload' = [choice |-> ready, at |-> "sent"]
  /\ UNCHANGED <<formVars, rowVars>>

(* Slip: a conversion under way is not told.                               *)
ResetFormAlone == converting' = FALSE /\ ready' = 0 /\ title' = 0 /\ UNCHANGED selection

ResetForm == selection' = selection + 1 /\ converting' = FALSE /\ ready' = 0 /\ title' = 0

(* The form is cleared whatever is in it by now; the button waits for the  *)
(* list besides.                                                           *)
UploadSucceeds ==
  /\ upload.at = "sent" /\ upload' = [upload EXCEPT !.at = "listed"]
  /\ ResetForm /\ chosen' = 0
  /\ UNCHANGED <<converters, rowVars>>

UploadEnds ==
  /\ upload.at # "none" /\ upload' = NoUploadSent
  /\ UNCHANGED <<formVars, rowVars>>

AskClipDelete(clip) ==
  /\ toDelete # clip /\ toDelete' = clip
  /\ UNCHANGED <<formVars, upload, deletes>>

CancelClipDelete ==
  /\ toDelete # NoClip /\ toDelete' = NoClip
  /\ UNCHANGED <<formVars, upload, deletes>>

ConfirmClipDelete ==
  /\ toDelete # NoClip /\ deletes' = deletes \cup {toDelete}
  /\ UNCHANGED <<formVars, upload, toDelete>>

(* Deleted or refused, the question is gone, whichever row it is of now.   *)
ClipDeleteEnds(clip) ==
  /\ deletes' = deletes \ {clip} /\ toDelete' = NoClip
  /\ UNCHANGED <<formVars, upload>>

AudiosPageNext ==
  \/ ChooseClip \/ ChooseNone \/ TypeTitle \/ Submit
  \/ \E choice \in converters : ConversionEnds(choice)
  \/ UploadSucceeds \/ UploadEnds
  \/ \E clip \in Clips : AskClipDelete(clip)
  \/ CancelClipDelete \/ ConfirmClipDelete
  \/ \E clip \in deletes : ClipDeleteEnds(clip)

AudiosPageSpec == AudiosPageInit /\ [][AudiosPageNext]_audiosPageVars

-----------------------------------------------------------------------------
(* What can be uploaded is what was chosen last, however many conversions  *)
(* are under way and in whichever order they end, and the button says      *)
(* Converting only while that choice is converted (audios.tsx:44-46,       *)
(* 73-82, 116-165).                                                        *)
ClipIsTheLastChoice ==
  /\ ready \in {0, chosen}
  /\ converting => chosen # 0 /\ chosen \in converters
=============================================================================
