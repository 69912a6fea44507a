----------------------------- MODULE EntityForm -----------------------------
(***************************************************************************)
(* A dialog that edits a record: opened for one record after another, it   *)
(* keeps a draft, uploads a photo, saves, and hears the answers late: when *)
(* it was closed, opened for another record, or is gone with its view.     *)
(* All write dialogs share useEntityForm and differ in what Dialog says.   *)
(* Left out: field values, validation messages, toasts, and what a dialog  *)
(* of a new instrument creates after the instrument.                       *)
(***************************************************************************)
EXTENDS Naturals, Sequences, FiniteSets

CONSTANTS Records,       \* what dialogs are opened for
          NoRecord,      \* no dialog is open
          Dialogs,       \* the dialogs to consider
          MaxOpenings,   \* bound on how often a dialog is opened
          MaxPhotos      \* bound on the photos that are uploaded

VARIABLES api,       \* the build: records and media on a server, or in the page
          dialog,    \* the dialog of this view
          form,      \* what it shows and holds
          saves,     \* writes on their way
          uploads,   \* uploads on their way
          staged,    \* stagedPhotos of each mount of the dialog
          saved,     \* the photo that a record carries
          photos,    \* the media store: photos by number, stored or released
          late       \* history: a save or a closing met an unfinished upload

formVars == <<api, dialog, form, saves, uploads, staged, saved, photos, late>>

(* stays: mounted with its view and told whether it is open; otherwise     *)
(* mounted when it opens.  guarded: cannot be closed while it saves.       *)
RoomFormDialog == [stays |-> TRUE, guarded |-> TRUE, photo |-> FALSE]
PieceFormDialog == RoomFormDialog
InstrumentFormDialog == RoomFormDialog
ClassFormDialog == RoomFormDialog
UserFormDialog == RoomFormDialog
GenerateSessionsDialog == RoomFormDialog
CorrectMarkDialog == RoomFormDialog
ConversationManagerDialog == RoomFormDialog
RescheduleSessionDialog == RoomFormDialog
CancelSessionDialog == RoomFormDialog
StudentFormDialog == [RoomFormDialog EXCEPT !.photo = TRUE]
TeacherFormDialog == StudentFormDialog
ActionSheet == [StudentFormDialog EXCEPT !.stays = FALSE]
AssignPieceDialog == [RoomFormDialog EXCEPT !.stays = FALSE]
RecordProgressDialog == AssignPieceDialog
RegisterCompensationDialog == [AssignPieceDialog EXCEPT !.guarded = FALSE]
ScheduleCompensationDialog == RegisterCompensationDialog
CompleteCompensationDialog == RegisterCompensationDialog

Dialog == [RoomFormDialog |-> RoomFormDialog, PieceFormDialog |-> PieceFormDialog,
           InstrumentFormDialog |-> InstrumentFormDialog, ClassFormDialog |-> ClassFormDialog,
           UserFormDialog |-> UserFormDialog, GenerateSessionsDialog |-> GenerateSessionsDialog,
           CorrectMarkDialog |-> CorrectMarkDialog,
           ConversationManagerDialog |-> ConversationManagerDialog,
           RescheduleSessionDialog |-> RescheduleSessionDialog,
           CancelSessionDialog |-> CancelSessionDialog, StudentFormDialog |-> StudentFormDialog,
           TeacherFormDialog |-> TeacherFormDialog, ActionSheet |-> ActionSheet,
           AssignPieceDialog |-> AssignPieceDialog, RecordProgressDialog |-> RecordProgressDialog,
           RegisterCompensationDialog |-> RegisterCompensationDialog,
           ScheduleCompensationDialog |-> ScheduleCompensationDialog,
           CompleteCompensationDialog |-> CompleteCompensationDialog]
Has(trait) == Dialog[dialog][trait]

ASSUME FormAssumption == /\ NoRecord \notin Records /\ Dialogs \subseteq DOMAIN Dialog
                         /\ MaxOpenings \in Nat /\ MaxPhotos \in Nat

NoPhoto == 0
Photo == 0..MaxPhotos
Counter == 0..MaxOpenings
Draft == [of : Records \cup {NoRecord}, photo : Photo]
Save == [view : Counter, opening : Counter, target : Records, draft : Draft,
         answer : {"none", "written", "refused"}]
Upload == [view : Counter, opening : Counter, prior : Photo]

(* A mount of the dialog, with its refs and its state.                     *)
Mount(x) == IF Has("stays") THEN x.view ELSE x.opening
Mounted(x) == x.view = form.view /\ Mount(x) = Mount(form)

FormTypeOK ==
    /\ api \in BOOLEAN /\ dialog \in Dialogs
    /\ form \in [shows : Records \cup {NoRecord}, opening : Counter, view : Counter,
                 submitting : BOOLEAN, draft : Draft]
    /\ saves \subseteq Save /\ uploads \subseteq Upload
    /\ staged \subseteq Counter \X (Photo \ {NoPhoto})
    /\ saved \in [Records -> Photo]
    /\ photos \in [1..Len(photos) -> {"stored", "released"}]
    /\ late \in BOOLEAN

FormInit ==
    /\ api \in BOOLEAN /\ dialog \in Dialogs
    /\ form = [shows |-> NoRecord, opening |-> 0, view |-> 0, submitting |-> FALSE,
               draft |-> [of |-> NoRecord, photo |-> NoPhoto]]
    /\ saves = {} /\ uploads = {} /\ staged = {} /\ photos = <<>> /\ late = FALSE
    /\ saved = [r \in Records |-> NoPhoto]

Open == form.shows # NoRecord
OfField(u) == u.view = form.view /\ u.opening = form.opening
Uploading == \E u \in uploads : OfField(u)

-----------------------------------------------------------------------------
(* The dialog is opened: a new mount, or an effect that rebuilds the draft *)
(* from the record (reset) and forgets what was staged.                    *)
OpenDialogMutant(r) ==
    /\ ~Open /\ form.opening < MaxOpenings
    /\ form' = [form EXCEPT !.shows = r, !.opening = @ + 1, !.submitting = FALSE]
    /\ staged' = {s \in staged : s[1] # Mount(form')}
    /\ UNCHANGED <<api, dialog, saves, uploads, saved, photos, late>>
OpenDialog(r) ==
    /\ ~Open /\ form.opening < MaxOpenings
    /\ form' = [shows |-> r, opening |-> form.opening + 1, view |-> form.view,
                submitting |-> FALSE, draft |-> [of |-> r, photo |-> saved[r]]]
    /\ staged' = {s \in staged : s[1] # Mount(form')}
    /\ UNCHANGED <<api, dialog, saves, uploads, saved, photos, late>>

(* Nobody checks in the page whether a record carries what is freed; the   *)
(* server does.                                                            *)
Present == {NoPhoto} \cup {p \in DOMAIN photos : photos[p] = "stored"}
Carried == {saved[r] : r \in Records}
Freed(gone) == [p \in DOMAIN photos |-> IF p \in gone /\ ~(api /\ p \in Carried)
                                        THEN "released" ELSE photos[p]]
releaseStagedMedia(gone) == photos' = Freed(gone)

(* open turns false: what is still staged in `left` is released.  A dialog *)
(* that is unmounted instead releases nothing.                             *)
releaseStagedPhotos(left) ==
    LET mine == {s \in left : s[1] = Mount(form)}
    IN IF Has("stays") THEN staged' = left \ mine /\ releaseStagedMedia({s[2] : s \in mine})
       ELSE staged' = left /\ UNCHANGED photos

CancelDialog ==
    /\ Open /\ (Has("guarded") => ~form.submitting)
    /\ form' = [form EXCEPT !.shows = NoRecord]
    /\ releaseStagedPhotos(staged)
    /\ late' = (late \/ Uploading)
    /\ UNCHANGED <<api, dialog, saves, uploads, saved>>

(* The user leaves the view, or is signed out.                             *)
LeaveView ==
    /\ form.view < form.opening
    /\ form' = [form EXCEPT !.shows = NoRecord, !.view = form.opening, !.submitting = FALSE]
    /\ late' = (late \/ Uploading)
    /\ UNCHANGED <<api, dialog, saves, uploads, staged, saved, photos>>

-----------------------------------------------------------------------------
(* The repository refuses, or writes and frees the photo it replaced       *)
(* unless another record carries it.                                       *)
Serves(c, others) ==
    \/ /\ saves' = others \cup {[c EXCEPT !.answer = "written"]}
       /\ saved' = [saved EXCEPT ![c.target] = c.draft.photo]
       /\ api => c.draft.photo \in Present
       /\ photos' = [p \in DOMAIN photos |->
             IF p = saved[c.target] /\ p \notin {saved'[r] : r \in Records} THEN "released" ELSE photos[p]]
    \/ /\ saves' = others \cup {[c EXCEPT !.answer = "refused"]}
       /\ UNCHANGED <<saved, photos>>

(* submit: submittingRef drops a second click.  The page writes within the *)
(* click and answers when the replaced photo is gone; a server, later.     *)
SaveOfDraft == [view |-> form.view, opening |-> form.opening, target |-> form.shows,
                draft |-> form.draft, answer |-> "none"]
SubmitForm ==
    /\ Open /\ ~form.submitting
    /\ form' = [form EXCEPT !.submitting = TRUE]
    /\ IF api THEN saves' = saves \cup {SaveOfDraft} /\ UNCHANGED <<saved, photos>> ELSE Serves(SaveOfDraft, saves)
    /\ late' = (late \/ Uploading)
    /\ UNCHANGED <<api, dialog, uploads, staged>>

ServeSave(c) ==
    /\ c.answer = "none" /\ Serves(c, saves \ {c})
    /\ UNCHANGED <<api, dialog, form, uploads, staged, late>>

(* onSuccess: the photo is no longer staged, and the view that asked       *)
(* closes the dialog it shows.                                             *)
Answered(c) == [form EXCEPT !.submitting = @ /\ ~Mounted(c)]
Closes(c, left) ==
    IF c.view = form.view
    THEN /\ form' = [Answered(c) EXCEPT !.shows = NoRecord]
         /\ releaseStagedPhotos(left)
         /\ late' = (late \/ Uploading)
    ELSE form' = form /\ staged' = left /\ UNCHANGED <<photos, late>>
SaveSucceeds(c) ==
    /\ c.answer = "written" /\ saves' = saves \ {c}
    /\ Closes(c, staged \ {<<Mount(c), c.draft.photo>>})
    /\ UNCHANGED <<api, dialog, uploads, saved>>

(* A refusal, or an answer of the server that was lost: the dialog stays.   *)
SaveFails(c) ==
    /\ c.answer = "refused" \/ api
    /\ saves' = saves \ {c} /\ form' = Answered(c)
    /\ UNCHANGED <<api, dialog, uploads, staged, saved, photos, late>>

-----------------------------------------------------------------------------
(* ProfilePhotoField: one upload at a time, none while the form saves.     *)
PickPhoto ==
    /\ Open /\ Has("photo") /\ ~form.submitting /\ ~Uploading
    /\ Len(photos) + Cardinality(uploads) < MaxPhotos
    /\ uploads' = uploads \cup {[view |-> form.view, opening |-> form.opening, prior |-> form.draft.photo]}
    /\ UNCHANGED <<api, dialog, form, saves, staged, saved, photos, late>>

RemovePhoto ==
    LET mine == <<Mount(form), form.draft.photo>>
    IN /\ Open /\ ~form.submitting /\ ~Uploading /\ form.draft.photo # NoPhoto
       /\ form' = [form EXCEPT !.draft.photo = NoPhoto]
       /\ staged' = staged \ {mine}
       /\ releaseStagedMedia(IF mine \in staged THEN {form.draft.photo} ELSE {})
       /\ UNCHANGED <<api, dialog, saves, uploads, saved, late>>

(* upload goes on when the field is gone, and hands its photo to the       *)
(* changePhoto of the mount it began in.                                   *)
UploadDone(u) ==
    LET p == Len(photos) + 1
        replaced == <<Mount(u), u.prior>>
    IN /\ uploads' = uploads \ {u}
       /\ photos' = Append(Freed(IF replaced \in staged THEN {u.prior} ELSE {}), "stored")
       /\ staged' = (staged \ {replaced}) \cup {<<Mount(u), p>>}
       /\ form' = IF Mounted(u) THEN [form EXCEPT !.draft.photo = p] ELSE form
       /\ UNCHANGED <<api, dialog, saves, saved, late>>
UploadFails(u) == uploads' = uploads \ {u} /\ UNCHANGED <<api, dialog, form, saves, staged, saved, photos, late>>

FormNext ==
    \/ \E r \in Records : OpenDialog(r)
    \/ CancelDialog \/ LeaveView \/ SubmitForm \/ PickPhoto \/ RemovePhoto
    \/ \E c \in saves : ServeSave(c) \/ SaveSucceeds(c) \/ SaveFails(c)
    \/ \E u \in uploads : UploadDone(u) \/ UploadFails(u)
FormSpec == FormInit /\ [][FormNext]_formVars

-----------------------------------------------------------------------------
(* A dialog writes to the record it shows only what was drafted for that   *)
(* record; and a guarded one awaits, as long as its view stands, a single  *)
(* write, of the opening that is still on the screen, so that its answer   *)
(* closes no other.                                                        *)
FormsWriteWhatTheyShow ==
    /\ \A c \in saves : c.draft.of = c.target
    /\ Has("guarded") =>
         \A c \in saves : c.view = form.view
             => /\ c.opening = form.opening /\ c.target = form.shows
                /\ \A d \in saves : d.view = c.view => d = c

(* The photo of a record is never freed by the dialog that saved it, nor   *)
(* by a later one, whatever is retried, refused or lost; unless a save or  *)
(* a closing met an unfinished upload.                                     *)
SavedPhotosSurvive ==
    late \/ \A r \in Records : saved[r] \in Present

(* What a dialog shows is what it writes, and it stays written.            *)
FormsKeepTheirWord == FormsWriteWhatTheyShow /\ SavedPhotosSurvive
=============================================================================
