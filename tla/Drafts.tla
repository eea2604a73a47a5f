--------------------------------- MODULE Drafts ---------------------------------
(***************************************************************************)
(* The draft of the create page (frontend/app/create/page.tsx with         *)
(* lib/useLocalStorage.ts): edits are saved a second after the last of     *)
(* them, templates at once.  An effect on the saved draft writes it back   *)
(* into the form; it runs with the change that causes it.                  *)
(*                                                                         *)
(* A form is its title, its description and the rest of its fields, 0 when *)
(* empty or untouched.  Storage that cannot be read or written is left out.*)
(***************************************************************************)
EXTENDS Integers

CONSTANTS
  Titles, Descriptions, Others,  \* what may be typed or chosen, 0 included
  Templates                      \* <<description, rest>> of the templates that are not blank

VARIABLES
  disk,        \* the localStorage entry
  savedDraft,  \* storedValue of useLocalStorage, None when it is the initial one
  form,
  step,
  banner,      \* showDraftRestore
  timer,       \* the form the debounced save will write
  last         \* history: what the user last made of the form, until given up

vars == <<disk, savedDraft, form, step, banner, timer, last>>

None == [title |-> -1, description |-> -1, rest |-> -1]
EMPTY_FORM == [title |-> 0, description |-> 0, rest |-> 0]

Init ==
  /\ disk = None
  /\ savedDraft = None
  /\ form = EMPTY_FORM
  /\ step = "edit"
  /\ banner = FALSE
  /\ timer = None
  /\ last = None

HasText(f) == f # None /\ (f.title # 0 \/ f.description # 0)

(* saveDraft, and the effect: a draft without title and description is not *)
(* put into the form, which is emptied instead.                            *)
Save(f) ==
  /\ disk' = f
  /\ savedDraft' = f
  /\ form' = IF HasText(f) THEN f ELSE EMPTY_FORM
  /\ banner' = (banner \/ HasText(f))

------------------------------------------------------------------------------

(* A field is edited.                                                      *)
set(f) ==
  /\ step = "edit"
  /\ f # form
  /\ form' = f
  /\ timer' = f
  /\ last' = f
  /\ UNCHANGED <<disk, savedDraft, step, banner>>

Edited ==
  {[form EXCEPT !.title = x] : x \in Titles}
    \cup {[form EXCEPT !.description = x] : x \in Descriptions}
    \cup {[form EXCEPT !.rest = x] : x \in Others}

TimerFires ==
  /\ timer # None
  /\ timer' = None
  /\ Save(timer)
  /\ UNCHANGED <<step, last>>

(* Mutant: the pending save is forgotten.                                  *)
StillPending == timer

Cleared == None

(* The picker is there while there is no description.                      *)
applyTemplate(template) ==
  /\ step = "edit"
  /\ form.description = 0
  /\ LET f == [form EXCEPT !.description = template[1], !.rest = template[2]]
     IN  Save(f) /\ last' = f
  /\ timer' = Cleared
  /\ UNCHANGED step

handleRestoreDraft ==
  /\ banner
  /\ banner' = FALSE
  /\ UNCHANGED <<disk, savedDraft, form, step, timer, last>>

(* The banner is there in every step.  The pending save stays.             *)
handleDiscardDraft ==
  /\ banner
  /\ disk' = None
  /\ savedDraft' = None
  /\ form' = EMPTY_FORM
  /\ banner' = FALSE
  /\ last' = None
  /\ UNCHANGED <<step, timer>>

(* A missing title stops it; a missing description does not, when the      *)
(* preview stands in the place of its field.                               *)
Review ==
  /\ step = "edit"
  /\ form.title # 0
  /\ step' = "review"
  /\ UNCHANGED <<disk, savedDraft, form, banner, timer, last>>

EditAgain ==
  /\ step = "review"
  /\ step' = "edit"
  /\ UNCHANGED <<disk, savedDraft, form, banner, timer, last>>

(* The form is emptied too when there was a saved draft.                   *)
handleSubmit ==
  /\ step = "review"
  /\ step' = "submitted"
  /\ disk' = None
  /\ savedDraft' = None
  /\ form' = IF savedDraft = None THEN form ELSE EMPTY_FORM
  /\ last' = None
  /\ UNCHANGED <<banner, timer>>

Another ==
  /\ step = "submitted"
  /\ step' = "edit"
  /\ form' = EMPTY_FORM
  /\ last' = None
  /\ UNCHANGED <<disk, savedDraft, banner, timer>>

(* The page is loaded anew: what was not saved yet is gone.                *)
Reload ==
  /\ disk' = disk
  /\ savedDraft' = disk
  /\ form' = IF HasText(disk) THEN disk ELSE EMPTY_FORM
  /\ step' = "edit"
  /\ banner' = HasText(disk)
  /\ timer' = None
  /\ last' = disk

Next ==
  \/ \E f \in Edited : set(f)
  \/ \E template \in Templates : applyTemplate(template)
  \/ TimerFires
  \/ handleRestoreDraft \/ handleDiscardDraft
  \/ Review \/ EditAgain \/ handleSubmit \/ Another
  \/ Reload

Spec == Init /\ [][Next]_vars

------------------------------------------------------------------------------
(* Properties.                                                             *)

(* Once the save is done, what the user typed or took from a template last *)
(* is in the form and in the storage, whole, unless it has neither title   *)
(* nor description, or was given up since; and so it is after a reload.    *)
DraftIsKept ==
  timer = None /\ HasText(last) =>
    /\ form = last
    /\ disk = last
==============================================================================
