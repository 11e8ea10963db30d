------------------------------- MODULE Editors -------------------------------
(***************************************************************************)
(* One form of the web client at work, whichever of EditorForms it is: the *)
(* user opens it, types, saves and cancels while requests are under way,   *)
(* and what follows an `await mutateAsync(...)` runs when the answer comes *)
(* - on whatever the page shows by then.                                   *)
(***************************************************************************)
EXTENDS Integers, EditorForms

CONSTANTS
  Rows,       \* rows of the page
  Saves,      \* requests that may be under way at a time
  MaxTimers   \* bound on the timers that run at a time

ASSUME EditorsAssumption ==
  /\ Rows \cap {"new", "closed", "loading", "failed", "none"} = {}
  /\ MaxTimers \in Nat

VARIABLES
  form,      \* which form it is
  open,      \* what the form is open for: a row, "new" or "closed"
  source,    \* the row its fields were filled from
  text,      \* "clean", "typed" and not saved, or "sent" with a save under way
  hurried,   \* a request or a timer was under way when the form was opened or typed into
  saves,     \* the requests under way
  timers,    \* timers that are to close the form
  verdict    \* of the save that ended last: "none", "saved" or "refused"

editorVars == <<form, open, source, text, hurried, saves, timers, verdict>>

Kind(target) == IF target \in Rows THEN "row" ELSE target
Targets == {target \in Rows \cup {"new"} : Kind(target) \in form.edits}

\* mine: sent from the present opening of the form.
NoSave == [target |-> "none", source |-> "none", mine |-> FALSE]
Disown == [s \in Saves |-> [saves[s] EXCEPT !.mine = FALSE]]

UnderWay(s) == saves[s] # NoSave
Busy == timers > 0 \/ \E s \in Saves : UnderWay(s)

Empty(target) ==
  /\ open' = target
  /\ text' = "clean"
  /\ saves' = Disown

EditorInit ==
  /\ form \in Forms
  /\ open \in IF form.place = "fixed" THEN Targets ELSE {"closed"}
  /\ source = IF form.seed = "remembered" THEN "new" ELSE open
  /\ text = "clean" /\ hurried = FALSE
  /\ saves = [s \in Saves |-> NoSave]
  /\ timers = 0 /\ verdict = "none"

-----------------------------------------------------------------------------
\* The button of a row, or the one for a new row.
Reaches(target) ==
  /\ form.place # "fixed"
  /\ open = "closed" \/ (form.place = "beside" /\ open # target)

\* React keeps the component that is there, with its state, or the state is the page's.
Keeps(target) ==
  \/ form.seed = "kept" /\ open \in Rows /\ target \in Rows
  \/ form.seed = "remembered"

Filled(target) == IF form.seed = "loaded" THEN "loading" ELSE target

\* Mutant of OpenFor: the fields are filled when the form appears, not when it turns to
\* another row.
OpenOnce(target) ==
  /\ Reaches(target) /\ ~Keeps(target)
  /\ source' = IF open = "closed" THEN Filled(target) ELSE source
  /\ Empty(target)

OpenFor(target) ==
  /\ Reaches(target) /\ ~Keeps(target)
  /\ source' = Filled(target)
  /\ Empty(target)

OpenAgain(target) ==
  /\ Reaches(target) /\ Keeps(target)
  /\ open' = target
  /\ UNCHANGED <<source, text, saves>>

Open ==
  /\ \E target \in Targets : OpenFor(target) \/ OpenAgain(target)
  /\ hurried' = Busy
  /\ UNCHANGED <<form, timers, verdict>>

\* The query of the form answers, perhaps after it has failed.
Load ==
  /\ source \in {"loading", "failed"}
  /\ source' = open /\ text' = "clean"
  /\ UNCHANGED <<form, open, hurried, saves, timers, verdict>>

\* isLoading ends as well when the query has failed: the form is empty and can be saved.
LoadFails ==
  /\ source = "loading"
  /\ source' = "failed"
  /\ UNCHANGED <<form, open, text, hurried, saves, timers, verdict>>

Usable == open # "closed" /\ source # "loading"

Type ==
  /\ Usable
  /\ text' = "typed"
  /\ hurried' = Busy
  /\ UNCHANGED <<form, open, source, saves, timers, verdict>>

\* Leaves the request under way alone.
Cancel ==
  /\ form.place # "fixed" /\ open # "closed"
  /\ IF form.seed = "remembered"
     THEN open' = "closed" /\ UNCHANGED <<source, text, saves>>
     ELSE Empty("closed") /\ source' = "closed"
  /\ UNCHANGED <<form, hurried, timers, verdict>>

-----------------------------------------------------------------------------
\* Whether a request under way disables the button.
Disabled ==
  \E s \in Saves :
    /\ UnderWay(s)
    /\ form.guard = "kind" => Kind(saves[s].target) = Kind(open)
    /\ form.guard = "dialog" => saves[s].mine

Save(s) ==
  /\ Usable /\ ~Disabled /\ ~UnderWay(s)
  /\ saves' = [saves EXCEPT ![s] = [target |-> open, source |-> source, mine |-> TRUE]]
  /\ text' = "sent"
  /\ hurried' = Busy
  /\ UNCHANGED <<form, open, source, timers, verdict>>

End(s) == [saves EXCEPT ![s] = NoSave]

\* The dialog on the screen is the one that the code after the await closes.
Hits(s) ==
  LET kind == Kind(saves[s].target) IN
  open # "closed" /\ (kind \in form.apart => Kind(open) = kind)

Close(s) ==
  /\ form.ends = "closes" /\ Hits(s)
  /\ open' = "closed" /\ source' = IF form.seed = "remembered" THEN source ELSE "closed"
  /\ text' = "clean"
  /\ saves' = [Disown EXCEPT ![s] = NoSave]
  /\ UNCHANGED timers

\* The dialog is gone already; what the page remembers of it is emptied all the same.
Pass(s) ==
  /\ form.ends = "closes" /\ ~Hits(s)
  /\ saves' = End(s)
  /\ IF form.seed = "remembered" THEN text' = "clean" ELSE UNCHANGED text
  /\ UNCHANGED <<open, source, timers>>

Clear(s) ==
  /\ form.ends = "clears"
  /\ saves' = [Disown EXCEPT ![s] = NoSave]
  /\ text' = "clean"
  /\ UNCHANGED <<open, source, timers>>

Remain(s) ==
  /\ form.ends \in {"stays", "timer"}
  /\ timers' = IF form.ends = "timer" THEN timers + 1 ELSE timers
  /\ timers' <= MaxTimers
  /\ saves' = End(s)
  /\ text' = IF saves[s].mine /\ text = "sent" THEN "clean" ELSE text
  /\ UNCHANGED <<open, source>>

\* What follows the await.
Answer(s) ==
  /\ UnderWay(s)
  /\ Close(s) \/ Pass(s) \/ Clear(s) \/ Remain(s)
  /\ verdict' = "saved"
  /\ UNCHANGED <<form, hurried>>

TimerFires ==
  /\ timers > 0
  /\ timers' = timers - 1
  /\ Empty("closed") /\ source' = "closed"
  /\ UNCHANGED <<form, hurried, verdict>>

\* Mutant of Refuse: the form is closed whether or not the save went well.
RefuseClosing(s) ==
  /\ UnderWay(s)
  /\ saves' = [Disown EXCEPT ![s] = NoSave]
  /\ open' = (IF form.place = "fixed" THEN open ELSE "closed") /\ text' = "clean"
  /\ verdict' = "refused"
  /\ UNCHANGED <<form, source, hurried, timers>>

\* The save is refused or its answer is lost: an error message, and the text stays.
Refuse(s) ==
  /\ UnderWay(s)
  /\ saves' = End(s)
  /\ text' = IF saves[s].mine /\ text = "sent" THEN "typed" ELSE text
  /\ verdict' = "refused"
  /\ UNCHANGED <<form, open, source, hurried, timers>>

\* The data of the page is replaced.
Reseed ==
  /\ form.seed = "live"
  /\ text' = "clean"
  /\ UNCHANGED <<form, open, source, hurried, saves, timers, verdict>>

EditorNext ==
  \/ Open \/ Load \/ LoadFails \/ Type \/ Cancel
  \/ \E s \in Saves : Save(s) \/ Answer(s) \/ Refuse(s)
  \/ TimerFires \/ Reseed

EditorSpec == EditorInit /\ [][EditorNext]_editorVars

-----------------------------------------------------------------------------
Sources == Rows \cup {"new", "closed", "loading", "failed"}

EditorTypeOK ==
  /\ form \in Forms
  /\ open \in Rows \cup {"new", "closed"}
  /\ source \in Sources
  /\ text \in {"clean", "typed", "sent"}
  /\ hurried \in BOOLEAN
  /\ saves \in [Saves -> [target : Rows \cup {"new", "none"}, source : Sources \cup {"none"},
                          mine : BOOLEAN]]
  /\ timers \in 0..MaxTimers
  /\ verdict \in {"none", "saved", "refused"}

\* A save writes to the row that its text was filled from.  Two forms are the exceptions:
\* TeamForm, which keeps the fields of the team it was open for when another is chosen,
\* and still never sends a team's fields as a new one; and PermissionMatrix, which after
\* a failed load replaces the permissions of the user by what was typed into an empty
\* matrix.
RightRow ==
  \A s \in Saves : UnderWay(s) =>
    \/ saves[s].source = saves[s].target
    \/ form.seed = "kept" /\ Kind(saves[s].source) = Kind(saves[s].target)
    \/ saves[s].source = "failed"

\* The code takes typed text away only with the answer of the save that sent it: a
\* refused save leaves it in the form.  Only who opened the form or typed while another
\* request was under way can lose it to the late answer, which closes or clears whatever
\* is there; and a form with live fields or after a failed load is filled again.
InputKept ==
  [][ text # "clean" /\ text' = "clean" /\ ~(Open \/ Cancel)
      => \/ /\ text = "sent" /\ verdict' = "saved"
            /\ \E s \in Saves : saves[s].mine /\ saves'[s] = NoSave
         \/ hurried
         \/ form.seed = "live"
         \/ source = "failed" ]_editorVars
=============================================================================
