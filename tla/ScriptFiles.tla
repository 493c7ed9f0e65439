---------------------------- MODULE ScriptFiles ----------------------------
(***************************************************************************)
(* The script library of the editor (dbc-ui/src/main.rs, scripts.rs and    *)
(* dbc-state/src/fsutil.rs): opening a file into an editor tab, saving it, *)
(* the dialogs that create, rename and delete files, and the question      *)
(* asked before unsaved text is dropped.                                   *)
(*                                                                         *)
(* Every file operation runs in the background; what it does to the editor *)
(* happens when it lands, after a check that the user has not moved on     *)
(* meanwhile.  The checks look at the tab that is ACTIVE at the landing,   *)
(* except where the code names the tab that asked.                         *)
(***************************************************************************)
EXTENDS Naturals, FiniteSets

CONSTANTS
    Editors,    \* editor tabs
    Paths,      \* files of the library
    Texts,      \* what a buffer or a file may hold
    Empty,      \* the empty text
    Nil,        \* no path, no text, no grant, nothing open
    FirstTab, FirstFile, FirstText,   \* the tab, the one file and its text at the start
    MaxAsks     \* bound: commands the user gives, typing and dialogs' answers apart

Absent == "absent"   \* no file
Torn == "torn"       \* a file whose bytes are not all there

Dialog == "dialog"   \* the name and delete dialogs' background operation
Workers == Editors \cup {Dialog}

Stages == {"idle", "probe", "create", "fill", "rename", "move", "remove", "ok", "failed"}
Contents == Texts \cup {Torn}
Buffers == [buffer : Contents, path : Paths \cup {Nil}, saved : Contents \cup {Nil},
            generation : Nat, grant : Nat \cup {Nil}, saving : BOOLEAN]
Parked == [kind : {"open", "unbind", "load", "close"}, path : Paths \cup {Nil},
           text : Texts \cup {Nil}, tab : Editors]
Modals == [kind : {"create", "rename", "delete"}, path : Paths, to : Paths, running : BOOLEAN]
Pickers == [tab : Editors, text : Contents, generation : Nat]
Readings == [path : Paths, generation : Nat, text : Contents, result : Contents \cup {Absent, Nil}]
Jobs == [stage : Stages, path : Paths \cup {Nil}, text : Contents \cup {Nil}, generation : Nat]

ASSUME ScriptFilesAssumption ==
    /\ FirstTab \in Editors /\ FirstFile \in Paths /\ FirstText \in Texts
    /\ Empty \in Texts /\ MaxAsks \in Nat
    /\ {Absent, Torn} \cap Texts = {} /\ Dialog \notin Editors
    /\ Nil \notin Texts \cup Paths \cup {Absent, Torn} /\ Nil \notin Nat
    /\ Nil \notin Parked /\ Nil \notin Modals /\ Nil \notin Pickers /\ Nil \notin Readings

VARIABLES
    \* the file system
    disk,       \* what each path holds
    tmp,        \* what its <path>.tmp holds
    \* the view
    tabs,       \* the editor tabs that exist
    active,
    tab,        \* of each tab: buffer, binding, generation, grant, save flag
    modal,      \* the name or delete dialog, or Nil
    discard,    \* the action parked behind the discard question, or Nil
    picker,     \* the save dialog of the system, or Nil
    \* the background
    job,        \* of each tab its save, and the dialogs' operation
    read,       \* the read of an open_script, or Nil
    asks,
    \* for the properties only
    crossed,    \* another tab became active, or a save landed under the read of
                \* an open_script, while something was pending
    gone,       \* files the user has deleted, and nobody has written since
    agreed      \* of each tab, the buffer the user agreed to lose

files == <<disk, tmp>>
tabVars == <<tabs, active, tab>>
dialogs == <<modal, discard, picker>>
ghosts == <<crossed, gone, agreed>>
filesVars == <<files, tabVars, dialogs, job, read, asks, ghosts>>

FilesTypeOK ==
    /\ disk \in [Paths -> Contents \cup {Absent}] /\ tmp \in [Paths -> Contents \cup {Absent}]
    /\ active \in tabs /\ tabs \subseteq Editors
    /\ tab \in [Editors -> Buffers]
    /\ \A e \in Editors : (tab[e].path = Nil) = (tab[e].saved = Nil)
    /\ modal \in Modals \cup {Nil} /\ discard \in Parked \cup {Nil} /\ picker \in Pickers \cup {Nil}
    /\ job \in [Workers -> Jobs] /\ read \in Readings \cup {Nil} /\ asks \in 0 .. MaxAsks
    /\ crossed \in BOOLEAN /\ gone \subseteq Editors \X Paths
    /\ agreed \in [Editors -> Contents \cup {Nil}]
    /\ \A e \in tabs : tab[e].saving = (job[e].stage # "idle")
    /\ modal # Nil => modal.running = (job[Dialog].stage # "idle")
    /\ modal = Nil => job[Dialog].stage = "idle"
    /\ modal = Nil \/ discard = Nil

FreshTab == [buffer |-> Empty, path |-> Nil, saved |-> Nil, generation |-> 0,
          grant |-> Nil, saving |-> FALSE]
Idle == [stage |-> "idle", path |-> Nil, text |-> Nil, generation |-> 0]

FilesInit ==
    /\ disk = [p \in Paths |-> IF p = FirstFile THEN FirstText ELSE Absent]
    /\ tmp = [p \in Paths |-> Absent]
    /\ active = FirstTab /\ tabs = {active}
    /\ tab = [e \in Editors |-> FreshTab]
    /\ modal = Nil /\ discard = Nil /\ picker = Nil
    /\ job = [w \in Workers |-> Idle]
    /\ read = Nil
    /\ asks = 0
    /\ crossed = FALSE /\ gone = {} /\ agreed = [e \in Editors |-> Nil]

-----------------------------------------------------------------------------
(* The binding and its guards *)

Here == tab[active]

(* script_is_dirty: never, while nothing is bound.                         *)
IsDirty(t) == t.path # Nil /\ t.buffer # t.saved
Dirty(e) == IsDirty(tab[e])

(* set_script_binding: refreshing saved_text is not a move.                *)
Bound(t, p, text) ==
    [t EXCEPT !.path = p, !.saved = text,
              !.generation = IF t.path = p THEN @ ELSE @ + 1]

(* supersede_script_continuations                                          *)
Superseded(t) == [t EXCEPT !.generation = @ + 1]

(* with_editor_replaceable around bind_script and LoadText: the buffer is  *)
(* clean, or the user has agreed to lose it, an answer that is spent once. *)
Replaced(t, text, p) ==
    LET new == Bound([t EXCEPT !.buffer = text], p, IF p = Nil THEN Nil ELSE text)
    IN  CASE ~IsDirty(t) -> new
          [] IsDirty(t) /\ t.grant = t.generation -> [new EXCEPT !.grant = Nil]
          [] OTHER -> t

(* Nothing covers the editor (script_save_allowed): a dialog takes the     *)
(* clicks on the tree and what is typed.                                   *)
Uncovered == modal = Nil /\ discard = Nil

Pending == (\E w \in Workers : job[w].stage # "idle") \/ read # Nil \/ picker # Nil
Busy == Pending \/ discard # Nil

Ask == asks < MaxAsks /\ asks' = asks + 1

Type(text) ==
    /\ Uncovered /\ text # Here.buffer
    /\ tab' = [tab EXCEPT ![active].buffer = text]
    /\ UNCHANGED <<files, tabs, active, dialogs, job, read, asks, ghosts>>

-----------------------------------------------------------------------------
(* Replacing the buffer, or dropping its binding *)

(* perform_script_action on the active tab, whose state is t.  Opening     *)
(* (open_script) dispatches the read with what the guard has looked at.    *)
Perform(a, t) ==
    \/ /\ a.kind = "open"
       /\ read = Nil   \* bound: one read at a time
       /\ read' = [path |-> a.path, generation |-> t.generation, text |-> t.buffer,
                   result |-> Nil]
       /\ tab' = [tab EXCEPT ![active] = t]
    \/ /\ a.kind = "unbind"
       /\ tab' = [tab EXCEPT ![active] = Bound(t, Nil, Nil)]
       /\ UNCHANGED read
    \/ /\ a.kind = "load"
       /\ tab' = [tab EXCEPT ![active] = Replaced(t, a.text, Nil)]
       /\ UNCHANGED read

(* What the tree, the history and the caption ask for.                     *)
Action(kind, p, text) == [kind |-> kind, path |-> p, text |-> text, tab |-> active]
Commands ==
    {Action("open", p, Nil) : p \in {q \in Paths : disk[q] # Absent}}
    \cup {Action("load", Nil, text) : text \in Texts}
    \cup (IF Here.path # Nil THEN {Action("unbind", Nil, Nil)} ELSE {})

(* editor_load_guarded: a dirty script asks first.                         *)
LoadGuarded ==
    /\ Uncovered /\ Ask
    /\ \E a \in Commands :
         IF Dirty(active)
         THEN discard' = a /\ UNCHANGED <<tab, read>>
         ELSE Perform(a, Here) /\ UNCHANGED discard
    /\ UNCHANGED <<files, tabs, active, modal, picker, job, ghosts>>

ReadFile ==
    /\ read # Nil /\ read.result = Nil
    /\ read' = [read EXCEPT !.result = disk[read.path]]
    /\ UNCHANGED <<files, tabVars, dialogs, job, asks, ghosts>>

(* script_open_abort_reason: binding and buffer must have stood still.     *)
MovedOn == Here.generation # read.generation \/ Here.buffer # read.text

(* Mutant: the buffer is not compared.                                     *)
OpenLands_Blind ==
    /\ read # Nil /\ read.result # Nil
    /\ read' = Nil
    /\ tab' = IF Here.generation # read.generation \/ read.result = Absent THEN tab
              ELSE [tab EXCEPT ![active] = Replaced(@, read.result, read.path)]
    /\ UNCHANGED <<files, tabs, active, dialogs, job, asks, ghosts>>

(* The continuation of open_script.                                        *)
OpenLands ==
    /\ read # Nil /\ read.result # Nil
    /\ read' = Nil
    /\ tab' = IF MovedOn \/ read.result = Absent THEN tab
              ELSE [tab EXCEPT ![active] = Replaced(@, read.result, read.path)]
    /\ UNCHANGED <<files, tabs, active, dialogs, job, asks, ghosts>>

-----------------------------------------------------------------------------
(* Editor tabs *)

(* Another tab becomes active, which no check above has been told.         *)
Crosses(pending) == crossed' = (crossed \/ pending)

Unused(e) == e \notin tabs /\ tab[e] = FreshTab /\ job[e] = Idle   \* ids are not used twice

(* on_new_editor_tab                                                       *)
NewTab ==
    /\ modal = Nil
    /\ \E e \in Editors : Unused(e) /\ tabs' = tabs \cup {e} /\ active' = e
    /\ Crosses(Busy)
    /\ UNCHANGED <<files, tab, dialogs, job, read, asks, gone, agreed>>

(* on_next_editor_tab and on_prev_editor_tab ask about no dialog.          *)
SwitchTab ==
    /\ \E e \in tabs \ {active} : active' = e
    /\ Crosses(Busy)
    /\ UNCHANGED <<files, tabs, tab, dialogs, job, read, asks, gone, agreed>>

(* close_editor_tab once the tab is clean: never zero tabs.                *)
CloseClean(e, pending) ==
    /\ \/ tabs # {e} /\ tabs' = tabs \ {e}
       \/ tabs = {e} /\ \E fresh \in Editors : Unused(fresh) /\ tabs' = {fresh}
    /\ active' \in IF e = active THEN tabs' ELSE {active}
    /\ Crosses(pending)
    /\ UNCHANGED tab

(* on_close_editor_tab: dirty text asks first.                              *)
CloseTab ==
    /\ modal = Nil /\ Ask
    /\ IF Dirty(active)
       THEN /\ discard' = Action("close", Nil, Nil)
            /\ UNCHANGED <<tabVars, crossed>>
       ELSE CloseClean(active, Busy) /\ UNCHANGED discard
    /\ UNCHANGED <<files, modal, picker, job, read, gone, agreed>>

(* on_discard_confirm_no                                                   *)
AnswerNo ==
    /\ discard # Nil
    /\ discard' = Nil
    /\ UNCHANGED <<files, tabVars, modal, picker, job, read, asks, ghosts>>

(* on_discard_confirm_yes: a close names its tab, the rest acts on the tab *)
(* that is active now and stamps its grant with the generation.            *)
AnswerYes ==
    /\ discard # Nil
    /\ discard' = Nil
    /\ agreed' = [agreed EXCEPT ![discard.tab] = tab[discard.tab].buffer]
    /\ \/ /\ discard.kind = "close" /\ discard.tab \in tabs
          /\ CloseClean(discard.tab, Pending)
          /\ UNCHANGED read
       \/ /\ discard.kind = "close" /\ discard.tab \notin tabs
          /\ UNCHANGED <<tabVars, read, crossed>>
       \/ /\ discard.kind # "close"
          /\ Perform(discard, [Here EXCEPT !.grant = Here.generation])
          /\ UNCHANGED <<tabs, active, crossed>>
    /\ UNCHANGED <<files, modal, picker, job, asks, gone>>

-----------------------------------------------------------------------------
(* Saving *)

(* The user names p again: what was deleted there is no longer gone.       *)
Named(p) == {g \in gone : g[2] # p}

Dispatch(w, stage, p, text, generation) ==
    job' = [job EXCEPT ![w] = [stage |-> stage, path |-> p, text |-> text,
                               generation |-> generation]]

(* save_script with the permission asked for in this step.                 *)
SaveScript(p, text) ==
    /\ ~Here.saving
    /\ tab' = [tab EXCEPT ![active].saving = TRUE]
    /\ Dispatch(active, "create", p, text, Here.generation)

(* on_save_script of a bound tab; a save in flight is refused.             *)
SaveBound ==
    /\ Uncovered /\ Here.path # Nil /\ Ask
    /\ SaveScript(Here.path, Here.buffer)
    /\ gone' = {g \in gone : g[2] # Here.path \/ g[1] = active}
    /\ UNCHANGED <<files, tabs, active, dialogs, read, crossed, agreed>>

(* save_script_as: the file dialog of the system does not cover the editor.*)
SaveAs ==
    /\ Uncovered /\ Here.path = Nil /\ Here.buffer # Empty /\ Ask
    /\ picker = Nil   \* bound: one at a time
    /\ picker' = [tab |-> active, text |-> Here.buffer, generation |-> Here.generation]
    /\ UNCHANGED <<files, tabVars, modal, discard, job, read, ghosts>>

PickerEnds ==
    /\ picker # Nil
    /\ picker' = Nil
    /\ \/ UNCHANGED <<tab, job, gone>>   \* given up, failed, or refused below
       \/ /\ picker.tab \in tabs
          /\ tab[picker.tab].generation = picker.generation
          /\ tab[picker.tab].buffer = picker.text
          /\ Uncovered
          /\ \E p \in Paths : SaveScript(p, picker.text) /\ gone' = Named(p)
    /\ UNCHANGED <<files, tabs, active, modal, discard, read, asks, crossed, agreed>>

(* Mutant: what the buffer holds by now is taken for what was saved.       *)
SaveLands_Now(e) ==
    /\ job[e].stage \in {"ok", "failed"}
    /\ job' = [job EXCEPT ![e] = Idle]
    /\ tab' = IF e \notin tabs THEN tab
              ELSE LET t == [tab EXCEPT ![e].saving = FALSE]
                   IN  IF job[e].stage = "ok" /\ t[e].generation = job[e].generation
                       THEN [t EXCEPT ![active] = Bound(@, job[e].path, Here.buffer)]
                       ELSE t
    /\ crossed' = (crossed \/ read # Nil)
    /\ UNCHANGED <<files, tabs, active, dialogs, read, asks, gone, agreed>>

(* The continuation of save_script: the tab that saved is asked whether it *)
(* has moved on, and the tab that is active is bound.                      *)
SaveLands(e) ==
    /\ job[e].stage \in {"ok", "failed"}
    /\ job' = [job EXCEPT ![e] = Idle]
    /\ tab' = IF e \notin tabs THEN tab
              ELSE LET t == [tab EXCEPT ![e].saving = FALSE]
                   IN  IF job[e].stage = "ok" /\ t[e].generation = job[e].generation
                       THEN [t EXCEPT ![active] = Bound(@, job[e].path, job[e].text)]
                       ELSE t
    /\ crossed' = (crossed \/ read # Nil)
    /\ UNCHANGED <<files, tabs, active, dialogs, read, asks, gone, agreed>>

-----------------------------------------------------------------------------
(* The background: write_atomic, and the dialogs' operations *)

Advance(w, stage) == job' = [job EXCEPT ![w].stage = stage]

(* File::create truncates <path>.tmp, write_all fills it, rename moves it  *)
(* over the file; a failure removes it.                                    *)
WriteStep(w) ==
    LET p == job[w].path
    IN  /\ \/ /\ job[w].stage = "create"
              /\ tmp' = [tmp EXCEPT ![p] = Torn]
              /\ Advance(w, "fill")
              /\ UNCHANGED disk
           \/ /\ job[w].stage = "fill"
              /\ tmp' = [tmp EXCEPT ![p] = job[w].text]
              /\ Advance(w, "rename")
              /\ UNCHANGED disk
           \/ /\ job[w].stage = "rename" /\ tmp[p] # Absent
              /\ disk' = [disk EXCEPT ![p] = tmp[p]]
              /\ tmp' = [tmp EXCEPT ![p] = Absent]
              /\ Advance(w, "ok")
           \/ /\ job[w].stage \in {"create", "fill", "rename"}
              /\ tmp' = [tmp EXCEPT ![p] = Absent]
              /\ Advance(w, "failed")
              /\ UNCHANGED disk
        /\ UNCHANGED <<tabVars, dialogs, read, asks, ghosts>>

(* create_script and rename_entry look for the name first (conflicting_    *)
(* entry_ci), delete_entry removes the file.                               *)
EntryStep ==
    LET p == modal.path  q == modal.to  stage == job[Dialog].stage
    IN  /\ modal # Nil
        /\ \/ /\ stage = "probe" /\ disk[q] = Absent
              /\ Advance(Dialog, IF modal.kind = "create" THEN "create" ELSE "move")
              /\ UNCHANGED disk
           \/ /\ stage = "probe" /\ disk[q] # Absent
              /\ Advance(Dialog, "failed")
              /\ UNCHANGED disk
           \/ /\ stage = "move" /\ disk[p] # Absent
              /\ disk' = [disk EXCEPT ![q] = disk[p], ![p] = Absent]
              /\ Advance(Dialog, "ok")
           \/ /\ stage = "remove" /\ disk[p] # Absent
              /\ disk' = [disk EXCEPT ![p] = Absent]
              /\ Advance(Dialog, "ok")
           \/ /\ stage \in {"move", "remove"}
              /\ Advance(Dialog, "failed")
              /\ UNCHANGED disk
        /\ UNCHANGED <<tmp, tabVars, dialogs, read, asks, ghosts>>

-----------------------------------------------------------------------------
(* The dialogs *)

(* open_script_name_modal and open_script_delete_modal, of a file listed.  *)
OpenModal ==
    /\ Uncovered /\ Ask
    /\ \E kind \in {"create", "rename", "delete"}, p, q \in Paths :
         /\ kind # "create" => disk[p] # Absent
         /\ IF kind = "rename" THEN p # q ELSE p = q
         /\ modal' = [kind |-> kind, path |-> p, to |-> q, running |-> FALSE]
    /\ UNCHANGED <<files, tabVars, discard, picker, job, read, ghosts>>

(* cancel_script_modal: not while the operation runs.                      *)
CancelModal ==
    /\ modal # Nil /\ ~modal.running
    /\ modal' = Nil
    /\ UNCHANGED <<files, tabVars, discard, picker, job, read, asks, ghosts>>

(* confirm_script_name and confirm_script_delete, with the name typed.     *)
ConfirmModal ==
    /\ modal # Nil /\ ~modal.running
    /\ ~Here.saving
    /\ modal' = [modal EXCEPT !.running = TRUE]
    /\ Dispatch(Dialog, IF modal.kind = "delete" THEN "remove" ELSE "probe",
                modal.path, Empty, 0)
    /\ gone' = IF modal.kind = "delete" THEN gone ELSE Named(modal.to)
    /\ UNCHANGED <<files, tabVars, discard, picker, read, asks, crossed, agreed>>

(* retarget_binding_after_rename                                           *)
AfterRename(t) ==
    IF t.path = modal.path THEN Bound(t, modal.to, t.saved) ELSE t

(* Mutant: a delete supersedes only what it unbinds.                       *)
AfterDelete_IfBound(t) ==
    IF t.path = modal.path THEN Bound(t, Nil, Nil) ELSE t

(* finish_script_delete supersedes what is in flight, bound or not.        *)
AfterDelete(t) ==
    IF t.path = modal.path THEN Bound(Superseded(t), Nil, Nil) ELSE Superseded(t)

(* finish_script_name and finish_script_delete, or the error in the dialog.*)
ModalLands ==
    /\ modal # Nil /\ job[Dialog].stage \in {"ok", "failed"}
    /\ job' = [job EXCEPT ![Dialog] = Idle]
    /\ IF job[Dialog].stage = "failed"
       THEN /\ modal' = [modal EXCEPT !.running = FALSE]
            /\ UNCHANGED <<tab, gone>>
       ELSE /\ modal' = Nil
            /\ tab' = [tab EXCEPT ![active] = CASE modal.kind = "rename" -> AfterRename(@)
                                                [] modal.kind = "delete" -> AfterDelete(@)
                                                [] OTHER -> @]
            /\ gone' = IF modal.kind = "delete" THEN gone \cup {<<active, modal.path>>} ELSE gone
    /\ UNCHANGED <<files, tabs, active, discard, picker, read, asks, crossed, agreed>>

-----------------------------------------------------------------------------
Background == \/ \E w \in Workers : WriteStep(w)
              \/ \E e \in Editors : SaveLands(e)
              \/ EntryStep \/ ModalLands \/ ReadFile \/ OpenLands

User == \/ \E text \in Texts : Type(text)
        \/ LoadGuarded \/ AnswerNo \/ AnswerYes
        \/ NewTab \/ SwitchTab \/ CloseTab
        \/ SaveBound \/ SaveAs \/ PickerEnds
        \/ OpenModal \/ CancelModal \/ ConfirmModal

FilesNext == Background \/ User

FilesSpec == FilesInit /\ [][FilesNext]_filesVars

-----------------------------------------------------------------------------
(* Properties.  Those that say ~crossed hold as long as no other tab comes *)
(* to the front while an operation or a question is pending, and no save   *)
(* lands under an open_script; see the README for what happens then.       *)

(* No script is ever found half written, whatever has failed and whenever  *)
(* the program dies: write_atomic has one writer per path.                 *)
FilesAreWhole == ~crossed => \A p \in Paths : disk[p] # Torn

(* When a save lands in a tab that has not moved on, the tab is bound to   *)
(* the file, and what it calls saved is what the file holds (save_script's *)
(* "phantom-clean caption").                                               *)
Saves(e) == job[e].stage = "ok" /\ job'[e].stage = "idle"
StoodStill(e) == e \in tabs /\ tab[e].generation = job[e].generation
SavedIsOnDisk ==
    [][\A e \in Editors : ~crossed /\ Saves(e) /\ StoodStill(e)
          => tab'[e].path = job[e].path /\ tab'[e].saved = disk[job[e].path]]_filesVars

(* A tab in which a file was deleted is not bound to it again by anything  *)
(* that was asked before (finish_script_delete): the next Ctrl+S would     *)
(* bring the file back.                                                    *)
DeletedIsUnbound == ~crossed => \A g \in gone : tab[g[1]].path # g[2]

(* Unsaved text of a script is not replaced, nor its tab closed, unless    *)
(* the user has agreed to lose that very text (editor_load_guarded,        *)
(* with_editor_replaceable).                                               *)
Drops(e) == \/ e \in tabs /\ e \notin tabs'
            \/ tab'[e].buffer # tab[e].buffer
NothingUnasked ==
    [][(\E text \in Texts : Type(text)) \/
       \A e \in Editors : ~crossed /\ Drops(e) /\ Dirty(e) => agreed'[e] = tab[e].buffer]_filesVars

(* The file a tab is bound to exists, once no operation is under way       *)
(* (retarget_binding_after_rename: "or the caption names a path that no    *)
(* longer exists and the next Ctrl+S silently recreates the old file").    *)
BoundFileExists == modal = Nil /\ Here.path # Nil => disk[Here.path] # Absent

(* What every state satisfies. *)
FilesInv == FilesTypeOK /\ FilesAreWhole /\ DeletedIsUnbound
=============================================================================
