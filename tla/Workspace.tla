----------------------------- MODULE Workspace -----------------------------
(***************************************************************************)
(* Where the settings live: the profile, or the workspace folder a pointer *)
(* file in the profile names (dbc-state workspace.rs), how the window      *)
(* switches between them (main.rs), and the import of a settings bundle,   *)
(* from the window or from the command line (bundle.rs).  A step of the    *)
(* file system is atomic and may fail; the process may die between any     *)
(* two; a folder may go (an unplugged drive) and come back.                *)
(***************************************************************************)
EXTENDS Naturals, Sequences, TLC

CONSTANTS
    Roots,       \* folders the user may pick
    Profile,     \* the profile, as a place of settings
    Nil,         \* no folder, no pointer
    Corrupt,     \* a pointer file that cannot be read
    Slots,       \* folder picks that may be under way at a time
    LiveDialogs, \* may the window be used while a file dialog is open?
    ProbesFail,  \* may Path::exists() miss a file that is there?
    SameSecond,  \* may two imports fall in one second?
    MaxAsks,     \* bound: picks, imports and leaves the user asks for
    MaxFaults    \* bound: times a process dies, or a folder goes or comes back

ASSUME WorkspaceAssumption ==
    /\ Profile \notin Roots \cup {"blocked"} /\ "blocked" \notin Roots
    /\ Nil \notin Roots /\ Corrupt \notin Roots \cup {Nil}
    /\ LiveDialogs \in BOOLEAN /\ ProbesFail \in BOOLEAN /\ SameSecond \in BOOLEAN
    /\ MaxAsks \in Nat /\ MaxFaults \in Nat

VARIABLES
    pointer,  \* the pointer file: Nil, a folder or Corrupt
    files,    \* the stores of each place
    folder,   \* of each folder: is it there, its marker, other entries in it
    aside,    \* what imports have renamed out of their way
    app,      \* the window: up, ctx, modal, generation, asking
    pick,     \* of each slot: a pick_workspace_for_recovery or start_workspace_pick
    job,      \* the background job of confirm_workspace
    imp,      \* the bundle::apply under way, of the window or of dbc import
    ever,     \* what was, at one time, a setting in force (history variable)
    used      \* [asks, faults, stamp]

workspaceVars == <<pointer, files, folder, aside, app, pick, job, imp, ever, used>>

(* Of a context's files, in the order both operations take them, the two   *)
(* that need each other (views.toml and params.toml are like the second).  *)
Stores == <<"config", "vault">>

Locations == {Profile} \cup Roots
Names == {Stores[i] : i \in DOMAIN Stores}
(* Contents: none, the bundle of the n-th request, and those of the start. *)
Absent == 0
Own == MaxAsks + 1
Theirs == MaxAsks + 2
Contents == 0 .. Theirs
Blocked == "blocked"

Pickless == [kind |-> "none", root |-> Nil, gen |-> 0, seen |-> "no"]
Closed == [kind |-> "none", root |-> Nil, mode |-> "none", running |-> FALSE]
NoJob == [pc |-> "idle", mode |-> "none", root |-> Nil, todo |-> <<>>, touched |-> FALSE]
NoImport == [pc |-> "idle", by |-> "none", place |-> Profile, plan |-> <<>>, todo |-> <<>>,
             moved |-> <<>>, written |-> <<>>, content |-> 0, stamp |-> 0,
             before |-> [s \in Names |-> Absent], spoiled |-> FALSE]

(* A bundle has a config and may have a vault.                             *)
Plans == {<<"config">>, Stores}
Orders == {<<>>, <<"config">>, <<"vault">>, Stores, <<"vault", "config">>}

Modes == {"none", "init", "adopt", "toprofile"}
Folders == [there : BOOLEAN, mark : {"none", "ok", "bad"}, other : BOOLEAN]
Copies == [place : Locations, store : Names, stamp : 0 .. MaxAsks, content : Contents]
Modals == [kind : {"none", "settings", "other", "missing", "confirm", "import"},
           root : Roots \cup {Nil}, mode : Modes, running : BOOLEAN]
Windows == [up : BOOLEAN, ctx : Locations \cup {Blocked}, modal : Modals, gen : Nat, asking : BOOLEAN]
Picks == [kind : {"none", "recovery", "settings"}, root : Roots \cup {Nil}, gen : Nat,
          seen : {"no", "unreadable", "workspace", "nonempty", "empty"}]
Jobs == [pc : {"idle", "check", "copy", "scripts", "marker", "pointer", "ok", "err"},
         mode : Modes, root : Roots \cup {Nil}, todo : Orders, touched : BOOLEAN]
Imports == [pc : {"idle", "aside", "write", "undo", "ok", "err"}, by : {"none", "window", "cli"},
            place : Locations, plan : Orders, todo : Orders, moved : Orders, written : Orders,
            content : 0 .. MaxAsks, stamp : 0 .. MaxAsks, before : [Names -> Contents],
            spoiled : BOOLEAN]

WorkspaceTypeOK ==
    /\ pointer \in Roots \cup {Nil, Corrupt}
    /\ files \in [Locations -> [Names -> Contents]]
    /\ folder \in [Roots -> Folders]
    /\ aside \subseteq Copies
    /\ app \in Windows
    /\ pick \in [Slots -> Picks]
    /\ job \in Jobs
    /\ imp \in Imports
    /\ used \in [asks : 0 .. MaxAsks, faults : 0 .. MaxFaults, stamp : 0 .. MaxAsks]
    /\ used.stamp <= used.asks

-----------------------------------------------------------------------------
(* Reading the disk *)

(* classify: what a folder is, without writing anything.                   *)
Classify(r) ==
    CASE ~folder[r].there -> "unreadable"
      [] folder[r].there /\ folder[r].mark = "bad" -> "unreadable"
      [] folder[r].there /\ folder[r].mark = "ok" -> "workspace"
      [] OTHER -> IF folder[r].other \/ \E s \in Names : files[r][s] # Absent
                  THEN "nonempty" ELSE "empty"

(* Mutant: a pointer that cannot be used is taken for none.                *)
Resolve_Fallback ==
    IF pointer \in Roots /\ Classify(pointer) = "workspace" THEN pointer ELSE Profile

(* resolve: only a pointer that is not there means the profile.            *)
Resolve ==
    CASE pointer = Nil -> Profile
      [] pointer \in Roots -> IF Classify(pointer) = "workspace" THEN pointer ELSE Blocked
      [] OTHER -> Blocked

Reachable(p) == p \in Roots => folder[p].there

(* What Path::exists() answers: every error is a "no".                     *)
Probe(p, s) ==
    {files[p][s] # Absent /\ Reachable(p)} \cup (IF ProbesFail THEN {FALSE} ELSE {})

-----------------------------------------------------------------------------
(* Any folders and any pointer, the profile in full; nothing is running.   *)
WorkspaceInit ==
    /\ pointer \in Roots \cup {Nil, Corrupt}
    /\ folder \in [Roots -> {k \in Folders : IF k.mark = "none" THEN k.there ELSE k.other}]
    /\ files = [p \in Locations |-> [s \in Names |->
                   IF p = Profile THEN Own ELSE IF folder[p].mark = "ok" THEN Theirs ELSE Absent]]
    /\ aside = {}
    /\ app = [up |-> FALSE, ctx |-> Profile, modal |-> Closed, gen |-> 0, asking |-> FALSE]
    /\ pick = [i \in Slots |-> Pickless]
    /\ job = NoJob
    /\ imp = NoImport
    /\ ever = {t \in [place : Locations, store : Names, content : {Own, Theirs}] :
                  files[t.place][t.store] = t.content}
    /\ used = [asks |-> 0, faults |-> 0, stamp |-> 0]

disk == <<pointer, files, folder, aside>>
Ask == used.asks < MaxAsks /\ used' = [used EXCEPT !.asks = @ + 1]

(* The UI thread takes no event during an import of the window's own.      *)
UiFree == app.up /\ imp.by # "window"
(* Nor does the user, under a file dialog, if those are modal.             *)
UserFree == UiFree /\ (app.asking => LiveDialogs)

Show(m) == app' = [app EXCEPT !.modal = m]
Modal(kind) == [Closed EXCEPT !.kind = kind]

(* main(): resolve, and a pointer that leads nowhere opens nothing but the *)
(* dialog that asks what to do.                                            *)
Start ==
    /\ ~app.up
    /\ app' = [app EXCEPT !.up = TRUE, !.ctx = Resolve,
                          !.modal = IF Resolve = Blocked THEN Modal("missing") ELSE Closed,
                          !.gen = 0]
    /\ UNCHANGED <<disk, pick, job, imp, ever, used>>

(* apply_context and close_modal: the swap of the live context.            *)
ApplyContext(place) ==
    app' = [app EXCEPT !.ctx = place, !.modal = Closed, !.gen = @ + 1]

-----------------------------------------------------------------------------
(* Settings, and dialogs of other parts *)

OpenDialog ==
    /\ UserFree
    /\ app.modal.kind = "none"
    /\ \E kind \in {"settings", "other"} : Show(Modal(kind))
    /\ UNCHANGED <<disk, pick, job, imp, ever, used>>

(* Closing a dialog: not the blocking one, nor a confirm that runs.        *)
CloseDialog ==
    /\ UserFree
    /\ app.modal.kind \in {"settings", "other", "confirm", "import"}
    /\ ~app.modal.running
    /\ Show(Closed)
    /\ UNCHANGED <<disk, pick, job, imp, ever, used>>

(* context_switch_blocked, as far as dialogs go (a query, unsaved text and *)
(* pending edits refuse too: the step is not taken).                       *)
SwitchAllowed == app.modal.kind \in {"none", "settings", "confirm", "import"}

-----------------------------------------------------------------------------
(* Picking a folder *)

DispatchJob(kind) ==
    \E i \in Slots, r \in Roots :
        /\ pick[i] = Pickless
        /\ pick' = [pick EXCEPT ![i] = [kind |-> kind, root |-> r, gen |-> app.gen, seen |-> "no"]]

(* start_workspace_pick is offered in Settings, in profile mode.           *)
StartPick ==
    /\ UserFree
    /\ app.modal.kind = "settings" /\ app.ctx = Profile
    /\ Ask
    /\ DispatchJob("settings")
    /\ UNCHANGED <<disk, app, job, imp, ever>>

(* pick_workspace_for_recovery, from the dialog of a broken start.         *)
StartRecoveryPick ==
    /\ UserFree
    /\ app.modal.kind = "missing" /\ app.modal.root = Nil
    /\ Ask
    /\ DispatchJob("recovery")
    /\ UNCHANGED <<disk, app, job, imp, ever>>

(* The folder is classified off the UI thread.                             *)
ClassifyPick(i) ==
    /\ app.up
    /\ pick[i].kind # "none" /\ pick[i].seen = "no"
    /\ pick' = [pick EXCEPT ![i].seen = Classify(pick[i].root)]
    /\ UNCHANGED <<disk, app, job, imp, ever, used>>

Landing(i) ==
    /\ UiFree
    /\ pick[i].seen # "no"
    /\ pick' = [pick EXCEPT ![i] = Pickless]
    /\ UNCHANGED <<disk, job, imp, ever, used>>

(* recovery_pick_may_commit: the blocking dialog moves to its confirm      *)
(* state; nothing is written yet.                                          *)
RecoveryPickLands(i) ==
    /\ Landing(i)
    /\ pick[i].kind = "recovery"
    /\ IF /\ pick[i].seen = "workspace"
          /\ app.modal.kind = "missing" /\ pick[i].gen = app.gen
       THEN Show([app.modal EXCEPT !.root = pick[i].root])
       ELSE UNCHANGED app

(* Mutant: the dialog opens over whatever is on the screen.                *)
PickMayOpen_Blind(i) == TRUE

(* open_workspace_confirm behind workspace_pick_verdict and                *)
(* workspace_pick_outcome.                                                 *)
Confirm(mode, r) == [kind |-> "confirm", root |-> r, mode |-> mode, running |-> FALSE]
PickMayOpen(i) == pick[i].gen = app.gen /\ app.modal.kind = "settings"

PickLands(i) ==
    /\ Landing(i)
    /\ pick[i].kind = "settings"
    /\ IF pick[i].seen \in {"empty", "workspace"} /\ PickMayOpen(i)
       THEN Show(Confirm(IF pick[i].seen = "empty" THEN "init" ELSE "adopt", pick[i].root))
       ELSE UNCHANGED app

-----------------------------------------------------------------------------
(* The choices of a broken start *)

(* confirm_workspace_recovery: the pointer, then the context, with no      *)
(* await between them.                                                     *)
ConfirmRecovery ==
    /\ UserFree
    /\ app.modal.kind = "missing" /\ app.modal.root # Nil
    /\ \/ pointer' = app.modal.root /\ ApplyContext(app.modal.root)
       \/ UNCHANGED <<pointer, app>>
    /\ UNCHANGED <<files, folder, aside, pick, job, imp, ever, used>>

CancelRecovery ==
    /\ UserFree
    /\ app.modal.kind = "missing" /\ app.modal.root # Nil
    /\ Show(Modal("missing"))
    /\ UNCHANGED <<disk, pick, job, imp, ever, used>>

UseLocalProfile ==
    /\ UserFree
    /\ app.modal.kind = "missing" /\ app.modal.root = Nil
    /\ \/ pointer' = Nil /\ ApplyContext(Profile)
       \/ UNCHANGED <<pointer, app>>
    /\ UNCHANGED <<files, folder, aside, pick, job, imp, ever, used>>

-----------------------------------------------------------------------------
(* The switch of the context *)

(* start_leave_workspace.                                                  *)
StartLeave ==
    /\ UserFree
    /\ app.modal.kind = "settings" /\ app.ctx \in Roots
    /\ Ask
    /\ Show(Confirm("toprofile", Nil))
    /\ UNCHANGED <<disk, pick, job, imp, ever>>

(* confirm_workspace: latches the dialog and starts the background job     *)
(* (one at a time is modelled).                                            *)
ConfirmWorkspace ==
    /\ UserFree
    /\ app.modal.kind = "confirm" /\ ~app.modal.running
    /\ job.pc = "idle"
    /\ Show([app.modal EXCEPT !.running = TRUE])
    /\ job' = [NoJob EXCEPT !.pc = IF app.modal.mode = "init" THEN "check" ELSE "pointer",
                            !.mode = app.modal.mode, !.root = app.modal.root]
    /\ UNCHANGED <<disk, pick, imp, ever, used>>

JobGoes(pc) == job' = [job EXCEPT !.pc = pc, !.todo = IF pc = "copy" THEN Stores ELSE <<>>]
JobFails == JobGoes("err") /\ UNCHANGED disk
JobStep(pc) == app.up /\ job.pc = pc /\ UNCHANGED <<app, pick, imp, ever, used>>

(* Mutant: the marker is written first.                                    *)
JobChecks_MarkFirst ==
    /\ JobStep("check")
    /\ UNCHANGED <<pointer, files, aside>>
    /\ JobGoes(IF Classify(job.root) = "empty" THEN "copy" ELSE "err")
    /\ folder' = IF Classify(job.root) = "empty"
                 THEN [folder EXCEPT ![job.root].mark = "ok"] ELSE folder

(* init_contents: the folder has to be empty, whatever it was at the pick. *)
JobChecks ==
    /\ JobStep("check")
    /\ UNCHANGED disk
    /\ JobGoes(IF Classify(job.root) = "empty" THEN "copy" ELSE "err")

(* copy_one: a store the profile does not have is left out, one the folder *)
(* has is not overwritten.                                                 *)
JobCopies ==
    /\ JobStep("copy")
    /\ job.todo # <<>>
    /\ LET s == Head(job.todo) IN
       \/ JobFails
       \/ \E there \in Probe(Profile, s) :
            /\ there => folder[job.root].there /\ files[job.root][s] = Absent
            /\ files' = IF there THEN [files EXCEPT ![job.root][s] = files[Profile][s]] ELSE files
            /\ job' = [job EXCEPT !.todo = Tail(@)]
            /\ UNCHANGED <<pointer, folder, aside>>

(* The scripts folder and .gitignore.                                      *)
JobMakesScripts ==
    \/ JobStep("copy") /\ job.todo = <<>> /\ JobGoes("scripts") /\ UNCHANGED disk
    \/ /\ JobStep("scripts")
       /\ \/ JobFails
          \/ /\ folder[job.root].there
             /\ folder' = [folder EXCEPT ![job.root].other = TRUE]
             /\ JobGoes("marker")
             /\ UNCHANGED <<pointer, files, aside>>

(* write_marker: the commit point of an init.                              *)
JobMarks ==
    /\ JobStep("marker")
    /\ \/ JobFails
       \/ /\ folder[job.root].there
          /\ folder' = [folder EXCEPT ![job.root].mark = "ok"]
          /\ JobGoes("pointer")
          /\ UNCHANGED <<pointer, files, aside>>

(* write_pointer or clear_pointer.                                         *)
JobPoints ==
    /\ JobStep("pointer")
    /\ \/ JobFails
       \/ pointer' = job.root /\ JobGoes("ok") /\ UNCHANGED <<files, folder, aside>>

(* The continuation of confirm_workspace: the swap, or the error in the    *)
(* dialog if it is still there.                                            *)
JobLands ==
    /\ UiFree
    /\ job.pc \in {"ok", "err"}
    /\ job' = NoJob
    /\ IF job.pc = "ok"
       THEN ApplyContext(IF job.mode = "toprofile" THEN Profile ELSE job.root)
       ELSE IF app.modal.kind = "confirm"
            THEN Show([app.modal EXCEPT !.running = FALSE])
            ELSE UNCHANGED app
    /\ UNCHANGED <<disk, pick, imp, ever, used>>

-----------------------------------------------------------------------------
(* The import of a bundle *)

(* start_settings_import, from Settings or the palette.                    *)
StartImport ==
    /\ UserFree /\ ~app.asking
    /\ app.modal.kind \in {"none", "settings"}
    /\ app' = [app EXCEPT !.asking = TRUE]
    /\ UNCHANGED <<disk, pick, job, imp, ever, used>>

(* The file dialog is answered: the gate again, then the confirm.          *)
ImportAsked ==
    /\ UiFree /\ app.asking
    /\ app' = [app EXCEPT !.asking = FALSE,
                          !.modal = IF SwitchAllowed THEN Modal("import") ELSE @]
    /\ UNCHANGED <<disk, pick, job, imp, ever, used>>

ImportDialogCancelled ==
    /\ UiFree /\ app.asking
    /\ app' = [app EXCEPT !.asking = FALSE]
    /\ UNCHANGED <<disk, pick, job, imp, ever, used>>

(* bundle::apply begins: a bundle has a config and may have a vault.       *)
Apply(by, place, content) ==
    /\ imp.pc = "idle"
    /\ \E plan \in Plans,
          stamp \in IF SameSecond THEN {used.stamp, used.stamp + 1} ELSE {used.stamp + 1} :
          /\ imp' = [NoImport EXCEPT !.pc = "aside", !.by = by, !.place = place, !.plan = plan,
                                     !.todo = plan, !.content = content, !.stamp = stamp,
                                     !.before = files[place]]
          /\ used' = [used EXCEPT !.stamp = stamp, !.asks = content]

(* confirm_settings_import.                                                *)
ConfirmImport ==
    /\ UserFree
    /\ app.modal.kind = "import"
    /\ used.asks < MaxAsks
    /\ Apply("window", app.ctx, used.asks + 1)
    /\ UNCHANGED <<disk, app, pick, job, ever>>

(* dbc import --force: another process, with the same resolution.          *)
CliImport ==
    /\ Resolve # Blocked
    /\ used.asks < MaxAsks
    /\ Apply("cli", Resolve, used.asks + 1)
    /\ UNCHANGED <<disk, app, pick, job, ever>>

ImpStep(pc) ==
    /\ imp.pc = pc
    /\ UNCHANGED <<pointer, folder, app, pick, ever, used>>

(* A job that copies from the place notices nothing (history variable).    *)
Touches == job' = IF job.pc # "idle" /\ imp.place = Profile
                  THEN [job EXCEPT !.touched = TRUE] ELSE job

(* Mutant: what is in the way is overwritten.                              *)
SetAside_Never ==
    /\ ImpStep("aside")
    /\ imp.todo # <<>>
    /\ imp' = [imp EXCEPT !.todo = Tail(@)]
    /\ UNCHANGED <<files, aside, job>>

SetAside ==
    /\ ImpStep("aside")
    /\ imp.todo # <<>>
    /\ LET p == imp.place
           s == Head(imp.todo) IN
       \E there \in Probe(p, s) :
         \/ ~there /\ imp' = [imp EXCEPT !.todo = Tail(@)] /\ UNCHANGED <<files, aside, job>>
         \/ /\ there
            /\ aside' = {a \in aside : <<a.place, a.store, a.stamp>> # <<p, s, imp.stamp>>}
                        \cup {[place |-> p, store |-> s, stamp |-> imp.stamp, content |-> files[p][s]]}
            /\ files' = [files EXCEPT ![p][s] = Absent]
            /\ imp' = [imp EXCEPT !.todo = Tail(@), !.moved = Append(@, s)]
            /\ Touches
         \/ there /\ imp' = [imp EXCEPT !.pc = "undo"] /\ UNCHANGED <<files, aside, job>>

WriteStore ==
    \/ /\ ImpStep("aside") /\ imp.todo = <<>>
       /\ imp' = [imp EXCEPT !.pc = "write", !.todo = imp.plan]
       /\ UNCHANGED <<files, aside, job>>
    \/ /\ ImpStep("write") /\ imp.todo # <<>>
       /\ UNCHANGED aside
       /\ \/ /\ Reachable(imp.place)
             /\ files' = [files EXCEPT ![imp.place][Head(imp.todo)] = imp.content]
             /\ imp' = [imp EXCEPT !.todo = Tail(@), !.written = Append(@, Head(imp.todo))]
             /\ Touches
          \/ imp' = [imp EXCEPT !.pc = "undo"] /\ UNCHANGED <<files, job>>

(* rollback: removes what was written, renames back what was set aside;    *)
(* each step may fail and the next is tried all the same.                  *)
UndoFails(rest) == imp' = [rest EXCEPT !.spoiled = TRUE] /\ UNCHANGED <<files, aside, job>>

Remove ==
    /\ ImpStep("undo")
    /\ imp.written # <<>>
    /\ LET rest == [imp EXCEPT !.written = Tail(@)] IN
       \/ UndoFails(rest)
       \/ /\ Reachable(imp.place)
          /\ files' = [files EXCEPT ![imp.place][Head(imp.written)] = Absent]
          /\ imp' = rest
          /\ Touches
          /\ UNCHANGED aside

PutBack ==
    /\ ImpStep("undo")
    /\ imp.written = <<>> /\ imp.moved # <<>>
    /\ LET rest == [imp EXCEPT !.moved = Tail(@)]
           s == Head(imp.moved) IN
       \/ UndoFails(rest)
       \/ /\ Reachable(imp.place)
          /\ \E a \in aside :
               /\ <<a.place, a.store, a.stamp>> = <<imp.place, s, imp.stamp>>
               /\ files' = [files EXCEPT ![imp.place][s] = a.content]
               /\ aside' = aside \ {a}
          /\ imp' = rest
          /\ Touches

Applied ==
    /\ UNCHANGED <<disk, app, pick, job, used>>
    /\ \/ /\ imp.pc = "write" /\ imp.todo = <<>>
          /\ imp' = [imp EXCEPT !.pc = "ok"]
          /\ ever' = ever \cup {[place |-> imp.place, store |-> imp.plan[i], content |-> imp.content]
                                  : i \in DOMAIN imp.plan}
       \/ /\ imp.pc = "undo" /\ imp.written = <<>> /\ imp.moved = <<>>
          /\ imp' = [imp EXCEPT !.pc = "err"]
          /\ UNCHANGED ever

(* The window reloads the context it is in; an error stays in the dialog.  *)
ImportReturns ==
    /\ imp.pc \in {"ok", "err"}
    /\ imp' = NoImport
    /\ IF imp.by = "window" /\ imp.pc = "ok" THEN ApplyContext(app.ctx) ELSE UNCHANGED app
    /\ UNCHANGED <<disk, pick, job, ever, used>>

-----------------------------------------------------------------------------
Fault == used.faults < MaxFaults /\ used' = [used EXCEPT !.faults = @ + 1]

(* The window's process dies, and its background job with it.              *)
Crash ==
    /\ app.up /\ Fault
    /\ app' = [app EXCEPT !.up = FALSE, !.modal = Closed, !.asking = FALSE]
    /\ pick' = [i \in Slots |-> Pickless]
    /\ job' = NoJob
    /\ imp' = IF imp.by = "window" THEN NoImport ELSE imp
    /\ UNCHANGED <<disk, ever>>

CliCrash ==
    /\ imp.by = "cli" /\ Fault
    /\ imp' = NoImport
    /\ UNCHANGED <<disk, app, pick, job, ever>>

(* A folder goes, or comes back as it was.                                 *)
Turn ==
    /\ Fault
    /\ \E r \in Roots : folder' = [folder EXCEPT ![r].there = ~@]
    /\ UNCHANGED <<pointer, files, aside, app, pick, job, imp, ever>>

WorkspaceSystem ==
    \/ Start
    \/ \E i \in Slots : ClassifyPick(i) \/ RecoveryPickLands(i) \/ PickLands(i)
    \/ JobChecks \/ JobCopies \/ JobMakesScripts \/ JobMarks \/ JobPoints \/ JobLands
    \/ SetAside \/ WriteStore \/ Remove \/ PutBack \/ Applied \/ ImportReturns

WorkspaceUser ==
    \/ OpenDialog \/ CloseDialog \/ StartPick \/ StartRecoveryPick
    \/ ConfirmRecovery \/ CancelRecovery \/ UseLocalProfile
    \/ StartLeave \/ ConfirmWorkspace
    \/ StartImport \/ ImportAsked \/ ImportDialogCancelled \/ ConfirmImport \/ CliImport

WorkspaceNext == WorkspaceSystem \/ WorkspaceUser \/ Crash \/ CliCrash \/ Turn

WorkspaceSpec == WorkspaceInit /\ [][WorkspaceNext]_workspaceVars

-----------------------------------------------------------------------------
(* Properties *)

(* The context on the screen is the one the pointer names, so that the     *)
(* next start opens the same one: whichever pick lands when, and whichever *)
(* write fails.  Only while a switch is between its pointer and its swap   *)
(* may they differ.                                                        *)
Pointed ==
    app.up /\ job.pc # "ok" =>
        /\ app.ctx = Profile => pointer = Nil
        /\ app.ctx \in Roots => pointer = app.ctx

(* A pointer that leads nowhere never opens a context behind the user's    *)
(* back: there is none until the blocking dialog is answered, and none     *)
(* can take its place.                                                     *)
BlockedIsAsked == app.up /\ app.ctx = Blocked => app.modal.kind = "missing"

(* "Never destructive without a copy" (bundle::apply): every setting that  *)
(* was ever in force is still in its place or set aside, after any failed, *)
(* interrupted and repeated imports.                                       *)
OldSettingsSurvive ==
    \A t \in ever :
        \/ files[t.place][t.store] = t.content
        \/ \E a \in aside : <<a.place, a.store, a.content>> = <<t.place, t.store, t.content>>

(* An import that says yes has replaced all that its bundle has, and       *)
(* nothing else; one that says no has put everything back, unless a step   *)
(* of the rollback failed as well.                                         *)
ImportIsWhole ==
    LET plan == {imp.plan[i] : i \in DOMAIN imp.plan} IN
    /\ imp.pc = "ok" =>
         files[imp.place] = [s \in Names |-> IF s \in plan THEN imp.content ELSE imp.before[s]]
    /\ imp.pc = "err" /\ ~imp.spoiled => files[imp.place] = imp.before

(* What imports promise. *)
ImportsKeepSettings == OldSettingsSurvive /\ ImportIsWhole

(* A folder the program marks as a workspace has a copy of everything the  *)
(* profile has, unless an import changed the profile in the meantime: a    *)
(* crash or a failure leaves a folder that is not taken for one.           *)
MarkedIsWhole ==
    [][\A r \in Roots : folder'[r].mark = "ok" /\ folder[r].mark # "ok"
          => job.touched \/ files[r] = files[Profile]]_workspaceVars

(* The context never changes silently: when it does, the dialog in which   *)
(* the user agreed to that is on the screen.                               *)
SwapIsSeen ==
    [][app.up /\ app'.up /\ app'.ctx # app.ctx =>
          \/ app.modal.kind = "missing"
          \/ app.modal.kind = "confirm" /\ app.modal.running /\ app.modal.mode = job.mode]_workspaceVars

(* The invariants of the context. *)
WorkspaceInv == WorkspaceTypeOK /\ Pointed /\ BlockedIsAsked

(* Folders are alike, and so are slots. *)
Symmetry == Permutations(Roots) \cup Permutations(Slots)
=============================================================================
