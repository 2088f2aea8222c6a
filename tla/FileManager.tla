----------------------------- MODULE FileManager -----------------------------
(***************************************************************************)
(* src/file_manager: a file manager with two panels.  The process reads    *)
(* one key after the other; each key is one action and covers everything   *)
(* its case of the switch in main does.  Copying a file opens a form       *)
(* (popup.c), then starts two threads that share a COPY_FILE_INFO without  *)
(* a lock: copy_file and display_copy_status.                              *)
(*                                                                         *)
(* A file is its size; a directory has fixed subdirectories.  Of the       *)
(* screen the model keeps what a user goes by: the title of each panel,    *)
(* the marked name and its colour pair.                                    *)
(***************************************************************************)
EXTENDS Integers, Sequences, SequencesExt

CONSTANTS
    Dirs,         \* the directories; their names are strings
    Parent,       \* [Dirs -> Dirs], what ".." leads to
    Order,        \* all names in the order of alphasort, "." and ".." too
    Executable,   \* regular files with an x bit
    Unreadable,   \* directories one can enter and scandir cannot read
    Bad,          \* names that stat or getpwuid fails for
    Deep,         \* directories whose path is longer than getcwd's buffer
    Long,         \* paths longer than get_file_path's buffer
    Cut,          \* Cut[p]: what may be in the buffer instead of a path in Long
    Field,        \* Field[p]: what a field of a form keeps of a path
    Disks,        \* the contents the directories may have at the start
    Typed,        \* paths of files a user may leave in a field of a form
    Bar,          \* characters in the progress bar, cols - 12
    Chunk,        \* COPY_BUF_SIZE
    Garbage,      \* what malloc may leave in st_size and cur_size
    MaxParents,   \* bound on processes that wait for their child
    MaxForms      \* bound on forms opened

VARIABLES
    fs,        \* fs[d][f] is the size of f in d, or Absent
    panel,     \* the DIR_INFOs: path, names listed, current file (0 is NULL)
    cd,        \* the active panel
    cwd,       \* the working directory of the process
    screen,    \* per panel: title, marked name, colour pair
    phase,     \* "keys", "form", "copying", "gone"
    form,      \* the popup
    forms,     \* how many were opened
    cfi,       \* the COPY_FILE_INFO: src, dst, st_size, cur_size
    copier,    \* where copy_file is, and how far it has read
    shower,    \* where display_copy_status is, and its st_bl_c
    parents,   \* processes waiting in waitpid, the innermost last
    ran        \* the program the last key executed, or <<>>

proc   == <<panel, cd, cwd, screen>>
copy   == <<cfi, copier, shower>>
vars   == <<fs, proc, phase, form, forms, copy, parents, ran>>

Panels == {"ld", "rd"}
Absent == -1
Files  == Range(Order) \ (Dirs \union {".", ".."})

(* A directory and the name of a file; no name is a path of no file.       *)
Paths  == Dirs \X (Files \union {""})
Other(p) == IF p = "ld" THEN "rd" ELSE "ld"
NoForm == [kind |-> "none"]
Idle   == [at |-> "none", n |-> 0]

ASSUME DisksAssumption == Disks \subseteq [Dirs -> [Files -> Nat \union {Absent}]]

ASSUME PathsAssumption ==
    /\ Order \in Seq(STRING) /\ {".", ".."} \subseteq Range(Order)
    /\ Parent \in [Dirs -> Dirs]
    /\ Typed \subseteq Dirs \X Files
    /\ "" \notin Files /\ "-" \notin Dirs

(* BUF_SIZE bytes hold the beginning of a long path.  When getcwd fails    *)
(* its buffer stays uninitialised and any path may come of it.             *)
ASSUME LengthAssumption ==
    /\ Deep \subseteq Dirs
    /\ Long \subseteq Paths /\ Deep \X (Files \union {""}) \subseteq Long
    /\ Cut \in [Long -> SUBSET Paths]
    /\ Field \in [Paths -> Paths]

ASSUME CopyAssumption == Chunk \in Nat \ {0} /\ Garbage \subseteq Int \X Int

-----------------------------------------------------------------------------
(* core.c, graph.c: directories and their display.                         *)

Holds(disk, d, n) == \/ n \in {".", ".."}
                     \/ n \in Dirs /\ n # d /\ Parent[n] = d
                     \/ n \in Files /\ disk[d][n] # Absent

(* scandir with alphasort: the names in d, in order.                       *)
scandir(disk, d) ==
    LET Upto[i \in 0..Len(Order)] ==
          IF i = 0 THEN <<>>
          ELSE IF Holds(disk, d, Order[i]) THEN Append(Upto[i - 1], Order[i])
          ELSE Upto[i - 1]
    IN  Upto[Len(Order)]

(* getcwd, as get_dir_info uses it.                                        *)
getcwd(d) == IF d \in Deep THEN "-" ELSE d

(* get_dir_info after free_fil.  The first name scandir returns is skipped *)
(* on the assumption that it is ".".                                       *)
get_dir_info(disk, d, di) ==
    IF d \in Unreadable THEN [di EXCEPT !.list = <<>>, !.cur = 0]
    ELSE [path |-> getcwd(d), cur |-> 1, list |-> Tail(scandir(disk, d))]

Fatal(di) == Range(di.list) \intersect Bad # {}

Current(di) == IF di.cur = 0 THEN "" ELSE di.list[di.cur]

print_dir_static(s, di) == [s EXCEPT !.title = di.path]

print_dir_dynamic(s, di, bg_c) ==
    [s EXCEPT !.name = Current(di), !.colour = bg_c]

(* F5 and F8 clear both windows and print both panels again.               *)
Redraw(pn, c) ==
    [p \in Panels |-> print_dir_dynamic(print_dir_static(screen[p], pn[p]),
                                        pn[p], IF p = c THEN 1 ELSE 2)]

(* After a program: init_graph, init_workspace, and the names only.        *)
Workspace(pn) ==
    [p \in Panels |-> [title |-> "", name |-> Current(pn[p]),
                       colour |-> IF p = "ld" THEN 1 ELSE 2]]

-----------------------------------------------------------------------------
Blank == [title |-> "", name |-> "", colour |-> 0]

(* init_core, init_graph, init_workspace and the first display.            *)
Init ==
    /\ fs \in Disks
    /\ \E home, pwd \in Dirs \ Unreadable :
         LET Nil == [path |-> pwd, list |-> <<>>, cur |-> 0]
             pn  == [p \in Panels |-> get_dir_info(fs,
                        IF p = "ld" THEN pwd ELSE home, Nil)] IN
         /\ ~Fatal(pn["ld"]) /\ ~Fatal(pn["rd"])
         /\ panel = pn
         /\ cwd = pwd
         /\ screen = [p \in Panels |-> print_dir_dynamic(
                        print_dir_static(Blank, pn[p]), pn[p],
                        IF p = "ld" THEN 1 ELSE 2)]
    /\ cd = "ld"
    /\ phase = "keys"
    /\ form = NoForm /\ forms = 0
    /\ cfi = NoForm /\ copier = Idle /\ shower = Idle
    /\ parents = <<>>
    /\ ran = <<>>

(* The process ends: with 'q', an error, or a signal.  Its parent, if it   *)
(* is a child whose execl failed, returns from waitpid and goes on.        *)
EndProcess ==
    /\ IF parents = <<>>
       THEN /\ phase' = "gone"
            /\ UNCHANGED <<proc, parents>>
       ELSE LET s == Last(parents) IN
            /\ panel' = s.panel
            /\ cd' = s.cd
            /\ cwd' = s.cwd
            /\ screen' = Workspace(s.panel)
            /\ parents' = Front(parents)
            /\ phase' = "keys"
    /\ form' = NoForm
    /\ cfi' = NoForm /\ copier' = Idle /\ shower' = Idle
    /\ UNCHANGED forms

-----------------------------------------------------------------------------
(* main: the keys.                                                         *)

(* A mutant: the panel is not printed again.                               *)
SelectUnprinted(i) ==
    /\ panel' = [panel EXCEPT ![cd].cur = i]
    /\ UNCHANGED <<fs, screen, cd, cwd, phase, form, forms, copy, parents>>

Select(i) ==
    /\ panel' = [panel EXCEPT ![cd].cur = i]
    /\ screen' = [screen EXCEPT ![cd] = print_dir_dynamic(@, panel'[cd], 1)]
    /\ UNCHANGED <<fs, cd, cwd, phase, form, forms, copy, parents>>

KeyUp   == panel[cd].cur > 1 /\ Select(panel[cd].cur - 1)
KeyDown == panel[cd].cur < Len(panel[cd].list) /\ Select(panel[cd].cur + 1)
KeyHome == Select(1)
KeyEnd  == Select(Len(panel[cd].list))

(* A mutant: the working directory stays.                                  *)
KeyTabNoChdir ==
    /\ cd' = Other(cd)
    /\ screen' = [p \in Panels |-> print_dir_dynamic(screen[p], panel[p],
                                       IF p = cd' THEN 1 ELSE 2)]
    /\ UNCHANGED <<fs, panel, cwd, phase, form, forms, copy, parents>>

(* KEY_LEFT, KEY_RIGHT and KEY_TAB.  chdir fails for a panel that does not *)
(* know its path, and main returns.                                        *)
KeyTab ==
    IF panel[Other(cd)].path = "-" THEN EndProcess /\ UNCHANGED fs
    ELSE /\ cd' = Other(cd)
         /\ cwd' = panel[cd'].path
         /\ screen' = [p \in Panels |-> print_dir_dynamic(screen[p], panel[p],
                                            IF p = cd' THEN 1 ELSE 2)]
         /\ UNCHANGED <<fs, panel, phase, form, forms, copy, parents>>

Target(n) == IF n = ".." THEN Parent[cwd] ELSE IF n = "." THEN cwd ELSE n

(* fork and execl.  A child whose execl fails goes on in main's loop while *)
(* its parent waits for it.                                                *)
Run(pn, d) ==
    /\ panel' = pn
    /\ cwd' = d
    /\ screen' = Workspace(pn)
    /\ \/ /\ ran' = <<d, Current(pn[cd])>>
          /\ UNCHANGED parents
       \/ /\ Len(parents) < MaxParents
          /\ parents' = Append(parents, [panel |-> pn, cd |-> cd, cwd |-> d])
          /\ ran' = <<>>
    /\ UNCHANGED <<fs, cd, phase, form, forms, copy>>

(* KEY_ENTER.  Whether there is a program to run is decided after the      *)
(* directory has been entered, by the file that is current then.           *)
KeyEnter ==
    LET sel   == Current(panel[cd])
        enter == sel \in Dirs \union {".", ".."}
        d     == IF enter THEN Target(sel) ELSE cwd
        pn    == IF enter THEN [panel EXCEPT ![cd] = get_dir_info(fs, d, @)]
                          ELSE panel
    IN  IF Fatal(pn[cd]) \/ pn[cd].list = <<>>
        THEN EndProcess /\ ran' = <<>> /\ UNCHANGED fs
        ELSE IF Current(pn[cd]) \in Executable
        THEN Run(pn, d)
        ELSE /\ panel' = pn
             /\ cwd' = d
             /\ screen' = IF enter THEN [screen EXCEPT ![cd] =
                             print_dir_dynamic(print_dir_static(@, pn[cd]), pn[cd], 1)]
                          ELSE screen
             /\ ran' = <<>>
             /\ UNCHANGED <<fs, cd, phase, form, forms, copy, parents>>

(* What get_file_path may return for a name in the working directory.      *)
get_file_path(n) == IF <<cwd, n>> \in Long THEN Cut[<<cwd, n>>] ELSE {<<cwd, n>>}

(* popup_new: a form with its fields filled in and the focus on "OK".      *)
popup_new(kind, src, txt) ==
    [kind |-> kind, path |-> src, shown |-> txt, buf |-> txt,
     field |-> 1, button |-> TRUE, item |-> "OK"]

(* The destination offered is the working directory itself.                *)
display_copy_form(src, dst) == popup_new("copy", src, <<Field[src], Field[dst]>>)
display_del_form(src) == popup_new("delete", src, <<Field[src]>>)

(* KEY_F(5) and KEY_F(8) on a regular file open a form.                    *)
OpenForm(kind) ==
    /\ Current(panel[cd]) \in Files
    /\ forms < MaxForms
    /\ forms' = forms + 1
    /\ \E src \in get_file_path(Current(panel[cd])), dst \in get_file_path("") :
         form' = IF kind = "copy" THEN display_copy_form(src, dst) ELSE display_del_form(src)
    /\ phase' = "form"
    /\ UNCHANGED <<fs, proc, copy, parents>>

Quit == EndProcess /\ UNCHANGED fs

(* What F5 and F8 do last: read the active panel's directory again and     *)
(* print both panels.                                                      *)
Reload(disk) ==
    LET pn == [panel EXCEPT ![cd] = get_dir_info(disk, cwd, @)] IN
    IF Fatal(pn[cd]) THEN EndProcess
    ELSE /\ panel' = pn
         /\ screen' = Redraw(pn, cd)
         /\ phase' = "keys"
         /\ form' = NoForm
         /\ cfi' = NoForm /\ copier' = Idle /\ shower' = Idle
         /\ UNCHANGED <<cd, cwd, forms, parents>>

-----------------------------------------------------------------------------
(* popup.c: the keys of a form.  form.shown is what the fields display,    *)
(* form.buf what field_buffer returns: the form library brings the second  *)
(* up to date when a field is left.                                        *)

Synced == [form EXCEPT !.buf[form.field] = form.shown[form.field]]
LastField == Len(form.shown)

switch_to_buttons == [Synced EXCEPT !.button = TRUE, !.item = "OK"]

PopupDown ==
    /\ ~form.button
    /\ form' = IF form.field = LastField THEN switch_to_buttons
               ELSE [Synced EXCEPT !.field = @ + 1]

PopupUp ==
    form' = IF form.button THEN [form EXCEPT !.button = FALSE]
            ELSE [Synced EXCEPT !.field = IF @ = 1 THEN LastField ELSE @ - 1]

PopupLeftRight ==
    /\ form.button
    /\ form' = [form EXCEPT !.item = IF @ = "OK" THEN "CANCEL" ELSE "OK"]

(* Characters change the field when it has the focus, KEY_BACKSPACE always. *)
PopupType ==
    \E p \in Typed : form' = [form EXCEPT !.shown[form.field] = p]

PopupKey ==
    /\ PopupDown \/ PopupUp \/ PopupLeftRight \/ PopupType
    /\ UNCHANGED <<fs, proc, phase, forms, copy, parents>>

(* KEY_ENTER in a field.                                                   *)
PopupLeaveField ==
    /\ ~form.button
    /\ form' = switch_to_buttons
    /\ UNCHANGED <<fs, proc, phase, forms, copy, parents>>

(* display_copy_form returned 1: main starts the two threads.              *)
StartCopy ==
    /\ \E g \in Garbage :
         cfi' = [src |-> form.buf[1], dst |-> form.buf[2],
                 st_size |-> g[1], cur_size |-> g[2]]
    /\ copier' = [at |-> "open", n |-> 0]
    /\ shower' = [at |-> "start", n |-> 0]
    /\ phase' = "copying"
    /\ form' = NoForm
    /\ UNCHANGED <<fs, proc, forms, parents>>

unlink == IF form.path[2] = "" THEN fs
          ELSE [fs EXCEPT ![form.path[1]][form.path[2]] = Absent]

(* KEY_ENTER on a button.  copy_action_btn_ok takes strlen of the FIELD    *)
(* structures instead of their text, so OK may be taken for CANCEL.        *)
PopupButton ==
    /\ form.button
    /\ \/ form.kind = "copy" /\ form.item = "OK" /\ StartCopy
       \/ form.kind = "copy" /\ Reload(fs) /\ UNCHANGED fs
       \/ /\ form.kind = "delete" /\ form.item = "OK"
          /\ fs' = unlink
          /\ Reload(fs')
       \/ /\ form.kind = "delete" /\ form.item = "CANCEL"
          /\ Reload(fs) /\ UNCHANGED fs

-----------------------------------------------------------------------------
(* copy_file and display_copy_status.                                      *)

Size(path) == IF path[2] = "" THEN Absent ELSE fs[path[1]][path[2]]
CopierAt(a, n) == copier' = [at |-> a, n |-> n]

CopyOpen ==
    /\ copier.at = "open"
    /\ CopierAt(IF Size(cfi.src) = Absent THEN "failed" ELSE "stat", 0)
    /\ UNCHANGED <<fs, cfi>>

CopyStat ==
    /\ copier.at = "stat"
    /\ cfi' = [cfi EXCEPT !.st_size = Size(cfi.src)]
    /\ CopierAt("create", 0)
    /\ UNCHANGED fs

(* open with O_CREAT and O_TRUNC; a directory cannot be opened so.         *)
CopyCreate ==
    /\ copier.at = "create"
    /\ IF cfi.dst[2] = "" THEN CopierAt("failed", 0) /\ UNCHANGED fs
       ELSE /\ fs' = [fs EXCEPT ![cfi.dst[1]][cfi.dst[2]] = 0]
            /\ CopierAt("zero", 0)
    /\ UNCHANGED cfi

CopyZero ==
    /\ copier.at = "zero"
    /\ cfi' = [cfi EXCEPT !.cur_size = 0]
    /\ CopierAt("read", 0)
    /\ UNCHANGED fs

(* A mutant: only full buffers are counted.                                *)
CopyChunkFullOnly ==
    /\ copier.at = "read"
    /\ LET left   == Size(cfi.src) - copier.n
           nbytes == IF left < Chunk THEN left ELSE Chunk IN
       IF nbytes <= 0 THEN CopierAt("done", copier.n) /\ UNCHANGED <<fs, cfi>>
       ELSE /\ fs' = [fs EXCEPT ![cfi.dst[1]][cfi.dst[2]] = @ + nbytes]
            /\ cfi' = [cfi EXCEPT !.cur_size = @ + (nbytes \div Chunk) * Chunk]
            /\ CopierAt("read", copier.n + nbytes)

CopyChunk ==
    /\ copier.at = "read"
    /\ LET left   == Size(cfi.src) - copier.n
           nbytes == IF left < Chunk THEN left ELSE Chunk IN
       IF nbytes <= 0 THEN CopierAt("done", copier.n) /\ UNCHANGED <<fs, cfi>>
       ELSE \/ /\ fs' = [fs EXCEPT ![cfi.dst[1]][cfi.dst[2]] = @ + nbytes]
               /\ cfi' = [cfi EXCEPT !.cur_size = @ + nbytes]
               /\ CopierAt("read", copier.n + nbytes)
            \/ CopierAt("failed", 0) /\ UNCHANGED <<fs, cfi>>

Copier == /\ phase = "copying"
          /\ CopyOpen \/ CopyStat \/ CopyCreate \/ CopyZero \/ CopyChunk
          /\ UNCHANGED <<proc, phase, form, forms, shower, parents>>

ShowStart ==
    /\ shower.at = "start"
    /\ shower' = [at |-> "loop", n |-> cfi.st_size \div Bar]
    /\ UNCHANGED <<fs, proc, phase, form, forms, cfi, copier, parents>>

(* While the loop's condition holds the display only repeats itself; with  *)
(* less than one byte per character of the bar it divides by zero.         *)
ShowLoop ==
    /\ shower.at = "loop"
    /\ IF cfi.cur_size < cfi.st_size
       THEN shower.n = 0 /\ EndProcess /\ UNCHANGED fs
       ELSE /\ shower' = [shower EXCEPT !.at = "done"]
            /\ UNCHANGED <<fs, proc, phase, form, forms, cfi, copier, parents>>

Shower == phase = "copying" /\ (ShowStart \/ ShowLoop)

Joined == /\ phase = "copying"
          /\ copier.at \in {"done", "failed"} /\ shower.at = "done"
          /\ Reload(fs) /\ UNCHANGED fs

-----------------------------------------------------------------------------
Key == /\ phase = "keys"
       /\ \/ KeyEnter
          \/ /\ \/ KeyUp \/ KeyDown \/ KeyHome \/ KeyEnd \/ KeyTab
                \/ OpenForm("copy") \/ OpenForm("delete") \/ Quit
             /\ ran' = <<>>

Popup == /\ phase = "form"
         /\ PopupKey \/ PopupLeaveField \/ PopupButton
         /\ UNCHANGED ran

Threads == (Copier \/ Shower \/ Joined) /\ UNCHANGED ran

Next == Key \/ Popup \/ Threads

(* The threads run; no key need ever be pressed.                           *)
Spec == /\ Init /\ [][Next]_vars
        /\ WF_vars(Copier /\ UNCHANGED ran) /\ WF_vars(Shower /\ UNCHANGED ran)
        /\ WF_vars(Joined /\ UNCHANGED ran)
-----------------------------------------------------------------------------
(* What a user sees of the active panel: its title is w's path and it is   *)
(* drawn as the active one.  After a program has run there are no titles,  *)
(* and the left panel is drawn as active whichever is.                     *)
Shown(w) == \/ screen[cd].title = ""
            \/ screen[cd].title = getcwd(w) /\ screen[cd].colour = 1

(* A file disappears only by unlink, and then it is the file marked in the *)
(* panel shown as the active one, unless its path is too long for          *)
(* get_file_path: then it is a file that what is left of the path happens  *)
(* to name.  It becomes shorter only as the destination of the copy that   *)
(* runs.  get_file_path builds the path from the working directory, main   *)
(* keeps that in step with the panels, the screen is drawn by other calls  *)
(* again.                                                                  *)
OnlyMarkedIsLost ==
    [][\A d \in Dirs, f \in Files : fs'[d][f] < fs[d][f] =>
          \/ /\ phase = "form" /\ form.kind = "delete"
             /\ \E w \in Dirs : LET marked == <<w, screen[cd].name>> IN
                  /\ Shown(w)
                  /\ <<d, f>> = marked \/ (marked \in Long /\ <<d, f>> \in Cut[marked])
          \/ phase = "copying" /\ cfi.dst = <<d, f>>]_vars

(* n is the second of the names in d.                                      *)
Second(d, n) ==
    \E i, j \in DOMAIN Order :
        /\ i < j /\ Order[j] = n /\ Holds(fs, d, Order[i]) /\ Holds(fs, d, n)
        /\ \A k \in 1..(j - 1) : Holds(fs, d, Order[k]) => k = i

(* ENTER runs the program that is marked, unless a directory is marked and *)
(* the second name in it is a program that sorts before "..": get_dir_info *)
(* skips the first name, so entering makes the second one current, and the *)
(* test for a program follows in the same case of main's switch.           *)
RunsWhatIsMarked ==
    [][ran' # <<>> => \/ ran'[2] = screen[cd].name /\ Shown(ran'[1])
                     \/ /\ screen[cd].name \in Dirs \union {".", ".."}
                        /\ Second(ran'[1], ran'[2])]_vars

(* copy_file ends well only with the whole file copied and counted, unless *)
(* source and destination are one file, which O_TRUNC has emptied.         *)
CopyComplete ==
    phase = "copying" /\ copier.at = "done" /\ cfi.src # cfi.dst =>
        /\ Size(cfi.dst) = Size(cfi.src)
        /\ cfi.cur_size = cfi.st_size /\ cfi.st_size = Size(cfi.src)

(* After a copy that ended well the progress display ends too, whenever it *)
(* has looked at the size and the count, and main goes on.                 *)
CopyEnds ==
    phase = "copying" /\ copier.at = "done" /\ cfi.src # cfi.dst ~> phase # "copying"
=============================================================================
