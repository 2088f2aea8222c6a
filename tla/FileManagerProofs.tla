-------------------------- MODULE FileManagerProofs --------------------------
(***************************************************************************)
(* Theorems about FileManager: for any directories, disks, paths typed into *)
(* the forms and any sequence of keys, a copy that ends well is complete,   *)
(* only the file marked in the active panel can be lost, and ENTER runs the *)
(* program marked there or the second name of the directory it enters.      *)
(***************************************************************************)
EXTENDS FileManager, WellFoundedInduction, TLAPS

\* What getcwd may put into a DIR_INFO.
Titles == (Dirs \ Deep) \union {"-"}

\* A pair of DIR_INFOs, and what the screen shows of it.
IsPanels(pn) ==
    /\ DOMAIN pn = Panels
    /\ \A p \in Panels : /\ {"path", "list", "cur"} \subseteq DOMAIN pn[p]
                         /\ pn[p].path \in Titles

Shows(scr, pn) ==
    /\ DOMAIN scr = Panels
    /\ \A p \in Panels : /\ {"title", "name", "colour"} \subseteq DOMAIN scr[p]
                         /\ scr[p].name = Current(pn[p])
                         /\ scr[p].title \in {pn[p].path, ""}

\* The active panel is drawn as such, unless a program has run.
Drawn(scr, c) == scr[c].title = "" \/ scr[c].colour = 1

\* The working directory is the active panel's.
InStep(pn, c, w) == IsPanels(pn) /\ c \in Panels /\ w \in Dirs /\ pn[c].path = getcwd(w)

Disk == fs \in [Dirs -> [Files -> Nat \union {Absent}]]

View == InStep(panel, cd, cwd) /\ Shows(screen, panel) /\ Drawn(screen, cd)

\* A process that waits for its child has kept its panels in step, too.
Stack ==
    /\ \E S : parents \in Seq(S)
    /\ \A i \in 1..Len(parents) : InStep(parents[i].panel, parents[i].cd, parents[i].cwd)

\* Paths in a form are paths, and the file a form deletes is the one marked, or what
\* is left of its path.
IsForm(f) ==
    /\ {"kind", "path", "shown", "buf", "field", "button", "item"} \subseteq DOMAIN f
    /\ f.kind \in {"copy", "delete"}
    /\ f.kind = "copy" =>
         /\ DOMAIN f.shown = {1, 2} /\ DOMAIN f.buf = {1, 2}
         /\ \A i \in {1, 2} : f.shown[i] \in Paths /\ f.buf[i] \in Paths

FormPaths ==
    phase = "form" =>
        /\ IsForm(form)
        /\ form.kind = "delete" =>
             form.path \in Paths /\ form.path \in get_file_path(screen[cd].name)

CopyTypes ==
    /\ cfi \in [src : Paths, dst : Paths, st_size : Int, cur_size : Int]
    /\ copier \in [at : {"open", "stat", "create", "zero", "read", "done", "failed"}, n : Int]

\* What the destination holds is what was read and counted.
Progress ==
    /\ copier.at \in {"stat", "create", "zero", "read", "done"} => cfi.src[2] # ""
    /\ copier.at \in {"zero", "read", "done"} => cfi.dst[2] # ""
    /\ copier.at \in {"stat", "create"} => Size(cfi.src) >= 0
    /\ copier.at = "create" => cfi.st_size = Size(cfi.src)
    /\ copier.at = "zero" => copier.n = 0
    /\ cfi.src # cfi.dst /\ copier.at \in {"zero", "read", "done"} =>
         /\ cfi.st_size = Size(cfi.src)
         /\ copier.n \in 0..cfi.st_size
         /\ Size(cfi.dst) = copier.n
         /\ copier.at # "zero" => cfi.cur_size = copier.n
         /\ copier.at = "done" => copier.n = cfi.st_size

Copying == phase = "copying" => CopyTypes /\ Progress

IInv == Disk /\ View /\ Stack /\ FormPaths /\ Copying

-----------------------------------------------------------------------------
(* The display and the working directory *)

\* getcwd tells the path of a directory that is not too deep.
LEMMA Getcwd ==
  /\ \A d \in Dirs : getcwd(d) \in Titles
  /\ \A t \in Titles : t # "-" => t \in Dirs /\ getcwd(t) = t
  BY DEF getcwd, Titles

\* get_dir_info lists d, or leaves the path as it is.
LEMMA DirInfo ==
  ASSUME NEW disk, NEW d \in Dirs, NEW di, {"path", "list", "cur"} \subseteq DOMAIN di
  PROVE  /\ {"path", "list", "cur"} \subseteq DOMAIN get_dir_info(disk, d, di)
         /\ get_dir_info(disk, d, di).path \in {getcwd(d), di.path}
         /\ d \in Unreadable => get_dir_info(disk, d, di).list = <<>>
         /\ d \notin Unreadable => get_dir_info(disk, d, di).path = getcwd(d)
<1>1. PICK l : get_dir_info(disk, d, di) =
                 IF d \in Unreadable THEN [di EXCEPT !.list = <<>>, !.cur = 0]
                 ELSE [path |-> getcwd(d), cur |-> 1, list |-> l]
  BY Zenon DEF get_dir_info
<1>2. CASE d \in Unreadable
  BY <1>1, <1>2
<1>3. CASE d \notin Unreadable
  BY <1>1, <1>3
<1>4. QED  BY <1>2, <1>3

\* A panel that reads its directory again stays a panel.
LEMMA PanelRead ==
  ASSUME NEW pn, NEW c \in Panels, IsPanels(pn), NEW disk, NEW d \in Dirs, NEW pn2,
         pn2 = [pn EXCEPT ![c] = get_dir_info(disk, d, @)]
  PROVE  /\ IsPanels(pn2)
         /\ pn2[c].path \in {getcwd(d), pn[c].path}
         /\ d \in Unreadable => pn2[c].list = <<>>
         /\ d \notin Unreadable => pn2[c].path = getcwd(d)
         /\ \A p \in Panels : p # c => pn2[p] = pn[p]
<1>1. DOMAIN pn2 = Panels /\ pn2[c] = get_dir_info(disk, d, pn[c])
        /\ \A p \in Panels : p # c => pn2[p] = pn[p]
  BY DEF IsPanels
<1>2. {"path", "list", "cur"} \subseteq DOMAIN pn[c] /\ pn[c].path \in Titles
  BY DEF IsPanels
<1>3. getcwd(d) \in Titles
  BY Getcwd
<1>4. QED  BY <1>1, <1>2, <1>3, DirInfo DEF IsPanels

\* What a stack of waiting processes is after one more, or one less.
LEMMA Stacked ==
  ASSUME NEW S, NEW s \in Seq(S)
  PROVE  /\ \A e : /\ Append(s, e) \in Seq(S \union {e})
                   /\ Len(Append(s, e)) = Len(s) + 1
                   /\ Append(s, e)[Len(s) + 1] = e
                   /\ \A i \in 1..Len(s) : Append(s, e)[i] = s[i]
         /\ s # <<>> => /\ Front(s) \in Seq(S)
                        /\ Len(s) \in Nat \ {0}
                        /\ Len(Front(s)) = Len(s) - 1
                        /\ \A i \in 1..(Len(s) - 1) : Front(s)[i] = s[i]
<1>1. ASSUME NEW e
      PROVE  /\ Append(s, e) \in Seq(S \union {e})
             /\ Len(Append(s, e)) = Len(s) + 1
             /\ Append(s, e)[Len(s) + 1] = e
             /\ \A i \in 1..Len(s) : Append(s, e)[i] = s[i]
  OBVIOUS
<1>2. ASSUME s # <<>>
      PROVE  /\ Front(s) \in Seq(S)
             /\ Len(s) \in Nat \ {0}
             /\ Len(Front(s)) = Len(s) - 1
             /\ \A i \in 1..(Len(s) - 1) : Front(s)[i] = s[i]
  <2>1. Len(s) \in Nat /\ Len(s) > 0
    BY <1>2
  <2>2. Front(s) \in Seq(S) /\ \A i \in 1..(Len(s) - 1) : Front(s)[i] = s[i]
    BY <1>2 DEF Front
  <2>3. PICK n \in Nat : n = Len(s) - 1
    BY <2>1
  <2>4. Len(SubSeq(s, 1, n)) = n
    BY <2>3
  <2>5. QED  BY <2>1, <2>2, <2>3, <2>4 DEF Front
<1>3. QED  BY <1>1, <1>2

\* The end of a child brings back a parent whose panels are in step.
LEMMA EndStep == View /\ Stack /\ EndProcess => View' /\ Stack' /\ phase' \in {"gone", "keys"}
<1> SUFFICES ASSUME View, Stack, EndProcess
             PROVE  View' /\ Stack' /\ phase' \in {"gone", "keys"}
  OBVIOUS
<1>1. CASE parents = <<>>
  <2>1. phase' = "gone" /\ panel' = panel /\ cd' = cd /\ cwd' = cwd /\ screen' = screen
          /\ parents' = parents
    BY <1>1 DEF EndProcess, proc
  <2>2. View'
    BY <2>1 DEF View, InStep, IsPanels, Shows, Current, Drawn
  <2>3. Stack'
    BY <2>1 DEF Stack, InStep, IsPanels
  <2>4. QED  BY <2>1, <2>2, <2>3
<1>2. CASE parents # <<>>
  <2>1. PICK S : parents \in Seq(S)
    BY DEF Stack
  <2>2. PICK s : s = Last(parents)
    OBVIOUS
  <2>3. /\ panel' = s.panel /\ cd' = s.cd /\ cwd' = s.cwd /\ screen' = Workspace(s.panel)
        /\ parents' = Front(parents) /\ phase' = "keys"
    BY <1>2, <2>2 DEF EndProcess
  <2>4. InStep(s.panel, s.cd, s.cwd)
    BY <1>2, <2>1, <2>2, Stacked DEF Stack, Last
  <2>5. InStep(panel', cd', cwd')
    BY <2>3, <2>4
  <2>6. Shows(screen', panel') /\ Drawn(screen', cd')
    BY <2>3, <2>5 DEF Shows, Drawn, Workspace, InStep
  <2>7. View'
    BY <2>5, <2>6 DEF View, InStep, IsPanels, Shows, Current, Drawn
  <2>8. Stack'
    <3>1. /\ parents' \in Seq(S) /\ Len(parents') = Len(parents) - 1
          /\ Len(parents) \in Nat \ {0}
          /\ \A i \in 1..(Len(parents) - 1) : parents'[i] = parents[i]
      BY <1>2, <2>1, <2>3, Stacked
    <3>2. \A i \in 1..Len(parents') :
            InStep(parents'[i].panel, parents'[i].cd, parents'[i].cwd)
      BY <3>1 DEF Stack
    <3>3. QED  BY <3>1, <3>2 DEF Stack, InStep, IsPanels
  <2>9. QED  BY <2>3, <2>7, <2>8
<1>3. QED  BY <1>1, <1>2

\* What F5 and F8 do last leaves the panels in step and shown.
LEMMA ReloadStep ==
  ASSUME NEW disk, View, Stack, Reload(disk)
  PROVE  View' /\ Stack' /\ phase' \in {"gone", "keys"}
<1>1. PICK pn : pn = [panel EXCEPT ![cd] = get_dir_info(disk, cwd, @)]
  OBVIOUS
<1>2. CASE Fatal(pn[cd])
  BY <1>1, <1>2, EndStep DEF Reload
<1>3. CASE ~Fatal(pn[cd])
  <2>1. /\ panel' = pn /\ screen' = Redraw(pn, cd) /\ phase' = "keys"
        /\ cd' = cd /\ cwd' = cwd /\ parents' = parents
    BY <1>1, <1>3 DEF Reload
  <2>2. IsPanels(panel) /\ cd \in Panels /\ panel[cd].path = getcwd(cwd) /\ cwd \in Dirs
    BY DEF View, InStep, IsPanels
  <2>3. IsPanels(pn) /\ pn[cd].path = getcwd(cwd)
    <3>1. IsPanels(pn) /\ pn[cd].path \in {getcwd(cwd), panel[cd].path}
      BY <1>1, <2>2, PanelRead, Zenon
    <3>2. QED  BY <2>2, <3>1
  <2>4. Shows(Redraw(pn, cd), pn) /\ Drawn(Redraw(pn, cd), cd)
    BY <2>2 DEF View, Shows, Drawn, Redraw, print_dir_static, print_dir_dynamic
  <2>5. View'
    BY <2>1, <2>2, <2>3, <2>4 DEF View, InStep, IsPanels, Shows, Current, Drawn
  <2>6. Stack'
    BY <2>1 DEF Stack, InStep, IsPanels
  <2>7. QED  BY <2>1, <2>5, <2>6
<1>4. QED  BY <1>2, <1>3

\* A key that moves the mark.
LEMMA SelectStep == ASSUME NEW i, View, Select(i) PROVE View'
<1>1. PICK pn : pn = [panel EXCEPT ![cd].cur = i]
  OBVIOUS
<1>2. /\ panel' = pn /\ cd' = cd /\ cwd' = cwd
      /\ screen' = [screen EXCEPT ![cd] = print_dir_dynamic(@, pn[cd], 1)]
  BY <1>1 DEF Select
<1>3. IsPanels(panel) /\ cd \in Panels /\ cwd \in Dirs /\ panel[cd].path = getcwd(cwd)
  BY DEF View, InStep
<1>4. IsPanels(pn) /\ \A p \in Panels : pn[p].path = panel[p].path
  BY <1>1, <1>3 DEF IsPanels
<1>5. \A p \in Panels : p # cd => pn[p] = panel[p]
  BY <1>1, <1>3 DEF IsPanels
<1>6. Shows(screen', pn)
  <2>1. DOMAIN screen' = Panels
    BY <1>2, <1>3 DEF View, Shows
  <2>2. screen'[cd] = [screen[cd] EXCEPT !.name = Current(pn[cd]), !.colour = 1]
    BY <1>2, <1>3 DEF View, Shows, print_dir_dynamic
  <2>3. \A p \in Panels : p # cd => screen'[p] = screen[p]
    BY <1>2, <1>3 DEF View, Shows
  <2>4. /\ {"title", "name", "colour"} \subseteq DOMAIN screen'[cd]
        /\ screen'[cd].name = Current(pn[cd])
        /\ screen'[cd].title \in {pn[cd].path, ""}
    BY <1>3, <1>4, <2>2 DEF View, Shows
  <2>5. ASSUME NEW p \in Panels, p # cd
        PROVE  /\ {"title", "name", "colour"} \subseteq DOMAIN screen'[p]
               /\ screen'[p].name = Current(pn[p])
               /\ screen'[p].title \in {pn[p].path, ""}
    BY <1>5, <2>3, <2>5 DEF View, Shows
  <2>6. QED  BY <2>1, <2>4, <2>5 DEF Shows
<1>7. Drawn(screen', cd)
  BY <1>2, <1>3 DEF View, Shows, Drawn, print_dir_dynamic
<1>8. QED  BY <1>2, <1>3, <1>4, <1>6, <1>7 DEF View, InStep, IsPanels, Shows, Current, Drawn

\* The other panel becomes active, and its directory the working directory, or the
\* process ends.
LEMMA TabStep ==
  View /\ Stack /\ phase = "keys" /\ KeyTab
    => View' /\ Stack' /\ phase' \in {"gone", "keys"} /\ fs' = fs
<1> SUFFICES ASSUME View, Stack, phase = "keys", KeyTab
             PROVE  View' /\ Stack' /\ phase' \in {"gone", "keys"} /\ fs' = fs
  OBVIOUS
<1>1. CASE panel[Other(cd)].path = "-"
  <2>1. EndProcess /\ fs' = fs
    BY <1>1 DEF KeyTab
  <2>2. QED  BY <2>1, EndStep
<1>2. CASE panel[Other(cd)].path # "-"
  <2>1. PICK c : c = Other(cd)
    OBVIOUS
  <2>2. /\ panel' = panel /\ cd' = c /\ cwd' = panel[c].path
        /\ fs' = fs /\ phase' = phase /\ parents' = parents
        /\ screen' = [p \in Panels |-> print_dir_dynamic(screen[p], panel[p],
                                                        IF p = c THEN 1 ELSE 2)]
    BY <1>2, <2>1 DEF KeyTab
  <2>3. c \in Panels
    BY <2>1 DEF Other, Panels
  <2>4. cwd' \in Dirs /\ panel[c].path = getcwd(cwd')
    <3>1. panel[c].path \in Titles /\ panel[c].path # "-"
      BY <1>2, <2>1, <2>3 DEF View, InStep, IsPanels
    <3>2. QED  BY <2>2, <3>1, Getcwd
  <2>5. Shows(screen', panel) /\ Drawn(screen', c)
    BY <2>2, <2>3 DEF View, Shows, Drawn, print_dir_dynamic
  <2>6. View'
    BY <2>2, <2>3, <2>4, <2>5 DEF View, InStep, IsPanels, Shows, Current, Drawn
  <2>7. Stack'
    BY <2>2 DEF Stack, InStep, IsPanels
  <2>8. QED  BY <2>2, <2>6, <2>7
<1>3. QED  BY <1>1, <1>2

\* ENTER: whatever it enters or runs, panels and working directory agree, and a
\* process that waits has saved them so.
LEMMA EnterStep ==
  View /\ Stack /\ phase = "keys" /\ KeyEnter
    => View' /\ Stack' /\ phase' \in {"gone", "keys"} /\ fs' = fs
<1> SUFFICES ASSUME View, Stack, phase = "keys", KeyEnter
             PROVE  View' /\ Stack' /\ phase' \in {"gone", "keys"} /\ fs' = fs
  OBVIOUS
<1>1. IsPanels(panel) /\ cd \in Panels /\ panel[cd].path = getcwd(cwd) /\ cwd \in Dirs
  BY DEF View, InStep, IsPanels
<1>2. PICK sel : sel = Current(panel[cd])
  OBVIOUS
<1> DEFINE b == sel \in Dirs \union {".", ".."}
<1>4. PICK d : d = IF b THEN Target(sel) ELSE cwd
  OBVIOUS
<1>5. PICK pn : pn = IF b THEN [panel EXCEPT ![cd] = get_dir_info(fs, d, @)] ELSE panel
  OBVIOUS
<1>6. d \in Dirs
  BY <1>1, <1>4, PathsAssumption DEF Target
<1>7. pn[cd].list # <<>> => InStep(pn, cd, d)
  <2>1. CASE b
    <3>1. pn = [panel EXCEPT ![cd] = get_dir_info(fs, d, @)]
      BY <1>5, <2>1
    <3>2. IsPanels(pn)
      BY <1>1, <1>6, <3>1, PanelRead, Zenon
    <3>3. pn[cd] = get_dir_info(fs, d, panel[cd])
      BY <1>1, <3>1 DEF IsPanels
    <3>4. /\ d \in Unreadable => get_dir_info(fs, d, panel[cd]).list = <<>>
          /\ d \notin Unreadable => get_dir_info(fs, d, panel[cd]).path = getcwd(d)
      BY <1>1, <1>6, DirInfo DEF IsPanels
    <3>5. QED  BY <1>1, <1>6, <3>2, <3>3, <3>4 DEF InStep
  <2>2. CASE ~b
    BY <1>1, <1>4, <1>5, <2>2 DEF InStep
  <2>3. QED  BY <2>1, <2>2
<1>8. \A p \in Panels : p # cd => pn[p] = panel[p]
  BY <1>1, <1>5 DEF IsPanels
<1>9. \/ EndProcess /\ fs' = fs
      \/ pn[cd].list # <<>> /\ Run(pn, d)
      \/ /\ pn[cd].list # <<>> /\ panel' = pn /\ cwd' = d /\ cd' = cd
         /\ screen' = IF b THEN [screen EXCEPT ![cd] =
                                   print_dir_dynamic(print_dir_static(@, pn[cd]), pn[cd], 1)]
                      ELSE screen
         /\ fs' = fs /\ phase' = phase /\ parents' = parents
  BY <1>2, <1>4, <1>5, Zenon DEF KeyEnter
<1>10. CASE EndProcess /\ fs' = fs
  BY <1>10, EndStep
<1>11. CASE pn[cd].list # <<>> /\ Run(pn, d)
  <2>1. InStep(pn, cd, d)
    BY <1>7, <1>11
  <2>2. /\ panel' = pn /\ cwd' = d /\ cd' = cd /\ screen' = Workspace(pn)
        /\ phase' = phase /\ fs' = fs
    BY <1>11 DEF Run
  <2>3. View'
    <3>1. Shows(Workspace(pn), pn) /\ Drawn(Workspace(pn), cd)
      BY <1>1 DEF Shows, Drawn, Workspace
    <3>2. QED  BY <2>1, <2>2, <3>1 DEF View, InStep, IsPanels, Shows, Current, Drawn
  <2>4. Stack'
    <3>1. CASE parents' = parents
      BY <3>1 DEF Stack, InStep, IsPanels
    <3>2. ASSUME NEW e, e = [panel |-> pn, cd |-> cd, cwd |-> d], parents' = Append(parents, e)
          PROVE  Stack'
      <4>1. PICK S : parents \in Seq(S)
        BY DEF Stack
      <4>2. /\ parents' \in Seq(S \union {e}) /\ Len(parents') = Len(parents) + 1
            /\ Len(parents) \in Nat
            /\ parents'[Len(parents) + 1] = e
            /\ \A i \in 1..Len(parents) : parents'[i] = parents[i]
        BY <3>2, <4>1, Stacked
      <4>3. InStep(e.panel, e.cd, e.cwd)
        BY <2>1, <3>2
      <4>4. ASSUME NEW i \in 1..Len(parents')
            PROVE  InStep(parents'[i].panel, parents'[i].cd, parents'[i].cwd)
        <5>1. CASE i = Len(parents) + 1
          BY <4>2, <4>3, <5>1
        <5>2. CASE i # Len(parents) + 1
          BY <4>2, <5>2 DEF Stack
        <5>3. QED  BY <5>1, <5>2
      <4>5. QED  BY <4>2, <4>4 DEF Stack, InStep, IsPanels
    <3>3. QED  BY <1>11, <3>1, <3>2 DEF Run
  <2>5. QED  BY <2>2, <2>3, <2>4
<1>12. CASE /\ pn[cd].list # <<>> /\ panel' = pn /\ cwd' = d /\ cd' = cd
            /\ screen' = IF b THEN [screen EXCEPT ![cd] =
                                      print_dir_dynamic(print_dir_static(@, pn[cd]), pn[cd], 1)]
                         ELSE screen
            /\ fs' = fs /\ phase' = phase /\ parents' = parents
  <2>1. InStep(pn, cd, d)
    BY <1>7, <1>12
  <2>2. Shows(screen', pn) /\ Drawn(screen', cd)
    <3>1. CASE ~b
      BY <1>5, <1>12, <3>1 DEF View
    <3>2. CASE b
      <4>1. screen' = [screen EXCEPT ![cd] = print_dir_dynamic(print_dir_static(@, pn[cd]), pn[cd], 1)]
        BY <1>12, <3>2
      <4>2. DOMAIN screen' = Panels /\ \A p \in Panels : p # cd => screen'[p] = screen[p]
        BY <1>1, <4>1 DEF View, Shows
      <4>3. screen'[cd] = [[screen[cd] EXCEPT !.title = pn[cd].path]
                             EXCEPT !.name = Current(pn[cd]), !.colour = 1]
        BY <1>1, <4>1 DEF View, Shows, print_dir_dynamic, print_dir_static
      <4>4. /\ {"title", "name", "colour"} \subseteq DOMAIN screen'[cd]
            /\ screen'[cd].name = Current(pn[cd])
            /\ screen'[cd].title = pn[cd].path /\ screen'[cd].colour = 1
        BY <1>1, <4>3 DEF View, Shows
      <4>5. ASSUME NEW p \in Panels, p # cd
            PROVE  /\ {"title", "name", "colour"} \subseteq DOMAIN screen'[p]
                   /\ screen'[p].name = Current(pn[p])
                   /\ screen'[p].title \in {pn[p].path, ""}
        BY <1>8, <4>2, <4>5 DEF View, Shows
      <4>6. QED  BY <4>2, <4>4, <4>5 DEF Shows, Drawn
    <3>3. QED  BY <3>1, <3>2
  <2>3. View'
    BY <1>12, <2>1, <2>2 DEF View, InStep, IsPanels, Shows, Current, Drawn
  <2>4. Stack'
    BY <1>12 DEF Stack, InStep, IsPanels
  <2>5. QED  BY <1>12, <2>3, <2>4
<1>13. QED  BY <1>9, <1>10, <1>11, <1>12

-----------------------------------------------------------------------------
(* The forms *)

\* A field that is left, or typed into, holds a path again.
LEMMA FieldFilled ==
  ASSUME NEW f, IsForm(f), NEW i, NEW x, i \in {1, 2} /\ f.kind = "copy" => x \in Paths,
         NEW g, g = [f EXCEPT !.buf[i] = x] \/ g = [f EXCEPT !.shown[i] = x]
  PROVE  IsForm(g) /\ g.kind = f.kind /\ g.path = f.path
<1>1. CASE g = [f EXCEPT !.buf[i] = x]
  <2>1. /\ DOMAIN g = DOMAIN f /\ g.kind = f.kind /\ g.path = f.path /\ g.shown = f.shown
        /\ g.buf = [f.buf EXCEPT ![i] = x]
    BY <1>1 DEF IsForm
  <2>2. QED  BY <2>1 DEF IsForm
<1>2. CASE g = [f EXCEPT !.shown[i] = x]
  <2>1. /\ DOMAIN g = DOMAIN f /\ g.kind = f.kind /\ g.path = f.path /\ g.buf = f.buf
        /\ g.shown = [f.shown EXCEPT ![i] = x]
    BY <1>2 DEF IsForm
  <2>2. QED  BY <2>1 DEF IsForm
<1>3. QED  BY <1>1, <1>2

\* No key of a form but ENTER on a button touches more than the fields.
LEMMA FormStep ==
  ASSUME IsForm(form),
         PopupDown \/ PopupUp \/ PopupLeftRight \/ PopupType \/ form' = switch_to_buttons
  PROVE  IsForm(form') /\ form'.kind = form.kind /\ form'.path = form.path
<1>1. PICK f, sy, g : f = form /\ sy = Synced /\ g = form'
  OBVIOUS
<1>2. IsForm(f)
  BY <1>1
<1>3. SUFFICES IsForm(g) /\ g.kind = f.kind /\ g.path = f.path
  BY <1>1
<1>4. IsForm(sy) /\ sy.kind = f.kind /\ sy.path = f.path
  <2>1. PICK i, x : i = f.field /\ x = f.shown[i]
    OBVIOUS
  <2>2. sy = [f EXCEPT !.buf[i] = x]
    BY <1>1, <2>1 DEF Synced
  <2>3. i \in {1, 2} /\ f.kind = "copy" => x \in Paths
    BY <1>2, <2>1 DEF IsForm
  <2>4. QED  BY <1>2, <2>2, <2>3, FieldFilled, SMTT(40)
<1>5. ASSUME NEW x, NEW y, g = [sy EXCEPT !.field = x] \/ g = [sy EXCEPT !.button = x, !.item = y]
      PROVE  IsForm(g) /\ g.kind = f.kind /\ g.path = f.path
  <2>1. IsForm(g) /\ g.kind = sy.kind /\ g.path = sy.path
    BY <1>4, <1>5 DEF IsForm
  <2>2. QED  BY <1>4, <2>1
<1>6. CASE PopupDown
  <2>1. \/ g = [sy EXCEPT !.button = TRUE, !.item = "OK"]
        \/ g = [sy EXCEPT !.field = sy.field + 1]
    BY <1>1, <1>6, Zenon DEF PopupDown, switch_to_buttons
  <2>2. QED  BY <1>5, <2>1
<1>7. CASE PopupUp
  <2>1. PICK k : g = [f EXCEPT !.button = FALSE] \/ g = [sy EXCEPT !.field = k]
    BY <1>1, <1>7, Zenon DEF PopupUp
  <2>2. CASE g = [f EXCEPT !.button = FALSE]
    BY <1>2, <2>2 DEF IsForm
  <2>3. CASE g = [sy EXCEPT !.field = k]
    BY <1>5, <2>3
  <2>4. QED  BY <2>1, <2>2, <2>3
<1>8. CASE PopupLeftRight
  <2>1. PICK k : g = [f EXCEPT !.item = k]
    BY <1>1, <1>8, Zenon DEF PopupLeftRight
  <2>2. /\ DOMAIN g = DOMAIN f /\ g.kind = f.kind /\ g.path = f.path
        /\ g.shown = f.shown /\ g.buf = f.buf
    BY <1>2, <2>1 DEF IsForm
  <2>3. IsForm(g)
    BY <1>2, <2>2, Zenon DEF IsForm
  <2>4. QED  BY <2>2, <2>3
<1>9. CASE PopupType
  <2>1. PICK p \in Typed : form' = [form EXCEPT !.shown[form.field] = p]
    BY <1>9 DEF PopupType
  <2>2. p \in Paths
    BY PathsAssumption DEF Paths
  <2>3. PICK i : i = f.field
    OBVIOUS
  <2>4. g = [f EXCEPT !.shown[i] = p]
    BY <1>1, <2>1, <2>3
  <2>5. i \in {1, 2} /\ f.kind = "copy" => p \in Paths
    BY <2>2
  <2>6. QED  BY <1>2, <2>4, <2>5, FieldFilled
<1>10. CASE form' = switch_to_buttons
  <2>1. g = [sy EXCEPT !.button = TRUE, !.item = "OK"]
    BY <1>1, <1>10 DEF switch_to_buttons
  <2>2. QED  BY <1>5, <2>1
<1>11. QED  BY <1>6, <1>7, <1>8, <1>9, <1>10

-----------------------------------------------------------------------------
(* copy_file *)

\* A path is a directory and a name.
LEMMA Pair ==
  ASSUME NEW A, NEW B, NEW p \in A \X B
  PROVE  p = <<p[1], p[2]>> /\ p[1] \in A /\ p[2] \in B
  OBVIOUS

LEMMA PathPair ==
  ASSUME NEW p \in Paths
  PROVE  p = <<p[1], p[2]>> /\ p[1] \in Dirs /\ p[2] \in Files \union {""}
<1>1. PICK B : B = Files \union {""}
  OBVIOUS
<1>2. p \in Dirs \X B
  BY <1>1 DEF Paths
<1>3. QED  BY <1>1, <1>2, Pair, ZenonT(60)

\* A write to one file leaves the others alone.
LEMMA Updated ==
  ASSUME NEW A, NEW B, NEW C, NEW f \in [A -> [B -> C]], NEW a \in A, NEW b \in B, NEW v \in C,
         NEW g, g = [f EXCEPT ![a][b] = v]
  PROVE  /\ g \in [A -> [B -> C]]
         /\ g[a][b] = v
         /\ \A d \in A, e \in B : d # a \/ e # b => g[d][e] = f[d][e]
  OBVIOUS

LEMMA FileWritten ==
  ASSUME Disk, NEW p \in Paths, p[2] # "", NEW v \in Nat \union {Absent},
         fs' = [fs EXCEPT ![p[1]][p[2]] = v]
  PROVE  /\ Disk'
         /\ fs'[p[1]][p[2]] = v
         /\ \A d \in Dirs, f \in Files : <<d, f>> # p => fs'[d][f] = fs[d][f]
<1>1. p = <<p[1], p[2]>> /\ p[1] \in Dirs /\ p[2] \in Files \union {""}
  BY PathPair
<1>2. PICK a \in Dirs, b \in Files : a = p[1] /\ b = p[2]
  BY <1>1
<1>3. fs' = [fs EXCEPT ![a][b] = v]
  BY <1>2
<1>4. PICK C, g : C = Nat \union {Absent} /\ g = fs'
  OBVIOUS
<1>5. fs \in [Dirs -> [Files -> C]] /\ v \in C /\ g = [fs EXCEPT ![a][b] = v]
  BY <1>3, <1>4, Zenon DEF Disk
<1>6. /\ g \in [Dirs -> [Files -> C]]
      /\ g[a][b] = v
      /\ \A d \in Dirs, e \in Files : d # a \/ e # b => g[d][e] = fs[d][e]
  BY <1>5, Updated, ZenonT(60)
<1>7. Disk'
  BY <1>4, <1>6, Zenon DEF Disk
<1>8. QED  BY <1>1, <1>2, <1>4, <1>6, <1>7

\* A path with a name is a file's, and its size a number or Absent.
LEMMA SizeOf ==
  ASSUME Disk, NEW p \in Paths
  PROVE  /\ p[2] = "" => Size(p) = Absent
         /\ p[2] # "" => /\ <<p[1], p[2]>> = p /\ p[1] \in Dirs /\ p[2] \in Files
                         /\ Size(p) = fs[p[1]][p[2]]
         /\ Size(p) \in Nat \union {Absent}
<1>1. p = <<p[1], p[2]>> /\ p[1] \in Dirs /\ p[2] \in Files \union {""}
  BY PathPair
<1>2. CASE p[2] = ""
  BY <1>1, <1>2 DEF Size
<1>3. CASE p[2] # ""
  BY <1>1, <1>3 DEF Size, Disk
<1>4. QED  BY <1>2, <1>3

\* Every step of copy_file keeps what was read, counted and written equal.
LEMMA CopyStep ==
  ASSUME Disk, CopyTypes, Progress,
         CopyOpen \/ CopyStat \/ CopyCreate \/ CopyZero \/ CopyChunk
  PROVE  Disk' /\ CopyTypes' /\ Progress'
<1> DEFINE Places == {"open", "stat", "create", "zero", "read", "done", "failed"}
<1>1. /\ cfi \in [src : Paths, dst : Paths, st_size : Int, cur_size : Int]
      /\ copier \in [at : Places, n : Int]
  BY DEF CopyTypes
<1>2. PICK src \in Paths, dst \in Paths : src = cfi.src /\ dst = cfi.dst
  BY <1>1
<1>3. PICK zs \in Int, zd \in Int :
        zs = Size(src) /\ zd = Size(dst) /\ zs >= -1 /\ zd >= -1 /\ (src[2] = "" => zs = -1)
  <2>1. \A x \in Nat \union {Absent} : x \in Int /\ x >= -1
    BY DEF Absent
  <2>2. Size(src) \in Nat \union {Absent} /\ Size(dst) \in Nat \union {Absent}
    BY SizeOf
  <2>3. src[2] = "" => Size(src) = Absent
    BY SizeOf
  <2>4. QED  BY <2>1, <2>2, <2>3 DEF Absent
<1>4. ASSUME fs' = fs PROVE Disk' /\ Size(src)' = zs /\ Size(dst)' = zd
  BY <1>3, <1>4 DEF Disk, Size
<1>5. /\ copier.at \in {"stat", "create", "zero", "read", "done"} => src[2] # ""
      /\ copier.at \in {"zero", "read", "done"} => dst[2] # ""
      /\ copier.at \in {"stat", "create"} => zs >= 0
      /\ copier.at = "create" => cfi.st_size = zs
      /\ copier.at = "zero" => copier.n = 0
      /\ src # dst /\ copier.at \in {"zero", "read", "done"} =>
           /\ cfi.st_size = zs
           /\ copier.n \in 0..zs
           /\ zd = copier.n
           /\ copier.at # "zero" => cfi.cur_size = copier.n
           /\ copier.at = "done" => copier.n = zs
  BY <1>2, <1>3 DEF Progress
<1>6. CASE CopyOpen
  <2>1. /\ fs' = fs /\ cfi' = cfi
        /\ copier' = [at |-> IF zs = -1 THEN "failed" ELSE "stat", n |-> 0]
    BY <1>2, <1>3, <1>6 DEF CopyOpen, CopierAt, Absent
  <2>2. CopyTypes'
    BY <1>1, <2>1 DEF CopyTypes
  <2>3. zs # -1 => src[2] # "" /\ zs >= 0
    <3>1. zs # -1 => src[2] # ""
      BY <1>3, Zenon
    <3>2. zs \in Int /\ zs >= -1
      BY <1>3, Zenon
    <3>3. zs # -1 => zs >= 0
      BY <3>2
    <3>4. QED  BY <3>1, <3>3
  <2>4. cfi'.src = src /\ cfi'.dst = dst
    BY <1>2, <2>1
  <2>5. Progress'
    BY <1>4, <2>1, <2>3, <2>4 DEF Progress
  <2>6. QED  BY <1>4, <2>1, <2>2, <2>5
<1>7. CASE CopyStat
  <2>1. /\ fs' = fs /\ cfi' = [cfi EXCEPT !.st_size = zs]
        /\ copier' = [at |-> "create", n |-> 0] /\ copier.at = "stat"
    BY <1>2, <1>3, <1>7 DEF CopyStat, CopierAt
  <2>2. CopyTypes'
    BY <1>1, <2>1 DEF CopyTypes
  <2>3. cfi'.src = src /\ cfi'.dst = dst /\ cfi'.st_size = zs
    BY <1>1, <1>2, <2>1
  <2>4. src[2] # "" /\ zs >= 0
    BY <1>5, <2>1
  <2>5. Progress'
    BY <1>4, <2>1, <2>3, <2>4 DEF Progress
  <2>6. QED  BY <1>4, <2>1, <2>2, <2>5
<1>8. CASE CopyCreate
  <2>1. cfi' = cfi /\ copier.at = "create"
    BY <1>8 DEF CopyCreate
  <2>2. CASE dst[2] = ""
    <3>1. fs' = fs /\ copier' = [at |-> "failed", n |-> 0]
      BY <1>2, <1>8, <2>2 DEF CopyCreate, CopierAt
    <3>2. CopyTypes'
      BY <1>1, <2>1, <3>1 DEF CopyTypes
    <3>3. Progress'
      BY <3>1 DEF Progress
    <3>4. QED  BY <1>4, <3>1, <3>2, <3>3
  <2>3. CASE dst[2] # ""
    <3>1. fs' = [fs EXCEPT ![dst[1]][dst[2]] = 0] /\ copier' = [at |-> "zero", n |-> 0]
      BY <1>2, <1>8, <2>3 DEF CopyCreate, CopierAt
    <3>2. CopyTypes'
      BY <1>1, <2>1, <3>1 DEF CopyTypes
    <3>3. /\ Disk' /\ fs'[dst[1]][dst[2]] = 0
          /\ \A d \in Dirs, f \in Files : <<d, f>> # dst => fs'[d][f] = fs[d][f]
      BY <2>3, <3>1, FileWritten
    <3>4. src[2] # "" /\ zs >= 0 /\ cfi.st_size = zs
      BY <1>5, <2>1
    <3>5. Size(dst)' = 0 /\ (src # dst => Size(src)' = zs)
      BY <1>3, <2>3, <3>3, <3>4, SizeOf DEF Size
    <3>6. cfi'.src = src /\ cfi'.dst = dst /\ cfi'.st_size = zs
      BY <1>2, <2>1, <3>4
    <3>7. copier'.at = "zero" /\ copier'.n = 0
      BY <3>1
    <3>8. 0 \in 0..zs
      <4>1. zs >= 0
        BY <3>4, Zenon
      <4>2. QED  BY <4>1
    <3>9. Progress'
      BY <2>3, <3>4, <3>5, <3>6, <3>7, <3>8 DEF Progress
    <3>10. QED  BY <3>2, <3>3, <3>9
  <2>4. QED  BY <2>2, <2>3
<1>9. CASE CopyZero
  <2>1. /\ fs' = fs /\ cfi' = [cfi EXCEPT !.cur_size = 0]
        /\ copier' = [at |-> "read", n |-> 0] /\ copier.at = "zero"
    BY <1>9 DEF CopyZero, CopierAt
  <2>2. CopyTypes'
    BY <1>1, <2>1 DEF CopyTypes
  <2>3. cfi'.src = src /\ cfi'.dst = dst /\ cfi'.st_size = cfi.st_size /\ cfi'.cur_size = 0
    BY <1>1, <1>2, <2>1
  <2>4. Progress'
    BY <1>4, <1>5, <2>1, <2>3 DEF Progress
  <2>5. QED  BY <1>4, <2>1, <2>2, <2>4
<1>10. CASE CopyChunk
  <2>1. PICK n \in Int : n = copier.n
    BY <1>1
  <2>2. Chunk \in Int /\ Chunk > 0
    <3>1. Chunk \in Nat \ {0}
      BY CopyAssumption, Zenon
    <3>2. QED  BY <3>1
  <2>3. PICK k \in Int : k = IF zs - n < Chunk THEN zs - n ELSE Chunk
    BY <2>2
  <2>4. copier.at = "read" /\ k =< zs - n /\ (k <= 0 => k = zs - n)
    <3>1. copier.at = "read"
      BY <1>10 DEF CopyChunk
    <3>2. k =< zs - n /\ (k <= 0 => k = zs - n)
      BY <2>2, <2>3
    <3>3. QED  BY <3>1, <3>2
  <2>5. CASE k <= 0
    <3>1. fs' = fs /\ cfi' = cfi /\ copier' = [at |-> "done", n |-> n]
      BY <1>2, <1>3, <1>10, <2>1, <2>3, <2>5 DEF CopyChunk, CopierAt
    <3>2. CopyTypes'
      BY <1>1, <3>1 DEF CopyTypes
    <3>3. src # dst => n = zs
      <4>1. src # dst => n \in 0..zs
        BY <1>5, <2>1, <2>4, Zenon
      <4>2. k <= 0 /\ k = zs - n
        BY <2>4, <2>5
      <4>3. QED  BY <4>1, <4>2
    <3>4. cfi'.src = src /\ cfi'.dst = dst
      BY <1>2, <3>1
    <3>5. Progress'
      BY <1>4, <1>5, <2>1, <2>4, <3>1, <3>3, <3>4 DEF Progress
    <3>6. QED  BY <1>4, <3>1, <3>2, <3>5
  <2>6. CASE k > 0 /\ copier' = [at |-> "failed", n |-> 0] /\ fs' = fs /\ cfi' = cfi
    <3>1. CopyTypes'
      BY <1>1, <2>6 DEF CopyTypes
    <3>2. Progress'
      BY <2>6 DEF Progress
    <3>3. QED  BY <1>4, <2>6, <3>1, <3>2
  <2>7. CASE /\ k > 0 /\ fs' = [fs EXCEPT ![dst[1]][dst[2]] = @ + k]
             /\ cfi' = [cfi EXCEPT !.cur_size = @ + k]
             /\ copier' = [at |-> "read", n |-> n + k]
    <3>1. src[2] # "" /\ dst[2] # ""
      BY <1>5, <2>4
    <3>2. fs[dst[1]][dst[2]] = zd
      BY <1>3, <3>1, SizeOf
    <3>3. PICK v \in Nat \union {Absent} : v = zd + k
      <4>1. zd >= -1
        BY <1>3, Zenon
      <4>2. k > 0
        BY <2>7
      <4>3. zd + k \in Nat
        BY <4>1, <4>2
      <4>4. QED  BY <4>3
    <3>4. fs' = [fs EXCEPT ![dst[1]][dst[2]] = v]
      BY <2>7, <3>2, <3>3
    <3>5. /\ Disk' /\ fs'[dst[1]][dst[2]] = v
          /\ \A d \in Dirs, f \in Files : <<d, f>> # dst => fs'[d][f] = fs[d][f]
      BY <3>1, <3>4, FileWritten
    <3>6. Size(dst)' = zd + k /\ (src # dst => Size(src)' = zs)
      BY <1>3, <3>1, <3>3, <3>5, SizeOf DEF Size
    <3>7. CopyTypes'
      BY <1>1, <2>7 DEF CopyTypes
    <3>8. /\ cfi'.src = src /\ cfi'.dst = dst /\ cfi'.st_size = cfi.st_size
          /\ cfi'.cur_size = cfi.cur_size + k
      BY <1>1, <1>2, <2>7
    <3>9. src # dst => cfi.st_size = zs /\ n + k \in 0..zs /\ zd + k = n + k /\ cfi.cur_size = n
      <4>1. k > 0 /\ k =< zs - n
        BY <2>4, <2>7
      <4>2. src # dst => /\ cfi.st_size = zs /\ n \in 0..zs /\ zd = n
                         /\ cfi.cur_size = n
        BY <1>5, <2>1, <2>4
      <4>3. QED  BY <4>1, <4>2
    <3>10. Progress'
      BY <2>7, <3>1, <3>6, <3>8, <3>9 DEF Progress
    <3>11. QED  BY <3>5, <3>7, <3>10
  <2>8. QED
    <3>1. k > 0 =>
            \/ copier' = [at |-> "failed", n |-> 0] /\ fs' = fs /\ cfi' = cfi
            \/ /\ fs' = [fs EXCEPT ![dst[1]][dst[2]] = @ + k]
               /\ cfi' = [cfi EXCEPT !.cur_size = @ + k]
               /\ copier' = [at |-> "read", n |-> n + k]
      <4>1. zs = Size(cfi.src) /\ n = copier.n /\ dst = cfi.dst
        BY <1>2, <1>3, <2>1, Zenon
      <4>2. k = IF Size(cfi.src) - copier.n < Chunk THEN Size(cfi.src) - copier.n ELSE Chunk
        BY <2>3, <4>1, Zenon
      <4>3. \/ k <= 0
            \/ copier' = [at |-> "failed", n |-> 0] /\ fs' = fs /\ cfi' = cfi
            \/ /\ fs' = [fs EXCEPT ![cfi.dst[1]][cfi.dst[2]] = @ + k]
               /\ cfi' = [cfi EXCEPT !.cur_size = @ + k]
               /\ copier' = [at |-> "read", n |-> copier.n + k]
        BY <1>10, <4>2, Zenon DEF CopyChunk, CopierAt
      <4>4. k > 0 => ~(k <= 0)
        OBVIOUS
      <4>5. QED  BY <4>1, <4>3, <4>4, Zenon
    <3>2. k <= 0 \/ k > 0
      OBVIOUS
    <3>3. QED  BY <2>5, <2>6, <2>7, <3>1, <3>2, Zenon
<1>11. QED  BY <1>6, <1>7, <1>8, <1>9, <1>10

-----------------------------------------------------------------------------
(* The invariant *)

\* init_core and init_workspace leave both panels shown, and the left one active.
LEMMA IInvInit == Init => IInv
<1> SUFFICES ASSUME Init PROVE IInv
  OBVIOUS
<1>1. Disk
  BY DisksAssumption DEF Init, Disk
<1>2. FormPaths /\ Copying
  BY DEF Init, FormPaths, Copying
<1>3. Stack
  <2>1. parents = <<>>
    BY DEF Init
  <2>2. parents \in Seq({}) /\ Len(parents) = 0
    BY <2>1
  <2>3. QED  BY <2>2 DEF Stack
<1>4. PICK home \in Dirs \ Unreadable, pwd \in Dirs \ Unreadable : \E Nil, pn :
        /\ Nil = [path |-> pwd, list |-> <<>>, cur |-> 0]
        /\ pn = [p \in Panels |-> get_dir_info(fs, IF p = "ld" THEN pwd ELSE home, Nil)]
        /\ panel = pn /\ cwd = pwd
        /\ screen = [p \in Panels |-> print_dir_dynamic(print_dir_static(Blank, pn[p]), pn[p],
                                        IF p = "ld" THEN 1 ELSE 2)]
  BY DEF Init
<1>5. PICK Nil, pn :
        /\ Nil = [path |-> pwd, list |-> <<>>, cur |-> 0]
        /\ pn = [p \in Panels |-> get_dir_info(fs, IF p = "ld" THEN pwd ELSE home, Nil)]
        /\ panel = pn /\ cwd = pwd
        /\ screen = [p \in Panels |-> print_dir_dynamic(print_dir_static(Blank, pn[p]), pn[p],
                                        IF p = "ld" THEN 1 ELSE 2)]
  BY <1>4
<1>6. {"path", "list", "cur"} \subseteq DOMAIN Nil
  BY <1>5
<1>7. ASSUME NEW d \in Dirs \ Unreadable
      PROVE  /\ {"path", "list", "cur"} \subseteq DOMAIN get_dir_info(fs, d, Nil)
             /\ get_dir_info(fs, d, Nil).path = getcwd(d) /\ getcwd(d) \in Titles
  BY <1>6, DirInfo, Getcwd
<1>8. IsPanels(pn) /\ pn["ld"].path = getcwd(pwd)
  BY <1>5, <1>7 DEF IsPanels, Panels
<1>9. cd = "ld" /\ cd \in Panels
  BY DEF Init, Panels
<1>10. Shows(screen, pn) /\ Drawn(screen, "ld")
  BY <1>5 DEF Shows, Drawn, Panels, Blank, print_dir_static, print_dir_dynamic
<1>11. View
  BY <1>5, <1>8, <1>9, <1>10 DEF View, InStep
<1>12. QED  BY <1>1, <1>2, <1>3, <1>11 DEF IInv

\* What get_file_path returns is a path.
LEMMA FilePath ==
  ASSUME NEW n \in Files \union {""}, cwd \in Dirs
  PROVE  get_file_path(n) \subseteq Paths
<1>1. PICK p : p = <<cwd, n>>
  OBVIOUS
<1>2. p \in Paths
  BY <1>1 DEF Paths
<1>3. p \in Long => Cut[p] \subseteq Paths
  BY LengthAssumption
<1>4. get_file_path(n) = IF p \in Long THEN Cut[p] ELSE {p}
  BY <1>1 DEF get_file_path
<1>5. QED  BY <1>2, <1>3, <1>4

LEMMA TwoTexts ==
  ASSUME NEW a, NEW b, NEW txt, txt = <<a, b>>
  PROVE  DOMAIN txt = {1, 2} /\ txt[1] = a /\ txt[2] = b
<1>1. 1..2 = {1, 2}
  OBVIOUS
<1>2. QED  BY <1>1

\* F5 and F8 on a file open a form about that file.
LEMMA OpenFormStep ==
  ASSUME View, NEW kind \in {"copy", "delete"}, OpenForm(kind)
  PROVE  FormPaths' /\ phase' = "form"
<1>1. /\ phase' = "form" /\ panel' = panel /\ cd' = cd /\ cwd' = cwd /\ screen' = screen
      /\ Current(panel[cd]) \in Files
  BY DEF OpenForm, proc
<1>2. cd \in Panels /\ cwd \in Dirs /\ screen[cd].name = Current(panel[cd])
  BY DEF View, InStep, IsPanels, Shows
<1>3. PICK src \in get_file_path(screen[cd].name), dst \in get_file_path("") :
        form' = IF kind = "copy" THEN display_copy_form(src, dst) ELSE display_del_form(src)
  BY <1>2, Zenon DEF OpenForm
<1>4. src \in Paths /\ dst \in Paths
  BY <1>1, <1>2, <1>3, FilePath
<1>5. PICK s, t : s = Field[src] /\ t = Field[dst]
  OBVIOUS
<1>6. s \in Paths /\ t \in Paths
  BY <1>4, <1>5, LengthAssumption
<1>7. CASE kind = "copy"
  <2>1. PICK txt : txt = <<s, t>>
    OBVIOUS
  <2>2. form' = [kind |-> "copy", path |-> src, shown |-> txt, buf |-> txt,
                 field |-> 1, button |-> TRUE, item |-> "OK"]
    BY <1>3, <1>5, <1>7, <2>1, Zenon DEF display_copy_form, popup_new
  <2>3. DOMAIN txt = {1, 2} /\ txt[1] = s /\ txt[2] = t
    BY <2>1, TwoTexts, Zenon
  <2>4. IsForm(form')
    BY <1>6, <2>2, <2>3 DEF IsForm
  <2>5. form'.kind = "copy"
    BY <2>2
  <2>6. QED  BY <1>1, <2>4, <2>5 DEF FormPaths, IsForm
<1>8. CASE kind = "delete"
  <2>1. PICK txt : txt = <<s>>
    OBVIOUS
  <2>2. form' = [kind |-> "delete", path |-> src, shown |-> txt, buf |-> txt,
                 field |-> 1, button |-> TRUE, item |-> "OK"]
    <3>1. kind # "copy"
      BY <1>8
    <3>2. QED  BY <1>3, <1>5, <2>1, <3>1, Zenon DEF display_del_form, popup_new
  <2>3. IsForm(form') /\ form'.path = src
    BY <2>2 DEF IsForm
  <2>4. form'.path \in get_file_path(screen[cd].name)'
    BY <1>1, <1>3, <2>3 DEF get_file_path
  <2>5. QED  BY <1>1, <1>4, <2>3, <2>4 DEF FormPaths, IsForm
<1>9. QED  BY <1>1, <1>7, <1>8

\* Display, working directory and waiting processes that do not change stay in step.
LEMMA ProcKept ==
  View /\ Stack /\ UNCHANGED <<proc, parents>> => View' /\ Stack'
<1> SUFFICES ASSUME View, Stack, UNCHANGED <<proc, parents>> PROVE View' /\ Stack'
  OBVIOUS
<1>1. panel' = panel /\ cd' = cd /\ cwd' = cwd /\ screen' = screen /\ parents' = parents
  BY DEF proc
<1>2. View'
  BY <1>1 DEF View, InStep, IsPanels, Shows, Current
<1>3. Stack'
  BY <1>1 DEF Stack, InStep, IsPanels
<1>4. QED  BY <1>2, <1>3

\* unlink takes away the file of the form, and no other.
LEMMA UnlinkStep ==
  ASSUME Disk, FormPaths, phase = "form", form.kind = "delete", fs' = unlink
  PROVE  /\ Disk'
         /\ \A d \in Dirs, f \in Files : <<d, f>> # form.path => fs'[d][f] = fs[d][f]
<1>1. PICK p \in Paths : p = form.path
  BY DEF FormPaths
<1>2. fs' = IF p[2] = "" THEN fs ELSE [fs EXCEPT ![p[1]][p[2]] = Absent]
  BY <1>1 DEF unlink
<1>3. CASE p[2] = ""
  BY <1>2, <1>3 DEF Disk
<1>4. CASE p[2] # ""
  <2>1. Absent \in Nat \union {Absent}
    OBVIOUS
  <2>2. QED  BY <1>1, <1>2, <1>4, <2>1, FileWritten
<1>5. QED  BY <1>3, <1>4

\* Every step keeps the invariant.
LEMMA IInvStep == IInv /\ [Next]_vars => IInv'
<1> SUFFICES ASSUME IInv, [Next]_vars PROVE IInv'
  OBVIOUS
<1>1. Disk /\ View /\ Stack /\ FormPaths /\ Copying
  BY DEF IInv
<1>2. ASSUME View', Stack', phase' \in {"gone", "keys"}, Disk' PROVE IInv'
  BY <1>2 DEF IInv, FormPaths, Copying
<1>3. ASSUME fs' = fs PROVE Disk'
  BY <1>1, <1>3 DEF Disk
<1>4. CASE Key
  <2>1. phase = "keys"
    BY <1>4 DEF Key
  <2>2. CASE KeyEnter
    BY <1>1, <1>2, <1>3, <2>1, <2>2, EnterStep
  <2>3. ASSUME NEW i, Select(i) PROVE IInv'
    <3>1. fs' = fs /\ phase' = phase /\ parents' = parents
      BY <2>3 DEF Select
    <3>2. View'
      BY <1>1, <2>3, SelectStep
    <3>3. Stack'
      BY <1>1, <3>1 DEF Stack, InStep, IsPanels
    <3>4. QED  BY <1>2, <1>3, <2>1, <3>1, <3>2, <3>3
  <2>4. CASE KeyTab
    BY <1>1, <1>2, <1>3, <2>1, <2>4, TabStep
  <2>5. ASSUME NEW kind \in {"copy", "delete"}, OpenForm(kind) PROVE IInv'
    <3>1. fs' = fs /\ UNCHANGED <<proc, parents>>
      BY <2>5 DEF OpenForm
    <3>2. FormPaths' /\ phase' = "form"
      BY <1>1, <2>5, OpenFormStep
    <3>3. View' /\ Stack'
      BY <1>1, <3>1, ProcKept
    <3>4. QED  BY <1>3, <3>1, <3>2, <3>3 DEF IInv, Copying
  <2>6. CASE Quit
    BY <1>1, <1>2, <1>3, <2>6, EndStep DEF Quit
  <2>7. QED
    <3>1. \/ KeyEnter \/ KeyUp \/ KeyDown \/ KeyHome \/ KeyEnd \/ KeyTab
          \/ OpenForm("copy") \/ OpenForm("delete") \/ Quit
      BY <1>4 DEF Key
    <3>2. KeyUp \/ KeyDown \/ KeyHome \/ KeyEnd => \E i : Select(i)
      BY Zenon DEF KeyUp, KeyDown, KeyHome, KeyEnd
    <3>3. QED  BY <2>2, <2>3, <2>4, <2>5, <2>6, <3>1, <3>2
<1>5. CASE Popup
  <2>1. phase = "form" /\ IsForm(form)
    BY <1>1, <1>5 DEF Popup, FormPaths
  <2>2. CASE PopupKey \/ PopupLeaveField
    <3>1. fs' = fs /\ phase' = phase /\ UNCHANGED <<proc, parents>>
      BY <2>2 DEF PopupKey, PopupLeaveField
    <3>2. PopupDown \/ PopupUp \/ PopupLeftRight \/ PopupType \/ form' = switch_to_buttons
      BY <2>2 DEF PopupKey, PopupLeaveField
    <3>3. IsForm(form') /\ form'.kind = form.kind /\ form'.path = form.path
      BY <2>1, <3>2, FormStep
    <3>4. cwd' = cwd /\ screen' = screen /\ cd' = cd
      BY <3>1 DEF proc
    <3>5. FormPaths'
      BY <1>1, <2>1, <3>1, <3>3, <3>4 DEF FormPaths, IsForm, get_file_path
    <3>6. View' /\ Stack'
      BY <1>1, <3>1, ProcKept
    <3>7. Copying'
      BY <2>1, <3>1 DEF Copying
    <3>8. QED  BY <1>3, <3>1, <3>5, <3>6, <3>7 DEF IInv
  <2>3. ASSUME NEW disk, Reload(disk), Disk' PROVE IInv'
    BY <1>1, <1>2, <2>3, ReloadStep
  <2>4. CASE form.kind = "copy" /\ StartCopy
    <3>1. /\ fs' = fs /\ UNCHANGED <<proc, parents>> /\ phase' = "copying"
          /\ copier' = [at |-> "open", n |-> 0]
      BY <2>4 DEF StartCopy
    <3>2. View' /\ Stack'
      BY <1>1, <3>1, ProcKept
    <3>3. PICK g \in Int \X Int :
            cfi' = [src |-> form.buf[1], dst |-> form.buf[2], st_size |-> g[1], cur_size |-> g[2]]
      BY <2>4, CopyAssumption DEF StartCopy
    <3>4. form.buf[1] \in Paths /\ form.buf[2] \in Paths
      BY <2>1, <2>4 DEF IsForm
    <3>5. g[1] \in Int /\ g[2] \in Int
      BY <3>3
    <3>6. CopyTypes'
      BY <3>1, <3>3, <3>4, <3>5 DEF CopyTypes
    <3>7. Progress'
      BY <3>1 DEF Progress
    <3>8. QED  BY <1>3, <3>1, <3>2, <3>6, <3>7 DEF IInv, FormPaths, Copying
  <2>5. CASE form.kind = "delete" /\ fs' = unlink /\ Reload(fs')
    <3>1. Disk'
      BY <1>1, <2>1, <2>5, UnlinkStep
    <3>2. PICK disk : disk = fs'
      OBVIOUS
    <3>3. Reload(disk)
      BY <2>5, <3>2
    <3>4. QED  BY <2>3, <3>1, <3>3
  <2>6. CASE Reload(fs) /\ fs' = fs
    <3>1. PICK disk : disk = fs
      OBVIOUS
    <3>2. Reload(disk)
      BY <2>6, <3>1
    <3>3. QED  BY <1>3, <2>3, <2>6, <3>2
  <2>7. QED  BY <1>5, <2>2, <2>4, <2>5, <2>6 DEF Popup, PopupButton
<1>6. CASE Threads
  <2>1. CASE Copier
    <3>1. phase = "copying" /\ phase' = phase /\ UNCHANGED <<proc, parents>>
      BY <2>1 DEF Copier
    <3>2. View' /\ Stack'
      BY <1>1, <3>1, ProcKept
    <3>3. CopyTypes /\ Progress
      BY <1>1, <3>1 DEF Copying
    <3>4. Disk' /\ CopyTypes' /\ Progress'
      BY <1>1, <2>1, <3>3, CopyStep DEF Copier
    <3>5. QED  BY <3>1, <3>2, <3>4 DEF IInv, FormPaths, Copying
  <2>2. CASE Shower
    <3>1. CASE EndProcess /\ fs' = fs
      BY <1>1, <1>2, <1>3, <3>1, EndStep
    <3>2. CASE UNCHANGED <<fs, proc, phase, form, forms, cfi, copier, parents>>
      <4>1. View' /\ Stack'
        BY <1>1, <3>2, ProcKept
      <4>2. phase = "copying" /\ phase' = phase /\ cfi' = cfi /\ copier' = copier /\ fs' = fs
        BY <2>2, <3>2 DEF Shower
      <4>3. CopyTypes' /\ Progress'
        BY <1>1, <4>2 DEF Copying, CopyTypes, Progress, Size
      <4>4. QED  BY <1>3, <4>1, <4>2, <4>3 DEF IInv, FormPaths, Copying
    <3>3. QED  BY <2>2, <3>1, <3>2 DEF Shower, ShowStart, ShowLoop
  <2>3. CASE Joined
    <3>1. PICK disk : disk = fs
      OBVIOUS
    <3>2. Reload(disk) /\ fs' = fs
      BY <2>3, <3>1 DEF Joined
    <3>3. View' /\ Stack' /\ phase' \in {"gone", "keys"}
      BY <1>1, <3>2, ReloadStep
    <3>4. QED  BY <1>2, <1>3, <3>2, <3>3
  <2>4. QED  BY <1>6, <2>1, <2>2, <2>3 DEF Threads
<1>7. CASE UNCHANGED vars
  <2>1. /\ UNCHANGED <<proc, parents>> /\ fs' = fs /\ phase' = phase /\ form' = form
        /\ cfi' = cfi /\ copier' = copier
    BY <1>7 DEF vars, copy
  <2>2. View' /\ Stack'
    BY <1>1, <2>1, ProcKept
  <2>3. FormPaths'
    BY <1>1, <2>1 DEF FormPaths, IsForm, proc, get_file_path
  <2>4. Copying'
    BY <1>1, <2>1 DEF Copying, CopyTypes, Progress, Size
  <2>5. QED  BY <1>3, <2>1, <2>2, <2>3, <2>4 DEF IInv
<1>8. QED  BY <1>4, <1>5, <1>6, <1>7 DEF Next

\* The invariant holds throughout.
LEMMA Invariance == Spec => []IInv
<1>1. Init => IInv
  BY IInvInit
<1>2. IInv /\ [Next]_vars => IInv'
  BY IInvStep
<1>3. QED  BY <1>1, <1>2, PTL DEF Spec

\* copy_file ends well only when the destination has the whole file and the count is
\* complete, whatever the display does meanwhile (file_manager/lib/core.c).
THEOREM CopiesComplete == Spec => []CopyComplete
<1>1. IInv => CopyComplete
  <2> SUFFICES ASSUME IInv, phase = "copying", copier.at = "done", cfi.src # cfi.dst
               PROVE  /\ Size(cfi.dst) = Size(cfi.src)
                      /\ cfi.cur_size = cfi.st_size /\ cfi.st_size = Size(cfi.src)
    BY DEF CopyComplete
  <2>1. QED  BY DEF IInv, Copying, Progress
<1>2. QED  BY <1>1, Invariance, PTL

\* Whatever keys are pressed, a file is lost only by unlink of the file marked in the
\* active panel, or of what is left of a path too long for get_file_path, or shortened
\* as the destination of the copy that runs (file_manager/src/main.c, popup.c, core.c).
THEOREM OnlyMarkedLost == Spec => OnlyMarkedIsLost
<1> DEFINE Marked(d, f) ==
       \/ /\ phase = "form" /\ form.kind = "delete"
          /\ \E w \in Dirs : LET marked == <<w, screen[cd].name>> IN
               /\ Shown(w)
               /\ <<d, f>> = marked \/ (marked \in Long /\ <<d, f>> \in Cut[marked])
       \/ phase = "copying" /\ cfi.dst = <<d, f>>
<1>1. IInv /\ [Next]_vars =>
        [\A d \in Dirs, f \in Files : fs'[d][f] < fs[d][f] => Marked(d, f)]_vars
  <2> SUFFICES ASSUME IInv, [Next]_vars, NEW d \in Dirs, NEW f \in Files, fs'[d][f] < fs[d][f]
               PROVE  Marked(d, f)
    OBVIOUS
  <2>1. Disk /\ View /\ FormPaths /\ Copying
    BY DEF IInv
  <2>2. fs'[d][f] # fs[d][f]
    <3>1. fs[d][f] \in Int
      BY <2>1 DEF Disk, Absent
    <3>2. QED  BY <3>1
  <2>3. fs' # fs
    BY <2>2
  <2>4. CASE phase = "form" /\ form.kind = "delete" /\ fs' = unlink
    <3>1. <<d, f>> = form.path
      BY <2>1, <2>2, <2>4, UnlinkStep
    <3>2. <<d, f>> \in get_file_path(screen[cd].name)
      BY <2>1, <2>4, <3>1 DEF FormPaths
    <3>3. cwd \in Dirs /\ Shown(cwd)
      BY <2>1 DEF View, InStep, Shows, Drawn, Shown
    <3>4. PICK marked : marked = <<cwd, screen[cd].name>>
      OBVIOUS
    <3>5. <<d, f>> = marked \/ (marked \in Long /\ <<d, f>> \in Cut[marked])
      BY <3>2, <3>4 DEF get_file_path
    <3>6. QED  BY <2>4, <3>3, <3>4, <3>5
  <2>5. CASE phase = "copying" /\ (CopyCreate \/ CopyChunk)
    <3>1. CopyTypes /\ Progress
      BY <2>1, <2>5 DEF Copying
    <3>2. PICK p \in Paths : p = cfi.dst
      BY <3>1 DEF CopyTypes
    <3>3. PICK v : fs' = [fs EXCEPT ![p[1]][p[2]] = v]
      <4>1. fs' = fs \/ \E v : fs' = [fs EXCEPT ![cfi.dst[1]][cfi.dst[2]] = v]
        BY <2>5, Zenon DEF CopyCreate, CopyChunk
      <4>2. QED  BY <2>3, <3>2, <4>1, Zenon
    <3>4. p = <<p[1], p[2]>>
      BY PathPair
    <3>5. d = p[1] /\ f = p[2]
      <4>1. PICK a, b : a = p[1] /\ b = p[2]
        OBVIOUS
      <4>2. fs' = [fs EXCEPT ![a][b] = v]
        BY <3>3, <4>1
      <4>3. d # a \/ f # b => fs'[d][f] = fs[d][f]
        BY <2>1, <4>2 DEF Disk
      <4>4. QED  BY <2>2, <4>1, <4>3
    <3>6. <<d, f>> = cfi.dst
      BY <3>2, <3>4, <3>5
    <3>7. QED  BY <2>5, <3>6
  <2>6. QED
    <3>1. CASE Key
      <4>1. fs' = fs
        BY <2>1, <3>1, EnterStep, TabStep
           DEF IInv, Key, KeyUp, KeyDown, KeyHome, KeyEnd, Select, OpenForm, Quit
      <4>2. QED  BY <2>3, <4>1
    <3>2. CASE Popup
      BY <2>3, <2>4, <3>2
         DEF Popup, PopupKey, PopupLeaveField, PopupButton, StartCopy
    <3>3. CASE Threads
      BY <2>3, <2>5, <3>3
         DEF Threads, Copier, CopyOpen, CopyStat, CopyZero, Shower, ShowStart, ShowLoop, Joined
    <3>4. CASE UNCHANGED vars
      BY <2>3, <3>4 DEF vars
    <3>5. QED  BY <3>1, <3>2, <3>3, <3>4 DEF Next
<1>2. QED  BY <1>1, Invariance, PTL DEF Spec, OnlyMarkedIsLost

-----------------------------------------------------------------------------
(* Programs *)

\* A set of natural numbers that is not empty has a least element.
LEMMA LeastElement ==
  ASSUME NEW T, T \subseteq Nat, T # {}
  PROVE  \E x \in T : \A y \in T : x <= y
<1>1. PICK R : /\ IsWellFoundedOn(R, Nat)
               /\ \A x, y \in Nat : y < x => <<y, x>> \in R
  <2>1. \A x, y \in Nat : y < x => <<y, x>> \in OpToRel(<, Nat)
    BY DEF OpToRel
  <2>2. QED  BY <2>1, NatLessThanWellFounded, Zenon
<1>2. PICK x \in T : \A y \in T : ~(<<y, x>> \in R)
  BY <1>1, WFMin
<1>3. \A y \in T : x <= y
  <2> SUFFICES ASSUME NEW y \in T PROVE ~(y < x)
    OBVIOUS
  <2>1. QED  BY <1>1, <1>2
<1>4. QED  BY <1>3

\* A set that contains 0 and the successor of each of its natural numbers contains
\* every natural number.
LEMMA SetInduction ==
  ASSUME NEW S, 0 \in S, \A n \in Nat : n \in S => n + 1 \in S
  PROVE  Nat \subseteq S
<1> SUFFICES ASSUME NEW n \in Nat, n \notin S PROVE FALSE
  OBVIOUS
<1>1. PICK m \in Nat \ S : \A k \in Nat \ S : m <= k
  BY LeastElement
<1>2. m # 0 /\ m - 1 \in Nat /\ m - 1 \in S
  BY <1>1
<1>3. QED  BY <1>2

\* scandir's list of the first i of the names o, when H are those in the directory.
Kept(l, o, H, i) == IF o[i] \in H THEN Append(l, o[i]) ELSE l
ListStep(f, o, H, n) == [i \in 0..n |-> IF i = 0 THEN <<>> ELSE Kept(f[i - 1], o, H, i)]
Lists(o, H, n) == CHOOSE f : f = ListStep(f, o, H, n)

LEMMA ListsExist ==
  ASSUME NEW n \in Nat, NEW o, NEW H
  PROVE  \E f : f = ListStep(f, o, H, n)
<1> DEFINE S == {m \in Nat : \E f : f = ListStep(f, o, H, m)}
<1>1. 0 \in S
  <2>1. PICK f : f = [i \in 0..0 |-> <<>>]
    OBVIOUS
  <2>2. f = ListStep(f, o, H, 0)
    BY <2>1 DEF ListStep
  <2>3. QED  BY <2>2
<1>2. ASSUME NEW m \in Nat, m \in S PROVE m + 1 \in S
  <2>1. PICK f : f = ListStep(f, o, H, m)
    BY <1>2
  <2>2. PICK g : g = [i \in 0..(m + 1) |-> IF i = m + 1 THEN Kept(f[m], o, H, m + 1) ELSE f[i]]
    OBVIOUS
  <2>3. ASSUME NEW i \in 0..(m + 1) PROVE g[i] = ListStep(g, o, H, m + 1)[i]
    <3>1. CASE i = m + 1
      <4>1. g[m] = f[m]
        BY <2>2
      <4>2. g[i] = Kept(f[m], o, H, m + 1)
        BY <2>2, <3>1
      <4>3. i # 0 /\ i - 1 = m
        BY <3>1
      <4>4. QED  BY <3>1, <4>1, <4>2, <4>3 DEF ListStep
    <3>2. CASE i # m + 1
      <4>1. i \in 0..m /\ g[i] = f[i]
        BY <2>2, <3>2
      <4>2. f[i] = IF i = 0 THEN <<>> ELSE Kept(f[i - 1], o, H, i)
        BY <2>1, <4>1 DEF ListStep
      <4>3. i # 0 => g[i - 1] = f[i - 1]
        BY <2>2, <3>2
      <4>4. QED  BY <4>1, <4>2, <4>3 DEF ListStep
    <3>3. QED  BY <3>1, <3>2
  <2>4. g = ListStep(g, o, H, m + 1)
    BY <2>2, <2>3 DEF ListStep
  <2>5. QED  BY <2>4
<1> HIDE DEF S
<1>3. Nat \subseteq S
  BY <1>1, <1>2, SetInduction
<1>4. QED  BY <1>3 DEF S

\* What the first two names of a list are among the first m names of o.
FirstTwo(l, o, H, m) ==
  /\ Len(l) = 0 => \A k \in 1..m : o[k] \notin H
  /\ Len(l) = 1 => \E i \in 1..m : o[i] \in H /\ \A k \in 1..m : o[k] \in H => k = i
  /\ Len(l) >= 2 => \E i, j \in 1..m :
        /\ i < j /\ l[2] = o[j] /\ o[i] \in H /\ o[j] \in H
        /\ \A k \in 1..(j - 1) : o[k] \in H => k = i

LEMMA OneMoreName ==
  ASSUME NEW m \in Nat, NEW S, NEW l \in Seq(S), NEW o, NEW H, FirstTwo(l, o, H, m), o[m + 1] \in S
  PROVE  Kept(l, o, H, m + 1) \in Seq(S) /\ FirstTwo(Kept(l, o, H, m + 1), o, H, m + 1)
<1>1. PICK x, l2 : x = o[m + 1] /\ l2 = Kept(l, o, H, m + 1)
  OBVIOUS
<1>2. \A k \in 1..(m + 1) : k \in 1..m \/ k = m + 1
  OBVIOUS
<1>3. CASE x \notin H
  <2>1. l2 = l
    BY <1>1, <1>3 DEF Kept
  <2>2. \A i \in 1..m : i \in 1..(m + 1)
    OBVIOUS
  <2>3. QED  BY <1>1, <1>2, <1>3, <2>1, <2>2 DEF FirstTwo
<1>4. CASE x \in H
  <2>1. l2 = Append(l, x)
    BY <1>1, <1>4 DEF Kept
  <2>2. /\ l2 \in Seq(S) /\ Len(l) \in Nat /\ Len(l2) = Len(l) + 1
        /\ l2[Len(l) + 1] = x /\ \A i \in 1..Len(l) : l2[i] = l[i]
    BY <1>1, <2>1
  <2>3. CASE Len(l) = 0
    <3>1. \A k \in 1..m : o[k] \notin H
      BY <2>3 DEF FirstTwo
    <3>2. Len(l2) = 1 /\ m + 1 \in 1..(m + 1)
      BY <2>2, <2>3
    <3>3. o[m + 1] \in H /\ \A k \in 1..(m + 1) : o[k] \in H => k = m + 1
      BY <1>1, <1>2, <1>4, <3>1
    <3>4. QED  BY <1>1, <2>2, <3>2, <3>3 DEF FirstTwo
  <2>4. CASE Len(l) = 1
    <3>1. PICK i \in 1..m : o[i] \in H /\ \A k \in 1..m : o[k] \in H => k = i
      BY <2>4 DEF FirstTwo
    <3>2. Len(l2) = 2 /\ l2[2] = x
      BY <2>2, <2>4
    <3>3. PICK j \in 1..(m + 1) : j = m + 1 /\ i < j /\ i \in 1..(m + 1)
      OBVIOUS
    <3>4. \A k \in 1..(j - 1) : o[k] \in H => k = i
      BY <3>1, <3>3
    <3>5. l2[2] = o[j] /\ o[j] \in H
      BY <1>1, <1>4, <3>2, <3>3
    <3>6. QED  BY <1>1, <2>2, <3>1, <3>2, <3>3, <3>4, <3>5 DEF FirstTwo
  <2>5. CASE Len(l) >= 2
    <3>1. PICK i, j \in 1..m : /\ i < j /\ l[2] = o[j] /\ o[i] \in H /\ o[j] \in H
                               /\ \A k \in 1..(j - 1) : o[k] \in H => k = i
      BY <2>5 DEF FirstTwo
    <3>2. Len(l2) >= 2 /\ l2[2] = l[2]
      BY <2>2, <2>5
    <3>3. i \in 1..(m + 1) /\ j \in 1..(m + 1)
      OBVIOUS
    <3>4. Len(l2) # 0 /\ Len(l2) # 1
      BY <2>2, <3>2
    <3>5. QED  BY <1>1, <2>2, <3>1, <3>2, <3>3, <3>4 DEF FirstTwo
  <2>6. Len(l) = 0 \/ Len(l) = 1 \/ Len(l) >= 2
    <3>1. PICK a \in Nat : a = Len(l)
      BY <2>2
    <3>2. \A b \in Nat : b = 0 \/ b = 1 \/ b >= 2
      BY ONLY SMT
    <3>3. a = 0 \/ a = 1 \/ a >= 2
      BY <3>2
    <3>4. QED  BY <3>1, <3>3
  <2>7. QED  BY <2>3, <2>4, <2>5, <2>6
<1>5. QED  BY <1>3, <1>4

\* The second name that scandir returns.
LEMMA ScandirSecond ==
  ASSUME NEW disk, NEW d
  PROVE  \E i, j \in DOMAIN Order :
           /\ i < j /\ Tail(scandir(disk, d))[1] = Order[j]
           /\ Holds(disk, d, Order[i]) /\ Holds(disk, d, Order[j])
           /\ \A k \in 1..(j - 1) : Holds(disk, d, Order[k]) => k = i
<1>1. PICK n, S : n \in Nat /\ n = Len(Order) /\ S = STRING /\ Order \in Seq(S) /\ DOMAIN Order = 1..n
  <2>1. Order \in Seq(STRING)
    BY PathsAssumption
  <2>2. Len(Order) \in Nat /\ DOMAIN Order = 1..Len(Order)
    BY <2>1
  <2>3. QED  BY <2>1, <2>2
<1>2. PICK H : H = {Order[k] : k \in {i \in 1..n : Holds(disk, d, Order[i])}}
  OBVIOUS
<1>3. \A k \in 1..n : Order[k] \in H <=> Holds(disk, d, Order[k])
  BY <1>2
<1>4. scandir(disk, d) = Lists(Order, H, n)[n]
  <2> DEFINE Body(f) == [i \in 0..n |->
               IF i = 0 THEN <<>>
               ELSE IF Holds(disk, d, Order[i]) THEN Append(f[i - 1], Order[i]) ELSE f[i - 1]]
  <2>1. scandir(disk, d) = (CHOOSE f : f = Body(f))[n]
    BY <1>1 DEF scandir
  <2>2. \A f : Body(f) = ListStep(f, Order, H, n)
    BY <1>1, <1>3 DEF ListStep, Kept
  <2>3. (CHOOSE f : f = Body(f)) = (CHOOSE f : f = ListStep(f, Order, H, n))
    BY <2>2
  <2>4. QED  BY <2>1, <2>3 DEF Lists
<1>5. PICK f : f = Lists(Order, H, n) /\ f = ListStep(f, Order, H, n)
  <2>1. \E f : f = ListStep(f, Order, H, n)
    BY <1>1, ListsExist
  <2>2. QED  BY <2>1, Zenon DEF Lists
<1>6. f[0] = <<>> /\ \A i \in 1..n : f[i] = Kept(f[i - 1], Order, H, i)
  <2>1. \A i \in 0..n : f[i] = IF i = 0 THEN <<>> ELSE Kept(f[i - 1], Order, H, i)
    BY <1>5 DEF ListStep
  <2>2. QED  BY <1>1, <2>1
<1>7. f[n] \in Seq(S) /\ FirstTwo(f[n], Order, H, n)
  <2> DEFINE T == {m \in Nat : m \in 0..n => f[m] \in Seq(S) /\ FirstTwo(f[m], Order, H, m)}
  <2>1. 0 \in T
    <3>1. <<>> \in Seq(S) /\ Len(<<>>) = 0 /\ 1..0 = {}
      OBVIOUS
    <3>2. FirstTwo(<<>>, Order, H, 0)
      BY <3>1 DEF FirstTwo
    <3>3. QED  BY <1>6, <3>1, <3>2
  <2>2. ASSUME NEW m \in Nat, m \in T PROVE m + 1 \in T
    <3> SUFFICES ASSUME m + 1 \in 0..n
                 PROVE  f[m + 1] \in Seq(S) /\ FirstTwo(f[m + 1], Order, H, m + 1)
      OBVIOUS
    <3>1. m \in 0..n /\ m + 1 \in 1..n /\ (m + 1) - 1 = m
      BY <1>1
    <3>2. f[m] \in Seq(S) /\ FirstTwo(f[m], Order, H, m)
      BY <2>2, <3>1
    <3>3. f[m + 1] = Kept(f[m], Order, H, m + 1)
      BY <1>6, <3>1
    <3>4. Order[m + 1] \in S
      BY <1>1, <3>1
    <3>5. QED  BY <3>2, <3>3, <3>4, OneMoreName
  <2> HIDE DEF T
  <2>3. Nat \subseteq T
    BY <2>1, <2>2, SetInduction
  <2>4. n \in T /\ n \in 0..n
    BY <1>1, <2>3
  <2>5. QED  BY <2>4 DEF T
<1>8. PICK l : l = f[n] /\ l = scandir(disk, d) /\ l \in Seq(S)
  BY <1>4, <1>5, <1>7
<1>9. Len(l) >= 2 /\ Tail(l)[1] = l[2]
  <2>1. PICK a, b \in 1..n : Order[a] = "." /\ Order[b] = ".."
    BY <1>1, PathsAssumption DEF Range
  <2>2. a # b /\ Order[a] \in H /\ Order[b] \in H
    BY <1>3, <2>1 DEF Holds
  <2>3. Len(l) # 0 /\ Len(l) # 1
    BY <1>7, <1>8, <2>2 DEF FirstTwo
  <2>4. Len(l) \in Nat
    BY <1>8
  <2>5. Len(l) >= 2
    BY <2>3, <2>4
  <2>6. Tail(l)[1] = l[2]
    BY <1>8, <2>5
  <2>7. QED  BY <2>5, <2>6
<1>10. PICK i, j \in 1..n : /\ i < j /\ l[2] = Order[j] /\ Order[i] \in H /\ Order[j] \in H
                            /\ \A k \in 1..(j - 1) : Order[k] \in H => k = i
  BY <1>7, <1>8, <1>9 DEF FirstTwo
<1>11. Holds(disk, d, Order[i]) /\ Holds(disk, d, Order[j])
  BY <1>3, <1>10
<1>12. \A k \in 1..(j - 1) : Holds(disk, d, Order[k]) => k = i
  <2>1. \A k \in 1..(j - 1) : k \in 1..n
    BY <1>1
  <2>2. QED  BY <1>3, <1>10, <2>1
<1>13. Tail(scandir(disk, d))[1] = Order[j]
  BY <1>8, <1>9, <1>10
<1>14. QED  BY <1>1, <1>10, <1>11, <1>12, <1>13

\* No program is named while a form is open or a copy runs: each key that opens
\* one has cleared the name.
Cleared == phase \in {"form", "copying"} => ran = <<>>

LEMMA ClearedStep == Cleared /\ [Next]_vars => Cleared'
<1> SUFFICES ASSUME Cleared, [Next]_vars PROVE Cleared'
  OBVIOUS
<1>1. EndProcess /\ phase \in {"keys", "form", "copying"} => phase' \in {"gone", "keys"}
  BY DEF EndProcess
<1>2. ASSUME NEW disk, Reload(disk) PROVE phase' \in {"gone", "keys"}
  BY <1>2 DEF Reload, EndProcess
<1>3. CASE Key
  <2>1. CASE ran' = <<>>
    BY <2>1 DEF Cleared
  <2>2. CASE KeyEnter
    <3>1. phase = "keys"
      BY <1>3 DEF Key
    <3>2. phase' \in {"gone", "keys"}
      BY <1>1, <2>2, <3>1 DEF KeyEnter, Run
    <3>3. QED  BY <3>2 DEF Cleared
  <2>3. QED  BY <1>3, <2>1, <2>2 DEF Key
<1>4. CASE Popup
  BY <1>4 DEF Popup, Cleared
<1>5. CASE Threads
  <2>1. phase = "copying" /\ ran' = ran
    BY <1>5 DEF Threads, Copier, Shower, Joined
  <2>2. QED  BY <2>1 DEF Cleared
<1>6. CASE UNCHANGED vars
  BY <1>6 DEF vars, Cleared
<1>7. QED  BY <1>3, <1>4, <1>5, <1>6 DEF Next

\* The program that ENTER runs.
LEMMA EnterRuns ==
  ASSUME View, KeyEnter, ran' # <<>>
  PROVE  \/ ran'[2] = screen[cd].name /\ Shown(ran'[1])
         \/ screen[cd].name \in Dirs \union {".", ".."} /\ Second(ran'[1], ran'[2])
<1>1. /\ IsPanels(panel) /\ cd \in Panels /\ cwd \in Dirs
      /\ screen[cd].name = Current(panel[cd]) /\ Shown(cwd)
  BY DEF View, InStep, IsPanels, Shows, Drawn, Shown
<1>2. PICK sel : sel = Current(panel[cd])
  OBVIOUS
<1> DEFINE b == sel \in Dirs \union {".", ".."}
<1>3. PICK d : d = IF b THEN Target(sel) ELSE cwd
  OBVIOUS
<1>4. PICK pn : pn = IF b THEN [panel EXCEPT ![cd] = get_dir_info(fs, d, @)] ELSE panel
  OBVIOUS
<1>5. pn[cd].list # <<>> /\ ran' = <<d, Current(pn[cd])>>
  <2>1. pn[cd].list # <<>> /\ Run(pn, d)
    BY <1>2, <1>3, <1>4, Zenon DEF KeyEnter
  <2>2. QED  BY <2>1 DEF Run
<1>6. CASE ~b
  <2>1. pn = panel /\ d = cwd
    BY <1>3, <1>4, <1>6
  <2>2. ran'[1] = cwd /\ ran'[2] = screen[cd].name
    BY <1>1, <1>5, <2>1
  <2>3. QED  BY <1>1, <2>2
<1>7. CASE b
  <2>1. pn[cd] = get_dir_info(fs, d, panel[cd])
    BY <1>1, <1>4, <1>7 DEF IsPanels
  <2>2. d \notin Unreadable
    <3>1. d \in Unreadable => pn[cd] = [panel[cd] EXCEPT !.list = <<>>, !.cur = 0]
      BY <2>1, Zenon DEF get_dir_info
    <3>2. d \in Unreadable => pn[cd].list = <<>>
      BY <1>1, <3>1 DEF IsPanels
    <3>3. QED  BY <1>5, <3>2
  <2>3. PICK l : /\ l = Tail(scandir(fs, d))
                 /\ pn[cd] = [path |-> getcwd(d), cur |-> 1, list |-> l]
    BY <2>1, <2>2 DEF get_dir_info
  <2>4. Current(pn[cd]) = l[1]
    <3>1. PICK r : r = pn[cd]
      OBVIOUS
    <3>2. r.cur = 1 /\ r.list = l
      BY <2>3, <3>1
    <3>3. Current(r) = l[1]
      BY <3>2 DEF Current
    <3>4. QED  BY <3>1, <3>3
  <2>5. PICK i, j \in DOMAIN Order :
          /\ i < j /\ l[1] = Order[j] /\ Holds(fs, d, Order[i]) /\ Holds(fs, d, Order[j])
          /\ \A k \in 1..(j - 1) : Holds(fs, d, Order[k]) => k = i
    BY <2>3, ScandirSecond, Zenon
  <2>6. Second(d, l[1])
    BY <2>5 DEF Second
  <2>7. ran'[1] = d /\ ran'[2] = l[1]
    BY <1>5, <2>4
  <2>8. QED  BY <1>1, <1>2, <1>7, <2>6, <2>7
<1>8. QED  BY <1>6, <1>7

\* Whatever keys are pressed, ENTER runs the program that is marked in the active
\* panel, or, on a directory, the second name in it: never one further down, one of
\* the other panel or one that is no longer shown (file_manager/src/main.c 98-126).
THEOREM RunsMarked == Spec => RunsWhatIsMarked
<1> DEFINE Marked ==
      \/ ran'[2] = screen[cd].name /\ Shown(ran'[1])
      \/ screen[cd].name \in Dirs \union {".", ".."} /\ Second(ran'[1], ran'[2])
<1>1. Init => Cleared
  BY DEF Init, Cleared
<1>2. Cleared /\ [Next]_vars => Cleared'
  BY ClearedStep
<1>3. IInv /\ Cleared /\ [Next]_vars => [ran' # <<>> => Marked]_vars
  <2> SUFFICES ASSUME IInv, Cleared, Next, ran' # <<>> PROVE Marked
    OBVIOUS
  <2>1. CASE Key
    <3>1. KeyEnter
      BY <2>1 DEF Key
    <3>2. View
      BY DEF IInv
    <3>3. QED  BY <3>1, <3>2, EnterRuns
  <2>2. CASE Popup
    BY <2>2 DEF Popup, Cleared
  <2>3. CASE Threads
    BY <2>3 DEF Threads, Copier, Shower, Joined, Cleared
  <2>4. QED  BY <2>1, <2>2, <2>3 DEF Next
<1>4. QED  BY <1>1, <1>2, <1>3, Invariance, PTL DEF Spec, RunsWhatIsMarked
=============================================================================
