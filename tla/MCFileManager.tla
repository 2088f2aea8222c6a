---------------------------- MODULE MCFileManager ----------------------------
(* An instance of FileManager for TLC: home, below a directory that cannot  *)
(* be read, and in it sub, too deep for getcwd to tell its path.            *)
EXTENDS FileManager

MCParent == [d \in Dirs |-> IF d = "sub" THEN "home" ELSE "top"]

MCOrder == <<"#r", "#run", ".", "..", "home", "sub", "top", "x">>

(* home has #r and the program #run, which sort before ".", sub has x.     *)
MCDisks ==
    {[d \in Dirs |-> [f \in Files |-> CASE d = "home" /\ f = "#run" -> 3
                                       [] d = "home" /\ f = "#r" -> 1
                                       [] d = "sub" /\ f = "x" -> 1
                                       [] OTHER -> Absent]]}

MCTyped == {<<"sub", "x">>}

(* In sub the buffer of get_file_path holds the path or what the stack     *)
(* held: for x, home/#run.  A field holds sub/x up to sub/.                *)
MCLong == {"sub"} \X (Files \union {""})

MCCut == [p \in MCLong |-> IF p[2] = "x" THEN {p, <<"home", "#run">>}
                                                ELSE {p, <<"sub", "x">>}]

MCField == [p \in Paths |-> IF p = <<"sub", "x">> THEN <<"sub", "">> ELSE p]

(* The display may end at once, loop, or divide by zero, as it meets these *)
(* values or those of copy_file.                                           *)
MCGarbage == {<<0, 0>>, <<2, 0>>}
=============================================================================
