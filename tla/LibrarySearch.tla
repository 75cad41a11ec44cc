---------------------------- MODULE LibrarySearch ----------------------------
(***************************************************************************)
(* The build script: it looks for libevmone.so in the folders of           *)
(* LD_LIBRARY_PATH and then in two default folders, tells cargo where it   *)
(* is, and panics if it is nowhere.                                        *)
(***************************************************************************)
EXTENDS Naturals, SequencesExt

CONSTANTS
  Folder,     \* folders
  Defaults,   \* the default folders, "/usr/lib" and "/usr/local/lib"
  MaxPath,    \* bound: folders in LD_LIBRARY_PATH
  None        \* Option::None

ASSUME FoldersAssumption ==
  Defaults \in Seq(Folder) /\ MaxPath \in Nat /\ None \notin Folder

VARIABLES
  ld_path,    \* the folders of LD_LIBRARY_PATH, << >> when it is not set
  holds,      \* the folders in which the file is a regular file
  unicode,    \* the folders whose name is UTF-8
  next,       \* the folder to look at
  phase,      \* "searching", "found", "panicked"
  answer      \* the folder printed for cargo, or None

vars == <<ld_path, holds, unicode, next, phase, answer>>

(* Mutants: the defaults go first; the defaults serve only without the     *)
(* variable.                                                               *)
Searched_defaults_first == Defaults \o ld_path

Searched_either == IF ld_path = << >> THEN Defaults ELSE ld_path

(* The folders in the order they are looked at.                            *)
Searched == ld_path \o Defaults

Init ==
  /\ \E n \in 0 .. MaxPath : ld_path \in [1 .. n -> Folder]
  /\ holds \in SUBSET Folder
  /\ unicode \in {u \in SUBSET Folder : ToSet(Defaults) \subseteq u}
  /\ next = 1
  /\ phase = "searching"
  /\ answer = None

Here == Searched[next]

is_file_in(folder) == folder \in holds

Pass ==
  /\ phase = "searching" /\ next <= Len(Searched)
  /\ ~is_file_in(Here)
  /\ next' = next + 1
  /\ UNCHANGED <<ld_path, holds, unicode, phase, answer>>

(* p.to_str(), returned as it is: None ends the search too.                *)
Chosen == IF Here \in unicode THEN Here ELSE None

(* Mutant: main links against whatever it is told.                         *)
Verdict_found(folder) == "found"

(* main panics unless it is told a folder.                                 *)
Verdict(folder) == IF folder = None THEN "panicked" ELSE "found"

Hit ==
  /\ phase = "searching" /\ next <= Len(Searched)
  /\ is_file_in(Here)
  /\ answer' = Chosen
  /\ phase' = Verdict(answer')
  /\ UNCHANGED <<ld_path, holds, unicode, next>>

Miss ==
  /\ phase = "searching" /\ next > Len(Searched)
  /\ phase' = Verdict(answer)
  /\ UNCHANGED <<ld_path, holds, unicode, next, answer>>

Ended == phase # "searching" /\ UNCHANGED vars

Next == Pass \/ Hit \/ Miss \/ Ended

Spec == Init /\ [][Next]_vars

-----------------------------------------------------------------------------
(* Properties                                                              *)

(* The order the script's comment promises; FirstIn(i): the file is in the *)
(* i-th folder of it and in none before.                                   *)
Order == ld_path \o Defaults

FirstIn(i) == Order[i] \in holds /\ \A j \in 1 .. i - 1 : Order[j] \notin holds

(* A build that goes on has a folder to link from, and no other has.       *)
TypeOK ==
  /\ ld_path \in Seq(Folder)
  /\ holds \subseteq Folder /\ unicode \subseteq Folder
  /\ next \in 1 .. Len(Order) + 1
  /\ phase \in {"searching", "found", "panicked"}
  /\ answer \in Folder \cup {None}
  /\ phase = "found" <=> answer # None

(* The folder given to cargo holds the file, and no folder that goes       *)
(* before it does: LD_LIBRARY_PATH in its own order, then the defaults.    *)
FirstIsFound ==
  phase = "found" => \E i \in DOMAIN Order : FirstIn(i) /\ Order[i] = answer

(* The build fails for a library that is there only if the first folder    *)
(* that holds it has no UTF-8 name, never because a folder was passed over.*)
FailsAtFirst ==
  phase = "panicked" => \A i \in DOMAIN Order : FirstIn(i) => Order[i] \notin unicode
=============================================================================
