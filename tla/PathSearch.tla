----------------------------- MODULE PathSearch -----------------------------
(***************************************************************************)
(* How the shell finds a program (jobs.c): init_path cuts the value of     *)
(* PATH into a table of directories, and the child in run_command looks    *)
(* for the program in them one after the other, with stat and then execv,  *)
(* while others install and remove programs.  An entry that is no absolute *)
(* path is looked up in the working directory, which cd changes.           *)
(***************************************************************************)
EXTENDS WorkingDirectory

CONSTANTS
  Paths,  \* values of PATH: sequences of fields
  BOUND   \* entries of the table the search looks at: sizeof(path_table) - 1

\* A field is a directory, absolute or not, or the empty string.
Empty == [kind |-> "empty", path |-> <<>>]

ASSUME BoundPositive == BOUND \in Nat /\ BOUND > 0
Fields == [kind : {"empty", "absolute", "name"}, path : Seq(STRING)]

ASSUME PathsHaveFields == \A p \in Paths : p \in Seq(Fields) /\ p # <<>>

VARIABLES
  pc,        \* "start", "shell", "stat", "exec" or "crashed"
  path,      \* the value of PATH
  table,     \* path_table
  i,         \* index in the search
  found,     \* of run_command
  programs,  \* for each directory: "absent", "plain" or "executable"
  outcome,   \* of the last search
  steady     \* auxiliary: no directory or program has changed since the fork

searchVars == <<pc, path, table, i, found, programs, outcome, steady>>

vars == <<cdVars, searchVars>>

NoOutcome == [kind |-> "none", dir |-> <<>>]
Ran(d)    == [kind |-> "ran", dir |-> d]
Missing   == [kind |-> "missing", dir |-> <<>>]
Unusable  == [kind |-> "unusable", dir |-> <<>>]
Crash     == [kind |-> "crash", dir |-> <<>>]

-----------------------------------------------------------------------------

\* Mutated form of Slots: one entry per colon that is not the last of PATH,
\* counted twice, as in src/thsh-matt-1/jobs.c:55-63.
SlotsTwice(p) == 2 * (Len(p) - 1) + 1

\* The entries init_path fills: one more than there are colons.
Slots(p) == Len(p)

\* What strtok finds: the fields that are not empty.
PathTokens(p) ==
  LET full   == {k \in DOMAIN p : p[k] # Empty}
      nth(n) == CHOOSE k \in full : Cardinality({j \in full : j < k}) = n - 1
  IN  [n \in 1 .. Cardinality(full) |-> p[nth(n)]]

\* init_path asks strtok for as many tokens as there are slots, and takes the
\* length of the NULL it returns when there are fewer.  Without a colon the
\* value is the only entry, or, when it is empty, there is none.
InitPath ==
  /\ pc = "start"
  /\ IF Slots(path) = 1 \/ Len(PathTokens(path)) >= Slots(path)
     THEN table' = PathTokens(path) /\ pc' = "shell"
     ELSE pc' = "crashed" /\ UNCHANGED table
  /\ UNCHANGED <<cdVars, path, i, found, programs, outcome, steady>>

CdStep ==
  /\ pc = "shell"
  /\ \E a \in Args : Cd(a)
  /\ outcome' = NoOutcome
  /\ UNCHANGED <<pc, path, table, i, found, programs, steady>>

Fork ==
  /\ pc = "shell"
  /\ pc' = "stat" /\ i' = 0 /\ found' = FALSE /\ outcome' = NoOutcome /\ steady' = TRUE
  /\ UNCHANGED <<cdVars, path, table, programs>>

\* The child ends, or goes on as a second shell, which is the subject of
\* Shell; for the parent either is the end of the search.
EndSearch(o) ==
  /\ outcome' = o
  /\ pc' = "shell" /\ i' = 0 /\ found' = FALSE
  /\ UNCHANGED <<cdVars, path, table, programs, steady>>

Dir(f) == IF f.kind = "name" THEN cwd \o f.path ELSE f.path

\* The program in the directory of an entry, as the file system has it now.
There(f) ==
  IF Dir(f) \in dirs /\ (f.kind = "name" => live) THEN programs[Dir(f)] ELSE "absent"

\* Mutated form of Stat: an entry that has nothing ends the search.
StatOnce ==
  /\ pc = "stat" /\ i < BOUND /\ i < Len(table)
  /\ IF There(table[i + 1]) # "absent"
     THEN pc' = "exec" /\ found' = TRUE /\ UNCHANGED i
     ELSE i' = BOUND /\ UNCHANGED <<pc, found>>
  /\ UNCHANGED <<cdVars, path, table, programs, outcome, steady>>

Stat ==
  /\ pc = "stat" /\ i < BOUND /\ i < Len(table)
  /\ IF There(table[i + 1]) # "absent"
     THEN pc' = "exec" /\ found' = TRUE /\ UNCHANGED i
     ELSE i' = i + 1 /\ UNCHANGED <<pc, found>>
  /\ UNCHANGED <<cdVars, path, table, programs, outcome, steady>>

\* Past the end of the table the child takes whatever is there for a name.
StatBeyond ==
  /\ pc = "stat" /\ i < BOUND /\ i >= Len(table)
  /\ \/ EndSearch(Crash)
     \/ /\ i' = i + 1
        /\ UNCHANGED <<cdVars, pc, path, table, found, programs, outcome, steady>>

\* execv either runs the program or returns, and the search goes on.
Exec ==
  /\ pc = "exec"
  /\ IF There(table[i + 1]) = "executable"
     THEN EndSearch(Ran(Dir(table[i + 1])))
     ELSE /\ pc' = "stat" /\ i' = i + 1
          /\ UNCHANGED <<cdVars, path, table, found, programs, outcome, steady>>

\* The loop ends: return -2, or _exit when some file had been found.
GiveUp ==
  /\ pc = "stat" /\ i >= BOUND
  /\ EndSearch(IF found THEN Unusable ELSE Missing)

\* Another process makes, changes or removes the program in some directory,
\* or a directory.
Others ==
  /\ pc # "crashed" /\ pc # "start"
  /\ \/ /\ \E d \in dirs, s \in {"absent", "plain", "executable"} :
             programs[d] # s /\ programs' = [programs EXCEPT ![d] = s]
        /\ UNCHANGED cdVars
     \/ (RemoveDir \/ MakeDir) /\ UNCHANGED programs
  /\ steady' = FALSE /\ outcome' = NoOutcome
  /\ UNCHANGED <<pc, path, table, i, found>>

Init ==
  /\ CdInit
  /\ pc = "start" /\ path \in Paths /\ table = <<>>
  /\ i = 0 /\ found = FALSE /\ outcome = NoOutcome /\ steady = FALSE
  /\ programs \in [Dirs -> {"absent", "plain", "executable"}]

Next == InitPath \/ CdStep \/ Fork \/ Stat \/ StatBeyond \/ Exec \/ GiveUp \/ Others

Spec == Init /\ [][Next]_vars

-----------------------------------------------------------------------------
(***************************************************************************)
(* Properties                                                              *)
(***************************************************************************)

\* The variables have their types, and the table has the fields of PATH, all
\* of them and in their order, unless PATH has an empty field.
TypeOK ==
  /\ CdTypeOK
  /\ pc \in {"start", "shell", "stat", "exec", "crashed"}
  /\ i \in 0 .. BOUND /\ found \in BOOLEAN
  /\ pc = "exec" => found /\ i < BOUND /\ i < Len(table)
  /\ programs \in [Dirs -> {"absent", "plain", "executable"}]
  /\ pc \notin {"start", "crashed"} /\ Empty \notin Range(path) => table = path
  /\ pc = "crashed" => Empty \in Range(path)

\* The entries that lead to an executable.
Runnable == {k \in DOMAIN table : There(table[k]) = "executable"}

\* "Search each prefix in the path_table in order to find the path to the
\* binary" (jobs.c:184): in a file system that does not change meanwhile, the
\* program that runs is the first on the path, and it runs whenever it is
\* among the entries the search looks at.  The search gives up, or runs over
\* the end of the table, only when it is not; it reports a missing program
\* only if no entry has a file of that name.
FirstProgramRuns ==
  steady /\ outcome # NoOutcome =>
    /\ outcome.kind = "ran" =>
         \E k \in Runnable : /\ outcome = Ran(Dir(table[k])) /\ k <= BOUND
                             /\ \A j \in Runnable : k <= j
    /\ outcome.kind # "ran" => \A k \in Runnable : k > BOUND
    /\ outcome.kind = "crash" => Len(table) < BOUND
    /\ outcome.kind = "missing" =>
         \A k \in DOMAIN table : k <= BOUND => There(table[k]) = "absent"

=============================================================================
