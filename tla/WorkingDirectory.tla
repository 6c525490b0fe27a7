-------------------------- MODULE WorkingDirectory --------------------------
(***************************************************************************)
(* The builtin cd of the shell (builtin.c): the process's working          *)
(* directory and the buffer old_path, while others make and remove         *)
(* directories.  A directory is the sequence of the names on its path;     *)
(* slashes at the end have no meaning.  handle_cd builds the name it       *)
(* passes to chdir in cur_path, which nothing reads afterwards, and every  *)
(* name fits its buffer.                                                   *)
(***************************************************************************)
EXTENDS Integers, SequencesExt

CONSTANTS
  Dirs,       \* directories there may be
  Removable,  \* those that others may remove and make again
  Args        \* arguments of cd

\* An argument is nothing, "/..." (the rest in path), "-", "..", "../...",
\* "." or a name that begins with a dot, or any other name.
Kinds == {"none", "absolute", "dash", "up", "dot", "name"}

ASSUME DirsFormTree ==
  /\ Dirs \subseteq Seq(STRING) /\ Removable \subseteq Dirs
  /\ <<>> \in Dirs \ Removable
  /\ \A d \in Dirs : d # <<>> => Front(d) \in Dirs \ Removable
ASSUME ArgsAreTyped ==
  \A a \in Args : a \in [kind : Kinds, path : Seq(STRING)]

VARIABLES
  cwd,       \* the working directory
  live,      \* it has not been removed
  old_path,  \* the buffer: EMPTY, or the name of a directory
  retval,    \* of the last cd
  dirs,      \* the directories there are
  previous,  \* auxiliary: the directory of the last cd that succeeded, before it
  missed     \* auxiliary: since then a cd has failed, or it began in a removed directory

cdVars == <<cwd, live, old_path, retval, dirs, previous, missed>>

EMPTY == <<"empty">>   \* no directory has this name

Up(d) == IF d = <<>> THEN d ELSE Front(d)

\* getcwd into old_path, which fails when the directory is gone and leaves the
\* buffer alone, and strcat of a slash.
Saved ==
  IF live THEN cwd ELSE IF old_path = EMPTY THEN <<>> ELSE old_path

\* The directory chdir is called with.
Target(a) ==
  CASE a.kind = "absolute" -> a.path
    [] a.kind = "dash"     -> old_path
    [] a.kind = "up"       -> Up(cwd) \o a.path
    [] a.kind = "name"     -> Saved \o a.path

Chdir(d) ==
  IF d \in dirs
  THEN cwd' = d /\ live' = TRUE /\ retval' = 0
  ELSE retval' = -1 /\ UNCHANGED <<cwd, live>>

\* What the auxiliary variables record of a cd with an argument.
Record ==
  IF retval' = 0 THEN previous' = cwd /\ missed' = ~live
  ELSE previous' = previous /\ missed' = TRUE

\* Mutated form of Save: the old directory is saved only once.
SaveOnce == old_path' = IF old_path = EMPTY THEN Saved ELSE old_path

Save == old_path' = Saved

CdHere(a) ==
  /\ a.kind = "none"
  /\ retval' = 0
  /\ UNCHANGED <<cwd, live, old_path, dirs, previous, missed>>

\* chdir("."), whatever follows the dot.
CdDot(a) ==
  /\ a.kind = "dot"
  /\ Save
  /\ retval' = 0
  /\ Record
  /\ UNCHANGED <<cwd, live, dirs>>

\* Mutated form of CdTo: the name is appended to what cd - would take.
CdToOld(a) ==
  /\ a.kind \notin {"none", "dot"}
  /\ Save
  /\ Chdir(IF a.kind = "name" THEN old_path \o a.path ELSE Target(a))
  /\ Record
  /\ UNCHANGED dirs

CdTo(a) ==
  /\ a.kind \notin {"none", "dot"}
  /\ Save
  /\ Chdir(Target(a))
  /\ Record
  /\ UNCHANGED dirs

Cd(a) == CdHere(a) \/ CdDot(a) \/ CdTo(a)

CdInit ==
  /\ cwd \in Dirs \ Removable
  /\ live = TRUE
  /\ old_path = EMPTY
  /\ retval = 0
  /\ dirs = Dirs
  /\ previous = EMPTY
  /\ missed = FALSE

\* Another process removes a directory or makes one.  A new directory of the
\* same name is not the one that was removed.
RemoveDir ==
  \E d \in Removable \cap dirs :
    /\ dirs' = dirs \ {d}
    /\ live' = (live /\ cwd # d)
    /\ UNCHANGED <<cwd, old_path, retval, previous, missed>>

MakeDir ==
  \E d \in Removable \ dirs :
    /\ dirs' = dirs \cup {d}
    /\ UNCHANGED <<cwd, live, old_path, retval, previous, missed>>

-----------------------------------------------------------------------------

\* The shell is in some directory that exists unless it has been removed.
CdTypeOK ==
  /\ cwd \in Dirs /\ live \in BOOLEAN
  /\ live => cwd \in dirs
  /\ old_path \in Dirs \cup {EMPTY} /\ previous \in Dirs \cup {EMPTY}
  /\ dirs \subseteq Dirs /\ retval \in {0, -1} /\ missed \in BOOLEAN

\* "cd -" leads to the last directory (builtin.c:35): where the shell was
\* before the last cd that changed it, as long as no cd has failed since,
\* which makes it the current one, and that directory still had its name.
DashReturns ==
  ~missed => old_path = previous

\* The directory an argument names.
Asked(a) ==
  CASE a.kind = "none"     -> cwd
    [] a.kind = "absolute" -> a.path
    [] a.kind = "dash"     -> old_path
    [] a.kind = "up"       -> Up(cwd) \o a.path
    [] a.kind \in {"dot", "name"} -> cwd \o a.path

\* A cd that reports success has gone where its argument says, one that
\* reports failure has not moved.  Two kinds of cd are excepted: a path that
\* begins with "." but not ".." is taken for ".", and in a removed directory
\* a name is looked for in the directory before.
CdGoesWhereAsked ==
  [][\A a \in Args :
       Cd(a) => \/ cwd' = IF retval' = 0 THEN Asked(a) ELSE cwd
                \/ a.kind = "dot" /\ a.path # <<>>
                \/ a.kind = "name" /\ ~live]_cdVars

=============================================================================
