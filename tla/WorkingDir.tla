----------------------------- MODULE WorkingDir -----------------------------
(***************************************************************************)
(* The builtin cd (src/builtins/cd.c) and the names the shell keeps of     *)
(* where it is: the directory of the process, global.PWD, which only       *)
(* $OLDPWD and `cd -' ever see as global.oldPWD, and the PWD of the        *)
(* environment, which nothing updates.                                     *)
(*                                                                         *)
(* A directory stands for its absolute name.  Other processes remove       *)
(* directories at any time, also between two calls of chdir().             *)
(***************************************************************************)
EXTENDS Integers, Sequences

CONSTANTS
  Dir,       \* the directories
  Root,      \* /
  Part,      \* what stands between the slashes of a path
  Dots,      \* "." and "..", among them
  entry,     \* where a part leads from a directory
  NULL,      \* the null pointer, and nowhere
  MaxParts   \* bound on the length of a path

ASSUME TreeAssumption ==
  /\ Root \in Dir /\ NULL \notin Dir
  /\ Dots \subseteq Part
  /\ entry \in [Dir -> [Part -> Dir \union {NULL}]]
  /\ \A d \in Dir, p \in Dots : entry[d][p] # NULL
  /\ MaxParts \in Nat \ {0}

DirOrNull == Dir \union {NULL}

VARIABLES
  phase,   \* prompt, or walk: in the loop of find_path()
  there,   \* the directories that exist
  cwd,     \* the directory of the process
  pwd,     \* global.PWD
  oldpwd,  \* global.oldPWD
  env,     \* HOME and PWD of the environment
  status,  \* what the last cd returned
  arg,     \* the path of the cd that is walked, and how many parts are behind
  behind,
  start    \* history: the last cd (one: a path of one part), and where and how
           \* named the shell was before it

walk == <<arg, behind>>
vars == <<phase, there, cwd, pwd, oldpwd, env, status, walk, start>>

\* init_globv(); HOME may be anything, and so may PWD.
Init ==
  /\ phase = "prompt" /\ there = Dir
  /\ cwd \in Dir
  /\ env \in [home : DirOrNull, pwd : DirOrNull]
  /\ pwd = env.pwd /\ oldpwd = NULL
  /\ status = 0 /\ arg = <<>> /\ behind = 0
  /\ start = [kind |-> "none", cwd |-> cwd, pwd |-> pwd]

----------------------------------------------------------------------------
(* The kernel: chdir() and getcwd().                                       *)

\* The dots work in a directory that was removed.
Leads(d, p) == entry[d][p] # NULL /\ (p \in Dots \/ entry[d][p] \in there)

\* getcwd() fails in a directory that was removed.
Getcwd == IF cwd \in there THEN cwd ELSE NULL

\* A directory is removed when nothing but the dots is left in it.
Remove(d) ==
  /\ d \in there \ {Root}
  /\ \A p \in Part \ Dots : entry[d][p] \notin there
  /\ there' = there \ {d}
  /\ UNCHANGED <<phase, cwd, pwd, oldpwd, env, status, walk, start>>

----------------------------------------------------------------------------
(* globals.c                                                               *)

\* change_pwd()
ChangePwd(new) ==
  IF new = NULL THEN UNCHANGED <<pwd, oldpwd>>
  ELSE /\ pwd' = new
       /\ oldpwd' = IF pwd = NULL THEN oldpwd ELSE pwd

----------------------------------------------------------------------------
(* cd.c                                                                    *)

Starts(kind) ==
  /\ phase = "prompt"
  /\ start' = [kind |-> kind, cwd |-> cwd, pwd |-> pwd]
  /\ UNCHANGED <<there, env>>

Returns(s) == phase' = "prompt" /\ status' = s /\ arg' = <<>> /\ behind' = 0

\* Mutant of Fails: what find_path() returned is returned.
FailsRaw == Returns(-1) /\ UNCHANGED <<cwd, pwd, oldpwd>>

Fails == Returns(1) /\ UNCHANGED <<cwd, pwd, oldpwd>>

\* cd a b
TooMany == Starts("one") /\ Fails

\* cd: the name it stores is that of the environment, not of HOME.
Home ==
  /\ Starts("home")
  /\ \/ env.home \notin there /\ Fails
     \/ /\ env.home \in there
        /\ cwd' = env.home
        /\ ChangePwd(env.pwd)
        /\ Returns(IF env.pwd = NULL THEN 1 ELSE 0)

\* cd /..., whatever follows the slash
Absolute ==
  /\ Starts("root")
  /\ ChangePwd(Root) /\ cwd' = Root
  /\ Returns(0)

\* Mutant of Dash: the names are exchanged although the directory is gone.
DashUnchecked ==
  /\ Starts("dash")
  /\ \/ oldpwd = NULL /\ Fails
     \/ /\ oldpwd # NULL
        /\ cwd' = IF oldpwd \in there THEN oldpwd ELSE cwd
        /\ ChangePwd(oldpwd)
        /\ Returns(IF oldpwd \in there THEN 0 ELSE 1)

\* cd -, and every path that begins with - as its first part
Dash ==
  /\ Starts("dash")
  /\ \/ oldpwd \notin there /\ Fails
     \/ /\ oldpwd \in there
        /\ cwd' = oldpwd
        /\ ChangePwd(oldpwd)
        /\ Returns(0)

\* cd p/q/...: find_path() goes through it part by part.
Relative(path) ==
  /\ Starts(IF Len(path) = 1 THEN "one" ELSE "path")
  /\ phase' = "walk" /\ arg' = path /\ behind' = 0
  /\ UNCHANGED <<cwd, pwd, oldpwd, status>>

\* One round of its loop: strtok() moves on, and what is passed to chdir() is
\* the first part again.  The first that fails ends it.
Step ==
  /\ phase = "walk" /\ behind < Len(arg)
  /\ UNCHANGED <<there, pwd, oldpwd, env, start>>
  /\ \/ /\ Leads(cwd, arg[1])
        /\ cwd' = entry[cwd][arg[1]]
        /\ behind' = behind + 1
        /\ UNCHANGED <<phase, status, arg>>
     \/ ~Leads(cwd, arg[1]) /\ Returns(1) /\ UNCHANGED cwd

\* Mutant of Arrive: PWD is set from the path, before a look at the directory.
ArriveUnasked ==
  /\ phase = "walk" /\ behind = Len(arg)
  /\ ChangePwd(entry[start.cwd][arg[1]])
  /\ Returns(0)
  /\ UNCHANGED <<there, cwd, env, start>>

\* Behind the loop
Arrive ==
  /\ phase = "walk" /\ behind = Len(arg)
  /\ ChangePwd(Getcwd)
  /\ Returns(0)
  /\ UNCHANGED <<there, cwd, env, start>>

Path == UNION {[1..n -> Part] : n \in 1..MaxParts}

Next ==
  \/ TooMany \/ Home \/ Absolute \/ Dash
  \/ \E path \in Path : Relative(path)
  \/ Step \/ Arrive
  \/ \E d \in Dir : Remove(d)

Spec == Init /\ [][Next]_vars

----------------------------------------------------------------------------
(* Properties.                                                             *)

\* Type invariant.
TypeOK ==
  /\ phase \in {"prompt", "walk"} /\ there \subseteq Dir
  /\ cwd \in Dir /\ pwd \in DirOrNull /\ oldpwd \in DirOrNull
  /\ env.home \in DirOrNull /\ env.pwd \in DirOrNull
  /\ status \in {0, 1}
  /\ arg \in Seq(Part) /\ behind \in 0..Len(arg)
  /\ phase = "walk" => start.kind \in {"one", "path"} /\ arg # <<>>
  /\ start.kind \in {"none", "home", "root", "dash", "one", "path"}
  /\ start.cwd \in Dir /\ start.pwd \in DirOrNull

\* After a cd to a place (a path, / or -) that succeeded PWD is the directory of
\* the process, whatever it was before and whatever was removed on the way,
\* unless that directory itself is gone.  If PWD was right before it, OLDPWD is
\* where the shell came from, so that `cd -' leads back.
NamesFollow ==
  phase = "prompt" /\ status = 0 /\ start.kind \in {"root", "dash", "one", "path"}
    /\ cwd \in there =>
      /\ pwd = cwd
      /\ start.pwd = start.cwd => oldpwd = start.cwd

\* A cd that fails leaves both names and the directory as they were, but for two
\* ways to fail half way: behind the first part of a longer path, and home when
\* the environment has no PWD; the names are kept then, too.
FailedIsVain ==
  [][phase' = "prompt" /\ status' # 0 =>
       /\ UNCHANGED <<pwd, oldpwd>>
       /\ \/ cwd' = start'.cwd
          \/ start'.kind = "path"
          \/ start'.kind = "home" /\ env.pwd = NULL]_vars
=============================================================================
