-------------------------- MODULE WorkingDirProofs --------------------------
(***************************************************************************)
(* Theorems about cd, for every tree of directories, every environment and *)
(* paths of any length, with directories removed at any time.              *)
(***************************************************************************)
EXTENDS WorkingDir, TLAPS

\* A part that leads somewhere leads to a directory.
LEMMA LeadsToDir ==
  ASSUME TypeOK, phase = "walk", Leads(cwd, arg[1])
  PROVE  entry[cwd][arg[1]] \in Dir
<1>1. arg[1] \in Part
  BY DEF TypeOK
<1>2. entry[cwd][arg[1]] \in Dir \union {NULL}
  BY <1>1, TreeAssumption DEF TypeOK
<1> QED
  BY <1>2 DEF Leads

\* change_pwd() keeps the names directories or null.
LEMMA ChangePwdType ==
  ASSUME pwd \in DirOrNull, oldpwd \in DirOrNull, NEW new \in DirOrNull, ChangePwd(new)
  PROVE  pwd' \in DirOrNull /\ oldpwd' \in DirOrNull
BY DEF ChangePwd, DirOrNull

\* What every cd records as it starts.
LEMMA StartsType ==
  ASSUME TypeOK, NEW kind \in {"home", "root", "dash", "one", "path"}, Starts(kind)
  PROVE  /\ there' \subseteq Dir
         /\ env'.home \in DirOrNull /\ env'.pwd \in DirOrNull
         /\ start'.kind = kind
         /\ start'.cwd \in Dir /\ start'.pwd \in DirOrNull
BY DEF TypeOK, Starts

\* A cd that returns leaves no walk behind.
LEMMA ReturnsType ==
  ASSUME NEW s \in {0, 1}, Returns(s)
  PROVE  /\ phase' = "prompt" /\ status' \in {0, 1}
         /\ arg' \in Seq(Part) /\ behind' \in 0..Len(arg')
BY DEF Returns

LEMMA TypeInit == Init => TypeOK
<1> SUFFICES ASSUME Init PROVE TypeOK
  OBVIOUS
<1>1. env.home \in DirOrNull /\ env.pwd \in DirOrNull
  BY DEF Init
<1> QED
  BY <1>1 DEF Init, TypeOK, DirOrNull

\* The state keeps its types: every step leads from directories to directories.
LEMMA TypeStep == TypeOK /\ [Next]_vars => TypeOK'
<1> SUFFICES ASSUME TypeOK, [Next]_vars PROVE TypeOK'
  OBVIOUS
<1> USE TreeAssumption
<1>1. CASE TooMany
  BY <1>1, StartsType, ReturnsType DEF TooMany, Fails, TypeOK
<1>2. CASE Home
  <2>1. CASE Fails
    BY <1>2, <2>1, StartsType, ReturnsType DEF Home, Fails, TypeOK
  <2>2. CASE env.home \in there /\ cwd' = env.home /\ ChangePwd(env.pwd)
             /\ Returns(IF env.pwd = NULL THEN 1 ELSE 0)
    <3>1. pwd' \in DirOrNull /\ oldpwd' \in DirOrNull
      BY <2>2, ChangePwdType DEF TypeOK
    <3>2. cwd' \in Dir
      BY <2>2 DEF TypeOK
    <3> QED
      BY <1>2, <2>2, <3>1, <3>2, StartsType, ReturnsType DEF Home, TypeOK
  <2> QED
    BY <1>2, <2>1, <2>2 DEF Home
<1>3. CASE Absolute
  <2>1. Root \in DirOrNull
    BY DEF DirOrNull
  <2>2. pwd' \in DirOrNull /\ oldpwd' \in DirOrNull
    BY <1>3, <2>1, ChangePwdType DEF Absolute, TypeOK
  <2> QED
    BY <1>3, <2>2, StartsType, ReturnsType DEF Absolute, TypeOK
<1>4. CASE Dash
  <2>1. CASE Fails
    BY <1>4, <2>1, StartsType, ReturnsType DEF Dash, Fails, TypeOK
  <2>2. CASE oldpwd \in there /\ cwd' = oldpwd /\ ChangePwd(oldpwd) /\ Returns(0)
    <3>1. pwd' \in DirOrNull /\ oldpwd' \in DirOrNull
      BY <2>2, ChangePwdType DEF TypeOK
    <3>2. cwd' \in Dir
      BY <2>2 DEF TypeOK
    <3> QED
      BY <1>4, <2>2, <3>1, <3>2, StartsType, ReturnsType DEF Dash, TypeOK
  <2> QED
    BY <1>4, <2>1, <2>2 DEF Dash
<1>5. ASSUME NEW path \in Path, Relative(path) PROVE TypeOK'
  <2>1. PICK n \in 1..MaxParts : path \in [1..n -> Part]
    BY DEF Path
  <2>2. path \in Seq(Part) /\ path # <<>> /\ Len(path) = n
    BY <2>1
  <2>3. (IF Len(path) = 1 THEN "one" ELSE "path") \in {"home", "root", "dash", "one", "path"}
    OBVIOUS
  <2> QED
    BY <1>5, <2>2, <2>3, StartsType DEF Relative, TypeOK
<1>6. CASE Step
  <2>1. CASE Leads(cwd, arg[1]) /\ cwd' = entry[cwd][arg[1]] /\ behind' = behind + 1
             /\ UNCHANGED <<phase, status, arg>>
    <3>1. cwd' \in Dir
      BY <1>6, <2>1, LeadsToDir DEF Step
    <3>2. behind' \in 0..Len(arg')
      BY <1>6, <2>1 DEF Step, TypeOK
    <3> QED
      BY <1>6, <2>1, <3>1, <3>2 DEF Step, TypeOK
  <2>2. CASE Returns(1) /\ UNCHANGED cwd
    BY <1>6, <2>2, ReturnsType DEF Step, TypeOK
  <2> QED
    BY <1>6, <2>1, <2>2 DEF Step
<1>7. CASE Arrive
  <2>1. Getcwd \in DirOrNull
    BY DEF Getcwd, TypeOK, DirOrNull
  <2>2. pwd' \in DirOrNull /\ oldpwd' \in DirOrNull
    BY <1>7, <2>1, ChangePwdType DEF Arrive, TypeOK
  <2> QED
    BY <1>7, <2>2, ReturnsType DEF Arrive, TypeOK
<1>8. ASSUME NEW d \in Dir, Remove(d) PROVE TypeOK'
  BY <1>8 DEF Remove, TypeOK, walk
<1>9. CASE UNCHANGED vars
  BY <1>9 DEF vars, walk, TypeOK
<1> QED
  BY <1>1, <1>2, <1>3, <1>4, <1>5, <1>6, <1>7, <1>8, <1>9 DEF Next

\* Type correctness of cd, for every tree.
THEOREM TypeCorrect == Spec => []TypeOK
<1> QED
  BY TypeInit, TypeStep, PTL DEF Spec

----------------------------------------------------------------------------
(* The names, and what a cd that fails leaves.                             *)

\* Within a walk the names are still those it started with, and so is the
\* directory before its first round.
Walking ==
  phase = "walk" =>
    /\ pwd = start.pwd
    /\ behind = 0 => cwd = start.cwd
    /\ start.kind = "one" => Len(arg) = 1

\* The ways to fail half way, of the state after it.
Stayed ==
  \/ cwd = start.cwd
  \/ start.kind = "path"
  \/ start.kind = "home" /\ env.pwd = NULL
FailedStayed == phase = "prompt" /\ status # 0 => Stayed

IInv == TypeOK /\ NamesFollow /\ Walking /\ FailedStayed

\* A cd that fails at once.
LEMMA FailsVainly ==
  ASSUME TypeOK, NEW kind, Starts(kind), Fails
  PROVE  /\ NamesFollow' /\ Walking' /\ FailedStayed'
         /\ UNCHANGED <<pwd, oldpwd>> /\ Stayed'
BY DEF TypeOK, Starts, Fails, Returns, NamesFollow, Walking, FailedStayed, Stayed

\* One that arrives in a directory and is told its name.
LEMMA ArrivesNamed ==
  ASSUME TypeOK, NEW d \in Dir, cwd' = d, ChangePwd(d), phase' = "prompt", status' = 0,
         pwd = start'.pwd, start'.cwd \in Dir
  PROVE  NamesFollow' /\ Walking' /\ FailedStayed'
<1>1. d # NULL /\ start'.cwd # NULL
  BY TreeAssumption
<1>2. pwd' = d /\ oldpwd' = IF pwd = NULL THEN oldpwd ELSE pwd
  BY <1>1 DEF ChangePwd
<1>3. start'.pwd = start'.cwd => oldpwd' = start'.cwd
  BY <1>1, <1>2
<1>4. NamesFollow'
  BY <1>2, <1>3 DEF NamesFollow
<1> QED
  BY <1>4 DEF Walking, FailedStayed

\* What a step does to the invariant, and what it is vain about when it fails.
Vain == phase' = "prompt" /\ status' # 0 => UNCHANGED <<pwd, oldpwd>> /\ Stayed'

LEMMA NamesInit == Init => IInv
<1> SUFFICES ASSUME Init PROVE NamesFollow /\ Walking /\ FailedStayed
  BY TypeInit DEF IInv
<1> QED
  BY DEF Init, NamesFollow, Walking, FailedStayed

LEMMA NamesStep == IInv /\ [Next]_vars => IInv' /\ (Vain \/ UNCHANGED vars)
<1> SUFFICES ASSUME IInv, [Next]_vars
             PROVE  NamesFollow' /\ Walking' /\ FailedStayed' /\ (Vain \/ UNCHANGED vars)
  BY TypeStep DEF IInv
<1>t. TypeOK
  BY DEF IInv
<1> USE <1>t
<1>1. CASE TooMany
  BY <1>1, FailsVainly DEF TooMany, Vain
<1>2. CASE Home
  <2>1. CASE Fails
    BY <1>2, <2>1, FailsVainly DEF Home, Vain
  <2>2. CASE env.home \in there /\ cwd' = env.home /\ ChangePwd(env.pwd)
             /\ Returns(IF env.pwd = NULL THEN 1 ELSE 0)
    <3>1. start'.kind = "home" /\ phase' = "prompt" /\ env' = env
      BY <1>2, <2>2 DEF Home, Starts, Returns
    <3>2. status' # 0 => env.pwd = NULL /\ UNCHANGED <<pwd, oldpwd>>
      BY <2>2 DEF Returns, ChangePwd
    <3> QED
      BY <3>1, <3>2 DEF NamesFollow, Walking, FailedStayed, Stayed, Vain
  <2> QED
    BY <1>2, <2>1, <2>2 DEF Home
<1>3. CASE Absolute
  <2>1. start'.pwd = pwd /\ start'.cwd \in Dir /\ phase' = "prompt" /\ status' = 0
    BY <1>3 DEF Absolute, Starts, Returns, TypeOK
  <2>2. Root \in Dir /\ cwd' = Root /\ ChangePwd(Root)
    BY <1>3, TreeAssumption DEF Absolute
  <2> QED
    BY <2>1, <2>2, ArrivesNamed DEF Vain
<1>4. CASE Dash
  <2>1. CASE Fails
    BY <1>4, <2>1, FailsVainly DEF Dash, Vain
  <2>2. CASE oldpwd \in there /\ cwd' = oldpwd /\ ChangePwd(oldpwd) /\ Returns(0)
    <3>1. start'.pwd = pwd /\ start'.cwd \in Dir /\ phase' = "prompt" /\ status' = 0
      BY <1>4, <2>2 DEF Dash, Starts, Returns, TypeOK
    <3>2. oldpwd \in Dir
      BY <2>2 DEF TypeOK
    <3> QED
      BY <2>2, <3>1, <3>2, ArrivesNamed DEF Vain
  <2> QED
    BY <1>4, <2>1, <2>2 DEF Dash
<1>5. ASSUME NEW path \in Path, Relative(path)
      PROVE  NamesFollow' /\ Walking' /\ FailedStayed' /\ Vain
  <2>1. phase' = "walk" /\ arg' = path /\ pwd' = pwd /\ cwd' = cwd
    BY <1>5 DEF Relative
  <2>2. start'.pwd = pwd /\ start'.cwd = cwd /\ (start'.kind = "one" => Len(path) = 1)
    BY <1>5 DEF Relative, Starts
  <2> QED
    BY <2>1, <2>2 DEF NamesFollow, Walking, FailedStayed, Vain
<1>6. CASE Step
  <2>1. pwd' = pwd /\ oldpwd' = oldpwd /\ start' = start /\ env' = env /\ phase = "walk"
    BY <1>6 DEF Step
  <2>2. CASE Leads(cwd, arg[1]) /\ cwd' = entry[cwd][arg[1]] /\ behind' = behind + 1
             /\ UNCHANGED <<phase, status, arg>>
    <3>1. behind' # 0
      BY <2>2 DEF TypeOK
    <3> QED
      BY <2>1, <2>2, <3>1 DEF IInv, NamesFollow, Walking, FailedStayed, Vain
  <2>3. CASE Returns(1) /\ UNCHANGED cwd
    <3>1. start.kind \in {"one", "path"}
      BY <2>1 DEF TypeOK
    <3>2. ASSUME start.kind = "one" PROVE cwd = start.cwd
      <4>1. Len(arg) = 1 /\ behind < Len(arg)
        BY <1>6, <2>1, <3>2 DEF Step, IInv, Walking
      <4>2. behind = 0
        BY <4>1 DEF TypeOK
      <4> QED
        BY <2>1, <4>2 DEF IInv, Walking
    <3>3. Stayed'
      BY <2>1, <2>3, <3>1, <3>2 DEF Stayed
    <3> QED
      BY <2>1, <2>3, <3>3 DEF Returns, NamesFollow, Walking, FailedStayed, Vain
  <2> QED
    BY <1>6, <2>2, <2>3 DEF Step
<1>7. CASE Arrive
  <2>1. phase = "walk" /\ pwd = start'.pwd /\ start'.cwd \in Dir /\ phase' = "prompt"
        /\ status' = 0 /\ cwd' = cwd /\ cwd \in Dir /\ there' = there
    BY <1>7 DEF Arrive, Returns, IInv, Walking, TypeOK
  <2>2. CASE cwd \in there
    BY <1>7, <2>1, <2>2, ArrivesNamed DEF Arrive, Getcwd, Vain
  <2>3. CASE cwd \notin there
    BY <2>1, <2>3 DEF NamesFollow, Walking, FailedStayed, Vain
  <2> QED
    BY <2>2, <2>3
<1>8. ASSUME NEW d \in Dir, Remove(d)
      PROVE  NamesFollow' /\ Walking' /\ FailedStayed' /\ Vain
  <2>1. /\ phase' = phase /\ cwd' = cwd /\ pwd' = pwd /\ oldpwd' = oldpwd /\ env' = env
        /\ status' = status /\ arg' = arg /\ behind' = behind /\ start' = start
        /\ there' \subseteq there
    BY <1>8 DEF Remove, walk
  <2> QED
    BY <2>1 DEF IInv, NamesFollow, Walking, FailedStayed, Stayed, Vain
<1>9. CASE UNCHANGED vars
  BY <1>9 DEF vars, walk, IInv, NamesFollow, Walking, FailedStayed, Stayed
<1> QED
  BY <1>1, <1>2, <1>3, <1>4, <1>5, <1>6, <1>7, <1>8, <1>9 DEF Next

\* For every tree, PWD and OLDPWD follow a cd that succeeded.
THEOREM NamesFollowAlways == Spec => []NamesFollow
<1>1. IInv => NamesFollow
  BY DEF IInv
<1> QED
  BY NamesInit, NamesStep, <1>1, PTL DEF Spec

\* For every tree, a cd that fails keeps the names, and the directory but for the
\* two ways to fail half way.
THEOREM FailedAlwaysVain == Spec => FailedIsVain
<1>1. IInv /\ [Next]_vars =>
        [phase' = "prompt" /\ status' # 0 =>
           /\ UNCHANGED <<pwd, oldpwd>>
           /\ \/ cwd' = start'.cwd
              \/ start'.kind = "path"
              \/ start'.kind = "home" /\ env.pwd = NULL]_vars
  <2> SUFFICES ASSUME IInv, [Next]_vars, phase' = "prompt", status' # 0, ~UNCHANGED vars
               PROVE  /\ UNCHANGED <<pwd, oldpwd>>
                      /\ \/ cwd' = start'.cwd
                         \/ start'.kind = "path"
                         \/ start'.kind = "home" /\ env.pwd = NULL
    OBVIOUS
  <2>1. Vain
    BY NamesStep
  <2>2. env' = env
    BY DEF Next, TooMany, Home, Absolute, Dash, Relative, Step, Arrive, Remove, Starts
  <2> QED
    BY <2>1, <2>2 DEF Vain, Stayed
<1> QED
  BY NamesInit, NamesStep, <1>1, PTL DEF Spec, FailedIsVain
=============================================================================
