--------------------------- MODULE StartUpProofs ---------------------------
(***************************************************************************)
(* However many processes start, stop, crash and start again, on however   *)
(* many key files and with whatever settings: those that take their        *)
(* identity from one file have the same one, unless two were creating it   *)
(* at once; the shell's environment prevails over .env; and each static    *)
(* peer is dialled once.                                                   *)
(*                                                                         *)
(* The inductive invariant has two parts: KeyTypes and Sole say what key   *)
(* files hold and who may be writing them, Hosts says what a node has made *)
(* of its settings and its key.  Loading .env is a loop, shown line by     *)
(* line (LoadSteps, LoadPrevails).                                         *)
(***************************************************************************)
EXTENDS StartUp, FoldProofs

\* The stages of a process that runs: it has its environment, for good.
Running == Stages \ {"down", "failed"}

\* The types of what key files depend on.  Only the environment that .env
\* and the shell make together names one.
KeyTypes ==
  /\ \A p \in Process : config[p] \in Config[p]
  /\ at \in [Process -> Stages]
  /\ DOMAIN env = Process
  /\ \A p \in Process : starts[p] > 0 => env[p] = LoadDotEnv(config[p]).env
  /\ starts \in [Process -> 0 .. MaxStarts]
  /\ \A p \in Process : at[p] \in Running => starts[p] > 0
  /\ file \in [Paths -> Keys \cup {None, Cut}]
  /\ faults \in Nat
  /\ used \in [Paths -> SUBSET Keys]
  /\ raced \subseteq Paths

\* A file that nobody has raced for is being created by one process at most,
\* which has found none there; it holds the one key that was taken from it.
SoleCreator(path) ==
  \A p, q \in Process :
    Creating(p) /\ Creating(q) /\ Path(p) = path /\ Path(q) = path => p = q

KeyOf(path) ==
  /\ \A p \in Process :
       Path(p) = path =>
         /\ at[p] = "opening" => file[path] = None
         /\ at[p] = "writing" => file[path] = Cut
  /\ file[path] \in {None, Cut} => used[path] = {}
  /\ used[path] \subseteq {file[path]}

Sole == \A path \in Paths \ raced : SoleCreator(path) /\ KeyOf(path)

\* The steps that change neither a key file nor who is creating one.
Elsewhere ==
  \E p \in Process :
    \/ LoadFails(p) \/ Listen(p) \/ ListenFails(p) \/ SetHandlers(p) \/ ConnectNext(p)
    \/ ConnectEnds(p) \/ SetupDHT(p) \/ SetupDHTFails(p) \/ Serve(p) \/ Stop(p)

-----------------------------------------------------------------------------
(* Types. *)

\* The key file of a process that runs is one of the files.
LEMMA PathsArePaths ==
  ASSUME KeyTypes, NEW p \in Process, at[p] \in Running
  PROVE  Path(p) \in Paths
BY DEF KeyTypes, Path, Paths

\* No process runs at first, and there is no file.
LEMMA InitKeyTypes == Init => KeyTypes
<1> SUFFICES ASSUME Init PROVE KeyTypes
  OBVIOUS
<1>1. at \in [Process -> Stages] /\ \A p \in Process : at[p] \notin Running
  BY DEF Init, Stages, Running
<1>2. starts \in [Process -> 0 .. MaxStarts]
  BY BoundAssumption DEF Init
<1>3. \A p \in Process : config[p] \in Config[p]
  BY DEF Init
<1>4. DOMAIN env = Process
  BY DEF Init
<1> QED
  BY <1>1, <1>2, <1>3, <1>4 DEF Init, KeyTypes

\* Steps between two stages of a process that runs, or to its end.
LEMMA SameEnvironment ==
  ASSUME KeyTypes, NEW p \in Process, UNCHANGED <<config, env, starts>>,
         at[p] \in Running, NEW stage \in Stages, at' = [at EXCEPT ![p] = stage]
  PROVE  /\ \A q \in Process : config'[q] \in Config[q]
         /\ at' \in [Process -> Stages]
         /\ DOMAIN env' = Process
         /\ \A q \in Process : starts'[q] > 0 => env'[q] = LoadDotEnv(config'[q]).env
         /\ starts' \in [Process -> 0 .. MaxStarts]
         /\ \A q \in Process : at'[q] \in Running => starts'[q] > 0
BY DEF KeyTypes

\* What all these steps have in common.
LEMMA ElsewhereMoves ==
  ASSUME KeyTypes, Elsewhere
  PROVE  \E p \in Process : \E stage \in Stages \ {"reading", "opening", "writing"} :
           /\ at[p] \in Running \ {"opening", "writing"}
           /\ at' = [at EXCEPT ![p] = stage]
           /\ UNCHANGED <<config, env, starts, keyVars>>
           /\ faults' = faults \/ faults' = faults + 1
<1>1. PICK p \in Process :
        \/ LoadFails(p) \/ Listen(p) \/ ListenFails(p) \/ SetHandlers(p) \/ ConnectNext(p)
        \/ ConnectEnds(p) \/ SetupDHT(p) \/ SetupDHTFails(p) \/ Serve(p) \/ Stop(p)
  BY DEF Elsewhere
<1>2. UNCHANGED <<config, env, starts, keyVars>>
  BY <1>1 DEF LoadFails, Listen, ListenFails, SetHandlers, ConnectNext, ConnectEnds, SetupDHT,
     SetupDHTFails, Serve, Stop
<1>3. faults' = faults \/ faults' = faults + 1
  BY <1>1 DEF LoadFails, Listen, ListenFails, SetHandlers, ConnectNext, ConnectEnds, SetupDHT,
     SetupDHTFails, Serve, Stop, Fault
<1>4. /\ at[p] \in Running \ {"opening", "writing"}
      /\ \E stage \in Stages \ {"reading", "opening", "writing"} : at' = [at EXCEPT ![p] = stage]
  <2>1. CASE ConnectNext(p)
    <3>1. at' = [at EXCEPT ![p] = "connecting"]
      BY <2>1 DEF ConnectNext, KeyTypes
    <3> QED
      BY <2>1, <3>1 DEF ConnectNext, Running, Stages
  <2>2. CASE Serve(p)
    BY <2>2 DEF Serve, Goto, Running, Stages
  <2>3. CASE LoadFails(p) \/ Listen(p) \/ ListenFails(p) \/ SetHandlers(p)
    BY <2>3 DEF LoadFails, Listen, ListenFails, SetHandlers, Goto, Running, Stages
  <2>4. CASE ConnectEnds(p) \/ SetupDHT(p) \/ SetupDHTFails(p) \/ Stop(p)
    BY <2>4 DEF ConnectEnds, SetupDHT, SetupDHTFails, Stop, Goto, Running, Stages
  <2> QED
    BY <1>1, <2>1, <2>2, <2>3, <2>4
<1> QED
  BY <1>2, <1>3, <1>4

\* Step by step: they differ in what they do to key files.
LEMMA NextKeyTypes == KeyTypes /\ Next => KeyTypes'
<1> SUFFICES ASSUME KeyTypes, Next PROVE KeyTypes'
  OBVIOUS
<1>1. CASE Elsewhere
  <2>1. PICK p \in Process, stage \in Stages :
           /\ at[p] \in Running
           /\ at' = [at EXCEPT ![p] = stage]
           /\ UNCHANGED <<config, env, starts, keyVars>>
           /\ faults' = faults \/ faults' = faults + 1
    BY <1>1, ElsewhereMoves
  <2> QED
    BY <2>1, SameEnvironment DEF KeyTypes, keyVars
<1>2. ASSUME NEW p \in Process, Start(p) PROVE KeyTypes'
  <2>1. \E stage \in {"reading", "failed"} : at' = [at EXCEPT ![p] = stage]
    BY <1>2 DEF Start
  <2>2. env' = [env EXCEPT ![p] = LoadDotEnv(config[p]).env]
    BY <1>2 DEF Start
  <2>3. starts[p] < MaxStarts /\ starts' = [starts EXCEPT ![p] = @ + 1]
    BY <1>2 DEF Start
  <2>4. UNCHANGED <<config, file, faults, used, raced>>
    BY <1>2 DEF Start
  <2>5. starts' \in [Process -> 0 .. MaxStarts] /\ starts'[p] > 0
    BY <2>3, BoundAssumption DEF KeyTypes
  <2>6. at' \in [Process -> Stages]
    BY <2>1 DEF KeyTypes, Stages
  <2>7. \A q \in Process :
          /\ at'[q] \in Running => starts'[q] > 0
          /\ starts'[q] > 0 => env'[q] = LoadDotEnv(config'[q]).env
    BY <2>1, <2>2, <2>3, <2>4, <2>5 DEF KeyTypes
  <2> QED
    BY <2>2, <2>4, <2>5, <2>6, <2>7 DEF KeyTypes
<1>3. ASSUME NEW p \in Process,
             LoadKey(p) \/ NoKeyYet(p) \/ OpenKey(p) \/ WriteKey(p) \/ KeyFails(p) \/ Crash(p)
      PROVE  KeyTypes'
  <2>1. at[p] \in Running
    BY <1>3 DEF LoadKey, NoKeyYet, OpenKey, WriteKey, KeyFails, Crash, Creating, Goto, Running,
       Stages, KeyTypes
  <2>2. UNCHANGED <<config, env, starts>>
    BY <1>3 DEF LoadKey, NoKeyYet, OpenKey, WriteKey, KeyFails, Crash
  <2>3. \E stage \in Stages : at' = [at EXCEPT ![p] = stage]
    BY <1>3 DEF LoadKey, NoKeyYet, OpenKey, WriteKey, KeyFails, Crash, Goto, Stages
  <2>4. Path(p) \in Paths /\ Written(p) \in Keys
    <3>1. starts[p] \in 1 .. MaxStarts
      BY <2>1, BoundAssumption DEF KeyTypes
    <3> QED
      BY <2>1, <3>1, PathsArePaths DEF Written, Keys
  <2>5. /\ file' \in [Paths -> Keys \cup {None, Cut}]
        /\ used' \in [Paths -> SUBSET Keys]
        /\ raced' \subseteq Paths
    <3>1. CASE LoadKey(p)
      BY <2>4, <3>1 DEF LoadKey, Take, KeyTypes
    <3>2. CASE NoKeyYet(p)
      BY <2>4, <3>2 DEF NoKeyYet, KeyTypes
    <3>3. CASE OpenKey(p)
      BY <2>4, <3>3 DEF OpenKey, KeyTypes
    <3>4. CASE WriteKey(p)
      BY <2>4, <3>4 DEF WriteKey, Take, Written, KeyTypes
    <3>5. CASE KeyFails(p)
      BY <3>5 DEF KeyFails, KeyLeft, KeyTypes
    <3>6. CASE Crash(p)
      BY <3>6 DEF Crash, keyVars, KeyTypes
    <3> QED
      BY <1>3, <3>1, <3>2, <3>3, <3>4, <3>5, <3>6
  <2>6. faults' \in Nat
    BY <1>3 DEF LoadKey, NoKeyYet, OpenKey, WriteKey, KeyFails, Crash, Fault, KeyTypes
  <2> QED
    BY <2>1, <2>2, <2>3, <2>5, <2>6, SameEnvironment DEF KeyTypes
<1> QED
  BY <1>1, <1>2, <1>3 DEF Next, Elsewhere

-----------------------------------------------------------------------------
(* Who creates a key file. *)

\* Nobody creates a file at first.
LEMMA InitSole == Init => Sole
BY DEF Init, Sole, SoleCreator, KeyOf, Creating

\* Steps that touch no key file and make nobody create one.
LEMMA QuietKeepsSole ==
  ASSUME Sole, UNCHANGED <<file, used, raced>>,
         \A q \in Process : at'[q] \in {"opening", "writing"} =>
           at'[q] = at[q] /\ Path(q)' = Path(q)
  PROVE  Sole'
<1> SUFFICES ASSUME NEW path \in Paths, path \notin raced
             PROVE  SoleCreator(path)' /\ KeyOf(path)'
  BY DEF Sole, Paths
<1>1. SoleCreator(path) /\ KeyOf(path)
  BY DEF Sole
<1>2. SoleCreator(path)'
  BY <1>1 DEF SoleCreator, Creating
<1>3. KeyOf(path)'
  BY <1>1 DEF KeyOf
<1> QED
  BY <1>2, <1>3

\* The key taken is the one the file holds.
LEMMA LoadKeyKeepsSole ==
  ASSUME KeyTypes, Sole, NEW p \in Process, LoadKey(p)
  PROVE  Sole'
<1> SUFFICES ASSUME NEW path \in Paths, path \notin raced
             PROVE  SoleCreator(path)' /\ KeyOf(path)'
  BY DEF Sole, Paths, LoadKey
<1>1. SoleCreator(path) /\ KeyOf(path)
  BY DEF Sole
<1>2. at' = [at EXCEPT ![p] = "options"] /\ UNCHANGED <<env, file>>
  BY DEF LoadKey, Goto
<1>3. used'[path] \in {used[path], used[path] \cup {file[path]}}
      /\ (used'[path] # used[path] => file[path] \notin {None, Cut})
  BY DEF LoadKey, Take, KeyTypes
<1>4. SoleCreator(path)'
  BY <1>1, <1>2 DEF SoleCreator, Creating, Path, KeyTypes
<1>5. KeyOf(path)'
  BY <1>1, <1>2, <1>3 DEF KeyOf, Path, KeyTypes
<1> QED
  BY <1>4, <1>5

\* Who begins to create a file that is not raced for is alone.
LEMMA NoKeyYetKeepsSole ==
  ASSUME KeyTypes, Sole, NEW p \in Process, NoKeyYet(p)
  PROVE  Sole'
<1> SUFFICES ASSUME NEW path \in Paths, path \notin raced'
             PROVE  SoleCreator(path)' /\ KeyOf(path)'
  BY DEF Sole, Paths
<1>1. path \notin raced
  BY DEF NoKeyYet
<1>2. SoleCreator(path) /\ KeyOf(path)
  BY <1>1 DEF Sole
<1>3. at' = [at EXCEPT ![p] = "opening"] /\ UNCHANGED <<env, file, used>>
      /\ file[Path(p)] = None
  BY DEF NoKeyYet, Goto, KeyMissing
<1>4. Path(p) = path => \A q \in Process \ {p} : ~(Creating(q) /\ Path(q) = path)
  <2>1. Path(p) \in Paths
    <3>1. at[p] \in Running
      BY DEF NoKeyYet, Goto, Running, Stages
    <3> QED
      BY <3>1, PathsArePaths
  <2> QED
    BY <2>1 DEF NoKeyYet
<1>5. SoleCreator(path)'
  BY <1>2, <1>3, <1>4 DEF SoleCreator, Creating, Path, KeyTypes
<1>6. KeyOf(path)'
  BY <1>2, <1>3 DEF KeyOf, Path, KeyTypes
<1> QED
  BY <1>5, <1>6

\* The file is empty while its creator writes it.
LEMMA OpenKeyKeepsSole ==
  ASSUME KeyTypes, Sole, NEW p \in Process, OpenKey(p)
  PROVE  Sole'
<1> SUFFICES ASSUME NEW path \in Paths, path \notin raced
             PROVE  SoleCreator(path)' /\ KeyOf(path)'
  BY DEF Sole, Paths, OpenKey
<1>1. SoleCreator(path) /\ KeyOf(path)
  BY DEF Sole
<1>2. /\ at[p] = "opening" /\ at' = [at EXCEPT ![p] = "writing"]
      /\ file' = [file EXCEPT ![Path(p)] = Cut]
      /\ UNCHANGED <<env, used>>
  BY DEF OpenKey, Goto
<1>3. SoleCreator(path)'
  BY <1>1, <1>2 DEF SoleCreator, Creating, Path, KeyTypes
<1>4. KeyOf(path)'
  <2>1. CASE Path(p) = path
    <3>1. file[path] = None /\ used[path] = {}
      BY <1>1, <1>2, <2>1 DEF KeyOf
    <3>2. file'[path] = Cut
      BY <1>2, <2>1 DEF KeyTypes
    <3>3. \A q \in Process \ {p} : at[q] = "opening" => Path(q) # path
      BY <1>1, <1>2, <2>1 DEF SoleCreator, Creating
    <3> QED
      BY <1>2, <3>1, <3>2, <3>3 DEF KeyOf, Path, KeyTypes
  <2>2. CASE Path(p) # path
    BY <1>1, <1>2, <2>2 DEF KeyOf, Path, KeyTypes
  <2> QED
    BY <2>1, <2>2
<1> QED
  BY <1>3, <1>4

\* Nobody has taken a key from the file before its creator.
LEMMA WriteKeyKeepsSole ==
  ASSUME KeyTypes, Sole, NEW p \in Process, WriteKey(p)
  PROVE  Sole'
<1> SUFFICES ASSUME NEW path \in Paths, path \notin raced
             PROVE  SoleCreator(path)' /\ KeyOf(path)'
  BY DEF Sole, Paths, WriteKey
<1>1. SoleCreator(path) /\ KeyOf(path)
  BY DEF Sole
<1>2. /\ at[p] = "writing" /\ at' = [at EXCEPT ![p] = "options"]
      /\ file' = [file EXCEPT ![Path(p)] = Written(p)]
      /\ used' = [used EXCEPT ![Path(p)] = @ \cup {Written(p)}]
      /\ UNCHANGED env
  BY DEF WriteKey, Goto, Take, Written
<1>3. SoleCreator(path)'
  BY <1>1, <1>2 DEF SoleCreator, Creating, Path, KeyTypes
<1>4. KeyOf(path)'
  <2>1. CASE Path(p) = path
    <3>1. used[path] = {}
      BY <1>1, <1>2, <2>1 DEF KeyOf
    <3>2. file'[path] = Written(p) /\ used'[path] = {Written(p)}
      BY <1>2, <2>1, <3>1 DEF KeyTypes
    <3>3. Written(p) \in Keys
      <4>1. starts[p] \in 1 .. MaxStarts
        BY <1>2, BoundAssumption DEF KeyTypes, Running, Stages
      <4> QED
        BY <4>1 DEF Written, Keys
    <3>4. file'[path] \notin {None, Cut}
      BY <3>2, <3>3, KeyAssumption
    <3>5. \A q \in Process \ {p} : at[q] \in {"opening", "writing"} => Path(q) # path
      BY <1>1, <1>2, <2>1 DEF SoleCreator, Creating
    <3> QED
      BY <1>2, <3>2, <3>4, <3>5 DEF KeyOf, Path, KeyTypes
  <2>2. CASE Path(p) # path
    BY <1>1, <1>2, <2>2 DEF KeyOf, Path, KeyTypes
  <2> QED
    BY <2>1, <2>2
<1> QED
  BY <1>3, <1>4

\* Step by step.
LEMMA NextSole == KeyTypes /\ Sole /\ Next => Sole'
<1> SUFFICES ASSUME KeyTypes, Sole, Next PROVE Sole'
  OBVIOUS
<1>1. CASE Elsewhere
  <2>1. PICK p \in Process, stage \in Stages \ {"reading", "opening", "writing"} :
          at' = [at EXCEPT ![p] = stage] /\ UNCHANGED <<env, keyVars>>
    BY <1>1, ElsewhereMoves
  <2>2. \A q \in Process : at'[q] \in {"opening", "writing"} => at'[q] = at[q]
    BY <2>1 DEF KeyTypes
  <2> QED
    BY <2>1, <2>2, QuietKeepsSole DEF keyVars, Path
<1>2. ASSUME NEW p \in Process, Start(p) PROVE Sole'
  <2>1. UNCHANGED <<file, used, raced>> /\ at'[p] \in {"reading", "failed"}
    BY <1>2 DEF Start, KeyTypes
  <2>2. \A q \in Process \ {p} : at'[q] = at[q] /\ env'[q] = env[q]
    BY <1>2 DEF Start, KeyTypes
  <2> QED
    BY <2>1, <2>2, QuietKeepsSole DEF Path
<1>3. ASSUME NEW p \in Process, KeyFails(p) \/ Crash(p) PROVE Sole'
  <2>1. UNCHANGED <<env, file, used, raced>> /\ at'[p] \in {"down", "failed"}
    BY <1>3 DEF KeyFails, KeyLeft, Crash, keyVars, KeyTypes
  <2>2. \A q \in Process \ {p} : at'[q] = at[q]
    BY <1>3 DEF KeyFails, Crash, KeyTypes
  <2> QED
    BY <2>1, <2>2, QuietKeepsSole DEF Path
<1> QED
  BY <1>1, <1>2, <1>3, LoadKeyKeepsSole, NoKeyYetKeepsSole, OpenKeyKeepsSole, WriteKeyKeepsSole
     DEF Next, Elsewhere

\* Stuttering.
LEMMA KeysStayStill ==
  ASSUME KeyTypes, Sole, UNCHANGED vars
  PROVE  KeyTypes' /\ Sole'
BY DEF vars, KeyTypes, Sole, SoleCreator, KeyOf, Creating, Path, Paths

\* The invariant of key files.
LEMMA SoleHolds == Spec => [](KeyTypes /\ Sole)
<1>1. KeyTypes /\ Sole /\ [Next]_vars => (KeyTypes /\ Sole)'
  BY NextKeyTypes, NextSole, KeysStayStill
<1> QED
  BY <1>1, InitKeyTypes, InitSole, PTL DEF Spec

\* Keys come from what the file holds, and a process that is creating it has
\* made none of them; so nobody has made two.
MakersOf(path) ==
  /\ file[path] = None => used[path] = {}
  /\ file[path] \in Keys => file[path] \in used[path]
  /\ \A key \in used[path] : \A p \in Process : Creating(p) /\ Path(p) = path => key[1] # p
  /\ \A mine, other \in used[path] : mine[1] = other[1] => mine = other

Makers == \A path \in Paths : MakersOf(path)

\* A step by which nobody begins to create anything.
LEMMA QuietKeepsMakers ==
  ASSUME Makers, UNCHANGED <<file, used>>,
         \A q \in Process : at'[q] \in {"opening", "writing"} =>
           at'[q] = at[q] /\ Path(q)' = Path(q)
  PROVE  Makers'
BY DEF Makers, MakersOf, Creating, Paths

\* Every step keeps it, races or no races.
LEMMA NextMakers == KeyTypes /\ Makers /\ Next => Makers'
<1> SUFFICES ASSUME KeyTypes, Makers, Next PROVE Makers'
  OBVIOUS
<1>1. CASE Elsewhere
  <2>1. PICK p \in Process, stage \in Stages \ {"reading", "opening", "writing"} :
          at' = [at EXCEPT ![p] = stage] /\ UNCHANGED <<env, keyVars>>
    BY <1>1, ElsewhereMoves
  <2>2. \A q \in Process : at'[q] \in {"opening", "writing"} => at'[q] = at[q]
    BY <2>1 DEF KeyTypes
  <2> QED
    BY <2>1, <2>2, QuietKeepsMakers DEF keyVars, Path
<1>2. ASSUME NEW p \in Process, Start(p) \/ KeyFails(p) \/ Crash(p) PROVE Makers'
  <2>1. UNCHANGED <<file, used>> /\ at'[p] \notin {"opening", "writing"}
    BY <1>2 DEF Start, KeyFails, KeyLeft, Crash, keyVars, KeyTypes
  <2>2. \A q \in Process \ {p} : at'[q] = at[q] /\ env'[q] = env[q]
    BY <1>2 DEF Start, KeyFails, Crash, KeyTypes
  <2> QED
    BY <2>1, <2>2, QuietKeepsMakers DEF Path
<1>3. ASSUME NEW p \in Process, LoadKey(p) PROVE Makers'
  <2>1. Path(p) \in Paths /\ file[Path(p)] \in Keys
    <3>1. at[p] \in Running
      BY <1>3 DEF LoadKey, Goto, Running, Stages
    <3> QED
      BY <1>3, <3>1, PathsArePaths DEF LoadKey, KeyTypes
  <2>2. file[Path(p)] \in used[Path(p)]
    BY <2>1 DEF Makers, MakersOf
  <2>3. UNCHANGED <<file, used>>
    BY <1>3, <2>2 DEF LoadKey, Take, KeyTypes
  <2>4. \A q \in Process : at'[q] \in {"opening", "writing"} => at'[q] = at[q] /\ Path(q)' = Path(q)
    BY <1>3 DEF LoadKey, Goto, KeyTypes, Path
  <2> QED
    BY <2>3, <2>4, QuietKeepsMakers
<1>4. ASSUME NEW p \in Process, NoKeyYet(p) \/ OpenKey(p) \/ WriteKey(p), NEW path \in Paths
      PROVE  MakersOf(path)'
  <2>1. MakersOf(path) /\ UNCHANGED env
    BY <1>4 DEF Makers, NoKeyYet, OpenKey, WriteKey
  <2>2. \A q \in Process \ {p} : Creating(q)' = Creating(q) /\ Path(q)' = Path(q)
    BY <1>4, <2>1 DEF NoKeyYet, OpenKey, WriteKey, Goto, Creating, Path, KeyTypes
  <2>3. CASE NoKeyYet(p)
    <3>1. UNCHANGED <<file, used>> /\ (Path(p) = path => used[path] = {})
      BY <2>1, <2>3 DEF NoKeyYet, KeyMissing, MakersOf
    <3> QED
      BY <2>1, <2>2, <3>1 DEF MakersOf, Path
  <2>4. CASE OpenKey(p)
    <3>1. UNCHANGED used /\ file'[path] \in {file[path], Cut} /\ Creating(p) /\ Path(p)' = Path(p)
      BY <2>1, <2>4 DEF OpenKey, Goto, Creating, KeyTypes, Path
    <3> QED
      BY <2>1, <2>2, <3>1, KeyAssumption DEF MakersOf
  <2>5. CASE WriteKey(p) /\ Path(p) = path
    <3>1. Written(p) = <<p, starts[p]>> /\ Written(p) \in Keys
      <4>1. starts[p] \in 1 .. MaxStarts
        BY <2>5, BoundAssumption DEF WriteKey, Goto, KeyTypes, Running, Stages
      <4> QED
        BY <4>1 DEF Written, Keys
    <3>2. file'[path] = Written(p) /\ used'[path] = used[path] \cup {Written(p)}
      BY <2>5 DEF WriteKey, Take, Written, KeyTypes
    <3>3. \A key \in used[path] : key[1] # p
      BY <2>1, <2>5 DEF MakersOf, WriteKey, Goto, Creating
    <3>4. ~Creating(p)'
      BY <2>5 DEF WriteKey, Goto, Creating, KeyTypes
    <3>5. Written(p)[1] = p
      BY <3>1
    <3>6. \A mine, other \in used'[path] : mine[1] = other[1] => mine = other
      BY <2>1, <3>2, <3>3, <3>5 DEF MakersOf
    <3>7. \A key \in used'[path] : \A q \in Process : Creating(q)' /\ Path(q)' = path => key[1] # q
      <4>1. ASSUME NEW q \in Process, Creating(q)', Path(q)' = path PROVE q # p /\ Creating(q) /\ Path(q) = path
        BY <2>2, <3>4, <4>1
      <4> QED
        BY <2>1, <3>2, <3>5, <4>1 DEF MakersOf
    <3> QED
      BY <3>1, <3>2, <3>6, <3>7, KeyAssumption DEF MakersOf
  <2>6. CASE WriteKey(p) /\ Path(p) # path
    <3>1. UNCHANGED <<file[path], used[path]>> /\ Path(p)' # path
      BY <2>1, <2>6 DEF WriteKey, Take, KeyTypes, Path
    <3> QED
      BY <2>1, <2>2, <3>1 DEF MakersOf
  <2> QED
    BY <1>4, <2>3, <2>4, <2>5, <2>6
<1> QED
  BY <1>1, <1>2, <1>3, <1>4 DEF Next, Elsewhere, Makers, Paths

\* The invariant of who has made which keys.
LEMMA MakersHold == Spec => []Makers
<1>1. Init => Makers
  BY KeyAssumption DEF Init, Makers, MakersOf, Creating
<1>2. KeyTypes /\ Makers /\ UNCHANGED vars => Makers'
  BY QuietKeepsMakers DEF vars, Path
<1> QED
  BY <1>1, <1>2, NextMakers, SoleHolds, PTL DEF Spec

-----------------------------------------------------------------------------
(* Settings. *)

\* The environment after some lines of .env, and whether all could be read.
Loading == [ok : BOOLEAN, env : UNION {[names -> STRING] : names \in SUBSET STRING}]

\* A line of .env leads from an environment to an environment.
LEMMA LoadLineType ==
  ASSUME NEW sofar \in Loading, NEW line \in Line
  PROVE  LoadLine(sofar, line) \in Loading
<1> PICK names \in SUBSET STRING : sofar.env \in [names -> STRING]
  BY DEF Loading
<1>1. sofar = [ok |-> sofar.ok, env |-> sofar.env] /\ sofar.ok \in BOOLEAN
  BY DEF Loading
<1>2. DOMAIN sofar = {"ok", "env"}
  BY DEF Loading
<1>3. CASE ~sofar.ok \/ Nameless(line)
  <2>1. LoadLine(sofar, line) = [ok |-> FALSE, env |-> sofar.env]
    BY <1>1, <1>3 DEF LoadLine
  <2> QED
    BY <2>1 DEF Loading
<1>4. CASE ~(~sofar.ok \/ Nameless(line)) /\ line.key \in names
  <2>1. LoadLine(sofar, line) = sofar
    BY <1>4 DEF LoadLine
  <2> QED
    BY <2>1
<1>5. CASE ~(~sofar.ok \/ Nameless(line)) /\ line.key \notin names
  <2> DEFINE env2 == [k \in names \cup {line.key} |->
                        IF k = line.key THEN line.value ELSE sofar.env[k]]
  <2>1. LoadLine(sofar, line) = [sofar EXCEPT !.env = env2]
    BY <1>5 DEF LoadLine
  <2>2. names \cup {line.key} \in SUBSET STRING /\ env2 \in [names \cup {line.key} -> STRING]
    BY DEF Line
  <2> HIDE DEF env2
  <2>3. [sofar EXCEPT !.env = env2] = [ok |-> sofar.ok, env |-> env2]
    BY <1>1
  <2>4. [ok |-> sofar.ok, env |-> env2] \in Loading
    BY <1>1, <2>2 DEF Loading
  <2> QED
    BY <2>1, <2>3, <2>4
<1> QED
  BY <1>3, <1>4, <1>5

\* loadDotEnv goes through the file line by line.
LEMMA LoadSteps ==
  ASSUME NEW p \in Process, NEW c \in Config[p]
  PROVE  \E g : /\ g[0] = [ok |-> TRUE, env |-> c.shell]
                /\ \A k \in 0 .. Len(c.lines) - 1 : g[k + 1] = LoadLine(g[k], c.lines[k + 1])
                /\ \A k \in 0 .. Len(c.lines) : g[k] \in Loading
                /\ LoadDotEnv(c) = g[Len(c.lines)]
<1> DEFINE n == Len(c.lines)
           base == [ok |-> TRUE, env |-> c.shell]
           F == [x \in (1 .. n) \X Loading |-> LoadLine(x[2], c.lines[x[1]])]
           Iter(i) == i = [s \in SUBSET DOMAIN c.lines |->
             IF s = {} THEN base ELSE LoadLine(i[s \ {Max(s)}], c.lines[Max(s)])]
           iter == CHOOSE i : Iter(i)
<1>1. c.lines \in Seq(Line) /\ DOMAIN c.shell \in SUBSET STRING
      /\ c.shell \in [DOMAIN c.shell -> STRING]
  BY StartUpAssumption
<1>2. n \in Nat /\ DOMAIN c.lines = 1 .. n
  BY <1>1
<1>3. base \in Loading
  BY <1>1 DEF Loading
<1>4. F \in [(1 .. n) \X Loading -> Loading]
  <2>1. ASSUME NEW x \in (1 .. n) \X Loading PROVE LoadLine(x[2], c.lines[x[1]]) \in Loading
    <3>1. x[2] \in Loading /\ x[1] \in 1 .. Len(c.lines)
      BY <2>1
    <3>2. c.lines[x[1]] \in Line
      BY <1>1, <3>1, ElementOfSeq
    <3> QED
      BY <3>1, <3>2, LoadLineType
  <2> QED
    BY <2>1
<1>5. PICK h \in [SUBSET (1 .. n) -> Loading] : Folds(h, n, base, F)
  <2> HIDE DEF F, n, base
  <2> QED
    BY <1>2, <1>3, <1>4, FoldExists
<1>6. Iter(h)
  <2> HIDE DEF base
  <2>1. ASSUME NEW s \in SUBSET (1 .. n)
        PROVE  h[s] = IF s = {} THEN base ELSE LoadLine(h[s \ {Max(s)}], c.lines[Max(s)])
    <3>1. CASE s # {}
      <4>1. Max(s) \in 1 .. n /\ h[s \ {Max(s)}] \in Loading
        BY <1>2, <3>1, MaxOfIndices
      <4> QED
        BY <1>5, <3>1, <4>1 DEF Folds
    <3> QED
      BY <1>5, <3>1 DEF Folds
  <2> QED
    BY <1>2, <2>1
<1>7. Iter(iter)
  <2> HIDE DEF Iter
  <2> QED
    BY <1>6
<1>8. LoadDotEnv(c) = iter[1 .. n]
  BY <1>2 DEF LoadDotEnv, FoldLeft, MapThenFoldSet
<1> DEFINE g == [k \in 0 .. n |-> iter[1 .. k]]
<1>9. \A s \in SUBSET (1 .. n) :
        iter[s] = IF s = {} THEN base ELSE LoadLine(iter[s \ {Max(s)}], c.lines[Max(s)])
  <2> HIDE DEF iter, n, base
  <2> QED
    BY <1>2, <1>7
<1> HIDE DEF iter, Iter, F, n, base
<1>10. g[0] = base /\ g[n] = iter[1 .. n]
  <2>1. 1 .. 0 = {} /\ {} \in SUBSET (1 .. n)
    OBVIOUS
  <2>2. g[0] = iter[1 .. 0] /\ g[n] = iter[1 .. n]
    BY <1>2
  <2>3. iter[{}] = base
    BY <1>9, <2>1
  <2> QED
    BY <2>1, <2>2, <2>3
<1>11. ASSUME NEW k \in 0 .. n - 1 PROVE g[k + 1] = LoadLine(g[k], c.lines[k + 1])
  <2>1. Max(1 .. k + 1) = k + 1 /\ (1 .. k + 1) \ {Max(1 .. k + 1)} = 1 .. k
    BY <1>2, IntervalMax, k \in Nat
  <2>2. 1 .. k + 1 \in SUBSET (1 .. n) /\ 1 .. k + 1 # {}
    <3>1. k + 1 \in 1 .. n /\ \A i \in 1 .. k + 1 : i \in 1 .. n
      BY <1>2
    <3>2. k + 1 \in 1 .. k + 1
      BY <1>2
    <3> QED
      BY <3>1, <3>2
  <2>3. g[k + 1] = iter[1 .. k + 1] /\ g[k] = iter[1 .. k]
    BY <1>2
  <2> QED
    BY <1>9, <2>1, <2>2, <2>3
<1> HIDE DEF g
<1> DEFINE T == {k \in 0 .. n : g[k] \in Loading}
<1>12. 0 .. n \subseteq T
  <2>1. 0 \in T
    BY <1>2, <1>3, <1>10
  <2>2. ASSUME NEW k \in 0 .. n - 1, k \in T PROVE k + 1 \in T
    <3>1. c.lines[k + 1] \in Line
      BY <1>1, <1>2, ElementOfSeq, k + 1 \in 1 .. n DEF n
    <3>2. g[k + 1] \in Loading
      BY <1>11, <2>2, <3>1, LoadLineType
    <3> QED
      BY <1>2, <3>2
  <2> HIDE DEF T
  <2> QED
    BY <1>2, <2>1, <2>2, IntervalInduction
<1>13. \A k \in 0 .. n : g[k] \in Loading
  BY <1>12
<1> QED
  BY <1>8, <1>10, <1>11, <1>13 DEF n, base

\* The first line that has line i's key.
First(c, i) == \A j \in 1 .. i - 1 : c.lines[j].key # c.lines[i].key

\* What k lines lead to: the shell's names as they were, and the keys of
\* the lines, each with the value of its first.
Prevails(c, k, x) ==
  /\ DOMAIN x.env = DOMAIN c.shell \cup {c.lines[i].key : i \in 1 .. k}
  /\ \A name \in DOMAIN c.shell : x.env[name] = c.shell[name]
  /\ \A name \in DOMAIN x.env \ DOMAIN c.shell :
       \E i \in 1 .. k : First(c, i) /\ c.lines[i].key = name /\ x.env[name] = c.lines[i].value

\* One more line: it sets what no line before it and no shell has set.
LEMMA LineKeepsPrevails ==
  ASSUME NEW p \in Process, NEW c \in Config[p], NEW k \in 0 .. Len(c.lines) - 1,
         NEW x \in Loading, LoadLine(x, c.lines[k + 1]).ok, x.ok => Prevails(c, k, x)
  PROVE  Prevails(c, k + 1, LoadLine(x, c.lines[k + 1]))
<1> DEFINE line == c.lines[k + 1]
<1>1. c.lines \in Seq(Line) /\ k \in Nat /\ line \in Line
  BY StartUpAssumption
<1>2. DOMAIN x = {"ok", "env"}
  BY DEF Loading
<1>3. x.ok /\ ~Nameless(line)
  <2>1. CASE ~x.ok \/ Nameless(line)
    <3>1. LoadLine(x, line) = [x EXCEPT !.ok = FALSE]
      BY <2>1 DEF LoadLine
    <3> QED
      BY <1>2, <3>1
  <2> QED
    BY <2>1
<1>4. Prevails(c, k, x)
  BY <1>3
<1>5. {c.lines[i].key : i \in 1 .. k + 1} = {c.lines[i].key : i \in 1 .. k} \cup {line.key}
  <2>1. \A i \in 1 .. k + 1 : i \in 1 .. k \/ i = k + 1
    BY <1>1
  <2>2. \A i \in 1 .. k : i \in 1 .. k + 1
    BY <1>1
  <2>3. k + 1 \in 1 .. k + 1
    BY <1>1
  <2> QED
    BY <2>1, <2>2, <2>3
<1>6. \A i \in 1 .. k : i \in 1 .. k + 1
  BY <1>1
<1>7. CASE line.key \in DOMAIN x.env
  <2>1. LoadLine(x, line) = x
    BY <1>3, <1>7 DEF LoadLine
  <2>2. Prevails(c, k + 1, x)
    BY <1>4, <1>5, <1>6, <1>7 DEF Prevails
  <2> QED
    BY <2>1, <2>2
<1>8. CASE line.key \notin DOMAIN x.env
  <2> DEFINE env2 == [name \in DOMAIN x.env \cup {line.key} |->
                        IF name = line.key THEN line.value ELSE x.env[name]]
             y == LoadLine(x, line)
  <2>1. y = [x EXCEPT !.env = env2]
    BY <1>3, <1>8 DEF LoadLine
  <2>2. /\ DOMAIN env2 = DOMAIN x.env \cup {line.key}
        /\ env2[line.key] = line.value
        /\ \A name \in DOMAIN x.env : env2[name] = x.env[name]
    BY <1>8
  <2> HIDE DEF env2
  <2>3. y.env = env2
    BY <1>2, <2>1
  <2>4. First(c, k + 1)
    <3>1. \A j \in 1 .. k : c.lines[j].key \in DOMAIN x.env
      BY <1>4 DEF Prevails
    <3>2. 1 .. k + 1 - 1 = 1 .. k
      BY <1>1
    <3> QED
      BY <1>8, <3>1, <3>2 DEF First
  <2> HIDE DEF y
  <2>5. DOMAIN y.env = DOMAIN c.shell \cup {c.lines[i].key : i \in 1 .. k + 1}
    BY <1>4, <1>5, <2>2, <2>3 DEF Prevails
  <2>6. \A name \in DOMAIN c.shell : y.env[name] = c.shell[name]
    BY <1>4, <2>2, <2>3 DEF Prevails
  <2>7. ASSUME NEW name \in DOMAIN y.env \ DOMAIN c.shell
        PROVE  \E i \in 1 .. k + 1 :
                 First(c, i) /\ c.lines[i].key = name /\ y.env[name] = c.lines[i].value
    <3>1. CASE name = line.key
      <4>1. k + 1 \in 1 .. k + 1
        BY <1>1
      <4> QED
        BY <2>2, <2>3, <2>4, <3>1, <4>1
    <3>2. CASE name # line.key
      <4>1. name \in DOMAIN x.env \ DOMAIN c.shell /\ y.env[name] = x.env[name]
        BY <2>2, <2>3, <2>7, <3>2
      <4> QED
        BY <1>4, <1>6, <4>1 DEF Prevails
    <3> QED
      BY <3>1, <3>2
  <2>8. Prevails(c, k + 1, y)
    BY <2>5, <2>6, <2>7 DEF Prevails
  <2> QED
    BY <2>8 DEF y
<1> QED
  BY <1>7, <1>8

\* All lines, if all could be read.
LEMMA LoadPrevails ==
  ASSUME NEW p \in Process, NEW c \in Config[p], LoadDotEnv(c).ok
  PROVE  Prevails(c, Len(c.lines), LoadDotEnv(c))
<1>1. PICK g : /\ g[0] = [ok |-> TRUE, env |-> c.shell]
               /\ \A k \in 0 .. Len(c.lines) - 1 : g[k + 1] = LoadLine(g[k], c.lines[k + 1])
               /\ \A k \in 0 .. Len(c.lines) : g[k] \in Loading
               /\ LoadDotEnv(c) = g[Len(c.lines)]
  BY LoadSteps
<1> DEFINE n == Len(c.lines)
           T == {k \in 0 .. n : g[k].ok => Prevails(c, k, g[k])}
<1>2. n \in Nat
  BY StartUpAssumption
<1>3. Prevails(c, 0, g[0])
  BY <1>1 DEF Prevails
<1>4. ASSUME NEW k \in 0 .. n - 1, g[k].ok => Prevails(c, k, g[k]), g[k + 1].ok
      PROVE  Prevails(c, k + 1, g[k + 1])
  <2>1. g[k] \in Loading /\ g[k + 1] = LoadLine(g[k], c.lines[k + 1])
    BY <1>1, <1>2
  <2> HIDE DEF n
  <2> QED
    BY <1>4, <2>1, LineKeepsPrevails DEF n
<1>5. g[n].ok => Prevails(c, n, g[n])
  <2> HIDE DEF n
  <2>1. 0 \in T /\ \A k \in 0 .. n - 1 : k \in T => k + 1 \in T
    BY <1>2, <1>3, <1>4
  <2>2. 0 .. n \subseteq T
    <3> HIDE DEF T
    <3> QED
      BY <1>2, <2>1, IntervalInduction
  <2> QED
    BY <1>2, <2>2
<1> QED
  BY <1>1, <1>5

\* A key has one first line.
LEMMA FirstLineIsFirst ==
  ASSUME NEW p \in Process, NEW c \in Config[p], NEW i \in 1 .. Len(c.lines), First(c, i)
  PROVE  FirstLine(c, c.lines[i].key) = c.lines[i].value
<1> DEFINE IsFirst(j) == /\ c.lines[j].key = c.lines[i].key
                         /\ \A l \in 1 .. j - 1 : c.lines[l].key # c.lines[i].key
           f == CHOOSE j \in DOMAIN c.lines : IsFirst(j)
<1>1. DOMAIN c.lines = 1 .. Len(c.lines) /\ Len(c.lines) \in Nat
  BY StartUpAssumption
<1>2. IsFirst(i)
  BY DEF First
<1>3. f \in DOMAIN c.lines /\ IsFirst(f)
  <2> HIDE DEF IsFirst
  <2> QED
    BY <1>1, <1>2
<1>4. f = i
  <2>1. ~(f < i) /\ ~(i < f)
    <3> HIDE DEF f
    <3> QED
      BY <1>1, <1>2, <1>3
  <2>2. f \in Nat /\ i \in Nat
    <3> HIDE DEF f
    <3> QED
      BY <1>1, <1>3
  <2> HIDE DEF f
  <2> QED
    BY <2>1, <2>2
<1>5. FirstLine(c, c.lines[i].key) = c.lines[f].value
  BY DEF FirstLine
<1> HIDE DEF f
<1> QED
  BY <1>4, <1>5

-----------------------------------------------------------------------------
(* Nodes: their keys and the peers they dial. *)

\* The stages of a node that has its key, of one whose options were good,
\* and of one that has dialled its peers.
Keyed == Running \ {"reading", "opening", "writing"}
Hosting == Keyed \ {"options"}
Through == {"dht", "serving", "up"}

\* The peers that come first of those with their id, and which of them were dialled.
Firsts(peers) == {i \in DOMAIN peers : \A j \in 1 .. i - 1 : peers[j].id # peers[i].id}

Seen(peers, done) == {i \in Firsts(peers) : \E j \in DOMAIN done : done[j].id = peers[i].id}

\* Each of these was dialled once.
OncePerId(peers, done) ==
  /\ Range(done) = {peers[i] : i \in Seen(peers, done)}
  /\ Len(done) = Cardinality(Seen(peers, done))

\* What a node has made of its settings and of its key.
HostOf(p) ==
  /\ Range(connected[p]) \subseteq Range(dialled[p])
  /\ at[p] \in Running => LoadDotEnv(config[p]).ok
  /\ at[p] \in Keyed => identity[p] \in used[Path(p)]
  /\ at[p] \in Hosting => OptionsOK(env[p]) /\ OncePerId(StaticPeers(env[p]), dialled[p])
  /\ at[p] \in Running \ Hosting => dialled[p] = <<>>
  /\ at[p] \in Through => Unseen(p) = {}

Peer == [id : STRING, addr : STRING]

HostTypes ==
  /\ identity \in [Process -> Keys \cup {None}]
  /\ dialled \in [Process -> Seq(Peer)]
  /\ connected \in [Process -> Seq(Peer)]
  /\ faults \in 0 .. MaxFaults

Hosts == HostTypes /\ \A p \in Process : HostOf(p)

\* Lists that libp2pOptions accepts name peers.
LEMMA StaticPeersType ==
  ASSUME NEW e, OptionsOK(e)
  PROVE  StaticPeers(e) \in Seq(Peer)
<1>1. PeersIn[StaticRelays(e)] \in Seq(Peer) /\ PeersIn[BootstrapPeers(e)] \in Seq(Peer)
  BY StartUpAssumption DEF OptionsOK, Peer
<1> QED
  BY <1>1, ConcatProperties DEF StaticPeers

\* One more element.
LEMMA AppendType ==
  ASSUME NEW S, NEW s \in Seq(S), NEW x \in S
  PROVE  Append(s, x) \in Seq(S) /\ Range(Append(s, x)) = Range(s) \cup {x}
<1> DEFINE t == Append(s, x)
<1>1. t \in Seq(S) /\ Len(t) = Len(s) + 1 /\ t[Len(s) + 1] = x
      /\ \A j \in 1 .. Len(s) : t[j] = s[j]
  BY AppendProperties
<1> HIDE DEF t
<1>2. DOMAIN s = 1 .. Len(s) /\ DOMAIN t = 1 .. Len(s) + 1 /\ Len(s) \in Nat
  BY <1>1
<1>3. \A j \in DOMAIN t : j \in DOMAIN s \/ j = Len(s) + 1
  BY <1>2
<1>4. \A j \in DOMAIN s : j \in DOMAIN t /\ t[j] = s[j]
  BY <1>1, <1>2
<1>5. Len(s) + 1 \in DOMAIN t
  BY <1>2
<1>6. Range(t) = Range(s) \cup {x}
  BY <1>1, <1>3, <1>4, <1>5 DEF Range
<1> QED
  BY <1>1, <1>6 DEF t

\* Nobody dialled yet.
LEMMA NoneDialled ==
  ASSUME NEW peers
  PROVE  OncePerId(peers, <<>>)
<1>1. Seen(peers, <<>>) = {}
  BY DEF Seen
<1>2. Cardinality({}) = 0
  BY FS_EmptySet
<1>3. Range(<<>>) = {}
  BY DEF Range
<1> QED
  BY <1>1, <1>2, <1>3 DEF OncePerId

\* The first peer that was not seen is the first with its id.
LEMMA DialNext ==
  ASSUME NEW peers \in Seq(Peer), NEW done \in Seq(Peer), OncePerId(peers, done),
         NEW i \in DOMAIN peers, \A j \in DOMAIN done : done[j].id # peers[i].id,
         \A k \in DOMAIN peers : (\A j \in DOMAIN done : done[j].id # peers[k].id) => i <= k
  PROVE  OncePerId(peers, Append(done, peers[i]))
<1> DEFINE more == Append(done, peers[i])
           seen == Seen(peers, done)
<1>1. peers[i] \in Peer /\ DOMAIN peers = 1 .. Len(peers) /\ Len(peers) \in Nat
  OBVIOUS
<1>2. /\ more \in Seq(Peer) /\ Len(more) = Len(done) + 1
      /\ \A j \in 1 .. Len(done) : more[j] = done[j]
      /\ more[Len(done) + 1] = peers[i]
  BY <1>1, AppendProperties
<1>3. DOMAIN done = 1 .. Len(done) /\ DOMAIN more = 1 .. Len(done) + 1 /\ Len(done) \in Nat
  BY <1>2
<1> HIDE DEF more
<1>4. i \in Firsts(peers)
  <2>1. ASSUME NEW j \in 1 .. i - 1, peers[j].id = peers[i].id PROVE FALSE
    <3>1. j \in DOMAIN peers /\ ~(i <= j)
      BY <1>1
    <3> QED
      BY <2>1, <3>1
  <2> QED
    BY <2>1 DEF Firsts
<1>5. i \notin seen
  BY DEF Seen
<1>6. \A k \in Firsts(peers) : peers[k].id = peers[i].id => k = i
  <2> SUFFICES ASSUME NEW k \in Firsts(peers), peers[k].id = peers[i].id, k # i
               PROVE  FALSE
    OBVIOUS
  <2>1. k \in 1 .. i - 1 \/ i \in 1 .. k - 1
    BY <1>1 DEF Firsts
  <2> QED
    BY <1>4, <2>1 DEF Firsts
<1>7. Seen(peers, more) = seen \cup {i}
  <2>1. ASSUME NEW k \in Firsts(peers)
        PROVE  (\E j \in DOMAIN more : more[j].id = peers[k].id)
                 <=> (\E j \in DOMAIN done : done[j].id = peers[k].id) \/ k = i
    <3>1. ASSUME NEW j \in DOMAIN more, more[j].id = peers[k].id
          PROVE  (\E l \in DOMAIN done : done[l].id = peers[k].id) \/ k = i
      <4>1. CASE j = Len(done) + 1
        BY <1>2, <1>6, <3>1, <4>1
      <4>2. CASE j \in 1 .. Len(done)
        BY <1>2, <1>3, <3>1, <4>2
      <4> QED
        BY <1>3, <4>1, <4>2
    <3>2. ASSUME NEW j \in DOMAIN done, done[j].id = peers[k].id
          PROVE  \E l \in DOMAIN more : more[l].id = peers[k].id
      <4>1. j \in DOMAIN more /\ more[j] = done[j]
        BY <1>2, <1>3
      <4> QED
        BY <3>2, <4>1
    <3>3. ASSUME k = i PROVE \E l \in DOMAIN more : more[l].id = peers[k].id
      <4>1. Len(done) + 1 \in DOMAIN more
        BY <1>3
      <4> QED
        BY <1>2, <3>3, <4>1
    <3> QED
      BY <3>1, <3>2, <3>3
  <2> QED
    BY <1>4, <2>1 DEF Seen
<1>8. Range(more) = {peers[k] : k \in seen \cup {i}}
  <2>1. Range(more) = Range(done) \cup {peers[i]}
    <3>1. \A j \in DOMAIN more : j \in DOMAIN done \/ j = Len(done) + 1
      BY <1>3
    <3>2. \A j \in DOMAIN done : j \in DOMAIN more /\ more[j] = done[j]
      BY <1>2, <1>3
    <3>3. Len(done) + 1 \in DOMAIN more
      BY <1>3
    <3> QED
      BY <1>2, <3>1, <3>2, <3>3 DEF Range
  <2>2. Range(done) = {peers[k] : k \in seen}
    BY DEF OncePerId
  <2> HIDE DEF seen
  <2> QED
    BY <2>1, <2>2
<1>9. Len(more) = Cardinality(seen \cup {i})
  <2>1. IsFiniteSet(seen)
    <3>1. seen \subseteq 1 .. Len(peers)
      BY <1>1 DEF Seen, Firsts
    <3> HIDE DEF seen
    <3> QED
      BY <1>1, <3>1, FS_Interval, FS_Subset, 1 \in Int, Len(peers) \in Int
  <2>2. Cardinality(seen \cup {i}) = Cardinality(seen) + 1
    BY <1>5, <2>1, FS_AddElement
  <2>3. Len(done) = Cardinality(seen)
    BY DEF OncePerId
  <2> QED
    BY <1>2, <2>2, <2>3
<1> QED
  BY <1>7, <1>8, <1>9 DEF OncePerId, more

\* When no peer is left, the first of each id was dialled.
LEMMA AllSeen ==
  ASSUME NEW peers, NEW done,
         \A k \in DOMAIN peers : \E j \in DOMAIN done : done[j].id = peers[k].id
  PROVE  Seen(peers, done) = Firsts(peers)
BY DEF Seen, Firsts

\* No process runs at first.
LEMMA InitHosts == Init => Hosts
<1> SUFFICES ASSUME Init PROVE Hosts
  OBVIOUS
<1>1. HostTypes
  BY BoundAssumption DEF Init, HostTypes
<1>2. ASSUME NEW p \in Process PROVE HostOf(p)
  <2>1. at[p] \notin Running /\ dialled[p] = <<>> /\ connected[p] = <<>>
    BY DEF Init, Running
  <2>2. at[p] \notin Keyed /\ at[p] \notin Hosting /\ at[p] \notin Through
    BY <2>1 DEF Keyed, Hosting, Through, Running, Stages
  <2> QED
    BY <2>1, <2>2 DEF HostOf
<1> QED
  BY <1>1, <1>2 DEF Hosts

\* Those that take no step stay as they are.
LEMMA OthersStay ==
  ASSUME NEW q, HostOf(q), config'[q] = config[q], at'[q] = at[q], env'[q] = env[q],
         identity'[q] = identity[q], dialled'[q] = dialled[q], connected'[q] = connected[q],
         used[Path(q)] \subseteq used'[Path(q)]
  PROVE  HostOf(q)'
<1>1. Path(q)' = Path(q) /\ Unseen(q)' = Unseen(q)
  BY DEF Path, Unseen
<1> QED
  BY <1>1 DEF HostOf

\* A node that goes on without a change of what it has.
LEMMA MoveOn ==
  ASSUME KeyTypes, Hosts, NEW p \in Process, NEW stage \in Stages, at' = [at EXCEPT ![p] = stage],
         UNCHANGED <<config, env, identity, used, hostVars>>,
         faults' \in 0 .. MaxFaults,
         stage \in Running => at[p] \in Running,
         stage \in Keyed => at[p] \in Keyed,
         stage \in Hosting => at[p] \in Hosting \/ (at[p] = "options" /\ OptionsOK(env[p])),
         stage \in Running \ Hosting => at[p] \in Running \ Hosting,
         stage \in Through => Unseen(p) = {}
  PROVE  Hosts'
<1>1. HostTypes'
  BY DEF Hosts, HostTypes, hostVars
<1>2. ASSUME NEW q \in Process, q # p PROVE HostOf(q)'
  <2>1. at'[q] = at[q]
    BY <1>2 DEF KeyTypes
  <2> QED
    BY <2>1, OthersStay DEF Hosts, hostVars
<1>3. HostOf(p)'
  <2>1. at'[p] = stage
    BY DEF KeyTypes
  <2>2. Path(p)' = Path(p) /\ Unseen(p)' = Unseen(p)
    BY DEF Path, Unseen, hostVars
  <2>3. UNCHANGED <<config, env, identity, used, dialled, connected>>
    BY DEF hostVars
  <2>4. HostOf(p)
    BY DEF Hosts
  <2>5. at[p] = "options" => dialled[p] = <<>>
    BY <2>4 DEF HostOf, Hosting, Running, Keyed, Stages
  <2>6. (stage \in Hosting => OptionsOK(env[p]) /\ OncePerId(StaticPeers(env[p]), dialled[p]))
    BY <2>4, <2>5, NoneDialled DEF HostOf
  <2> QED
    BY <2>1, <2>2, <2>3, <2>4, <2>6 DEF HostOf
<1> QED
  BY <1>1, <1>2, <1>3 DEF Hosts

\* A node that takes its key.
LEMMA TakeKeepsHosts ==
  ASSUME KeyTypes, Hosts, NEW p \in Process, NEW key \in Keys, at[p] \in Running \ Hosting,
         at' = [at EXCEPT ![p] = "options"], Take(p, key),
         UNCHANGED <<config, env, hostVars, faults>>
  PROVE  Hosts'
<1>1. HostTypes'
  BY DEF Hosts, HostTypes, hostVars, Take
<1>2. used'[Path(p)] = used[Path(p)] \cup {key}
      /\ \A path \in Paths : used[path] \subseteq used'[path]
  BY PathsArePaths DEF KeyTypes, Take
<1>3. ASSUME NEW q \in Process, q # p PROVE HostOf(q)'
  <2>1. at'[q] = at[q] /\ identity'[q] = identity[q]
    BY <1>3 DEF KeyTypes, Take, Hosts, HostTypes
  <2>2. used[Path(q)] \subseteq used'[Path(q)]
    BY DEF Take, KeyTypes
  <2> QED
    BY <2>1, <2>2, OthersStay DEF Hosts, hostVars
<1>4. HostOf(p)'
  <2>1. at'[p] = "options" /\ identity'[p] = key
    BY DEF KeyTypes, Take, Hosts, HostTypes
  <2>2. Path(p)' = Path(p) /\ UNCHANGED <<config, env, dialled, connected>>
    BY DEF Path, hostVars
  <2>3. HostOf(p)
    BY DEF Hosts
  <2>4. "options" \notin Hosting /\ "options" \notin Through
    BY DEF Hosting, Through
  <2> QED
    BY <1>2, <2>1, <2>2, <2>3, <2>4 DEF HostOf
<1> QED
  BY <1>1, <1>3, <1>4 DEF Hosts

\* A process that starts has neither key nor peers.
LEMMA StartKeepsHosts ==
  ASSUME KeyTypes, Hosts, NEW p \in Process, Start(p)
  PROVE  Hosts'
<1>1. HostTypes'
  <2>1. <<>> \in Seq(Peer)
    OBVIOUS
  <2> QED
    BY <2>1 DEF Hosts, HostTypes, Start
<1>2. ASSUME NEW q \in Process, q # p PROVE HostOf(q)'
  <2>1. at'[q] = at[q] /\ env'[q] = env[q] /\ config'[q] = config[q] /\ used' = used
        /\ identity'[q] = identity[q] /\ dialled'[q] = dialled[q] /\ connected'[q] = connected[q]
    BY <1>2 DEF KeyTypes, Start, Hosts, HostTypes
  <2> QED
    BY <2>1, OthersStay DEF Hosts
<1>3. HostOf(p)'
  <2>1. dialled'[p] = <<>> /\ connected'[p] = <<>> /\ config' = config
    BY DEF Start, Hosts, HostTypes
  <2>2. at'[p] = IF LoadDotEnv(config[p]).ok THEN "reading" ELSE "failed"
    BY DEF Start, KeyTypes
  <2>3. at'[p] \notin Keyed /\ at'[p] \notin Hosting /\ at'[p] \notin Through
    BY <2>2 DEF Keyed, Hosting, Through, Running
  <2>4. at'[p] \in Running => LoadDotEnv(config'[p]).ok
    BY <2>1, <2>2 DEF Running
  <2> QED
    BY <2>1, <2>3, <2>4 DEF HostOf
<1> QED
  BY <1>1, <1>2, <1>3 DEF Hosts

\* A node that dials the next peer.
LEMMA ConnectKeepsHosts ==
  ASSUME KeyTypes, Hosts, NEW p \in Process, ConnectNext(p)
  PROVE  Hosts'
<1>1. PICK peers, done, reached :
        peers = StaticPeers(env[p]) /\ done = dialled[p] /\ reached = connected[p]
  OBVIOUS
<1>2. at[p] = "connecting" /\ UNCHANGED <<config, at, env, identity, used, faults>>
  BY DEF ConnectNext, keyVars
<1>3. HostOf(p) /\ at[p] \in Hosting /\ at[p] \notin Through
  BY <1>2 DEF Hosts, Hosting, Keyed, Running, Stages, Through
<1>4. peers \in Seq(Peer) /\ done \in Seq(Peer) /\ reached \in Seq(Peer)
  BY <1>1, <1>3, StaticPeersType DEF HostOf, Hosts, HostTypes
<1>5. PICK i \in Unseen(p) :
        /\ \A j \in Unseen(p) : i <= j
        /\ dialled' = [dialled EXCEPT ![p] = Append(@, peers[i])]
        /\ connected' \in {connected, [connected EXCEPT ![p] = Append(@, peers[i])]}
  BY <1>1 DEF ConnectNext
<1>6. /\ i \in DOMAIN peers /\ \A j \in DOMAIN done : done[j].id # peers[i].id
      /\ \A k \in DOMAIN peers : (\A j \in DOMAIN done : done[j].id # peers[k].id) => i <= k
  BY <1>1, <1>5 DEF Unseen
<1>7. peers[i] \in Peer
  BY <1>4, <1>6
<1>8. Append(done, peers[i]) \in Seq(Peer) /\ Append(reached, peers[i]) \in Seq(Peer)
      /\ Range(Append(done, peers[i])) = Range(done) \cup {peers[i]}
      /\ Range(Append(reached, peers[i])) = Range(reached) \cup {peers[i]}
  BY <1>4, <1>7, AppendType
<1>9. dialled'[p] = Append(done, peers[i]) /\ connected'[p] \in {reached, Append(reached, peers[i])}
  BY <1>1, <1>5 DEF Hosts, HostTypes
<1>10. HostTypes'
  BY <1>1, <1>2, <1>5, <1>8 DEF Hosts, HostTypes
<1>11. ASSUME NEW q \in Process, q # p PROVE HostOf(q)'
  <2>1. dialled'[q] = dialled[q] /\ connected'[q] = connected[q]
    BY <1>5, <1>11 DEF Hosts, HostTypes
  <2> QED
    BY <1>2, <2>1, OthersStay DEF Hosts
<1>12. HostOf(p)'
  <2>1. OncePerId(peers, dialled'[p])
    <3>1. OncePerId(peers, done)
      BY <1>1, <1>3 DEF HostOf
    <3> QED
      BY <1>4, <1>6, <1>9, <3>1, DialNext
  <2>2. Range(connected'[p]) \subseteq Range(dialled'[p])
    <3>1. Range(reached) \subseteq Range(done)
      BY <1>1, <1>3 DEF HostOf
    <3> QED
      BY <1>8, <1>9, <3>1
  <2>3. Path(p)' = Path(p) /\ StaticPeers(env[p])' = peers
    BY <1>1, <1>2 DEF Path
  <2> QED
    BY <1>2, <1>3, <2>1, <2>2, <2>3 DEF HostOf
<1> QED
  BY <1>10, <1>11, <1>12 DEF Hosts


\* Step by step: most only go on, or end.
LEMMA NextHosts == KeyTypes /\ Hosts /\ Next => Hosts'
<1> SUFFICES ASSUME KeyTypes, Hosts, Next PROVE Hosts'
  OBVIOUS
<1> USE DEF Goto, Through, Hosting, Keyed, Running, Stages
<1>1. faults \in 0 .. MaxFaults /\ (Fault => faults' \in 0 .. MaxFaults)
  BY BoundAssumption DEF Hosts, HostTypes, Fault
<1>2. ASSUME NEW p \in Process, LoadKey(p) PROVE Hosts'
  <2>1. file[Path(p)] \in Keys
    <3>1. Path(p) \in Paths
      BY <1>2, PathsArePaths DEF LoadKey
    <3> QED
      BY <1>2, <3>1 DEF LoadKey, KeyTypes
  <2>2. /\ at[p] \in Running \ Hosting /\ at' = [at EXCEPT ![p] = "options"]
        /\ Take(p, file[Path(p)]) /\ UNCHANGED <<config, env, hostVars, faults>>
    BY <1>2 DEF LoadKey
  <2> QED
    BY <2>1, <2>2, TakeKeepsHosts
<1>3. ASSUME NEW p \in Process, WriteKey(p) PROVE Hosts'
  <2>1. <<p, starts[p]>> \in Keys
    <3>1. starts[p] \in 1 .. MaxStarts
      BY <1>3, BoundAssumption DEF WriteKey, KeyTypes
    <3> QED
      BY <3>1 DEF Keys
  <2>2. /\ at[p] \in Running \ Hosting /\ at' = [at EXCEPT ![p] = "options"]
        /\ Take(p, <<p, starts[p]>>) /\ UNCHANGED <<config, env, hostVars, faults>>
    BY <1>3 DEF WriteKey
  <2> QED
    BY <2>1, <2>2, TakeKeepsHosts
<1>4. ASSUME NEW p \in Process, NoKeyYet(p) PROVE Hosts'
  BY <1>1, <1>4, MoveOn DEF NoKeyYet
<1>5. ASSUME NEW p \in Process, OpenKey(p) PROVE Hosts'
  BY <1>1, <1>5, MoveOn DEF OpenKey
<1>6. ASSUME NEW p \in Process, Listen(p) PROVE Hosts'
  BY <1>1, <1>6, MoveOn DEF Listen, keyVars
<1>7. ASSUME NEW p \in Process, SetHandlers(p) PROVE Hosts'
  BY <1>1, <1>7, MoveOn DEF SetHandlers, keyVars
<1>8. ASSUME NEW p \in Process, ConnectEnds(p) PROVE Hosts'
  BY <1>1, <1>8, MoveOn DEF ConnectEnds, keyVars
<1>9. ASSUME NEW p \in Process, at[p] \in Through, NEW stage \in {"serving", "up"},
             at' = [at EXCEPT ![p] = stage],
             UNCHANGED <<config, env, starts, keyVars, hostVars, faults>>
      PROVE  Hosts'
  <2>1. Unseen(p) = {}
    BY <1>9 DEF Hosts, HostOf
  <2> QED
    BY <1>1, <1>9, <2>1, MoveOn DEF keyVars
<1>10. ASSUME NEW p \in Process, at[p] \in Running, NEW stage \in {"down", "failed"},
              at' = [at EXCEPT ![p] = stage],
              UNCHANGED <<config, env, identity, used, hostVars>>, faults' \in 0 .. MaxFaults
       PROVE  Hosts'
  BY <1>10, MoveOn
<1>11. ASSUME NEW p \in Process, SetupDHT(p) \/ Serve(p) PROVE Hosts'
  <2>1. CASE SetupDHT(p)
    BY <1>9, <2>1 DEF SetupDHT
  <2>2. CASE Serve(p) /\ PortTaken(p)
    BY <1>1, <1>10, <2>2 DEF Serve, keyVars
  <2>3. CASE Serve(p) /\ ~PortTaken(p)
    BY <1>9, <2>3 DEF Serve
  <2> QED
    BY <1>11, <2>1, <2>2, <2>3
<1>12. ASSUME NEW p \in Process, LoadFails(p) \/ ListenFails(p) \/ SetupDHTFails(p) \/ Stop(p)
       PROVE  Hosts'
  <2>1. at[p] \in Running /\ \E stage \in {"down", "failed"} : at' = [at EXCEPT ![p] = stage]
    BY <1>12 DEF LoadFails, ListenFails, SetupDHTFails, Stop
  <2>2. UNCHANGED <<config, env, identity, used, hostVars>> /\ faults' \in 0 .. MaxFaults
    BY <1>1, <1>12 DEF LoadFails, ListenFails, SetupDHTFails, Stop, keyVars
  <2> QED
    BY <1>10, <2>1, <2>2
<1>13. ASSUME NEW p \in Process, KeyFails(p) \/ Crash(p) PROVE Hosts'
  <2>1. at[p] \in Running /\ \E stage \in {"down", "failed"} : at' = [at EXCEPT ![p] = stage]
    BY <1>13 DEF KeyFails, Crash, Creating, KeyTypes
  <2>2. UNCHANGED <<config, env, identity, used, hostVars>> /\ faults' \in 0 .. MaxFaults
    BY <1>1, <1>13 DEF KeyFails, Crash, keyVars
  <2> QED
    BY <1>10, <2>1, <2>2
<1> QED
  BY <1>2, <1>3, <1>4, <1>5, <1>6, <1>7, <1>8, <1>11, <1>12, <1>13,
     StartKeepsHosts, ConnectKeepsHosts DEF Next

\* Stuttering.
LEMMA HostsStayStill ==
  ASSUME Hosts, UNCHANGED vars
  PROVE  Hosts'
<1>1. ASSUME NEW q \in Process PROVE HostOf(q)'
  BY OthersStay DEF Hosts, vars
<1> QED
  BY <1>1 DEF Hosts, HostTypes, vars

\* Hosts needs the types of KeyTypes, which hold by SoleHolds.
LEMMA HostsHolds == Spec => []Hosts
<1>1. KeyTypes /\ Hosts /\ [Next]_vars => Hosts'
  BY NextHosts, HostsStayStill
<1> QED
  BY <1>1, InitHosts, SoleHolds, PTL DEF Spec

-----------------------------------------------------------------------------
(* The theorems. *)

\* All identities that nodes ever have from one key file are the same, over
\* any number of starts, crashes and failed writes, unless two processes
\* once found no file there and created it at once; and then no process has
\* made more than one of them (loadOrCreatePrivateKey).
THEOREM OneIdentity == Spec => []OneIdentityPerFile
<1>1. Sole /\ Makers => OneIdentityPerFile
  <2> SUFFICES ASSUME Sole, Makers, NEW path \in Paths \ raced PROVE Cardinality(used[path]) <= 1
    BY DEF OneIdentityPerFile, Makers, MakersOf
  <2>1. used[path] \subseteq {file[path]}
    BY DEF Sole, KeyOf
  <2>2. used[path] = {} \/ used[path] = {file[path]}
    BY <2>1
  <2>3. CASE used[path] = {}
    <3>1. Cardinality(used[path]) = 0
      BY <2>3, FS_EmptySet
    <3> QED
      BY <3>1
  <2>4. CASE used[path] = {file[path]}
    <3>1. Cardinality(used[path]) = 1
      BY <2>4, FS_Singleton
    <3> QED
      BY <3>1
  <2> QED
    BY <2>2, <2>3, <2>4
<1> QED
  BY <1>1, SoleHolds, MakersHold, PTL

\* The steps of a process that is making a key are all that touches a file.
THEOREM KeyFilesKept == Spec => KeyFilesStay
<1>1. KeyTypes /\ [Next]_vars =>
        [\A path \in Paths :
           file[path] # None /\ (\A p \in Process : Creating(p) => Path(p) # path) =>
             file'[path] = file[path]]_vars
  <2> SUFFICES ASSUME KeyTypes, Next, NEW path \in Paths,
                      \A p \in Process : Creating(p) => Path(p) # path
               PROVE  file'[path] = file[path]
    BY DEF vars
  <2>1. ASSUME NEW p \in Process, OpenKey(p) \/ WriteKey(p) PROVE file'[path] = file[path]
    <3>1. Path(p) # path
      BY <2>1 DEF OpenKey, WriteKey, Goto, Creating
    <3> QED
      BY <2>1, <3>1 DEF OpenKey, WriteKey, KeyTypes
  <2>2. CASE Elsewhere
    BY <2>2, ElsewhereMoves DEF keyVars
  <2>3. ASSUME NEW p \in Process, Start(p) \/ LoadKey(p) \/ NoKeyYet(p) \/ KeyFails(p) \/ Crash(p)
        PROVE  file'[path] = file[path]
    BY <2>3 DEF Start, LoadKey, NoKeyYet, KeyFails, KeyLeft, Crash, keyVars
  <2> QED
    BY <2>1, <2>2, <2>3 DEF Next, Elsewhere
<1> QED
  BY <1>1, SoleHolds, PTL DEF Spec, KeyFilesStay

\* Who is to blame for a key file that cannot be read.
Blamed(p, path) ==
  /\ Path(p) = path
  /\ \/ at[p] = "writing"
     \/ at[p] \in {"down", "reading", "failed"} /\ starts[p] > 0 /\ faults > 0

\* Nothing but another key, or another culprit, clears those to blame.
LEMMA BlameStays ==
  ASSUME KeyTypes, Next, NEW path \in Paths, file[path] = Cut, file'[path] = Cut,
         NEW p \in Process, Blamed(p, path)
  PROVE  Blamed(p, path)'
<1> USE DEF Blamed
<1>1. Path(p)' = Path(p)
  <2>1. starts[p] > 0
    BY DEF Running, Stages, KeyTypes
  <2>2. CASE Start(p)
    BY <2>1, <2>2 DEF Start, Path, KeyTypes
  <2>3. env'[p] = env[p] \/ Start(p)
    BY DEF Next, Start, LoadKey, LoadFails, NoKeyYet, OpenKey, WriteKey, KeyFails, Listen, ListenFails,
       SetHandlers, ConnectNext, ConnectEnds, SetupDHT, SetupDHTFails, Serve, Stop, Crash, KeyTypes
  <2> QED
    BY <2>2, <2>3 DEF Path
<1>2. starts'[p] >= starts[p] /\ faults' >= faults /\ starts[p] > 0
  <2>1. starts[p] \in Nat /\ faults \in Nat
    BY BoundAssumption DEF KeyTypes
  <2>2. starts[p] > 0
    BY DEF Running, Stages, KeyTypes
  <2> QED
    BY <2>1, <2>2 DEF Next, Start, LoadKey, LoadFails, NoKeyYet, OpenKey, WriteKey, KeyFails, Listen,
       ListenFails, SetHandlers, ConnectNext, ConnectEnds, SetupDHT, SetupDHTFails, Serve, Stop, Crash,
       Fault, KeyTypes
<1>3. starts'[p] \in Nat /\ faults' \in Nat /\ starts[p] \in Nat /\ faults \in Nat
  BY NextKeyTypes, BoundAssumption DEF KeyTypes
<1>4. CASE at[p] = "writing"
  <2>1. CASE WriteKey(p)
    <3>1. starts[p] \in 1 .. MaxStarts
      BY <1>4, BoundAssumption DEF KeyTypes, Running, Stages
    <3>2. Written(p) \in Keys
      BY <3>1 DEF Written, Keys
    <3>3. file'[path] = Written(p)
      BY <2>1 DEF WriteKey, KeyTypes
    <3> QED
      BY <3>2, <3>3, KeyAssumption
  <2>2. CASE KeyFails(p) \/ Crash(p)
    <3>1. at'[p] \in {"down", "failed"} /\ faults' > 0
      BY <1>3, <2>2 DEF KeyFails, Crash, Fault, KeyTypes
    <3> QED
      BY <1>1, <1>2, <1>3, <3>1
  <2>3. CASE ~(WriteKey(p) \/ KeyFails(p) \/ Crash(p))
    <3>1. at'[p] = "writing"
      BY <1>4, <2>3 DEF Next, Start, LoadKey, LoadFails, NoKeyYet, OpenKey, WriteKey, KeyFails, Listen,
         ListenFails, SetHandlers, ConnectNext, ConnectEnds, SetupDHT, SetupDHTFails, Serve, Stop, Crash,
         Goto, KeyTypes
    <3> QED
      BY <1>1, <3>1
  <2> QED
    BY <2>1, <2>2, <2>3
<1>5. CASE at[p] \in {"down", "reading", "failed"} /\ faults > 0
  <2>1. at'[p] \in {"down", "reading", "failed"}
    BY <1>5, KeyAssumption DEF Next, Start, LoadKey, LoadFails, NoKeyYet, KeyMissing, OpenKey, WriteKey,
       KeyFails, Creating, Listen, ListenFails, SetHandlers, ConnectNext, ConnectEnds, SetupDHT,
       SetupDHTFails, Serve, Stop, Crash, Goto, KeyTypes
  <2> QED
    BY <1>1, <1>2, <1>3, <1>5, <2>1
<1> QED
  BY <1>4, <1>5

\* Of an unreadable key file there is one to blame who does not run with a
\* key of its own, whatever processes share the file (loadOrCreatePrivateKey).
THEOREM CutsHaveReasons == Spec => []CutExplained
<1> DEFINE Explained == \A path \in Paths : file[path] = Cut => \E p \in Process : Blamed(p, path)
<1>1. Init => Explained
  <2>1. Init => \A path \in Paths : file[path] # Cut
    BY KeyAssumption DEF Init
  <2> QED
    BY <2>1
<1>2. KeyTypes /\ Explained /\ [Next]_vars => Explained'
  <2>1. ASSUME UNCHANGED vars, Explained PROVE Explained'
    BY <2>1 DEF vars, Blamed, Path, Paths
  <2> SUFFICES ASSUME KeyTypes, Explained, Next, NEW path \in Paths, file'[path] = Cut
               PROVE  \E p \in Process : Blamed(p, path)'
    BY <2>1 DEF Paths
  <2>2. CASE file[path] = Cut
    BY <2>2, BlameStays
  <2>3. ASSUME file[path] # Cut, NEW p \in Process, OpenKey(p) \/ WriteKey(p), Path(p) = path
        PROVE  Blamed(p, path)'
    <3>1. CASE OpenKey(p)
      BY <2>3, <3>1 DEF OpenKey, Goto, KeyTypes, Path, Blamed
    <3>2. CASE WriteKey(p)
      <4>1. starts[p] \in 1 .. MaxStarts
        BY <3>2, BoundAssumption DEF WriteKey, Goto, KeyTypes, Running, Stages
      <4>2. Written(p) \in Keys
        BY <4>1 DEF Written, Keys
      <4>3. file'[path] = Written(p)
        BY <2>3, <3>2 DEF WriteKey, KeyTypes
      <4> QED
        BY <4>2, <4>3, KeyAssumption
    <3> QED
      BY <2>3, <3>1, <3>2
  <2>4. CASE Elsewhere
    BY <2>2, <2>4, ElsewhereMoves DEF keyVars
  <2>5. ASSUME NEW p \in Process,
               \/ Start(p) \/ LoadKey(p) \/ NoKeyYet(p) \/ KeyFails(p) \/ Crash(p)
               \/ (OpenKey(p) \/ WriteKey(p)) /\ Path(p) # path
        PROVE  file[path] = Cut
    BY <2>5 DEF Start, LoadKey, NoKeyYet, OpenKey, WriteKey, KeyFails, KeyLeft, Crash, keyVars, KeyTypes
  <2> QED
    BY <2>2, <2>3, <2>4, <2>5 DEF Next, Elsewhere
<1>3. Explained => CutExplained
  BY DEF CutExplained, Blamed
<1> QED
  BY <1>1, <1>2, <1>3, SoleHolds, PTL DEF Spec

\* Every variable keeps its type; a process has a key from the moment it can
\* go on, and whoever runs without having raced for its file has the key
\* that the file holds, as loadOrCreatePrivateKey returns it.
THEOREM TypeCorrect == Spec => []TypeOK
<1>1. KeyTypes /\ Sole /\ Hosts => TypeOK
  <2> SUFFICES ASSUME KeyTypes, Sole, Hosts PROVE TypeOK
    OBVIOUS
  <2>1. ASSUME NEW p \in Process, at[p] \in Keyed
        PROVE  identity[p] # None /\ (Path(p) \notin raced => file[Path(p)] = identity[p])
    <3>1. Path(p) \in Paths
      BY <2>1, PathsArePaths DEF Keyed
    <3>2. identity[p] \in used[Path(p)]
      BY <2>1 DEF Hosts, HostOf
    <3>3. identity[p] \in Keys
      BY <3>1, <3>2 DEF KeyTypes
    <3>4. Path(p) \notin raced => used[Path(p)] \subseteq {file[Path(p)]}
      BY <3>1 DEF Sole, KeyOf
    <3> QED
      BY <3>2, <3>3, <3>4, KeyAssumption
  <2>2. Stages \ {"down", "reading", "opening", "writing", "failed"} = Keyed
    BY DEF Keyed, Running
  <2>3. \A p \in Process : Range(connected[p]) \subseteq Range(dialled[p])
    BY DEF Hosts, HostOf
  <2> QED
    BY <2>1, <2>2, <2>3 DEF TypeOK, KeyTypes, Hosts, HostTypes
<1> QED
  BY <1>1, SoleHolds, HostsHolds, PTL

\* Whatever lines .env has, in whatever order and however often, a name has
\* the value the shell gives it, or else that of its first line
\* (loadDotEnv passes over what os.LookupEnv finds).
THEOREM ShellWins == Spec => []ShellPrevails
<1>1. KeyTypes /\ Hosts => ShellPrevails
  <2> SUFFICES ASSUME KeyTypes, Hosts, NEW p \in Process, at[p] \in Running
               PROVE  LET c == config[p]
                          named == {c.lines[i].key : i \in DOMAIN c.lines}
                      IN /\ DOMAIN env[p] = DOMAIN c.shell \cup named
                         /\ \A k \in DOMAIN env[p] :
                              env[p][k] = IF k \in DOMAIN c.shell THEN c.shell[k]
                                          ELSE FirstLine(c, k)
    BY DEF ShellPrevails, Running, KeyTypes
  <2>1. PICK c \in Config[p] : c = config[p]
    BY DEF KeyTypes
  <2>2. LoadDotEnv(c).ok /\ env[p] = LoadDotEnv(c).env
    BY <2>1 DEF KeyTypes, Hosts, HostOf
  <2>3. Prevails(c, Len(c.lines), LoadDotEnv(c))
    BY <2>2, LoadPrevails
  <2>4. DOMAIN c.lines = 1 .. Len(c.lines)
    BY StartUpAssumption
  <2>5. DOMAIN env[p] = DOMAIN c.shell \cup {c.lines[i].key : i \in DOMAIN c.lines}
    BY <2>2, <2>3, <2>4 DEF Prevails
  <2>6. ASSUME NEW k \in DOMAIN env[p], k \notin DOMAIN c.shell
        PROVE  env[p][k] = FirstLine(c, k)
    <3>1. PICK i \in 1 .. Len(c.lines) :
            First(c, i) /\ c.lines[i].key = k /\ env[p][k] = c.lines[i].value
      BY <2>2, <2>3, <2>6 DEF Prevails
    <3> QED
      BY <3>1, FirstLineIsFirst
  <2>7. \A k \in DOMAIN c.shell : env[p][k] = c.shell[k]
    BY <2>2, <2>3 DEF Prevails
  <2> QED
    BY <2>1, <2>5, <2>6, <2>7
<1> QED
  BY <1>1, SoleHolds, HostsHolds, PTL

\* When discovery starts, the first entry of every static peer's id has been
\* dialled, once, and no other: however many relays and bootstrap peers the
\* lists name and whichever of them can be reached (connectToStaticPeers).
THEOREM DialledOnce == Spec => []PeersDialledOnce
<1>1. Hosts => PeersDialledOnce
  <2> SUFFICES ASSUME Hosts, NEW p \in Process, at[p] \in Through
               PROVE  /\ Range(dialled[p]) =
                           {StaticPeers(env[p])[i] : i \in Firsts(StaticPeers(env[p]))}
                      /\ Len(dialled[p]) = Cardinality(Firsts(StaticPeers(env[p])))
    BY DEF PeersDialledOnce, Firsts, Through
  <2>1. PICK peers, done : peers = StaticPeers(env[p]) /\ done = dialled[p]
    OBVIOUS
  <2>2. at[p] \in Hosting /\ HostOf(p)
    BY DEF Hosts, Through, Hosting, Keyed, Running, Stages
  <2>3. OncePerId(peers, done)
    BY <2>1, <2>2 DEF HostOf
  <2>4. \A k \in DOMAIN peers : \E j \in DOMAIN done : done[j].id = peers[k].id
    BY <2>1, <2>2 DEF HostOf, Unseen
  <2>5. Seen(peers, done) = Firsts(peers)
    BY <2>4, AllSeen
  <2> QED
    BY <2>1, <2>3, <2>5 DEF OncePerId
<1> QED
  BY <1>1, HostsHolds, PTL
=============================================================================
