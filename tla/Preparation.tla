---------------------------- MODULE Preparation ----------------------------
(***************************************************************************)
(* What executeDeploy does with the directory of a deployment before       *)
(* docker gets it: the checks, the archive unpacked entry by entry, the    *)
(* compose file looked up, the prerequisites of the platform, the runtime  *)
(* override written; and the docker commands that are then run there.      *)
(* Docker, WSL and the formats of archives are external.                   *)
(***************************************************************************)
EXTENDS FileTree, FiniteSets

CONSTANTS
  Deployment,     \* deployments that reach a provider
  Normal,         \* Normal[n]: what safeProjectName leaves of a name
  Case,           \* Case[d]: what may be deployed as d, and on what host
  Content,        \* what a file of an archive may hold
  Blank,          \* segments with a blank in them
  ComposeName,    \* docker-compose.yml
  DefaultProject, \* deploy
  Override,       \* .runtime-override.compose.yaml
  None,           \* no runtime is configured
  MaxFaults       \* bound: how many things go wrong

\* A path as a user or an archive writes it.
Written == [rooted : BOOLEAN, segments : Seq(STRING)]

\* An archive by the entries that have arrived.  One that is not whole ends
\* between two of them (or in the padding behind one), or within what follows.
Archive == [
  format : {"zip", "tar", "tar.gz", "unknown"},
  ends : {"whole", "between", "within"},
  root : STRING,
  entries : Seq([kind : {"dir", "file", "link"}, path : Written, content : Content])]

ASSUME PreparationAssumption ==
  /\ \A d \in Deployment : \A c \in Case[d] :
       /\ c.archive \in Archive
       /\ c.compose \in Seq(Written) /\ Len(c.compose) <= 1
       /\ c.artifacts \in Seq(Written)
       /\ {c.project, c.archive.root} \subseteq DOMAIN Normal
       /\ DOMAIN c.host = {"enabled", "windows", "runtime", "runtimes"}
  /\ \A n \in DOMAIN Normal : Normal[n] \in STRING \ {".", ".."}
  /\ \A c \in Content : DOMAIN c = {"id", "yaml", "services"}
  /\ {DefaultProject, Override} \subseteq STRING \ (Idle \cup {".."})
  /\ MaxFaults \in Nat

VARIABLES
  given,    \* given[d]: one of Case[d]
  stage,    \* stage[d]: how far d is
  entry,    \* entry[d]: the index of the archive's entry that comes next
  files,    \* files[d]: what each file in the deployment directory holds
  dirs,     \* dirs[d]: the directories in it
  issued,   \* issued[d]: the docker commands run for d
  faults    \* how many things have gone wrong

treeVars == <<files, dirs>>
prepVars == <<given, stage, entry, treeVars, issued, faults>>

PrepStage == {"checking", "unpacking", "inspecting", "probing", "overriding", "starting"}

Fault == faults < MaxFaults /\ faults' = faults + 1

Goto(d, from, to) == stage[d] = from /\ stage' = [stage EXCEPT ![d] = to]

PrepInit ==
  /\ given \in {g \in [Deployment -> UNION {Case[d] : d \in Deployment}] :
                  \A d \in Deployment : g[d] \in Case[d]}
  /\ stage = [d \in Deployment |-> "checking"]
  /\ entry = [d \in Deployment |-> 1]
  /\ files = [d \in Deployment |-> <<>>]
  /\ dirs = [d \in Deployment |-> {}]
  /\ issued = [d \in Deployment |-> <<>>]
  /\ faults = 0

-----------------------------------------------------------------------------
(* Unpacking. *)

Entries(d) == given[d].archive.entries
Host(d) == given[d].host

\* defaultBundleRootName: the archive's name without its suffix.
Root(d) == <<given[d].archive.root>>

\* safeProjectName: the name the user has typed, or that of the archive,
\* as far as it can be used.
Project(d) ==
  LET name == Normal[IF given[d].project = "" THEN given[d].archive.root ELSE given[d].project]
  IN IF name = "" THEN DefaultProject ELSE name

\* The compose file the user has named, or the default one.
ComposeWritten(d) ==
  IF given[d].compose = <<>>
  THEN [rooted |-> FALSE, segments |-> Append(Root(d), ComposeName)]
  ELSE given[d].compose[1]

ComposePath(d) == Clean(ComposeWritten(d).segments)

\* Deployment is disabled here, the path of the compose file is unusable, or
\* there is no archive or no directory for it.
Refuse(d) ==
  /\ Goto(d, "checking", "failed")
  /\ \/ (~Host(d).enabled \/ ~Safe(ComposeWritten(d))) /\ UNCHANGED faults
     \/ Fault
  /\ UNCHANGED <<given, entry, treeVars, issued>>

\* The directory is made.  Only now is the format of the archive looked at:
\* what is no archive, or a zip without its end, unpacks nothing.
MakeDir(d) ==
  /\ Host(d).enabled /\ Safe(ComposeWritten(d))
  /\ Goto(d, "checking",
       CASE given[d].archive.format = "unknown" -> "failed"
         [] given[d].archive.format = "zip" /\ given[d].archive.ends # "whole" -> "failed"
         [] OTHER -> "unpacking")
  /\ UNCHANGED <<given, entry, treeVars, issued, faults>>

\* The kinds of entries that are stored as a file: from a zip, a link too.
StoredAsFile(d) == IF given[d].archive.format = "zip" THEN {"file", "link"} ELSE {"file"}

\* The entry can be stored: its path stays inside, its kind is known and
\* what has been unpacked before is not in its way.
Storable(d, e) ==
  LET path == Clean(e.path.segments) IN
  /\ Safe(e.path)
  /\ \/ e.kind = "dir" /\ CanMkdirAll(files[d], path)
     \/ e.kind \in StoredAsFile(d) /\ CanStore(files[d], dirs[d], path)

\* A slip: a file that is there already stays as it is.
KeepFirst(old, path, content) ==
  [p \in DOMAIN old \cup {path} |-> IF p \in DOMAIN old THEN old[p] ELSE content]

\* os.OpenFile creates the file or empties it, and it gets this content.
StoreFile(old, path, content) ==
  [p \in DOMAIN old \cup {path} |-> IF p = path THEN content ELSE old[p]]

UnpackEntry(d) ==
  /\ stage[d] = "unpacking"
  /\ entry[d] \in DOMAIN Entries(d)
  /\ LET e == Entries(d)[entry[d]]
         path == Clean(e.path.segments)
     IN
     /\ Storable(d, e)
     /\ dirs' = [dirs EXCEPT ![d] = @ \cup Ancestors(IF e.kind = "dir" THEN path ELSE Parent(path))]
     /\ files' = IF e.kind = "dir" THEN files
                 ELSE [files EXCEPT ![d] = StoreFile(@, path, e.content)]
  /\ entry' = [entry EXCEPT ![d] = @ + 1]
  /\ UNCHANGED <<given, stage, issued, faults>>

\* The rest of the archive is not looked at; what is unpacked stays (with a
\* part of this entry, perhaps, that nobody looks at any more).
UnpackFails(d) ==
  /\ entry[d] \in DOMAIN Entries(d)
  /\ Goto(d, "unpacking", "failed")
  /\ \/ ~Storable(d, Entries(d)[entry[d]]) /\ UNCHANGED faults
     \/ Fault
  /\ UNCHANGED <<given, entry, treeVars, issued>>

\* What follows the last entry is the end of the archive, or is taken for it:
\* tar.Reader.Next returns io.EOF also where a plain tar is cut between two
\* entries.  Cut within one it is an error, and so is any cut gzip stream.
EndsWell(archive) ==
  archive.ends = "whole" \/ (archive.ends = "between" /\ archive.format = "tar")

\* A tar shows only here that it was cut off, if it does.
UnpackEnds(d) ==
  /\ entry[d] \notin DOMAIN Entries(d)
  /\ Goto(d, "unpacking", IF EndsWell(given[d].archive) THEN "inspecting" ELSE "failed")
  /\ UNCHANGED <<given, entry, treeVars, issued, faults>>

-----------------------------------------------------------------------------
(* The compose file, docker, and the override of the runtime. *)

\* os.Stat finds a file, and not a directory, under the path.
Inspect(d) ==
  /\ Goto(d, "inspecting", IF ComposePath(d) \in DOMAIN files[d] THEN "probing" ELSE "failed")
  /\ UNCHANGED <<given, entry, treeVars, issued, faults>>

\* `test -f <path>`, which a shell in WSL splits at blanks.
VisibleInWSL(path) == Range(path) \cap Blank = {}

\* Docker knows the configured runtime, and WSL sees the compose file.
Prerequisites(d) ==
  /\ Host(d).runtime = None \/ Host(d).runtime \in Host(d).runtimes
  /\ ~Host(d).windows \/ VisibleInWSL(ComposePath(d))

Probe(d) ==
  /\ Prerequisites(d)
  /\ Goto(d, "probing", "overriding")
  /\ UNCHANGED <<given, entry, treeVars, issued, faults>>

\* wsl or docker is missing or does not answer, or a prerequisite is.
ProbeFails(d) ==
  /\ Goto(d, "probing", "failed")
  /\ \/ ~Prerequisites(d) /\ UNCHANGED faults
     \/ Fault
  /\ UNCHANGED <<given, entry, treeVars, issued>>

OverridePath == <<Override>>

\* listComposeServiceNames, of a file that parses.
ServiceNames(d) == files[d][ComposePath(d)].services

\* A slip: an empty list of services is overridden too.
AnyDocument(d) == files[d][ComposePath(d)].yaml

\* The compose file parses and has services to override.
CanOverride(d) == files[d][ComposePath(d)].yaml /\ ServiceNames(d) # {}

\* Without a configured runtime nothing is overridden; else a file that
\* gives it to every service is written, over whatever has that name.
PrepareComposeFiles(d) ==
  /\ Goto(d, "overriding", "starting")
  /\ IF Host(d).runtime = None
     THEN UNCHANGED files
     ELSE /\ CanOverride(d)
          /\ OverridePath \notin dirs[d]
          /\ files' = [files EXCEPT ![d] = StoreFile(@, OverridePath,
               [id |-> "override", yaml |-> TRUE, services |-> ServiceNames(d)])]
  /\ UNCHANGED <<given, entry, dirs, issued, faults>>

OverrideFails(d) ==
  /\ Host(d).runtime # None
  /\ Goto(d, "overriding", "failed")
  /\ \/ (~CanOverride(d) \/ OverridePath \in dirs[d]) /\ UNCHANGED faults
     \/ Fault
  /\ UNCHANGED <<given, entry, treeVars, issued>>

-----------------------------------------------------------------------------
(* Commands. *)

\* toWSLPath: the name a file has inside WSL.
ToWSL(path) == <<"/mnt">> \o path

Named(d, path) == IF Host(d).windows THEN ToWSL(path) ELSE path

\* A slip: the override is named as the host names it.
NamedByHost(d) ==
  <<Named(d, ComposePath(d))>> \o IF Host(d).runtime = None THEN <<>> ELSE <<OverridePath>>

\* dockerComposeFiles, as the command line names them.
ComposeFiles(d) ==
  <<Named(d, ComposePath(d))>>
    \o IF Host(d).runtime = None THEN <<>> ELSE <<Named(d, OverridePath)>>

\* `docker compose -p <project> -f <file> .. <action>`, through wsl on Windows;
\* only `up` gets the runtime as an environment variable too.
Command(d, action) ==
  [action |-> action, project |-> Project(d), files |-> ComposeFiles(d),
   wsl |-> Host(d).windows,
   runtime |-> IF action = "up" THEN Host(d).runtime ELSE None]

Issue(d, action) == issued' = [issued EXCEPT ![d] = Append(@, Command(d, action))]

\* `docker compose up` gets going, or fails to: the job runs.
StartJob(d) ==
  /\ Goto(d, "starting", "running")
  /\ Issue(d, "up")
  /\ UNCHANGED <<given, entry, treeVars, faults>>

PrepStep(d) ==
  \/ Refuse(d) \/ MakeDir(d) \/ UnpackEntry(d) \/ UnpackFails(d) \/ UnpackEnds(d)
  \/ Inspect(d) \/ Probe(d) \/ ProbeFails(d)
  \/ PrepareComposeFiles(d) \/ OverrideFails(d) \/ StartJob(d)

-----------------------------------------------------------------------------
(* Properties. *)

\* The path does not lead out of the directory it is taken relative to.
Inside(path) == path # <<>> /\ \A i \in DOMAIN path : path[i] \notin Idle \cup {".."}

\* A tree of files: each is in a directory, and none is one.
IsTree(fs, ds) ==
  /\ DOMAIN fs \cap ds = {}
  /\ \A p \in DOMAIN fs : Inside(p) /\ Ancestors(Parent(p)) \subseteq ds
  /\ \A p \in ds : Inside(p) /\ Ancestors(p) \subseteq ds

PrepTypeOK ==
  /\ \A d \in Deployment : given[d] \in Case[d]
  /\ \A d \in Deployment : entry[d] \in 1 .. Len(Entries(d)) + 1
  /\ \A d \in Deployment : IsTree(files[d], dirs[d])
  /\ \A d \in Deployment : issued[d] \in Seq({Command(d, a) : a \in {"up", "logs", "down"}})
  /\ faults \in 0 .. MaxFaults

\* The last entry of the archive that is stored under the path.
LastEntryAt(d, path) ==
  LET at == {i \in DOMAIN Entries(d) :
               Entries(d)[i].kind # "dir" /\ Clean(Entries(d)[i].path.segments) = path}
  IN IF at = {} THEN {} ELSE {Entries(d)[CHOOSE i \in at : \A j \in at : j <= i].content}

\* The files and directories an archive describes.
Described(d) == {Clean(Entries(d)[i].path.segments) : i \in DOMAIN Entries(d)}

\* From the end of the unpacking on, until docker gets it, a deployment's
\* directory holds every entry of the archive that was sent and nothing else:
\* each file as the last entry of that name has it (extractZipArchive,
\* extractTarArchive); but the runtime override replaces what has its name.
\* Of the archives that were cut off only a plain tar gets that far, and only
\* if it was cut between two entries.
UnpackedIsArchive ==
  \A d \in Deployment :
    stage[d] \in {"inspecting", "probing", "overriding", "starting", "running"} =>
      LET overridden == IF stage[d] \in {"starting", "running"} /\ Host(d).runtime # None
                        THEN {OverridePath} ELSE {}
      IN
      /\ given[d].archive.ends # "whole" =>
           given[d].archive.format = "tar" /\ given[d].archive.ends = "between"
      /\ DOMAIN files[d] \cup dirs[d] =
           overridden \cup UNION {Ancestors(p) : p \in Described(d)}
      /\ \A p \in DOMAIN files[d] \ overridden : LastEntryAt(d, p) = {files[d][p]}

\* Docker is started only on the compose file of the archive, so that a tar cut
\* off before it never gets there; if a runtime is configured docker has it,
\* and every service of that file, and no other, is overridden; and only a
\* compose file of the override's own name gets lost (prepareComposeFiles).
StartedReady ==
  \A d \in Deployment :
    stage[d] = "running" =>
      LET compose == LastEntryAt(d, ComposePath(d)) IN
      /\ compose # {}
      /\ IF Host(d).runtime = None
         THEN compose = {files[d][ComposePath(d)]}
         ELSE /\ Host(d).runtime \in Host(d).runtimes
              /\ ComposePath(d) # OverridePath => compose = {files[d][ComposePath(d)]}
              /\ \A c \in compose :
                   c.services # {} /\ files[d][OverridePath].services = c.services

\* From `up` until the clean-up, every file that a docker command of the
\* deployment names is there under that name, as seen from where docker runs,
\* whatever the job has written: the override too, which the host writes and
\* docker inside WSL reads (dockerComposeFiles).
CommandsFindFiles ==
  \A d \in Deployment : \A i \in DOMAIN issued[d] :
    stage[d] \in {"running", "ended", "answering"} =>
      LET command == issued[d][i]
      IN Range(command.files) \subseteq
           {IF command.wsl THEN ToWSL(p) ELSE p : p \in DOMAIN files[d]}
=============================================================================
