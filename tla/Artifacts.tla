----------------------------- MODULE Artifacts -----------------------------
(***************************************************************************)
(* The files of deployments after their preparation: what their jobs add   *)
(* to the deployment directories on the providers, what of it is collected *)
(* (collectArtifacts), the clean-up, and the files one renter keeps below  *)
(* artifacts/ (saveReturnedArtifacts) with the list of them in its log.    *)
(* Nothing is ever removed there, and all deployments that come back under *)
(* one project name share its directory.                                   *)
(***************************************************************************)
EXTENDS Preparation, FileData

CONSTANTS
  Output,       \* Output[d]: what the job of d may add: [files |-> .., dirs |-> ..]
  Length,       \* Length[d]: how many pieces each file of d has
  ReturnLimit   \* pieces a provider is willing to return

ASSUME ArtifactsAssumption ==
  /\ Length \in [Deployment -> Nat \ {0}]
  /\ ReturnLimit \in Nat
  /\ \A d \in Deployment : \A out \in Output[d] :
       /\ DOMAIN out = {"files", "dirs"}
       /\ out.files \cup out.dirs \subseteq Seq(STRING)
       /\ IsFiniteSet(out.files)

VARIABLES
  left,      \* left[d]: the files in the deployment directory when the job ended
  answer,    \* answer[d]: the files of its response, by path below the root
  pos,       \* pos[d]: the index of the file that is being saved
  disk,      \* disk[p]: what the renter's file p holds
  diskDirs,  \* the renter's directories
  listed     \* listed[d]: the artifacts in the log entry of d

providerVars == <<given, entry, treeVars, issued, left, answer>>
renterVars == <<pos, disk, diskDirs, listed>>
vars == <<prepVars, left, answer, renterVars>>

Saving == {"opening", "writing", "saved"}

TypeOK ==
  /\ PrepTypeOK
  /\ stage \in [Deployment -> PrepStage \cup Saving \cup
       {"running", "ended", "answering", "recorded", "failed", "blocked", "unsaved", "crashed"}]
  /\ \A d \in Deployment : {Root(d) \o f : f \in Range(answer[d])} \subseteq left[d]
  /\ \A d \in Deployment : stage[d] \in {"opening", "writing"} => pos[d] \in DOMAIN answer[d]
  /\ \A d \in Deployment : listed[d] \subseteq DOMAIN disk
  /\ IsTree(disk, diskDirs)

Init ==
  /\ PrepInit
  /\ left = [d \in Deployment |-> {}]
  /\ answer = [d \in Deployment |-> <<>>]
  /\ pos = [d \in Deployment |-> 1]
  /\ disk = <<>>
  /\ diskDirs = {}
  /\ listed = [d \in Deployment |-> {}]

-----------------------------------------------------------------------------
(* The provider. *)

\* The job has written its files into the directory and `up` returns; the
\* logs of its containers are asked for.
JobEnds(d) ==
  /\ Goto(d, "running", "ended")
  /\ \E out \in Output[d] :
       /\ files' = [files EXCEPT ![d] = [p \in DOMAIN @ \cup out.files |->
            IF p \in out.files THEN [id |-> "out", yaml |-> FALSE, services |-> {}] ELSE @[p]]]
       /\ dirs' = [dirs EXCEPT ![d] = @ \cup out.dirs]
  /\ IsTree(files'[d], dirs'[d])
  /\ left' = [left EXCEPT ![d] = DOMAIN files'[d]]
  /\ Issue(d, "logs")
  /\ UNCHANGED <<given, entry, faults, answer, renterVars>>

\* The files at or below a path under the root of the bundle, by what is
\* left of their paths there.
Below(d, path) ==
  {f \in {SubSeq(p, 2, Len(p)) : p \in {q \in DOMAIN files[d] : IsStrictPrefix(Root(d), q)}} :
     IsPrefix(path, f)}

\* os.Stat finds something at the path.
Exists(d, path) == Root(d) \o path \in DOMAIN files[d] \cup dirs[d]

\* A slip: the limit is compared with the files of one path only.
FitsByItself(d, sofar, more) == Cardinality(more) * Length[d] <= ReturnLimit

\* What has been read so far and these files are within the limit.  A file
\* that two of the paths lead to counts twice.
Fits(d, sofar, more) == (Len(sofar) + Cardinality(more)) * Length[d] <= ReturnLimit

\* One artifact path after the other: what has been collected so far, or
\* that collecting has failed.
CollectPath(d, sofar, path) ==
  LET clean == Clean(path.segments)
      more == Below(d, clean)
  IN IF sofar.ok /\ Safe(path) /\ Exists(d, clean) /\ Fits(d, sofar.files, more)
     THEN [ok |-> TRUE, files |-> sofar.files \o SetToSeq(more)]
     ELSE [ok |-> FALSE, files |-> <<>>]

CollectArtifacts(d) ==
  FoldLeft(LAMBDA sofar, path : CollectPath(d, sofar, path),
           [ok |-> TRUE, files |-> <<>>], given[d].artifacts)

\* The response is made and written.
Collect(d) ==
  /\ Goto(d, "ended", "answering")
  /\ answer' = [answer EXCEPT ![d] = CollectArtifacts(d).files]
  /\ UNCHANGED <<given, entry, treeVars, issued, faults, left, renterVars>>

\* `compose down`, and the directory is removed; the answer ends and reaches
\* the renter.  One without files has nothing to save.
CleanUp(d) ==
  /\ Goto(d, "answering", IF answer[d] = <<>> THEN "saved" ELSE "opening")
  /\ Issue(d, "down")
  /\ files' = [files EXCEPT ![d] = <<>>]
  /\ dirs' = [dirs EXCEPT ![d] = {}]
  /\ UNCHANGED <<given, entry, faults, left, answer, renterVars>>

-----------------------------------------------------------------------------
(* The renter. *)

\* Where a returned file is kept, and what an entry calls it.
KeptAs(d, f) == Join(<<Project(d)>>, f)

Target(d) == KeptAs(d, answer[d][pos[d]])

\* The directories are made, and os.WriteFile creates the file or empties
\* the one another deployment of the project has left there.
OpenArtifact(d) ==
  /\ stage[d] = "opening"
  /\ CanStore(disk, diskDirs, Target(d))
  /\ diskDirs' = diskDirs \cup Ancestors(Parent(Target(d)))
  /\ disk' = [p \in DOMAIN disk \cup {Target(d)} |-> IF p = Target(d) THEN {} ELSE disk[p]]
  /\ stage' = [stage EXCEPT ![d] = "writing"]
  /\ UNCHANGED <<providerVars, pos, listed, faults>>

\* A file is where a directory has to be, or the other way round (and then
\* every directory that could be made is there already).
Blocked(d) ==
  /\ stage[d] = "opening"
  /\ ~CanStore(disk, diskDirs, Target(d))
  /\ stage' = [stage EXCEPT ![d] = "blocked"]
  /\ UNCHANGED <<providerVars, renterVars, faults>>

WriteArtifact(d) ==
  /\ stage[d] = "writing"
  /\ disk' = [disk EXCEPT ![Target(d)] = WriteOver(@, d, Length[d])]
  /\ pos' = [pos EXCEPT ![d] = @ + 1]
  /\ stage' = [stage EXCEPT ![d] = IF pos[d] < Len(answer[d]) THEN "opening" ELSE "saved"]
  /\ UNCHANGED <<providerVars, diskDirs, listed, faults>>

\* Some of the file is written; those before it stay, the call fails.
WriteFails(d) ==
  /\ stage[d] = "writing"
  /\ \E n \in 0 .. Length[d] - 1 : disk' = [disk EXCEPT ![Target(d)] = WriteOver(@, d, n)]
  /\ stage' = [stage EXCEPT ![d] = "unsaved"]
  /\ Fault
  /\ UNCHANGED <<providerVars, pos, diskDirs, listed>>

\* A slip: the files are listed as the provider called them.
SavedAs(d) == Range(answer[d])

\* A slip: only the last file is listed.
SavedLast(d) == {KeptAs(d, Last(answer[d])) : i \in DOMAIN answer[d]}

\* The second result of the loop: the paths below artifacts/.
Saved(d) == {KeptAs(d, f) : f \in Range(answer[d])}

\* recordDeployResult lists what was saved.
Record(d) ==
  /\ stage[d] = "saved"
  /\ listed' = [listed EXCEPT ![d] = Saved(d)]
  /\ stage' = [stage EXCEPT ![d] = "recorded"]
  /\ UNCHANGED <<providerVars, pos, disk, diskDirs, faults>>

\* The renter stops and starts again: its log is empty, its files stay, and
\* nothing comes back any more of what was under way.
Crash ==
  /\ Fault
  /\ stage' = [d \in Deployment |->
       IF stage[d] \in {"checking", "recorded", "failed", "blocked", "unsaved"}
       THEN stage[d] ELSE "crashed"]
  /\ listed' = [d \in Deployment |-> {}]
  /\ UNCHANGED <<providerVars, pos, disk, diskDirs>>

Next ==
  \/ \E d \in Deployment :
       \/ PrepStep(d) /\ UNCHANGED <<left, answer, renterVars>>
       \/ JobEnds(d) \/ Collect(d) \/ CleanUp(d)
       \/ OpenArtifact(d) \/ Blocked(d) \/ WriteArtifact(d)
       \/ WriteFails(d) \/ Record(d)
  \/ Crash

Spec == Init /\ [][Next]_vars

-----------------------------------------------------------------------------
(* Properties. *)

\* What the user of d wanted back: the files at or below the paths asked for.
WantedBack(d) ==
  {f \in {SubSeq(p, 2, Len(p)) : p \in {q \in left[d] : Head(q) = Root(d)[1]}} :
     \E i \in DOMAIN given[d].artifacts : IsPrefix(Clean(given[d].artifacts[i].segments), f)}

\* d may have opened its file p, now or before.
Touched(d, p) ==
  \E i \in DOMAIN answer[d] :
    KeptAs(d, answer[d][i]) = p /\ (i < pos[d] \/ (i = pos[d] /\ stage[d] \notin {"opening", "blocked"}))

\* d has the file p open a second time, since its answer holds it twice, or
\* had when its saving broke off.
Rewriting(d, p) ==
  stage[d] \in {"writing", "unsaved", "crashed"} /\ pos[d] \in DOMAIN answer[d] /\ Target(d) = p

\* The log entry of a deployment lists what its job left at the paths asked
\* for, no more and no less; and whether it is listed, or its saving goes on,
\* broke off or was cut short by a restart: each file before the one it has
\* come to holds all that was returned, unless another deployment of the
\* project has opened it too (saveReturnedArtifacts overwrites what it finds).
EntryListsItsFiles ==
  \A d \in Deployment :
    /\ listed[d] # {} => listed[d] = {KeptAs(d, f) : f \in WantedBack(d)}
    /\ \A i \in DOMAIN answer[d] :
         i < pos[d] =>
           LET p == KeptAs(d, answer[d][i]) IN
           \/ disk[p] = Pieces(d, Length[d])
           \/ Rewriting(d, p)
           \/ \E e \in Deployment \ {d} : Touched(e, p)

\* A file below artifacts/ that no entry lists belongs to a deployment whose
\* saving goes on or broke off, or whose entry a restart has taken away; and
\* whatever mixture overlapping deployments make of a file, each piece of it
\* is from one that was to save its own file there.
OrphansExplained ==
  \A p \in DOMAIN disk :
    /\ \E d \in Deployment :
         /\ Touched(d, p)
         /\ \/ p \in listed[d]
            \/ stage[d] # "recorded"
            \/ listed[d] = {} /\ faults > 0
    /\ \A piece \in disk[p] : piece[2] \in Deployment /\ Touched(piece[2], p)

\* Saving breaks off without anything going wrong only because another
\* deployment of the project has a directory where this one has a file, or
\* the other way round; and then it does so again with every new attempt.
OnlyOthersBlock ==
  \A d \in Deployment :
    stage[d] = "blocked" =>
      \E e \in Deployment \ {d} : \E f \in Range(answer[e]) :
        \/ IsStrictPrefix(KeptAs(e, f), Target(d))
        \/ IsStrictPrefix(Target(d), KeptAs(e, f))

\* A provider returns nothing, or all that was asked for and no more than
\* the limit (collectArtifacts).
AllOrNothingReturned ==
  \A d \in Deployment :
    answer[d] # <<>> =>
      Range(answer[d]) = WantedBack(d) /\ Len(answer[d]) * Length[d] <= ReturnLimit
=============================================================================
