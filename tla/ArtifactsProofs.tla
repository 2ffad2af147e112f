--------------------------- MODULE ArtifactsProofs ---------------------------
(***************************************************************************)
(* What Artifacts says of the files of deployments holds for every set of  *)
(* deployments, every archive, every set of paths asked for, whatever jobs *)
(* leave and however large the answers may be.                             *)
(*                                                                         *)
(* The invariant says, of a deployment directory, that it is a tree and    *)
(* what the archive's entries so far have made of it; of an answer, that   *)
(* it is what the job has left at the paths asked for; and of the renter's *)
(* files, which deployments may have opened them: a file that only one     *)
(* has opened is empty or holds what that one's provider has returned.     *)
(*                                                                         *)
(* filepath.Clean and collectArtifacts are loops.  FoldProofs makes        *)
(* sequences g[0], g[1], .. of their turns (CleanSteps, CollectSteps), and *)
(* what they compute is shown turn by turn (CleanCleans,                   *)
(* CollectsAllOrNothing).                                                  *)
(***************************************************************************)
EXTENDS Artifacts, FoldProofs

-----------------------------------------------------------------------------
(* Paths. *)

\* ".." is not passed over.
LEMMA UpIsNotIdle == ".." \notin Idle
BY Zenon DEF Idle

\* A segment followed from a path leads to a path.
LEMMA FollowType ==
  ASSUME NEW done \in Seq(STRING), NEW segment \in STRING
  PROVE  Follow(done, segment) \in Seq(STRING)
<1>1. CASE segment \in Idle
  BY <1>1, UpIsNotIdle DEF Follow
<1>2. CASE segment \notin Idle /\ segment = ".." /\ done # <<>> /\ Last(done) # ".."
  <2>1. Follow(done, segment) = Front(done)
    BY <1>2 DEF Follow
  <2>2. Front(done) \in Seq(STRING)
    BY <1>2 DEF Front
  <2> QED
    BY <2>1, <2>2
<1>3. CASE segment \notin Idle /\ ~(segment = ".." /\ done # <<>> /\ Last(done) # "..")
  <2>1. Follow(done, segment) = Append(done, segment)
    BY <1>3 DEF Follow
  <2>2. Append(done, segment) \in Seq(STRING)
    BY AppendProperties
  <2> QED
    BY <2>1, <2>2
<1> QED
  BY <1>1, <1>2, <1>3

\* filepath.Clean goes through a path segment by segment.
LEMMA CleanSteps ==
  ASSUME NEW segments \in Seq(STRING)
  PROVE  \E g : /\ g[0] = <<>>
                /\ \A k \in 0 .. Len(segments) - 1 : g[k + 1] = Follow(g[k], segments[k + 1])
                /\ Clean(segments) = g[Len(segments)]
<1> DEFINE n == Len(segments)
           F == [x \in (1 .. n) \X Seq(STRING) |-> Follow(x[2], segments[x[1]])]
           Iter(i) == i = [s \in SUBSET DOMAIN segments |->
             IF s = {} THEN <<>> ELSE Follow(i[s \ {Max(s)}], segments[Max(s)])]
           iter == CHOOSE i : Iter(i)
<1>1. n \in Nat /\ DOMAIN segments = 1 .. n
  OBVIOUS
<1>2. F \in [(1 .. n) \X Seq(STRING) -> Seq(STRING)]
  <2>1. ASSUME NEW x \in (1 .. n) \X Seq(STRING) PROVE Follow(x[2], segments[x[1]]) \in Seq(STRING)
    <3>1. x[2] \in Seq(STRING) /\ x[1] \in 1 .. Len(segments)
      BY <2>1
    <3>2. segments[x[1]] \in STRING
      BY <3>1, ElementOfSeq
    <3> QED
      BY <3>1, <3>2, FollowType
  <2> QED
    BY <2>1
<1>3. PICK h \in [SUBSET (1 .. n) -> Seq(STRING)] : Folds(h, n, <<>>, F)
  <2>1. <<>> \in Seq(STRING)
    OBVIOUS
  <2> HIDE DEF F, n
  <2> QED
    BY <1>1, <1>2, <2>1, FoldExists
<1>4. Iter(h)
  <2>1. ASSUME NEW s \in SUBSET (1 .. n)
        PROVE  h[s] = IF s = {} THEN <<>> ELSE Follow(h[s \ {Max(s)}], segments[Max(s)])
    <3>1. CASE s # {}
      <4>1. Max(s) \in 1 .. n /\ h[s \ {Max(s)}] \in Seq(STRING)
        BY <1>1, <3>1, MaxOfIndices
      <4> QED
        BY <1>3, <3>1, <4>1 DEF Folds
    <3> QED
      BY <1>3, <3>1 DEF Folds
  <2> QED
    BY <1>1, <2>1
<1>5. Iter(iter)
  <2> HIDE DEF Iter
  <2> QED
    BY <1>4
<1>6. Clean(segments) = iter[1 .. n]
  BY <1>1 DEF Clean, FoldLeft, MapThenFoldSet
<1> DEFINE g == [k \in 0 .. n |-> iter[1 .. k]]
<1>7. \A s \in SUBSET (1 .. n) :
        iter[s] = IF s = {} THEN <<>> ELSE Follow(iter[s \ {Max(s)}], segments[Max(s)])
  <2> HIDE DEF iter, n
  <2> QED
    BY <1>1, <1>5
<1> HIDE DEF iter, Iter, F, n
<1>8. g[0] = <<>> /\ g[n] = iter[1 .. n]
  <2>1. 1 .. 0 = {} /\ {} \in SUBSET (1 .. n)
    OBVIOUS
  <2>2. g[0] = iter[1 .. 0] /\ g[n] = iter[1 .. n]
    BY <1>1
  <2>3. iter[{}] = <<>>
    BY <1>7, <2>1
  <2> QED
    BY <2>1, <2>2, <2>3
<1>9. ASSUME NEW k \in 0 .. n - 1 PROVE g[k + 1] = Follow(g[k], segments[k + 1])
  <2>1. Max(1 .. k + 1) = k + 1 /\ (1 .. k + 1) \ {Max(1 .. k + 1)} = 1 .. k
    BY <1>1, IntervalMax, k \in Nat
  <2>2. 1 .. k + 1 \in SUBSET (1 .. n) /\ 1 .. k + 1 # {}
    <3>1. k + 1 \in 1 .. n /\ \A i \in 1 .. k + 1 : i \in 1 .. n
      BY <1>1
    <3>2. k + 1 \in 1 .. k + 1
      BY <1>1
    <3> QED
      BY <3>1, <3>2
  <2>3. g[k + 1] = iter[1 .. k + 1] /\ g[k] = iter[1 .. k]
    BY <1>1
  <2> QED
    BY <1>7, <2>1, <2>2, <2>3
<1> HIDE DEF g
<1> QED
  BY <1>6, <1>8, <1>9 DEF n

\* What is left of a path: no segment is empty or ".", and ".." comes only
\* at its start.
Cleaned(path) ==
  /\ path \in Seq(STRING)
  /\ \A i \in 1 .. Len(path) :
       /\ path[i] \notin Idle
       /\ path[i] = ".." => \A j \in 1 .. i : path[j] = ".."

\* Following one more segment keeps a path cleaned.
LEMMA FollowCleans ==
  ASSUME NEW done, Cleaned(done), NEW segment \in STRING
  PROVE  Cleaned(Follow(done, segment))
<1>1. CASE segment \in Idle
  BY <1>1, UpIsNotIdle DEF Follow
<1>2. CASE segment \notin Idle /\ segment = ".." /\ done # <<>> /\ Last(done) # ".."
  <2>1. Follow(done, segment) = Front(done)
    BY <1>2 DEF Follow
  <2>2. /\ Front(done) \in Seq(STRING)
        /\ Len(Front(done)) = Len(done) - 1
        /\ \A i \in 1 .. Len(done) - 1 : Front(done)[i] = done[i]
    <3>1. Front(done) = SubSeq(done, 1, Len(done) - 1) /\ Len(done) \in Nat \ {0}
      BY <1>2, EmptySeq DEF Front, Cleaned
    <3> DEFINE m == Len(done) - 1
    <3>2. \A i \in 1 .. m : done[i] \in STRING
      BY <3>1 DEF Cleaned
    <3>3. /\ SubSeq(done, 1, m) \in Seq(STRING)
          /\ Len(SubSeq(done, 1, m)) = IF 1 <= m THEN m - 1 + 1 ELSE 0
          /\ \A i \in 1 .. m - 1 + 1 : SubSeq(done, 1, m)[i] = done[1 + i - 1]
      <4>1. m \in Int /\ 1 \in Int
        BY <3>1
      <4> HIDE DEF m
      <4> QED
        BY <3>2, <4>1, SubSeqProperties
    <3>4. m \in Nat /\ m - 1 + 1 = m /\ \A i \in 1 .. m : 1 + i - 1 = i
      BY <3>1
    <3> HIDE DEF m
    <3>5. Len(Front(done)) = m /\ \A i \in 1 .. m : Front(done)[i] = done[i]
      BY <3>1, <3>3, <3>4 DEF m
    <3> QED
      BY <3>1, <3>3, <3>5 DEF m
  <2> QED
    BY <2>1, <2>2 DEF Cleaned
<1>3. CASE segment \notin Idle /\ ~(segment = ".." /\ done # <<>> /\ Last(done) # "..")
  <2>1. Follow(done, segment) = Append(done, segment)
    BY <1>3 DEF Follow
  <2>2. /\ Append(done, segment) \in Seq(STRING)
        /\ Len(Append(done, segment)) = Len(done) + 1
        /\ \A i \in 1 .. Len(done) : Append(done, segment)[i] = done[i]
        /\ Append(done, segment)[Len(done) + 1] = segment
    BY AppendProperties DEF Cleaned
  <2>3. done = <<>> <=> Len(done) = 0
    BY EmptySeq DEF Cleaned
  <2>4. segment = ".." => \A j \in 1 .. Len(done) : done[j] = ".."
    BY <1>3, <2>3, UpIsNotIdle DEF Cleaned, Last
  <2>5. Len(done) \in Nat
    BY DEF Cleaned
  <2>6. ASSUME NEW i \in 1 .. Len(done) + 1
        PROVE  /\ Append(done, segment)[i] \notin Idle
               /\ Append(done, segment)[i] = ".." =>
                    \A j \in 1 .. i : Append(done, segment)[j] = ".."
    <3>1. CASE i \in 1 .. Len(done)
      BY <2>2, <2>5, <3>1 DEF Cleaned
    <3>2. CASE i = Len(done) + 1
      BY <1>3, <2>2, <2>4, <2>5, <3>2
    <3> QED
      BY <2>5, <3>1, <3>2
  <2> QED
    BY <2>1, <2>2, <2>6 DEF Cleaned
<1> QED
  BY <1>1, <1>2, <1>3

\* Whatever is written, what Clean makes of it is cleaned.
LEMMA CleanCleans ==
  ASSUME NEW segments \in Seq(STRING)
  PROVE  Cleaned(Clean(segments))
<1>1. PICK g : /\ g[0] = <<>>
               /\ \A k \in 0 .. Len(segments) - 1 : g[k + 1] = Follow(g[k], segments[k + 1])
               /\ Clean(segments) = g[Len(segments)]
  BY CleanSteps
<1> DEFINE n == Len(segments)
           T == {k \in 0 .. n : Cleaned(g[k])}
<1>2. n \in Nat
  OBVIOUS
<1>3. Cleaned(g[0])
  BY <1>1 DEF Cleaned
<1>4. ASSUME NEW k \in 0 .. n - 1, Cleaned(g[k]) PROVE Cleaned(g[k + 1])
  <2>1. segments[k + 1] \in STRING
    OBVIOUS
  <2> QED
    BY <1>1, <1>4, <2>1, FollowCleans
<1>5. Cleaned(g[n])
  <2> HIDE DEF n
  <2>1. 0 \in T /\ \A k \in 0 .. n - 1 : k \in T => k + 1 \in T
    BY <1>2, <1>3, <1>4
  <2>2. 0 .. n \subseteq T
    <3> HIDE DEF T
    <3> QED
      BY <1>2, <2>1, IntervalInduction
  <2> QED
    BY <1>2, <2>2
<1> QED
  BY <1>1, <1>5

\* Whatever segments a path has: one that safeRelativePath or safeArchivePath
\* lets pass is, once cleaned, a path below the directory it is joined to.
THEOREM SafeStaysInside ==
  ASSUME NEW path \in Written, Safe(path)
  PROVE  Clean(path.segments) \in Seq(STRING) /\ Inside(Clean(path.segments))
<1> DEFINE clean == Clean(path.segments)
<1>1. Cleaned(clean)
  BY CleanCleans DEF Written
<1>2. clean # <<>> /\ clean[1] # ".."
  BY <1>1 DEF Safe, Outside, Cleaned
<1> QED
  BY <1>1, <1>2 DEF Cleaned, Inside

\* A path that is clean already stays as it is.
LEMMA CleanIsIdle ==
  ASSUME NEW path \in Seq(STRING), Inside(path)
  PROVE  Clean(path) = path
<1>1. PICK g : /\ g[0] = <<>>
               /\ \A k \in 0 .. Len(path) - 1 : g[k + 1] = Follow(g[k], path[k + 1])
               /\ Clean(path) = g[Len(path)]
  BY CleanSteps
<1> DEFINE n == Len(path)
           T == {k \in 0 .. n : g[k] = SubSeq(path, 1, k)}
<1>2. n \in Nat /\ DOMAIN path = 1 .. n
  OBVIOUS
<1>3. g[0] = SubSeq(path, 1, 0)
  BY <1>1, SubSeqEmpty
<1>4. ASSUME NEW k \in 0 .. n - 1, g[k] = SubSeq(path, 1, k)
      PROVE  g[k + 1] = SubSeq(path, 1, k + 1)
  <2>1. path[k + 1] \in STRING \ (Idle \cup {".."})
    BY <1>2 DEF Inside
  <2>2. Follow(g[k], path[k + 1]) = Append(g[k], path[k + 1])
    BY <2>1 DEF Follow
  <2>3. Append(SubSeq(path, 1, k), path[k + 1]) = SubSeq(path, 1, k + 1)
    <3>1. SubSeq(path, 1, k) \in Seq(STRING)
      BY <1>2
    <3>2. Append(SubSeq(path, 1, k), path[k + 1]) = SubSeq(path, 1, k) \o <<path[k + 1]>>
      BY <2>1, <3>1, AppendIsConcat
    <3>3. SubSeq(path, 1, k + 1) = SubSeq(path, 1, k + 1 - 1) \o <<path[k + 1]>>
      BY <1>2, SubSeqRecursiveSecond, 1 \in 1 .. Len(path), k + 1 \in 1 .. Len(path)
    <3> QED
      BY <1>2, <3>2, <3>3
  <2> QED
    BY <1>1, <1>4, <2>2, <2>3
<1>5. g[n] = SubSeq(path, 1, n)
  <2> HIDE DEF n
  <2>1. 0 \in T /\ \A k \in 0 .. n - 1 : k \in T => k + 1 \in T
    BY <1>2, <1>3, <1>4
  <2>2. 0 .. n \subseteq T
    <3> HIDE DEF T
    <3> QED
      BY <1>2, <2>1, IntervalInduction
  <2> QED
    BY <1>2, <2>2
<1> QED
  BY <1>1, <1>5, SubSeqFull

\* The directories on the way to a path are its beginnings.
LEMMA AncestorIsBeginning ==
  ASSUME NEW p \in Seq(STRING), NEW a
  PROVE  a \in Ancestors(p) <=>
           a \in Seq(STRING) /\ Len(a) \in 1 .. Len(p) /\ a = SubSeq(p, 1, Len(a))
<1>1. ASSUME NEW n \in 1 .. Len(p)
      PROVE  SubSeq(p, 1, n) \in Seq(STRING) /\ Len(SubSeq(p, 1, n)) = n
  <2>1. n \in 0 .. Len(p)
    OBVIOUS
  <2> QED
    BY <2>1, Beginning
<1> QED
  BY <1>1 DEF Ancestors

\* On the way to a directory on the way are only directories on the way.
LEMMA AncestorsNest ==
  ASSUME NEW p \in Seq(STRING), NEW a \in Ancestors(p)
  PROVE  a \in Seq(STRING) /\ a # <<>> /\ Ancestors(a) \subseteq Ancestors(p)
<1>1. a \in Seq(STRING) /\ Len(a) \in 1 .. Len(p) /\ a = SubSeq(p, 1, Len(a))
  BY AncestorIsBeginning
<1>2. ASSUME NEW n \in 1 .. Len(a) PROVE SubSeq(a, 1, n) = SubSeq(p, 1, n) /\ n \in 1 .. Len(p)
  <2>1. Len(a) \in 0 .. Len(p) /\ n \in 0 .. Len(a) /\ n \in 1 .. Len(p)
    BY <1>1
  <2>2. SubSeq(SubSeq(p, 1, Len(a)), 1, n) = SubSeq(p, 1, n)
    BY <2>1, BeginningOfBeginning
  <2> QED
    BY <1>1, <2>1, <2>2
<1>3. a # <<>>
  BY <1>1, EmptySeq
<1> QED
  BY <1>1, <1>2, <1>3 DEF Ancestors

\* On the way to a path are its parent, what is on the way to that, and itself.
LEMMA ParentBelow ==
  ASSUME NEW p \in Seq(STRING), p # <<>>
  PROVE  /\ Parent(p) \in Seq(STRING)
         /\ Ancestors(p) = Ancestors(Parent(p)) \cup {p}
         /\ p \notin Ancestors(Parent(p))
<1> DEFINE n == Len(p)
           up == SubSeq(p, 1, n - 1)
<1>1. n \in Nat \ {0} /\ n - 1 \in 0 .. n
  BY EmptySeq
<1>2. Parent(p) = up
  BY DEF Parent, Front
<1>3. up \in Seq(STRING) /\ Len(up) = n - 1
  BY <1>1, Beginning
<1>4. \A m \in 1 .. n - 1 : SubSeq(up, 1, m) = SubSeq(p, 1, m)
  <2>1. \A m \in 1 .. n - 1 : m \in 0 .. n - 1
    OBVIOUS
  <2> QED
    BY <1>1, <2>1, BeginningOfBeginning
<1>5. Ancestors(up) = {SubSeq(p, 1, m) : m \in 1 .. n - 1}
  BY <1>3, <1>4 DEF Ancestors
<1>6. 1 .. n = 1 .. n - 1 \cup {n}
  BY <1>1
<1>7. SubSeq(p, 1, n) = p
  BY SubSeqFull
<1>8. Ancestors(p) = {SubSeq(p, 1, m) : m \in 1 .. n - 1} \cup {p}
  BY <1>6, <1>7 DEF Ancestors
<1>9. p \notin Ancestors(up)
  <2> SUFFICES ASSUME p \in Ancestors(up) PROVE FALSE
    OBVIOUS
  <2>1. Len(p) \in 1 .. Len(up)
    BY <1>3, AncestorIsBeginning
  <2> QED
    BY <1>1, <1>3, <2>1
<1> QED
  BY <1>2, <1>3, <1>5, <1>8, <1>9

\* If a path stays inside, so does every directory on its way.
LEMMA AncestorsInside ==
  ASSUME NEW p \in Seq(STRING), Inside(p), NEW a \in Ancestors(p)
  PROVE  Inside(a)
<1>1. a \in Seq(STRING) /\ Len(a) \in 1 .. Len(p) /\ a = SubSeq(p, 1, Len(a)) /\ a # <<>>
  BY AncestorIsBeginning, AncestorsNest
<1>2. Len(a) \in 0 .. Len(p)
  BY <1>1
<1>3. \A i \in 1 .. Len(a) : a[i] = p[i] /\ i \in 1 .. Len(p)
  BY <1>1, <1>2, Beginning
<1> QED
  BY <1>1, <1>3 DEF Inside

\* os.MkdirAll, if it works, leaves a tree.
LEMMA MkdirKeepsTree ==
  ASSUME NEW fs, NEW ds, IsTree(fs, ds), ds \subseteq Seq(STRING),
         NEW path \in Seq(STRING), Inside(path), CanMkdirAll(fs, path)
  PROVE  IsTree(fs, ds \cup Ancestors(path))
<1>1. ASSUME NEW a \in Ancestors(path)
      PROVE  a \notin DOMAIN fs /\ Inside(a) /\ Ancestors(a) \subseteq Ancestors(path)
  BY AncestorsNest, AncestorsInside DEF CanMkdirAll
<1> QED
  BY <1>1 DEF IsTree

\* And so does a file that is stored.
LEMMA StoreKeepsTree ==
  ASSUME NEW fs, NEW ds, IsTree(fs, ds), ds \subseteq Seq(STRING), NEW gs,
         NEW path \in Seq(STRING), Inside(path), CanStore(fs, ds, path),
         DOMAIN gs = DOMAIN fs \cup {path}
  PROVE  IsTree(gs, ds \cup Ancestors(Parent(path)))
<1>1. path # <<>>
  BY DEF Inside
<1>2. /\ Parent(path) \in Seq(STRING)
      /\ Ancestors(path) = Ancestors(Parent(path)) \cup {path}
      /\ path \notin Ancestors(Parent(path))
  BY <1>1, ParentBelow
<1>3. ASSUME NEW a \in Ancestors(Parent(path))
      PROVE  a \notin DOMAIN gs /\ Inside(a) /\ Ancestors(a) \subseteq Ancestors(Parent(path))
  <2>1. Inside(a) /\ Ancestors(a) \subseteq Ancestors(Parent(path))
    BY <1>2, AncestorsNest, AncestorsInside
  <2>2. a \notin DOMAIN fs
    BY DEF CanStore, CanMkdirAll
  <2> QED
    BY <1>2, <2>1, <2>2
<1>4. path \notin ds
  BY DEF CanStore
<1> QED
  BY <1>2, <1>3, <1>4 DEF IsTree

-----------------------------------------------------------------------------
(* The invariant. *)

\* From the end of the unpacking until docker has the directory.
Preparing == {"inspecting", "probing", "overriding", "starting", "running"}

\* The domains of the variables.
Shaped ==
  /\ stage \in [Deployment -> PrepStage \cup Saving \cup
       {"running", "ended", "answering", "recorded", "failed", "blocked", "unsaved", "crashed"}]
  /\ DOMAIN given = Deployment /\ DOMAIN entry = Deployment
  /\ DOMAIN files = Deployment /\ DOMAIN dirs = Deployment
  /\ DOMAIN issued = Deployment /\ DOMAIN left = Deployment
  /\ DOMAIN answer = Deployment /\ pos \in [Deployment -> Nat] /\ DOMAIN listed = Deployment

\* The entries among the first n that put a file at the path.
Stores(d, n, path) ==
  {i \in 1 .. n : Entries(d)[i].kind # "dir" /\ Clean(Entries(d)[i].path.segments) = path}

\* The files and directories that the first n entries describe.
PathsOf(d, n) == UNION {Ancestors(Clean(Entries(d)[i].path.segments)) : i \in 1 .. n}

\* The file has what the last of the first n entries of its path gave it.
HasLast(d, n, path) ==
  \E i \in Stores(d, n, path) :
    /\ \A j \in Stores(d, n, path) : j <= i
    /\ files[d][path] = Entries(d)[i].content

\* What the override has replaced.
Replaced(d) ==
  IF stage[d] \in {"starting", "running"} /\ Host(d).runtime # None THEN {OverridePath} ELSE {}

\* The directory is what the first n entries have made, and nothing else.
Unpacked(d, n) ==
  /\ DOMAIN files[d] \cup dirs[d] = Replaced(d) \cup PathsOf(d, n)
  /\ \A p \in DOMAIN files[d] \ Replaced(d) : HasLast(d, n, p)

\* Before docker: the directory is what the entries so far have made.
Unpacking(d) ==
  /\ stage[d] = "checking" => entry[d] = 1 /\ files[d] = <<>> /\ dirs[d] = {}
  /\ stage[d] = "unpacking" => Unpacked(d, entry[d] - 1)
  /\ stage[d] \in Preparing => EndsWell(given[d].archive) /\ Unpacked(d, Len(Entries(d)))

\* What the checks have found stays so.
Prepared(d) ==
  /\ stage[d] \in {"probing", "overriding", "starting", "running"} =>
       LastEntryAt(d, ComposePath(d)) # {}
  /\ stage[d] \in {"probing", "overriding", "starting", "running", "ended", "answering"} =>
       ComposePath(d) \in DOMAIN files[d]
  /\ stage[d] \in {"overriding", "starting", "running"} => Prerequisites(d)
  /\ stage[d] \in {"starting", "running", "ended", "answering"} /\ Host(d).runtime # None =>
       OverridePath \in DOMAIN files[d]
  /\ stage[d] \in {"starting", "running"} /\ Host(d).runtime # None =>
       \A c \in LastEntryAt(d, ComposePath(d)) :
         c.services # {} /\ files[d][OverridePath].services = c.services

\* The directory of a deployment, and the commands run there.
ProviderTree(d) ==
  /\ given[d] \in Case[d]
  /\ entry[d] \in 1 .. Len(Entries(d)) + 1
  /\ IsTree(files[d], dirs[d])
  /\ DOMAIN files[d] \cup dirs[d] \subseteq Seq(STRING)
  /\ IsFiniteSet(DOMAIN files[d])
  /\ issued[d] \in Seq({Command(d, a) : a \in {"up", "logs", "down"}})

\* The answer is all that was asked for, from the files the job left.
Collected(d) ==
  /\ stage[d] = "ended" => left[d] = DOMAIN files[d]
  /\ \A p \in left[d] : p \in Seq(STRING) /\ Inside(p)
  /\ \A p, q \in left[d] : q \notin Ancestors(Parent(p))
  /\ stage[d] \in PrepStage \cup {"running", "ended"} => answer[d] = <<>>
  /\ answer[d] \in Seq(Seq(STRING))
  /\ answer[d] # <<>> =>
       Range(answer[d]) = WantedBack(d) /\ Len(answer[d]) * Length[d] <= ReturnLimit
  /\ \A i \in DOMAIN answer[d] : answer[d][i] # <<>> /\ Root(d) \o answer[d][i] \in left[d]

\* Where the file i of the answer goes.
Kept(d, i) == KeptAs(d, answer[d][i])

\* d may have opened its file i.
Opened(d, i) ==
  i < pos[d] \/ (i = pos[d] /\ stage[d] \in {"writing", "unsaved", "crashed"})

\* No other deployment has.
Alone(d, i) ==
  \A e \in Deployment \ {d} : \A j \in DOMAIN answer[e] : Opened(e, j) => Kept(e, j) # Kept(d, i)

\* Where d is in the list of files it saves.
Turn(d) ==
  /\ stage[d] \in PrepStage \cup {"running", "ended", "answering"} => pos[d] = 1
  /\ stage[d] \in {"opening", "writing", "blocked"} => pos[d] \in DOMAIN answer[d]
  /\ stage[d] \in {"saved", "recorded"} => \A i \in DOMAIN answer[d] : i < pos[d]

\* The file i is being written again, or was when the saving broke off.
Current(d, i) ==
  stage[d] \in {"writing", "unsaved", "crashed"} /\ \E k \in DOMAIN answer[d] : k = pos[d] /\ Kept(d, i) = Kept(d, k)

\* What d has saved is on disk, unless another deployment wrote it too.
Stored(d) ==
  \A i \in DOMAIN answer[d] :
    /\ i < pos[d] => Kept(d, i) \in DOMAIN disk
    /\ stage[d] = "writing" /\ i = pos[d] =>
         Kept(d, i) \in DOMAIN disk /\ (Alone(d, i) => disk[Kept(d, i)] = {})
    /\ i < pos[d] /\ Alone(d, i) /\ ~Current(d, i) => disk[Kept(d, i)] = Pieces(d, Length[d])

\* What the entry lists is what was saved.
Lists(d) ==
  /\ listed[d] # {} => stage[d] = "recorded" /\ listed[d] = Saved(d)
  /\ stage[d] = "recorded" /\ faults = 0 => listed[d] = Saved(d)

\* A file that cannot be saved meets one of another deployment.
BlockedByOthers(d) ==
  stage[d] = "blocked" =>
    \A i \in DOMAIN answer[d] : i = pos[d] =>
      \E e \in Deployment \ {d} : \E j \in DOMAIN answer[e] :
        IsStrictPrefix(Kept(e, j), Kept(d, i)) \/ IsStrictPrefix(Kept(d, i), Kept(e, j))

\* Saving, as far as one deployment goes.
SavingOf(d) == Turn(d) /\ Stored(d) /\ Lists(d) /\ BlockedByOthers(d)

\* A piece of the file is from a deployment that has opened it.
FromOpener(piece, p) ==
  piece[2] \in Deployment /\
    \E i \in DOMAIN answer[piece[2]] : Opened(piece[2], i) /\ Kept(piece[2], i) = p

\* All that is in artifacts/ comes from some deployment.
DiskInv ==
  /\ IsTree(disk, diskDirs)
  /\ DOMAIN disk \cup diskDirs \subseteq Seq(STRING)
  /\ \A p \in DOMAIN disk :
       \E d \in Deployment : \E i \in DOMAIN answer[d] : Opened(d, i) /\ Kept(d, i) = p
  /\ \A p \in DOMAIN disk : \A piece \in disk[p] : FromOpener(piece, p)
  /\ \A q \in diskDirs : \E p \in DOMAIN disk : q \in Ancestors(Parent(p))

\* The inductive invariant.
IInv ==
  /\ Shaped
  /\ faults \in 0 .. MaxFaults
  /\ \A d \in Deployment : ProviderTree(d) /\ Unpacking(d) /\ Prepared(d) /\ Collected(d) /\ SavingOf(d)
  /\ DiskInv

Entry == [kind : {"dir", "file", "link"}, path : Written, content : Content]

\* What may be given is typed.
LEMMA CaseTypes ==
  ASSUME NEW d \in Deployment, given[d] \in Case[d]
  PROVE  /\ Entries(d) \in Seq(Entry)
         /\ Root(d) \in Seq(STRING)
         /\ given[d].artifacts \in Seq(Written)
<1>1. given[d].archive \in Archive /\ given[d].artifacts \in Seq(Written)
  BY PreparationAssumption
<1>2. given[d].archive.entries \in Seq(Entry) /\ given[d].archive.root \in STRING
  BY <1>1 DEF Archive, Entry
<1> QED
  BY <1>1, <1>2 DEF Entries, Root

\* Every entry of an archive is.
LEMMA EntryTypes ==
  ASSUME NEW d \in Deployment, given[d] \in Case[d], NEW i \in 1 .. Len(Entries(d))
  PROVE  /\ Entries(d)[i].kind \in {"dir", "file", "link"}
         /\ Entries(d)[i].path \in Written
         /\ Entries(d)[i].path.segments \in Seq(STRING)
<1>1. Entries(d)[i] \in Entry
  BY CaseTypes, ElementOfSeq
<1> QED
  BY <1>1 DEF Entry, Written

\* What follows from what was given stays as it is with it.
LEMMA GivenForGood ==
  ASSUME UNCHANGED given, NEW d \in Deployment
  PROVE  /\ Entries(d)' = Entries(d) /\ Host(d)' = Host(d) /\ Root(d)' = Root(d)
         /\ Project(d)' = Project(d)
         /\ ComposePath(d)' = ComposePath(d)
         /\ Prerequisites(d)' = Prerequisites(d)
         /\ ComposeFiles(d)' = ComposeFiles(d)
         /\ \A a : Command(d, a)' = Command(d, a)
         /\ \A p : LastEntryAt(d, p)' = LastEntryAt(d, p)
         /\ \A f : KeptAs(d, f)' = KeptAs(d, f)
<1>1. Entries(d)' = Entries(d) /\ Host(d)' = Host(d) /\ Root(d)' = Root(d)
  BY DEF Entries, Host, Root
<1>2. Project(d)' = Project(d)
  BY DEF Project
<1>3. ComposePath(d)' = ComposePath(d)
  BY <1>1 DEF ComposePath, ComposeWritten
<1>4. Prerequisites(d)' = Prerequisites(d)
  BY <1>1, <1>3 DEF Prerequisites
<1>5. ComposeFiles(d)' = ComposeFiles(d)
  BY <1>1, <1>3 DEF ComposeFiles, Named
<1>6. \A a : Command(d, a)' = Command(d, a)
  BY <1>1, <1>2, <1>5 DEF Command
<1>7. \A p : LastEntryAt(d, p)' = LastEntryAt(d, p)
  BY <1>1 DEF LastEntryAt
<1>8. \A f : KeptAs(d, f)' = KeptAs(d, f)
  BY <1>2 DEF KeptAs
<1> QED
  BY <1>1, <1>2, <1>3, <1>4, <1>5, <1>6, <1>7, <1>8

-----------------------------------------------------------------------------
(* Steps. *)

\* The steps that only go on, or give up.
Moves(d) ==
  \/ Refuse(d) \/ MakeDir(d) \/ UnpackFails(d) \/ UnpackEnds(d)
  \/ Inspect(d) \/ Probe(d) \/ ProbeFails(d) \/ OverrideFails(d)

Saves(d) == OpenArtifact(d) \/ Blocked(d) \/ WriteArtifact(d) \/ WriteFails(d) \/ Record(d)

Step(d) ==
  \/ PrepStep(d) /\ UNCHANGED <<left, answer, renterVars>>
  \/ JobEnds(d) \/ Collect(d) \/ CleanUp(d) \/ Saves(d)

\* A step is one of one deployment, or a crash of the renter.
LEMMA NextIsSteps == Next <=> (\E d \in Deployment : Step(d)) \/ Crash
BY DEF Next, Step, Saves

\* The steps that only go on, or give up, leave the directory alone.
LEMMA MovesOnly ==
  ASSUME NEW d \in Deployment, Moves(d)
  PROVE  /\ \E s \in PrepStage \cup {"failed"} : stage' = [stage EXCEPT ![d] = s]
         /\ UNCHANGED <<given, entry, treeVars, issued>>
         /\ stage[d] \in PrepStage
<1>1. CASE Refuse(d) \/ MakeDir(d)
  BY <1>1 DEF Refuse, MakeDir, Goto, PrepStage
<1>2. CASE UnpackFails(d) \/ UnpackEnds(d)
  BY <1>2 DEF UnpackFails, UnpackEnds, Goto, PrepStage
<1>3. CASE Inspect(d) \/ Probe(d) \/ ProbeFails(d)
  BY <1>3 DEF Inspect, Probe, ProbeFails, Goto, PrepStage
<1>4. CASE OverrideFails(d)
  BY <1>4 DEF OverrideFails, Goto, PrepStage
<1> QED
  BY <1>1, <1>2, <1>3, <1>4 DEF Moves

\* Faults are counted up to their bound.
LEMMA FaultsCounted ==
  ASSUME faults \in 0 .. MaxFaults, [Next]_vars
  PROVE  faults' \in 0 .. MaxFaults /\ faults' >= faults
<1>1. MaxFaults \in Nat
  BY PreparationAssumption
<1>2. faults' = faults \/ Fault
  <2>1. ASSUME NEW d \in Deployment, PrepStep(d) PROVE faults' = faults \/ Fault
    <3>1. CASE Refuse(d) \/ MakeDir(d)
      BY <3>1 DEF Refuse, MakeDir
    <3>2. CASE UnpackFails(d) \/ UnpackEnds(d) \/ UnpackEntry(d)
      BY <3>2 DEF UnpackFails, UnpackEnds, UnpackEntry
    <3>3. CASE Inspect(d) \/ Probe(d) \/ ProbeFails(d) \/ StartJob(d)
      BY <3>3 DEF Inspect, Probe, ProbeFails, StartJob
    <3>4. CASE OverrideFails(d) \/ PrepareComposeFiles(d)
      BY <3>4 DEF OverrideFails, PrepareComposeFiles
    <3> QED
      BY <2>1, <3>1, <3>2, <3>3, <3>4 DEF PrepStep
  <2>2. ASSUME NEW d \in Deployment, JobEnds(d) \/ Collect(d) \/ CleanUp(d) \/ Saves(d)
        PROVE  faults' = faults \/ Fault
    BY <2>2 DEF JobEnds, Collect, CleanUp, Saves, OpenArtifact, Blocked, WriteArtifact, WriteFails, Record
  <2>3. CASE Crash
    BY <2>3 DEF Crash
  <2>4. CASE UNCHANGED vars
    BY <2>4 DEF vars, prepVars
  <2> QED
    BY <2>1, <2>2, <2>3, <2>4, NextIsSteps DEF Step
<1> QED
  BY <1>1, <1>2 DEF Fault

\* What a provider has of one deployment stays as it is.
Same(d) ==
  /\ stage'[d] = stage[d] /\ entry'[d] = entry[d]
  /\ files'[d] = files[d] /\ dirs'[d] = dirs[d] /\ issued'[d] = issued[d]
  /\ left'[d] = left[d] /\ answer'[d] = answer[d]
  /\ pos'[d] = pos[d] /\ listed'[d] = listed[d]

\* A step of d changes nothing a provider has of another deployment.
LEMMA StepsAreLocal ==
  ASSUME Shaped, NEW d \in Deployment, Step(d)
  PROVE  UNCHANGED given /\ Shaped' /\ \A e \in Deployment \ {d} : Same(e)
<1> USE DEF Shaped, Same, PrepStage, Saving
<1>1. CASE Moves(d) /\ UNCHANGED <<left, answer, renterVars>>
  BY <1>1, MovesOnly DEF treeVars, renterVars
<1>2. CASE UnpackEntry(d) /\ UNCHANGED <<left, answer, renterVars>>
  BY <1>2 DEF UnpackEntry, renterVars
<1>3. CASE PrepareComposeFiles(d) /\ UNCHANGED <<left, answer, renterVars>>
  BY <1>3 DEF PrepareComposeFiles, Goto, renterVars
<1>4. CASE StartJob(d) /\ UNCHANGED <<left, answer, renterVars>>
  BY <1>4 DEF StartJob, Goto, Issue, treeVars, renterVars
<1>5. CASE JobEnds(d)
  BY <1>5 DEF JobEnds, Goto, Issue, renterVars
<1>6. CASE Collect(d)
  BY <1>6 DEF Collect, Goto, treeVars, renterVars
<1>7. CASE CleanUp(d)
  BY <1>7 DEF CleanUp, Goto, Issue, renterVars
<1>8. CASE OpenArtifact(d) \/ Blocked(d)
  BY <1>8 DEF OpenArtifact, Blocked, providerVars, treeVars, renterVars
<1>9. CASE WriteArtifact(d)
  <2>1. \E s \in {"opening", "saved"} : stage' = [stage EXCEPT ![d] = s]
    BY <1>9 DEF WriteArtifact
  <2>2. pos' = [pos EXCEPT ![d] = @ + 1] /\ UNCHANGED <<providerVars, listed>>
    BY <1>9 DEF WriteArtifact
  <2> QED
    BY <2>1, <2>2 DEF providerVars, treeVars
<1>11. CASE WriteFails(d)
  BY <1>11 DEF WriteFails, providerVars, treeVars
<1>10. CASE Record(d)
  BY <1>10 DEF Record, providerVars, treeVars
<1> QED
  BY <1>1, <1>2, <1>3, <1>4, <1>5, <1>6, <1>7, <1>8, <1>9, <1>10, <1>11 DEF Step, PrepStep, Moves, Saves

\* A crash of the renter changes stages and the log only.
LEMMA CrashKeepsShape ==
  ASSUME Shaped, Crash
  PROVE  /\ Shaped'
         /\ UNCHANGED <<providerVars, pos, disk, diskDirs>>
         /\ \A d \in Deployment :
              /\ \/ stage'[d] = "crashed"
                 \/ /\ stage'[d] = stage[d]
                    /\ stage[d] \in {"checking", "recorded", "failed", "blocked", "unsaved"}
              /\ listed'[d] = {}
<1>1. UNCHANGED <<providerVars, pos, disk, diskDirs>> /\ listed' = [d \in Deployment |-> {}]
  BY DEF Crash
<1>2. ASSUME NEW d \in Deployment
      PROVE  \/ stage'[d] = "crashed"
             \/ /\ stage'[d] = stage[d]
                /\ stage[d] \in {"checking", "recorded", "failed", "blocked", "unsaved"}
  BY DEF Crash
<1>3. stage' \in [Deployment -> PrepStage \cup Saving \cup
       {"running", "ended", "answering", "recorded", "failed", "blocked", "unsaved", "crashed"}]
  BY <1>2 DEF Crash, Shaped
<1> QED
  BY <1>1, <1>2, <1>3 DEF Shaped, providerVars, treeVars

-----------------------------------------------------------------------------
(* The deployment directory is a tree. *)

\* What d runs docker with.
Commands(d) == {Command(d, a) : a \in {"up", "logs", "down"}}

\* The commands of a deployment stay as they are.
LEMMA CommandsForGood ==
  ASSUME UNCHANGED given, NEW d \in Deployment
  PROVE  Commands(d)' = Commands(d)
BY GivenForGood DEF Commands

\* A directory that is not touched stays a tree.
LEMMA TreeStays ==
  ASSUME UNCHANGED given, NEW d \in Deployment, ProviderTree(d),
         entry'[d] = entry[d], files'[d] = files[d], dirs'[d] = dirs[d], issued'[d] = issued[d]
  PROVE  ProviderTree(d)'
<1>1. Entries(d)' = Entries(d) /\ Commands(d)' = Commands(d)
  BY GivenForGood, CommandsForGood
<1> QED
  BY <1>1 DEF ProviderTree, Commands

\* A directory on the way to a path is a path.
LEMMA AncestorsType ==
  ASSUME NEW p \in Seq(STRING)
  PROVE  Ancestors(p) \subseteq Seq(STRING)
BY AncestorsNest

\* What is unpacked stays inside.
LEMMA UnpackedInside ==
  ASSUME NEW d \in Deployment, ProviderTree(d), UnpackEntry(d)
  PROVE  LET path == Clean(Entries(d)[entry[d]].path.segments) IN
         entry[d] \in 1 .. Len(Entries(d)) /\ path \in Seq(STRING) /\ Inside(path)
<1>1. entry[d] \in 1 .. Len(Entries(d))
  <2>1. Entries(d) \in Seq(Entry)
    BY CaseTypes DEF ProviderTree
  <2> QED
    BY <2>1 DEF UnpackEntry
<1>2. Entries(d)[entry[d]].path \in Written
  BY <1>1, EntryTypes DEF ProviderTree
<1>3. Safe(Entries(d)[entry[d]].path)
  BY DEF UnpackEntry, Storable
<1> QED
  BY <1>1, <1>2, <1>3, SafeStaysInside

\* Unpacking an entry keeps the directory a tree.
LEMMA UnpackEntryKeepsTree ==
  ASSUME Shaped, NEW d \in Deployment, ProviderTree(d), UnpackEntry(d)
  PROVE  ProviderTree(d)'
<1> DEFINE e == Entries(d)[entry[d]]
           path == Clean(e.path.segments)
           above == Ancestors(IF e.kind = "dir" THEN path ELSE Parent(path))
<1>1. entry[d] \in 1 .. Len(Entries(d)) /\ path \in Seq(STRING) /\ Inside(path)
  BY UnpackedInside
<1>2. Parent(path) \in Seq(STRING)
  BY <1>1, ParentBelow DEF Inside
<1>3. above \subseteq Seq(STRING)
  BY <1>1, <1>2, AncestorsType
<1>4. Storable(d, e)
  BY DEF UnpackEntry
<1>5. /\ dirs'[d] = dirs[d] \cup above
      /\ files'[d] = IF e.kind = "dir" THEN files[d] ELSE StoreFile(files[d], path, e.content)
      /\ entry'[d] = entry[d] + 1
      /\ UNCHANGED <<given, issued>>
  BY DEF UnpackEntry, Shaped
<1>6. IsTree(files[d], dirs[d]) /\ dirs[d] \subseteq Seq(STRING) /\ DOMAIN files[d] \subseteq Seq(STRING)
      /\ IsFiniteSet(DOMAIN files[d])
  BY DEF ProviderTree
<1>7. DOMAIN StoreFile(files[d], path, e.content) = DOMAIN files[d] \cup {path}
  BY DEF StoreFile
<1>8. IsTree(files'[d], dirs'[d])
  <2> HIDE DEF e, path
  <2>1. CASE e.kind = "dir"
    <3>1. CanMkdirAll(files[d], path)
      BY <1>4, <2>1 DEF Storable, StoredAsFile, path
    <3>2. dirs'[d] = dirs[d] \cup Ancestors(path) /\ files'[d] = files[d]
      BY <1>5, <2>1
    <3>3. IsTree(files[d], dirs[d] \cup Ancestors(path))
      BY <1>1, <1>6, <3>1, MkdirKeepsTree
    <3> QED
      BY <3>2, <3>3
  <2>2. CASE e.kind # "dir"
    <3>1. CanStore(files[d], dirs[d], path)
      BY <1>4, <2>2 DEF Storable, path
    <3>2. dirs'[d] = dirs[d] \cup Ancestors(Parent(path))
      BY <1>5, <2>2
    <3>3. DOMAIN files'[d] = DOMAIN files[d] \cup {path}
      BY <1>5, <1>7, <2>2
    <3>4. IsTree(files'[d], dirs[d] \cup Ancestors(Parent(path)))
      BY <1>1, <1>6, <3>1, <3>3, StoreKeepsTree
    <3> QED
      BY <3>2, <3>4
  <2> QED
    BY <2>1, <2>2
<1>9. DOMAIN files'[d] \in {DOMAIN files[d], DOMAIN files[d] \cup {path}}
  BY <1>5, <1>7
<1>10. DOMAIN files'[d] \cup dirs'[d] \subseteq Seq(STRING)
  <2> HIDE DEF e, path, above
  <2> QED
    BY <1>1, <1>3, <1>5, <1>6, <1>9
<1>11. IsFiniteSet(DOMAIN files'[d])
  <2> HIDE DEF e, path
  <2> QED
    BY <1>6, <1>9, FS_AddElement
<1>12. entry'[d] \in 1 .. Len(Entries(d)') + 1
  <2>1. Entries(d)' = Entries(d) /\ Len(Entries(d)) \in Nat
    BY <1>5, GivenForGood, CaseTypes DEF ProviderTree
  <2> QED
    BY <1>1, <1>5, <2>1
<1>13. issued'[d] \in Seq(Commands(d)')
  BY <1>5, CommandsForGood DEF ProviderTree, Commands
<1>14. given'[d] \in Case[d]
  BY <1>5 DEF ProviderTree
<1> HIDE DEF e, path, above
<1> QED
  BY <1>8, <1>10, <1>11, <1>12, <1>13, <1>14 DEF ProviderTree, Commands

\* The override is a file of the deployment directory itself.
LEMMA OverridePathInside == OverridePath \in Seq(STRING) /\ Inside(OverridePath)
                            /\ Parent(OverridePath) = <<>> /\ Ancestors(<<>>) = {}
<1>1. Override \in STRING /\ Override \notin Idle \cup {".."}
  BY PreparationAssumption
<1>2. OverridePath \in Seq(STRING) /\ Len(OverridePath) = 1 /\ OverridePath[1] = Override
  BY <1>1 DEF OverridePath
<1>3. Inside(OverridePath)
  BY <1>1, <1>2 DEF Inside
<1>4. Parent(OverridePath) = <<>>
  BY <1>2, SubSeqEmpty, 1 - 1 < 1 DEF Parent, Front
<1>5. Ancestors(<<>>) = {}
  BY DEF Ancestors
<1> QED
  BY <1>2, <1>3, <1>4, <1>5

\* Writing the override keeps it a tree.
LEMMA OverrideKeepsTree ==
  ASSUME Shaped, NEW d \in Deployment, ProviderTree(d), PrepareComposeFiles(d)
  PROVE  ProviderTree(d)'
<1>1. UNCHANGED <<given, entry, dirs, issued>>
  BY DEF PrepareComposeFiles
<1>2. CASE Host(d).runtime = None
  BY <1>1, <1>2, TreeStays DEF PrepareComposeFiles
<1>3. CASE Host(d).runtime # None
  <2>1. OverridePath \notin dirs[d] /\ DOMAIN files'[d] = DOMAIN files[d] \cup {OverridePath}
    BY <1>3 DEF PrepareComposeFiles, Shaped, StoreFile
  <2>2. IsTree(files'[d], dirs'[d])
    <3>1. CanStore(files[d], dirs[d], OverridePath)
      BY <2>1, OverridePathInside DEF CanStore, CanMkdirAll
    <3>2. IsTree(files'[d], dirs[d] \cup Ancestors(Parent(OverridePath)))
      BY <2>1, <3>1, OverridePathInside, StoreKeepsTree DEF ProviderTree
    <3> QED
      BY <1>1, <3>2, OverridePathInside
  <2>3. IsFiniteSet(DOMAIN files'[d])
    BY <2>1, FS_AddElement DEF ProviderTree
  <2>4. DOMAIN files'[d] \cup dirs'[d] \subseteq Seq(STRING)
    BY <1>1, <2>1, OverridePathInside DEF ProviderTree
  <2>5. Entries(d)' = Entries(d) /\ Commands(d)' = Commands(d)
    BY <1>1, GivenForGood, CommandsForGood
  <2> QED
    BY <1>1, <2>2, <2>3, <2>4, <2>5 DEF ProviderTree, Commands
<1> QED
  BY <1>2, <1>3

\* Every command that is run is one of the three of its deployment.
LEMMA IssueKeepsType ==
  ASSUME Shaped, UNCHANGED given, NEW d \in Deployment, ProviderTree(d),
         NEW a \in {"up", "logs", "down"}, Issue(d, a)
  PROVE  issued'[d] \in Seq(Commands(d)')
<1>1. issued'[d] = Append(issued[d], Command(d, a))
  BY DEF Issue, Shaped
<1>2. issued[d] \in Seq(Commands(d)) /\ Command(d, a) \in Commands(d)
  BY DEF ProviderTree, Commands
<1>3. Append(issued[d], Command(d, a)) \in Seq(Commands(d))
  BY <1>2, AppendProperties
<1> QED
  BY <1>1, <1>3, CommandsForGood

\* What the job adds keeps it a tree (JobEnds adds nothing else).
LEMMA JobKeepsTree ==
  ASSUME Shaped, NEW d \in Deployment, ProviderTree(d), JobEnds(d)
  PROVE  ProviderTree(d)'
<1>1. PICK out \in Output[d] :
        /\ DOMAIN files'[d] = DOMAIN files[d] \cup out.files
        /\ dirs'[d] = dirs[d] \cup out.dirs
  BY DEF JobEnds, Shaped
<1>2. out.files \subseteq Seq(STRING) /\ out.dirs \subseteq Seq(STRING) /\ IsFiniteSet(out.files)
  BY ArtifactsAssumption
<1>3. IsFiniteSet(DOMAIN files'[d])
  BY <1>1, <1>2, FS_Union DEF ProviderTree
<1>4. UNCHANGED <<given, entry>> /\ IsTree(files'[d], dirs'[d]) /\ Issue(d, "logs")
  BY DEF JobEnds
<1>5. issued'[d] \in Seq(Commands(d)') /\ Entries(d)' = Entries(d)
  BY <1>4, IssueKeepsType, GivenForGood
<1>6. DOMAIN files'[d] \cup dirs'[d] \subseteq Seq(STRING)
  BY <1>1, <1>2 DEF ProviderTree
<1> QED
  BY <1>3, <1>4, <1>5, <1>6 DEF ProviderTree, Commands

\* An empty directory is a tree.
LEMMA CleanUpKeepsTree ==
  ASSUME Shaped, NEW d \in Deployment, ProviderTree(d), CleanUp(d)
  PROVE  ProviderTree(d)'
<1>1. DOMAIN files'[d] = {} /\ dirs'[d] = {}
  BY DEF CleanUp, Shaped
<1>2. UNCHANGED <<given, entry>> /\ Issue(d, "down")
  BY DEF CleanUp
<1>3. issued'[d] \in Seq(Commands(d)') /\ Entries(d)' = Entries(d)
  BY <1>2, IssueKeepsType, GivenForGood
<1> QED
  BY <1>1, <1>2, <1>3, FS_EmptySet DEF ProviderTree, Commands, IsTree

\* Every step of d keeps its directory a tree.
LEMMA StepKeepsTree ==
  ASSUME Shaped, NEW d \in Deployment, ProviderTree(d), Step(d)
  PROVE  ProviderTree(d)'
<1>1. CASE Moves(d)
  BY <1>1, MovesOnly, TreeStays DEF treeVars
<1>2. CASE StartJob(d)
  <2>1. UNCHANGED <<given, entry, treeVars>> /\ Issue(d, "up")
    BY <1>2 DEF StartJob
  <2>2. issued'[d] \in Seq(Commands(d)') /\ Entries(d)' = Entries(d)
    BY <2>1, IssueKeepsType, GivenForGood
  <2> QED
    BY <2>1, <2>2 DEF ProviderTree, Commands, treeVars
<1>3. CASE Collect(d)
  BY <1>3, TreeStays DEF Collect, treeVars
<1>4. CASE Saves(d)
  BY <1>4, TreeStays DEF Saves, OpenArtifact, Blocked, WriteArtifact, WriteFails, Record, providerVars, treeVars
<1> QED
  BY <1>1, <1>2, <1>3, <1>4, UnpackEntryKeepsTree, OverrideKeepsTree, JobKeepsTree, CleanUpKeepsTree
     DEF Step, PrepStep, Moves

-----------------------------------------------------------------------------
(* It is unpacked. *)

\* What is unpacked stays unpacked while nobody touches it.
LEMMA UnpackedStays ==
  ASSUME UNCHANGED given, NEW d \in Deployment, files'[d] = files[d], dirs'[d] = dirs[d],
         Replaced(d)' = Replaced(d), NEW n, Unpacked(d, n)
  PROVE  Unpacked(d, n)'
<1>1. Entries(d)' = Entries(d)
  BY GivenForGood
<1> QED
  BY <1>1 DEF Unpacked, HasLast, Stores, PathsOf

\* With one entry more, it is the archive up to that entry that is unpacked:
\* the new file replaces one of its name, and the directories are made.
LEMMA UnpackEntryUnpacks ==
  ASSUME Shaped, NEW d \in Deployment, ProviderTree(d), UnpackEntry(d),
         NEW k, k = entry[d], Unpacked(d, k - 1)
  PROVE  Unpacked(d, k)'
<1> DEFINE e == Entries(d)[k]
           path == Clean(e.path.segments)
<1>1. k \in 1 .. Len(Entries(d)) /\ path \in Seq(STRING) /\ Inside(path)
  BY UnpackedInside
<1>2. UNCHANGED given /\ stage[d] = "unpacking" /\ stage' = stage /\ entry'[d] = k + 1
  BY DEF UnpackEntry, Shaped
<1>3. /\ dirs'[d] = dirs[d] \cup Ancestors(IF e.kind = "dir" THEN path ELSE Parent(path))
      /\ files'[d] = IF e.kind = "dir" THEN files[d] ELSE StoreFile(files[d], path, e.content)
  BY DEF UnpackEntry, Shaped
<1>4. Replaced(d) = {} /\ Replaced(d)' = {}
  BY <1>2 DEF Replaced
<1>5. k - 1 \in Nat /\ 1 .. k = 1 .. k - 1 \cup {k} /\ \A i \in 1 .. k - 1 : i <= k
  BY <1>1
<1>6. PathsOf(d, k) = PathsOf(d, k - 1) \cup Ancestors(path)
  BY <1>5 DEF PathsOf
<1>7. DOMAIN files[d] \cup dirs[d] = PathsOf(d, k - 1) /\ \A p \in DOMAIN files[d] : HasLast(d, k - 1, p)
  BY <1>4 DEF Unpacked
<1>8. Entries(d)' = Entries(d)
  BY <1>2, GivenForGood
<1>9. \A p : Stores(d, k, p) = Stores(d, k - 1, p) \cup IF e.kind # "dir" /\ path = p THEN {k} ELSE {}
  BY <1>5 DEF Stores
<1>10. Ancestors(path) = Ancestors(Parent(path)) \cup {path}
  BY <1>1, ParentBelow DEF Inside
<1>11. /\ DOMAIN files'[d] \cup dirs'[d] = PathsOf(d, k)
       /\ \A p \in DOMAIN files'[d] :
            \E i \in Stores(d, k, p) :
              (\A j \in Stores(d, k, p) : j <= i) /\ files'[d][p] = Entries(d)[i].content
  <2> HIDE DEF path
  <2>1. CASE e.kind = "dir"
    <3>1. \A p : Stores(d, k, p) = Stores(d, k - 1, p)
      BY <1>9, <2>1
    <3>2. files'[d] = files[d] /\ dirs'[d] = dirs[d] \cup Ancestors(path)
      BY <1>3, <2>1
    <3> HIDE DEF e
    <3> QED
      BY <1>6, <1>7, <3>1, <3>2 DEF HasLast
  <2>2. CASE e.kind # "dir"
    <3>1. /\ dirs'[d] = dirs[d] \cup Ancestors(Parent(path))
          /\ DOMAIN files'[d] = DOMAIN files[d] \cup {path}
          /\ files'[d][path] = e.content
          /\ \A p \in DOMAIN files[d] \ {path} : files'[d][p] = files[d][p]
      BY <1>3, <2>2 DEF StoreFile
    <3>2. DOMAIN files'[d] \cup dirs'[d] = PathsOf(d, k)
      <4> HIDE DEF e
      <4> QED
        BY <1>6, <1>7, <1>10, <3>1
    <3>3. k \in Stores(d, k, path) /\ \A j \in Stores(d, k, path) : j <= k
      BY <1>1, <1>5, <2>2 DEF Stores, path
    <3>4. ASSUME NEW p \in DOMAIN files[d] \ {path}
          PROVE  \E i \in Stores(d, k, p) :
              (\A j \in Stores(d, k, p) : j <= i) /\ files'[d][p] = Entries(d)[i].content
      <4>1. Stores(d, k, p) = Stores(d, k - 1, p)
        BY <1>9
      <4> QED
        BY <1>7, <3>1, <4>1 DEF HasLast
    <3> QED
      BY <3>1, <3>2, <3>3, <3>4
  <2> QED
    BY <2>1, <2>2
<1>12. PathsOf(d, k)' = PathsOf(d, k) /\ \A p : Stores(d, k, p)' = Stores(d, k, p)
  BY <1>8 DEF PathsOf, Stores
<1> HIDE DEF e, path
<1> QED
  BY <1>4, <1>8, <1>11, <1>12 DEF Unpacked, HasLast

\* The override replaces at most the file of its own name.
LEMMA OverrideUnpacks ==
  ASSUME Shaped, NEW d \in Deployment, PrepareComposeFiles(d), NEW n, Unpacked(d, n)
  PROVE  Unpacked(d, n)'
<1>1. UNCHANGED <<given, dirs>> /\ stage[d] = "overriding" /\ stage'[d] = "starting"
  BY DEF PrepareComposeFiles, Goto, Shaped
<1>2. Entries(d)' = Entries(d) /\ Host(d)' = Host(d) /\ Replaced(d) = {}
  BY <1>1, GivenForGood DEF Replaced
<1>3. CASE Host(d).runtime = None
  <2>1. files' = files /\ Replaced(d)' = {}
    BY <1>2, <1>3 DEF PrepareComposeFiles, Replaced
  <2> QED
    BY <1>1, <1>2, <2>1, UnpackedStays
<1>4. CASE Host(d).runtime # None
  <2>1. Replaced(d)' = {OverridePath}
    BY <1>1, <1>2, <1>4 DEF Replaced, OverridePath
  <2>2. /\ DOMAIN files'[d] = DOMAIN files[d] \cup {OverridePath}
        /\ \A p \in DOMAIN files'[d] \ {OverridePath} : p \in DOMAIN files[d] /\ files'[d][p] = files[d][p]
    BY <1>4 DEF PrepareComposeFiles, StoreFile, Shaped
  <2>3. PathsOf(d, n)' = PathsOf(d, n) /\ \A p : Stores(d, n, p)' = Stores(d, n, p)
    BY <1>2 DEF PathsOf, Stores
  <2> QED
    BY <1>1, <1>2, <2>1, <2>2, <2>3 DEF Unpacked, HasLast
<1> QED
  BY <1>3, <1>4

\* Every step of d keeps its directory what its archive describes.
LEMMA StepKeepsUnpacking ==
  ASSUME Shaped, NEW d \in Deployment, ProviderTree(d), Unpacking(d), Step(d)
  PROVE  Unpacking(d)'
<1> PICK n : n = Len(Entries(d))
  OBVIOUS
<1>1. UNCHANGED given /\ Shaped'
  BY StepsAreLocal
<1>2. Entries(d)' = Entries(d) /\ Host(d)' = Host(d) /\ n \in Nat /\ DOMAIN Entries(d) = 1 .. n
  BY <1>1, GivenForGood, CaseTypes DEF ProviderTree
<1>3. CASE Refuse(d) \/ UnpackFails(d) \/ ProbeFails(d) \/ OverrideFails(d)
  <2>1. stage'[d] = "failed"
    BY <1>3 DEF Refuse, UnpackFails, ProbeFails, OverrideFails, Goto, Shaped
  <2> QED
    BY <2>1 DEF Unpacking, Preparing
<1>4. CASE MakeDir(d)
  <2>1. /\ stage[d] = "checking" /\ stage'[d] \in {"unpacking", "failed"}
        /\ UNCHANGED <<entry, files, dirs>>
    BY <1>4 DEF MakeDir, Goto, Shaped, treeVars
  <2>2. entry[d] = 1 /\ DOMAIN files[d] = {} /\ dirs[d] = {}
    BY <2>1 DEF Unpacking
  <2>3. PathsOf(d, 0)' = {} /\ Replaced(d)' = {}
    BY <2>1 DEF PathsOf, Replaced
  <2>4. Unpacked(d, 0)'
    BY <2>1, <2>2, <2>3 DEF Unpacked
  <2>5. entry'[d] - 1 = 0
    BY <2>1, <2>2
  <2> QED
    BY <2>1, <2>4, <2>5 DEF Unpacking, Preparing
<1>5. CASE UnpackEntry(d)
  <2>1. stage[d] = "unpacking" /\ stage'[d] = "unpacking" /\ entry'[d] = entry[d] + 1
    BY <1>5 DEF UnpackEntry, Shaped
  <2>2. PICK k : k = entry[d]
    OBVIOUS
  <2>3. Unpacked(d, k)'
    BY <1>5, <2>1, <2>2, UnpackEntryUnpacks DEF Unpacking
  <2>4. entry'[d] - 1 = k
    BY <2>1, <2>2 DEF ProviderTree
  <2> QED
    BY <2>1, <2>3, <2>4 DEF Unpacking, Preparing
<1>6. CASE UnpackEnds(d)
  <2>1. /\ stage[d] = "unpacking"
        /\ stage'[d] \in {"inspecting", "failed"}
        /\ stage'[d] = "inspecting" => EndsWell(given[d].archive)
        /\ UNCHANGED <<entry, files, dirs>>
        /\ entry[d] \notin 1 .. n
    BY <1>2, <1>6 DEF UnpackEnds, Goto, Shaped, treeVars
  <2>2. entry[d] - 1 = n
    BY <1>2, <2>1 DEF ProviderTree
  <2>3. Unpacked(d, n)
    BY <2>1, <2>2 DEF Unpacking
  <2>4. Replaced(d) = {} /\ Replaced(d)' = {}
    BY <2>1 DEF Replaced
  <2>5. Unpacked(d, n)'
    BY <1>1, <2>1, <2>3, <2>4, UnpackedStays
  <2> QED
    BY <1>1, <1>2, <2>1, <2>5 DEF Unpacking, Preparing
<1>7. CASE Inspect(d) \/ Probe(d) \/ StartJob(d)
  <2>1. /\ stage[d] \in Preparing /\ stage'[d] \in Preparing \cup {"failed"}
        /\ stage[d] \in {"starting", "running"} <=> stage'[d] \in {"starting", "running"}
        /\ UNCHANGED <<files, dirs>>
    BY <1>7 DEF Inspect, Probe, StartJob, Goto, Shaped, treeVars, Preparing
  <2>2. Unpacked(d, n) /\ EndsWell(given[d].archive)
    BY <2>1 DEF Unpacking
  <2>3. Replaced(d)' = Replaced(d)
    BY <1>2, <2>1 DEF Replaced, OverridePath
  <2>4. Unpacked(d, n)'
    BY <1>1, <2>1, <2>2, <2>3, UnpackedStays
  <2> QED
    BY <1>1, <1>2, <2>1, <2>2, <2>4 DEF Unpacking, Preparing
<1>8. CASE PrepareComposeFiles(d)
  <2>1. stage[d] = "overriding" /\ stage'[d] = "starting"
    BY <1>8 DEF PrepareComposeFiles, Goto, Shaped
  <2>2. Unpacked(d, n) /\ EndsWell(given[d].archive)
    BY <2>1 DEF Unpacking, Preparing
  <2>3. Unpacked(d, n)'
    BY <1>8, <2>2, OverrideUnpacks
  <2> QED
    BY <1>1, <1>2, <2>1, <2>2, <2>3 DEF Unpacking, Preparing
<1>9. CASE JobEnds(d) \/ Collect(d) \/ CleanUp(d) \/ Saves(d)
  <2>1. stage'[d] \in {"ended", "answering"} \cup Saving \cup {"recorded", "blocked", "unsaved"}
    BY <1>9 DEF JobEnds, Collect, CleanUp, Saves, OpenArtifact, Blocked, WriteArtifact, WriteFails, Record,
       Goto, Shaped, Saving
  <2> QED
    BY <2>1 DEF Unpacking, Preparing, Saving
<1> QED
  BY <1>3, <1>4, <1>5, <1>6, <1>7, <1>8, <1>9 DEF Step, PrepStep

-----------------------------------------------------------------------------
(* Docker can be started there. *)

\* A file of a directory that is unpacked is what the last entry of its name
\* says it is.
LEMMA LastEntryKept ==
  ASSUME NEW d \in Deployment, ProviderTree(d), Unpacked(d, Len(Entries(d))),
         NEW p \in DOMAIN files[d] \ Replaced(d)
  PROVE  LastEntryAt(d, p) = {files[d][p]}
<1> DEFINE at == {i \in DOMAIN Entries(d) :
                    Entries(d)[i].kind # "dir" /\ Clean(Entries(d)[i].path.segments) = p}
           last == CHOOSE i \in at : \A j \in at : j <= i
<1>1. DOMAIN Entries(d) = 1 .. Len(Entries(d)) /\ Len(Entries(d)) \in Nat
  BY CaseTypes DEF ProviderTree
<1>2. at = Stores(d, Len(Entries(d)), p)
  BY <1>1 DEF Stores
<1>3. PICK i \in at : (\A j \in at : j <= i) /\ files[d][p] = Entries(d)[i].content
  <2> HIDE DEF at
  <2> QED
    BY <1>2 DEF Unpacked, HasLast
<1>4. at \subseteq Nat
  BY <1>1
<1>5. last = i
  <2>1. last \in at /\ \A j \in at : j <= last
    BY <1>3
  <2> HIDE DEF at, last
  <2>2. i <= last /\ last <= i /\ i \in Nat /\ last \in Nat
    BY <1>3, <1>4, <2>1
  <2> QED
    BY <2>2
<1>6. LastEntryAt(d, p) = IF at = {} THEN {} ELSE {Entries(d)[last].content}
  BY DEF LastEntryAt
<1> HIDE DEF at, last
<1> QED
  BY <1>3, <1>5, <1>6

\* Every step of d keeps what docker needs.
LEMMA StepKeepsPrepared ==
  ASSUME Shaped, NEW d \in Deployment, ProviderTree(d), Unpacking(d), Prepared(d), Step(d)
  PROVE  Prepared(d)'
<1>1. UNCHANGED given /\ Shaped'
  BY StepsAreLocal
<1>2. /\ ComposePath(d)' = ComposePath(d) /\ Host(d)' = Host(d)
      /\ Prerequisites(d)' = Prerequisites(d)
      /\ LastEntryAt(d, ComposePath(d))' = LastEntryAt(d, ComposePath(d))
      /\ OverridePath' = OverridePath
  BY <1>1, GivenForGood DEF OverridePath
<1> DEFINE compose == LastEntryAt(d, ComposePath(d))
<1>3. stage[d] \in {"inspecting", "probing", "overriding"} /\ ComposePath(d) \in DOMAIN files[d] =>
        compose = {files[d][ComposePath(d)]}
  <2> SUFFICES ASSUME stage[d] \in {"inspecting", "probing", "overriding"}, ComposePath(d) \in DOMAIN files[d]
               PROVE  compose = {files[d][ComposePath(d)]}
    OBVIOUS
  <2>1. Replaced(d) = {}
    BY DEF Replaced
  <2>2. Unpacked(d, Len(Entries(d)))
    BY DEF Unpacking, Preparing
  <2> QED
    BY <2>1, <2>2, LastEntryKept
<1>4. CASE Refuse(d) \/ MakeDir(d) \/ UnpackEntry(d) \/ UnpackFails(d) \/ UnpackEnds(d) \/ ProbeFails(d) \/ OverrideFails(d)
  <2>1. stage'[d] \in {"failed", "unpacking", "inspecting"}
    BY <1>4 DEF Refuse, MakeDir, UnpackEntry, UnpackFails, UnpackEnds, ProbeFails, OverrideFails, Goto, Shaped
  <2> QED
    BY <2>1 DEF Prepared
<1>5. CASE Inspect(d)
  <2>1. /\ stage[d] = "inspecting" /\ files' = files
        /\ stage'[d] = IF ComposePath(d) \in DOMAIN files[d] THEN "probing" ELSE "failed"
    BY <1>5 DEF Inspect, Goto, Shaped, treeVars
  <2>2. CASE ComposePath(d) \in DOMAIN files[d]
    <3>1. compose # {}
      BY <1>3, <2>1, <2>2
    <3> HIDE DEF compose
    <3> QED
      BY <1>2, <2>1, <2>2, <3>1 DEF Prepared, compose
  <2>3. CASE ComposePath(d) \notin DOMAIN files[d]
    BY <2>1, <2>3 DEF Prepared
  <2> QED
    BY <2>2, <2>3
<1>6. CASE Probe(d)
  <2>1. stage[d] = "probing" /\ stage'[d] = "overriding" /\ files' = files /\ Prerequisites(d)
    BY <1>6 DEF Probe, Goto, Shaped, treeVars
  <2> QED
    BY <1>2, <2>1 DEF Prepared
<1>7. CASE PrepareComposeFiles(d)
  <2>1. stage[d] = "overriding" /\ stage'[d] = "starting"
    BY <1>7 DEF PrepareComposeFiles, Goto, Shaped
  <2>2. ComposePath(d) \in DOMAIN files[d] /\ compose # {} /\ Prerequisites(d)
    BY <2>1 DEF Prepared
  <2>3. CASE Host(d).runtime = None
    <3>1. files' = files
      BY <1>7, <2>3 DEF PrepareComposeFiles
    <3> QED
      BY <1>2, <2>1, <2>2, <2>3, <3>1 DEF Prepared
  <2>4. CASE Host(d).runtime # None
    <3>1. compose = {files[d][ComposePath(d)]}
      BY <1>3, <2>1, <2>2
    <3>2. CanOverride(d) /\ files'[d] = StoreFile(files[d], OverridePath,
               [id |-> "override", yaml |-> TRUE, services |-> ServiceNames(d)])
      BY <1>7, <2>4 DEF PrepareComposeFiles, Shaped
    <3>3. /\ DOMAIN files'[d] = DOMAIN files[d] \cup {OverridePath}
          /\ files'[d][OverridePath].services = files[d][ComposePath(d)].services
          /\ files[d][ComposePath(d)].services # {}
      BY <3>2 DEF StoreFile, CanOverride, ServiceNames
    <3>4. \A c \in compose : c.services # {} /\ files'[d][OverridePath].services = c.services
      BY <3>1, <3>3
    <3> HIDE DEF compose
    <3> QED
      BY <1>2, <2>1, <2>2, <2>4, <3>3, <3>4 DEF Prepared, compose
  <2> QED
    BY <2>3, <2>4
<1>8. CASE StartJob(d)
  <2>1. stage[d] = "starting" /\ stage'[d] = "running" /\ files' = files
    BY <1>8 DEF StartJob, Goto, Shaped, treeVars
  <2> QED
    BY <1>2, <2>1 DEF Prepared
<1>9. CASE JobEnds(d)
  <2>1. stage[d] = "running" /\ stage'[d] = "ended" /\ DOMAIN files[d] \subseteq DOMAIN files'[d]
    BY <1>9 DEF JobEnds, Goto, Shaped
  <2> QED
    BY <1>2, <2>1 DEF Prepared
<1>10. CASE Collect(d)
  <2>1. stage[d] = "ended" /\ stage'[d] = "answering" /\ files' = files
    BY <1>10 DEF Collect, Goto, Shaped, treeVars
  <2> QED
    BY <1>2, <2>1 DEF Prepared
<1>11. CASE CleanUp(d) \/ Saves(d)
  <2>1. stage'[d] \in {"opening", "writing", "saved", "recorded", "blocked", "unsaved"}
    BY <1>11 DEF CleanUp, Saves, OpenArtifact, Blocked, WriteArtifact, WriteFails, Record, Goto, Shaped
  <2> QED
    BY <2>1 DEF Prepared
<1> QED
  BY <1>4, <1>5, <1>6, <1>7, <1>8, <1>9, <1>10, <1>11 DEF Step, PrepStep

-----------------------------------------------------------------------------
(* What is collected. *)

\* SetToSeq lists a finite set, each element once.
LEMMA SetToSeqLists ==
  ASSUME NEW S, IsFiniteSet(S)
  PROVE  /\ SetToSeq(S) \in Seq(S)
         /\ Len(SetToSeq(S)) = Cardinality(S)
         /\ Range(SetToSeq(S)) = S
<1> DEFINE n == Cardinality(S)
           f == SetToSeq(S)
<1>1. n \in Nat /\ ExistsBijection(1 .. n, S)
  BY FS_CardinalityType
<1>2. PICK b : b \in Bijection(1 .. n, S)
  BY <1>1 DEF ExistsBijection
<1>3. b \in [1 .. n -> S] /\ IsInjective(b)
  BY <1>2 DEF Bijection, Injection
<1>4. f \in [1 .. n -> S] /\ IsInjective(f)
  BY <1>3 DEF SetToSeq
<1>5. f \in Injection(1 .. n, S)
  BY <1>4 DEF Injection
<1>6. f \in Surjection(1 .. n, S)
  <2>1. Cardinality(1 .. n) = n
    BY <1>1, FS_Interval
  <2> HIDE DEF f
  <2> QED
    BY <1>5, <2>1, FS_Injection
<1>7. \A x \in S : \E i \in 1 .. n : f[i] = x
  <2> DEFINE D == 1 .. n
  <2>1. f \in Surjection(D, S)
    BY <1>6
  <2>2. \A x \in S : \E i \in D : f[i] = x
    <3> HIDE DEF f, D
    <3> QED
      BY <2>1, Fun_SurjectionProperties
  <2> QED
    BY <2>2
<1>8. f \in Seq(S) /\ Len(f) = n
  <2> HIDE DEF f, n
  <2> QED
    BY <1>1, <1>4, SeqDef
<1>9. Range(f) = S
  <2>1. DOMAIN f = 1 .. n /\ \A i \in 1 .. n : f[i] \in S
    BY <1>4
  <2> HIDE DEF f, n
  <2> QED
    BY <1>7, <2>1 DEF Range
<1> QED
  BY <1>8, <1>9

\* A path that goes on below the first directory is that directory and a rest.
LEMMA BelowRoot ==
  ASSUME NEW r \in STRING, NEW p \in Seq(STRING), IsStrictPrefix(<<r>>, p)
  PROVE  /\ SubSeq(p, 2, Len(p)) \in Seq(STRING) /\ SubSeq(p, 2, Len(p)) # <<>>
         /\ <<r>> \o SubSeq(p, 2, Len(p)) = p
         /\ Head(p) = r
<1>1. Len(p) \in Nat /\ Len(p) >= 1 /\ Len(<<r>>) = 1
  BY DEF IsStrictPrefix, IsPrefix
<1>2. SubSeq(<<r>>, 1, 1) = <<r>>
  <2>1. <<r>> \in Seq(STRING)
    BY OneElement
  <2> QED
    BY <1>1, <2>1, SubSeqFull
<1>3. SubSeq(p, 1, 1) = <<p[1]>>
  BY <1>1, FirstElement
<1>4. <<r>> = <<p[1]>>
  BY <1>1, <1>2, <1>3 DEF IsStrictPrefix, IsPrefix
<1>5. Head(p) = r /\ p[1] = r
  BY <1>1, <1>4
<1>6. Len(p) > 1
  <2> SUFFICES ASSUME Len(p) = 1 PROVE FALSE
    BY <1>1
  <2>1. SubSeq(p, 1, Len(p)) = p
    BY SubSeqFull
  <2> QED
    BY <1>3, <1>5, <2>1 DEF IsStrictPrefix
<1>7. SubSeq(p, 1, 1) \o SubSeq(p, 1 + 1, Len(p)) = SubSeq(p, 1, Len(p))
  <2>1. 1 \in 1 .. Len(p) + 1 /\ 1 \in 1 - 1 .. Len(p) /\ Len(p) \in 1 .. Len(p)
    BY <1>1
  <2> QED
    BY <2>1, ConcatAdjacentSubSeq
<1>8. <<r>> \o SubSeq(p, 2, Len(p)) = p
  BY <1>3, <1>5, <1>7, SubSeqFull, 1 + 1 = 2
<1>9. SubSeq(p, 2, Len(p)) \in Seq(STRING) /\ SubSeq(p, 2, Len(p)) # <<>>
  <2>1. \A i \in 2 .. Len(p) : p[i] \in STRING
    OBVIOUS
  <2>2. /\ SubSeq(p, 2, Len(p)) \in Seq(STRING)
        /\ Len(SubSeq(p, 2, Len(p))) = IF 2 <= Len(p) THEN Len(p) - 2 + 1 ELSE 0
    <3>1. 2 \in Int /\ Len(p) \in Int
      BY <1>1
    <3> QED
      BY <2>1, <3>1, SubSeqProperties
  <2>3. Len(SubSeq(p, 2, Len(p))) # 0
    BY <1>1, <1>6, <2>2
  <2> QED
    BY <2>2, <2>3, EmptyByLength
<1> QED
  BY <1>5, <1>8, <1>9

\* What lies below the root of the bundle of d.
Parts(d) == {SubSeq(p, 2, Len(p)) : p \in {q \in DOMAIN files[d] : IsStrictPrefix(Root(d), q)}}

\* The rests are paths, they are finitely many, and each stands for a file.
LEMMA PartsArePaths ==
  ASSUME NEW d \in Deployment, ProviderTree(d)
  PROVE  /\ \A f \in Parts(d) : f \in Seq(STRING) /\ f # <<>> /\ Root(d) \o f \in DOMAIN files[d]
         /\ IsFiniteSet(Parts(d))
<1>1. PICK r \in STRING : Root(d) = <<r>>
  BY CaseTypes, PreparationAssumption DEF ProviderTree, Root, Archive
<1>2. ASSUME NEW q \in DOMAIN files[d], IsStrictPrefix(Root(d), q)
      PROVE  LET f == SubSeq(q, 2, Len(q)) IN f \in Seq(STRING) /\ f # <<>> /\ Root(d) \o f = q
  BY <1>1, <1>2, BelowRoot DEF ProviderTree
<1>3. \A f \in Parts(d) : f \in Seq(STRING) /\ f # <<>> /\ Root(d) \o f \in DOMAIN files[d]
  BY <1>2 DEF Parts
<1> DEFINE Q == {q \in DOMAIN files[d] : IsStrictPrefix(Root(d), q)}
           part == [q \in Q |-> SubSeq(q, 2, Len(q))]
<1>4. IsFiniteSet(Q)
  BY FS_Subset DEF ProviderTree
<1>5. part \in [Q -> Parts(d)] /\ \A f \in Parts(d) : \E q \in Q : part[q] = f
  BY DEF Parts
<1>6. part \in Surjection(Q, Parts(d))
  <2> HIDE DEF Q, part
  <2> QED
    BY <1>5, Fun_IsSurj
<1>7. IsFiniteSet(Parts(d))
  <2> HIDE DEF Q, part
  <2> QED
    BY <1>4, <1>6, FS_Surjection
<1> QED
  BY <1>3, <1>7

\* What collectArtifacts can have got so far.
SoFar(d) == [ok : BOOLEAN, files : Seq(Parts(d))]

\* One path more: it is added what lies there, all within the limit, or
\* collecting has failed and nothing is left of it.
LEMMA CollectPathType ==
  ASSUME NEW d \in Deployment, ProviderTree(d), NEW sofar \in SoFar(d), NEW path \in Written
  PROVE  /\ CollectPath(d, sofar, path) \in SoFar(d)
         /\ LET next == CollectPath(d, sofar, path)
                more == Below(d, Clean(path.segments))
            IN IF next.ok
               THEN /\ sofar.ok /\ Safe(path)
                    /\ Range(next.files) = Range(sofar.files) \cup more
                    /\ Len(next.files) * Length[d] <= ReturnLimit
               ELSE next.files = <<>>
<1> DEFINE next == CollectPath(d, sofar, path)
           more == Below(d, Clean(path.segments))
<1>1. more \subseteq Parts(d) /\ IsFiniteSet(more)
  <2>1. more \subseteq Parts(d)
    BY DEF Below, Parts
  <2> QED
    BY <2>1, PartsArePaths, FS_Subset
<1>2. /\ SetToSeq(more) \in Seq(more) /\ Len(SetToSeq(more)) = Cardinality(more)
      /\ Range(SetToSeq(more)) = more
  <2> HIDE DEF more
  <2> QED
    BY <1>1, SetToSeqLists
<1>3. SetToSeq(more) \in Seq(Parts(d)) /\ sofar.files \in Seq(Parts(d))
  <2> HIDE DEF more
  <2> QED
    BY <1>1, <1>2, SeqMonotonic DEF SoFar
<1>4. /\ sofar.files \o SetToSeq(more) \in Seq(Parts(d))
      /\ Len(sofar.files \o SetToSeq(more)) = Len(sofar.files) + Cardinality(more)
      /\ Range(sofar.files \o SetToSeq(more)) = Range(sofar.files) \cup more
  <2> DEFINE s == sofar.files
             t == SetToSeq(more)
  <2> HIDE DEF more, s, t
  <2>1. s \in Seq(Parts(d)) /\ t \in Seq(Parts(d)) /\ Len(t) = Cardinality(more) /\ Range(t) = more
    BY <1>2, <1>3 DEF s, t
  <2>2. s \o t \in Seq(Parts(d)) /\ Len(s \o t) = Len(s) + Len(t)
    BY <2>1, ConcatProperties
  <2>3. Range(s \o t) = Range(s) \cup Range(t)
    BY <2>1, RangeConcatenation
  <2> QED
    BY <2>1, <2>2, <2>3 DEF s, t
<1>5. \/ /\ next = [ok |-> TRUE, files |-> sofar.files \o SetToSeq(more)]
         /\ sofar.ok /\ Safe(path) /\ Fits(d, sofar.files, more)
      \/ next = [ok |-> FALSE, files |-> <<>>]
  BY DEF CollectPath
<1> HIDE DEF next, more
<1>6. CASE /\ next = [ok |-> TRUE, files |-> sofar.files \o SetToSeq(more)]
           /\ sofar.ok /\ Safe(path) /\ Fits(d, sofar.files, more)
  BY <1>4, <1>6 DEF Fits, SoFar, next, more
<1>7. CASE next = [ok |-> FALSE, files |-> <<>>]
  BY <1>7 DEF SoFar, next, more
<1> QED
  BY <1>5, <1>6, <1>7

\* collectArtifacts goes through the paths one after the other.
LEMMA CollectSteps ==
  ASSUME NEW d \in Deployment, ProviderTree(d)
  PROVE  LET paths == given[d].artifacts IN
         \E g : /\ g[0] = [ok |-> TRUE, files |-> <<>>]
                /\ \A k \in 0 .. Len(paths) - 1 : g[k + 1] = CollectPath(d, g[k], paths[k + 1])
                /\ CollectArtifacts(d) = g[Len(paths)]
<1> DEFINE paths == given[d].artifacts
           n == Len(paths)
           base == [ok |-> TRUE, files |-> <<>>]
           F == [x \in (1 .. n) \X SoFar(d) |-> CollectPath(d, x[2], paths[x[1]])]
           Iter(i) == i = [s \in SUBSET DOMAIN paths |->
             IF s = {} THEN base ELSE CollectPath(d, i[s \ {Max(s)}], paths[Max(s)])]
           iter == CHOOSE i : Iter(i)
<1>1. n \in Nat /\ DOMAIN paths = 1 .. n /\ \A i \in 1 .. n : paths[i] \in Written
  BY CaseTypes DEF ProviderTree
<1>2. base \in SoFar(d)
  BY DEF SoFar
<1>3. F \in [(1 .. n) \X SoFar(d) -> SoFar(d)]
  <2>1. ASSUME NEW x \in (1 .. n) \X SoFar(d) PROVE CollectPath(d, x[2], paths[x[1]]) \in SoFar(d)
    <3>1. x[2] \in SoFar(d) /\ x[1] \in 1 .. n
      BY <2>1
    <3>2. paths[x[1]] \in Written
      BY <1>1, <3>1
    <3> QED
      BY <3>1, <3>2, CollectPathType
  <2> QED
    BY <2>1
<1>4. PICK h \in [SUBSET (1 .. n) -> SoFar(d)] : Folds(h, n, base, F)
  <2> HIDE DEF F, n, base
  <2> QED
    BY <1>1, <1>2, <1>3, FoldExists
<1>5. Iter(h)
  <2>1. ASSUME NEW s \in SUBSET (1 .. n)
        PROVE  h[s] = IF s = {} THEN base ELSE CollectPath(d, h[s \ {Max(s)}], paths[Max(s)])
    <3>1. CASE s # {}
      <4>1. Max(s) \in 1 .. n /\ h[s \ {Max(s)}] \in SoFar(d)
        BY <1>1, <3>1, MaxOfIndices
      <4>2. h[s] = F[<<Max(s), h[s \ {Max(s)}]>>]
        BY <1>4, <3>1 DEF Folds
      <4> QED
        BY <3>1, <4>1, <4>2
    <3> QED
      BY <1>4, <3>1 DEF Folds
  <2> HIDE DEF base
  <2> QED
    BY <1>1, <2>1
<1>6. Iter(iter)
  <2> HIDE DEF Iter
  <2> QED
    BY <1>5
<1>7. CollectArtifacts(d) = iter[1 .. n]
  BY <1>1 DEF CollectArtifacts, FoldLeft, MapThenFoldSet
<1> DEFINE g == [k \in 0 .. n |-> iter[1 .. k]]
<1>8. \A s \in SUBSET (1 .. n) :
        iter[s] = IF s = {} THEN base ELSE CollectPath(d, iter[s \ {Max(s)}], paths[Max(s)])
  <2> HIDE DEF iter, n, base, paths
  <2> QED
    BY <1>1, <1>6
<1> HIDE DEF iter, Iter, F, n, base, paths
<1>9. g[0] = base /\ g[n] = iter[1 .. n]
  <2>1. 1 .. 0 = {} /\ {} \in SUBSET (1 .. n)
    OBVIOUS
  <2>2. g[0] = iter[1 .. 0] /\ g[n] = iter[1 .. n]
    BY <1>1
  <2>3. iter[{}] = base
    BY <1>8, <2>1
  <2> QED
    BY <2>1, <2>2, <2>3
<1>10. ASSUME NEW k \in 0 .. n - 1 PROVE g[k + 1] = CollectPath(d, g[k], paths[k + 1])
  <2>1. Max(1 .. k + 1) = k + 1 /\ (1 .. k + 1) \ {Max(1 .. k + 1)} = 1 .. k
    BY <1>1, IntervalMax, k \in Nat
  <2>2. 1 .. k + 1 \in SUBSET (1 .. n) /\ 1 .. k + 1 # {}
    <3>1. k + 1 \in 1 .. n /\ \A i \in 1 .. k + 1 : i \in 1 .. n
      BY <1>1
    <3>2. k + 1 \in 1 .. k + 1
      BY <1>1
    <3> QED
      BY <3>1, <3>2
  <2>3. g[k + 1] = iter[1 .. k + 1] /\ g[k] = iter[1 .. k]
    BY <1>1
  <2> QED
    BY <1>8, <2>1, <2>2, <2>3
<1> HIDE DEF g
<1> QED
  BY <1>7, <1>9, <1>10 DEF n, base, paths

\* All that was asked for, within the limit, or nothing.
LEMMA CollectsAllOrNothing ==
  ASSUME NEW d \in Deployment, ProviderTree(d)
  PROVE  LET paths == given[d].artifacts
             all == CollectArtifacts(d).files
         IN /\ all \in Seq(Parts(d))
            /\ all # <<>> =>
                 /\ \A i \in 1 .. Len(paths) : Safe(paths[i])
                 /\ Range(all) = UNION {Below(d, Clean(paths[i].segments)) : i \in 1 .. Len(paths)}
                 /\ Len(all) * Length[d] <= ReturnLimit
<1> DEFINE paths == given[d].artifacts
           n == Len(paths)
           Found(k) == UNION {Below(d, Clean(paths[i].segments)) : i \in 1 .. k}
           Good(s, k) ==
             /\ s \in SoFar(d)
             /\ ~s.ok => s.files = <<>>
             /\ s.ok =>
                  /\ \A i \in 1 .. k : Safe(paths[i])
                  /\ Range(s.files) = Found(k)
                  /\ s.files = <<>> \/ Len(s.files) * Length[d] <= ReturnLimit
<1>1. n \in Nat /\ \A i \in 1 .. n : paths[i] \in Written
  BY CaseTypes DEF ProviderTree
<1>2. PICK g : /\ g[0] = [ok |-> TRUE, files |-> <<>>]
               /\ \A k \in 0 .. n - 1 : g[k + 1] = CollectPath(d, g[k], paths[k + 1])
               /\ CollectArtifacts(d) = g[n]
  BY CollectSteps
<1>3. Good(g[0], 0)
  <2>1. 1 .. 0 = {} /\ Found(0) = {} /\ Range(<<>>) = {}
    BY DEF Range
  <2>2. g[0].ok = TRUE /\ g[0].files = <<>> /\ g[0] \in SoFar(d)
    BY <1>2 DEF SoFar
  <2> HIDE DEF Found
  <2> QED
    BY <2>1, <2>2
<1>4. ASSUME NEW k \in 0 .. n - 1, Good(g[k], k) PROVE Good(g[k + 1], k + 1)
  <2> DEFINE path == paths[k + 1]
             more == Below(d, Clean(path.segments))
  <2>1. g[k + 1] = CollectPath(d, g[k], path) /\ path \in Written
    BY <1>1, <1>2
  <2>2. /\ g[k + 1] \in SoFar(d)
        /\ IF g[k + 1].ok
           THEN /\ g[k].ok /\ Safe(path)
                /\ Range(g[k + 1].files) = Range(g[k].files) \cup more
                /\ Len(g[k + 1].files) * Length[d] <= ReturnLimit
           ELSE g[k + 1].files = <<>>
    <3>1. PICK sofar : sofar = g[k]
      OBVIOUS
    <3>2. sofar \in SoFar(d)
      BY <1>4, <3>1
    <3>3. PICK next : next = CollectPath(d, sofar, path)
      OBVIOUS
    <3> HIDE DEF path
    <3>4. /\ next \in SoFar(d)
          /\ IF next.ok
             THEN /\ sofar.ok /\ Safe(path)
                  /\ Range(next.files) = Range(sofar.files) \cup more
                  /\ Len(next.files) * Length[d] <= ReturnLimit
             ELSE next.files = <<>>
      BY <2>1, <3>2, <3>3, CollectPathType
    <3>5. next = g[k + 1]
      BY <2>1, <3>1, <3>3
    <3> QED
      BY <3>1, <3>4, <3>5
  <2>3. 1 .. k + 1 = 1 .. k \cup {k + 1}
    BY <1>1
  <2>4. Found(k + 1) = Found(k) \cup more
    BY <2>3
  <2>5. g[k + 1].ok => \A i \in 1 .. k + 1 : Safe(paths[i])
    BY <1>4, <2>2, <2>3
  <2> HIDE DEF Found, path, more
  <2> QED
    BY <1>4, <2>2, <2>4, <2>5
<1>5. Good(g[n], n)
  <2> DEFINE T == {k \in 0 .. n : Good(g[k], k)}
  <2> HIDE DEF n, Good
  <2>1. 0 \in T /\ \A k \in 0 .. n - 1 : k \in T => k + 1 \in T
    BY <1>1, <1>3, <1>4
  <2>2. 0 .. n \subseteq T
    <3> HIDE DEF T
    <3> QED
      BY <1>1, <2>1, IntervalInduction
  <2> QED
    BY <1>1, <2>2
<1> QED
  BY <1>2, <1>5 DEF SoFar

\* What was left and what is answered stays.
LEMMA CollectedStays ==
  ASSUME UNCHANGED given, NEW d \in Deployment, Collected(d),
         left'[d] = left[d], answer'[d] = answer[d],
         stage'[d] = "ended" => stage[d] = "ended" /\ files'[d] = files[d],
         stage'[d] \in PrepStage \cup {"running", "ended"} => stage[d] \in PrepStage \cup {"running", "ended"}
  PROVE  Collected(d)'
<1>1. WantedBack(d)' = WantedBack(d) /\ Root(d)' = Root(d)
  BY GivenForGood DEF WantedBack
<1> QED
  BY <1>1 DEF Collected, PrepStage

\* What the job has left is the tree it worked in.
LEMMA JobLeaves ==
  ASSUME Shaped, NEW d \in Deployment, ProviderTree(d), Collected(d), JobEnds(d)
  PROVE  Collected(d)'
<1>1. stage[d] = "running" /\ stage'[d] = "ended" /\ left'[d] = DOMAIN files'[d] /\ answer' = answer
  BY DEF JobEnds, Goto, Shaped
<1>2. ProviderTree(d)'
  BY JobKeepsTree
<1>3. answer'[d] = <<>>
  BY <1>1 DEF Collected
<1>4. \A p \in left'[d] : p \in Seq(STRING) /\ Inside(p)
  BY <1>1, <1>2 DEF ProviderTree, IsTree
<1>5. \A p, q \in left'[d] : q \notin Ancestors(Parent(p))
  BY <1>1, <1>2 DEF ProviderTree, IsTree
<1>6. answer'[d] \in Seq(Seq(STRING)) /\ DOMAIN answer'[d] = {}
  BY <1>3
<1> QED
  BY <1>1, <1>3, <1>4, <1>5, <1>6 DEF Collected

\* A file is below the root of a bundle if its path starts there and goes on.
LEMMA RootFirst ==
  ASSUME NEW r \in STRING, NEW p \in Seq(STRING), p # <<>>, Head(p) = r, SubSeq(p, 2, Len(p)) # <<>>
  PROVE  IsStrictPrefix(<<r>>, p)
<1>1. Len(p) \in Nat /\ Len(p) # 0 /\ p[1] = r
  <2>1. Len(p) \in Nat \ {0}
    BY EmptySeq
  <2>2. Head(p) = p[1]
    OBVIOUS
  <2> QED
    BY <2>1, <2>2
<1>2. Len(p) # 1
  <2> SUFFICES ASSUME Len(p) = 1 PROVE FALSE
    OBVIOUS
  <2>1. SubSeq(p, 2, 1) = <<>>
    BY SubSeqEmpty
  <2> QED
    BY <2>1
<1>3. SubSeq(p, 1, 1) = <<r>>
  <2>1. Len(p) >= 1
    BY <1>1
  <2>2. SubSeq(p, 1, 1) = <<p[1]>>
    BY <2>1, FirstElement
  <2> QED
    BY <1>1, <2>2
<1> DEFINE root == <<r>>
<1>4. root \in Seq(STRING) /\ Len(root) = 1
  BY OneElement
<1>5. SubSeq(root, 1, 1) = root
  BY <1>4, SubSeqFull
<1>6. SubSeq(p, 1, 1) = root
  BY <1>3
<1>7. root # p
  <2> HIDE DEF root
  <2> QED
    BY <1>2, <1>4
<1> HIDE DEF root
<1>8. IsStrictPrefix(root, p)
  BY <1>1, <1>2, <1>4, <1>5, <1>6, <1>7 DEF IsStrictPrefix, IsPrefix
<1> QED
  BY <1>8 DEF root

\* What is collected is what the user wanted back.
LEMMA CollectedIsWanted ==
  ASSUME NEW d \in Deployment, ProviderTree(d), left[d] = DOMAIN files[d],
         \A i \in 1 .. Len(given[d].artifacts) : Safe(given[d].artifacts[i])
  PROVE  WantedBack(d) = UNION {Below(d, Clean(given[d].artifacts[i].segments)) :
                                  i \in 1 .. Len(given[d].artifacts)}
<1> DEFINE paths == given[d].artifacts
           clean(i) == Clean(paths[i].segments)
<1>1. PICK r \in STRING : Root(d) = <<r>>
  BY CaseTypes, PreparationAssumption DEF ProviderTree, Root, Archive
<1>2. Root(d)[1] = r
  BY <1>1
<1>3. DOMAIN paths = 1 .. Len(paths) /\ \A i \in 1 .. Len(paths) : paths[i] \in Written
  BY CaseTypes DEF ProviderTree
<1>4. ASSUME NEW i \in 1 .. Len(paths) PROVE ~IsPrefix(clean(i), <<>>)
  <2>1. clean(i) \in Seq(STRING) /\ clean(i) # <<>>
    BY <1>3, SafeStaysInside DEF Safe
  <2>2. Len(clean(i)) \in Nat \ {0}
    <3> HIDE DEF clean
    <3> QED
      BY <2>1, EmptySeq
  <2>3. ~(Len(clean(i)) <= Len(<<>>))
    <3> HIDE DEF clean
    <3> QED
      BY <2>2
  <2> QED
    BY <2>3 DEF IsPrefix
<1>5. ASSUME NEW q \in DOMAIN files[d]
      PROVE  /\ q \in Seq(STRING) /\ q # <<>>
             /\ IsStrictPrefix(Root(d), q) <=> Head(q) = r /\ SubSeq(q, 2, Len(q)) # <<>>
  <2>1. q \in Seq(STRING) /\ q # <<>>
    BY DEF ProviderTree, IsTree, Inside
  <2> QED
    BY <1>1, <2>1, BelowRoot, RootFirst
<1>6. ASSUME NEW f
      PROVE  f \in WantedBack(d) <=> \E i \in 1 .. Len(paths) : f \in Below(d, clean(i))
  <2>1. f \in WantedBack(d) <=>
          \E i \in 1 .. Len(paths) : \E q \in DOMAIN files[d] :
            Head(q) = r /\ f = SubSeq(q, 2, Len(q)) /\ IsPrefix(clean(i), f)
    BY <1>2, <1>3 DEF WantedBack
  <2>2. \A i \in 1 .. Len(paths) :
          f \in Below(d, clean(i)) <=>
            \E q \in DOMAIN files[d] :
              IsStrictPrefix(Root(d), q) /\ f = SubSeq(q, 2, Len(q)) /\ IsPrefix(clean(i), f)
    BY DEF Below
  <2> HIDE DEF clean
  <2> QED
    BY <1>4, <1>5, <2>1, <2>2
<1> QED
  BY <1>6

\* The response is what the user wanted back, or empty.
LEMMA CollectCollects ==
  ASSUME Shaped, NEW d \in Deployment, ProviderTree(d), Collected(d), Collect(d)
  PROVE  Collected(d)'
<1> DEFINE all == CollectArtifacts(d).files
<1>1. /\ stage[d] = "ended" /\ stage'[d] = "answering" /\ answer'[d] = all
      /\ left'[d] = left[d] /\ left[d] = DOMAIN files[d] /\ UNCHANGED given
  BY DEF Collect, Goto, Shaped, Collected
<1>2. WantedBack(d)' = WantedBack(d) /\ Root(d)' = Root(d)
  BY <1>1, GivenForGood DEF WantedBack
<1>3. all \in Seq(Parts(d))
  BY CollectsAllOrNothing
<1>4. ASSUME all # <<>>
      PROVE  Range(all) = WantedBack(d) /\ Len(all) * Length[d] <= ReturnLimit
  <2>1. \A i \in 1 .. Len(given[d].artifacts) : Safe(given[d].artifacts[i])
    BY <1>4, CollectsAllOrNothing
  <2>2. Range(all) = UNION {Below(d, Clean(given[d].artifacts[i].segments)) :
                                  i \in 1 .. Len(given[d].artifacts)}
    BY <1>4, CollectsAllOrNothing
  <2>3. Len(all) * Length[d] <= ReturnLimit
    BY <1>4, CollectsAllOrNothing
  <2> QED
    BY <1>1, <2>1, <2>2, <2>3, CollectedIsWanted
<1>5. \A f \in Parts(d) : f \in Seq(STRING) /\ f # <<>> /\ Root(d) \o f \in left[d]
  BY <1>1, PartsArePaths
<1> HIDE DEF all
<1>6. all \in Seq(Seq(STRING))
  BY <1>3, <1>5, SeqMonotonic
<1>7. \A i \in DOMAIN all : all[i] # <<>> /\ Root(d) \o all[i] \in left[d]
  BY <1>3, <1>5, ElementOfSeq
<1> QED
  BY <1>1, <1>2, <1>4, <1>6, <1>7 DEF Collected, PrepStage

\* Every step of d keeps its answer what its job has left.
LEMMA StepKeepsCollected ==
  ASSUME Shaped, NEW d \in Deployment, ProviderTree(d), Collected(d), Step(d)
  PROVE  Collected(d)'
<1>1. UNCHANGED given
  BY StepsAreLocal
<1>2. CASE PrepStep(d) /\ UNCHANGED <<left, answer, renterVars>>
  <2>1. stage[d] \in PrepStage /\ stage'[d] # "ended"
    <3>1. CASE Moves(d)
      BY <3>1, MovesOnly DEF Shaped, PrepStage
    <3>2. CASE UnpackEntry(d) \/ PrepareComposeFiles(d) \/ StartJob(d)
      BY <3>2 DEF UnpackEntry, PrepareComposeFiles, StartJob, Goto, Shaped, PrepStage
    <3> QED
      BY <1>2, <3>1, <3>2 DEF PrepStep, Moves
  <2> QED
    BY <1>1, <1>2, <2>1, CollectedStays
<1>3. CASE CleanUp(d) \/ Saves(d)
  <2>1. /\ stage'[d] \in {"opening", "writing", "saved", "recorded", "blocked", "unsaved"}
        /\ UNCHANGED <<left, answer>>
    BY <1>3 DEF CleanUp, Saves, OpenArtifact, Blocked, WriteArtifact, WriteFails, Record, Goto, Shaped, providerVars
  <2> QED
    BY <1>1, <2>1, CollectedStays DEF PrepStage
<1> QED
  BY <1>2, <1>3, JobLeaves, CollectCollects DEF Step

-----------------------------------------------------------------------------
(* Where it is kept. *)

\* A path lies above another one if that starts with it and goes on.
LEMMA AboveByElements ==
  ASSUME NEW p \in Seq(STRING), NEW q \in Seq(STRING), p # <<>>, q # <<>>
  PROVE  /\ p \in Ancestors(Parent(q)) <=> Len(p) < Len(q) /\ \A i \in 1 .. Len(p) : p[i] = q[i]
         /\ p \in Ancestors(Parent(q)) => IsStrictPrefix(p, q)
<1>1. p \in Ancestors(Parent(q)) <=> p \in Ancestors(q) /\ p # q
  BY ParentBelow
<1>2. Len(p) \in Nat \ {0} /\ Len(q) \in Nat
  BY EmptySeq
<1>3. p \in Ancestors(q) <=> Len(p) <= Len(q) /\ p = SubSeq(q, 1, Len(p))
  BY <1>2, AncestorIsBeginning
<1>4. ASSUME Len(p) <= Len(q)
      PROVE  p = SubSeq(q, 1, Len(p)) <=> \A i \in 1 .. Len(p) : p[i] = q[i]
  <2> DEFINE up == SubSeq(q, 1, Len(p))
  <2>1. up \in Seq(STRING) /\ Len(up) = Len(p) /\ \A i \in 1 .. Len(p) : up[i] = q[i]
    BY <1>2, <1>4, Beginning, Len(p) \in 0 .. Len(q)
  <2> HIDE DEF up
  <2>2. ASSUME \A i \in 1 .. Len(p) : p[i] = q[i] PROVE p = up
    BY <2>1, <2>2, SeqEqual
  <2> QED
    BY <2>1, <2>2 DEF up
<1>5. Len(p) = Len(q) /\ (\A i \in 1 .. Len(p) : p[i] = q[i]) => p = q
  BY SeqEqual
<1>6. p \in Ancestors(Parent(q)) <=> Len(p) < Len(q) /\ \A i \in 1 .. Len(p) : p[i] = q[i]
  <2>1. Len(p) < Len(q) => p # q
    BY <1>2
  <2> QED
    BY <1>1, <1>2, <1>3, <1>4, <1>5, <2>1
<1>7. p \in Ancestors(Parent(q)) => IsStrictPrefix(p, q)
  <2>1. SubSeq(p, 1, Len(p)) = p
    BY SubSeqFull
  <2> QED
    BY <1>1, <1>3, <2>1 DEF IsStrictPrefix, IsPrefix
<1> QED
  BY <1>6, <1>7

\* A directory in front of two paths does not change how they lie.
LEMMA Under ==
  ASSUME NEW r \in STRING, NEW f \in Seq(STRING)
  PROVE  /\ <<r>> \o f \in Seq(STRING) /\ <<r>> \o f # <<>>
         /\ Len(<<r>> \o f) = Len(f) + 1
         /\ (<<r>> \o f)[1] = r
         /\ \A i \in 1 .. Len(f) : (<<r>> \o f)[i + 1] = f[i]
<1>1. PICK s : s = <<r>>
  OBVIOUS
<1>2. s \in Seq(STRING) /\ Len(s) = 1 /\ s[1] = r
  BY <1>1, OneElement
<1>3. Len(f) \in Nat
  OBVIOUS
<1> DEFINE path == s \o f
<1>4. /\ path \in Seq(STRING) /\ Len(path) = 1 + Len(f)
      /\ \A i \in 1 .. 1 + Len(f) : path[i] = IF i <= 1 THEN s[i] ELSE f[i - 1]
  <2>1. /\ path \in Seq(STRING) /\ Len(path) = Len(s) + Len(f)
        /\ \A i \in 1 .. Len(s) + Len(f) : path[i] = IF i <= Len(s) THEN s[i] ELSE f[i - Len(s)]
    BY <1>2, ConcatProperties
  <2> HIDE DEF path
  <2> QED
    BY <1>2, <2>1
<1> HIDE DEF path
<1>5. path[1] = r
  <2>1. 1 \in 1 .. 1 + Len(f)
    BY <1>3
  <2>2. path[1] = s[1]
    BY <1>4, <2>1
  <2> QED
    BY <1>2, <2>2
<1>6. ASSUME NEW i \in 1 .. Len(f) PROVE path[i + 1] = f[i]
  <2>1. i + 1 \in 1 .. 1 + Len(f) /\ ~(i + 1 <= 1) /\ i + 1 - 1 = i
    BY <1>3
  <2> QED
    BY <1>4, <2>1
<1>7. path # <<>>
  BY <1>3, <1>4, EmptyByLength
<1>8. path = <<r>> \o f
  BY <1>1 DEF path
<1>9. Len(path) = Len(f) + 1
  BY <1>3, <1>4
<1> QED
  BY <1>4, <1>5, <1>6, <1>7, <1>8, <1>9

\* Two paths lie to each other in one directory as they do in another.
LEMMA SameBelow ==
  ASSUME NEW a \in STRING, NEW b \in STRING, NEW f \in Seq(STRING), NEW g \in Seq(STRING),
         <<a>> \o f \in Ancestors(Parent(<<a>> \o g))
  PROVE  <<b>> \o f \in Ancestors(Parent(<<b>> \o g))
<1> DEFINE af == <<a>> \o f
           ag == <<a>> \o g
           bf == <<b>> \o f
           bg == <<b>> \o g
<1>1. /\ af \in Seq(STRING) /\ ag \in Seq(STRING) /\ af # <<>> /\ ag # <<>>
      /\ Len(af) = Len(f) + 1 /\ Len(ag) = Len(g) + 1
      /\ \A i \in 1 .. Len(f) : af[i + 1] = f[i]
      /\ \A i \in 1 .. Len(g) : ag[i + 1] = g[i]
  BY Under
<1>2. /\ bf \in Seq(STRING) /\ bg \in Seq(STRING) /\ bf # <<>> /\ bg # <<>>
      /\ Len(bf) = Len(f) + 1 /\ Len(bg) = Len(g) + 1
      /\ bf[1] = b /\ bg[1] = b
      /\ \A i \in 1 .. Len(f) : bf[i + 1] = f[i]
      /\ \A i \in 1 .. Len(g) : bg[i + 1] = g[i]
  BY Under
<1>3. af \in Ancestors(Parent(ag))
  OBVIOUS
<1>4. Len(f) \in Nat /\ Len(g) \in Nat
  OBVIOUS
<1> HIDE DEF af, ag, bf, bg
<1>5. Len(f) < Len(g) /\ \A i \in 1 .. Len(f) + 1 : af[i] = ag[i]
  BY <1>1, <1>3, <1>4, AboveByElements
<1>6. \A i \in 1 .. Len(f) : f[i] = g[i]
  <2>1. \A i \in 1 .. Len(f) : i \in 1 .. Len(g) /\ i + 1 \in 1 .. Len(f) + 1
    BY <1>4, <1>5
  <2> QED
    BY <1>1, <1>5, <2>1
<1>7. ASSUME NEW i \in 1 .. Len(f) + 1 PROVE bf[i] = bg[i]
  <2>1. CASE i = 1
    BY <1>2, <2>1
  <2>2. CASE i # 1
    <3>1. i - 1 \in 1 .. Len(f) /\ i - 1 \in 1 .. Len(g) /\ i - 1 + 1 = i
      BY <1>4, <1>5, <2>2
    <3> QED
      BY <1>2, <1>6, <3>1
  <2> QED
    BY <2>1, <2>2
<1>8. bf \in Ancestors(Parent(bg))
  BY <1>2, <1>4, <1>5, <1>7, AboveByElements
<1> QED
  BY <1>8 DEF bf, bg

\* The directory below artifacts/ is one name.
LEMMA ProjectIsName ==
  ASSUME NEW d \in Deployment, given[d] \in Case[d]
  PROVE  Project(d) \in STRING \ (Idle \cup {".."})
<1> DEFINE user == given[d].project
           archive == given[d].archive.root
<1>1. user \in DOMAIN Normal /\ archive \in DOMAIN Normal
  BY PreparationAssumption
<1>2. \A n \in DOMAIN Normal : Normal[n] \in STRING /\ Normal[n] # "." /\ Normal[n] # ".."
  BY PreparationAssumption
<1>3. DefaultProject \in STRING \ (Idle \cup {".."})
  BY PreparationAssumption
<1>4. PICK n \in DOMAIN Normal : Project(d) = IF Normal[n] = "" THEN DefaultProject ELSE Normal[n]
  BY <1>1, Zenon DEF Project
<1>5. CASE Normal[n] = ""
  <2>1. Project(d) = DefaultProject
    BY <1>4, <1>5, Zenon
  <2> QED
    BY <1>3, <2>1, Zenon
<1>6. CASE Normal[n] # ""
  BY <1>2, <1>4, <1>6, Zenon DEF Idle
<1> QED
  BY <1>5, <1>6, Zenon

\* Every returned file is kept at its path below that directory.
LEMMA KeptBelowProject ==
  ASSUME NEW d \in Deployment, given[d] \in Case[d], Collected(d), NEW i \in DOMAIN answer[d]
  PROVE  /\ answer[d][i] \in Seq(STRING)
         /\ Kept(d, i) = <<Project(d)>> \o answer[d][i]
         /\ Kept(d, i) \in Seq(STRING) /\ Inside(Kept(d, i)) /\ Kept(d, i) # <<>>
<1> DEFINE f == answer[d][i]
           path == <<Project(d)>> \o f
<1>1. answer[d] \in Seq(Seq(STRING)) /\ Root(d) \o f \in left[d]
  BY DEF Collected
<1>2. f \in Seq(STRING)
  <2>1. i \in 1 .. Len(answer[d])
    BY <1>1
  <2> QED
    BY <1>1, <2>1, ElementOfSeq
<1>3. PICK r \in STRING : Root(d) = <<r>>
  BY CaseTypes, PreparationAssumption DEF Root, Archive
<1>4. Inside(<<r>> \o f)
  BY <1>1, <1>3 DEF Collected
<1>5. Project(d) \in STRING \ (Idle \cup {".."})
  BY ProjectIsName
<1> HIDE DEF f
<1>6. path \in Seq(STRING) /\ path # <<>> /\ Len(path) = Len(f) + 1 /\ path[1] = Project(d)
      /\ \A j \in 1 .. Len(f) : path[j + 1] = f[j]
  BY <1>2, <1>5, Under
<1>7. ASSUME NEW j \in 1 .. Len(f) PROVE f[j] \notin Idle \cup {".."}
  <2> DEFINE old == <<r>> \o f
  <2>1. old \in Seq(STRING) /\ Len(old) = Len(f) + 1 /\ old[j + 1] = f[j]
    BY <1>2, Under
  <2>2. Inside(old)
    BY <1>4
  <2> HIDE DEF old
  <2>3. j + 1 \in DOMAIN old
    BY <1>2, <2>1
  <2> QED
    BY <2>1, <2>2, <2>3 DEF Inside
<1> HIDE DEF path
<1>8. Inside(path)
  <2>1. ASSUME NEW j \in DOMAIN path PROVE path[j] \notin Idle \cup {".."}
    <3>1. j \in 1 .. Len(f) + 1 /\ Len(f) \in Nat
      BY <1>2, <1>6
    <3>2. CASE j = 1
      BY <1>5, <1>6, <3>2
    <3>3. CASE j # 1
      <4>1. j - 1 \in 1 .. Len(f) /\ j - 1 + 1 = j
        BY <3>1, <3>3
      <4> QED
        BY <1>6, <1>7, <4>1
    <3> QED
      BY <3>2, <3>3
  <2> QED
    BY <1>6, <2>1 DEF Inside
<1>9. Kept(d, i) = path
  <2>1. Clean(path) = path
    BY <1>6, <1>8, CleanIsIdle
  <2> QED
    BY <2>1 DEF Kept, KeptAs, Join, path, f
<1> QED
  BY <1>2, <1>6, <1>8, <1>9 DEF path, f

\* No file of an answer is where another one needs a directory.
LEMMA KeptApart ==
  ASSUME NEW d \in Deployment, given[d] \in Case[d], Collected(d),
         NEW i \in DOMAIN answer[d], NEW j \in DOMAIN answer[d]
  PROVE  Kept(d, i) \notin Ancestors(Parent(Kept(d, j)))
<1> PICK f : f = answer[d][i]
  OBVIOUS
<1> PICK g : g = answer[d][j]
  OBVIOUS
<1>1. /\ f \in Seq(STRING) /\ g \in Seq(STRING)
      /\ Kept(d, i) = <<Project(d)>> \o f /\ Kept(d, j) = <<Project(d)>> \o g
  BY KeptBelowProject
<1>2. Root(d) \o f \in left[d] /\ Root(d) \o g \in left[d]
  BY DEF Collected
<1>3. PICK r \in STRING : Root(d) = <<r>>
  BY CaseTypes, PreparationAssumption DEF Root, Archive
<1>4. <<r>> \o f \notin Ancestors(Parent(<<r>> \o g))
  BY <1>2, <1>3 DEF Collected
<1>5. Project(d) \in STRING
  BY ProjectIsName
<1> QED
  BY <1>1, <1>4, <1>5, SameBelow

-----------------------------------------------------------------------------
(* What the renter saves. *)

\* What is below artifacts/ of d, step by step.
OpenedStay(d) ==
  \A i \in DOMAIN answer[d] :
    i \in DOMAIN answer'[d] /\ Kept(d, i)' = Kept(d, i) /\ (Opened(d, i) => Opened(d, i)')

\* Where a returned file is kept depends on its answer only.
LEMMA KeptForGood ==
  ASSUME UNCHANGED given, NEW d \in Deployment, answer'[d] = answer[d]
  PROVE  (\A i : Kept(d, i)' = Kept(d, i)) /\ Saved(d)' = Saved(d)
<1>1. \A f : KeptAs(d, f)' = KeptAs(d, f)
  BY GivenForGood
<1>2. Project(d)' = Project(d)
  BY GivenForGood
<1>3. \A i : Kept(d, i)' = Kept(d, i)
  BY <1>2 DEF Kept, KeptAs
<1> QED
  BY <1>1, <1>3 DEF Saved

\* A file stays opened while its deployment waits, or ends with a crash.
LEMMA SameOpened ==
  ASSUME UNCHANGED given, NEW d \in Deployment, answer'[d] = answer[d], pos'[d] = pos[d],
         stage'[d] \in {stage[d], "crashed"} \/ stage[d] \notin {"writing", "unsaved", "crashed"}
  PROVE  OpenedStay(d)
<1>1. \A i : Kept(d, i)' = Kept(d, i)
  BY KeptForGood
<1> QED
  BY <1>1 DEF OpenedStay, Opened

\* No step takes an opened file back: answers that are there and the order
\* their files are saved in are for good.
LEMMA StepOpens ==
  ASSUME Shaped, NEW d \in Deployment, Collected(d), Step(d), NEW e \in Deployment
  PROVE  OpenedStay(e)
<1>1. UNCHANGED given /\ \A x \in Deployment \ {d} : Same(x)
  BY StepsAreLocal
<1>2. CASE e # d
  BY <1>1, <1>2, SameOpened DEF Same
<1>3. CASE e = d /\ stage[d] \in PrepStage \cup {"running", "ended"}
  <2>1. DOMAIN answer[d] = {}
    BY <1>3 DEF Collected
  <2> QED
    BY <1>3, <2>1 DEF OpenedStay
<1>4. CASE e = d /\ stage[d] \notin PrepStage \cup {"running", "ended"}
  <2>1. CASE CleanUp(d) \/ OpenArtifact(d) \/ Blocked(d) \/ Record(d)
    <3>1. UNCHANGED <<given, answer, pos>> /\ stage[d] \in {"answering", "opening", "saved"}
      BY <2>1 DEF CleanUp, OpenArtifact, Blocked, Record, Goto, providerVars, renterVars
    <3> QED
      BY <1>4, <3>1, SameOpened
  <2>2. CASE WriteArtifact(d)
    <3>1. /\ UNCHANGED <<given, answer>> /\ stage[d] = "writing" /\ stage'[d] \in {"opening", "saved"}
          /\ pos'[d] = pos[d] + 1 /\ pos[d] \in Nat
      BY <2>2 DEF WriteArtifact, providerVars, Shaped
    <3>2. DOMAIN answer[d] \subseteq Nat
      BY DEF Collected
    <3>3. \A i : Kept(d, i)' = Kept(d, i)
      BY <3>1, KeptForGood
    <3> QED
      BY <1>4, <3>1, <3>2, <3>3 DEF OpenedStay, Opened
  <2>3. CASE WriteFails(d)
    <3>1. UNCHANGED <<given, answer, pos>> /\ stage[d] = "writing" /\ stage'[d] = "unsaved"
      BY <2>3 DEF WriteFails, providerVars, Shaped
    <3>2. \A i : Kept(d, i)' = Kept(d, i)
      BY <3>1, KeptForGood
    <3> QED
      BY <1>4, <3>1, <3>2 DEF OpenedStay, Opened
  <2>4. CASE PrepStep(d)
    <3>1. CASE Moves(d)
      BY <1>4, <3>1, MovesOnly
    <3>2. CASE UnpackEntry(d) \/ PrepareComposeFiles(d) \/ StartJob(d)
      BY <1>4, <3>2 DEF UnpackEntry, PrepareComposeFiles, StartJob, Goto, PrepStage
    <3> QED
      BY <2>4, <3>1, <3>2 DEF PrepStep, Moves
  <2>5. CASE JobEnds(d) \/ Collect(d)
    BY <1>4, <2>5 DEF JobEnds, Collect, Goto
  <2> QED
    BY <2>1, <2>2, <2>3, <2>4, <2>5 DEF Step, Saves
<1> QED
  BY <1>2, <1>3, <1>4

\* Nor does a crash of the renter.
LEMMA CrashOpens ==
  ASSUME Shaped, Crash, NEW e \in Deployment
  PROVE  OpenedStay(e)
BY CrashKeepsShape, SameOpened DEF providerVars

\* A file that is left alone has been so before.
LEMMA AloneBefore ==
  ASSUME \A x \in Deployment : OpenedStay(x),
         NEW d \in Deployment, NEW i \in DOMAIN answer[d], Alone(d, i)'
  PROVE  Alone(d, i)
<1>1. Kept(d, i)' = Kept(d, i)
  BY DEF OpenedStay
<1>2. ASSUME NEW e \in Deployment \ {d}, NEW j \in DOMAIN answer[e], Opened(e, j)
      PROVE  Kept(e, j) # Kept(d, i)
  <2>1. j \in DOMAIN answer'[e] /\ Kept(e, j)' = Kept(e, j) /\ Opened(e, j)'
    BY <1>2 DEF OpenedStay
  <2>2. Kept(e, j)' # Kept(d, i)'
    BY <2>1 DEF Alone
  <2> QED
    BY <1>1, <2>1, <2>2
<1> QED
  BY <1>2 DEF Alone

\* A step of d writes to no file but the one it is at.
LEMMA StepWrites ==
  ASSUME Shaped, NEW d \in Deployment, Collected(d), SavingOf(d), Step(d)
  PROVE  \/ disk' = disk /\ diskDirs' = diskDirs
         \/ \E k \in DOMAIN answer[d] :
              /\ k = pos[d] /\ k \in DOMAIN answer'[d] /\ Opened(d, k)' /\ Kept(d, k)' = Kept(d, k)
              /\ DOMAIN disk' = DOMAIN disk \cup {Kept(d, k)}
              /\ \A p \in DOMAIN disk \ {Kept(d, k)} : disk'[p] = disk[p]
<1>1. CASE OpenArtifact(d) \/ WriteArtifact(d) \/ WriteFails(d)
  <2>1. PICK k \in DOMAIN answer[d] : k = pos[d]
    BY <1>1 DEF OpenArtifact, WriteArtifact, WriteFails, SavingOf, Turn
  <2>2. UNCHANGED <<given, answer>> /\ Target(d) = Kept(d, k)
    BY <1>1, <2>1 DEF OpenArtifact, WriteArtifact, WriteFails, providerVars, Target, Kept
  <2>3. Kept(d, k)' = Kept(d, k)
    BY <2>2, KeptForGood
  <2>4. DOMAIN disk' = DOMAIN disk \cup {Kept(d, k)} /\ \A p \in DOMAIN disk \ {Kept(d, k)} : disk'[p] = disk[p]
    <3>1. CASE OpenArtifact(d)
      BY <2>2, <3>1 DEF OpenArtifact
    <3>2. CASE WriteArtifact(d) \/ WriteFails(d)
      <4>1. Kept(d, k) \in DOMAIN disk
        BY <2>1, <3>2 DEF WriteArtifact, WriteFails, SavingOf, Stored
      <4> QED
        BY <2>2, <3>2, <4>1 DEF WriteArtifact, WriteFails
    <3> QED
      BY <1>1, <3>1, <3>2
  <2>5. Opened(d, k)'
    <3>1. CASE OpenArtifact(d) \/ WriteFails(d)
      BY <2>1, <3>1 DEF OpenArtifact, WriteFails, Opened, Shaped
    <3>2. CASE WriteArtifact(d)
      <4>1. pos'[d] = pos[d] + 1 /\ pos[d] \in Nat
        BY <3>2 DEF WriteArtifact, Shaped
      <4> QED
        BY <2>1, <4>1 DEF Opened
    <3> QED
      BY <1>1, <3>1, <3>2
  <2> QED
    BY <2>1, <2>2, <2>3, <2>4, <2>5
<1>2. CASE ~(OpenArtifact(d) \/ WriteArtifact(d) \/ WriteFails(d))
  BY <1>2 DEF Step, Saves, JobEnds, Collect, CleanUp, Blocked, Record, renterVars
<1> QED
  BY <1>1, <1>2

\* What has been said of the files of d goes on to hold while d waits.
LEMMA SavingStays ==
  ASSUME UNCHANGED given, \A x \in Deployment : OpenedStay(x),
         NEW d \in Deployment, SavingOf(d),
         stage'[d] = stage[d], pos'[d] = pos[d], answer'[d] = answer[d], listed'[d] = listed[d],
         faults' = 0 => faults = 0,
         \A i \in DOMAIN answer[d] :
           Kept(d, i) \in DOMAIN disk =>
             Kept(d, i) \in DOMAIN disk' /\ (Alone(d, i)' => disk'[Kept(d, i)] = disk[Kept(d, i)])
  PROVE  SavingOf(d)'
<1>1. (\A i : Kept(d, i)' = Kept(d, i)) /\ Saved(d)' = Saved(d)
  BY KeptForGood
<1>2. Turn(d)'
  BY DEF SavingOf, Turn
<1>3. Stored(d)'
  <2>1. \A i \in DOMAIN answer[d] : Current(d, i)' <=> Current(d, i)
    BY <1>1 DEF Current
  <2>2. \A i \in DOMAIN answer[d] : Alone(d, i)' => Alone(d, i)
    BY AloneBefore
  <2> QED
    BY <1>1, <2>1, <2>2 DEF SavingOf, Stored
<1>4. Lists(d)'
  BY <1>1 DEF SavingOf, Lists
<1>5. BlockedByOthers(d)'
  BY <1>1 DEF SavingOf, BlockedByOthers, OpenedStay
<1> QED
  BY <1>2, <1>3, <1>4, <1>5 DEF SavingOf

\* A step of d keeps what has been said of the files of the others: it writes
\* only to a file that it has opened then.
LEMMA StepKeepsOthersFiles ==
  ASSUME Shaped, NEW d \in Deployment, Collected(d), SavingOf(d), Step(d), faults' = 0 => faults = 0,
         NEW e \in Deployment \ {d}, SavingOf(e)
  PROVE  SavingOf(e)'
<1>1. UNCHANGED given /\ Same(e)
  BY StepsAreLocal
<1>2. \A x \in Deployment : OpenedStay(x)
  BY StepOpens
<1>3. ASSUME NEW i \in DOMAIN answer[e], Kept(e, i) \in DOMAIN disk
      PROVE  Kept(e, i) \in DOMAIN disk' /\ (Alone(e, i)' => disk'[Kept(e, i)] = disk[Kept(e, i)])
  <2>1. CASE disk' = disk
    BY <1>3, <2>1
  <2>2. ASSUME NEW k \in DOMAIN answer[d],
               k \in DOMAIN answer'[d], Opened(d, k)', Kept(d, k)' = Kept(d, k),
               DOMAIN disk' = DOMAIN disk \cup {Kept(d, k)},
               \A p \in DOMAIN disk \ {Kept(d, k)} : disk'[p] = disk[p]
        PROVE  Kept(e, i) \in DOMAIN disk' /\ (Alone(e, i)' => disk'[Kept(e, i)] = disk[Kept(e, i)])
    <3>1. Kept(e, i)' = Kept(e, i)
      BY <1>2 DEF OpenedStay
    <3>2. Alone(e, i)' => Kept(d, k)' # Kept(e, i)'
      BY <2>2 DEF Alone
    <3> QED
      BY <1>3, <2>2, <3>1, <3>2
  <2> QED
    BY <2>1, <2>2, StepWrites
<1> QED
  BY <1>1, <1>2, <1>3, SavingStays DEF Same

\* Before there is anything to save.
LEMMA NothingSaved ==
  ASSUME NEW d \in Deployment,
         stage'[d] \in PrepStage \cup {"running", "ended", "answering", "opening", "saved", "failed"},
         pos'[d] = 1, answer'[d] \in Seq(Seq(STRING)), listed'[d] = {},
         stage'[d] = "opening" => answer'[d] # <<>>,
         stage'[d] = "saved" => answer'[d] = <<>>
  PROVE  SavingOf(d)'
<1>1. \A i \in DOMAIN answer'[d] : i \in Nat /\ ~(i < 1)
  OBVIOUS
<1>2. answer'[d] # <<>> => 1 \in DOMAIN answer'[d]
  BY EmptySeq
<1> QED
  BY <1>1, <1>2 DEF SavingOf, Turn, Stored, Lists, BlockedByOthers, PrepStage

\* Steps before the answer has reached the renter.
LEMMA StepsBeforeSaving ==
  ASSUME Shaped, NEW d \in Deployment, ProviderTree(d), Collected(d), SavingOf(d),
         \/ PrepStep(d) /\ UNCHANGED <<left, answer, renterVars>>
         \/ JobEnds(d) \/ Collect(d) \/ CleanUp(d)
  PROVE  SavingOf(d)'
<1>1. Step(d)
  BY DEF Step
<1>2. answer'[d] \in Seq(Seq(STRING))
  BY <1>1, StepKeepsCollected DEF Collected
<1>3. /\ stage[d] \in PrepStage \cup {"running", "ended", "answering"}
      /\ UNCHANGED <<pos, listed>>
      /\ stage'[d] \in PrepStage \cup {"running", "ended", "answering", "opening", "saved", "failed"}
      /\ stage'[d] = "opening" => answer'[d] # <<>>
      /\ stage'[d] = "saved" => answer'[d] = <<>>
  <2>1. CASE Moves(d) /\ UNCHANGED <<left, answer, renterVars>>
    <3>1. stage[d] \in PrepStage /\ stage'[d] \in PrepStage \cup {"failed"}
      BY <2>1, MovesOnly DEF Shaped
    <3> QED
      BY <2>1, <3>1 DEF renterVars, PrepStage
  <2>2. CASE (UnpackEntry(d) \/ PrepareComposeFiles(d) \/ StartJob(d)) /\ UNCHANGED <<left, answer, renterVars>>
    BY <2>2 DEF UnpackEntry, PrepareComposeFiles, StartJob, Goto, Shaped, renterVars, PrepStage
  <2>3. CASE JobEnds(d) \/ Collect(d)
    BY <2>3 DEF JobEnds, Collect, Goto, Shaped, renterVars
  <2>4. CASE CleanUp(d)
    BY <2>4 DEF CleanUp, Goto, Shaped, renterVars
  <2> QED
    BY <2>1, <2>2, <2>3, <2>4 DEF PrepStep, Moves
<1>4. pos[d] = 1 /\ listed[d] = {}
  BY <1>3 DEF SavingOf, Turn, Lists, PrepStage
<1> QED
  BY <1>2, <1>3, <1>4, NothingSaved

\* An opened file is empty.
LEMMA OpenArtifactSaves ==
  ASSUME Shaped, NEW d \in Deployment, SavingOf(d), OpenArtifact(d),
         \A x \in Deployment : OpenedStay(x)
  PROVE  SavingOf(d)'
<1>1. /\ UNCHANGED <<given, answer, pos, listed>>
      /\ stage[d] = "opening" /\ stage'[d] = "writing"
  BY DEF OpenArtifact, providerVars, Shaped
<1>2. PICK k \in DOMAIN answer[d] : k = pos[d]
  BY <1>1 DEF SavingOf, Turn
<1>3. /\ DOMAIN disk' = DOMAIN disk \cup {Kept(d, k)}
      /\ disk'[Kept(d, k)] = {}
      /\ \A p \in DOMAIN disk \ {Kept(d, k)} : disk'[p] = disk[p]
  BY <1>2 DEF OpenArtifact, Target, Kept
<1>4. \A i : Kept(d, i)' = Kept(d, i)
  BY <1>1, KeptForGood
<1>5. \A i \in DOMAIN answer[d] : Alone(d, i)' => Alone(d, i)
  BY AloneBefore
<1>6. Stored(d)'
  <2>1. ASSUME NEW i \in DOMAIN answer[d], Alone(d, i)', i < pos[d], ~Current(d, i)'
        PROVE  disk'[Kept(d, i)] = Pieces(d, Length[d])
    <3>1. Kept(d, i) # Kept(d, k)
      BY <1>1, <1>2, <1>4, <2>1 DEF Current
    <3>2. Kept(d, i) \in DOMAIN disk /\ disk[Kept(d, i)] = Pieces(d, Length[d])
      BY <1>1, <1>5, <2>1 DEF SavingOf, Stored, Current
    <3> QED
      BY <1>3, <3>1, <3>2
  <2>2. \A i \in DOMAIN answer[d] : i < pos[d] => Kept(d, i) \in DOMAIN disk'
    BY <1>3 DEF SavingOf, Stored
  <2> QED
    BY <1>1, <1>2, <1>3, <1>4, <2>1, <2>2 DEF Stored
<1>7. Turn(d)' /\ Lists(d)' /\ BlockedByOthers(d)'
  BY <1>1 DEF SavingOf, Turn, Lists, BlockedByOthers, PrepStage
<1> QED
  BY <1>6, <1>7 DEF SavingOf

\* A written file holds what was returned, if nobody else has opened it.
LEMMA WriteArtifactSaves ==
  ASSUME Shaped, NEW d \in Deployment, Collected(d), SavingOf(d), WriteArtifact(d),
         \A x \in Deployment : OpenedStay(x)
  PROVE  SavingOf(d)'
<1>1. /\ UNCHANGED <<given, answer, listed>>
      /\ stage[d] = "writing"
      /\ stage'[d] = IF pos[d] < Len(answer[d]) THEN "opening" ELSE "saved"
      /\ pos'[d] = pos[d] + 1
  BY DEF WriteArtifact, providerVars, Shaped
<1>2. PICK k \in DOMAIN answer[d] : k = pos[d]
  BY <1>1 DEF SavingOf, Turn
<1>3. DOMAIN answer[d] = 1 .. Len(answer[d]) /\ Len(answer[d]) \in Nat
  BY DEF Collected
<1>4. \A i : Kept(d, i)' = Kept(d, i)
  BY <1>1, KeptForGood
<1>5. Kept(d, k) \in DOMAIN disk /\ (Alone(d, k) => disk[Kept(d, k)] = {})
  BY <1>1, <1>2 DEF SavingOf, Stored
<1>6. /\ DOMAIN disk' = DOMAIN disk
      /\ disk'[Kept(d, k)] = WriteOver(disk[Kept(d, k)], d, Length[d])
      /\ \A p \in DOMAIN disk \ {Kept(d, k)} : disk'[p] = disk[p]
  BY <1>2, <1>5 DEF WriteArtifact, Target, Kept
<1>7. \A i \in DOMAIN answer[d] : Alone(d, i)' => Alone(d, i)
  BY AloneBefore
<1>8. ASSUME NEW i \in DOMAIN answer[d], i < pos[d] + 1
      PROVE  /\ Kept(d, i) \in DOMAIN disk'
             /\ Alone(d, i) => disk'[Kept(d, i)] = Pieces(d, Length[d])
  <2>1. i < pos[d] \/ i = k
    BY <1>2, <1>3, <1>8
  <2>2. CASE Kept(d, i) = Kept(d, k)
    <3>1. Alone(d, i) => Alone(d, k)
      BY <2>2 DEF Alone
    <3>2. Alone(d, k) => disk'[Kept(d, k)] = Pieces(d, Length[d])
      BY <1>5, <1>6 DEF WriteOver
    <3> QED
      BY <1>5, <1>6, <2>2, <3>1, <3>2
  <2>3. CASE Kept(d, i) # Kept(d, k)
    <3>1. i < pos[d] /\ ~Current(d, i)
      BY <1>2, <2>1, <2>3 DEF Current
    <3>2. Kept(d, i) \in DOMAIN disk /\ (Alone(d, i) => disk[Kept(d, i)] = Pieces(d, Length[d]))
      BY <1>1, <3>1 DEF SavingOf, Stored
    <3> QED
      BY <1>6, <2>3, <3>2
  <2> QED
    BY <2>2, <2>3
<1>9. Stored(d)'
  <2>1. stage'[d] # "writing"
    BY <1>1
  <2> QED
    BY <1>1, <1>4, <1>7, <1>8, <2>1 DEF Stored
<1>10. Turn(d)'
  <2>1. CASE pos[d] < Len(answer[d])
    BY <1>1, <1>2, <1>3, <2>1 DEF Turn, PrepStage
  <2>2. CASE ~(pos[d] < Len(answer[d]))
    <3>1. \A i \in DOMAIN answer[d] : i < pos[d] + 1
      BY <1>2, <1>3, <2>2
    <3> QED
      BY <1>1, <2>2, <3>1 DEF Turn, PrepStage
  <2> QED
    BY <2>1, <2>2
<1>11. Lists(d)' /\ BlockedByOthers(d)'
  BY <1>1 DEF SavingOf, Lists, BlockedByOthers
<1> QED
  BY <1>9, <1>10, <1>11 DEF SavingOf

\* A file that is not written to its end is not listed.
LEMMA WriteFailsSaves ==
  ASSUME Shaped, NEW d \in Deployment, SavingOf(d), WriteFails(d),
         \A x \in Deployment : OpenedStay(x)
  PROVE  SavingOf(d)'
<1>1. /\ UNCHANGED <<given, answer, pos, listed>>
      /\ stage[d] = "writing" /\ stage'[d] = "unsaved" /\ DOMAIN disk' = DOMAIN disk
      /\ \A p \in DOMAIN disk \ {Target(d)} : disk'[p] = disk[p]
  BY DEF WriteFails, providerVars, Shaped
<1>2. \A i : Kept(d, i)' = Kept(d, i)
  BY <1>1, KeptForGood
<1>3. Stored(d)'
  <2>1. PICK k \in DOMAIN answer[d] : k = pos[d]
    BY <1>1 DEF SavingOf, Turn
  <2>2. Target(d) = Kept(d, k)
    BY <2>1 DEF Target, Kept
  <2>3. ASSUME NEW i \in DOMAIN answer[d], i < pos[d], Alone(d, i)', ~Current(d, i)'
        PROVE  disk'[Kept(d, i)] = Pieces(d, Length[d])
    <3>1. ~Current(d, i) /\ Kept(d, i) # Kept(d, k)
      BY <1>1, <1>2, <2>1, <2>3 DEF Current
    <3>2. Kept(d, i) \in DOMAIN disk /\ disk[Kept(d, i)] = Pieces(d, Length[d])
      BY <2>3, <3>1, AloneBefore DEF SavingOf, Stored
    <3> QED
      BY <1>1, <2>2, <3>1, <3>2
  <2> QED
    BY <1>1, <1>2, <2>3 DEF SavingOf, Stored
<1>4. Turn(d)' /\ Lists(d)' /\ BlockedByOthers(d)'
  BY <1>1 DEF SavingOf, Turn, Lists, BlockedByOthers, PrepStage
<1> QED
  BY <1>3, <1>4 DEF SavingOf

\* What is listed is what is saved.
LEMMA RecordSaves ==
  ASSUME Shaped, NEW d \in Deployment, SavingOf(d), Record(d),
         \A x \in Deployment : OpenedStay(x)
  PROVE  SavingOf(d)'
<1>1. /\ UNCHANGED <<given, answer, pos, disk>>
      /\ stage[d] = "saved" /\ stage'[d] = "recorded" /\ listed'[d] = Saved(d)
  BY DEF Record, providerVars, Shaped
<1>2. (\A i : Kept(d, i)' = Kept(d, i)) /\ Saved(d)' = Saved(d)
  BY <1>1, KeptForGood
<1>3. \A i \in DOMAIN answer[d] : Alone(d, i)' => Alone(d, i)
  BY AloneBefore
<1>4. Stored(d)'
  BY <1>1, <1>2, <1>3 DEF SavingOf, Stored, Current
<1>5. Turn(d)' /\ Lists(d)' /\ BlockedByOthers(d)'
  BY <1>1, <1>2 DEF SavingOf, Turn, Lists, BlockedByOthers, PrepStage
<1> QED
  BY <1>4, <1>5 DEF SavingOf

\* A crash of the renter empties its log and keeps its files.
LEMMA CrashKeepsFiles ==
  ASSUME Shaped, faults \in Nat, Crash, NEW d \in Deployment, SavingOf(d)
  PROVE  SavingOf(d)'
<1>1. /\ UNCHANGED <<given, answer, pos, disk>>
      /\ \/ stage'[d] = "crashed"
         \/ /\ stage'[d] = stage[d]
            /\ stage[d] \in {"checking", "recorded", "failed", "blocked", "unsaved"}
      /\ listed'[d] = {}
  BY CrashKeepsShape DEF providerVars
<1>2. \A x \in Deployment : OpenedStay(x)
  BY CrashOpens
<1>3. \A i : Kept(d, i)' = Kept(d, i)
  BY <1>1, KeptForGood
<1>4. \A i \in DOMAIN answer[d] : Alone(d, i)' => Alone(d, i)
  BY <1>2, AloneBefore
<1>5. Stored(d)'
  BY <1>1, <1>3, <1>4 DEF SavingOf, Stored, Current
<1>6. Turn(d)'
  BY <1>1 DEF SavingOf, Turn, PrepStage
<1>7. Lists(d)'
  <2>1. faults' # 0
    BY DEF Crash, Fault
  <2> QED
    BY <1>1, <2>1 DEF Lists
<1>8. BlockedByOthers(d)'
  BY <1>1, <1>2, <1>3 DEF SavingOf, BlockedByOthers, OpenedStay
<1> QED
  BY <1>5, <1>6, <1>7, <1>8 DEF SavingOf

-----------------------------------------------------------------------------
(* The invariant is inductive. *)

\* Saving is blocked only by a file or a directory of another deployment.
LEMMA BlockedSaves ==
  ASSUME Shaped, \A x \in Deployment : given[x] \in Case[x] /\ Collected(x), DiskInv,
         NEW d \in Deployment, SavingOf(d), Blocked(d), \A x \in Deployment : OpenedStay(x)
  PROVE  SavingOf(d)'
<1>1. /\ UNCHANGED <<given, answer, pos, listed, disk>>
      /\ stage[d] = "opening" /\ stage'[d] = "blocked"
  BY DEF Blocked, providerVars, renterVars, Shaped
<1>2. PICK k \in DOMAIN answer[d] : k = pos[d]
  BY <1>1 DEF SavingOf, Turn
<1>3. ~CanStore(disk, diskDirs, Kept(d, k))
  BY <1>2 DEF Blocked, Target, Kept
<1>4. \A x \in Deployment : \A i : Kept(x, i)' = Kept(x, i)
  BY <1>1, KeptForGood
<1>5. \A x \in Deployment : \A i \in DOMAIN answer[x] : Kept(x, i) \in Seq(STRING) /\ Kept(x, i) # <<>>
  BY KeptBelowProject
<1>6. \A i, j \in DOMAIN answer[d] : Kept(d, i) \notin Ancestors(Parent(Kept(d, j)))
  BY KeptApart
<1>7. \E e \in Deployment \ {d} : \E j \in DOMAIN answer[e] :
        IsStrictPrefix(Kept(e, j), Kept(d, k)) \/ IsStrictPrefix(Kept(d, k), Kept(e, j))
  <2>1. \A x, y \in Deployment : \A i \in DOMAIN answer[x] : \A j \in DOMAIN answer[y] :
          Kept(x, i) \in Ancestors(Parent(Kept(y, j))) => IsStrictPrefix(Kept(x, i), Kept(y, j))
    BY <1>5, AboveByElements
  <2>2. CASE ~CanMkdirAll(disk, Parent(Kept(d, k)))
    <3>1. PICK p \in DOMAIN disk : p \in Ancestors(Parent(Kept(d, k)))
      BY <2>2 DEF CanMkdirAll
    <3>2. PICK e \in Deployment : \E j \in DOMAIN answer[e] : Kept(e, j) = p
      BY DEF DiskInv
    <3>3. e # d
      BY <1>6, <3>1, <3>2
    <3> QED
      BY <2>1, <3>1, <3>2, <3>3
  <2>3. CASE Kept(d, k) \in diskDirs
    <3>1. PICK p \in DOMAIN disk : Kept(d, k) \in Ancestors(Parent(p))
      BY <2>3 DEF DiskInv
    <3>2. PICK e \in Deployment : \E j \in DOMAIN answer[e] : Kept(e, j) = p
      BY DEF DiskInv
    <3>3. e # d
      BY <1>6, <3>1, <3>2
    <3> QED
      BY <2>1, <3>1, <3>2, <3>3
  <2> QED
    BY <1>3, <2>2, <2>3 DEF CanStore
<1>8. BlockedByOthers(d)'
  BY <1>1, <1>2, <1>4, <1>7 DEF BlockedByOthers
<1>9. Stored(d)'
  <2>1. ASSUME NEW i \in DOMAIN answer[d], Alone(d, i)' PROVE Alone(d, i)
    BY <2>1, AloneBefore
  <2> QED
    BY <1>1, <1>4, <2>1 DEF SavingOf, Stored, Current
<1>10. Turn(d)' /\ Lists(d)'
  BY <1>1 DEF SavingOf, Turn, Lists, PrepStage
<1> QED
  BY <1>8, <1>9, <1>10 DEF SavingOf

\* A deployment that has opened a file goes on to have.
LEMMA OpenerStays ==
  ASSUME \A x \in Deployment : OpenedStay(x), NEW piece, NEW p, FromOpener(piece, p)
  PROVE  FromOpener(piece, p)'
BY DEF FromOpener, OpenedStay

\* The artifacts directory stays a tree of opened files while none is made.
LEMMA DiskStays ==
  ASSUME DiskInv, \A x \in Deployment : OpenedStay(x),
         DOMAIN disk' = DOMAIN disk, diskDirs' = diskDirs,
         \A p \in DOMAIN disk : \A piece \in disk'[p] : piece \in disk[p] \/ FromOpener(piece, p)'
  PROVE  DiskInv'
<1>1. IsTree(disk, diskDirs)'
  BY DEF DiskInv, IsTree
<1>2. \A p \in DOMAIN disk : \E d \in Deployment : \E i \in DOMAIN answer'[d] : Opened(d, i)' /\ Kept(d, i)' = p
  BY DEF DiskInv, OpenedStay
<1>3. \A p \in DOMAIN disk : \A piece \in disk'[p] : FromOpener(piece, p)'
  <2>1. \A p \in DOMAIN disk : \A piece \in disk[p] : FromOpener(piece, p)
    BY DEF DiskInv
  <2> QED
    BY <2>1, OpenerStays
<1> QED
  BY <1>1, <1>2, <1>3 DEF DiskInv

\* A new file is made with the directories on its way and no others.
LEMMA OpenArtifactKeepsDisk ==
  ASSUME Shaped, DiskInv, \A x \in Deployment : OpenedStay(x),
         NEW d \in Deployment, given[d] \in Case[d], Collected(d), SavingOf(d), OpenArtifact(d)
  PROVE  DiskInv'
<1>1. PICK k \in DOMAIN answer[d] : k = pos[d]
  BY DEF OpenArtifact, SavingOf, Turn
<1>2. PICK target : target = Kept(d, k)
  OBVIOUS
<1>3. target \in Seq(STRING) /\ Inside(target) /\ target # <<>>
  BY <1>2, KeptBelowProject
<1>4. /\ CanStore(disk, diskDirs, target)
      /\ diskDirs' = diskDirs \cup Ancestors(Parent(target))
      /\ DOMAIN disk' = DOMAIN disk \cup {target}
      /\ stage'[d] = "writing" /\ pos' = pos
  BY <1>1, <1>2 DEF OpenArtifact, Target, Kept, Shaped
<1>5. IsTree(disk', diskDirs')
  <2>1. IsTree(disk, diskDirs) /\ diskDirs \subseteq Seq(STRING)
    BY DEF DiskInv
  <2>2. IsTree(disk', diskDirs \cup Ancestors(Parent(target)))
    BY <1>3, <1>4, <2>1, StoreKeepsTree
  <2> QED
    BY <1>4, <2>2
<1>6. DOMAIN disk' \cup diskDirs' \subseteq Seq(STRING)
  <2>1. Ancestors(Parent(target)) \subseteq Seq(STRING)
    BY <1>3, ParentBelow, AncestorsType
  <2> QED
    BY <1>3, <1>4, <2>1 DEF DiskInv
<1>7. k \in DOMAIN answer'[d] /\ Kept(d, k)' = target /\ Opened(d, k)'
  BY <1>1, <1>2, <1>4 DEF OpenedStay, Opened
<1>8. \A p \in DOMAIN disk' : \E e \in Deployment : \E i \in DOMAIN answer'[e] : Opened(e, i)' /\ Kept(e, i)' = p
  <2>1. \A p \in DOMAIN disk : \E e \in Deployment : \E i \in DOMAIN answer'[e] : Opened(e, i)' /\ Kept(e, i)' = p
    BY DEF DiskInv, OpenedStay
  <2> QED
    BY <1>4, <1>7, <2>1
<1>9. \A q \in diskDirs' : \E p \in DOMAIN disk' : q \in Ancestors(Parent(p))
  BY <1>4 DEF DiskInv
<1>10. \A p \in DOMAIN disk' : \A piece \in disk'[p] : FromOpener(piece, p)'
  <2>1. \A p \in DOMAIN disk' : \A piece \in disk'[p] : p \in DOMAIN disk /\ piece \in disk[p]
    BY <1>1, <1>2, <1>4 DEF OpenArtifact, Target, Kept
  <2>2. \A p \in DOMAIN disk : \A piece \in disk[p] : FromOpener(piece, p)
    BY DEF DiskInv
  <2> QED
    BY <2>1, <2>2, OpenerStays
<1> QED
  BY <1>5, <1>6, <1>8, <1>9, <1>10 DEF DiskInv

\* Every step keeps the artifacts directory a tree of opened files.
LEMMA StepKeepsDisk ==
  ASSUME Shaped, DiskInv, NEW d \in Deployment, given[d] \in Case[d], Collected(d), SavingOf(d), Step(d)
  PROVE  DiskInv'
<1>1. \A x \in Deployment : OpenedStay(x)
  BY StepOpens
<1>2. CASE OpenArtifact(d)
  BY <1>1, <1>2, OpenArtifactKeepsDisk
<1>3. CASE WriteArtifact(d) \/ WriteFails(d)
  <2>1. DOMAIN disk' = DOMAIN disk /\ diskDirs' = diskDirs
    BY <1>3 DEF WriteArtifact, WriteFails
  <2>2. PICK k \in DOMAIN answer[d] :
          k = pos[d] /\ k \in DOMAIN answer'[d] /\ Opened(d, k)' /\ Kept(d, k)' = Kept(d, k)
    <3>1. PICK k \in DOMAIN answer[d] : k = pos[d]
      BY <1>3 DEF WriteArtifact, WriteFails, SavingOf, Turn
    <3>2. Opened(d, k)'
      BY <1>3, <3>1 DEF WriteArtifact, WriteFails, Opened, Shaped
    <3> QED
      BY <1>1, <3>1, <3>2 DEF OpenedStay
  <2>3. PICK n : disk' = [disk EXCEPT ![Target(d)] = WriteOver(@, d, n)]
    BY <1>3 DEF WriteArtifact, WriteFails
  <2>4. Target(d) = Kept(d, k)
    BY <2>2 DEF Target, Kept
  <2>5. ASSUME NEW p \in DOMAIN disk, NEW piece \in disk'[p], piece \notin disk[p]
        PROVE  FromOpener(piece, p)'
    <3>1. p = Kept(d, k) /\ piece \in Pieces(d, n)
      BY <2>3, <2>4, <2>5 DEF WriteOver
    <3>2. piece[2] = d
      BY <3>1 DEF Pieces
    <3> QED
      BY <2>2, <3>1, <3>2 DEF FromOpener
  <2> QED
    BY <1>1, <2>1, <2>5, DiskStays
<1>4. CASE ~(OpenArtifact(d) \/ WriteArtifact(d) \/ WriteFails(d))
  <2>1. disk' = disk /\ diskDirs' = diskDirs
    BY <1>4 DEF Step, Saves, JobEnds, Collect, CleanUp, Blocked, Record, renterVars
  <2> QED
    BY <1>1, <2>1, DiskStays
<1> QED
  BY <1>2, <1>3, <1>4

\* A provider's part stays while a deployment waits.
LEMMA WaitingKeeps ==
  ASSUME UNCHANGED given, NEW e \in Deployment, Same(e), ProviderTree(e), Unpacking(e), Prepared(e)
  PROVE  ProviderTree(e)' /\ Unpacking(e)' /\ Prepared(e)'
<1>1. ProviderTree(e)'
  BY TreeStays DEF Same
<1>2. /\ Entries(e)' = Entries(e) /\ ComposePath(e)' = ComposePath(e) /\ Host(e)' = Host(e)
      /\ Prerequisites(e)' = Prerequisites(e)
      /\ LastEntryAt(e, ComposePath(e))' = LastEntryAt(e, ComposePath(e))
      /\ OverridePath' = OverridePath
  BY GivenForGood DEF OverridePath
<1>3. Unpacking(e)'
  <2>1. PICK n : n = Len(Entries(e))
    OBVIOUS
  <2>2. PICK k : k = entry[e] - 1
    OBVIOUS
  <2>3. Replaced(e)' = Replaced(e)
    BY <1>2 DEF Replaced, Same
  <2>4. (Unpacked(e, n) => Unpacked(e, n)') /\ (Unpacked(e, k) => Unpacked(e, k)')
    BY <2>3, UnpackedStays DEF Same
  <2> QED
    BY <1>2, <2>1, <2>2, <2>4 DEF Unpacking, Same
<1>4. Prepared(e)'
  BY <1>2 DEF Prepared, Same
<1> QED
  BY <1>1, <1>3, <1>4

\* Every step of a deployment keeps the invariant.
LEMMA StepKeepsIInv ==
  ASSUME IInv, NEW d \in Deployment, Step(d)
  PROVE  IInv'
<1>1. Shaped /\ DiskInv /\ faults \in 0 .. MaxFaults
  BY DEF IInv
<1>2. \A x \in Deployment : ProviderTree(x) /\ Unpacking(x) /\ Prepared(x) /\ Collected(x) /\ SavingOf(x)
  BY DEF IInv
<1>3. UNCHANGED given /\ Shaped' /\ \A e \in Deployment \ {d} : Same(e)
  BY <1>1, StepsAreLocal
<1>4. faults' \in 0 .. MaxFaults /\ (faults' = 0 => faults = 0)
  <2>1. [Next]_vars
    BY NextIsSteps
  <2>2. faults' \in 0 .. MaxFaults /\ faults' >= faults
    BY <1>1, <2>1, FaultsCounted
  <2> QED
    BY <1>1, <2>2
<1>5. \A x \in Deployment : OpenedStay(x)
  BY <1>1, <1>2, StepOpens
<1>6. ProviderTree(d)' /\ Unpacking(d)' /\ Prepared(d)' /\ Collected(d)'
  BY <1>1, <1>2, StepKeepsTree, StepKeepsUnpacking, StepKeepsPrepared, StepKeepsCollected
<1>7. SavingOf(d)'
  <2>1. CASE \/ PrepStep(d) /\ UNCHANGED <<left, answer, renterVars>>
             \/ JobEnds(d) \/ Collect(d) \/ CleanUp(d)
    BY <1>1, <1>2, <2>1, StepsBeforeSaving
  <2>2. CASE OpenArtifact(d)
    BY <1>1, <1>2, <1>5, <2>2, OpenArtifactSaves
  <2>3. CASE Blocked(d)
    <3>1. \A x \in Deployment : given[x] \in Case[x] /\ Collected(x)
      BY <1>2 DEF ProviderTree
    <3> QED
      BY <1>1, <1>2, <1>5, <2>3, <3>1, BlockedSaves
  <2>4. CASE WriteArtifact(d)
    BY <1>1, <1>2, <1>5, <2>4, WriteArtifactSaves
  <2>5. CASE WriteFails(d)
    BY <1>1, <1>2, <1>5, <2>5, WriteFailsSaves
  <2>6. CASE Record(d)
    BY <1>1, <1>2, <1>5, <2>6, RecordSaves
  <2> QED
    BY <2>1, <2>2, <2>3, <2>4, <2>5, <2>6 DEF Step, Saves
<1>8. ASSUME NEW e \in Deployment \ {d}
      PROVE  ProviderTree(e)' /\ Unpacking(e)' /\ Prepared(e)' /\ Collected(e)' /\ SavingOf(e)'
  <2>1. Same(e) /\ ProviderTree(e) /\ Unpacking(e) /\ Prepared(e) /\ Collected(e) /\ SavingOf(e)
    BY <1>2, <1>3
  <2>2. ProviderTree(e)' /\ Unpacking(e)' /\ Prepared(e)'
    BY <1>3, <2>1, WaitingKeeps
  <2>3. Collected(e)'
    BY <1>3, <2>1, CollectedStays DEF Same
  <2>4. SavingOf(e)'
    BY <1>1, <1>2, <1>4, <2>1, StepKeepsOthersFiles
  <2> QED
    BY <2>2, <2>3, <2>4
<1>9. DiskInv'
  <2>1. given[d] \in Case[d]
    BY <1>2 DEF ProviderTree
  <2> QED
    BY <1>1, <1>2, <2>1, StepKeepsDisk
<1> QED
  BY <1>3, <1>4, <1>6, <1>7, <1>8, <1>9 DEF IInv

\* So does a crash of the renter.
LEMMA CrashKeepsIInv ==
  ASSUME IInv, Crash
  PROVE  IInv'
<1>1. Shaped /\ DiskInv /\ faults \in 0 .. MaxFaults
  BY DEF IInv
<1>2. \A x \in Deployment : ProviderTree(x) /\ Unpacking(x) /\ Prepared(x) /\ Collected(x) /\ SavingOf(x)
  BY DEF IInv
<1>3. /\ Shaped' /\ UNCHANGED <<given, entry, files, dirs, issued, left, answer, pos, disk, diskDirs>>
      /\ \A d \in Deployment :
           \/ stage'[d] = "crashed"
           \/ /\ stage'[d] = stage[d]
              /\ stage[d] \in {"checking", "recorded", "failed", "blocked", "unsaved"}
  BY <1>1, CrashKeepsShape DEF providerVars, treeVars
<1>4. faults' \in 0 .. MaxFaults
  BY <1>1, FaultsCounted DEF Next
<1>5. ASSUME NEW d \in Deployment
      PROVE  ProviderTree(d)' /\ Unpacking(d)' /\ Prepared(d)' /\ Collected(d)' /\ SavingOf(d)'
  <2>1. ProviderTree(d)'
    BY <1>2, <1>3, TreeStays
  <2>2. Unpacking(d)' /\ Prepared(d)'
    BY <1>2, <1>3 DEF Unpacking, Prepared, Preparing
  <2>3. Collected(d)'
    BY <1>2, <1>3, CollectedStays DEF PrepStage
  <2>4. SavingOf(d)'
    <3>1. faults \in Nat
      BY <1>1
    <3> QED
      BY <1>1, <1>2, <3>1, CrashKeepsFiles
  <2> QED
    BY <2>1, <2>2, <2>3, <2>4
<1>6. DiskInv'
  <2>1. \A x \in Deployment : OpenedStay(x)
    BY <1>1, CrashOpens
  <2> QED
    BY <1>1, <1>3, <2>1, DiskStays
<1> QED
  BY <1>3, <1>4, <1>5, <1>6 DEF IInv

\* It holds at the start,
LEMMA InitIInv == Init => IInv
<1> SUFFICES ASSUME Init PROVE IInv
  OBVIOUS
<1>1. ASSUME NEW d \in Deployment
      PROVE  /\ given[d] \in Case[d] /\ stage[d] = "checking" /\ entry[d] = 1
             /\ files[d] = <<>> /\ dirs[d] = {} /\ issued[d] = <<>>
             /\ left[d] = {} /\ answer[d] = <<>> /\ pos[d] = 1 /\ listed[d] = {}
  BY DEF Init, PrepInit
<1>2. Shaped
  BY DEF Init, PrepInit, Shaped, PrepStage
<1>3. faults \in 0 .. MaxFaults
  BY PreparationAssumption DEF Init, PrepInit
<1>4. ASSUME NEW d \in Deployment
      PROVE  ProviderTree(d) /\ Unpacking(d) /\ Prepared(d) /\ Collected(d) /\ SavingOf(d)
  <2>1. DOMAIN files[d] = {} /\ DOMAIN answer[d] = {}
    BY <1>1
  <2>2. ProviderTree(d)
    <3>1. entry[d] \in 1 .. Len(Entries(d)) + 1
      <4>1. Len(Entries(d)) \in Nat
        BY <1>1, CaseTypes
      <4> QED
        BY <1>1, <4>1
    <3>2. IsTree(files[d], dirs[d]) /\ IsFiniteSet(DOMAIN files[d])
      BY <1>1, <2>1, FS_EmptySet DEF IsTree
    <3>3. issued[d] \in Seq({Command(d, a) : a \in {"up", "logs", "down"}})
      BY <1>1, EmptySeq
    <3> QED
      BY <1>1, <2>1, <3>1, <3>2, <3>3 DEF ProviderTree
  <2>3. Unpacking(d) /\ Prepared(d)
    BY <1>1 DEF Unpacking, Prepared, Preparing
  <2>4. Collected(d)
    <3>1. answer[d] \in Seq(Seq(STRING))
      BY <1>1, EmptySeq
    <3> QED
      BY <1>1, <2>1, <3>1 DEF Collected
  <2>5. SavingOf(d)
    BY <1>1, <2>1 DEF SavingOf, Turn, Stored, Lists, BlockedByOthers
  <2> QED
    BY <2>2, <2>3, <2>4, <2>5
<1>5. DiskInv
  <2>1. disk = <<>> /\ DOMAIN disk = {} /\ diskDirs = {}
    BY DEF Init
  <2> QED
    BY <2>1 DEF DiskInv, IsTree
<1> QED
  BY <1>2, <1>3, <1>4, <1>5 DEF IInv

\* and every step keeps it.
LEMMA NextIInv == IInv /\ [Next]_vars => IInv'
<1> SUFFICES ASSUME IInv, [Next]_vars PROVE IInv'
  OBVIOUS
<1>1. CASE Next
  BY <1>1, NextIsSteps, StepKeepsIInv, CrashKeepsIInv
<1>2. CASE UNCHANGED vars
  <2>1. Shaped /\ DiskInv /\ faults \in 0 .. MaxFaults
    BY DEF IInv
  <2>2. \A x \in Deployment : ProviderTree(x) /\ Unpacking(x) /\ Prepared(x) /\ Collected(x) /\ SavingOf(x)
    BY DEF IInv
  <2>3. UNCHANGED <<given, stage, entry, files, dirs, issued, faults, left, answer, pos, disk, diskDirs, listed>>
    BY <1>2 DEF vars, prepVars, treeVars, renterVars
  <2>4. Shaped'
    BY <2>1, <2>3 DEF Shaped
  <2>5. \A x \in Deployment : OpenedStay(x)
    BY <2>3, SameOpened
  <2>6. DiskInv'
    BY <2>1, <2>3, <2>5, DiskStays
  <2>7. ASSUME NEW e \in Deployment
        PROVE  ProviderTree(e)' /\ Unpacking(e)' /\ Prepared(e)' /\ Collected(e)' /\ SavingOf(e)'
    <3>1. ProviderTree(e)' /\ Unpacking(e)' /\ Prepared(e)'
      BY <2>2, <2>3, WaitingKeeps DEF Same
    <3>2. Collected(e)'
      BY <2>2, <2>3, CollectedStays
    <3>3. SavingOf(e)'
      BY <2>2, <2>3, <2>5, SavingStays
    <3> QED
      BY <3>1, <3>2, <3>3
  <2> QED
    BY <2>1, <2>3, <2>4, <2>6, <2>7 DEF IInv
<1> QED
  BY <1>1, <1>2

\* The invariant holds at all times, of every set of deployments and whatever
\* is deployed, left by jobs and returned (executeDeploy, collectArtifacts,
\* saveReturnedArtifacts).
THEOREM Inductive == Spec => []IInv
BY InitIInv, NextIInv, PTL DEF Spec

-----------------------------------------------------------------------------
(* Theorems. *)

\* The properties follow from the invariant.
LEMMA IInvTypeOK == IInv => TypeOK
<1> SUFFICES ASSUME IInv PROVE TypeOK
  OBVIOUS
<1> USE DEF IInv
<1>1. PrepTypeOK
  BY DEF PrepTypeOK, ProviderTree
<1>2. ASSUME NEW d \in Deployment, NEW f \in Range(answer[d]) PROVE Root(d) \o f \in left[d]
  BY <1>2 DEF Collected, Range
<1>3. ASSUME NEW d \in Deployment, NEW p \in listed[d] PROVE p \in DOMAIN disk
  <2>1. stage[d] = "recorded" /\ p \in Saved(d)
    BY DEF SavingOf, Lists
  <2>2. PICK i \in DOMAIN answer[d] : p = Kept(d, i)
    BY <2>1 DEF Saved, Range, Kept
  <2> QED
    BY <2>1, <2>2 DEF SavingOf, Turn, Stored
<1>4. \A d \in Deployment : stage[d] \in {"opening", "writing"} => pos[d] \in DOMAIN answer[d]
  BY DEF SavingOf, Turn
<1>5. IsTree(disk, diskDirs) /\ Shaped
  BY DEF DiskInv
<1> HIDE DEF IInv
<1> QED
  BY <1>1, <1>2, <1>3, <1>4, <1>5 DEF TypeOK, Shaped

LEMMA IInvUnpacked == IInv => UnpackedIsArchive
<1> SUFFICES ASSUME IInv, NEW d \in Deployment, stage[d] \in Preparing
             PROVE  /\ given[d].archive.ends # "whole" =>
                         given[d].archive.format = "tar" /\ given[d].archive.ends = "between"
                    /\ DOMAIN files[d] \cup dirs[d] =
                         Replaced(d) \cup UNION {Ancestors(p) : p \in Described(d)}
                    /\ \A p \in DOMAIN files[d] \ Replaced(d) : LastEntryAt(d, p) = {files[d][p]}
  BY DEF UnpackedIsArchive, Preparing, Replaced
<1>1. ProviderTree(d) /\ EndsWell(given[d].archive) /\ Unpacked(d, Len(Entries(d)))
  BY DEF IInv, Unpacking
<1>2. DOMAIN Entries(d) = 1 .. Len(Entries(d))
  BY <1>1, CaseTypes DEF ProviderTree
<1>3. PathsOf(d, Len(Entries(d))) = UNION {Ancestors(p) : p \in Described(d)}
  BY <1>2 DEF PathsOf, Described
<1>4. \A p \in DOMAIN files[d] \ Replaced(d) : LastEntryAt(d, p) = {files[d][p]}
  BY <1>1, LastEntryKept
<1> QED
  BY <1>1, <1>3, <1>4 DEF Unpacked, EndsWell

LEMMA IInvStarted == IInv => StartedReady
<1> SUFFICES ASSUME IInv, NEW d \in Deployment, stage[d] = "running"
             PROVE  LET compose == LastEntryAt(d, ComposePath(d)) IN
                    /\ compose # {}
                    /\ IF Host(d).runtime = None
                       THEN compose = {files[d][ComposePath(d)]}
                       ELSE /\ Host(d).runtime \in Host(d).runtimes
                            /\ ComposePath(d) # OverridePath => compose = {files[d][ComposePath(d)]}
                            /\ \A c \in compose :
                                 c.services # {} /\ files[d][OverridePath].services = c.services
  BY DEF StartedReady
<1>1. ProviderTree(d) /\ Prepared(d) /\ Unpacked(d, Len(Entries(d)))
  BY DEF IInv, Unpacking, Preparing
<1>2. ASSUME Host(d).runtime = None \/ ComposePath(d) # OverridePath
      PROVE  LastEntryAt(d, ComposePath(d)) = {files[d][ComposePath(d)]}
  <2>1. ComposePath(d) \in DOMAIN files[d] \ Replaced(d)
    BY <1>1, <1>2 DEF Prepared, Replaced
  <2> QED
    BY <1>1, <2>1, LastEntryKept
<1> QED
  BY <1>1, <1>2 DEF Prepared, Prerequisites

LEMMA IInvCommands == IInv => CommandsFindFiles
<1> SUFFICES ASSUME IInv, NEW d \in Deployment, NEW i \in DOMAIN issued[d],
                    stage[d] \in {"running", "ended", "answering"}
             PROVE  Range(issued[d][i].files) \subseteq
                      {IF issued[d][i].wsl THEN ToWSL(p) ELSE p : p \in DOMAIN files[d]}
  BY DEF CommandsFindFiles
<1>1. ProviderTree(d) /\ Prepared(d)
  BY DEF IInv
<1>2. \A j \in DOMAIN issued[d] :
        issued[d][j].files = ComposeFiles(d) /\ issued[d][j].wsl = Host(d).windows
  <2>1. issued[d] \in Seq(Commands(d))
    BY <1>1 DEF ProviderTree, Commands
  <2>2. \A j \in DOMAIN issued[d] : issued[d][j] \in Commands(d)
    BY <2>1, ElementOfSeq
  <2> QED
    BY <2>2 DEF Commands, Command
<1>3. Range(ComposeFiles(d)) \subseteq {Named(d, p) : p \in DOMAIN files[d]}
  <2> DEFINE there == {Named(d, p) : p \in DOMAIN files[d]}
             first == <<Named(d, ComposePath(d))>>
             second == IF Host(d).runtime = None THEN <<>> ELSE <<Named(d, OverridePath)>>
  <2>1. /\ ComposePath(d) \in DOMAIN files[d]
        /\ Host(d).runtime # None => OverridePath \in DOMAIN files[d]
    BY <1>1 DEF Prepared
  <2>2. first \in Seq(there) /\ second \in Seq(there)
    <3>1. Named(d, ComposePath(d)) \in there
      BY <2>1
    <3>2. Host(d).runtime # None => Named(d, OverridePath) \in there
      BY <2>1
    <3> HIDE DEF there
    <3> QED
      BY <3>1, <3>2, OneElement
  <2>3. first \o second \in Seq(there)
    <3> HIDE DEF there, first, second
    <3> QED
      BY <2>2, ConcatProperties
  <2>4. ComposeFiles(d) = first \o second
    BY DEF ComposeFiles
  <2> HIDE DEF there, first, second
  <2>5. Range(ComposeFiles(d)) \subseteq there
    BY <2>3, <2>4, ElementOfSeq DEF Range
  <2> QED
    BY <2>5 DEF there
<1>4. \A p : Named(d, p) = IF Host(d).windows THEN ToWSL(p) ELSE p
  BY DEF Named
<1> QED
  BY <1>2, <1>3, <1>4

LEMMA IInvListed == IInv => EntryListsItsFiles
<1> SUFFICES ASSUME IInv, NEW d \in Deployment PROVE
      /\ listed[d] # {} => listed[d] = {KeptAs(d, f) : f \in WantedBack(d)}
      /\ \A i \in DOMAIN answer[d] :
           i < pos[d] =>
             \/ disk[Kept(d, i)] = Pieces(d, Length[d])
             \/ Rewriting(d, Kept(d, i))
             \/ \E e \in Deployment \ {d} : Touched(e, Kept(d, i))
  BY DEF EntryListsItsFiles, Kept
<1>1. Stored(d) /\ Lists(d) /\ Collected(d)
  BY DEF IInv, SavingOf
<1>2. ASSUME listed[d] # {} PROVE listed[d] = {KeptAs(d, f) : f \in WantedBack(d)}
  <2>1. listed[d] = Saved(d)
    BY <1>1, <1>2 DEF Lists
  <2>2. answer[d] # <<>>
    BY <1>2, <2>1 DEF Saved, Range
  <2> QED
    BY <1>1, <2>1, <2>2 DEF Collected, Saved
<1>3. ASSUME NEW i \in DOMAIN answer[d], i < pos[d]
      PROVE  \/ disk[Kept(d, i)] = Pieces(d, Length[d])
             \/ Rewriting(d, Kept(d, i))
             \/ \E e \in Deployment \ {d} : Touched(e, Kept(d, i))
  <2>1. CASE Alone(d, i)
    <3>1. Current(d, i) => Rewriting(d, Kept(d, i))
      BY DEF Current, Rewriting, Target, Kept
    <3> QED
      BY <1>1, <1>3, <2>1, <3>1 DEF Stored
  <2>2. CASE ~Alone(d, i)
    <3>1. PICK e \in Deployment \ {d} :
            \E j \in DOMAIN answer[e] : Opened(e, j) /\ Kept(e, j) = Kept(d, i)
      BY <2>2 DEF Alone
    <3>2. Touched(e, Kept(d, i))
      BY <3>1 DEF Touched, Opened, Kept, IInv, SavingOf, Turn
    <3> QED
      BY <3>2
  <2> QED
    BY <2>1, <2>2
<1> QED
  BY <1>2, <1>3

LEMMA IInvOrphans == IInv => OrphansExplained
<1> SUFFICES ASSUME IInv, NEW p \in DOMAIN disk PROVE
      /\ \E d \in Deployment :
           Touched(d, p) /\ (p \in listed[d] \/ stage[d] # "recorded" \/ (listed[d] = {} /\ faults > 0))
      /\ \A piece \in disk[p] : piece[2] \in Deployment /\ Touched(piece[2], p)
  BY DEF OrphansExplained
<1>1. \A d \in Deployment : (\E i \in DOMAIN answer[d] : Opened(d, i) /\ Kept(d, i) = p) => Touched(d, p)
  BY DEF Touched, Opened, Kept
<1>2. PICK d \in Deployment : \E i \in DOMAIN answer[d] : Opened(d, i) /\ Kept(d, i) = p
  BY DEF IInv, DiskInv
<1>3. ASSUME stage[d] = "recorded", listed[d] # {} \/ faults = 0 PROVE p \in listed[d]
  <2>1. listed[d] = Saved(d)
    BY <1>3 DEF IInv, SavingOf, Lists
  <2> QED
    BY <1>2, <2>1 DEF Saved, Range, Kept
<1>4. faults \in Nat
  BY DEF IInv
<1>5. ASSUME NEW piece \in disk[p] PROVE piece[2] \in Deployment /\ Touched(piece[2], p)
  BY <1>1 DEF IInv, DiskInv, FromOpener
<1> QED
  BY <1>1, <1>2, <1>3, <1>4, <1>5

LEMMA IInvBlocked == IInv => OnlyOthersBlock
<1> SUFFICES ASSUME IInv, NEW d \in Deployment, stage[d] = "blocked"
             PROVE  \E e \in Deployment \ {d} : \E f \in Range(answer[e]) :
                      \/ IsStrictPrefix(KeptAs(e, f), Target(d))
                      \/ IsStrictPrefix(Target(d), KeptAs(e, f))
  BY DEF OnlyOthersBlock
<1>1. PICK k \in DOMAIN answer[d] : k = pos[d]
  BY DEF IInv, SavingOf, Turn
<1>2. PICK e \in Deployment \ {d} : \E j \in DOMAIN answer[e] :
        IsStrictPrefix(Kept(e, j), Kept(d, k)) \/ IsStrictPrefix(Kept(d, k), Kept(e, j))
  BY <1>1 DEF IInv, SavingOf, BlockedByOthers
<1>3. Target(d) = Kept(d, k)
  BY <1>1 DEF Target, Kept
<1> QED
  BY <1>2, <1>3 DEF Kept, Range

LEMMA IInvReturned == IInv => AllOrNothingReturned
BY DEF IInv, Collected, AllOrNothingReturned

\* Deployment directories and the artifacts directory are trees of files, and
\* what is answered, saved and listed is there (executeDeploy,
\* saveReturnedArtifacts).
THEOREM TypeCorrect == Spec => []TypeOK
BY Inductive, IInvTypeOK, PTL

\* A directory that is unpacked holds every entry that has come and nothing
\* else, each file as its last entry has it; and of an archive that was cut
\* short only a plain tar, cut between two entries, gets as far as that
\* (extractZipArchive, extractTarArchive).
THEOREM UnpackedAsSent == Spec => []UnpackedIsArchive
BY Inductive, IInvUnpacked, PTL

\* Docker is started only on a compose file of the archive, with every service
\* overridden if a runtime is configured (prepareComposeFiles).
THEOREM StartsReady == Spec => []StartedReady
BY Inductive, IInvStarted, PTL

\* Every file that the commands of a deployment name is there, by the name
\* that docker knows it by (dockerComposeCommandArgs).
THEOREM FindsFiles == Spec => []CommandsFindFiles
BY Inductive, IInvCommands, PTL

\* A log entry lists what its job has left at the paths asked for, and each
\* file that was written to its end holds all of it for good, whether the
\* others follow or not, unless another deployment has opened it
\* (saveReturnedArtifacts, recordDeployResult).
THEOREM ListsItsFiles == Spec => []EntryListsItsFiles
BY Inductive, IInvListed, PTL

\* A file below artifacts/ is listed, or its deployment's saving goes on or broke
\* off, or a restart has taken its entry away; and no piece of it is from a
\* deployment that has nothing to save there (saveReturnedArtifacts).
THEOREM NoOrphans == Spec => []OrphansExplained
BY Inductive, IInvOrphans, PTL

\* Saving is blocked only by files of other deployments under the same project
\* name (saveReturnedArtifacts).
THEOREM OthersBlock == Spec => []OnlyOthersBlock
BY Inductive, IInvBlocked, PTL

\* A provider returns all that was asked for, within its limit, or nothing
\* (collectArtifacts).
THEOREM ReturnsAllOrNothing == Spec => []AllOrNothingReturned
BY Inductive, IInvReturned, PTL
=============================================================================
