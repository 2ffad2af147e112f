------------------------------ MODULE FileTree ------------------------------
(***************************************************************************)
(* Paths and files as the program uses them: what filepath.Clean makes of  *)
(* a path somebody else has written, the two checks that keep it inside a  *)
(* directory, and what os.MkdirAll and os.WriteFile need and do.           *)
(*                                                                         *)
(* A path is a sequence of segments, without the slashes between them.  A  *)
(* written path also says whether it starts with a slash.                  *)
(***************************************************************************)
EXTENDS Naturals, Sequences, SequencesExt

\* Segments that lead nowhere: two slashes in a row, or a dot.
Idle == {"", "."}

\* One segment further: ".." takes the last segment away, unless there is
\* none left that it could.
Follow(done, segment) ==
  CASE segment \in Idle -> done
    [] segment = ".." /\ done # <<>> /\ Last(done) # ".." -> Front(done)
    [] OTHER -> Append(done, segment)

\* filepath.Clean, for a path that does not start with a slash; <<>> is ".".
Clean(segments) == FoldLeft(Follow, <<>>, segments)

Outside(clean) == clean # <<>> /\ Head(clean) = ".."

\* A slip: a path that leads out of the directory passes.
SafeUnlessRooted(path) == ~path.rooted /\ Clean(path.segments) # <<>>

\* safeRelativePath and safeArchivePath accept the path.
Safe(path) ==
  /\ ~path.rooted
  /\ Clean(path.segments) # <<>>
  /\ ~Outside(Clean(path.segments))

\* filepath.Join, which cleans what it has joined.
Join(dir, path) == Clean(dir \o path)

\* The directories on the way to path, path itself included.
Ancestors(path) == {SubSeq(path, 1, n) : n \in 1 .. Len(path)}

\* os.MkdirAll(path) works: no file is in the way.
CanMkdirAll(files, path) == Ancestors(path) \cap DOMAIN files = {}

\* The directory a file is in.
Parent(path) == Front(path)

\* A slip: what is there already is not overwritten.
StoreNew(files, dirs, path) ==
  CanMkdirAll(files, Parent(path)) /\ path \notin DOMAIN files \cup dirs

\* Both steps of storing a file work: no file is where a directory has to
\* be, and no directory where the file is to be.
CanStore(files, dirs, path) == CanMkdirAll(files, Parent(path)) /\ path \notin dirs

=============================================================================
