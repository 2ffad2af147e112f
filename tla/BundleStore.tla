---------------------------- MODULE BundleStore ----------------------------
(***************************************************************************)
(* The bundle library of a node: POST and DELETE /api/bundles (web.go) and *)
(* readBundleFile, with which a deployment reads the bundle it sends.      *)
(* Requests run concurrently and nothing locks the directory: an upload    *)
(* stores its files one after the other, each by os.WriteFile, which opens *)
(* and empties the file and then writes; a removal takes the name away     *)
(* from whoever has the file open; a reader takes it piece by piece.       *)
(***************************************************************************)
EXTENDS FileData, Sequences, FiniteSets

CONSTANTS
  Upload,      \* POST requests, each sent once
  Deployment,  \* deployments, each reading one bundle
  Name,        \* file names, as browsers send them and as they are stored
  SafeName,    \* SafeName[n]: what safeFileName makes of n
  File,        \* the files of all uploads
  Files,       \* Files[u]: the files of u, in order
  NameOf,      \* NameOf[f]: the name f was sent with
  Size,        \* Size[f]: its length in pieces
  Decodable,   \* the files whose data is proper base64
  MaxRemoved,  \* bound: removals
  MaxFaults,   \* bound: how many things go wrong
  Nothing      \* no file, no index

ASSUME StoreAssumption ==
  /\ Files \in [Upload -> Seq(File)]
  /\ \A u, v \in Upload : \A i \in DOMAIN Files[u], j \in DOMAIN Files[v] :
       Files[u][i] = Files[v][j] => u = v /\ i = j
  /\ NameOf \in [File -> Name]
  /\ SafeName \in [Name -> Name]
  /\ \A n \in Name : SafeName[SafeName[n]] = SafeName[n]
  /\ Size \in [File -> Nat \ {0}]
  /\ MaxRemoved \in Nat /\ MaxFaults \in Nat
  /\ Nothing \notin File

VARIABLES
  entry,     \* entry[n]: the file the name leads to, known by its creator
  data,      \* data[f]: what the file created for f holds
  upload,    \* upload[u]: how far the handler of u is
  pos,       \* pos[u]: the index of the file it is at
  fd,        \* fd[u]: the file it has open
  read,      \* read[d]: how far readBundleFile is
  wanted,    \* wanted[d]: the name it has opened
  handle,    \* handle[d]: the file it has open
  got,       \* got[d]: the pieces it has read
  removed,   \* how many removals there were
  faults,    \* how many things have gone wrong
  spoiled,   \* history: files left behind by a failed or an overlapping write
  blurred    \* history: readers of a file that was spoiled or being written

uploadVars == <<upload, pos, fd>>
readVars == <<read, wanted, handle, got>>
history == <<spoiled, blurred>>
vars == <<entry, data, uploadVars, readVars, removed, faults, history>>

Piece == Nat \X File

TypeOK ==
  /\ entry \in [Name -> File \cup {Nothing}]
  /\ data \in [File -> SUBSET Piece]
  /\ upload \in [Upload -> {"idle", "decoding", "opening", "writing", "ok", "failed"}]
  /\ pos \in [Upload -> Nat \ {0}]
  /\ \A u \in Upload : upload[u] = "idle" => pos[u] = 1
  /\ \A u \in Upload :
       upload[u] \in {"decoding", "opening", "writing"} => pos[u] \in DOMAIN Files[u]
  /\ fd \in [Upload -> File \cup {Nothing}]
  /\ \A u \in Upload : upload[u] = "writing" => fd[u] # Nothing
  /\ read \in [Deployment -> {"idle", "reading", "sent", "failed"}]
  /\ wanted \in [Deployment -> Name \cup {Nothing}]
  /\ handle \in [Deployment -> File \cup {Nothing}]
  /\ \A d \in Deployment : read[d] = "reading" => handle[d] # Nothing
  /\ got \in [Deployment -> SUBSET Piece]
  /\ removed \in 0 .. MaxRemoved
  /\ faults \in 0 .. MaxFaults
  /\ spoiled \subseteq File
  /\ blurred \subseteq Deployment

Init ==
  /\ entry = [n \in Name |-> Nothing]
  /\ data = [f \in File |-> {}]
  /\ upload = [u \in Upload |-> "idle"]
  /\ pos = [u \in Upload |-> 1]
  /\ fd = [u \in Upload |-> Nothing]
  /\ read = [d \in Deployment |-> "idle"]
  /\ wanted = [d \in Deployment |-> Nothing]
  /\ handle = [d \in Deployment |-> Nothing]
  /\ got = [d \in Deployment |-> {}]
  /\ removed = 0
  /\ faults = 0
  /\ spoiled = {}
  /\ blurred = {}

Fault == faults < MaxFaults /\ faults' = faults + 1

\* The file u is at, and the name it is stored under.
Current(u) == Files[u][pos[u]]
StoredAs(f) == SafeName[NameOf[f]]

Writers(f) == {u \in Upload : upload[u] = "writing" /\ fd[u] = f}
Readers(f) == {d \in Deployment : read[d] = "reading" /\ handle[d] = f}

\* The whole of what was uploaded as f.
Whole(f) == Pieces(f, Size[f])

-----------------------------------------------------------------------------
(* Uploads. *)

\* A slip: the loop goes on after the last file.
AdvancePast(u) ==
  /\ pos' = [pos EXCEPT ![u] = @ + 1]
  /\ upload' = [upload EXCEPT ![u] = IF pos[u] <= Len(Files[u]) THEN "decoding" ELSE "ok"]

\* The loop goes on with the next file, or the request has been served.
Advance(u) ==
  /\ pos' = [pos EXCEPT ![u] = @ + 1]
  /\ upload' = [upload EXCEPT ![u] = IF pos[u] < Len(Files[u]) THEN "decoding" ELSE "ok"]

\* The request has been read and has files; one without is served at once
\* and changes nothing.
Receive(u) ==
  /\ upload[u] = "idle"
  /\ Files[u] # <<>>
  /\ upload' = [upload EXCEPT ![u] = "decoding"]
  /\ UNCHANGED <<entry, data, pos, fd, readVars, removed, faults, history>>

\* A slip: a file that cannot be decoded is passed over.
PassOver(u) == Advance(u)

\* A file cannot be decoded: the rest of the request is not looked at.
GiveUp(u) == upload' = [upload EXCEPT ![u] = "failed"] /\ UNCHANGED pos

Decode(u) ==
  /\ upload[u] = "decoding"
  /\ \/ Current(u) \in Decodable /\ upload' = [upload EXCEPT ![u] = "opening"] /\ UNCHANGED pos
     \/ Current(u) \notin Decodable /\ GiveUp(u)
  /\ UNCHANGED <<entry, data, fd, readVars, removed, faults, history>>

\* The file a name leads to once it has been opened for writing.
FileAt(n, f) == IF entry[n] = Nothing THEN f ELSE entry[n]

\* A slip: the file is opened without O_TRUNC.
KeepOld(f) == data[f]

Truncate(f) == {}

\* os.WriteFile opens: the file is created, or the one under that name is
\* emptied, whoever else is writing or reading it.
Open(u) ==
  LET n == StoredAs(Current(u))
      f == FileAt(n, Current(u))
  IN
  /\ upload[u] = "opening"
  /\ upload' = [upload EXCEPT ![u] = "writing"]
  /\ entry' = [entry EXCEPT ![n] = f]
  /\ data' = [data EXCEPT ![f] = Truncate(f)]
  /\ fd' = [fd EXCEPT ![u] = f]
  /\ spoiled' = IF Writers(f) = {} THEN spoiled \ {f} ELSE spoiled \cup {f}
  /\ blurred' = blurred \cup Readers(f)
  /\ UNCHANGED <<pos, readVars, removed, faults>>

OpenFails(u) ==
  /\ upload[u] = "opening"
  /\ upload' = [upload EXCEPT ![u] = "failed"]
  /\ Fault
  /\ UNCHANGED <<entry, data, pos, fd, readVars, removed, history>>

\* ... and writes from the start of the file it has open, which another
\* upload may have filled in the meantime.
Write(u) ==
  /\ upload[u] = "writing"
  /\ data' = [data EXCEPT ![fd[u]] = WriteOver(@, Current(u), Size[Current(u)])]
  /\ Advance(u)
  /\ UNCHANGED <<entry, fd, readVars, removed, faults, history>>

\* The disk is full: some of it is written.
WriteFails(u) ==
  /\ upload[u] = "writing"
  /\ \E n \in 0 .. Size[Current(u)] - 1 :
       data' = [data EXCEPT ![fd[u]] = WriteOver(@, Current(u), n)]
  /\ upload' = [upload EXCEPT ![u] = "failed"]
  /\ spoiled' = spoiled \cup {fd[u]}
  /\ Fault
  /\ UNCHANGED <<entry, pos, fd, readVars, removed, blurred>>

\* DELETE: an error, as for a name that leads nowhere, is ignored.
RemoveBundle(n) ==
  /\ removed < MaxRemoved
  /\ removed' = removed + 1
  /\ entry' = [entry EXCEPT ![SafeName[n]] = Nothing]
  /\ UNCHANGED <<data, uploadVars, readVars, faults, history>>

-----------------------------------------------------------------------------
(* Deployments read bundles. *)

\* os.ReadFile opens the file the name leads to.
OpenBundle(d, n) ==
  /\ read[d] = "idle"
  /\ entry[SafeName[n]] # Nothing
  /\ read' = [read EXCEPT ![d] = "reading"]
  /\ wanted' = [wanted EXCEPT ![d] = SafeName[n]]
  /\ handle' = [handle EXCEPT ![d] = entry[SafeName[n]]]
  /\ blurred' = IF handle'[d] \in spoiled \/ Writers(handle'[d]) # {}
                THEN blurred \cup {d} ELSE blurred
  /\ UNCHANGED <<entry, data, uploadVars, got, removed, faults, spoiled>>

\* The bundle was removed after the page had listed it.
NoBundle(d, n) ==
  /\ read[d] = "idle"
  /\ entry[SafeName[n]] = Nothing
  /\ read' = [read EXCEPT ![d] = "failed"]
  /\ UNCHANGED <<entry, data, uploadVars, wanted, handle, got, removed, faults, history>>

\* What the file has now after the pieces that have been read.
NextPiece(d) == {piece \in data[handle[d]] : piece[1] = Cardinality(got[d]) + 1}

ReadPiece(d) ==
  /\ read[d] = "reading"
  /\ NextPiece(d) # {}
  /\ got' = [got EXCEPT ![d] = @ \cup NextPiece(d)]
  /\ UNCHANGED <<entry, data, uploadVars, read, wanted, handle, removed, faults, history>>

\* The end of the file as it is now: what was read becomes the archive.
ReadEnds(d) ==
  /\ read[d] = "reading"
  /\ NextPiece(d) = {}
  /\ read' = [read EXCEPT ![d] = "sent"]
  /\ UNCHANGED <<entry, data, uploadVars, wanted, handle, got, removed, faults, history>>

\* The node stops and starts again; the directory is what it was.
Crash ==
  /\ Fault
  /\ upload' = [u \in Upload |-> IF upload[u] = "idle" \/ upload[u] = "ok" THEN upload[u] ELSE "failed"]
  /\ read' = [d \in Deployment |-> IF read[d] = "reading" THEN "failed" ELSE read[d]]
  /\ spoiled' = spoiled \cup {fd[u] : u \in {v \in Upload : upload[v] = "writing"}}
  /\ UNCHANGED <<entry, data, pos, fd, wanted, handle, got, removed, blurred>>

UploadStep(u) == Receive(u) \/ Decode(u) \/ Open(u) \/ OpenFails(u) \/ Write(u) \/ WriteFails(u)

ReadStep(d) == (\E n \in Name : OpenBundle(d, n) \/ NoBundle(d, n)) \/ ReadPiece(d) \/ ReadEnds(d)

Next ==
  \/ \E u \in Upload : UploadStep(u)
  \/ \E d \in Deployment : ReadStep(d)
  \/ \E n \in Name : RemoveBundle(n)
  \/ Crash

Spec == Init /\ [][Next]_vars

-----------------------------------------------------------------------------
(* Properties. *)

\* What a deployment sends is one upload, all of it, stored under the name
\* it asked for: unless the file was written while it was read, or an upload
\* before had failed on it or had met another one there (readBundleFile
\* takes no lock against the handlers of /api/bundles).  And of whatever
\* mixture it then sends, each piece is from an upload under that name.
SentIsOneUpload ==
  \A d \in Deployment :
    /\ read[d] = "sent" /\ d \notin blurred =>
         \E f \in File : StoredAs(f) = wanted[d] /\ got[d] = Whole(f)
    /\ \A piece \in got[d] : piece[2] \in File /\ StoredAs(piece[2]) = wanted[d]

\* u had the library to itself.
Undisturbed(u) == removed = 0 /\ \A v \in Upload \ {u} : upload[v] = "idle"

\* The indices of the files of u stored, or being stored, under name n.
StoredUnder(u, n) == {i \in DOMAIN Files[u] : i <= pos[u] /\ StoredAs(Files[u][i]) = n}

\* Whether it is served or gives up half-way (web.go:56-67), an upload that
\* had the library to itself has stored a beginning of its list of files:
\* a name holds the last of those before the one it gave up on.
UploadStoresBeginning ==
  \A u \in Upload :
    upload[u] \in {"ok", "failed"} /\ Undisturbed(u) =>
      \A n \in Name :
        LET stored == StoredUnder(u, n) IN
        /\ entry[n] # Nothing => stored # {}
        /\ stored # {} /\ pos[u] \notin stored =>
             /\ entry[n] # Nothing
             /\ \E i \in stored :
                  (\A j \in stored : j <= i) /\ data[entry[n]] = Whole(Files[u][i])
=============================================================================
