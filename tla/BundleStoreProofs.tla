------------------------- MODULE BundleStoreProofs -------------------------
(***************************************************************************)
(* What is sent and what is stored, for any uploads, deployments, names    *)
(* and sizes.                                                              *)
(***************************************************************************)
EXTENDS BundleStore, TLAPS, FiniteSetTheorems, FunctionTheorems, SequenceTheorems

-----------------------------------------------------------------------------
(* Types. *)

\* Names are cleaned to names.
LEMMA StoredUnderName ==
  ASSUME NEW f \in File
  PROVE  StoredAs(f) \in Name
  BY StoreAssumption DEF StoredAs

\* What is written is pieces of the file that is uploaded.
LEMMA WrittenPieces ==
  ASSUME NEW old \in SUBSET Piece, NEW f \in File, NEW n \in Nat
  PROVE  WriteOver(old, f, n) \in SUBSET Piece
  BY DEF WriteOver, Pieces, Piece

\* An index in a list of files gives one of them, and the next index is in it
\* or is past its end.
LEMMA FileIndex ==
  ASSUME NEW u \in Upload, NEW i \in DOMAIN Files[u]
  PROVE  /\ Files[u][i] \in File
         /\ Len(Files[u]) \in Nat
         /\ i \in Nat /\ 0 < i /\ i <= Len(Files[u])
         /\ i < Len(Files[u]) => i + 1 \in DOMAIN Files[u]
         /\ ~(i < Len(Files[u])) => i = Len(Files[u])
<1>1. Files[u] \in Seq(File)
  BY StoreAssumption
<1>2. DOMAIN Files[u] = 1 .. Len(Files[u]) /\ Len(Files[u]) \in Nat
  BY <1>1, LenProperties
<1> QED
  BY <1>1, <1>2, ElementOfSeq

\* Going on with the next file keeps the types of what it changes.
LEMMA AdvanceType ==
  ASSUME TypeOK, NEW u \in Upload, pos[u] \in DOMAIN Files[u], Advance(u)
  PROVE  /\ upload' \in [Upload -> {"idle", "decoding", "opening", "writing", "ok", "failed"}]
         /\ pos' \in [Upload -> Nat \ {0}]
         /\ \A v \in Upload :
              upload'[v] \in {"decoding", "opening", "writing"} => pos'[v] \in DOMAIN Files[v]
         /\ upload'[u] \notin {"idle", "writing"} /\ \A v \in Upload \ {u} : upload'[v] = upload[v] /\ pos'[v] = pos[v]
  BY FileIndex DEF Advance, TypeOK

LEMMA UploadTypes ==
  ASSUME TypeOK, NEW u \in Upload, UploadStep(u)
  PROVE  TypeOK'
<1> USE DEF TypeOK, uploadVars, readVars, history
<1>1. CASE Receive(u)
  <2>1. Files[u] \in Seq(File) /\ Files[u] # <<>>
    BY <1>1, StoreAssumption DEF Receive
  <2>2. 1 \in DOMAIN Files[u]
    BY <2>1
  <2>3. pos[u] = 1
    BY <1>1 DEF Receive
  <2> QED
    BY <1>1, <2>2, <2>3 DEF Receive
<1>2. CASE Decode(u)
  <2>1. pos[u] \in DOMAIN Files[u]
    BY <1>2 DEF Decode
  <2> QED
    BY <1>2, <2>1 DEF Decode, GiveUp
<1>3. CASE Open(u)
  <2>1. Current(u) \in File /\ pos[u] \in DOMAIN Files[u]
    BY <1>3, FileIndex DEF Open, Current
  <2>2. StoredAs(Current(u)) \in Name
    BY <2>1, StoredUnderName
  <2>3. FileAt(StoredAs(Current(u)), Current(u)) \in File
    BY <2>1, <2>2 DEF FileAt
  <2> QED
    BY <1>3, <2>1, <2>2, <2>3, StoreAssumption DEF Open, Truncate, Readers
<1>4. CASE OpenFails(u)
  BY <1>4, StoreAssumption DEF OpenFails, Fault
<1>5. CASE Write(u)
  <2>1. pos[u] \in DOMAIN Files[u] /\ fd[u] \in File
    BY <1>5 DEF Write
  <2>2. Current(u) \in File /\ Size[Current(u)] \in Nat
    BY <2>1, FileIndex, StoreAssumption DEF Current
  <2>3. WriteOver(data[fd[u]], Current(u), Size[Current(u)]) \in SUBSET Piece
    BY <2>1, <2>2, WrittenPieces
  <2>4. data' \in [File -> SUBSET Piece]
    BY <1>5, <2>3 DEF Write
  <2>5. /\ upload' \in [Upload -> {"idle", "decoding", "opening", "writing", "ok", "failed"}]
        /\ pos' \in [Upload -> Nat \ {0}]
        /\ \A v \in Upload :
             upload'[v] \in {"decoding", "opening", "writing"} => pos'[v] \in DOMAIN Files[v]
        /\ upload'[u] \notin {"idle", "writing"}
        /\ \A v \in Upload \ {u} : upload'[v] = upload[v] /\ pos'[v] = pos[v]
    BY <1>5, <2>1, AdvanceType DEF Write
  <2> QED
    BY <1>5, <2>4, <2>5 DEF Write
<1>6. CASE WriteFails(u)
  <2>1. pos[u] \in DOMAIN Files[u] /\ fd[u] \in File
    BY <1>6 DEF WriteFails
  <2>2. Current(u) \in File /\ Size[Current(u)] \in Nat
    BY <2>1, FileIndex, StoreAssumption DEF Current
  <2>3. \A n \in 0 .. Size[Current(u)] - 1 : WriteOver(data[fd[u]], Current(u), n) \in SUBSET Piece
    BY <2>1, <2>2, WrittenPieces
  <2>4. data' \in [File -> SUBSET Piece]
    BY <1>6, <2>3 DEF WriteFails
  <2> QED
    BY <1>6, <2>1, <2>4, StoreAssumption DEF WriteFails, Fault
<1> QED
  BY <1>1, <1>2, <1>3, <1>4, <1>5, <1>6 DEF UploadStep

LEMMA OtherTypes ==
  ASSUME TypeOK,
         \/ \E d \in Deployment : ReadStep(d)
         \/ \E n \in Name : RemoveBundle(n)
         \/ Crash
  PROVE  TypeOK'
<1> USE DEF TypeOK, uploadVars, readVars, history
<1>1. ASSUME NEW d \in Deployment, NEW n \in Name, OpenBundle(d, n)
      PROVE  TypeOK'
  <2>1. SafeName[n] \in Name
    BY StoreAssumption
  <2>2. entry[SafeName[n]] \in File
    BY <1>1, <2>1 DEF OpenBundle
  <2> QED
    BY <1>1, <2>1, <2>2, StoreAssumption DEF OpenBundle
<1>2. ASSUME NEW d \in Deployment, NEW n \in Name, NoBundle(d, n)
      PROVE  TypeOK'
  BY <1>2 DEF NoBundle
<1>3. ASSUME NEW d \in Deployment, ReadPiece(d)
      PROVE  TypeOK'
  <2>1. NextPiece(d) \in SUBSET Piece
    BY <1>3 DEF ReadPiece, NextPiece
  <2>2. got[d] \cup NextPiece(d) \in SUBSET Piece
    BY <2>1
  <2>3. got' \in [Deployment -> SUBSET Piece]
    BY <1>3, <2>2 DEF ReadPiece
  <2> QED
    BY <1>3, <2>3 DEF ReadPiece
<1>4. ASSUME NEW d \in Deployment, ReadEnds(d)
      PROVE  TypeOK'
  BY <1>4 DEF ReadEnds
<1>5. ASSUME NEW n \in Name, RemoveBundle(n)
      PROVE  TypeOK'
  <2>1. entry' \in [Name -> File \cup {Nothing}]
    BY <1>5, StoreAssumption DEF RemoveBundle
  <2> QED
    BY <1>5, <2>1, StoreAssumption DEF RemoveBundle
<1>6. ASSUME Crash
      PROVE  TypeOK'
  <2>1. \A v \in Upload : upload[v] = "writing" => fd[v] \in File
    OBVIOUS
  <2>2. spoiled' \subseteq File
    BY <1>6, <2>1 DEF Crash
  <2>3. /\ upload' \in [Upload -> {"idle", "decoding", "opening", "writing", "ok", "failed"}]
        /\ \A v \in Upload : upload'[v] \notin {"decoding", "opening", "writing"}
    BY <1>6 DEF Crash
  <2>4. /\ read' \in [Deployment -> {"idle", "reading", "sent", "failed"}]
        /\ \A d \in Deployment : read'[d] # "reading"
    BY <1>6 DEF Crash
  <2> QED
    BY <1>6, <2>2, <2>3, <2>4, StoreAssumption DEF Crash, Fault
<1> QED
  BY <1>1, <1>2, <1>3, <1>4, <1>5, <1>6 DEF ReadStep

LEMMA StutterTypes ==
  ASSUME TypeOK, UNCHANGED vars
  PROVE  TypeOK'
  BY DEF TypeOK, vars, uploadVars, readVars, history

LEMMA InitTypes ==
  ASSUME Init
  PROVE  TypeOK
  BY StoreAssumption DEF Init, TypeOK

\* Every state of the bundle library has its type.
THEOREM StoreTypeCorrect == Spec => []TypeOK
<1>1. TypeOK /\ [Next]_vars => TypeOK'
  BY UploadTypes, OtherTypes, StutterTypes DEF Next
<1> QED
  BY <1>1, InitTypes, PTL DEF Spec

-----------------------------------------------------------------------------
(* Files in use, and what is known of them. *)

\* A name leads to the file, or a deployment is reading it.
InUse(f) ==
  \/ \E n \in Name : entry[n] = f
  \/ Readers(f) # {}

\* A name leads to a file that was created under it.
EntriesNamed == \A n \in Name : entry[n] # Nothing => StoredAs(entry[n]) = n

\* An upload writes to a file of the name of what it writes.
WritersNamed ==
  \A u \in Upload : upload[u] = "writing" => StoredAs(fd[u]) = StoredAs(Current(u))

\* Who writes to a file that is not spoiled has found it empty and is alone.
WrittenAlone ==
  \A f \in File \ spoiled : \A u \in Writers(f) : data[f] = {} /\ Writers(f) = {u}

\* f holds all of one upload, of its own name.
HoldsOneUpload(f) == \E g \in File : StoredAs(g) = StoredAs(f) /\ data[f] = Whole(g)

\* A file in use that is neither written nor spoiled is whole.
WholeOnceWritten ==
  \A f \in File \ spoiled : InUse(f) /\ Writers(f) = {} => HoldsOneUpload(f)

\* d has read the first k pieces of what was uploaded as g.
HasRead(d, g, k) == data[handle[d]] = Whole(g) /\ got[d] = Pieces(g, k)

\* A reader that is not blurred has a beginning of the file it has open.
ReadersClear ==
  \A d \in Deployment :
    /\ read[d] = "idle" => got[d] = {}
    /\ read[d] = "reading" /\ d \notin blurred =>
         /\ handle[d] \notin spoiled
         /\ Writers(handle[d]) = {}
         /\ wanted[d] = StoredAs(handle[d])
         /\ \E g \in File : \E k \in 0 .. Size[g] : StoredAs(g) = wanted[d] /\ HasRead(d, g, k)

\* A deployment that is not blurred sends one upload.
SentClear ==
  \A d \in Deployment :
    read[d] = "sent" /\ d \notin blurred =>
      \E f \in File : StoredAs(f) = wanted[d] /\ got[d] = Whole(f)

Sending ==
  /\ TypeOK
  /\ EntriesNamed
  /\ WritersNamed
  /\ WrittenAlone
  /\ WholeOnceWritten
  /\ ReadersClear
  /\ SentClear

-----------------------------------------------------------------------------
(* Pieces: what a reader has, and what it gets next. *)

\* n pieces are n.
LEMMA PiecesCounted ==
  ASSUME NEW w, NEW n \in Nat
  PROVE  Cardinality(Pieces(w, n)) = n
<1> DEFINE place == [k \in 1 .. n |-> <<k, w>>]
<1>1. place \in Bijection(1 .. n, Pieces(w, n))
  <2>1. place \in [1 .. n -> Pieces(w, n)]
    BY DEF Pieces
  <2>2. \A j, k \in 1 .. n : place[j] = place[k] => j = k
    OBVIOUS
  <2>3. \A piece \in Pieces(w, n) : \E k \in 1 .. n : place[k] = piece
    BY DEF Pieces
  <2> HIDE DEF place
  <2> QED
    BY <2>1, <2>2, <2>3, Fun_IsBij
<1>2. ExistsBijection(1 .. n, Pieces(w, n))
  BY <1>1 DEF ExistsBijection
<1>3. IsFiniteSet(1 .. n) /\ Cardinality(1 .. n) = n
  BY FS_Interval
<1> QED
  BY <1>2, <1>3, FS_Bijection

\* A reader that has the first k pieces of a whole file gets the next one, or
\* nothing if it has all.
LEMMA NextInOrder ==
  ASSUME NEW d \in Deployment, NEW g \in File, NEW k \in 0 .. Size[g], HasRead(d, g, k)
  PROVE  IF k < Size[g] THEN got[d] \cup NextPiece(d) = Pieces(g, k + 1) /\ NextPiece(d) # {}
                        ELSE got[d] = Whole(g) /\ NextPiece(d) = {}
<1>1. Size[g] \in Nat
  BY StoreAssumption
<1>2. NextPiece(d) = {piece \in Pieces(g, Size[g]) : piece[1] = k + 1}
  BY <1>1, PiecesCounted DEF HasRead, NextPiece, Whole
<1>3. CASE k < Size[g]
  <2>1. NextPiece(d) = {<<k + 1, g>>}
    BY <1>1, <1>2, <1>3 DEF Pieces
  <2>2. Pieces(g, k) \cup {<<k + 1, g>>} = Pieces(g, k + 1)
    BY <1>1, <1>3 DEF Pieces
  <2> QED
    BY <1>3, <2>1, <2>2 DEF HasRead
<1>4. CASE k = Size[g]
  <2>1. NextPiece(d) = {}
    BY <1>1, <1>2, <1>4 DEF Pieces
  <2> QED
    BY <1>1, <1>4, <2>1 DEF HasRead, Whole
<1> QED
  BY <1>1, <1>3, <1>4

\* Who writes to an empty file leaves it whole.
LEMMA WrittenWhole ==
  ASSUME NEW f
  PROVE  WriteOver({}, f, Size[f]) = Whole(f)
  BY DEF WriteOver, Whole

-----------------------------------------------------------------------------
(* What is sent. *)

\* A step that leaves files and uploads alone keeps what is known of them.
LEMMA FilesLeftAlone ==
  ASSUME Sending, UNCHANGED <<data, uploadVars, spoiled>>,
         \A n \in Name : entry'[n] \in {entry[n], Nothing},
         \A f \in File : Readers(f)' \subseteq Readers(f) \cup {d \in Deployment : \E n \in Name : entry[n] = f}
  PROVE  /\ EntriesNamed'
         /\ WritersNamed'
         /\ WrittenAlone'
         /\ WholeOnceWritten'
<1> USE DEF uploadVars
<1>1. EntriesNamed'
  BY DEF Sending, EntriesNamed, StoredAs
<1>2. WritersNamed'
  BY DEF Sending, WritersNamed, StoredAs, Current
<1>3. \A f : Writers(f)' = Writers(f)
  BY DEF Writers
<1>4. WrittenAlone'
  BY <1>3 DEF Sending, WrittenAlone
<1>5. \A f \in File : InUse(f)' => InUse(f)
  BY StoreAssumption DEF InUse
<1>6. WholeOnceWritten'
  BY <1>3, <1>5 DEF Sending, WholeOnceWritten, HoldsOneUpload, StoredAs, Whole
<1> QED
  BY <1>1, <1>2, <1>4, <1>6

LEMMA ReadingHolds ==
  ASSUME Sending, TypeOK', NEW d \in Deployment, ReadStep(d)
  PROVE  Sending'
<1> DEFINE Clear ==
              /\ \A f \in File : Readers(f)' \subseteq Readers(f) \cup {e \in Deployment : \E n \in Name : entry[n] = f}
              /\ read'[d] = "idle" => got'[d] = {}
              /\ read'[d] = "reading" /\ d \notin blurred' =>
                   /\ handle'[d] \notin spoiled
                   /\ Writers(handle'[d]) = {}
                   /\ wanted'[d] = StoredAs(handle'[d])
                   /\ \E g \in File : \E k \in 0 .. Size[g] :
                        StoredAs(g) = wanted'[d] /\ data[handle'[d]] = Whole(g) /\ got'[d] = Pieces(g, k)
              /\ read'[d] = "sent" /\ d \notin blurred' =>
                   \E f \in File : StoredAs(f) = wanted'[d] /\ got'[d] = Whole(f)
<1> USE DEF readVars, uploadVars, history
<1>t. TypeOK
  BY DEF Sending
<1>a. UNCHANGED <<data, uploadVars, entry, spoiled>> /\ UNCHANGED faults
  BY DEF ReadStep, OpenBundle, NoBundle, ReadPiece, ReadEnds
<1>b. \A e \in Deployment \ {d} :
        /\ read'[e] = read[e] /\ wanted'[e] = wanted[e]
        /\ handle'[e] = handle[e] /\ got'[e] = got[e]
        /\ e \in blurred' <=> e \in blurred
  BY <1>t DEF TypeOK, ReadStep, OpenBundle, NoBundle, ReadPiece, ReadEnds
<1>w. \A f : Writers(f)' = Writers(f)
  BY <1>a DEF Writers
<1>c. Clear
  <2>1. ASSUME NEW n \in Name, OpenBundle(d, n)
        PROVE  Clear
    <3>1. SafeName[n] \in Name /\ entry[SafeName[n]] \in File
      BY <1>t, <2>1, StoreAssumption DEF TypeOK, OpenBundle
    <3>2. /\ read' = [read EXCEPT ![d] = "reading"] /\ handle'[d] = entry[SafeName[n]]
          /\ wanted'[d] = SafeName[n] /\ got'[d] = {} /\ \A e \in Deployment \ {d} : handle'[e] = handle[e]
      BY <1>t, <2>1 DEF TypeOK, OpenBundle, Sending, ReadersClear
    <3>3. \A f \in File : Readers(f)' \subseteq Readers(f) \cup {e \in Deployment : \E m \in Name : entry[m] = f}
      BY <1>t, <3>1, <3>2 DEF Readers, TypeOK
    <3>4. ASSUME d \notin blurred'
          PROVE  /\ handle'[d] \notin spoiled
                 /\ Writers(handle'[d]) = {}
                 /\ wanted'[d] = StoredAs(handle'[d])
                 /\ \E g \in File : \E k \in 0 .. Size[g] :
                      StoredAs(g) = wanted'[d] /\ data[handle'[d]] = Whole(g) /\ got'[d] = Pieces(g, k)
      <4>0. PICK f \in File : f = entry[SafeName[n]]
        BY <3>1
      <4>1. handle'[d] = f /\ f \notin spoiled /\ Writers(f) = {}
        BY <1>a, <2>1, <3>2, <3>4, <4>0 DEF OpenBundle
      <4>2. wanted'[d] = StoredAs(f)
        BY <3>1, <3>2, <4>0, StoreAssumption DEF Sending, EntriesNamed
      <4>3. InUse(f)
        BY <3>1, <4>0 DEF InUse
      <4>4. PICK g \in File : StoredAs(g) = StoredAs(f) /\ data[f] = Whole(g)
        BY <4>1, <4>3 DEF Sending, WholeOnceWritten, HoldsOneUpload
      <4>5. 0 \in 0 .. Size[g] /\ Pieces(g, 0) = {}
        BY StoreAssumption DEF Pieces
      <4> QED
        BY <3>2, <4>1, <4>2, <4>4, <4>5
    <3> QED
      BY <1>t, <3>2, <3>3, <3>4 DEF TypeOK
  <2>2. ASSUME NEW n \in Name, NoBundle(d, n)
        PROVE  Clear
    BY <1>t, <2>2 DEF NoBundle, TypeOK, Readers
  <2>3. CASE ReadPiece(d)
    <3>1. read'[d] = "reading" /\ \A f \in File : Readers(f)' = Readers(f)
      BY <1>t, <2>3 DEF ReadPiece, Readers
    <3>2. ASSUME d \notin blurred
          PROVE  \E g \in File : \E k \in 0 .. Size[g] :
                   StoredAs(g) = wanted'[d] /\ data[handle'[d]] = Whole(g) /\ got'[d] = Pieces(g, k)
      <4>1. PICK g \in File : \E k \in 0 .. Size[g] : StoredAs(g) = wanted[d] /\ HasRead(d, g, k)
        BY <2>3, <3>2 DEF ReadPiece, Sending, ReadersClear
      <4>2. PICK k \in 0 .. Size[g] : StoredAs(g) = wanted[d] /\ HasRead(d, g, k)
        BY <4>1
      <4>3. k < Size[g] /\ got'[d] = Pieces(g, k + 1)
        BY <1>t, <2>3, <4>2, NextInOrder DEF ReadPiece, TypeOK
      <4>4. k + 1 \in 0 .. Size[g]
        BY <4>3, StoreAssumption
      <4> QED
        BY <2>3, <4>2, <4>3, <4>4 DEF ReadPiece, HasRead
    <3> QED
      BY <2>3, <3>1, <3>2 DEF ReadPiece, Sending, ReadersClear
  <2>4. CASE ReadEnds(d)
    <3>1. read'[d] = "sent" /\ \A f \in File : Readers(f)' \subseteq Readers(f)
      BY <1>t, <2>4 DEF ReadEnds, Readers, TypeOK
    <3>2. ASSUME d \notin blurred
          PROVE  \E f \in File : StoredAs(f) = wanted[d] /\ got[d] = Whole(f)
      <4>1. PICK g \in File : \E k \in 0 .. Size[g] : StoredAs(g) = wanted[d] /\ HasRead(d, g, k)
        BY <2>4, <3>2 DEF ReadEnds, Sending, ReadersClear
      <4>2. PICK k \in 0 .. Size[g] : StoredAs(g) = wanted[d] /\ HasRead(d, g, k)
        BY <4>1
      <4> QED
        BY <2>4, <4>2, NextInOrder DEF ReadEnds
    <3> QED
      BY <2>4, <3>1, <3>2 DEF ReadEnds
  <2> QED
    BY <2>1, <2>2, <2>3, <2>4 DEF ReadStep
<1>1. /\ EntriesNamed' /\ WritersNamed' /\ WrittenAlone' /\ WholeOnceWritten'
  BY <1>a, <1>c, FilesLeftAlone
<1>2. ReadersClear'
  BY <1>a, <1>b, <1>c, <1>w DEF Sending, ReadersClear, HasRead, StoredAs, Whole
<1>3. SentClear'
  BY <1>b, <1>c DEF Sending, SentClear, StoredAs, Whole
<1> QED
  BY <1>1, <1>2, <1>3 DEF Sending

\* Readers that are left alone in a file that is left alone stay as they are.
LEMMA ReadersLeftAlone ==
  ASSUME Sending, UNCHANGED readVars, blurred \subseteq blurred',
         \A d \in Deployment :
           read[d] = "reading" /\ d \notin blurred' =>
             /\ handle[d] \notin spoiled'
             /\ Writers(handle[d])' = {}
             /\ data'[handle[d]] = data[handle[d]]
  PROVE  ReadersClear' /\ SentClear'
<1> USE DEF readVars
<1>1. ReadersClear'
  <2> SUFFICES ASSUME NEW d \in Deployment
               PROVE  /\ read[d] = "idle" => got[d] = {}
                      /\ read[d] = "reading" /\ d \notin blurred' =>
                           /\ handle[d] \notin spoiled'
                           /\ Writers(handle[d])' = {}
                           /\ wanted[d] = StoredAs(handle[d])
                           /\ \E g \in File : \E k \in 0 .. Size[g] :
                                StoredAs(g) = wanted[d] /\ data'[handle[d]] = Whole(g) /\ got[d] = Pieces(g, k)
    BY DEF ReadersClear, HasRead, Writers, StoredAs, Whole
  <2> QED
    BY DEF Sending, ReadersClear, HasRead
<1>2. SentClear'
  BY DEF Sending, SentClear, StoredAs, Whole
<1> QED
  BY <1>1, <1>2

\* Whoever is not writing can go on without touching a file.
LEMMA NotWritingHolds ==
  ASSUME Sending, NEW u \in Upload, UNCHANGED <<entry, data, fd, readVars, history>>,
         upload[u] # "writing", upload'[u] # "writing",
         \A v \in Upload \ {u} : upload'[v] = upload[v] /\ pos'[v] = pos[v]
  PROVE  /\ EntriesNamed' /\ WritersNamed' /\ WrittenAlone'
         /\ WholeOnceWritten' /\ ReadersClear' /\ SentClear'
<1> USE DEF readVars, history
<1>1. \A f : Writers(f)' = Writers(f)
  BY DEF Writers
<1>2. EntriesNamed' /\ WritersNamed'
  BY DEF Sending, EntriesNamed, WritersNamed, StoredAs, Current
<1>3. WrittenAlone'
  BY <1>1 DEF Sending, WrittenAlone
<1>4. WholeOnceWritten'
  <2>1. \A f \in File : InUse(f)' => InUse(f)
    BY DEF InUse, Readers
  <2> QED
    BY <1>1, <2>1 DEF Sending, WholeOnceWritten, HoldsOneUpload, StoredAs, Whole
<1>5. ReadersClear' /\ SentClear'
  BY <1>1, ReadersLeftAlone DEF Sending, ReadersClear
<1> QED
  BY <1>2, <1>3, <1>4, <1>5

\* Opening empties the file: it stays with one writer, or is spoiled.
LEMMA OpenHolds ==
  ASSUME Sending, NEW u \in Upload, Open(u)
  PROVE  /\ EntriesNamed' /\ WritersNamed' /\ WrittenAlone'
         /\ WholeOnceWritten' /\ ReadersClear' /\ SentClear'
<1> USE DEF readVars, history
<1>t. TypeOK
  BY DEF Sending
<1>0. Current(u) \in File /\ StoredAs(Current(u)) \in Name
  BY <1>t, FileIndex, StoredUnderName DEF Open, Current, TypeOK
<1>1. PICK n \in Name : n = StoredAs(Current(u))
  BY <1>0
<1>2. PICK f \in File : f = FileAt(n, Current(u))
  BY <1>t, <1>0 DEF FileAt, TypeOK
<1>3. StoredAs(f) = n
  BY <1>1, <1>2 DEF FileAt, Sending, EntriesNamed
<1>4. /\ upload[u] = "opening" /\ upload' = [upload EXCEPT ![u] = "writing"] /\ pos' = pos
      /\ entry' = [entry EXCEPT ![n] = f]
      /\ data' = [data EXCEPT ![f] = {}]
      /\ fd' = [fd EXCEPT ![u] = f]
      /\ spoiled' = IF Writers(f) = {} THEN spoiled \ {f} ELSE spoiled \cup {f}
      /\ blurred' = blurred \cup Readers(f) /\ UNCHANGED readVars
  BY <1>1, <1>2 DEF Open, Truncate
<1>5. Writers(f)' = Writers(f) \cup {u} /\ \A g : g # f => Writers(g)' = Writers(g)
  BY <1>t, <1>4 DEF Writers, TypeOK
<1>6. EntriesNamed'
  BY <1>t, <1>3, <1>4 DEF Sending, EntriesNamed, StoredAs, TypeOK
<1>7. WritersNamed'
  BY <1>t, <1>1, <1>3, <1>4 DEF Sending, WritersNamed, StoredAs, Current, TypeOK
<1>8. WrittenAlone'
  <2> SUFFICES ASSUME NEW v \in Upload, NEW g \in File, v \in Writers(g)', g \notin spoiled'
               PROVE  data'[g] = {} /\ Writers(g)' = {v}
    BY DEF WrittenAlone, Writers
  <2>1. CASE g = f
    BY <1>t, <1>4, <1>5, <2>1 DEF TypeOK
  <2>2. CASE g # f
    <3>1. upload[v] = "writing" /\ fd[v] = g /\ g \notin spoiled
      BY <1>4, <1>5, <2>2 DEF Writers
    <3>2. data[g] = {} /\ Writers(g) = {v}
      BY <3>1 DEF Sending, WrittenAlone, Writers
    <3> QED
      BY <1>t, <1>4, <1>5, <2>2, <3>2 DEF TypeOK
  <2> QED
    BY <2>1, <2>2
<1>9. WholeOnceWritten'
  <2> SUFFICES ASSUME NEW g \in File, g \notin spoiled', InUse(g)', Writers(g)' = {}
               PROVE  HoldsOneUpload(g)'
    BY DEF WholeOnceWritten
  <2>1. g # f
    BY <1>5
  <2>2. g \notin spoiled /\ Writers(g) = {} /\ data'[g] = data[g]
    BY <1>t, <1>4, <1>5, <2>1 DEF TypeOK
  <2>3. InUse(g)
    BY <1>t, <1>4, <2>1 DEF InUse, Readers, TypeOK
  <2> QED
    BY <2>2, <2>3 DEF Sending, WholeOnceWritten, HoldsOneUpload, StoredAs, Whole
<1>10. ReadersClear' /\ SentClear'
  <2>1. ASSUME NEW d \in Deployment, read[d] = "reading", d \notin blurred'
        PROVE  /\ handle[d] \notin spoiled' /\ Writers(handle[d])' = {}
               /\ data'[handle[d]] = data[handle[d]]
    <3>1. handle[d] # f /\ d \notin blurred
      BY <1>4, <2>1 DEF Readers
    <3>2. handle[d] \notin spoiled /\ Writers(handle[d]) = {} /\ handle[d] \in File
      BY <1>t, <2>1, <3>1 DEF Sending, ReadersClear, TypeOK
    <3> QED
      BY <1>t, <1>4, <1>5, <3>1, <3>2 DEF TypeOK
  <2> QED
    BY <1>4, <2>1, ReadersLeftAlone
<1> QED
  BY <1>6, <1>7, <1>8, <1>9, <1>10

\* The only writer of a file leaves it whole.  Whoever reads it is blurred.
LEMMA WriteHolds ==
  ASSUME Sending, NEW u \in Upload, Write(u) \/ WriteFails(u)
  PROVE  /\ EntriesNamed' /\ WritersNamed' /\ WrittenAlone'
         /\ WholeOnceWritten' /\ ReadersClear' /\ SentClear'
<1> USE DEF readVars, history
<1>t. TypeOK
  BY DEF Sending
<1>1. PICK f \in File : f = fd[u]
  BY <1>t DEF Write, WriteFails, TypeOK
<1>2. /\ upload[u] = "writing" /\ pos[u] \in DOMAIN Files[u] /\ u \in Writers(f)
      /\ UNCHANGED <<entry, fd, readVars, blurred>>
      /\ \A g \in File \ {f} : data'[g] = data[g]
      /\ spoiled \subseteq spoiled' /\ spoiled' \subseteq spoiled \cup {f}
  BY <1>t, <1>1 DEF Write, WriteFails, TypeOK, Writers
<1>3. upload'[u] # "writing" /\ \A v \in Upload \ {u} : upload'[v] = upload[v] /\ pos'[v] = pos[v]
  BY <1>t, <1>2, AdvanceType DEF Write, WriteFails, TypeOK
<1>4. Writers(f)' = Writers(f) \ {u} /\ \A g : g # f => Writers(g)' = Writers(g)
  BY <1>1, <1>2, <1>3 DEF Writers
<1>5. EntriesNamed' /\ WritersNamed'
  BY <1>2, <1>3 DEF Sending, EntriesNamed, WritersNamed, StoredAs, Current
<1>6. WrittenAlone'
  <2> SUFFICES ASSUME NEW v \in Upload, NEW g \in File, v \in Writers(g)', g \notin spoiled'
               PROVE  data'[g] = {} /\ Writers(g)' = {v}
    BY DEF WrittenAlone, Writers
  <2>1. v # u /\ v \in Writers(g) /\ g \notin spoiled
    BY <1>2, <1>3 DEF Writers
  <2>2. data[g] = {} /\ Writers(g) = {v}
    BY <2>1 DEF Sending, WrittenAlone
  <2>3. g # f
    BY <1>2, <2>1, <2>2
  <2> QED
    BY <1>2, <1>4, <2>2, <2>3
<1>7. WholeOnceWritten'
  <2> SUFFICES ASSUME NEW g \in File, g \notin spoiled', InUse(g)', Writers(g)' = {}
               PROVE  HoldsOneUpload(g)'
    BY DEF WholeOnceWritten
  <2>1. CASE g = f
    <3>1. Write(u) /\ f \notin spoiled
      BY <1>1, <1>2, <2>1 DEF WriteFails
    <3>2. data[f] = {}
      BY <1>1, <1>2, <3>1 DEF Sending, WrittenAlone
    <3>3. data'[f] = Whole(Current(u))
      BY <1>t, <1>1, <3>1, <3>2, WrittenWhole DEF Write, TypeOK
    <3>4. StoredAs(Current(u)) = StoredAs(f) /\ Current(u) \in File
      BY <1>1, <1>2, FileIndex DEF Sending, WritersNamed, Current
    <3>5. PICK h \in File : StoredAs(h) = StoredAs(f) /\ data'[f] = Whole(h)
      BY <3>3, <3>4
    <3> QED
      BY <2>1, <3>5 DEF HoldsOneUpload, StoredAs, Whole
  <2>2. CASE g # f
    <3>1. InUse(g) /\ g \notin spoiled /\ Writers(g) = {} /\ data'[g] = data[g]
      BY <1>2, <1>4, <2>2 DEF InUse, Readers
    <3> QED
      BY <3>1 DEF Sending, WholeOnceWritten, HoldsOneUpload, StoredAs, Whole
  <2> QED
    BY <2>1, <2>2
<1>8. ReadersClear' /\ SentClear'
  <2>1. ASSUME NEW d \in Deployment, read[d] = "reading", d \notin blurred'
        PROVE  /\ handle[d] \notin spoiled' /\ Writers(handle[d])' = {}
               /\ data'[handle[d]] = data[handle[d]]
    <3>1. handle[d] \notin spoiled /\ Writers(handle[d]) = {} /\ handle[d] \in File
      BY <1>t, <1>2, <2>1 DEF Sending, ReadersClear, TypeOK
    <3>2. handle[d] # f
      BY <1>2, <3>1
    <3> QED
      BY <1>2, <1>4, <3>1, <3>2
  <2> QED
    BY <1>2, <2>1, ReadersLeftAlone
<1> QED
  BY <1>5, <1>6, <1>7, <1>8

\* After the end of the node nobody writes or reads, and what was being
\* written is spoiled.
LEMMA CrashHolds ==
  ASSUME Sending, Crash
  PROVE  /\ EntriesNamed' /\ WritersNamed' /\ WrittenAlone'
         /\ WholeOnceWritten' /\ ReadersClear' /\ SentClear'
<1> USE DEF Crash
<1>t. TypeOK
  BY DEF Sending
<1>1. /\ \A v \in Upload : upload'[v] # "writing"
      /\ \A d \in Deployment : read'[d] # "reading" /\ (read'[d] \in {"idle", "sent"} => read[d] = read'[d])
  BY <1>t DEF TypeOK
<1>2. EntriesNamed' /\ WritersNamed' /\ WrittenAlone'
  <2>1. \A f : Writers(f)' = {}
    BY <1>1 DEF Writers
  <2> QED
    BY <1>1, <2>1 DEF Sending, EntriesNamed, WritersNamed, WrittenAlone, StoredAs
<1>3. WholeOnceWritten'
  <2> SUFFICES ASSUME NEW g \in File, g \notin spoiled', InUse(g)'
               PROVE  HoldsOneUpload(g)'
    BY DEF WholeOnceWritten
  <2>1. InUse(g) /\ g \notin spoiled /\ Writers(g) = {}
    BY <1>1 DEF InUse, Readers, Writers
  <2> QED
    BY <2>1 DEF Sending, WholeOnceWritten, HoldsOneUpload, StoredAs, Whole
<1>4. ReadersClear' /\ SentClear'
  BY <1>1 DEF Sending, ReadersClear, SentClear, StoredAs, Whole
<1> QED
  BY <1>2, <1>3, <1>4

LEMMA RemovalHolds ==
  ASSUME Sending, NEW n \in Name, RemoveBundle(n)
  PROVE  /\ EntriesNamed' /\ WritersNamed' /\ WrittenAlone'
         /\ WholeOnceWritten' /\ ReadersClear' /\ SentClear'
<1>1. /\ UNCHANGED <<data, uploadVars, readVars, history>>
      /\ \A m \in Name : entry'[m] \in {entry[m], Nothing}
      /\ \A f : Readers(f)' = Readers(f) /\ Writers(f)' = Writers(f)
  BY DEF RemoveBundle, Sending, TypeOK, Readers, Writers, readVars, uploadVars
<1>2. EntriesNamed' /\ WritersNamed' /\ WrittenAlone' /\ WholeOnceWritten'
  BY <1>1, FilesLeftAlone DEF history
<1>3. ReadersClear' /\ SentClear'
  <2>1. blurred \subseteq blurred' /\ UNCHANGED readVars
    BY <1>1 DEF history
  <2>2. \A d \in Deployment :
          read[d] = "reading" /\ d \notin blurred' =>
            handle[d] \notin spoiled' /\ Writers(handle[d])' = {} /\ data'[handle[d]] = data[handle[d]]
    BY <1>1 DEF Sending, ReadersClear, Writers, uploadVars, readVars, history
  <2> QED
    BY <2>1, <2>2, ReadersLeftAlone
<1> QED
  BY <1>2, <1>3

LEMMA SendingHolds ==
  ASSUME Sending, [Next]_vars
  PROVE  Sending'
<1>t. TypeOK /\ TypeOK'
  BY UploadTypes, OtherTypes, StutterTypes DEF Sending, Next
<1>1. ASSUME NEW u \in Upload, UploadStep(u)
      PROVE  Sending'
  <2>1. CASE Receive(u) \/ Decode(u) \/ OpenFails(u)
    <3>1. /\ UNCHANGED <<entry, data, fd, readVars, history>>
          /\ upload[u] # "writing" /\ upload'[u] # "writing"
          /\ \A v \in Upload \ {u} : upload'[v] = upload[v] /\ pos'[v] = pos[v]
      BY <1>t, <2>1 DEF Receive, Decode, GiveUp, OpenFails, TypeOK
    <3> QED
      BY <1>t, <3>1, NotWritingHolds DEF Sending
  <2>2. CASE Open(u)
    BY <1>t, <2>2, OpenHolds DEF Sending
  <2>3. CASE Write(u) \/ WriteFails(u)
    BY <1>t, <2>3, WriteHolds DEF Sending
  <2> QED
    BY <1>1, <2>1, <2>2, <2>3 DEF UploadStep
<1>2. ASSUME NEW d \in Deployment, ReadStep(d)
      PROVE  Sending'
  BY <1>t, <1>2, ReadingHolds
<1>3. ASSUME NEW n \in Name, RemoveBundle(n)
      PROVE  Sending'
  BY <1>t, <1>3, RemovalHolds DEF Sending
<1>4. CASE Crash
  BY <1>t, <1>4, CrashHolds DEF Sending
<1>5. CASE UNCHANGED vars
  <2>1. UNCHANGED <<entry, data, uploadVars, readVars, history>>
    BY <1>5 DEF vars
  <2>2. \A f : Writers(f)' = Writers(f) /\ Readers(f)' = Readers(f)
    BY <2>1 DEF Writers, Readers, uploadVars, readVars
  <2>3. EntriesNamed' /\ WritersNamed' /\ WrittenAlone' /\ WholeOnceWritten'
    BY <2>1, <2>2, FilesLeftAlone DEF history
  <2>4. ReadersClear' /\ SentClear'
    <3>1. blurred \subseteq blurred' /\ UNCHANGED readVars
      BY <2>1 DEF history
    <3>2. \A d \in Deployment :
            read[d] = "reading" /\ d \notin blurred' =>
              handle[d] \notin spoiled' /\ Writers(handle[d])' = {} /\ data'[handle[d]] = data[handle[d]]
      BY <2>1 DEF Sending, ReadersClear, Writers, uploadVars, readVars, history
    <3> QED
      BY <3>1, <3>2, ReadersLeftAlone
  <2> QED
    BY <1>t, <2>3, <2>4 DEF Sending
<1> QED
  BY <1>1, <1>2, <1>3, <1>4, <1>5 DEF Next

LEMMA InitSending ==
  ASSUME Init
  PROVE  Sending
<1>1. TypeOK
  BY InitTypes
<1>2. EntriesNamed /\ WritersNamed /\ WrittenAlone /\ ReadersClear /\ SentClear
  BY DEF Init, EntriesNamed, WritersNamed, WrittenAlone, ReadersClear, SentClear, Writers
<1>3. \A f \in File : ~InUse(f)
  BY StoreAssumption DEF Init, InUse, Readers
<1> QED
  BY <1>1, <1>2, <1>3 DEF Sending, WholeOnceWritten

\* Every piece is in a file of its own name, and is read by that name.
PiecesNamed ==
  /\ \A f \in File : \A piece \in data[f] : piece[2] \in File /\ StoredAs(piece[2]) = StoredAs(f)
  /\ \A d \in Deployment :
       /\ read[d] = "reading" => handle[d] \in File /\ StoredAs(handle[d]) = wanted[d]
       /\ \A piece \in got[d] : piece[2] \in File /\ StoredAs(piece[2]) = wanted[d]

\* Every step keeps it, overlapping writes and all.
LEMMA PiecesStayNamed ==
  ASSUME Sending, PiecesNamed, [Next]_vars
  PROVE  PiecesNamed'
<1>t. TypeOK /\ EntriesNamed /\ WritersNamed /\ ReadersClear
  BY DEF Sending
<1>s. \A f : StoredAs(f)' = StoredAs(f)
  BY DEF StoredAs
<1>1. ASSUME UNCHANGED <<read, wanted, handle, got>> \/ Crash,
             \A f \in File : \A piece \in data'[f] :
               piece \in data[f] \/ (piece[2] \in File /\ StoredAs(piece[2]) = StoredAs(f))
      PROVE  PiecesNamed'
  <2>1. /\ UNCHANGED <<wanted, handle, got>>
        /\ \A d \in Deployment : read'[d] = "reading" => read[d] = "reading"
    BY <1>1 DEF Crash
  <2> QED
    BY <1>s, <1>1, <2>1 DEF PiecesNamed
<1>2. ASSUME NEW u \in Upload, UploadStep(u) PROVE PiecesNamed'
  <2>1. UNCHANGED <<read, wanted, handle, got>>
    BY <1>2 DEF UploadStep, Receive, Decode, Open, OpenFails, Write, WriteFails, readVars
  <2>2. CASE Receive(u) \/ Decode(u) \/ OpenFails(u)
    <3>1. UNCHANGED data
      BY <2>2 DEF Receive, Decode, OpenFails
    <3> QED
      BY <1>1, <2>1, <3>1
  <2>3. CASE Open(u)
    <3>1. \A f \in File : data'[f] \in {data[f], {}}
      BY <1>t, <2>3 DEF Open, Truncate, TypeOK
    <3> QED
      BY <1>1, <2>1, <3>1
  <2>4. CASE Write(u) \/ WriteFails(u)
    <3>1. PICK n : data' = [data EXCEPT ![fd[u]] = WriteOver(@, Current(u), n)]
      BY <2>4 DEF Write, WriteFails
    <3>2. upload[u] = "writing" /\ Current(u) \in File /\ StoredAs(fd[u]) = StoredAs(Current(u))
      <4>1. upload[u] = "writing" /\ pos[u] \in DOMAIN Files[u]
        BY <1>t, <2>4 DEF Write, WriteFails, TypeOK
      <4> QED
        BY <1>t, <4>1, FileIndex DEF Current, WritersNamed
    <3>3. ASSUME NEW f \in File, NEW piece \in data'[f], piece \notin data[f]
          PROVE  piece[2] \in File /\ StoredAs(piece[2]) = StoredAs(f)
      <4>1. f = fd[u] /\ piece \in Pieces(Current(u), n)
        BY <1>t, <3>1, <3>3 DEF WriteOver, TypeOK
      <4>2. piece[2] = Current(u)
        BY <4>1 DEF Pieces
      <4> QED
        BY <3>2, <4>1, <4>2
    <3> QED
      BY <1>1, <2>1, <3>3
  <2> QED
    BY <1>2, <2>2, <2>3, <2>4 DEF UploadStep
<1>3. ASSUME NEW d \in Deployment, ReadStep(d) PROVE PiecesNamed'
  <2>1. UNCHANGED data
    BY <1>3 DEF ReadStep, OpenBundle, NoBundle, ReadPiece, ReadEnds
  <2>2. CASE \E n \in Name : OpenBundle(d, n)
    <3>1. PICK n \in Name : OpenBundle(d, n)
      BY <2>2
    <3>2. SafeName[n] \in Name /\ entry[SafeName[n]] \in File /\ StoredAs(entry[SafeName[n]]) = SafeName[n]
      BY <1>t, <3>1, StoreAssumption DEF OpenBundle, TypeOK, EntriesNamed
    <3>3. UNCHANGED got /\ got[d] = {} /\ handle'[d] = entry[SafeName[n]] /\ wanted'[d] = SafeName[n]
      BY <1>t, <3>1 DEF OpenBundle, TypeOK, ReadersClear
    <3>4. \A e \in Deployment \ {d} : UNCHANGED <<read[e], handle[e], wanted[e]>>
      BY <1>t, <3>1 DEF OpenBundle, TypeOK
    <3> QED
      BY <1>s, <2>1, <3>2, <3>3, <3>4 DEF PiecesNamed
  <2>3. CASE ReadPiece(d)
    <3>1. /\ UNCHANGED <<read, wanted, handle>> /\ read[d] = "reading"
          /\ \A e \in Deployment : got'[e] = got[e] \/ (e = d /\ got'[e] = got[e] \cup NextPiece(d))
      BY <1>t, <2>3 DEF ReadPiece, TypeOK
    <3>2. \A piece \in NextPiece(d) : piece[2] \in File /\ StoredAs(piece[2]) = wanted[d]
      BY <3>1 DEF PiecesNamed, NextPiece
    <3> QED
      BY <1>s, <2>1, <3>1, <3>2 DEF PiecesNamed
  <2>4. CASE (\E n \in Name : NoBundle(d, n)) \/ ReadEnds(d)
    <3>1. /\ UNCHANGED <<wanted, handle, got>>
          /\ \A e \in Deployment : read'[e] = "reading" => read[e] = "reading"
      BY <1>t, <2>4 DEF NoBundle, ReadEnds, TypeOK
    <3> QED
      BY <1>s, <2>1, <3>1 DEF PiecesNamed
  <2> QED
    BY <1>3, <2>2, <2>3, <2>4 DEF ReadStep
<1>4. CASE Crash \/ UNCHANGED vars \/ \E n \in Name : RemoveBundle(n)
  <2>1. UNCHANGED data /\ (UNCHANGED <<read, wanted, handle, got>> \/ Crash)
    BY <1>4 DEF Crash, RemoveBundle, vars, readVars
  <2> QED
    BY <1>1, <2>1
<1> QED
  BY <1>2, <1>3, <1>4 DEF Next

\* A deployment that nobody disturbed sends all of one upload of the bundle
\* it was asked for; and whoever disturbs it, it sends nothing but pieces of
\* uploads under that name (readBundleFile; the handlers of web.go:46-71).
THEOREM SendsOneUpload == Spec => []SentIsOneUpload
<1>1. Sending /\ PiecesNamed => SentIsOneUpload
  BY DEF Sending, SentClear, PiecesNamed, SentIsOneUpload
<1>2. Init => PiecesNamed
  BY DEF Init, PiecesNamed
<1> QED
  BY <1>1, <1>2, InitSending, SendingHolds, PiecesStayNamed, PTL DEF Spec

-----------------------------------------------------------------------------
(* What is stored. *)

\* The indices below k of the files of u stored under name n.
StoredBefore(u, n, k) == {i \in DOMAIN Files[u] : i < k /\ StoredAs(Files[u][i]) = n}

\* Name n leads to all of the last of them.
HoldsLast(u, n, k) ==
  /\ entry[n] # Nothing
  /\ \E i \in StoredBefore(u, n, k) :
       (\A j \in StoredBefore(u, n, k) : j <= i) /\ data[entry[n]] = Whole(Files[u][i])

\* u is writing the file of that name, or has given up there.
Unsettled(u, n) == upload[u] \in {"writing", "failed"} /\ n = StoredAs(Current(u))

\* What an upload that has the library to itself has stored so far.
StoredBy(u) ==
  /\ upload[u] = "idle" => \A n \in Name : entry[n] = Nothing
  /\ upload[u] = "ok" => pos[u] = Len(Files[u]) + 1
  /\ upload[u] = "failed" => pos[u] \in DOMAIN Files[u]
  /\ upload[u] = "writing" => entry[StoredAs(Current(u))] = fd[u] /\ data[fd[u]] = {}
  /\ \A n \in Name :
       \/ Unsettled(u, n)
       \/ HoldsLast(u, n, pos[u])
       \/ entry[n] = Nothing /\ StoredBefore(u, n, pos[u]) = {}

Storing == Sending /\ \A u \in Upload : Undisturbed(u) => StoredBy(u)

\* Going on without touching a file, or giving up, takes nothing back.
LEMMA StoredKept ==
  ASSUME NEW u \in Upload, StoredBy(u), UNCHANGED <<entry, data, pos, fd>>,
         \/ upload'[u] = upload[u]
         \/ upload'[u] \in {"decoding", "opening"} /\ upload[u] \notin {"writing", "failed"}
         \/ upload'[u] = "failed" /\ pos[u] \in DOMAIN Files[u]
  PROVE  StoredBy(u)'
<1>1. \A n \in Name : Unsettled(u, n) => Unsettled(u, n)'
  BY DEF Unsettled, StoredAs, Current
<1>2. \A n \in Name : HoldsLast(u, n, pos[u]) => HoldsLast(u, n, pos[u])'
  BY DEF HoldsLast, StoredBefore, StoredAs, Whole
<1> QED
  BY <1>1, <1>2 DEF StoredBy, StoredBefore, StoredAs, Current

\* Opening unsettles one name and leaves the others what they were.
LEMMA StoredOpen ==
  ASSUME Sending, NEW u \in Upload, StoredBy(u), Open(u)
  PROVE  StoredBy(u)'
<1>t. TypeOK
  BY DEF Sending
<1>0. Current(u) \in File /\ StoredAs(Current(u)) \in Name
  BY <1>t, FileIndex, StoredUnderName DEF Open, Current, TypeOK
<1>1. PICK n \in Name : n = StoredAs(Current(u))
  BY <1>0
<1>2. PICK f \in File : f = FileAt(n, Current(u))
  BY <1>t, <1>0 DEF FileAt, TypeOK
<1>3. StoredAs(f) = n
  BY <1>1, <1>2 DEF FileAt, Sending, EntriesNamed
<1>4. /\ upload[u] = "opening" /\ upload'[u] = "writing" /\ pos' = pos
      /\ entry'[n] = f /\ \A m \in Name \ {n} : entry'[m] = entry[m]
      /\ data'[f] = {} /\ \A g \in File \ {f} : data'[g] = data[g]
      /\ fd'[u] = f
  BY <1>t, <1>1, <1>2 DEF Open, Truncate, TypeOK
<1>5. StoredAs(Current(u))' = n
  BY <1>1, <1>4 DEF StoredAs, Current
<1>6. ASSUME NEW m \in Name, m # n
      PROVE  \/ HoldsLast(u, m, pos[u])'
             \/ entry'[m] = Nothing /\ StoredBefore(u, m, pos[u])' = {}
  <2>1. CASE HoldsLast(u, m, pos[u])
    <3>1. entry[m] \in File /\ entry[m] # f
      BY <1>t, <1>3, <1>6, <2>1 DEF HoldsLast, TypeOK, Sending, EntriesNamed
    <3> QED
      BY <1>4, <1>6, <2>1, <3>1 DEF HoldsLast, StoredBefore, StoredAs, Whole
  <2>2. CASE entry[m] = Nothing /\ StoredBefore(u, m, pos[u]) = {}
    BY <1>4, <1>6, <2>2 DEF StoredBefore, StoredAs
  <2> QED
    BY <1>4, <2>1, <2>2 DEF StoredBy, Unsettled
<1>7. \A m \in Name :
        \/ Unsettled(u, m)'
        \/ HoldsLast(u, m, pos[u])'
        \/ entry'[m] = Nothing /\ StoredBefore(u, m, pos[u])' = {}
  BY <1>4, <1>5, <1>6 DEF Unsettled
<1>8. entry'[StoredAs(Current(u))'] = fd'[u] /\ data'[fd'[u]] = {}
  BY <1>4, <1>5
<1> QED
  BY <1>4, <1>7, <1>8 DEF StoredBy

\* Writing settles the name.
LEMMA StoredWrite ==
  ASSUME Sending, NEW u \in Upload, StoredBy(u), Write(u)
  PROVE  StoredBy(u)'
<1>t. TypeOK
  BY DEF Sending
<1>0. /\ Current(u) \in File /\ StoredAs(Current(u)) \in Name
      /\ pos[u] \in DOMAIN Files[u] /\ Len(Files[u]) \in Nat /\ pos[u] \in Nat
      /\ pos[u] <= Len(Files[u]) /\ \A i \in DOMAIN Files[u] : i \in Nat
  BY <1>t, FileIndex, StoredUnderName DEF Write, Current, TypeOK
<1>1. PICK n \in Name : n = StoredAs(Current(u))
  BY <1>0
<1>2. PICK f \in File : f = fd[u]
  BY <1>t DEF Write, TypeOK
<1>3. entry[n] = f /\ data[f] = {} /\ StoredAs(f) = n /\ upload[u] = "writing"
  BY <1>1, <1>2, StoreAssumption DEF Write, StoredBy, Sending, EntriesNamed
<1>4. /\ entry' = entry
      /\ data'[f] = Whole(Current(u)) /\ \A g \in File \ {f} : data'[g] = data[g]
      /\ pos'[u] = pos[u] + 1
      /\ upload'[u] = IF pos[u] < Len(Files[u]) THEN "decoding" ELSE "ok"
  BY <1>t, <1>2, <1>3, WrittenWhole DEF Write, Advance, TypeOK
<1>k. PICK k \in Nat : k = pos[u] + 1
  BY <1>0
<1>5. \A m \in Name :
        StoredBefore(u, m, k)
          = IF m = n THEN StoredBefore(u, m, pos[u]) \cup {pos[u]} ELSE StoredBefore(u, m, pos[u])
  BY <1>0, <1>1, <1>k DEF StoredBefore, Current
<1>6. HoldsLast(u, n, k)'
  <2>1. pos[u] \in StoredBefore(u, n, k)
    BY <1>0, <1>5
  <2>2. \A j \in StoredBefore(u, n, k) : j <= pos[u]
    BY <1>0, <1>k DEF StoredBefore
  <2>3. data'[entry'[n]] = Whole(Files[u][pos[u]]) /\ entry'[n] # Nothing
    BY <1>3, <1>4, StoreAssumption DEF Current
  <2>4. \A i \in StoredBefore(u, n, k) : i <= pos[u] /\ data'[entry'[n]] = Whole(Files[u][pos[u]])
    BY <2>2, <2>3
  <2> QED
    BY <2>1, <2>2, <2>3, <1>4 DEF HoldsLast, StoredBefore, StoredAs, Whole
<1>7. ASSUME NEW m \in Name, m # n
      PROVE  \/ HoldsLast(u, m, k)'
             \/ entry'[m] = Nothing /\ StoredBefore(u, m, k)' = {}
  <2>0. StoredBefore(u, m, k) = StoredBefore(u, m, pos[u])
    BY <1>5, <1>7
  <2>1. CASE HoldsLast(u, m, pos[u])
    <3>1. entry[m] \in File /\ entry[m] # f
      BY <1>t, <1>3, <1>7, <2>1 DEF HoldsLast, TypeOK, Sending, EntriesNamed
    <3>2. data'[entry'[m]] = data[entry[m]] /\ entry'[m] # Nothing
      BY <1>4, <3>1, StoreAssumption
    <3>3. PICK i \in StoredBefore(u, m, k) :
            (\A j \in StoredBefore(u, m, k) : j <= i) /\ data[entry[m]] = Whole(Files[u][i])
      BY <2>0, <2>1 DEF HoldsLast
    <3> QED
      BY <1>4, <3>2, <3>3 DEF HoldsLast, StoredBefore, StoredAs, Whole
  <2>2. CASE entry[m] = Nothing /\ StoredBefore(u, m, pos[u]) = {}
    BY <1>4, <2>0, <2>2 DEF StoredBefore, StoredAs
  <2> QED
    BY <1>1, <1>7, <2>1, <2>2 DEF StoredBy, Unsettled
<1>8. \A m \in Name :
        \/ HoldsLast(u, m, pos[u])'
        \/ entry'[m] = Nothing /\ StoredBefore(u, m, pos[u])' = {}
  BY <1>4, <1>6, <1>7, <1>k DEF HoldsLast, StoredBefore
<1>9. upload'[u] = "ok" => pos'[u] = Len(Files[u]) + 1
  BY <1>0, <1>4
<1> QED
  BY <1>4, <1>8, <1>9 DEF StoredBy

\* Failing leaves the name unsettled and the others what they were.
LEMMA StoredWriteFails ==
  ASSUME Sending, NEW u \in Upload, StoredBy(u), WriteFails(u)
  PROVE  StoredBy(u)'
<1>t. TypeOK
  BY DEF Sending
<1>1. Current(u) \in File /\ StoredAs(Current(u)) \in Name /\ pos[u] \in DOMAIN Files[u]
  BY <1>t, FileIndex, StoredUnderName DEF WriteFails, Current, TypeOK
<1>2. PICK f \in File : f = fd[u]
  BY <1>t DEF WriteFails, TypeOK
<1>3. StoredAs(f) = StoredAs(Current(u))
  BY <1>1, <1>2, StoreAssumption DEF WriteFails, StoredBy, Sending, EntriesNamed
<1>4. /\ upload[u] = "writing" /\ upload'[u] = "failed" /\ entry' = entry /\ pos' = pos
      /\ \A g \in File \ {f} : data'[g] = data[g]
  BY <1>t, <1>2 DEF WriteFails, TypeOK
<1>5. ASSUME NEW m \in Name, m # StoredAs(Current(u))
      PROVE  \/ HoldsLast(u, m, pos[u])'
             \/ entry'[m] = Nothing /\ StoredBefore(u, m, pos[u])' = {}
  <2>1. CASE HoldsLast(u, m, pos[u])
    <3>1. entry[m] \in File /\ entry[m] # f
      BY <1>t, <1>3, <1>5, <2>1 DEF HoldsLast, TypeOK, Sending, EntriesNamed
    <3> QED
      BY <1>4, <2>1, <3>1 DEF HoldsLast, StoredBefore, StoredAs, Whole
  <2>2. CASE entry[m] = Nothing /\ StoredBefore(u, m, pos[u]) = {}
    BY <1>4, <2>2 DEF StoredBefore, StoredAs
  <2> QED
    BY <1>5, <2>1, <2>2 DEF StoredBy, Unsettled
<1>6. \A m \in Name :
        \/ Unsettled(u, m)'
        \/ HoldsLast(u, m, pos[u])'
        \/ entry'[m] = Nothing /\ StoredBefore(u, m, pos[u])' = {}
  BY <1>4, <1>5 DEF Unsettled, StoredAs, Current
<1> QED
  BY <1>1, <1>4, <1>6 DEF StoredBy

\* Nobody else has begun, so nobody else can have touched the library.
LEMMA StoringHolds ==
  ASSUME Storing, [Next]_vars
  PROVE  Storing'
<1>t. Sending /\ Sending' /\ TypeOK
  BY SendingHolds DEF Storing, Sending
<1> SUFFICES ASSUME NEW u \in Upload, Undisturbed(u)'
             PROVE  StoredBy(u)'
  BY <1>t DEF Storing
<1>1. ASSUME NEW v \in Upload, UploadStep(v)
      PROVE  StoredBy(u)'
  <2>1. v = u
    <3>1. CASE v # u /\ upload[v] = "idle"
      BY <1>1, <1>t, <3>1 DEF UploadStep, Receive, Decode, Open, OpenFails, Write, WriteFails,
                              Undisturbed, TypeOK
    <3>2. CASE v # u /\ upload[v] # "idle"
      <4>1. upload'[v] # "idle"
        BY <1>1, <1>t, <3>2 DEF UploadStep, Receive, Decode, GiveUp, Open, OpenFails, Write,
                                WriteFails, Advance, TypeOK
      <4> QED
        BY <3>2, <4>1 DEF Undisturbed
    <3> QED
      BY <3>1, <3>2
  <2>2. removed' = removed /\ \A w \in Upload \ {u} : upload'[w] = upload[w]
    BY <1>1, <1>t, <2>1 DEF UploadStep, Receive, Decode, GiveUp, Open, OpenFails, Write,
                            WriteFails, Advance, TypeOK
  <2>3. StoredBy(u)
    BY <2>2 DEF Storing, Undisturbed
  <2>4. CASE Receive(u) \/ Decode(u) \/ OpenFails(u)
    <3>1. UNCHANGED <<entry, data, pos, fd>>
      BY <2>4 DEF Receive, Decode, GiveUp, OpenFails
    <3>2. \/ upload'[u] \in {"decoding", "opening"} /\ upload[u] \notin {"writing", "failed"}
          \/ upload'[u] = "failed" /\ pos[u] \in DOMAIN Files[u]
      BY <1>t, <2>4 DEF Receive, Decode, GiveUp, OpenFails, TypeOK
    <3> QED
      BY <2>3, <3>1, <3>2, StoredKept
  <2> QED
    BY <1>1, <1>t, <2>1, <2>3, <2>4, StoredOpen, StoredWrite, StoredWriteFails DEF UploadStep
<1>2. ASSUME NEW n \in Name, RemoveBundle(n)
      PROVE  StoredBy(u)'
  BY <1>2, <1>t DEF RemoveBundle, Undisturbed, TypeOK
<1>3. CASE UNCHANGED vars \/ \E d \in Deployment : ReadStep(d)
  <2>1. UNCHANGED <<entry, data, upload, pos, fd, removed>>
    BY <1>3 DEF vars, uploadVars, ReadStep, OpenBundle, NoBundle, ReadPiece, ReadEnds
  <2> QED
    BY <2>1, StoredKept DEF Storing, Undisturbed
<1>4. CASE Crash
  <2>1. /\ UNCHANGED <<entry, data, pos, fd, removed>>
        /\ \A v \in Upload :
             upload'[v] = upload[v] \/ (upload'[v] = "failed" /\ upload[v] # "idle")
    BY <1>4 DEF Crash
  <2>2. Undisturbed(u)
    BY <2>1 DEF Undisturbed
  <2>3. upload'[u] = upload[u] \/ (upload'[u] = "failed" /\ pos[u] \in DOMAIN Files[u])
    BY <1>4, <1>t, <2>2 DEF Crash, TypeOK, Storing, StoredBy
  <2> QED
    BY <2>1, <2>2, <2>3, StoredKept DEF Storing
<1> QED
  BY <1>1, <1>2, <1>3, <1>4 DEF Next

LEMMA StoringMeansBeginning ==
  ASSUME Storing
  PROVE  UploadStoresBeginning
<1> SUFFICES ASSUME NEW u \in Upload, upload[u] \in {"ok", "failed"}, Undisturbed(u), NEW n \in Name
             PROVE  /\ entry[n] # Nothing => StoredUnder(u, n) # {}
                    /\ StoredUnder(u, n) # {} /\ pos[u] \notin StoredUnder(u, n) =>
                         /\ entry[n] # Nothing
                         /\ \E i \in StoredUnder(u, n) :
                              /\ \A j \in StoredUnder(u, n) : j <= i
                              /\ data[entry[n]] = Whole(Files[u][i])
  BY DEF UploadStoresBeginning
<1>1. /\ StoredBy(u) /\ pos[u] \in Nat
      /\ \A i \in DOMAIN Files[u] : i \in Nat /\ i <= Len(Files[u]) /\ Len(Files[u]) \in Nat
  BY FileIndex DEF Storing, Sending, TypeOK
<1>2. StoredBefore(u, n, pos[u]) = StoredUnder(u, n) \ {pos[u]}
  BY <1>1 DEF StoredBefore, StoredUnder
<1>3. CASE Unsettled(u, n)
  <2>1. pos[u] \in DOMAIN Files[u]
    BY <1>1, <1>3 DEF Unsettled, StoredBy
  <2>2. pos[u] \in StoredUnder(u, n)
    BY <1>1, <1>3, <2>1 DEF Unsettled, StoredUnder, Current
  <2> QED
    BY <2>2
<1>4. CASE HoldsLast(u, n, pos[u])
  <2>1. pos[u] \notin StoredUnder(u, n) => StoredBefore(u, n, pos[u]) = StoredUnder(u, n)
    BY <1>2
  <2> QED
    BY <1>2, <1>4, <2>1 DEF HoldsLast
<1>5. CASE entry[n] = Nothing /\ StoredBefore(u, n, pos[u]) = {}
  BY <1>2, <1>5
<1> QED
  BY <1>1, <1>3, <1>4, <1>5 DEF StoredBy

\* Whether it is served or gives up, an upload that had the library to itself
\* has stored a beginning of its files, and the last of those of one name.
THEOREM UploadsStoreBeginnings == Spec => []UploadStoresBeginning
<1>1. Init => Storing
  <2> SUFFICES ASSUME Init
               PROVE  Storing
    OBVIOUS
  <2>1. \A u \in Upload, n \in Name : StoredBefore(u, n, pos[u]) = {}
    BY FileIndex DEF Init, StoredBefore
  <2> QED
    BY <2>1, InitSending DEF Init, Storing, StoredBy
<1> QED
  BY <1>1, StoringHolds, StoringMeansBeginning, PTL DEF Spec
=============================================================================
