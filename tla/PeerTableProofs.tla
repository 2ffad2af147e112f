--------------------------- MODULE PeerTableProofs ---------------------------
(***************************************************************************)
(* What a node's table says of its peers is true, give or take the time    *)
(* messages take, whatever the lifetimes and however many peers, fetches   *)
(* and announcements there are.                                            *)
(***************************************************************************)
EXTENDS PeerTable, TLAPS

\* What a running peer says of itself is true now; what is on its way was true
\* when it was said.
WordsWereTrue ==
  /\ \A p \in Peer : \A offers \in running[p] : lastRan[p][offers] = 0
  /\ \A a \in announced : lastRan[a.peer][a.words.offers] <= a.words.age
  /\ \A f \in Fetch : \A g \in fetch[f] : \A words \in g.answer :
       lastRan[g.peer][words.offers] <= words.age

Lifetime(source) == IF source = "DHT" THEN DhtTTL ELSE LanTTL

\* No entry has been overdue for longer than the page is old.
NotLongOverdue ==
  \A p \in Peer : \A e \in table[p] : e.age <= Lifetime(e.source) + pageAge

PInv == TypeOK /\ WordsWereTrue /\ EntriesWereTrue /\ NotLongOverdue

-----------------------------------------------------------------------------
(* Ages. *)

\* Ages stay ages, and never decrease by ageing.
LEMMA OlderAge ==
  ASSUME NEW age \in Age
  PROVE  Older(age) \in Age /\ age <= Older(age) /\ Older(age) <= age + 1
BY TTLAssumption DEF Older, Age

\* Ageing two ages together keeps a bound on one by the other.
LEMMA OlderKeepsBound ==
  ASSUME NEW a \in Age, NEW b \in Age, NEW k \in Nat, a <= b + k
  PROVE  Older(a) <= Older(b) + k
BY TTLAssumption DEF Older, Age

\* Ageing loses no entry.
LEMMA AgeingKeepsEntries ==
  \A entries : \A e \in entries :
    [e EXCEPT !.age = Older(@)] \in {[x EXCEPT !.age = Older(@)] : x \in entries}
OBVIOUS

\* What a peer says now is fresh.
LEMMA SaysNowFresh ==
  ASSUME NEW p \in Peer, running[p] \in SUBSET BOOLEAN
  PROVE  /\ SaysNow(p) \in SUBSET Words
         /\ \A words \in SaysNow(p) : words.offers \in running[p] /\ words.age = 0
BY TTLAssumption DEF SaysNow, Words

\* An entry written now is fresh.
LEMMA UpsertKeepsTruth ==
  ASSUME PInv, NEW p \in Peer, NEW offers \in BOOLEAN, NEW source \in Source,
         lastRan[p][offers] <= Delay,
         UpsertPeerNode(p, offers, source),
         UNCHANGED <<lastRan, pageAge>>
  PROVE  /\ table' \in [Peer -> SUBSET Entry]
         /\ \A q \in Peer : \A e1, e2 \in table'[q] : e1 = e2
         /\ EntriesWereTrue' /\ NotLongOverdue'
<1> DEFINE new == [offers |-> offers, source |-> source, age |-> 0]
<1>1. new \in Entry /\ new.offers = offers /\ new.source = source /\ new.age = 0
  BY TTLAssumption DEF Entry, Age
<1>2. table' = [table EXCEPT ![p] = {new}]
  BY DEF UpsertPeerNode
<1>3. \A q \in Peer : table'[q] = IF q = p THEN {new} ELSE table[q]
  BY <1>2 DEF PInv, TypeOK
<1>4. table' \in [Peer -> SUBSET Entry]
  BY <1>1, <1>2 DEF PInv, TypeOK
<1>5. \A q \in Peer : \A e1, e2 \in table'[q] : e1 = e2
  BY <1>3 DEF PInv, TypeOK
<1>6. EntriesWereTrue'
  BY <1>1, <1>3, TTLAssumption DEF PInv, EntriesWereTrue
<1>7. NotLongOverdue'
  BY <1>1, <1>3, TTLAssumption DEF PInv, TypeOK, NotLongOverdue, Lifetime, Age
<1> QED
  BY <1>4, <1>5, <1>6, <1>7

\* Removing entries keeps what is true of all of them.
LEMMA RemovalKeepsTruth ==
  ASSUME PInv, table' \in [Peer -> SUBSET Entry],
         \A q \in Peer : table'[q] \subseteq table[q],
         UNCHANGED <<lastRan, pageAge>>
  PROVE  /\ \A q \in Peer : \A e1, e2 \in table'[q] : e1 = e2
         /\ EntriesWereTrue' /\ NotLongOverdue'
BY DEF PInv, TypeOK, EntriesWereTrue, NotLongOverdue, Lifetime

-----------------------------------------------------------------------------
(* The invariant holds at first, and every step keeps it. *)

LEMMA InitPInv == Init => PInv
BY TTLAssumption
DEF Init, PInv, TypeOK, WordsWereTrue, EntriesWereTrue, NotLongOverdue, Age,
    Fetching, Announcement

\* What the peers do.
LEMMA PeerKeepsPInv ==
  ASSUME PInv, NEW p \in Peer, PeerStep(p)
  PROVE  PInv'
<1> USE DEF PInv
<1>1. CASE PeerStarts(p)
  <2>1. PICK o \in BOOLEAN : /\ running' = [running EXCEPT ![p] = {o}]
                              /\ lastRan' = [lastRan EXCEPT ![p][o] = 0]
    BY <1>1 DEF PeerStarts
  <2>2. UNCHANGED <<announced, fetch, table, pageAge>> /\ running[p] = {}
    BY <1>1 DEF PeerStarts
  <2>3. \A q \in Peer : \A offers \in BOOLEAN :
          lastRan'[q][offers] = IF q = p /\ offers = o THEN 0 ELSE lastRan[q][offers]
    BY <2>1 DEF TypeOK
  <2>4. \A q \in Peer : running'[q] = IF q = p THEN {o} ELSE running[q]
    BY <2>1 DEF TypeOK
  <2>5. TypeOK'
    BY <2>1, <2>2, TTLAssumption DEF TypeOK, Age
  <2>6. WordsWereTrue'
    <3>1. \A q \in Peer : \A offers \in BOOLEAN : \A age \in Nat :
            lastRan[q][offers] <= age => lastRan'[q][offers] <= age
      BY <2>3
    <3>2. \A a \in announced' : lastRan'[a.peer][a.words.offers] <= a.words.age
      BY <2>2, <3>1 DEF TypeOK, WordsWereTrue, Announcement, Words
    <3>3. \A h \in Fetch : \A g \in fetch'[h] : \A words \in g.answer :
            lastRan'[g.peer][words.offers] <= words.age
      <4> SUFFICES ASSUME NEW h \in Fetch, NEW g \in fetch[h], NEW words \in g.answer
                   PROVE  lastRan'[g.peer][words.offers] <= words.age
        BY <2>2
      <4>1. g.peer \in Peer /\ words.offers \in BOOLEAN /\ words.age \in Nat
        BY TTLAssumption DEF TypeOK, Fetching, Words
      <4> QED
        BY <3>1, <4>1 DEF WordsWereTrue
    <3>4. \A q \in Peer : \A offers \in running'[q] : lastRan'[q][offers] = 0
      BY <2>3, <2>4 DEF TypeOK, WordsWereTrue
    <3> QED
      BY <3>2, <3>3, <3>4 DEF WordsWereTrue
  <2>7. EntriesWereTrue' /\ NotLongOverdue'
    BY <2>2, <2>3, TTLAssumption
    DEF TypeOK, EntriesWereTrue, NotLongOverdue, Lifetime, Entry, Age
  <2> QED
    BY <2>5, <2>6, <2>7
<1>2. CASE PeerStops(p)
  BY <1>2 DEF PeerStops, TypeOK, WordsWereTrue, EntriesWereTrue, NotLongOverdue, Lifetime
<1>3. CASE Announce(p)
  <2> DEFINE new == [peer : {p}, words : SaysNow(p)]
  <2>1. announced' = announced \cup new
    BY <1>3 DEF Announce
  <2>2. UNCHANGED <<running, lastRan, fetch, table, pageAge>>
    BY <1>3 DEF Announce
  <2>3. \A a \in new : a \in Announcement /\ a.peer = p /\ a.words \in SaysNow(p)
    BY SaysNowFresh DEF TypeOK, Announcement
  <2>4. \A a \in new : lastRan[a.peer][a.words.offers] <= a.words.age
    BY <2>3, SaysNowFresh DEF TypeOK, WordsWereTrue
  <2>5. TypeOK'
    BY <2>1, <2>2, <2>3 DEF TypeOK
  <2>6. WordsWereTrue'
    BY <2>1, <2>2, <2>4 DEF WordsWereTrue
  <2> QED
    BY <2>2, <2>5, <2>6 DEF EntriesWereTrue, NotLongOverdue, Lifetime
<1> QED
  BY <1>1, <1>2, <1>3 DEF PeerStep

\* What a fetch does.
LEMMA FetchKeepsPInv ==
  ASSUME PInv, NEW f \in Fetch, FetchStep(f)
  PROVE  PInv'
<1> USE DEF PInv
<1>1. ASSUME NEW p \in Peer, StartFetch(f, p)
      PROVE  PInv'
  BY <1>1
  DEF StartFetch, TypeOK, Fetching, WordsWereTrue, EntriesWereTrue, NotLongOverdue,
      Lifetime
<1>2. CASE AnswerPeerInfo(f)
  <2>1. PICK g \in fetch[f] :
          fetch' = [fetch EXCEPT ![f] = {[g EXCEPT !.answer = SaysNow(g.peer)]}]
    BY <1>2 DEF AnswerPeerInfo
  <2>2. UNCHANGED <<running, lastRan, announced, table, pageAge>>
    BY <1>2 DEF AnswerPeerInfo
  <2> DEFINE h == [g EXCEPT !.answer = SaysNow(g.peer)]
  <2>3. g.peer \in Peer /\ h.peer = g.peer /\ h.answer = SaysNow(g.peer)
    BY DEF TypeOK, Fetching
  <2>4. h \in Fetching
    BY <2>3, SaysNowFresh DEF TypeOK, Fetching
  <2>5. \A words \in h.answer : lastRan[h.peer][words.offers] <= words.age
    BY <2>3, SaysNowFresh DEF TypeOK, WordsWereTrue
  <2>6. TypeOK'
    BY <2>1, <2>2, <2>4 DEF TypeOK
  <2>7. WordsWereTrue'
    BY <2>1, <2>2, <2>5 DEF TypeOK, WordsWereTrue
  <2> QED
    BY <2>2, <2>6, <2>7 DEF EntriesWereTrue, NotLongOverdue, Lifetime
<1>3. ASSUME FetchSucceeds(f) \/ FetchFails(f)
      PROVE  /\ UNCHANGED <<running, lastRan, announced, pageAge>>
             /\ fetch' \in [Fetch -> SUBSET Fetching]
             /\ WordsWereTrue'
  BY <1>3 DEF FetchSucceeds, FetchFails, TypeOK, WordsWereTrue
<1>4. CASE FetchSucceeds(f)
  <2>0. PICK g \in fetch[f] : \E words \in g.answer :
          \/ UpsertPeerNode(g.peer, words.offers, SourceOf(f))
          \/ UNCHANGED table
    BY <1>4 DEF FetchSucceeds
  <2>1. PICK words \in g.answer :
          \/ UpsertPeerNode(g.peer, words.offers, SourceOf(f))
          \/ UNCHANGED table
    BY <2>0
  <2>2. UNCHANGED <<lastRan, pageAge>>
    BY <1>4 DEF FetchSucceeds
  <2>3. g.peer \in Peer /\ words \in Words /\ SourceOf(f) \in Source
    BY DEF TypeOK, Fetching, SourceOf, Source
  <2>4. lastRan[g.peer][words.offers] <= Delay
    BY <2>3, TTLAssumption DEF TypeOK, WordsWereTrue, Words, Age
  <2>5. CASE UpsertPeerNode(g.peer, words.offers, SourceOf(f))
    <3>1. words.offers \in BOOLEAN
      BY <2>3 DEF Words
    <3> QED
      BY <1>3, <1>4, <2>2, <2>3, <2>4, <2>5, <3>1, UpsertKeepsTruth DEF TypeOK
  <2>6. CASE UNCHANGED table
    BY <1>3, <1>4, <2>2, <2>6
    DEF TypeOK, EntriesWereTrue, NotLongOverdue, Lifetime
  <2> QED
    BY <2>1, <2>5, <2>6
<1>5. CASE FetchFails(f)
  <2>1. PICK g \in fetch[f] :
          table' = [table EXCEPT ![g.peer] = {e \in @ : e.source # SourceOf(f)}]
    BY <1>5 DEF FetchFails, RemovePeerNode
  <2> DEFINE kept == {e \in table[g.peer] : e.source # SourceOf(f)}
  <2>a. g.peer \in Peer
    BY DEF TypeOK, Fetching
  <2>b. kept \subseteq table[g.peer] /\ kept \in SUBSET Entry
    BY <2>a DEF TypeOK
  <2>c. table' = [table EXCEPT ![g.peer] = kept]
    BY <2>1
  <2> HIDE DEF kept
  <2>2. table' \in [Peer -> SUBSET Entry] /\ \A q \in Peer : table'[q] \subseteq table[q]
    BY <2>a, <2>b, <2>c DEF TypeOK
  <2>3. UNCHANGED <<lastRan, pageAge>>
    BY <1>5 DEF FetchFails
  <2> QED
    BY <1>3, <1>5, <2>2, <2>3, RemovalKeepsTruth DEF TypeOK
<1> QED
  BY <1>1, <1>2, <1>4, <1>5 DEF FetchStep

\* What the announcements do.
LEMMA AnnouncementKeepsPInv ==
  ASSUME PInv, NEW a \in announced, HearAnnouncement(a) \/ LoseAnnouncement(a)
  PROVE  PInv'
<1> USE DEF PInv
<1>1. /\ UNCHANGED <<running, lastRan, fetch, pageAge>>
      /\ announced' \subseteq announced
  BY DEF HearAnnouncement, LoseAnnouncement
<1>2. WordsWereTrue'
  BY <1>1 DEF WordsWereTrue
<1>3. a.peer \in Peer /\ a.words.offers \in BOOLEAN
  BY DEF TypeOK, Announcement, Words
<1>4. lastRan[a.peer][a.words.offers] <= Delay
  BY <1>3, TTLAssumption DEF TypeOK, WordsWereTrue, Announcement, Words, Age
<1>5. CASE HearAnnouncement(a)
  <2>1. UpsertPeerNode(a.peer, a.words.offers, "LAN")
    BY <1>5 DEF HearAnnouncement
  <2>2. "LAN" \in Source
    BY DEF Source
  <2> QED
    BY <1>1, <1>2, <1>3, <1>4, <2>1, <2>2, UpsertKeepsTruth DEF TypeOK
<1>6. CASE LoseAnnouncement(a)
  <2>1. UNCHANGED table
    BY <1>6 DEF LoseAnnouncement
  <2> QED
    BY <1>1, <1>2, <2>1 DEF TypeOK, EntriesWereTrue, NotLongOverdue, Lifetime
<1> QED
  BY <1>5, <1>6

\* Pruning makes a new page true: nothing that is left is overdue.
LEMMA BuildStateKeepsPInv ==
  ASSUME PInv, BuildState
  PROVE  PInv'
<1> USE DEF PInv
<1>1. UNCHANGED <<running, lastRan, announced, fetch>> /\ pageAge' = 0
  BY DEF BuildState
<1>2. \A p \in Peer : table'[p] = PrunePeers(table[p])
  BY DEF BuildState
<1>3. \A p \in Peer : /\ table'[p] \subseteq table[p]
                      /\ \A e \in table'[p] : e.age <= Lifetime(e.source)
  BY <1>2 DEF PrunePeers, PeerTTL, Lifetime
<1>4. table' \in [Peer -> SUBSET Entry]
  BY <1>3 DEF BuildState, TypeOK
<1>5. TypeOK'
  BY <1>1, <1>3, <1>4, TTLAssumption DEF TypeOK, Age
<1>6. WordsWereTrue' /\ EntriesWereTrue'
  BY <1>1, <1>3 DEF WordsWereTrue, EntriesWereTrue
<1>7. NotLongOverdue'
  <2> SUFFICES ASSUME NEW p \in Peer, NEW e \in table'[p]
               PROVE  e.age <= Lifetime(e.source) + pageAge'
    BY DEF NotLongOverdue, Lifetime
  <2>1. e.age <= Lifetime(e.source) /\ Lifetime(e.source) \in Nat
    BY <1>3, TTLAssumption DEF Lifetime
  <2>2. e.age \in Nat
    BY <1>4, TTLAssumption DEF Entry, Age
  <2> QED
    BY <1>1, <2>1, <2>2
<1> QED
  BY <1>5, <1>6, <1>7

\* Everything ages by one tick.
LEMMA TickKeepsPInv ==
  ASSUME PInv, Tick
  PROVE  PInv'
<1> USE DEF PInv
<1>1. \A p \in Peer : \A offers \in BOOLEAN :
        lastRan'[p][offers] = IF offers \in running[p] THEN 0 ELSE Older(lastRan[p][offers])
  BY DEF Tick
<1>2. \A p \in Peer : \A offers \in BOOLEAN :
        /\ lastRan[p][offers] \in Age /\ lastRan'[p][offers] \in Age
        /\ lastRan'[p][offers] <= lastRan[p][offers] + 1
        /\ lastRan'[p][offers] <= Older(lastRan[p][offers])
  BY <1>1, OlderAge, TTLAssumption DEF TypeOK, Age
<1>3. \A words \in Words :
        words.age < Delay =>
          /\ OlderWords(words) \in Words
          /\ OlderWords(words).offers = words.offers
          /\ OlderWords(words).age = words.age + 1
  BY TTLAssumption DEF OlderWords, Words
<1>4. \A a \in announced : a.words.age < Delay
  BY DEF Tick, OnItsWay
<1>5. \A f \in Fetch : \A g \in fetch[f] : \A words \in g.answer : words.age < Delay
  BY DEF Tick, OnItsWay
<1>6. \A p \in Peer : \A e1 \in table'[p] : \E e \in table[p] :
        /\ e1 = [e EXCEPT !.age = Older(@)] /\ e \in Entry
        /\ e1.age = Older(e.age) /\ e1.offers = e.offers /\ e1.source = e.source
        /\ e1 \in Entry
  BY OlderAge DEF Tick, TypeOK, Entry
<1>7. TypeOK'
  <2>1. lastRan' \in [Peer -> [BOOLEAN -> Age]]
    BY <1>2 DEF Tick
  <2>2. announced' \subseteq Announcement
    <3>1. \A a \in announced : [a EXCEPT !.words = OlderWords(@)] \in Announcement
      BY <1>3, <1>4 DEF TypeOK, Announcement
    <3> QED
      BY <3>1 DEF Tick
  <2>3. fetch' \in [Fetch -> SUBSET Fetching]
    <3> DEFINE older(g) == [g EXCEPT !.answer = {OlderWords(words) : words \in @}]
    <3>1. ASSUME NEW f \in Fetch, NEW g \in fetch[f]
          PROVE  older(g) \in Fetching
      <4>1. g \in Fetching /\ g.answer \subseteq Words
        BY DEF TypeOK, Fetching
      <4>2. {OlderWords(words) : words \in g.answer} \subseteq Words
        BY <1>3, <1>5, <4>1
      <4> QED
        BY <4>1, <4>2 DEF Fetching
    <3>2. fetch' = [f \in Fetch |-> {older(g) : g \in fetch[f]}]
      BY DEF Tick
    <3> QED
      BY <3>1, <3>2
  <2>4. table' \in [Peer -> SUBSET Entry]
    BY <1>6 DEF Tick
  <2>5. \A p \in Peer : \A e1, e2 \in table'[p] : e1 = e2
    BY <1>6 DEF TypeOK
  <2>6. pageAge' \in Age /\ running' \in [Peer -> SUBSET BOOLEAN]
    BY OlderAge DEF Tick, TypeOK
  <2> QED
    BY <2>1, <2>2, <2>3, <2>4, <2>5, <2>6 DEF TypeOK
<1>8. WordsWereTrue'
  <2>1. \A p \in Peer : \A offers \in running'[p] : lastRan'[p][offers] = 0
    BY <1>1 DEF Tick, TypeOK
  <2>2. ASSUME NEW a1 \in announced'
        PROVE  lastRan'[a1.peer][a1.words.offers] <= a1.words.age
    <3>1. PICK a \in announced : a1 = [a EXCEPT !.words = OlderWords(@)]
      BY DEF Tick
    <3>2. a.peer \in Peer /\ a.words \in Words /\ a1.peer = a.peer
            /\ a1.words = OlderWords(a.words)
      BY <3>1 DEF TypeOK, Announcement
    <3>3. a.words.offers \in BOOLEAN /\ a.words.age \in Nat
      BY <3>2, TTLAssumption DEF Words
    <3>4. lastRan[a.peer][a.words.offers] <= a.words.age
      BY DEF WordsWereTrue
    <3> QED
      BY <1>2, <1>3, <1>4, <3>2, <3>3, <3>4, TTLAssumption DEF Age
  <2>3. ASSUME NEW f \in Fetch, NEW g1 \in fetch'[f], NEW words1 \in g1.answer
        PROVE  lastRan'[g1.peer][words1.offers] <= words1.age
    <3>1. PICK g \in fetch[f] :
            g1 = [g EXCEPT !.answer = {OlderWords(words) : words \in @}]
      BY DEF Tick
    <3>2. g.peer \in Peer /\ g.answer \subseteq Words /\ g1.peer = g.peer
            /\ g1.answer = {OlderWords(words) : words \in g.answer}
      BY <3>1 DEF TypeOK, Fetching
    <3>3. PICK words \in g.answer : words1 = OlderWords(words)
      BY <3>2
    <3>4. words \in Words /\ words.offers \in BOOLEAN /\ words.age \in Nat
      BY <3>2, <3>3, TTLAssumption DEF Words
    <3>5. lastRan[g.peer][words.offers] <= words.age
      BY <3>3 DEF WordsWereTrue
    <3> QED
      BY <1>2, <1>3, <1>5, <3>2, <3>3, <3>4, <3>5, TTLAssumption DEF Age
  <2> QED
    BY <2>1, <2>2, <2>3 DEF WordsWereTrue
<1>9. ASSUME NEW p \in Peer, NEW e1 \in table'[p]
      PROVE  /\ lastRan'[p][e1.offers] <= e1.age + Delay
             /\ e1.age <= Lifetime(e1.source) + pageAge'
  <2>1. PICK e \in table[p] :
          /\ e \in Entry
          /\ e1.age = Older(e.age) /\ e1.offers = e.offers /\ e1.source = e.source
    BY <1>6, <1>9
  <2>2. e.age \in Age /\ e.offers \in BOOLEAN /\ Lifetime(e.source) \in Nat /\ pageAge \in Age
    BY <2>1, TTLAssumption DEF Entry, Lifetime, TypeOK
  <2>3. lastRan[p][e.offers] <= e.age + Delay /\ e.age <= Lifetime(e.source) + pageAge
    BY DEF EntriesWereTrue, NotLongOverdue
  <2>4. Older(lastRan[p][e.offers]) <= Older(e.age) + Delay
    BY <1>2, <2>2, <2>3, TTLAssumption, OlderKeepsBound
  <2>5. Older(e.age) <= Older(pageAge) + Lifetime(e.source)
    BY <2>2, <2>3, OlderKeepsBound, TTLAssumption DEF Age
  <2>6. Older(e.age) \in Nat /\ Older(pageAge) \in Nat /\ Older(lastRan[p][e.offers]) \in Nat
    BY <1>2, <2>2, OlderAge, TTLAssumption DEF Age
  <2>7. pageAge' = Older(pageAge) /\ lastRan'[p][e.offers] <= Older(lastRan[p][e.offers])
          /\ lastRan'[p][e.offers] \in Nat
    BY <1>2, <2>2, TTLAssumption DEF Tick, Age
  <2> QED
    BY <2>1, <2>2, <2>4, <2>5, <2>6, <2>7, TTLAssumption
<1> QED
  BY <1>7, <1>8, <1>9 DEF EntriesWereTrue, NotLongOverdue, Lifetime

LEMMA NextKeepsPInv == PInv /\ [Next]_vars => PInv'
<1> SUFFICES ASSUME PInv, [Next]_vars PROVE PInv'
  OBVIOUS
<1>1. CASE UNCHANGED vars
  BY <1>1 DEF vars, PInv, TypeOK, WordsWereTrue, EntriesWereTrue, NotLongOverdue, Lifetime
<1>2. CASE Next
  BY <1>2, PeerKeepsPInv, FetchKeepsPInv, AnnouncementKeepsPInv, BuildStateKeepsPInv,
     TickKeepsPInv DEF Next
<1> QED
  BY <1>1, <1>2

-----------------------------------------------------------------------------
(* Theorems. *)

THEOREM PInvHolds == Spec => []PInv
<1>1. QED
  BY InitPInv, NextKeepsPInv, PTL DEF Spec

\* The table has one well-formed entry per peer (appState.peers).
THEOREM PeerTableTypeCorrect == Spec => []TypeOK
<1>1. PInv => TypeOK
  BY DEF PInv
<1> QED
  BY <1>1, PInvHolds, PTL

\* No entry of the table looks fresher than it is, but for the time the
\* peer's words took (upsertPeerNodeFromPeerInfo, the LAN reader).
THEOREM EntriesAreTrue == Spec => []EntriesWereTrue
<1>1. PInv => EntriesWereTrue
  BY DEF PInv
<1> QED
  BY <1>1, PInvHolds, PTL

\* A deployment's target was there within its lifetime before the page was
\* built (sendDeployBundle, prunePeersLocked).
THEOREM TargetsRecent == Spec => []TargetsAreRecent
<1>1. PInv => TargetsAreRecent
  <2> SUFFICES ASSUME PInv, NEW p \in Peer, NEW e \in table[p]
               PROVE  LET allowed == Lifetime(e.source) + pageAge
                      IN  e.age <= allowed /\ lastRan[p][e.offers] <= allowed + Delay
    BY DEF TargetsAreRecent, Target, Lifetime
  <2>1. e.age <= Lifetime(e.source) + pageAge /\ lastRan[p][e.offers] <= e.age + Delay
    BY DEF PInv, EntriesWereTrue, NotLongOverdue
  <2>2. /\ e.age \in Nat /\ lastRan[p][e.offers] \in Nat /\ pageAge \in Nat
        /\ Lifetime(e.source) \in Nat
    BY TTLAssumption DEF PInv, TypeOK, Entry, Age, Lifetime
  <2> QED
    BY <2>1, <2>2, TTLAssumption
<1> QED
  BY <1>1, PInvHolds, PTL

\* Failures of one mechanism do not hide what another one sees
\* (removePeerNode, prunePeersLocked).
THEOREM NobodyElsesPeerRemoved == Spec => NobodyElsesPeer
<1> DEFINE Excused(p, e) ==
      \/ e.age > PeerTTL(e.source)
      \/ \E f \in Fetch : \E g \in fetch[f] :
           g.peer = p /\ SourceOf(f) = e.source /\ fetch'[f] = {}
<1>1. ASSUME PInv, [Next]_vars, NEW p \in Peer, NEW e \in table[p], table'[p] = {}
      PROVE  Excused(p, e)
  <2> USE <1>1 DEF PInv, TypeOK
  <2>1. CASE UNCHANGED table
    BY <2>1
  <2>2. ASSUME NEW q \in Peer, NEW offers, NEW source, UpsertPeerNode(q, offers, source)
        PROVE  FALSE
    BY <2>2 DEF UpsertPeerNode
  <2>3. ASSUME NEW f \in Fetch, FetchFails(f)
        PROVE  Excused(p, e)
    <3>1. PICK g \in fetch[f] :
            table' = [table EXCEPT ![g.peer] = {x \in @ : x.source # SourceOf(f)}]
      BY <2>3 DEF FetchFails, RemovePeerNode
    <3>2. fetch'[f] = {}
      BY <2>3 DEF FetchFails
    <3>3. g.peer = p /\ SourceOf(f) = e.source
      BY <3>1
    <3> QED
      BY <3>2, <3>3
  <2>4. ASSUME NEW f \in Fetch, FetchSucceeds(f)
        PROVE  Excused(p, e)
    <3>1. PICK g \in fetch[f] : \E words \in g.answer :
            UpsertPeerNode(g.peer, words.offers, SourceOf(f)) \/ UNCHANGED table
      BY <2>4 DEF FetchSucceeds
    <3>2. g.peer \in Peer
      BY DEF Fetching
    <3> QED
      BY <2>1, <2>2, <3>1, <3>2
  <2>5. ASSUME NEW a \in announced, HearAnnouncement(a)
        PROVE  Excused(p, e)
    <3>1. a.peer \in Peer /\ UpsertPeerNode(a.peer, a.words.offers, "LAN")
      BY <2>5 DEF HearAnnouncement, Announcement
    <3> QED
      BY <2>2, <3>1
  <2>6. CASE BuildState
    <3>1. table'[p] = PrunePeers(table[p]) /\ PeerTTL(e.source) \in Nat /\ e.age \in Nat
      BY <2>6, TTLAssumption DEF BuildState, PeerTTL, Entry, Age
    <3>2. ~(e.age <= PeerTTL(e.source))
      BY <3>1 DEF PrunePeers
    <3>3. \A i, j \in Nat : ~(i <= j) => i > j
      OBVIOUS
    <3>4. e.age > PeerTTL(e.source)
      BY <3>1, <3>2, <3>3
    <3> QED
      BY <3>4
  <2>7. CASE Tick
    <3>1. table'[p] = {[x EXCEPT !.age = Older(@)] : x \in table[p]}
      BY <2>7 DEF Tick
    <3>2. e \in table[p]
      BY <1>1
    <3>3. [e EXCEPT !.age = Older(@)] \in {[x EXCEPT !.age = Older(@)] : x \in table[p]}
      BY <3>2, AgeingKeepsEntries, Zenon
    <3>4. [e EXCEPT !.age = Older(@)] \in table'[p]
      BY <3>1, <3>3, Zenon
    <3> QED
      BY <3>4
  <2>8. CASE \E q \in Peer : PeerStep(q)
    BY <2>1, <2>8 DEF PeerStep, PeerStarts, PeerStops, Announce
  <2>9. CASE \E f \in Fetch : (\E q \in Peer : StartFetch(f, q)) \/ AnswerPeerInfo(f)
    BY <2>1, <2>9 DEF StartFetch, AnswerPeerInfo
  <2>10. CASE \E a \in announced : LoseAnnouncement(a)
    BY <2>1, <2>10 DEF LoseAnnouncement
  <2> QED
    BY <2>1, <2>3, <2>4, <2>5, <2>6, <2>7, <2>8, <2>9, <2>10 DEF Next, FetchStep, vars
<1>2. PInv /\ [Next]_vars =>
        [\A p \in Peer : \A e \in table[p] : table'[p] = {} => Excused(p, e)]_vars
  BY <1>1
<1> QED
  BY <1>2, PInvHolds, PTL DEF Spec, NobodyElsesPeer
=============================================================================
