------------------------------ MODULE PeerTable ------------------------------
(***************************************************************************)
(* The table of peers one node keeps (appState.peers), and the three       *)
(* mechanisms that write it: LAN announcements, and fetches of a peer's    *)
(* info started by mDNS (a goroutine per sighting) or by the DHT (a loop   *)
(* that handles one peer at a time).  Entries expire, but only the state   *)
(* page removes what has expired.                                          *)
(*                                                                         *)
(* Time passes in ticks.  What a peer has said is on its way for at most   *)
(* Delay ticks, in any order; a peer may be silent for as long as it likes.*)
(***************************************************************************)
EXTENDS Naturals

CONSTANTS
  Peer,        \* the other nodes
  MdnsFetch,   \* bound: fetches mDNS may have going on at once
  DhtFetch,    \* the one fetch of the DHT loop
  LanTTL,      \* ticks an entry made by LAN or mDNS is good for
  DhtTTL,      \* ticks an entry made by the DHT is good for
  Delay,       \* bound: ticks for which a peer's words may be on their way
  MaxAge       \* bound: ages are not told apart from here on

ASSUME TTLAssumption ==
  /\ LanTTL \in Nat /\ DhtTTL \in Nat /\ Delay \in Nat /\ MaxAge \in Nat
  /\ LanTTL < MaxAge /\ DhtTTL < MaxAge

ASSUME FetchAssumption == DhtFetch \notin MdnsFetch

VARIABLES
  running,    \* running[p]: what p tells of itself while it runs, or none
  lastRan,    \* lastRan[p][offers]: ticks since p last ran offering so
  announced,  \* LAN announcements on their way
  fetch,      \* fetch[f]: the fetch a goroutine is busy with, or none
  table,      \* table[p]: the entry of p, or none
  pageAge     \* ticks since the state page was last built

vars == <<running, lastRan, announced, fetch, table, pageAge>>

Fetch == MdnsFetch \cup {DhtFetch}
Source == {"LAN", "mDNS", "DHT"}
Age == 0 .. MaxAge

\* A peerNode: whether it takes deployments, who saw it, how long ago.
Entry == [offers : BOOLEAN, source : Source, age : Age]

\* What a peer says of itself, and for how long it has been on its way.
Words == [offers : BOOLEAN, age : 0 .. Delay]

Announcement == [peer : Peer, words : Words]

\* fetchPeerInfo: no answer until the peer gives one.
Fetching == [peer : Peer, answer : SUBSET Words]

SourceOf(f) == IF f = DhtFetch THEN "DHT" ELSE "mDNS"

\* A slip: everything is given the lifetime of a DHT entry.
DhtTTLForAll(source) == DhtTTL

PeerTTL(source) == IF source = "DHT" THEN DhtTTL ELSE LanTTL

Older(age) == IF age < MaxAge THEN age + 1 ELSE age

\* Types; and a peer has one entry, whoever has seen it (appState.peers).
TypeOK ==
  /\ running \in [Peer -> SUBSET BOOLEAN]
  /\ lastRan \in [Peer -> [BOOLEAN -> Age]]
  /\ announced \subseteq Announcement
  /\ fetch \in [Fetch -> SUBSET Fetching]
  /\ table \in [Peer -> SUBSET Entry]
  /\ \A p \in Peer : \A e1, e2 \in table[p] : e1 = e2
  /\ pageAge \in Age

Init ==
  /\ running = [p \in Peer |-> {}]
  /\ lastRan = [p \in Peer |-> [offers \in BOOLEAN |-> MaxAge]]
  /\ announced = {}
  /\ fetch = [f \in Fetch |-> {}]
  /\ table = [p \in Peer |-> {}]
  /\ pageAge = 0

-----------------------------------------------------------------------------
(* The peers. *)

\* What a peer offers is read from its environment when it starts.
PeerStarts(p) ==
  /\ running[p] = {}
  /\ \E offers \in BOOLEAN :
       /\ running' = [running EXCEPT ![p] = {offers}]
       /\ lastRan' = [lastRan EXCEPT ![p][offers] = 0]
  /\ UNCHANGED <<announced, fetch, table, pageAge>>

\* Leaving is not announced to anybody.
PeerStops(p) ==
  /\ running[p] # {}
  /\ running' = [running EXCEPT ![p] = {}]
  /\ UNCHANGED <<lastRan, announced, fetch, table, pageAge>>

SaysNow(p) == [offers : running[p], age : {0}]

Announce(p) ==
  /\ running[p] # {}
  /\ announced' = announced \cup [peer : {p}, words : SaysNow(p)]
  /\ UNCHANGED <<running, lastRan, fetch, table, pageAge>>

\* The stream handler of /peer/info answers a fetch.
AnswerPeerInfo(f) ==
  /\ \E g \in fetch[f] :
       /\ g.answer = {}
       /\ running[g.peer] # {}
       /\ fetch' = [fetch EXCEPT ![f] = {[g EXCEPT !.answer = SaysNow(g.peer)]}]
  /\ UNCHANGED <<running, lastRan, announced, table, pageAge>>

-----------------------------------------------------------------------------
(* The node that keeps the table. *)

\* A slip: a known peer is only marked as seen again.
SeenAgain(p, offers, source) ==
  table' = [table EXCEPT ![p] =
    IF @ = {} THEN {[offers |-> offers, source |-> source, age |-> 0]}
    ELSE {[e EXCEPT !.source = source, !.age = 0] : e \in @}]

\* A slip: what another mechanism has seen stays listed besides.
AddPeerNode(p, offers, source) ==
  table' = [table EXCEPT ![p] = {e \in @ : e.source # source} \cup
    {[offers |-> offers, source |-> source, age |-> 0]}]

\* Whoever sees a peer overwrites all that was known of it.
UpsertPeerNode(p, offers, source) ==
  table' = [table EXCEPT ![p] = {[offers |-> offers, source |-> source, age |-> 0]}]

\* A slip: a failed fetch removes the peer whoever has seen it.
RemovePeerNodeOfAny(p, source) == table' = [table EXCEPT ![p] = {}]

RemovePeerNode(p, source) ==
  table' = [table EXCEPT ![p] = {e \in @ : e.source # source}]

\* The reader of LAN announcements.  A packet is sent to two addresses and may
\* come twice.
HearAnnouncement(a) ==
  /\ a \in announced
  /\ announced' \in {announced, announced \ {a}}
  /\ UpsertPeerNode(a.peer, a.words.offers, "LAN")
  /\ UNCHANGED <<running, lastRan, fetch, pageAge>>

\* Lost, or ignored by the reader because it names no address.
LoseAnnouncement(a) ==
  /\ a \in announced
  /\ announced' = announced \ {a}
  /\ UNCHANGED <<running, lastRan, fetch, table, pageAge>>

\* HandlePeerFound, or the next peer FindPeers returns; both may name a peer
\* that is long gone.
StartFetch(f, p) ==
  /\ fetch[f] = {}
  /\ fetch' = [fetch EXCEPT ![f] = {[peer |-> p, answer |-> {}]}]
  /\ UNCHANGED <<running, lastRan, announced, table, pageAge>>

\* An answer that names no address leaves the table as it is.
FetchSucceeds(f) ==
  /\ \E g \in fetch[f] : \E words \in g.answer :
       \/ UpsertPeerNode(g.peer, words.offers, SourceOf(f))
       \/ UNCHANGED table
  /\ fetch' = [fetch EXCEPT ![f] = {}]
  /\ UNCHANGED <<running, lastRan, announced, pageAge>>

\* No connection within five seconds, or one that breaks at any time.
FetchFails(f) ==
  /\ \E g \in fetch[f] : RemovePeerNode(g.peer, SourceOf(f))
  /\ fetch' = [fetch EXCEPT ![f] = {}]
  /\ UNCHANGED <<running, lastRan, announced, pageAge>>

\* A slip: what has expired stays where it is.
KeepExpired(entries) == entries

PrunePeers(entries) == {e \in entries : e.age <= PeerTTL(e.source)}

\* buildState, for every page load and every poll of an open page, shows what
\* is left after pruning.
BuildState ==
  /\ table' = [p \in Peer |-> PrunePeers(table[p])]
  /\ pageAge' = 0
  /\ UNCHANGED <<running, lastRan, announced, fetch>>

\* sendDeployBundle takes an address from the table as it is.
Target(p) == table[p]

-----------------------------------------------------------------------------
OnItsWay == {a.words : a \in announced} \cup
            UNION {g.answer : g \in UNION {fetch[f] : f \in Fetch}}

OlderWords(words) == [words EXCEPT !.age = @ + 1]

Tick ==
  /\ \A words \in OnItsWay : words.age < Delay
  /\ lastRan' = [p \in Peer |-> [offers \in BOOLEAN |->
                   IF offers \in running[p] THEN 0 ELSE Older(lastRan[p][offers])]]
  /\ announced' = {[a EXCEPT !.words = OlderWords(@)] : a \in announced}
  /\ fetch' = [f \in Fetch |->
       {[g EXCEPT !.answer = {OlderWords(words) : words \in @}] : g \in fetch[f]}]
  /\ table' = [p \in Peer |-> {[e EXCEPT !.age = Older(@)] : e \in table[p]}]
  /\ pageAge' = Older(pageAge)
  /\ UNCHANGED running

PeerStep(p) == PeerStarts(p) \/ PeerStops(p) \/ Announce(p)

FetchStep(f) ==
  \/ \E p \in Peer : StartFetch(f, p)
  \/ AnswerPeerInfo(f) \/ FetchSucceeds(f) \/ FetchFails(f)

Next ==
  \/ \E p \in Peer : PeerStep(p)
  \/ \E f \in Fetch : FetchStep(f)
  \/ \E a \in announced : HearAnnouncement(a) \/ LoseAnnouncement(a)
  \/ BuildState
  \/ Tick

Spec == Init /\ [][Next]_vars

\* A packet is heard for the last time, or never.
Delivered(a) ==
  /\ HearAnnouncement(a) \/ LoseAnnouncement(a)
  /\ a \notin announced'

\* Time passes, an open page is polled, and what was said arrives or is lost.
Fairness ==
  /\ WF_vars(Tick)
  /\ WF_vars(BuildState)
  /\ WF_vars(\E a \in announced : Delivered(a))
  /\ \A f \in Fetch : WF_vars(FetchSucceeds(f) \/ FetchFails(f))

FairSpec == Spec /\ Fairness

-----------------------------------------------------------------------------
(* Properties. *)

\* An entry never looks fresher than it is, give or take the time the peer's
\* words took: the peer did run then and offer what the entry says, however
\* announcements and answers overtake each other (upsertPeerNodeFromPeerInfo
\* and the LAN reader stamp entries on arrival).
EntriesWereTrue ==
  \A p \in Peer : \A e \in table[p] : lastRan[p][e.offers] <= e.age + Delay

\* An entry outlives its lifetime by no more than the age of the page, so a
\* deployment that looks up an expired peer (sendDeployBundle) has a user who
\* looks at an old page, and the peer was there not much longer ago.
TargetsAreRecent ==
  \A p \in Peer : \A e \in Target(p) :
    LET allowed == (IF e.source = "DHT" THEN DhtTTL ELSE LanTTL) + pageAge
    IN  e.age <= allowed /\ lastRan[p][e.offers] <= allowed + Delay

\* A peer disappears because it has expired, or because a fetch by the very
\* mechanism that saw it last has failed (removePeerNode, prunePeersLocked);
\* no failure of one mechanism hides a peer another one sees.
NobodyElsesPeer ==
  [][\A p \in Peer : \A e \in table[p] :
       table'[p] = {} =>
         \/ e.age > PeerTTL(e.source)
         \/ \E f \in Fetch : \E g \in fetch[f] :
              g.peer = p /\ SourceOf(f) = e.source /\ fetch'[f] = {}]_vars

\* A peer that is gone for good vanishes from the table for good, whatever was
\* still on its way from it (prunePeersLocked, removePeerNode).
GoneIsForgotten ==
  \A p \in Peer : <>[](running[p] = {}) => <>[](table[p] = {})
=============================================================================
