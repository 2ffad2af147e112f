---------------------------- MODULE DeployProofs ----------------------------
(***************************************************************************)
(* Deploy is correct for any nodes, requests and bounds: its logs, and     *)
(* what a renter returns to its user: how the one result of a handler      *)
(* becomes an answer and a verdict, how far clean-up is by then, what      *)
(* deployments of one project do to each other; and the contract.          *)
(***************************************************************************)
EXTENDS Deploy, TLAPS, SequenceTheorems

-----------------------------------------------------------------------------
(* The log: facts about logs of any length over any events. *)

\* What is cut off at the end disappears, what remains keeps its place.
LEMMA FirstDeploysPrefix ==
  ASSUME NEW S, NEW items \in Seq(S), NEW count \in Nat
  PROVE  /\ FirstDeploys(items, count) \in Seq(S)
         /\ Len(FirstDeploys(items, count)) <= count
         /\ Len(FirstDeploys(items, count)) <= Len(items)
         /\ \A i \in DOMAIN FirstDeploys(items, count) :
              i \in DOMAIN items /\ FirstDeploys(items, count)[i] = items[i]
<1>1. CASE Len(items) <= count
  BY <1>1, LenProperties DEF FirstDeploys
<1>2. CASE ~(Len(items) <= count)
  <2>1. FirstDeploys(items, count) = SubSeq(items, 1, count)
    BY <1>2 DEF FirstDeploys
  <2>2. Len(items) \in Nat /\ count < Len(items)
    BY <1>2, LenProperties
  <2>3. \A i \in 1 .. count : i \in 1 .. Len(items)
    BY <2>2
  <2>4. \A i \in 1 .. count : items[i] \in S
    BY <2>3, ElementOfSeq
  <2>5. /\ SubSeq(items, 1, count) \in Seq(S)
        /\ Len(SubSeq(items, 1, count)) = count
        /\ \A i \in 1 .. count : SubSeq(items, 1, count)[i] = items[1 + i - 1]
    BY <2>2, <2>4, SubSeqProperties
  <2>6. DOMAIN SubSeq(items, 1, count) = 1 .. count /\ DOMAIN items = 1 .. Len(items)
    BY <2>5, LenProperties
  <2>7. \A i \in 1 .. count : 1 + i - 1 = i
    OBVIOUS
  <2> QED
    BY <2>1, <2>2, <2>3, <2>5, <2>6, <2>7
<1> QED
  BY <1>1, <1>2

\* A log of events stays a log of events.
LEMMA UpsertType ==
  ASSUME NEW S, NEW log \in Seq(S), NEW event \in S
  PROVE  UpsertDeployEvent(log, event) \in Seq(S)
<1>1. CASE HasKey(log, event.key)
  <2>1. DOMAIN log = 1 .. Len(log) /\ Len(log) \in Nat
    BY LenProperties
  <2>2. \A i \in 1 .. Len(log) : log[i] \in S
    BY ElementOfSeq
  <2> DEFINE replaced == [i \in DOMAIN log |-> IF FoundAt(log, event.key, i) THEN event ELSE log[i]]
  <2>3. replaced \in [1 .. Len(log) -> S]
    BY <2>1, <2>2
  <2>4. replaced \in Seq(S)
    BY <2>1, <2>3, SeqDef
  <2> QED
    BY <1>1, <2>4 DEF UpsertDeployEvent
<1>2. CASE ~HasKey(log, event.key)
  <2>1. <<event>> \o log \in Seq(S)
    OBVIOUS
  <2> QED
    BY <1>2, <2>1, FirstDeploysPrefix, LogLimitAssumption DEF UpsertDeployEvent
<1> QED
  BY <1>1, <1>2

\* A log holds what it held, or the new event: nothing else can appear.
LEMMA UpsertAddsOnlyEvent ==
  ASSUME NEW S, NEW log \in Seq(S), NEW event,
         NEW i \in DOMAIN UpsertDeployEvent(log, event)
  PROVE  \/ UpsertDeployEvent(log, event)[i] = event
         \/ \E j \in DOMAIN log : UpsertDeployEvent(log, event)[i] = log[j]
<1> DEFINE T == S \cup {event}
<1>s. log \in Seq(T) /\ event \in T
  BY SeqMonotonic
<1>1. CASE HasKey(log, event.key)
  BY <1>1 DEF UpsertDeployEvent
<1>2. CASE ~HasKey(log, event.key)
  <2> DEFINE longer == <<event>> \o log
  <2>1. longer \in Seq(T) /\ Len(longer) = Len(log) + 1 /\ Len(log) \in Nat
    BY <1>s, LenProperties
  <2>2. UpsertDeployEvent(log, event) = FirstDeploys(longer, LogLimit)
    BY <1>2 DEF UpsertDeployEvent
  <2>3. i \in DOMAIN longer /\ UpsertDeployEvent(log, event)[i] = longer[i]
    <3> HIDE DEF longer
    <3> QED
      BY <2>1, <2>2, FirstDeploysPrefix, LogLimitAssumption
  <2>4. i \in 1 .. Len(log) + 1
    BY <2>1, <2>3, LenProperties
  <2>5. longer[1] = event /\ \A k \in 2 .. Len(log) + 1 : longer[k] = log[k - 1]
    BY <1>s, <2>1
  <2>6. i = 1 \/ (i \in 2 .. Len(log) + 1 /\ i - 1 \in DOMAIN log)
    BY <2>1, <2>4, LenProperties
  <2> QED
    BY <2>3, <2>5, <2>6
<1> QED
  BY <1>1, <1>2

\* A well-formed log stays well-formed, and shows the new event and no other
\* under its key.
LEMMA UpsertWellFormed ==
  ASSUME NEW S, NEW log \in Seq(S), NEW event, WellFormed(log)
  PROVE  /\ WellFormed(UpsertDeployEvent(log, event))
         /\ \A i \in DOMAIN UpsertDeployEvent(log, event) :
              UpsertDeployEvent(log, event)[i].key = event.key
                => UpsertDeployEvent(log, event)[i] = event
<1> DEFINE new == UpsertDeployEvent(log, event)
           T == S \cup {event}
<1>s. log \in Seq(T) /\ event \in T
  BY SeqMonotonic
<1>1. CASE HasKey(log, event.key)
  <2>1. DOMAIN log = 1 .. Len(log) /\ Len(log) \in Nat
    BY LenProperties
  <2>2. PICK k \in DOMAIN log : log[k].key = event.key
    BY <1>1 DEF HasKey
  <2>3. \A j \in DOMAIN log : log[j].key = event.key => j = k
    BY <2>2 DEF WellFormed
  <2>4. FoundAt(log, event.key, k)
    BY <2>1, <2>2, <2>3 DEF FoundAt
  <2>5. new = [i \in DOMAIN log |-> IF FoundAt(log, event.key, i) THEN event ELSE log[i]]
    BY <1>1 DEF UpsertDeployEvent
  <2>6. DOMAIN new = DOMAIN log
    BY <2>5
  <2>7. \A i \in DOMAIN log : FoundAt(log, event.key, i) <=> i = k
    BY <2>3, <2>4 DEF FoundAt
  <2>8. \A i \in DOMAIN log : new[i] = IF i = k THEN event ELSE log[i]
    BY <2>5, <2>7
  <2>9. \A i \in DOMAIN log : new[i].key = log[i].key
    BY <2>2, <2>8
  <2>10. new \in Seq(T)
    BY <1>s, UpsertType
  <2>11. Len(new) = Len(log)
    BY <2>1, <2>6, <2>10, LenProperties
  <2>12. WellFormed(new)
    BY <2>6, <2>9, <2>11 DEF WellFormed
  <2>13. \A i \in DOMAIN new : new[i].key = event.key => new[i] = event
    BY <2>3, <2>6, <2>8, <2>9
  <2> QED
    BY <2>12, <2>13
<1>2. CASE ~HasKey(log, event.key)
  <2> DEFINE longer == <<event>> \o log
  <2>1. longer \in Seq(T) /\ Len(longer) = Len(log) + 1 /\ Len(log) \in Nat
    BY <1>s, LenProperties
  <2>2. new = FirstDeploys(longer, LogLimit)
    BY <1>2 DEF UpsertDeployEvent
  <2>3. /\ Len(new) <= LogLimit
        /\ \A i \in DOMAIN new : i \in DOMAIN longer /\ new[i] = longer[i]
    <3> HIDE DEF longer, new
    <3> QED
      BY <2>1, <2>2, FirstDeploysPrefix, LogLimitAssumption
  <2>4. DOMAIN longer = 1 .. Len(log) + 1 /\ DOMAIN log = 1 .. Len(log)
    BY <2>1, LenProperties
  <2>5. longer[1] = event /\ \A i \in 2 .. Len(log) + 1 : longer[i] = log[i - 1]
    BY <1>s, <2>1
  <2>6. \A i \in DOMAIN longer : i = 1 \/ (i \in 2 .. Len(log) + 1 /\ i - 1 \in DOMAIN log)
    BY <2>1, <2>4
  <2>7. \A i \in DOMAIN longer : longer[i].key = event.key => i = 1
    BY <1>2, <2>5, <2>6 DEF HasKey
  <2>8. \A i, j \in DOMAIN longer : longer[i].key = longer[j].key => i = j
    <3> SUFFICES ASSUME NEW i \in DOMAIN longer, NEW j \in DOMAIN longer,
                        longer[i].key = longer[j].key
                 PROVE  i = j
      OBVIOUS
    <3>1. CASE i = 1 \/ j = 1
      BY <3>1, <2>5, <2>7
    <3>2. CASE i # 1 /\ j # 1
      <4>1. i - 1 \in DOMAIN log /\ j - 1 \in DOMAIN log /\ i \in 2 .. Len(log) + 1 /\ j \in 2 .. Len(log) + 1
        BY <3>2, <2>6
      <4>2. log[i - 1].key = log[j - 1].key
        BY <4>1, <2>5
      <4>3. i - 1 = j - 1
        BY <4>1, <4>2 DEF WellFormed
      <4> QED
        BY <4>1, <4>3, <2>1
    <3> QED
      BY <3>1, <3>2
  <2>9. WellFormed(new)
    BY <2>3, <2>8 DEF WellFormed
  <2>10. \A i \in DOMAIN new : new[i].key = event.key => new[i] = event
    BY <2>3, <2>5, <2>7
  <2> QED
    BY <2>9, <2>10
<1> QED
  BY <1>1, <1>2

\* A lookup returns events of the log that have the key asked for.
LEMMA LookupFinds ==
  ASSUME NEW log, NEW key, NEW event \in GetDeployEventByKey(log, key)
  PROVE  event.key = key /\ \E i \in DOMAIN log : event = log[i]
  BY DEF GetDeployEventByKey, FoundAt

-----------------------------------------------------------------------------
(* Types. *)

\* Posting an event keeps every log a log of events.
LEMMA PostType ==
  ASSUME TypeOK, NEW n \in Node, NEW event \in Event, Post(n, event)
  PROVE  deploys' \in [Node -> Seq(Event)]
<1>1. deploys \in [Node -> Seq(Event)]
  BY DEF TypeOK, SharedTypeOK
<1>2. UpsertDeployEvent(deploys[n], event) \in Seq(Event)
  BY <1>1, UpsertType
<1> QED
  BY <1>1, <1>2 DEF Post

\* An event about a request that carries a stamp has the type of an event.
LEMMA EventOfType ==
  ASSUME TypeOK, NEW r \in Request, requestedAt[r] # 0,
         NEW status \in Status, NEW lines \in 0 .. MaxLines, NEW files \in BOOLEAN
  PROVE  EventOf(r, status, lines, files) \in Event
<1>1. requestedAt[r] \in Second
  BY BoundAssumption DEF TypeOK, SharedTypeOK, Second
<1> QED
  BY <1>1 DEF EventOf, Event, DeployEventKey, Key

\* The types of all variables but the logs survive every step of a renter.
LEMMA RenterType ==
  ASSUME TypeOK, NEW r \in Request, Stamped(r), RenterStep(r), UNCHANGED providerVars
  PROVE  TypeOK'
<1> USE DEF TypeOK, SharedTypeOK, RenterTypeOK, renterVars, sharedVars, requestVars,
            deployStream, statusStream
<1>p. ProviderTypeOK'
  BY DEF ProviderTypeOK, providerVars, childVars, hostVars
<1>1. CASE SubmitFails(r)
  BY <1>1, <1>p, BoundAssumption DEF SubmitFails, Return, Fault
<1>2. CASE Submit(r)
  <2>1. [key |-> <<clock, Source[r], Bundle[r]>>, status |-> "sent", lines |-> 0, files |-> FALSE] \in Event
    BY BoundAssumption DEF Event, Key, Status
  <2>2. deploys' \in [Node -> Seq(Event)]
    BY <1>2, <2>1, PostType, RequestAssumption DEF Submit
  <2> QED
    BY <1>2, <1>p, <2>2, BoundAssumption DEF Submit, Second, Calling
<1>3. CASE DialFails(r)
  BY <1>3, <1>p, BoundAssumption DEF DialFails, Return, Fault
<1>4. CASE Dial(r)
  BY <1>4, <1>p DEF Dial, Calling
<1>5. CASE WriteRequest(r)
  BY <1>5, <1>p DEF WriteRequest, Calling
<1>6. CASE WriteFails(r)
  BY <1>6, <1>p DEF WriteFails, StopPolling, Calling
<1>7. CASE ReadAnswer(r)
  BY <1>7, <1>p DEF ReadAnswer, StopPolling, Calling
<1>8. CASE ReadFails(r)
  BY <1>8, <1>p DEF ReadFails, StopPolling, Calling
<1>9. CASE Abandon(r)
  BY <1>9, <1>p DEF Abandon, Return
<1>10. CASE RecordResult(r)
  <2>1. PICK a \in answer[r] :
          Post(Source[r], RecordDeployResult(r, a)) /\ Return(r, a.status)
    BY <1>10 DEF RecordResult
  <2>2. a \in Answer /\ requestedAt[r] # 0
    BY <1>10 DEF RecordResult, Stamped, Calling
  <2>3. RecordDeployResult(r, a) \in Event
    BY <2>2, EventOfType DEF RecordDeployResult, Answer, Status
  <2>4. deploys' \in [Node -> Seq(Event)]
    BY <2>1, <2>3, PostType, RequestAssumption
  <2> QED
    BY <1>10, <1>p, <2>1, <2>2, <2>4 DEF RecordResult, Return, Answer
<1>11. CASE SaveFails(r)
  BY <1>11, <1>p, BoundAssumption DEF SaveFails, Return, Fault
<1>12. CASE PollAsk(r)
  BY <1>12, <1>p DEF PollAsk
<1>13. CASE PollStop(r)
  BY <1>13, <1>p DEF PollStop
<1>14. CASE PollFails(r)
  BY <1>14, <1>p DEF PollFails
<1>15. CASE PollApply(r)
  <2>1. PICK event \in reply[r] :
          /\ Post(Source[r], [event EXCEPT !.key = DeployEventKey(r)])
          /\ poller' = [poller EXCEPT ![r] = IF event.status \in Terminal THEN "done" ELSE @]
    BY <1>15 DEF PollApply
  <2>2. event \in Event /\ requestedAt[r] \in Second
    BY <1>15, BoundAssumption DEF PollApply, Stamped, Second
  <2>3. DeployEventKey(r) \in Key
    BY <2>2 DEF DeployEventKey, Key
  <2>4. [event EXCEPT !.key = DeployEventKey(r)] \in Event
    BY <2>2, <2>3 DEF Event
  <2>5. deploys' \in [Node -> Seq(Event)]
    BY <2>1, <2>4, PostType, RequestAssumption
  <2> QED
    BY <1>15, <1>p, <2>1, <2>5 DEF PollApply
<1> QED
  BY <1>1, <1>2, <1>3, <1>4, <1>5, <1>6, <1>7, <1>8, <1>9, <1>10, <1>11, <1>12, <1>13,
     <1>14, <1>15 DEF RenterStep, CallStep, PollStep

\* Likewise for every step of a provider.
LEMMA ProviderType ==
  ASSUME TypeOK, NEW r \in Request, Stamped(r), ProviderStep(r), UNCHANGED renterVars
  PROVE  TypeOK'
<1> USE DEF TypeOK, SharedTypeOK, ProviderTypeOK, providerVars, childVars, hostVars,
            sharedVars, requestVars, deployStream, statusStream
<1>r. RenterTypeOK'
  BY DEF RenterTypeOK, renterVars
<1>z. 0 \in 0 .. MaxLines
  BY BoundAssumption
<1>k. handler[r] # "idle" => requestedAt[r] # 0
  BY DEF Stamped
<1>pl. Place(r) \in Places
  BY DEF Places
<1>f. ASSUME Fail(r), requestedAt[r] # 0, handler' \in [Request -> Handling \cup {"idle", "done", "crashed"}]
      PROVE  TypeOK'
  <2>e. EventOf(r, "failed", 0, FALSE) \in Event
    BY <1>f, <1>z, EventOfType DEF Status, Terminal
  <2>1. deploys' \in [Node -> Seq(Event)]
    BY <1>f, <2>e, PostType, RequestAssumption DEF Fail
  <2>2. [status |-> "failed", lines |-> 0, files |-> FALSE, oversize |-> FALSE] \in Answer
    BY BoundAssumption DEF Answer, Terminal
  <2> QED
    BY <1>f, <1>r, <2>1, <2>2, BoundAssumption DEF Fail, Fault
<1>1. CASE Receive(r)
  <2>e. EventOf(r, "received", 0, FALSE) \in Event
    BY <1>1, <1>z, EventOfType DEF Receive, Stamped, Status
  <2>1. deploys' \in [Node -> Seq(Event)]
    BY <1>1, <2>e, PostType, RequestAssumption DEF Receive
  <2> QED
    BY <1>1, <1>r, <2>1 DEF Receive, Goto, Handling
<1>2. CASE Reject(r)
  BY <1>2, <1>f, <1>k DEF Reject, Goto, Handling
<1>3. CASE MakeDir(r)
  BY <1>3, <1>r DEF MakeDir, Goto, Handling
<1>4. CASE PrepareFails(r)
  BY <1>4, <1>f, <1>k DEF PrepareFails, Goto, Handling
<1>5. CASE Prepare(r)
  <2>e. EventOf(r, "running", 0, FALSE) \in Event
    BY <1>5, <1>k, <1>z, EventOfType DEF Prepare, Goto, Status
  <2>1. deploys' \in [Node -> Seq(Event)]
    BY <1>5, <2>e, PostType, RequestAssumption DEF Prepare
  <2> QED
    BY <1>5, <1>r, <2>1 DEF Prepare, Goto, Handling
<1>6. CASE StartFails(r)
  BY <1>6, <1>r, BoundAssumption DEF StartFails, Goto, Handling, Fault, Terminal
<1>7. CASE Start(r)
  BY <1>7, <1>r, <1>pl DEF Start, Goto, Handling
<1>8. CASE ChildPrints(r)
  BY <1>8, <1>r, BoundAssumption DEF ChildPrints
<1>9. CASE ChildExits(r)
  BY <1>9, <1>r, <1>pl DEF ChildExits
<1>10. CASE ReaderPush(r)
  <2>1. shown' \in [Request -> 0 .. MaxLines] /\ shown'[r] \in 0 .. MaxLines
    BY <1>10, BoundAssumption DEF ReaderPush
  <2>2. requestedAt[r] # 0
    BY <1>10, <1>k, BoundAssumption DEF ReaderPush, Stamped
  <2>3. deploys' \in [Node -> Seq(Event)]
    BY <1>10, <2>1, <2>2, EventOfType, PostType, RequestAssumption DEF ReaderPush, Status
  <2> QED
    BY <1>10, <1>r, <2>1, <2>3 DEF ReaderPush
<1>11. CASE Finish(r)
  <2>1. PICK a \in Answer : PostOutcome(r, a) /\ result' = [result EXCEPT ![r] = {a}]
    BY <1>11 DEF Finish
  <2>2. deploys' \in [Node -> Seq(Event)]
    BY <1>11, <1>k, <2>1, EventOfType, PostType, RequestAssumption
       DEF Finish, Goto, PostOutcome, Answer, Status
  <2> QED
    BY <1>11, <1>r, <2>1, <2>2 DEF Finish, Goto, Handling
<1>12. CASE Respond(r)
  BY <1>12, <1>r DEF Respond, Goto, Handling
<1>13. CASE RespondOnly(r)
  BY <1>13, <1>r DEF RespondOnly, Goto, CloseStream
<1>14. CASE RespondFails(r)
  BY <1>14, <1>r DEF RespondFails, Goto, CloseStream
<1>15. CASE Down(r)
  BY <1>15, <1>r, <1>pl DEF Down, Goto, Handling
<1>16. CASE DownFails(r)
  BY <1>16, <1>r, BoundAssumption DEF DownFails, Goto, Handling, ReportProblem, Fault
<1>17. CASE RemoveDir(r)
  BY <1>17, <1>r DEF RemoveDir, Goto, CloseStream
<1>18. CASE RemoveDirFails(r)
  BY <1>18, <1>r, BoundAssumption DEF RemoveDirFails, Goto, CloseStream, ReportProblem, Fault
<1>19. CASE AnswerStatus(r)
  <2>1. Target[r] \in Node
    BY RequestAssumption
  <2>2. \A i \in DOMAIN deploys[Target[r]] : deploys[Target[r]][i] \in Event
    BY <2>1, ElementOfSeq, LenProperties
  <2>3. GetDeployEventByKey(deploys[Target[r]], DeployEventKey(r)) \subseteq Event
    BY <2>2 DEF GetDeployEventByKey
  <2> QED
    BY <1>19, <1>r, <2>3 DEF AnswerStatus
<1> QED
  BY <1>1, <1>2, <1>3, <1>4, <1>5, <1>6, <1>7, <1>8, <1>9, <1>10, <1>11, <1>12, <1>13,
     <1>14, <1>15, <1>16, <1>17, <1>18, <1>19 DEF ProviderStep, HandlerStep, ChildStep

\* And for everything the environment does.
LEMMA EnvironmentType ==
  ASSUME TypeOK,
         \/ \E r \in Request : StreamReset(r) \/ RequestLost(r)
         \/ \E n \in Node : Crash(n)
         \/ Tick
  PROVE  TypeOK'
<1> USE DEF TypeOK, SharedTypeOK, RenterTypeOK, ProviderTypeOK, renterVars, providerVars,
            childVars, hostVars, requestVars, deployStream, statusStream
<1>1. ASSUME NEW r \in Request, StreamReset(r) PROVE TypeOK'
  BY <1>1, BoundAssumption DEF StreamReset, Fault
<1>2. ASSUME NEW r \in Request, RequestLost(r) PROVE TypeOK'
  BY <1>2 DEF RequestLost
<1>3. ASSUME NEW n \in Node, Crash(n) PROVE TypeOK'
  BY <1>3, BoundAssumption DEF Crash, Fault
<1>4. CASE Tick
  BY <1>4, BoundAssumption DEF Tick, Second
<1> QED
  BY <1>1, <1>2, <1>3, <1>4

-----------------------------------------------------------------------------
(* Requests are stamped before they are anywhere. *)

LEMMA RenterStamped ==
  ASSUME TypeOK, NEW r \in Request, RenterStep(r), UNCHANGED providerVars,
         NEW q \in Request, Stamped(q)
  PROVE  Stamped(q)'
<1> USE DEF Stamped, TypeOK, SharedTypeOK, RenterTypeOK, ProviderTypeOK, providerVars, childVars,
            hostVars, renterVars, sharedVars, requestVars, deployStream, statusStream, Calling
<1>1. CASE SubmitFails(r)
  BY <1>1 DEF SubmitFails, Return
<1>2. CASE Submit(r)
  BY <1>2, BoundAssumption DEF Submit, Second
<1>3. CASE DialFails(r)
  BY <1>3 DEF DialFails, Return
<1>4. CASE Dial(r)
  BY <1>4 DEF Dial
<1>5. CASE WriteRequest(r)
  BY <1>5 DEF WriteRequest
<1>6. CASE WriteFails(r)
  BY <1>6 DEF WriteFails
<1>7. CASE ReadAnswer(r)
  BY <1>7 DEF ReadAnswer
<1>8. CASE ReadFails(r)
  BY <1>8 DEF ReadFails
<1>9. CASE Abandon(r)
  BY <1>9 DEF Abandon, Return
<1>10. CASE RecordResult(r)
  BY <1>10 DEF RecordResult, Return
<1>11. CASE SaveFails(r)
  BY <1>11 DEF SaveFails, Return
<1>12. CASE PollAsk(r)
  BY <1>12 DEF PollAsk
<1>13. CASE PollStop(r)
  BY <1>13 DEF PollStop
<1>14. CASE PollFails(r)
  BY <1>14 DEF PollFails
<1>15. CASE PollApply(r)
  BY <1>15 DEF PollApply
<1> QED
  BY <1>1, <1>2, <1>3, <1>4, <1>5, <1>6, <1>7, <1>8, <1>9, <1>10, <1>11, <1>12, <1>13,
     <1>14, <1>15 DEF RenterStep, CallStep, PollStep

LEMMA ProviderStamped ==
  ASSUME TypeOK, NEW r \in Request, ProviderStep(r), UNCHANGED renterVars,
         NEW q \in Request, Stamped(q)
  PROVE  Stamped(q)'
<1> USE DEF Stamped, TypeOK, SharedTypeOK, RenterTypeOK, ProviderTypeOK, childVars,
            hostVars, renterVars, sharedVars, requestVars, deployStream, statusStream, Goto
<1>1. CASE Receive(r)
  BY <1>1 DEF Receive
<1>2. CASE Reject(r)
  BY <1>2 DEF Reject, Fail
<1>3. CASE MakeDir(r)
  BY <1>3 DEF MakeDir
<1>4. CASE PrepareFails(r)
  BY <1>4 DEF PrepareFails, Fail
<1>5. CASE Prepare(r)
  BY <1>5 DEF Prepare
<1>6. CASE StartFails(r)
  BY <1>6 DEF StartFails
<1>7. CASE Start(r)
  BY <1>7 DEF Start
<1>8. CASE ChildPrints(r)
  BY <1>8, BoundAssumption DEF ChildPrints
<1>9. CASE ReaderPush(r)
  BY <1>9, BoundAssumption DEF ReaderPush
<1>10. CASE ChildExits(r)
  BY <1>10 DEF ChildExits, Terminal
<1>11. CASE Finish(r)
  BY <1>11 DEF Finish
<1>12. CASE Respond(r)
  BY <1>12 DEF Respond
<1>13. CASE RespondOnly(r)
  BY <1>13 DEF RespondOnly
<1>14. CASE RespondFails(r)
  BY <1>14 DEF RespondFails
<1>15. CASE Down(r)
  BY <1>15 DEF Down
<1>16. CASE DownFails(r)
  BY <1>16 DEF DownFails
<1>17. CASE RemoveDir(r)
  BY <1>17 DEF RemoveDir
<1>18. CASE RemoveDirFails(r)
  BY <1>18 DEF RemoveDirFails
<1>19. CASE AnswerStatus(r)
  BY <1>19 DEF AnswerStatus, providerVars
<1> QED
  BY <1>1, <1>2, <1>3, <1>4, <1>5, <1>6, <1>7, <1>8, <1>9, <1>10, <1>11, <1>12, <1>13, <1>14,
     <1>15, <1>16, <1>17, <1>18, <1>19 DEF ProviderStep, HandlerStep, ChildStep

LEMMA EnvironmentStamped ==
  ASSUME TypeOK,
         \/ \E r \in Request : StreamReset(r) \/ RequestLost(r)
         \/ \E n \in Node : Crash(n)
         \/ Tick,
         NEW q \in Request, Stamped(q)
  PROVE  Stamped(q)'
<1> USE DEF Stamped, TypeOK, SharedTypeOK, RenterTypeOK, ProviderTypeOK, renterVars, providerVars,
            childVars, requestVars, statusStream
<1>1. ASSUME NEW r \in Request, StreamReset(r) \/ RequestLost(r) PROVE Stamped(q)'
  BY <1>1 DEF StreamReset, RequestLost
<1>2. ASSUME NEW n \in Node, Crash(n) PROVE Stamped(q)'
  BY <1>2 DEF Crash, Calling, Handling
<1>3. CASE Tick
  BY <1>3 DEF Tick, deployStream
<1> QED
  BY <1>1, <1>2, <1>3

-----------------------------------------------------------------------------
\* Types and stamps together are inductive.
Typed == TypeOK /\ \A r \in Request : Stamped(r)

LEMMA InitTyped == Init => Typed
<1> SUFFICES ASSUME Init PROVE Typed
  OBVIOUS
<1>1. TypeOK
  BY BoundAssumption, EmptySeq DEF Init, TypeOK, SharedInit, RenterInit, ProviderInit,
     SharedTypeOK, RenterTypeOK, ProviderTypeOK, Second
<1>2. \A r \in Request : Stamped(r)
  BY DEF Init, SharedInit, RenterInit, ProviderInit, Stamped, Calling
<1> QED
  BY <1>1, <1>2 DEF Typed

LEMMA StutterTyped ==
  ASSUME Typed, UNCHANGED vars
  PROVE  Typed'
  BY DEF Typed, TypeOK, SharedTypeOK, RenterTypeOK, ProviderTypeOK, Stamped, vars, sharedVars,
     renterVars, providerVars, childVars, hostVars, requestVars, deployStream, statusStream

LEMMA NextTyped ==
  ASSUME Typed, Next
  PROVE  Typed'
<1>1. ASSUME NEW r \in Request, RenterStep(r), UNCHANGED providerVars PROVE Typed'
  BY <1>1, RenterType, RenterStamped DEF Typed
<1>2. ASSUME NEW r \in Request, ProviderStep(r), UNCHANGED renterVars PROVE Typed'
  BY <1>2, ProviderType, ProviderStamped DEF Typed
<1>3. CASE \/ \E r \in Request : StreamReset(r) \/ RequestLost(r)
           \/ \E n \in Node : Crash(n)
           \/ Tick
  <2>1. TypeOK'
    BY <1>3, EnvironmentType DEF Typed
  <2>2. \A q \in Request : Stamped(q)'
    BY <1>3, EnvironmentStamped DEF Typed
  <2> QED
    BY <2>1, <2>2 DEF Typed
<1> QED
  BY <1>1, <1>2, <1>3 DEF Next, Step

\* Every variable keeps its type: in particular no event is ever logged for
\* a request without a stamp.
THEOREM TypeCorrect == Spec => []TypeOK
<1>1. Init => Typed
  BY InitTyped
<1>2. Typed /\ [Next]_vars => Typed'
  BY NextTyped, StutterTyped
<1>3. Typed => TypeOK
  BY DEF Typed
<1> QED
  BY <1>1, <1>2, <1>3, PTL DEF Spec

-----------------------------------------------------------------------------
(* The logs. *)

\* A step of the system posts at most one event, or a crash empties a log.
LEMMA StepsOnLogs ==
  ASSUME Next
  PROVE  \/ UNCHANGED deploys
         \/ \E n \in Node : \E event : Post(n, event)
         \/ \E n \in Node : deploys' = [deploys EXCEPT ![n] = <<>>]
<1> USE DEF sharedVars
<1>1. ASSUME NEW r \in Request, RenterStep(r)
      PROVE  UNCHANGED deploys \/ \E n \in Node : \E event : Post(n, event)
  <2>1. Source[r] \in Node
    BY RequestAssumption
  <2>2. CASE SubmitFails(r) \/ DialFails(r) \/ Dial(r) \/ WriteRequest(r) \/ WriteFails(r)
    BY <2>2 DEF SubmitFails, DialFails, Dial, WriteRequest, WriteFails
  <2>3. CASE ReadAnswer(r) \/ ReadFails(r) \/ Abandon(r) \/ SaveFails(r)
    BY <2>3 DEF ReadAnswer, ReadFails, Abandon, SaveFails
  <2>4. CASE PollAsk(r) \/ PollStop(r) \/ PollFails(r)
    BY <2>4 DEF PollAsk, PollStop, PollFails
  <2>5. CASE Submit(r) \/ RecordResult(r) \/ PollApply(r)
    BY <2>1, <2>5 DEF Submit, RecordResult, PollApply
  <2> QED
    BY <1>1, <2>2, <2>3, <2>4, <2>5 DEF RenterStep, CallStep, PollStep
<1>2. ASSUME NEW r \in Request, ProviderStep(r)
      PROVE  UNCHANGED deploys \/ \E n \in Node : \E event : Post(n, event)
  <2>1. Target[r] \in Node
    BY RequestAssumption
  <2>2. CASE MakeDir(r) \/ StartFails(r) \/ Start(r) \/ ChildStep(r) \/ AnswerStatus(r)
    BY <2>2 DEF MakeDir, StartFails, Start, ChildStep, ChildPrints, ChildExits, AnswerStatus
  <2>3. CASE Respond(r) \/ RespondOnly(r) \/ RespondFails(r)
    BY <2>3 DEF Respond, RespondOnly, RespondFails
  <2>4. CASE Down(r) \/ DownFails(r) \/ RemoveDir(r) \/ RemoveDirFails(r)
    BY <2>4 DEF Down, DownFails, RemoveDir, RemoveDirFails
  <2>5. CASE Receive(r) \/ Reject(r) \/ PrepareFails(r) \/ Prepare(r)
    BY <2>1, <2>5 DEF Receive, Reject, PrepareFails, Prepare, Fail
  <2>6. CASE ReaderPush(r) \/ Finish(r)
    BY <2>1, <2>6 DEF ReaderPush, Finish, PostOutcome
  <2> QED
    BY <1>2, <2>2, <2>3, <2>4, <2>5, <2>6 DEF ProviderStep, HandlerStep
<1>3. ASSUME NEW r \in Request, StreamReset(r) \/ RequestLost(r) PROVE UNCHANGED deploys
  BY <1>3 DEF StreamReset, RequestLost
<1>4. ASSUME NEW n \in Node, Crash(n) PROVE deploys' = [deploys EXCEPT ![n] = <<>>]
  BY <1>4 DEF Crash
<1>5. CASE Tick
  BY <1>5 DEF Tick
<1> QED
  BY <1>1, <1>2, <1>3, <1>4, <1>5 DEF Next, Step

\* An empty log is well-formed.
LEMMA EmptyLog == WellFormed(<<>>) /\ EventsOf(<<>>) = {} /\ <<>> \in Seq(Event)
  BY EmptySeq, LogLimitAssumption DEF WellFormed, EventsOf

LEMMA NextOneEventPerKey ==
  ASSUME TypeOK, OneEventPerKey, Next
  PROVE  OneEventPerKey'
<1>1. deploys \in [Node -> Seq(Event)] /\ \A n \in Node : WellFormed(deploys[n])
  BY DEF TypeOK, SharedTypeOK, OneEventPerKey
<1>2. ASSUME NEW n \in Node, NEW event, Post(n, event) PROVE OneEventPerKey'
  <2>1. WellFormed(UpsertDeployEvent(deploys[n], event))
    BY <1>1, UpsertWellFormed
  <2>2. \A m \in Node : WellFormed(deploys'[m])
    BY <1>1, <1>2, <2>1 DEF Post
  <2> QED
    BY <2>2 DEF OneEventPerKey
<1>3. ASSUME NEW n \in Node, deploys' = [deploys EXCEPT ![n] = <<>>] PROVE OneEventPerKey'
  BY <1>1, <1>3, EmptyLog DEF OneEventPerKey
<1>4. CASE UNCHANGED deploys
  BY <1>4 DEF OneEventPerKey
<1> QED
  BY <1>2, <1>3, <1>4, StepsOnLogs

LEMMA InitOneEventPerKey == Init => OneEventPerKey
  BY EmptyLog DEF Init, SharedInit, OneEventPerKey

\* No log ever shows two events of one key, nor more than LogLimit events,
\* whatever the goroutines of a node write in whatever order.
THEOREM LogsStayWellFormed == Spec => []OneEventPerKey
<1>1. Init => Typed /\ OneEventPerKey
  BY InitTyped, InitOneEventPerKey
<1>2. Typed /\ OneEventPerKey /\ [Next]_vars => (Typed /\ OneEventPerKey)'
  <2>1. CASE Next
    BY <2>1, NextTyped, NextOneEventPerKey DEF Typed
  <2>2. CASE UNCHANGED vars
    BY <2>2, StutterTyped DEF OneEventPerKey, vars, sharedVars
  <2> QED
    BY <2>1, <2>2
<1> QED
  BY <1>1, <1>2, PTL DEF Spec

-----------------------------------------------------------------------------
(* Results, answers and verdicts. *)

\* A provider's step for r leaves the other requests' handlers alone.
LEMMA ProviderStepIsLocal ==
  ASSUME TypeOK, NEW r \in Request, ProviderStep(r),
         NEW q \in Request, q # r
  PROVE  /\ UNCHANGED <<handler[q], child[q], result[q], answer[q], stream[q]>>
         /\ (q \in dirs)' = (q \in dirs)
         /\ (q \in cleanupFailed)' = (q \in cleanupFailed)
<1> USE DEF TypeOK, SharedTypeOK, ProviderTypeOK, childVars, hostVars, deployStream, sharedVars,
            Goto, CloseStream
<1>1. CASE Receive(r)
  BY <1>1 DEF Receive
<1>2. CASE MakeDir(r)
  BY <1>2 DEF MakeDir
<1>3. CASE Prepare(r)
  BY <1>3 DEF Prepare
<1>4. CASE StartFails(r) 
  BY <1>4 DEF StartFails, Fail
<1>5. CASE Start(r)
  BY <1>5 DEF Start
<1>6. CASE Reject(r)
  BY <1>6 DEF Reject, Fail
<1>7. CASE PrepareFails(r)
  BY <1>7 DEF PrepareFails, Fail
<1>8. CASE ChildPrints(r)
  BY <1>8 DEF ChildPrints
<1>9. CASE ChildExits(r)
  BY <1>9 DEF ChildExits
<1>10. CASE ReaderPush(r)
  BY <1>10 DEF ReaderPush
<1>11. CASE AnswerStatus(r)
  BY <1>11 DEF AnswerStatus, providerVars
<1>12. CASE Finish(r)
  BY <1>12 DEF Finish
<1>13. CASE Respond(r)
  BY <1>13 DEF Respond
<1>14. CASE RespondOnly(r)
  BY <1>14 DEF RespondOnly
<1>15. CASE RespondFails(r)
  BY <1>15 DEF RespondFails
<1>16. CASE Down(r)
  BY <1>16 DEF Down
<1>17. CASE DownFails(r)
  BY <1>17 DEF DownFails, ReportProblem
<1>18. CASE RemoveDir(r)
  BY <1>18 DEF RemoveDir
<1>19. CASE RemoveDirFails(r)
  BY <1>19 DEF RemoveDirFails, ReportProblem
<1> QED
  BY <1>1, <1>2, <1>3, <1>4, <1>5, <1>6, <1>7, <1>8, <1>9, <1>10, <1>11, <1>12, <1>13,
     <1>14, <1>15, <1>16, <1>17, <1>18, <1>19 DEF ProviderStep, HandlerStep, ChildStep

\* A renter's step for r changes none of the provider's doings, and what it
\* changes of the call and its stream is r's.
LEMMA RenterStepIsLocal ==
  ASSUME TypeOK, NEW r \in Request, RenterStep(r), NEW q \in Request
  PROVE  /\ UNCHANGED answer
         /\ stream'[q] = stream[q] \/ stream'[q] = "open"
         /\ q # r => UNCHANGED <<call[q], verdict[q]>>
<1> USE DEF TypeOK, SharedTypeOK, RenterTypeOK, deployStream, sharedVars, renterVars
<1>1. CASE SubmitFails(r) \/ Submit(r) \/ DialFails(r) \/ Abandon(r)
  BY <1>1 DEF SubmitFails, Submit, DialFails, Abandon, Return
<1>2. CASE Dial(r) \/ WriteRequest(r) \/ WriteFails(r) \/ ReadFails(r) \/ ReadAnswer(r)
  BY <1>2 DEF Dial, WriteRequest, WriteFails, ReadFails, ReadAnswer
<1>3. CASE RecordResult(r)
  BY <1>3 DEF RecordResult, Return
<1>4. CASE SaveFails(r)
  BY <1>4 DEF SaveFails, Return
<1>5. CASE PollStep(r)
  BY <1>5 DEF PollStep, PollAsk, PollStop, PollFails, PollApply
<1> QED
  BY <1>1, <1>2, <1>3, <1>4, <1>5 DEF RenterStep, CallStep

LEMMA RenterResultFlow ==
  ASSUME TypeOK, NEW r \in Request, RenterStep(r), UNCHANGED providerVars,
         NEW q \in Request, ResultFlow(q)
  PROVE  ResultFlow(q)'
<1>1. UNCHANGED <<answer, handler, result>>
  BY RenterStepIsLocal DEF providerVars
<1>2. stream'[q] = "eof" => stream[q] = "eof"
  BY RenterStepIsLocal
<1> QED
  BY <1>1, <1>2 DEF ResultFlow

LEMMA RenterVerdictFlow ==
  ASSUME TypeOK, NEW r \in Request, RenterStep(r), UNCHANGED providerVars,
         NEW q \in Request, ResultFlow(q), VerdictFlow(q)
  PROVE  VerdictFlow(q)'
<1> USE DEF TypeOK, RenterTypeOK
<1>1. UNCHANGED <<answer, handler, result>>
  BY RenterStepIsLocal DEF providerVars
<1>2. CASE q # r
  <2>1. UNCHANGED <<call[q], verdict[q]>>
    BY <1>2, RenterStepIsLocal
  <2> QED
    BY <1>1, <2>1 DEF VerdictFlow
<1>3. CASE q = r
  <2>1. CASE SubmitFails(r) \/ Submit(r) \/ DialFails(r) \/ Abandon(r) \/ SaveFails(r)
    BY <1>1, <1>3, <2>1 DEF SubmitFails, Submit, DialFails, Abandon, SaveFails, Return, VerdictFlow,
       Terminal, Calling
  <2>2. CASE Dial(r) \/ WriteRequest(r) \/ WriteFails(r) \/ ReadFails(r)
    BY <1>1, <1>3, <2>2 DEF Dial, WriteRequest, WriteFails, ReadFails, VerdictFlow, Terminal
  <2>3. CASE ReadAnswer(r)
    <3>1. call'[r] = "joining" => \A a \in answer[r] : ~a.oversize
      BY <2>3 DEF ReadAnswer
    <3>2. call'[r] = "joining" => handler[r] = "done"
      BY <1>3, <2>3, <3>1 DEF ReadAnswer, AnswerComplete, ResultFlow
    <3> QED
      BY <1>1, <1>3, <2>3, <3>1, <3>2 DEF ReadAnswer, AnswerComplete, VerdictFlow, Terminal
  <2>4. CASE RecordResult(r)
    <3>1. PICK a \in answer[r] : Return(r, a.status)
      BY <2>4 DEF RecordResult
    <3>2. answer[r] = {a}
      BY <1>3, <3>1 DEF ResultFlow
    <3>3. call[r] = "joining"
      BY <2>4 DEF RecordResult
    <3>4. call'[r] = "returned" /\ verdict'[r] = a.status
      BY <3>1 DEF Return
    <3> QED
      BY <1>1, <1>3, <3>2, <3>3, <3>4 DEF VerdictFlow
  <2>5. CASE PollStep(r)
    BY <1>1, <1>3, <2>5 DEF PollStep, PollAsk, PollStop, PollFails, PollApply, renterVars, VerdictFlow
  <2> QED
    BY <2>1, <2>2, <2>3, <2>4, <2>5 DEF RenterStep, CallStep
<1> QED
  BY <1>2, <1>3

LEMMA ProviderResultFlow ==
  ASSUME TypeOK, NEW r \in Request, ProviderStep(r), UNCHANGED renterVars,
         NEW q \in Request, ResultFlow(q)
  PROVE  ResultFlow(q)'
<1> USE DEF TypeOK, SharedTypeOK, ProviderTypeOK, childVars, hostVars, deployStream, sharedVars, Goto
<1>1. CASE q # r
  <2>1. UNCHANGED <<handler[q], result[q], answer[q], stream[q]>>
    BY <1>1, ProviderStepIsLocal
  <2> QED
    BY <2>1 DEF ResultFlow
<1>2. CASE q = r
  <2> USE <1>2 DEF ResultFlow
  <2>1. CASE Receive(r) \/ MakeDir(r) \/ Prepare(r)
    BY <2>1 DEF Receive, MakeDir, Prepare
  <2>2. CASE StartFails(r) \/ Start(r)
    BY <2>2 DEF StartFails, Start
  <2>3. CASE Reject(r) \/ PrepareFails(r)
    <3> DEFINE a == [status |-> "failed", lines |-> 0, files |-> FALSE, oversize |-> FALSE]
    <3>1. a \in Answer
      <4>1. 0 \in 0 .. MaxLines
        BY BoundAssumption
      <4> QED
        BY <4>1 DEF Answer, Terminal
    <3>2. result'[r] = {a} /\ handler'[r] = "responding" /\ UNCHANGED <<answer, stream>>
      BY <2>3 DEF Reject, PrepareFails, Fail
    <3>3. answer[r] = {} /\ stream[r] # "eof"
      BY <2>3 DEF Reject, PrepareFails
    <3> HIDE DEF a
    <3> QED
      BY <3>1, <3>2, <3>3
  <2>4. CASE ChildPrints(r) \/ ChildExits(r) \/ ReaderPush(r)
    BY <2>4 DEF ChildPrints, ChildExits, ReaderPush
  <2>5. CASE AnswerStatus(r)
    BY <2>5 DEF AnswerStatus, providerVars
  <2>6. CASE Finish(r)
    <3>1. PICK a \in Answer : result' = [result EXCEPT ![r] = {a}]
      BY <2>6 DEF Finish
    <3>2. result'[r] = {a} /\ handler'[r] = "responding" /\ UNCHANGED <<answer, stream>>
      BY <2>6, <3>1 DEF Finish
    <3>3. answer[r] = {} /\ stream[r] # "eof"
      BY <2>6 DEF Finish
    <3> QED
      BY <3>1, <3>2, <3>3
  <2>7. CASE Respond(r) \/ RespondOnly(r) \/ RespondFails(r)
    <3>1. UNCHANGED result /\ handler[r] = "responding"
      BY <2>7 DEF Respond, RespondOnly, RespondFails
    <3>2. answer'[r] = answer[r] \/ answer'[r] = result[r]
      BY <2>7 DEF Respond, RespondOnly, RespondFails
    <3>3. \/ handler'[r] = "down" /\ UNCHANGED stream
          \/ handler'[r] = "done"
      BY <2>7 DEF Respond, RespondOnly, RespondFails
    <3> QED
      BY <3>1, <3>2, <3>3
  <2>8. CASE Down(r) \/ DownFails(r) \/ RemoveDir(r) \/ RemoveDirFails(r)
    <3>1. UNCHANGED <<result, answer>> /\ handler[r] \in {"down", "removing"}
      BY <2>8 DEF Down, DownFails, RemoveDir, RemoveDirFails
    <3>2. \/ handler'[r] = "removing" /\ UNCHANGED stream
          \/ handler'[r] = "done"
      BY <2>8 DEF Down, DownFails, RemoveDir, RemoveDirFails
    <3> QED
      BY <3>1, <3>2
  <2> QED
    BY <2>1, <2>2, <2>3, <2>4, <2>5, <2>6, <2>7, <2>8 DEF ProviderStep, HandlerStep, ChildStep
<1> QED
  BY <1>1, <1>2

\* The handler is through before its answer is waited for in vain: none of
\* its steps is left to change what a renter has read.
LEMMA ProviderVerdictFlow ==
  ASSUME TypeOK, NEW r \in Request, ProviderStep(r), UNCHANGED renterVars,
         NEW q \in Request, VerdictFlow(q)
  PROVE  VerdictFlow(q)'
<1>1. handler[q] = "done" => UNCHANGED <<handler[q], answer[q]>>
  <2>1. CASE q # r
    BY <2>1, ProviderStepIsLocal
  <2>2. CASE q = r
    BY <2>2 DEF ProviderStep, HandlerStep, ChildStep, Receive, Reject, MakeDir, PrepareFails, Prepare,
       StartFails, Start, Finish, Respond, RespondOnly, RespondFails, Down, DownFails, RemoveDir,
       RemoveDirFails, ChildPrints, ChildExits, ReaderPush, AnswerStatus, Goto, sharedVars,
       deployStream, providerVars
  <2> QED
    BY <2>1, <2>2
<1>2. UNCHANGED <<call, verdict>>
  BY DEF renterVars
<1> QED
  BY <1>1, <1>2 DEF VerdictFlow

\* The network and crashes end streams and handlers, and change no result,
\* answer or verdict.
LEMMA EnvironmentIsHarmless ==
  ASSUME TypeOK, NEW q \in Request,
         \/ \E r \in Request : StreamReset(r) \/ RequestLost(r)
         \/ \E n \in Node : Crash(n)
         \/ Tick
  PROVE  /\ UNCHANGED <<result, answer, verdict, child, dirs, containers, cleanupFailed>>
         /\ handler'[q] = handler[q]
            \/ (handler[q] \in Handling /\ handler'[q] = "crashed")
         /\ call'[q] = call[q] \/ (call[q] \in Calling /\ call'[q] = "crashed")
         /\ stream'[q] = stream[q] \/ stream'[q] = "reset"
<1> USE DEF TypeOK, SharedTypeOK, RenterTypeOK, ProviderTypeOK, renterVars, providerVars,
            childVars, hostVars, deployStream
<1>1. ASSUME NEW r \in Request, StreamReset(r)
      PROVE  /\ UNCHANGED <<result, answer, verdict, child, dirs, containers, cleanupFailed>>
             /\ UNCHANGED <<handler, call>>
             /\ stream'[q] = stream[q] \/ stream'[q] = "reset"
  BY <1>1 DEF StreamReset
<1>2. ASSUME NEW r \in Request, RequestLost(r)
      PROVE  /\ UNCHANGED <<result, answer, verdict, child, dirs, containers, cleanupFailed>>
             /\ UNCHANGED <<handler, call, stream>>
  BY <1>2 DEF RequestLost
<1>3. CASE Tick
  BY <1>3 DEF Tick
<1>4. ASSUME NEW n \in Node, Crash(n)
      PROVE  /\ UNCHANGED <<result, answer, verdict, child, dirs, containers, cleanupFailed>>
             /\ handler'[q] = handler[q]
                \/ (handler[q] \in Handling /\ handler'[q] = "crashed")
             /\ call'[q] = call[q] \/ (call[q] \in Calling /\ call'[q] = "crashed")
             /\ stream'[q] = stream[q] \/ stream'[q] = "reset"
  BY <1>4 DEF Crash
<1> QED
  BY <1>1, <1>2, <1>3, <1>4

LEMMA EnvironmentFlow ==
  ASSUME TypeOK, NEW q \in Request, ResultFlow(q), VerdictFlow(q),
         \/ \E r \in Request : StreamReset(r) \/ RequestLost(r)
         \/ \E n \in Node : Crash(n)
         \/ Tick
  PROVE  ResultFlow(q)' /\ VerdictFlow(q)'
<1>1. /\ UNCHANGED <<result, answer, verdict>>
      /\ handler'[q] = handler[q] \/ (handler[q] \in Handling /\ handler'[q] = "crashed")
      /\ call'[q] = call[q] \/ (call[q] \in Calling /\ call'[q] = "crashed")
      /\ stream'[q] = stream[q] \/ stream'[q] = "reset"
  BY EnvironmentIsHarmless
<1>2. ResultFlow(q)'
  BY <1>1 DEF ResultFlow, Handling
<1>3. VerdictFlow(q)'
  BY <1>1 DEF VerdictFlow, Handling, Calling, Terminal
<1> QED
  BY <1>2, <1>3

-----------------------------------------------------------------------------
(* Clean-up. *)

\* A started child stays known for ever.
LEMMA ChildrenStay ==
  ASSUME TypeOK, NEW r \in Request, ProviderStep(r), NEW q \in Request, child[q] # "none"
  PROVE  child'[q] # "none"
<1>1. CASE q # r
  BY <1>1, ProviderStepIsLocal
<1>2. CASE q = r
  BY <1>2 DEF ProviderStep, HandlerStep, ChildStep, Receive, Reject, MakeDir, PrepareFails, Prepare,
       StartFails, Start, Finish, Respond, RespondOnly, RespondFails, Down, DownFails, RemoveDir,
       RemoveDirFails, ChildPrints, ChildExits, ReaderPush, AnswerStatus, Fail,
       TypeOK, ProviderTypeOK, childVars, providerVars, Terminal
<1> QED
  BY <1>1, <1>2

\* Once the containers of a project are gone, only a start brings them back.
LEMMA OnlyStartsCreate ==
  ASSUME TypeOK, NEW r \in Request, ProviderStep(r), NEW p \in Places,
         containers[p] = "none", containers'[p] # "none"
  PROVE  Start(r) /\ Place(r) = p
<1> USE DEF TypeOK, ProviderTypeOK, hostVars
<1>1. Place(r) \in Places
  BY DEF Places
<1>2. ~ (Down(r) \/ ChildExits(r))
  BY <1>1 DEF Down, ChildExits
<1>3. Start(r) \/ UNCHANGED containers
  BY <1>2 DEF ProviderStep, HandlerStep, ChildStep, Receive, Reject, MakeDir, PrepareFails, Prepare,
       StartFails, Finish, Respond, RespondOnly, RespondFails, DownFails, RemoveDir,
       RemoveDirFails, ChildPrints, ReaderPush, AnswerStatus, Fail, providerVars
<1> QED
  BY <1>1, <1>3 DEF Start

LEMMA ContainersStayGone ==
  ASSUME TypeOK, NEW r \in Request, ProviderStep(r),
         NEW q \in Request, ContainersGone(q), ~ (Start(r) /\ q = r)
  PROVE  ContainersGone(q)'
<1>1. CASE \E s \in Request \ {q} : Place(s) = Place(q) /\ child[s] # "none"
  <2>1. PICK s \in Request \ {q} : Place(s) = Place(q) /\ child[s] # "none"
    BY <1>1
  <2>2. child'[s] # "none"
    BY <2>1, ChildrenStay
  <2> QED
    BY <2>1, <2>2 DEF ContainersGone, Place
<1>2. CASE containers[Place(q)] = "none" /\ containers'[Place(q)] = "none"
  BY <1>2 DEF ContainersGone, Place
<1>3. CASE containers[Place(q)] = "none" /\ containers'[Place(q)] # "none"
  <2>1. Start(r) /\ Place(r) = Place(q)
    BY <1>3, OnlyStartsCreate DEF Places
  <2>2. child'[r] # "none"
    BY <2>1 DEF Start, TypeOK, ProviderTypeOK
  <2> QED
    BY <2>1, <2>2 DEF ContainersGone, Place
<1> QED
  BY <1>1, <1>2, <1>3 DEF ContainersGone

LEMMA ProviderCleanedUp ==
  ASSUME TypeOK, NEW r \in Request, ProviderStep(r), UNCHANGED renterVars,
         NEW q \in Request, Stamped(q), ResultFlow(q), CleanedUp(q)
  PROVE  CleanedUp(q)'
<1> USE DEF TypeOK, SharedTypeOK, ProviderTypeOK, childVars, hostVars, deployStream, sharedVars, Goto
<1>1. CASE q # r
  <2>1. /\ UNCHANGED <<handler[q], child[q], answer[q]>>
        /\ (q \in dirs)' = (q \in dirs)
        /\ (q \in cleanupFailed)' = (q \in cleanupFailed)
    BY <1>1, ProviderStepIsLocal
  <2>2. ContainersGone(q) => ContainersGone(q)'
    BY <1>1, ContainersStayGone
  <2> QED
    BY <2>1, <2>2 DEF CleanedUp
<1>2. CASE q = r
  <2>1. CASE Receive(r) \/ MakeDir(r) \/ Prepare(r) \/ Start(r) \/ StartFails(r) \/ Finish(r)
             \/ Respond(r)
    <3>1. handler'[r] \notin {"removing", "done"}
      BY <2>1 DEF Receive, MakeDir, Prepare, Start, StartFails, Finish, Respond
    <3> QED
      BY <1>2, <3>1 DEF CleanedUp
  <2>2. CASE Reject(r) \/ PrepareFails(r)
    <3>1. handler'[r] = "responding"
      BY <2>2 DEF Reject, PrepareFails
    <3> QED
      BY <1>2, <3>1 DEF CleanedUp
  <2>3. CASE ChildPrints(r) \/ ChildExits(r) \/ ReaderPush(r)
    <3>1. UNCHANGED <<handler, answer, dirs, cleanupFailed>>
      BY <2>3 DEF ChildPrints, ChildExits, ReaderPush
    <3>4. child[r] # "none"
      <4>1. CASE ReaderPush(r)
        <5>1. shown[r] \in Nat /\ printed[r] \in Nat /\ shown[r] < printed[r]
          BY <4>1, BoundAssumption DEF ReaderPush
        <5> QED
          BY <1>2, <5>1 DEF Stamped
      <4> QED
        BY <2>3, <4>1 DEF ChildPrints, ChildExits
    <3>2. ~Start(r)
      BY <2>3 DEF ChildPrints, ChildExits, ReaderPush, Start
    <3>3. ContainersGone(q) => ContainersGone(q)'
      BY <3>2, ContainersStayGone
    <3> QED
      BY <1>2, <3>1, <3>3, <3>4 DEF CleanedUp
  <2>4. CASE AnswerStatus(r)
    <3>1. UNCHANGED <<handler, answer, child, dirs, containers, cleanupFailed>>
      BY <2>4 DEF AnswerStatus, providerVars
    <3> QED
      BY <3>1 DEF CleanedUp, ContainersGone, Place
  <2>5. CASE RespondOnly(r)
    BY <1>2, <2>5 DEF RespondOnly, CleanedUp
  <2>6. CASE RespondFails(r)
    <3>1. answer'[r] = {} \/ \E a \in answer'[r] : a.oversize
      BY <1>2, <2>6 DEF RespondFails, ResultFlow
    <3>2. handler'[r] = "done"
      BY <2>6 DEF RespondFails
    <3> QED
      BY <1>2, <3>1, <3>2 DEF CleanedUp
  <2>7. CASE Down(r)
    <3>1. handler'[r] = "removing"
      BY <2>7 DEF Down
    <3>2. containers'[Place(r)] = "none"
      BY <2>7 DEF Down, Places
    <3> QED
      BY <1>2, <3>1, <3>2 DEF CleanedUp, ContainersGone, Place
  <2>8. CASE DownFails(r) \/ RemoveDirFails(r)
    <3>1. r \in cleanupFailed'
      BY <2>8 DEF DownFails, RemoveDirFails, ReportProblem
    <3> QED
      BY <1>2, <3>1 DEF CleanedUp
  <2>9. CASE RemoveDir(r)
    <3>1. handler[r] = "removing" /\ handler'[r] = "done" /\ r \notin dirs'
          /\ UNCHANGED <<child, containers, cleanupFailed>>
      BY <2>9 DEF RemoveDir
    <3> QED
      BY <1>2, <3>1 DEF CleanedUp, ContainersGone, Place
  <2> QED
    BY <2>1, <2>2, <2>3, <2>4, <2>5, <2>6, <2>7, <2>8, <2>9 DEF ProviderStep, HandlerStep, ChildStep
<1> QED
  BY <1>1, <1>2

LEMMA RenterCleanedUp ==
  ASSUME TypeOK, NEW r \in Request, RenterStep(r), UNCHANGED providerVars,
         NEW q \in Request, CleanedUp(q)
  PROVE  CleanedUp(q)'
<1>1. UNCHANGED <<answer, handler, child, dirs, containers, cleanupFailed>>
  BY RenterStepIsLocal DEF providerVars, childVars, hostVars
<1> QED
  BY <1>1 DEF CleanedUp, ContainersGone, Place

LEMMA EnvironmentCleanedUp ==
  ASSUME TypeOK, NEW q \in Request, CleanedUp(q),
         \/ \E r \in Request : StreamReset(r) \/ RequestLost(r)
         \/ \E n \in Node : Crash(n)
         \/ Tick
  PROVE  CleanedUp(q)'
<1>1. /\ UNCHANGED <<answer, child, dirs, containers, cleanupFailed>>
      /\ handler'[q] = handler[q] \/ handler'[q] = "crashed"
  BY EnvironmentIsHarmless
<1> QED
  BY <1>1 DEF CleanedUp, ContainersGone, Place

-----------------------------------------------------------------------------
(* The invariant, and what follows from it. *)

Flow == Typed /\ \A q \in Request : ResultFlow(q) /\ VerdictFlow(q) /\ CleanedUp(q)

LEMMA InitFlow == Init => Flow
<1> SUFFICES ASSUME Init PROVE Flow
  OBVIOUS
<1>1. Typed
  BY InitTyped
<1>2. ASSUME NEW q \in Request PROVE ResultFlow(q) /\ VerdictFlow(q) /\ CleanedUp(q)
  BY DEF Init, SharedInit, RenterInit, ProviderInit, ResultFlow, VerdictFlow, CleanedUp, Terminal
<1> QED
  BY <1>1, <1>2 DEF Flow

LEMMA NextFlow == Flow /\ Next => Flow'
<1> SUFFICES ASSUME Flow, Next PROVE Flow'
  OBVIOUS
<1>1. TypeOK /\ \A q \in Request : Stamped(q)
  BY DEF Flow, Typed
<1>2. Typed'
  BY NextTyped DEF Flow
<1>3. ASSUME NEW q \in Request PROVE (ResultFlow(q) /\ VerdictFlow(q) /\ CleanedUp(q))'
  <2>1. ResultFlow(q) /\ VerdictFlow(q) /\ CleanedUp(q)
    BY DEF Flow
  <2>2. ASSUME NEW r \in Request, RenterStep(r), UNCHANGED providerVars
        PROVE  (ResultFlow(q) /\ VerdictFlow(q) /\ CleanedUp(q))'
    BY <1>1, <2>1, <2>2, RenterResultFlow, RenterVerdictFlow, RenterCleanedUp
  <2>3. ASSUME NEW r \in Request, ProviderStep(r), UNCHANGED renterVars
        PROVE  (ResultFlow(q) /\ VerdictFlow(q) /\ CleanedUp(q))'
    BY <1>1, <2>1, <2>3, ProviderResultFlow, ProviderVerdictFlow, ProviderCleanedUp
  <2>4. CASE \/ \E r \in Request : StreamReset(r) \/ RequestLost(r)
             \/ \E n \in Node : Crash(n)
             \/ Tick
    BY <1>1, <2>1, <2>4, EnvironmentFlow, EnvironmentCleanedUp
  <2> QED
    BY <2>2, <2>3, <2>4 DEF Next, Step
<1> QED
  BY <1>2, <1>3 DEF Flow

LEMMA StutterFlow == Flow /\ UNCHANGED vars => Flow'
<1> SUFFICES ASSUME Flow, UNCHANGED vars PROVE Flow'
  OBVIOUS
<1>1. Typed'
  BY StutterTyped DEF Flow
<1>2. ASSUME NEW q \in Request PROVE (ResultFlow(q) /\ VerdictFlow(q) /\ CleanedUp(q))'
  BY DEF Flow, vars, sharedVars, renterVars, providerVars, childVars, hostVars, deployStream,
     ResultFlow, VerdictFlow, CleanedUp, ContainersGone, Place
<1> QED
  BY <1>1, <1>2 DEF Flow

LEMMA FlowIsInvariant == Spec => []Flow
<1>1. Flow /\ [Next]_vars => Flow'
  BY NextFlow, StutterFlow
<1> QED
  BY <1>1, InitFlow, PTL DEF Spec

\* An outcome reaches a user only when the provider's handler has returned,
\* and what the run needed is gone unless clean-up said otherwise: on any
\* nodes, for any overlapping deployments, crashes and lost streams.
THEOREM NoAnswerBeforeCleanUp == Spec => []AnsweredMeansCleaned
<1>1. Flow => AnsweredMeansCleaned
  BY DEF Flow, AnsweredMeansCleaned, VerdictFlow, CleanedUp
<1> QED
  BY <1>1, FlowIsInvariant, PTL

\* What a request leaves on a provider's disk has one of three reasons, on
\* any nodes and whatever happens to its renter meanwhile.
THEOREM LeftoversHaveReasons == Spec => []LeftoversExplained
<1>1. Flow => LeftoversExplained
  BY DEF Flow, LeftoversExplained, CleanedUp
<1> QED
  BY <1>1, FlowIsInvariant, PTL

-----------------------------------------------------------------------------
(* Containers. *)

\* A handler has started its one command when it runs, and the command is
\* over before the handler goes on.
ChildFlow(r) ==
  /\ handler[r] \in {"idle", "checking", "preparing", "starting"} => child[r] = "none"
  /\ handler[r] \in {"responding", "done"} => child[r] # "running"
  /\ handler[r] \in {"down", "removing"} => child[r] \in Terminal

\* Someone else of r's project has ended: its end or its clean-up may have
\* taken the containers away.
NeighbourEnded(r) == \E s \in Request \ {r} : Place(s) = Place(r) /\ child[s] \in Terminal

Undisturbed(r) == child[r] = "running" => containers[Place(r)] = "up" \/ NeighbourEnded(r)

Hosting == \A q \in Request : ChildFlow(q) /\ Undisturbed(q)

LEMMA InitHosting == Init => Hosting
BY DEF Init, ProviderInit, Hosting, ChildFlow, Undisturbed

LEMMA ProviderChildFlow ==
  ASSUME TypeOK, NEW r \in Request, ProviderStep(r), NEW q \in Request, ChildFlow(q)
  PROVE  ChildFlow(q)'
<1> USE DEF TypeOK, ProviderTypeOK, childVars, hostVars, Goto, ChildFlow
<1>1. CASE q # r
  BY <1>1, ProviderStepIsLocal
<1>2. CASE q = r
  <2>1. CASE Receive(r) \/ MakeDir(r) \/ Prepare(r)
    BY <1>2, <2>1 DEF Receive, MakeDir, Prepare
  <2>2. CASE StartFails(r) \/ Start(r)
    BY <1>2, <2>2 DEF StartFails, Start
  <2>3. CASE Reject(r) \/ PrepareFails(r)
    BY <1>2, <2>3 DEF Reject, PrepareFails, Fail
  <2>4. CASE ChildPrints(r) \/ ReaderPush(r)
    BY <1>2, <2>4 DEF ChildPrints, ReaderPush
  <2>5. CASE ChildExits(r)
    BY <1>2, <2>5 DEF ChildExits, Terminal
  <2>6. CASE AnswerStatus(r)
    BY <2>6 DEF AnswerStatus, providerVars
  <2>7. CASE Finish(r)
    BY <1>2, <2>7 DEF Finish, CommandOver, Terminal
  <2>8. CASE Respond(r) \/ RespondOnly(r) \/ RespondFails(r)
    BY <1>2, <2>8 DEF Respond, RespondOnly, RespondFails, Terminal
  <2>9. CASE Down(r) \/ DownFails(r) \/ RemoveDir(r) \/ RemoveDirFails(r)
    BY <1>2, <2>9 DEF Down, DownFails, RemoveDir, RemoveDirFails, Terminal
  <2> QED
    BY <2>1, <2>2, <2>3, <2>4, <2>5, <2>6, <2>7, <2>8, <2>9
       DEF ProviderStep, HandlerStep, ChildStep
<1> QED
  BY <1>1, <1>2

\* Containers of a project cease to be up only when a deployment of it ends
\* or cleans up, and then the command of that deployment is over.
LEMMA OnlyEndsTakeAway ==
  ASSUME TypeOK, NEW r \in Request, ProviderStep(r), ChildFlow(r), NEW p \in Places,
         containers[p] = "up", containers'[p] # "up"
  PROVE  Place(r) = p /\ child'[r] \in Terminal
<1> USE DEF TypeOK, ProviderTypeOK, childVars, hostVars
<1>1. Place(r) \in Places
  BY DEF Places
<1>2. CASE Down(r)
  BY <1>1, <1>2 DEF Down, Goto, ChildFlow
<1>3. CASE ChildExits(r)
  BY <1>1, <1>3 DEF ChildExits
<1>4. CASE Start(r)
  BY <1>1, <1>4 DEF Start
<1>5. CASE ~Down(r) /\ ~ChildExits(r) /\ ~Start(r)
  <2>1. UNCHANGED containers
    BY <1>5 DEF ProviderStep, HandlerStep, ChildStep, Receive, Reject, MakeDir, PrepareFails,
       Prepare, StartFails, Finish, Respond, RespondOnly, RespondFails, DownFails, RemoveDir,
       RemoveDirFails, ChildPrints, ReaderPush, AnswerStatus, Fail, providerVars
  <2> QED
    BY <2>1
<1> QED
  BY <1>2, <1>3, <1>4, <1>5

\* A command that is over stays over.
LEMMA EndsStay ==
  ASSUME TypeOK, NEW r \in Request, ProviderStep(r), ChildFlow(r),
         NEW q \in Request, child[q] \in Terminal
  PROVE  child'[q] \in Terminal
<1> USE DEF TypeOK, ProviderTypeOK, childVars, Goto, Terminal
<1>1. CASE q # r
  BY <1>1, ProviderStepIsLocal
<1>2. CASE q = r
  BY <1>2 DEF ProviderStep, HandlerStep, ChildStep, Receive, Reject, MakeDir, PrepareFails, Prepare,
       StartFails, Start, Finish, Respond, RespondOnly, RespondFails, Down, DownFails, RemoveDir,
       RemoveDirFails, ChildPrints, ChildExits, ReaderPush, AnswerStatus, Fail, providerVars,
       ChildFlow
<1> QED
  BY <1>1, <1>2

\* Only a start makes a command run, and then its containers are up.
LEMMA OnlyStartsRun ==
  ASSUME TypeOK, NEW r \in Request, ProviderStep(r),
         NEW q \in Request, child[q] # "running", child'[q] = "running"
  PROVE  containers'[Place(q)] = "up"
<1> USE DEF TypeOK, ProviderTypeOK, childVars, hostVars
<1>1. q = r
  BY ProviderStepIsLocal
<1>2. Start(r)
  BY <1>1 DEF ProviderStep, HandlerStep, ChildStep, Receive, Reject, MakeDir, PrepareFails, Prepare,
       StartFails, Finish, Respond, RespondOnly, RespondFails, Down, DownFails, RemoveDir,
       RemoveDirFails, ChildPrints, ChildExits, ReaderPush, AnswerStatus, Fail, providerVars, Terminal
<1> QED
  BY <1>1, <1>2 DEF Start, Places

LEMMA ProviderUndisturbed ==
  ASSUME TypeOK, NEW r \in Request, ProviderStep(r), ChildFlow(r),
         NEW q \in Request, Undisturbed(q)
  PROVE  Undisturbed(q)'
<1> SUFFICES ASSUME child'[q] = "running"
             PROVE  containers'[Place(q)] = "up" \/ NeighbourEnded(q)'
  BY DEF Undisturbed, Place
<1>1. CASE child[q] # "running"
  BY <1>1, OnlyStartsRun
<1>2. CASE NeighbourEnded(q)
  <2>1. PICK s \in Request \ {q} : Place(s) = Place(q) /\ child[s] \in Terminal
    BY <1>2 DEF NeighbourEnded
  <2>2. child'[s] \in Terminal
    BY <2>1, EndsStay
  <2> QED
    BY <2>1, <2>2 DEF NeighbourEnded, Place
<1>3. CASE containers[Place(q)] = "up" /\ containers'[Place(q)] # "up"
  <2>1. Place(r) = Place(q) /\ child'[r] \in Terminal
    BY <1>3, OnlyEndsTakeAway DEF Places
  <2>2. r # q
    BY <2>1 DEF Terminal
  <2> QED
    BY <2>1, <2>2 DEF NeighbourEnded, Place
<1> QED
  BY <1>1, <1>2, <1>3 DEF Undisturbed

\* A crash ends handlers; what docker and its commands do goes on.
LEMMA OthersKeepHosting ==
  ASSUME TypeOK, NEW q \in Request, ChildFlow(q), Undisturbed(q),
         UNCHANGED <<child, containers>>,
         handler'[q] = handler[q] \/ handler'[q] = "crashed"
  PROVE  ChildFlow(q)' /\ Undisturbed(q)'
<1>1. ChildFlow(q)'
  BY DEF ChildFlow
<1>2. Undisturbed(q)'
  BY DEF Undisturbed, NeighbourEnded, Place
<1> QED
  BY <1>1, <1>2

LEMMA NextHosting == TypeOK /\ Hosting /\ Next => Hosting'
<1> SUFFICES ASSUME TypeOK, Hosting, Next, NEW q \in Request
             PROVE  ChildFlow(q)' /\ Undisturbed(q)'
  BY DEF Hosting
<1>1. \A s \in Request : ChildFlow(s) /\ Undisturbed(s)
  BY DEF Hosting
<1>2. ASSUME NEW r \in Request, RenterStep(r), UNCHANGED providerVars
      PROVE  ChildFlow(q)' /\ Undisturbed(q)'
  BY <1>1, <1>2, OthersKeepHosting DEF providerVars, childVars, hostVars
<1>3. ASSUME NEW r \in Request, ProviderStep(r)
      PROVE  ChildFlow(q)' /\ Undisturbed(q)'
  BY <1>1, <1>3, ProviderChildFlow, ProviderUndisturbed
<1>4. CASE \/ \E r \in Request : StreamReset(r) \/ RequestLost(r)
           \/ \E n \in Node : Crash(n)
           \/ Tick
  <2>1. UNCHANGED <<child, containers>> /\ (handler'[q] = handler[q] \/ handler'[q] = "crashed")
    BY <1>4, EnvironmentIsHarmless
  <2> QED
    BY <1>1, <2>1, OthersKeepHosting
<1> QED
  BY <1>2, <1>3, <1>4 DEF Next, Step

LEMMA HostingHolds == Spec => []Hosting
<1>1. Flow /\ Hosting /\ [Next]_vars => Hosting'
  <2>1. ASSUME Hosting, UNCHANGED vars PROVE Hosting'
    BY <2>1 DEF Hosting, ChildFlow, Undisturbed, NeighbourEnded, Place, vars, providerVars,
       childVars, hostVars
  <2> QED
    BY <2>1, NextHosting DEF Flow, Typed
<1> QED
  BY <1>1, InitHosting, FlowIsInvariant, PTL DEF Spec

\* Containers of a running command disappear only through another deployment
\* of the same project on the same node: however many share it, and through
\* crashes of the node, which leave the command running.
THEOREM NeighboursOnly == Spec => []OnlyNeighboursInterfere
<1>1. Hosting => OnlyNeighboursInterfere
  BY DEF Hosting, Undisturbed, NeighbourEnded, OnlyNeighboursInterfere
<1> QED
  BY <1>1, HostingHolds, PTL

-----------------------------------------------------------------------------
(* Deploy implements DeployContract: every step is a step of the contract,  *)
(* or none.                                                                 *)

Job == [r \in Request |-> JobOf(r)]
Outcome == [r \in Request |-> OutcomeOf(r)]

\* A step that is neither seen by the user nor matters to the contract.
Silent == UNCHANGED <<Job, Outcome, verdict>>

\* The outcome of a request is the status of its only result.
LEMMA OutcomeIsResult ==
  ASSUME NEW r \in Request, NEW a, result[r] = {a}
  PROVE  OutcomeOf(r) = a.status
  BY DEF OutcomeOf

LEMMA SettledIsKnown ==
  ASSUME NEW r \in Request, ResultFlow(r), result[r] # {}
  PROVE  OutcomeOf(r) \in {"success", "failed"}
<1>1. PICK a \in Answer : result[r] = {a}
  BY DEF ResultFlow
<1>2. a.status \in {"success", "failed"}
  BY DEF Answer, Terminal
<1> QED
  BY <1>1, <1>2, OutcomeIsResult

\* A provider's step for r moves at most r in the contract.
LEMMA ContractStepIsLocal ==
  ASSUME TypeOK, NEW r \in Request, ProviderStep(r), UNCHANGED renterVars
  PROVE  /\ Job' = [Job EXCEPT ![r] = JobOf(r)']
         /\ Outcome' = [Outcome EXCEPT ![r] = OutcomeOf(r)']
         /\ UNCHANGED verdict
<1>1. ASSUME NEW q \in Request, q # r PROVE JobOf(q)' = JobOf(q) /\ OutcomeOf(q)' = OutcomeOf(q)
  <2>1. handler'[q] = handler[q] /\ result'[q] = result[q]
    BY <1>1, ProviderStepIsLocal
  <2> QED
    BY <2>1 DEF JobOf, OutcomeOf
<1>2. Job' = [Job EXCEPT ![r] = JobOf(r)']
  BY <1>1 DEF Job
<1>3. Outcome' = [Outcome EXCEPT ![r] = OutcomeOf(r)']
  BY <1>1 DEF Outcome
<1> QED
  BY <1>2, <1>3 DEF renterVars

-----------------------------------------------------------------------------
(* The steps. *)

LEMMA RenterKeepsContract ==
  ASSUME Flow, NEW r \in Request, RenterStep(r), UNCHANGED providerVars
  PROVE  Contract!TellOutcome(r) \/ Contract!TellError(r) \/ Silent
<1>1. UNCHANGED <<Job, Outcome>>
  BY DEF Job, Outcome, JobOf, OutcomeOf, providerVars
<1>2. TypeOK /\ ResultFlow(r) /\ VerdictFlow(r)
  BY DEF Flow, Typed
<1>3. CASE SubmitFails(r) \/ DialFails(r) \/ Abandon(r) \/ SaveFails(r)
  <2>1. verdict' = [verdict EXCEPT ![r] = "error"] /\ verdict[r] = "none"
    BY <1>2, <1>3 DEF SubmitFails, DialFails, Abandon, SaveFails, Return, VerdictFlow
  <2> QED
    BY <1>1, <2>1 DEF Contract!TellError, Job, Outcome
<1>4. CASE RecordResult(r)
  <2>1. PICK a \in answer[r] : Return(r, a.status)
    BY <1>4 DEF RecordResult
  <2>2. result[r] = {a} /\ handler[r] = "done" /\ verdict[r] = "none"
    BY <1>2, <1>4, <2>1 DEF RecordResult, ResultFlow, VerdictFlow
  <2>3. Job[r] = "closed" /\ Outcome[r] = a.status
    BY <2>2, OutcomeIsResult DEF Job, Outcome, JobOf
  <2>4. verdict' = [verdict EXCEPT ![r] = Outcome[r]]
    BY <2>1, <2>3 DEF Return
  <2> QED
    BY <1>1, <2>2, <2>3, <2>4 DEF Contract!TellOutcome, Job, Outcome
<1>5. CASE ~ (SubmitFails(r) \/ DialFails(r) \/ Abandon(r) \/ SaveFails(r) \/ RecordResult(r))
  <2>1. UNCHANGED verdict
    BY <1>5 DEF RenterStep, CallStep, PollStep, Submit, Dial, WriteRequest, WriteFails, ReadAnswer,
       ReadFails, PollAsk, PollStop, PollFails, PollApply, renterVars
  <2> QED
    BY <1>1, <2>1 DEF Silent
<1> QED
  BY <1>3, <1>4, <1>5

LEMMA ProviderKeepsContract ==
  ASSUME Flow, NEW r \in Request, ProviderStep(r), UNCHANGED renterVars
  PROVE  Contract!Accept(r) \/ Contract!Settle(r) \/ Contract!Close(r) \/ Silent
<1>t. TypeOK /\ ResultFlow(r) /\ ResultFlow(r)'
  BY ProviderResultFlow DEF Flow, Typed
<1>l. /\ Job' = [Job EXCEPT ![r] = JobOf(r)']
      /\ Outcome' = [Outcome EXCEPT ![r] = OutcomeOf(r)']
      /\ UNCHANGED verdict
  BY <1>t, ContractStepIsLocal
<1>u. Job[r] = JobOf(r) /\ Outcome[r] = OutcomeOf(r)
  BY DEF Job, Outcome
<1>s. JobOf(r)' = JobOf(r) /\ OutcomeOf(r)' = OutcomeOf(r) => Silent
  BY <1>l, <1>u DEF Silent, Job, Outcome
<1> USE DEF Goto, TypeOK, ProviderTypeOK, childVars, hostVars
<1>1. CASE Receive(r)
  <2>1. JobOf(r) = "none" /\ JobOf(r)' = "active"
    BY <1>t, <1>1 DEF Receive, JobOf
  <2>2. OutcomeOf(r)' = OutcomeOf(r)
    BY <1>1 DEF Receive, OutcomeOf
  <2>3. Outcome' = Outcome
    BY <1>l, <1>u, <2>2 DEF Outcome
  <2> QED
    BY <1>l, <1>u, <2>1, <2>3 DEF Contract!Accept, Job, Outcome
<1>2. CASE Reject(r) \/ PrepareFails(r) \/ Finish(r)
  <2>1. /\ handler[r] \in {"checking", "preparing", "running"}
        /\ handler'[r] = "responding"
    BY <1>t, <1>2 DEF Reject, PrepareFails, Finish
  <2>2. JobOf(r) = "active" /\ JobOf(r)' = "active"
    BY <2>1 DEF JobOf
  <2>3. OutcomeOf(r) = "none"
    BY <1>t, <2>1 DEF ResultFlow, OutcomeOf
  <2>4. result'[r] # {}
    BY <1>t, <2>1 DEF ResultFlow
  <2>5. PICK a \in Answer : result'[r] = {a}
    BY <1>t, <2>4 DEF ResultFlow
  <2>6. OutcomeOf(r)' = a.status
    BY <2>5 DEF OutcomeOf
  <2>7. OutcomeOf(r)' \in {"success", "failed"}
    BY <2>6 DEF Answer, Terminal
  <2>8. Job' = Job
    BY <1>l, <1>u, <2>2 DEF Job
  <2> QED
    BY <1>l, <1>u, <2>2, <2>3, <2>7, <2>8 DEF Contract!Settle, Contract!Outcome, Job, Outcome
<1>3. CASE RespondOnly(r) \/ RespondFails(r) \/ RemoveDir(r) \/ RemoveDirFails(r)
  <2>1. /\ handler[r] \in {"responding", "removing"}
        /\ handler'[r] = "done"
        /\ UNCHANGED result
    BY <1>t, <1>3 DEF RespondOnly, RespondFails, RemoveDir, RemoveDirFails
  <2>2. JobOf(r) = "active" /\ JobOf(r)' = "closed"
    BY <2>1 DEF JobOf
  <2>3. OutcomeOf(r) # "none" /\ OutcomeOf(r)' = OutcomeOf(r)
    BY <1>t, <2>1, SettledIsKnown DEF ResultFlow, OutcomeOf
  <2>4. Outcome' = Outcome
    BY <1>l, <1>u, <2>3 DEF Outcome
  <2> QED
    BY <1>l, <1>u, <2>2, <2>3, <2>4 DEF Contract!Close, Job, Outcome
<1>4. CASE \/ MakeDir(r) \/ Prepare(r) \/ StartFails(r) \/ Start(r)
           \/ Respond(r) \/ Down(r) \/ DownFails(r)
  <2>1. /\ handler[r] \in Handling
        /\ handler'[r] \in Handling
        /\ UNCHANGED result
    BY <1>t, <1>4 DEF MakeDir, Prepare, StartFails, Start, Respond, Down, DownFails, Handling
  <2>2. JobOf(r)' = JobOf(r) /\ OutcomeOf(r)' = OutcomeOf(r)
    BY <2>1 DEF Handling, JobOf, OutcomeOf
  <2> QED
    BY <1>s, <2>2
<1>5. CASE ChildStep(r) \/ ReaderPush(r) \/ AnswerStatus(r)
  <2>1. UNCHANGED <<handler, result>>
    BY <1>5 DEF ChildStep, ChildPrints, ChildExits, ReaderPush, AnswerStatus, providerVars
  <2>2. JobOf(r)' = JobOf(r) /\ OutcomeOf(r)' = OutcomeOf(r)
    BY <2>1 DEF JobOf, OutcomeOf
  <2> QED
    BY <1>s, <2>2
<1> QED
  BY <1>1, <1>2, <1>3, <1>4, <1>5 DEF ProviderStep, HandlerStep

LEMMA EnvironmentKeepsContract ==
  ASSUME Flow,
         \/ \E r \in Request : StreamReset(r) \/ RequestLost(r)
         \/ \E n \in Node : Crash(n)
         \/ Tick
  PROVE  (\E lost \in SUBSET Request : Contract!Lose(lost)) \/ Silent
<1>1. CASE (\E r \in Request : StreamReset(r) \/ RequestLost(r)) \/ Tick
  <2>1. UNCHANGED <<handler, result, verdict>>
    BY <1>1 DEF StreamReset, RequestLost, Tick, renterVars, providerVars
  <2> QED
    BY <2>1 DEF Silent, Job, Outcome, JobOf, OutcomeOf
<1>2. ASSUME NEW n \in Node, Crash(n)
      PROVE  \E lost \in SUBSET Request : Contract!Lose(lost)
  <2> DEFINE lost == {r \in Request : Target[r] = n /\ handler[r] \in Handling}
  <2>1. UNCHANGED <<result, verdict>>
    BY <1>2 DEF Crash
  <2>2. \A r \in lost : Job[r] = "active"
    BY DEF Job, JobOf, Handling
  <2>3. \A r \in Request : JobOf(r)' = IF r \in lost THEN "lost" ELSE JobOf(r)
    BY <1>2 DEF Crash, JobOf
  <2>4. Job' = [r \in Request |-> IF r \in lost THEN "lost" ELSE Job[r]]
    BY <2>3 DEF Job
  <2>5. UNCHANGED Outcome
    BY <2>1 DEF Outcome, OutcomeOf
  <2>6. Contract!Lose(lost)
    BY <2>1, <2>2, <2>4, <2>5 DEF Contract!Lose, Job, Outcome
  <2> QED
    BY <2>6
<1> QED
  BY <1>1, <1>2

-----------------------------------------------------------------------------
LEMMA InitKeepsContract == Init => Contract!Init
  BY DEF Init, SharedInit, RenterInit, ProviderInit, Contract!Init, JobOf, OutcomeOf

LEMMA NextKeepsContract == Flow /\ [Next]_vars => [Contract!Next]_(Contract!vars)
<1> SUFFICES ASSUME Flow, [Next]_vars PROVE [Contract!Next]_(Contract!vars)
  OBVIOUS
<1>1. Silent => UNCHANGED Contract!vars
  BY DEF Silent, Job, Outcome, Contract!vars
<1>2. CASE UNCHANGED vars
  <2>1. Silent
    BY <1>2 DEF vars, renterVars, providerVars, Silent, Job, Outcome, JobOf, OutcomeOf
  <2> QED
    BY <1>1, <2>1
<1>3. CASE Next
  <2>1. Contract!Next \/ Silent
    BY <1>3, RenterKeepsContract, ProviderKeepsContract, EnvironmentKeepsContract
       DEF Next, Step, Contract!Next
  <2> QED
    BY <1>1, <2>1
<1> QED
  BY <1>2, <1>3

\* Every behaviour of the two sides, their streams and their crashes is one
\* that DeployContract allows.
THEOREM DeployKeepsContract == Spec => KeepsContract
<1>1. Init => Contract!Init
  BY InitKeepsContract
<1>2. Flow /\ [Next]_vars => [Contract!Next]_(Contract!vars)
  BY NextKeepsContract
<1> QED
  BY <1>1, <1>2, FlowIsInvariant, PTL DEF Spec, KeepsContract, Contract!Spec
=============================================================================
